------------------------------ MODULE ListRequests ------------------------------
(***************************************************************************)
(* List requests of the client (src/WASimClient/WASimClient.cpp): list()   *)
(* sends the command and leaves the rest to a thread of its own, which     *)
(* waits for the end of the list and hands the items to a callback.  The   *)
(* items are gathered in one TempListResult, which all calls share and     *)
(* connectServer() resets.                                                 *)
(*                                                                         *)
(* A step is what happens under one lock, or one access to what threads    *)
(* share.  Messages to the server and back keep their order and are        *)
(* delivered later.  The memory of a response record that was erased is    *)
(* the concern of CommandTracking: here it answers no token any more.      *)
(***************************************************************************)
EXTENDS Naturals, Sequences, FiniteSets, Functions

CONSTANTS
    Threads,       \* application threads that call list()
    Types,         \* LookupItemType: the types that can be listed
    None,
    Lengths,       \* the numbers of items a list may have
    MaxLists,      \* bound on the calls of list() that get past its checks
    MaxConnects    \* bound on the calls of connectServer()

ASSUME ListConstants ==
    /\ {MaxLists, MaxConnects} \cup Lengths \subseteq Nat
    /\ None \notin Types

VARIABLES
    listType, token, result,   \* TempListResult; an item is the token of the command it came for
    inTime,                    \* listResult.nextTimeout is not over
    caller,                    \* a thread between the two checks of list(), and what it lists
    reponses,                  \* the tracked responses: "None" until an answer is there
    waiter,                    \* the thread of each call: where it is, the token it waits for, its result
    status,                    \* "SimConnected", "Connecting" or "Connected"
    serverConnected,
    fresh,                     \* connectServer() has set Connected and is not yet done
    wire, back,                \* messages to the server and from it
    known,                     \* the server has a record of the client
    nextCmdToken, connects,
    items,                     \* history: how many items the server sent for a command
    delivered,                 \* history: what each call handed to the callback
    late,                      \* history: the last list was made before connectServer(), and was still under
                               \*          way at its reset
    raced                      \* history: calls made before connectServer() was done, or next when late, or
                               \*          interrupted by its reset or by another call of the same moment

listVars  == <<listType, token, result>>
connVars  == <<status, serverConnected, fresh, connects>>
history   == <<items, delivered, late>>
vars == <<listVars, inTime, caller, reponses, waiter, connVars, wire, back, known, nextCmdToken, history, raced>>

Calls == 1..MaxLists
NoWaiter == [at |-> "none", type |-> None, token |-> 0, hr |-> "None"]
Nothing  == [hr |-> "None", type |-> None, items |-> <<>>]

\* The calls between list() and the end of their thread
Live == {k \in Calls : waiter[k].at \notin {"none", "done"}}

Init ==
    /\ listType = None /\ token = 0 /\ result = <<>>
    /\ inTime = FALSE
    /\ caller = [t \in Threads |-> None]
    /\ reponses = [k \in {} |-> "None"]
    /\ waiter = [k \in Calls |-> NoWaiter]
    /\ status = "SimConnected" /\ serverConnected = FALSE /\ fresh = FALSE /\ connects = 0
    /\ wire = <<>> /\ back = <<>> /\ known = FALSE
    /\ nextCmdToken = 1
    /\ items = [k \in Calls |-> 0]
    /\ delivered = [k \in Calls |-> Nothing]
    /\ late = FALSE /\ raced = {}

--------------------------------------------------------------------------------
\* list()

\* One list at a time: refused while listType is set.
CheckPending(t, type) ==
    /\ caller[t] = None
    /\ listType = None
    /\ nextCmdToken <= MaxLists
    /\ caller' = [caller EXCEPT ![t] = type]
    /\ UNCHANGED <<listVars, inTime, reponses, waiter, connVars, wire, back, known, nextCmdToken, history, raced>>

\* Under the mutex of the result; the rest of sendServerCommand() writes the message if the server is
\* connected and SimConnect takes it.  A list that was not sent leaves its type behind.
StartList(t) ==
    /\ caller[t] # None
    /\ nextCmdToken <= MaxLists
    /\ caller' = [caller EXCEPT ![t] = None]
    /\ listType' = caller[t]
    /\ token' = nextCmdToken
    /\ inTime' = TRUE
    /\ nextCmdToken' = nextCmdToken + 1
    /\ \/ /\ status = "Connected"
          /\ wire' = Append(wire, [cmd |-> "List", token |-> nextCmdToken])
          /\ reponses' = [k \in DOMAIN reponses \cup {nextCmdToken} |->
                            IF k = nextCmdToken THEN "None" ELSE reponses[k]]
          /\ waiter' = [waiter EXCEPT ![nextCmdToken] = [NoWaiter EXCEPT !.at = "start", !.type = caller[t]]]
       \/ UNCHANGED <<wire, reponses, waiter>>
    /\ raced' = IF listType # None \/ fresh \/ late \/ Live \cap raced # {}
               THEN raced \cup Live \cup {nextCmdToken} ELSE raced
    /\ late' = FALSE
    /\ UNCHANGED <<result, connVars, back, known, items, delivered>>

--------------------------------------------------------------------------------
\* waitListRequestEnd() and waitCommandResponse(): the thread of call k

Move(k, w) == waiter' = [waiter EXCEPT ![k] = w]

\* It reads the token when it runs, and looks for the response record.
StartWaiting(k) ==
    /\ waiter[k].at = "start"
    /\ Move(k, IF token \in DOMAIN reponses THEN [waiter[k] EXCEPT !.at = "check", !.token = token]
                                            ELSE [waiter[k] EXCEPT !.at = "callback", !.hr = "E_FAIL"])
    /\ UNCHANGED <<listVars, inTime, caller, reponses, connVars, wire, back, known, nextCmdToken, history, raced>>

\* stop_waiting(): an answer counts only while the time for the next item is not over.
Answer(k) == IF waiter[k].token \in DOMAIN reponses THEN reponses[waiter[k].token] ELSE "None"
StopWaiting(k) == ~serverConnected \/ (Answer(k) # "None" /\ inTime)

\* Evaluated before sleeping and when woken; the record is erased at the end.
Without(f, x) == [k \in DOMAIN f \ {x} |-> f[k]]
Check(k) ==
    /\ waiter[k].at = "check"
    /\ IF StopWaiting(k)
       THEN /\ Move(k, [waiter[k] EXCEPT !.at = "callback", !.hr = IF Answer(k) = "Ack" THEN "S_OK" ELSE "E_FAIL"])
            /\ reponses' = Without(reponses, waiter[k].token)
       ELSE /\ Move(k, [waiter[k] EXCEPT !.at = "sleep"])
            /\ UNCHANGED reponses
    /\ UNCHANGED <<listVars, inTime, caller, connVars, wire, back, known, nextCmdToken, history, raced>>

\* notify_all() on the condition variable that all list requests share
Woken_None == waiter                                                  \* slip: not notified
Woken == [k \in Calls |-> IF waiter[k].at = "sleep" THEN [waiter[k] EXCEPT !.at = "check"] ELSE waiter[k]]

\* TempListResult::reset() keeps the token.
Reset_TypeOnly == listType' = None /\ UNCHANGED <<token, result>>     \* slip: the items stay
Reset == listType' = None /\ result' = <<>> /\ UNCHANGED token

WhileCalling_Reset == Reset                                           \* slip: reset once the result is copied
WhileCalling == UNCHANGED listVars

\* The callback gets a copy of the result; the next list may start when it has returned.
Callback(k) ==
    /\ waiter[k].at = "callback"
    /\ Move(k, [waiter[k] EXCEPT !.at = "reset"])
    /\ delivered' = [delivered EXCEPT ![k] = [hr |-> waiter[k].hr, type |-> listType, items |-> result]]
    /\ WhileCalling
    /\ UNCHANGED <<inTime, caller, reponses, connVars, wire, back, known, nextCmdToken, items, late, raced>>

EndWaiting(k) ==
    /\ waiter[k].at = "reset"
    /\ Reset
    /\ Move(k, [waiter[k] EXCEPT !.at = "done"])
    /\ UNCHANGED <<inTime, caller, reponses, connVars, wire, back, known, nextCmdToken, history, raced>>

WaitListRequestEnd(k) == StartWaiting(k) \/ Check(k) \/ Callback(k) \/ EndWaiting(k)

\* The time for the next item passes, while there is a thread to which it matters.
Lapse ==
    /\ inTime
    /\ Live # {}
    /\ inTime' = FALSE
    /\ UNCHANGED <<listVars, caller, reponses, waiter, connVars, wire, back, known, nextCmdToken, history, raced>>

--------------------------------------------------------------------------------
\* The server and the dispatch thread

Serve ==
    /\ wire # <<>>
    /\ wire' = Tail(wire)
    /\ LET msg == Head(wire) IN
       CASE msg.cmd = "Connect" -> known' = TRUE /\ back' = Append(back, msg) /\ UNCHANGED items
         [] msg.cmd = "Disconnect" -> known' = FALSE /\ UNCHANGED <<back, items>>
         [] msg.cmd = "List" ->
              /\ UNCHANGED known
              /\ IF ~known THEN UNCHANGED <<back, items>>
                 ELSE \E n \in Lengths :
                        /\ items' = [items EXCEPT ![msg.token] = n]
                        /\ back' = back \o [i \in 1..n |-> [cmd |-> "Item", token |-> msg.token]]
                                        \o <<[cmd |-> "Ack", token |-> msg.token]>>
    /\ UNCHANGED <<listVars, inTime, caller, reponses, waiter, connVars, nextCmdToken, delivered, late, raced>>

\* An item for another token than the current one is dropped.
ReceiveItem(msg) == result' = IF msg.token = token THEN Append(result, msg.token) ELSE result

Receive ==
    /\ back # <<>>
    /\ back' = Tail(back)
    /\ LET msg == Head(back) IN
       \/ /\ msg.cmd = "Item"
          /\ ReceiveItem(msg)
          /\ inTime' = (inTime \/ msg.token = token)
          /\ UNCHANGED <<reponses, waiter, serverConnected>>
       \/ /\ msg.cmd = "Ack"
          /\ IF msg.token \in DOMAIN reponses
             THEN reponses' = [reponses EXCEPT ![msg.token] = "Ack"] /\ waiter' = Woken
             ELSE UNCHANGED <<reponses, waiter>>
          /\ UNCHANGED <<result, inTime, serverConnected>>
       \/ /\ msg.cmd = "Connect"
          /\ serverConnected' = TRUE
          /\ UNCHANGED <<result, inTime, reponses, waiter>>
    /\ UNCHANGED <<listType, token, caller, status, fresh, connects, wire, known, nextCmdToken, history, raced>>

--------------------------------------------------------------------------------
\* connectServer() and disconnectServer(), called by another thread

ConnectServer ==
    /\ status # "Connecting" /\ ~fresh
    /\ connects < MaxConnects
    /\ connects' = connects + 1
    /\ status' = "Connecting"
    /\ wire' = Append(wire, [cmd |-> "Connect", token |-> 0])
    /\ UNCHANGED <<listVars, inTime, caller, reponses, waiter, serverConnected, fresh, back, known,
                   nextCmdToken, history, raced>>

\* The wait ends, with a server or without.
AwaitServer ==
    /\ status = "Connecting"
    /\ status' = IF serverConnected THEN "Connected" ELSE "SimConnected"
    /\ fresh' = serverConnected
    /\ UNCHANGED <<listVars, inTime, caller, reponses, waiter, serverConnected, connects, wire, back, known,
                   nextCmdToken, history, raced>>

\* Messages of list k that are still to come, but for its end
UnderWay(k) == [cmd |-> "List", token |-> k] \in Range(wire) \/ [cmd |-> "Item", token |-> k] \in Range(back)

\* "clear any pending list request (unlikely)"
ClearPending_Not == UNCHANGED listVars                                \* slip: nothing is cleared
ClearPending == Reset

ResetPending ==
    /\ fresh
    /\ fresh' = FALSE
    /\ ClearPending
    /\ raced' = raced \cup Live
    /\ late' = UnderWay(token)
    /\ UNCHANGED <<inTime, caller, reponses, waiter, status, serverConnected, connects, wire, back, known,
                   nextCmdToken, items, delivered>>

DisconnectServer ==
    /\ serverConnected
    /\ status # "Connecting"
    /\ status' = "SimConnected"
    /\ serverConnected' = FALSE
    /\ reponses' = [k \in {} |-> "None"]
    /\ wire' = IF status = "Connected" THEN Append(wire, [cmd |-> "Disconnect", token |-> 0]) ELSE wire
    /\ UNCHANGED <<listVars, inTime, caller, waiter, fresh, connects, back, known, nextCmdToken, history, raced>>

Next ==
    \/ \E t \in Threads : StartList(t) \/ \E type \in Types : CheckPending(t, type)
    \/ \E k \in Calls : WaitListRequestEnd(k)
    \/ Lapse
    \/ Serve \/ Receive
    \/ ConnectServer \/ AwaitServer \/ ResetPending \/ DisconnectServer

Spec == Init /\ [][Next]_vars

\* The threads of the process run.  Nothing is assumed of the server, nor of the application.
Fairness == \A k \in Calls : WF_vars(WaitListRequestEnd(k))
FairSpec == Spec /\ Fairness

--------------------------------------------------------------------------------
\* Properties

\* WASimClient.h:508: "only one pending list request can be active at any time".  Two threads which list
\* at once, and connectServer(), can break this; nothing else does.
OneListAtATime == \A j, k \in Live \ raced : j = k

\* A list that is reported as complete has all the items the server sent for it and no other, whatever
\* lists failed, or came late over an earlier connection, before it.
SuccessIsComplete ==
    \A k \in Calls \ raced :
        delivered[k].hr = "S_OK" =>
            /\ delivered[k].type = waiter[k].type
            /\ delivered[k].items = [i \in 1..items[k] |-> k]

\* A list whose end has been received is reported, unless its thread is so slow that the time for another
\* item passes, or the connection ends, before it has looked.
AnsweredListEnds ==
    \A k \in Calls :
        (k \in DOMAIN reponses /\ reponses[k] = "Ack" /\ waiter[k].at # "none" /\ k \notin raced)
            ~> (waiter[k].at = "done" \/ ~inTime \/ ~serverConnected \/ k \in raced)
================================================================================
