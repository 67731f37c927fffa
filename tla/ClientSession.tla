----------------------------- MODULE ClientSession -----------------------------
(***************************************************************************)
(* A client (src/WASimClient/WASimClient.cpp) and the server, composed:    *)
(* what the application has registered with its client (data requests,     *)
(* calculator events, the pause of all updates) and what the server makes  *)
(* of the messages that tell it.  The server is WASimModule with Self for  *)
(* its one client.  Messages go through one queue and are handled later.   *)
(*                                                                         *)
(* Two threads of the application are at work: one makes and ends          *)
(* connections, the other one uses requests and events.  A call that       *)
(* stores something and sends it afterwards is two steps, as is one that   *)
(* waits for an answer.                                                    *)
(***************************************************************************)
EXTENDS WASimModule, FiniteSets, Sequences, Functions

CONSTANTS
    Self,         \* the client
    Saves,        \* the data requests the application saves
    Codes,        \* the codes it registers events with
    AllocLimit,   \* SIMCONNECT_DATA_ALLOC_LIMIT
    MaxWire,      \* bound on the messages under way
    MaxCalls,     \* bound on the calls of the application about requests and events
    MaxConnects,  \* bound on the calls of connectServer()
    MaxCrashes    \* bound on the times the client's process ends without a word

ASSUME SessionConstants ==
    /\ Clients = {Self}
    /\ Saves \subseteq DataRequest
    /\ IsFiniteSet(RequestIds) /\ IsFiniteSet(EventIds)
    /\ {AllocLimit, MaxWire, MaxCalls, MaxConnects, MaxCrashes} \subseteq Nat
    /\ None \notin Codes \cup {""} /\ "" \notin Codes
    /\ None \notin DataRequest /\ None \notin TrackedRequest

VARIABLES
    link,             \* Client::status: "none", "sim", "connecting" or "server"
    serverConnected,
    replay,           \* what connectServer() has still to send
    mine,             \* Private::requests
    heard,            \* size of the data area the client made and listens to for a request, 0 for none
    totalDataAlloc,
    requestsPaused,
    saving,           \* the call of the other thread that is in progress
    codes,            \* Private::events: the code, empty if the event is to be removed
    sentToServer,
    wire,             \* messages to the server
    theirs,           \* TrackedEvent::execCode at the server
    deaf,             \* history: requests first saved over a link without a server
    unsettled,        \* history: requests whose last change the server refused or never heard of
    raced,            \* history: the pause flag changed while it was being sent again
    orphans,          \* history: events removed without a word to the server that knew them
    calls, connects, crashes

serverVars == vars
requestVars == <<mine, heard, totalDataAlloc, deaf, unsettled>>
counters == <<calls, connects, crashes>>
clientEventVars == <<codes, sentToServer, orphans>>
clientVars == <<link, serverConnected, replay, requestVars, requestsPaused, raced, saving, clientEventVars, counters>>
allVars == <<serverVars, clientVars, wire, theirs>>

IsConnected == link = "server"
NoSave == [at |-> "none", r |-> None, new |-> FALSE, reply |-> "None"]

Send(msgs) == wire' = wire \o msgs
SendIfConnected(msg) == Send(IF IsConnected THEN <<msg>> ELSE <<>>)
\* A call of the thread that uses requests and events begins.
Call == saving = NoSave /\ calls < MaxCalls /\ calls' = calls + 1
Room(n) == Len(wire) + n <= MaxWire

\* Some message of this kind about id is among those.
OnItsWay(cmd, id, msgs) == \E i \in DOMAIN msgs : msgs[i].cmd = cmd /\ msgs[i].id = id

\* What the server holds, or may come to hold by a message that is under way
Known(it) == it # None \/ wire # <<>>

SaveMsg(r) == [cmd |-> "Save", id |-> r, arg |-> mine[r]]
RemoveMsg(r) == [cmd |-> "Remove", id |-> r, arg |-> None]
SubscribeMsg(on) == [cmd |-> "Subscribe", id |-> None, arg |-> on]
RegisterMsg(e, code) == [cmd |-> "Register", id |-> e, arg |-> code]
Msg0(cmd) == [cmd |-> cmd, id |-> None, arg |-> None]

SessionInit ==
    /\ Init
    /\ link = "none"
    /\ serverConnected = FALSE
    /\ replay = <<>>
    /\ mine = [r \in RequestIds |-> None]
    /\ heard = [r \in RequestIds |-> 0]
    /\ totalDataAlloc = 0
    /\ requestsPaused = FALSE
    /\ saving = NoSave
    /\ codes = [e \in EventIds |-> None]
    /\ sentToServer = [e \in EventIds |-> FALSE]
    /\ wire = <<>>
    /\ theirs = [e \in EventIds |-> None]
    /\ deaf = {} /\ unsettled = {} /\ orphans = {}
    /\ raced = FALSE
    /\ calls = 0 /\ connects = 0 /\ crashes = 0

--------------------------------------------------------------------------------
\* Data requests

Stored == {r \in RequestIds : mine[r] # None}

\* addOrUpdateRequest(): validated and stored.  The assignment makes no difference to the area.
Valid(r, req) ==
    /\ totalDataAlloc + req.size <= AllocLimit
    /\ mine[r] # None => req.size <= mine[r].size

SaveRequest(r, req) ==
    /\ Call
    /\ Valid(r, req)
    /\ mine' = [mine EXCEPT ![r] = req]
    /\ saving' = [NoSave EXCEPT !.at = IF mine[r] # None /\ mine[r].size # req.size THEN "resize" ELSE "submit",
                                !.r = r, !.new = (mine[r] = None)]
    /\ UNCHANGED <<serverVars, link, serverConnected, replay, heard, totalDataAlloc, deaf, unsettled,
                   requestsPaused, raced, clientEventVars, connects, crashes, wire, theirs>>

\* registerDataRequestArea()
Registered_Uncounted == totalDataAlloc      \* slip: the size of the area is not added
Registered == totalDataAlloc + mine[saving.r].size

\* With a connection the area is made, or defined again for another size if there is one, and the
\* request is sent.
SubmitRequest ==
    /\ saving.at \in {"submit", "resize"}
    /\ LET remake == saving.new \/ saving.at = "resize"
           works == saving.new \/ (saving.at = "resize" /\ heard[saving.r] # 0)
       IN
       IF IsConnected
       THEN /\ Room(1)
            /\ heard' = IF works THEN [heard EXCEPT ![saving.r] = mine[saving.r].size] ELSE heard
            /\ deaf' = IF works THEN deaf \ {saving.r} ELSE deaf
            /\ totalDataAlloc' = IF saving.new THEN Registered ELSE totalDataAlloc
            /\ unsettled' = unsettled \cup {saving.r}
            /\ Send(<<SaveMsg(saving.r)>>)
            /\ \E async \in BOOLEAN : saving' = IF async THEN NoSave ELSE [saving EXCEPT !.at = "wait"]
       ELSE /\ saving' = NoSave
            /\ deaf' = IF remake /\ link # "none" THEN deaf \cup {saving.r} ELSE deaf
            /\ UNCHANGED <<heard, totalDataAlloc, unsettled, wire>>
    /\ UNCHANGED <<serverVars, link, serverConnected, replay, mine, requestsPaused, raced,
                   clientEventVars, counters, theirs>>

\* removeRequest(): the server is told only over a connection.  The area is given up, or is left to no
\* request: one that is saved with the same id later gets a data id of its own.
Removed(r) ==
    /\ mine' = [mine EXCEPT ![r] = None]
    /\ heard' = [heard EXCEPT ![r] = 0]
    /\ deaf' = deaf \ {r}
    /\ unsettled' = IF ~IsConnected /\ Known(requests[Self][r]) THEN unsettled \cup {r} ELSE unsettled \ {r}

\* A new request that is refused or not answered in time is removed again.  The answer may be one to
\* an earlier message about the same request, if another one is still under way.
EndSave ==
    /\ saving.at = "wait"
    /\ LET ok == saving.reply = "Ack" IN
       \/ /\ ok
          /\ unsettled' = IF OnItsWay("Save", saving.r, wire) THEN unsettled ELSE unsettled \ {saving.r}
          /\ UNCHANGED <<mine, heard, deaf, wire>>
       \/ /\ ~ok \/ saving.reply = "Nak"
          /\ saving.new
          /\ Room(1)
          /\ Removed(saving.r)
          /\ SendIfConnected(RemoveMsg(saving.r))
       \/ /\ ~ok
          /\ ~saving.new
          /\ UNCHANGED <<mine, heard, deaf, unsettled, wire>>
    /\ saving' = NoSave
    /\ UNCHANGED <<serverVars, link, serverConnected, replay, totalDataAlloc, requestsPaused, raced,
                   clientEventVars, counters, theirs>>

RemoveDataRequest(r) ==
    /\ Call
    /\ mine[r] # None
    /\ Room(1)
    /\ Removed(r)
    /\ SendIfConnected(RemoveMsg(r))
    /\ UNCHANGED <<serverVars, link, serverConnected, replay, totalDataAlloc, requestsPaused, raced, saving,
                   clientEventVars, connects, crashes, theirs>>

UpdateDataRequest(r) ==
    /\ Call
    /\ mine[r] # None
    /\ IsConnected
    /\ Room(1)
    /\ Send(<<[Msg0("Update") EXCEPT !.id = r]>>)
    /\ UNCHANGED <<serverVars, link, serverConnected, replay, requestVars, requestsPaused, raced, saving,
                   clientEventVars, connects, crashes, theirs>>

\* setDataRequestsPaused() tells the server if there is one, and keeps the flag for the next connection.
SetDataRequestsPaused(p) ==
    /\ Call
    /\ Room(1)
    /\ saving' = [NoSave EXCEPT !.at = "pause", !.new = p]
    /\ SendIfConnected(SubscribeMsg(~p))
    /\ raced' = (raced /\ ~IsConnected)
    /\ UNCHANGED <<serverVars, link, serverConnected, replay, requestVars, requestsPaused,
                   clientEventVars, connects, crashes, theirs>>

StorePaused ==
    /\ saving.at = "pause"
    /\ requestsPaused' = saving.new
    /\ saving' = NoSave
    /\ UNCHANGED <<serverVars, link, serverConnected, replay, requestVars, raced, clientEventVars,
                   counters, wire, theirs>>

--------------------------------------------------------------------------------
\* Calculator events

\* registerEvent().  A code that is registered already is not sent again.
RegisterClientEvent(e, code) ==
    /\ Call
    /\ codes[e] # code
    /\ Room(1)
    /\ codes' = [codes EXCEPT ![e] = code]
    /\ sentToServer' = [sentToServer EXCEPT ![e] = IsConnected \/ (codes[e] # None /\ @)]
    /\ SendIfConnected(RegisterMsg(e, code))
    /\ orphans' = orphans \ {e}
    /\ UNCHANGED <<serverVars, link, serverConnected, replay, requestVars, requestsPaused, raced, saving,
                   connects, crashes, theirs>>

\* removeEvent(): at once if the server was never sent the event, now if it is connected, or later.
RemoveClientEvent(e) ==
    /\ Call
    /\ codes[e] # None
    /\ Room(1)
    /\ codes' = [codes EXCEPT ![e] = IF ~sentToServer[e] \/ IsConnected THEN None ELSE ""]
    /\ IF sentToServer[e] THEN SendIfConnected(RegisterMsg(e, "")) ELSE UNCHANGED wire
    /\ orphans' = IF ~sentToServer[e] /\ Known(theirs[e]) THEN orphans \cup {e} ELSE orphans
    /\ UNCHANGED <<serverVars, link, serverConnected, replay, requestVars, requestsPaused, raced, saving,
                   sentToServer, connects, crashes, theirs>>

--------------------------------------------------------------------------------
\* Connections

\* registerAllDataRequestAreas(): connectSimulator() makes the areas of all requests.
AllAreas_NotMade == heard                   \* slip: only new requests get an area
AllAreas == [r \in RequestIds |-> IF mine[r] = None THEN 0 ELSE mine[r].size]

ConnectSimulator ==
    /\ link = "none"
    /\ link' = "sim"
    /\ heard' = AllAreas
    /\ totalDataAlloc' = totalDataAlloc + SumFunction([r \in Stored |-> mine[r].size])
    /\ deaf' = {}
    /\ UNCHANGED <<serverVars, serverConnected, replay, mine, unsettled, requestsPaused, raced, saving,
                   clientEventVars, counters, wire, theirs>>

ConnectServer ==
    /\ link \in {"sim", "server"}
    /\ replay = <<>>
    /\ connects < MaxConnects
    /\ connects' = connects + 1
    /\ Room(1)
    /\ link' = "connecting"
    /\ Send(<<Msg0("Connect")>>)
    /\ UNCHANGED <<serverVars, serverConnected, replay, requestVars, requestsPaused, raced, saving,
                   clientEventVars, calls, crashes, theirs>>

\* The wait ends with the server's answer, or without.
AwaitServer ==
    /\ link = "connecting"
    /\ IF serverConnected THEN link' = "server" /\ replay' = <<"pause", "requests", "events">>
                          ELSE link' = "sim" /\ UNCHANGED replay
    /\ UNCHANGED <<serverVars, serverConnected, requestVars, requestsPaused, raced, saving, clientEventVars,
                   counters, wire, theirs>>

\* What is sent upon connection: the pause flag, all requests, all events; those to remove come last.
\* The maps that hold them are walked in any order.
Orders(S) == Bijection(1..Cardinality(S), S)
RemovalsLast(ids) == \A i, j \in DOMAIN ids : i < j /\ codes[ids[i]] = "" => codes[ids[j]] = ""

ReplaySubscribe_Dropped == {<<>>}           \* slip: the pause flag is not sent again
ReplaySubscribe == {<<SubscribeMsg(~requestsPaused)>>}
ReplayRequests_None == {<<>>}               \* slip: requests are not registered again
ReplayRequests == {[i \in DOMAIN ids |-> SaveMsg(ids[i])] : ids \in Orders(Stored)}
ReplayEvents_None == {<<>>}                 \* slip: events are not registered again
ReplayEvents ==
    LET known == {e \in EventIds : codes[e] # None}
    IN {[i \in DOMAIN ids |-> RegisterMsg(ids[i], codes[ids[i]])] : ids \in {o \in Orders(known) : RemovalsLast(o)}}

Replay ==
    /\ replay # <<>>
    /\ replay' = Tail(replay)
    /\ raced' = IF Head(replay) = "pause" THEN saving.at = "pause" ELSE raced
    /\ IF ~IsConnected THEN UNCHANGED <<codes, wire>>
       ELSE \E msgs \in CASE Head(replay) = "pause"    -> ReplaySubscribe
                          [] Head(replay) = "requests" -> ReplayRequests
                          [] Head(replay) = "events"   -> ReplayEvents :
               /\ Room(Len(msgs))
               /\ Send(msgs)
               /\ codes' = IF Head(replay) = "events"
                           THEN [e \in EventIds |-> IF codes[e] = "" THEN None ELSE codes[e]] ELSE codes
    /\ UNCHANGED <<serverVars, link, serverConnected, requestVars, requestsPaused, saving,
                   sentToServer, orphans, counters, theirs>>

\* disconnectServer(), also on the server's own Disconnect command
DisconnectServer ==
    /\ serverConnected
    /\ link # "connecting"
    /\ Room(1)
    /\ SendIfConnected(Msg0("Disconnect"))
    /\ serverConnected' = FALSE
    /\ link' = "sim"
    /\ UNCHANGED <<serverVars, replay, requestVars, requestsPaused, raced, saving, clientEventVars, counters, theirs>>

\* disconnectSimulator(), once disconnectServer() has run
DisconnectSimulator ==
    /\ link = "sim"
    /\ ~serverConnected
    /\ link' = "none"
    /\ heard' = [r \in RequestIds |-> 0]
    /\ totalDataAlloc' = 0
    /\ UNCHANGED <<serverVars, serverConnected, replay, mine, deaf, unsettled, requestsPaused, raced, saving,
                   clientEventVars, counters, wire, theirs>>

\* The process of the client ends, and another one starts with the same client id.
Crash ==
    /\ crashes < MaxCrashes
    /\ crashes' = crashes + 1
    /\ link' = "none"
    /\ serverConnected' = FALSE
    /\ replay' = <<>>
    /\ mine' = [r \in RequestIds |-> None]
    /\ heard' = [r \in RequestIds |-> 0]
    /\ totalDataAlloc' = 0
    /\ requestsPaused' = FALSE
    /\ saving' = NoSave
    /\ codes' = [e \in EventIds |-> None]
    /\ sentToServer' = [e \in EventIds |-> FALSE]
    /\ deaf' = {} /\ unsettled' = {} /\ orphans' = {}
    /\ raced' = FALSE
    /\ UNCHANGED <<serverVars, wire, theirs, calls, connects>>

--------------------------------------------------------------------------------
\* The server takes the next message.  One from a client it has no record of is ignored.

Acked == \E m \in sent' : m.id = "Ack"

TheirEvent(msg) ==
    IF msg.cmd = "Register" THEN [theirs EXCEPT ![msg.id] = IF ~Acked THEN @ ELSE IF msg.arg = "" THEN None ELSE msg.arg]
    ELSE [e \in EventIds |-> IF e \in events'[Self] THEN theirs[e] ELSE None]

Serve ==
    /\ wire # <<>>
    /\ wire' = Tail(wire)
    /\ LET msg == Head(wire) IN
       /\ IF msg.cmd # "Connect" /\ status[Self] = "None" THEN UNCHANGED serverVars
          ELSE CASE msg.cmd = "Connect"    -> ConnectEvent(Self)
                 [] msg.cmd = "Disconnect" -> Disconnect(Self)
                 [] msg.cmd = "Save"       -> AddRequest(Self, msg.id, msg.arg) \/ UpdateRequest(Self, msg.id, msg.arg)
                 [] msg.cmd = "Remove"     -> RemoveRequest(Self, msg.id)
                 [] msg.cmd = "Update"     -> UpdateCommand(Self, msg.id)
                 [] msg.cmd = "Subscribe"  -> IF msg.arg THEN Resume(Self) ELSE Suspend(Self)
                 [] msg.cmd = "Register"   -> IF msg.arg = "" THEN RemoveEvent(Self, msg.id)
                                                              ELSE RegisterEvent(Self, msg.id)
       /\ theirs' = TheirEvent(msg)
       /\ serverConnected' = (serverConnected \/ (msg.cmd = "Connect" /\ Acked /\ link # "none"))
       /\ saving' = IF msg.cmd = "Save" /\ saving.at = "wait" /\ saving.r = msg.id
                    THEN [saving EXCEPT !.reply = IF Acked THEN "Ack" ELSE "Nak"] ELSE saving
       /\ unsettled' = {r \in unsettled : msg.cmd # "Disconnect" \/ OnItsWay("Save", r, wire')}
       /\ orphans' = {e \in orphans : msg.cmd # "Disconnect" \/ OnItsWay("Register", e, wire')}
    /\ UNCHANGED <<link, replay, mine, heard, totalDataAlloc, deaf, requestsPaused, raced, codes,
                   sentToServer, counters>>

SessionNext ==
    \/ \E r \in RequestIds :
         \/ \E req \in Saves : SaveRequest(r, req)
         \/ RemoveDataRequest(r)
         \/ UpdateDataRequest(r)
    \/ SubmitRequest \/ EndSave \/ StorePaused
    \/ \E p \in BOOLEAN : SetDataRequestsPaused(p)
    \/ \E e \in EventIds : RemoveClientEvent(e) \/ \E code \in Codes : RegisterClientEvent(e, code)
    \/ ConnectSimulator \/ ConnectServer \/ AwaitServer \/ Replay
    \/ DisconnectServer \/ DisconnectSimulator \/ Crash
    \/ Serve

SessionSpec == SessionInit /\ [][SessionNext]_allVars

--------------------------------------------------------------------------------
\* Properties

\* The client is connected, no call is in progress and no message is under way.
Settled == IsConnected /\ serverConnected /\ replay = <<>> /\ wire = <<>> /\ saving = NoSave

\* Requests are saved, changed and removed over a connection, without one and while one is being made,
\* and sent again with each new one.  Once all is settled the server serves those the client holds, as
\* it holds them, and no others.  A crash leaves the server with requests of the process that is gone.
RequestsAgree ==
    Settled /\ crashes = 0 =>
        \A r \in RequestIds \ unsettled :
            LET theirs_r == requests[Self][r] IN
            IF mine[r] = None THEN theirs_r = None
            ELSE /\ theirs_r # None
                 /\ <<theirs_r.size, theirs_r.compare, theirs_r.period>> = <<mine[r].size, mine[r].compare, mine[r].period>>

\* The pause of all updates which the application asked for last is the one the server has, through
\* disconnections and crashes, unless the flag was sent again in the middle of the call.
PauseAgrees == Settled /\ ~raced => paused[Self] = requestsPaused

\* The same of calculator events: the server has the code registered last, and has forgotten those the
\* application removed, if it had been told of them by registerEvent().
EventsAgree ==
    Settled /\ crashes = 0 => \A e \in EventIds \ orphans : theirs[e] = codes[e]

\* The client listens to an area of the right size for each request it has over a connection, whichever
\* came first, the request or the connections to simulator and server, except for those saved between the two.
HeardWhenServed ==
    \A r \in RequestIds :
        IsConnected /\ mine[r] # None /\ saving.r # r /\ r \notin deaf => heard[r] = mine[r].size

\* WASimClient.h:288: "If the client is not currently connected to the server, the request is queued
\* until the next connection is established".  Once it is, the client listens for its values.
QueuedRequestIsHeard ==
    \A r \in RequestIds : Settled /\ mine[r] # None => heard[r] # 0

\* The allocation that is held against SIMCONNECT_DATA_ALLOC_LIMIT is never less than what is in use.
AllocationIsCounted == SumFunction(heard) <= totalDataAlloc
================================================================================
