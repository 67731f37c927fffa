------------------------------ MODULE WASimModule ------------------------------
(***************************************************************************)
(* The WASM server (src/WASimModule/WASimModule.cpp).  The module runs on  *)
(* one thread: SimConnect calls dispatchMessage() with one message at a    *)
(* time and every handler runs to its end before the next message, so one  *)
(* handler is one action.  Modelled here: the client records with their    *)
(* status, pause flag and deadlines, the data requests with the value the  *)
(* server last stored and the data area the client reads, the registered   *)
(* calculator events with the SimConnect event ids they are mapped to, and *)
(* the frame trigger which every client shares.                            *)
(*                                                                         *)
(* The unit of time is TICK_PERIOD_MS.  Values are abstract, and all       *)
(* requests read the one simulator value simval; which variable a request  *)
(* names, its unit and its result type are not distinguished here.         *)
(***************************************************************************)
EXTENDS Naturals

CONSTANTS
    Clients,         \* client ids (an id of zero is refused by getOrCreateClient)
    RequestIds,      \* ids of data requests, private to a client
    EventIds,        \* ids of registered calculator events, private to a client
    Sizes,           \* value sizes in bytes
    Intervals,       \* update intervals, in ticks
    Values,          \* values of the simulator variable
    Fill,            \* the value whose bytes are all 0xFF, the initial content of TrackedRequest::data
    None,            \* no record
    CONN_TIMEOUT,    \* CONN_TIMEOUT_SEC in ticks
    CONN_HEARTBEAT,  \* CONN_HEARTBEAT_SEC in ticks
    MaxSimEvent,     \* bound on g_nextClientEventId
    CanFail          \* the kinds of SimConnect and Gauge API calls that may fail

FailureKinds == {"area", "definition", "trigger", "lookup", "compile", "event"}

ASSUME ServerConstants ==
    /\ Sizes \subseteq Nat \ {0}
    /\ Intervals \subseteq Nat
    /\ CONN_TIMEOUT \in Nat \ {0}
    /\ CONN_HEARTBEAT \in Nat \ {0}
    /\ MaxSimEvent \in Nat
    /\ CanFail \subseteq FailureKinds
    /\ None \notin Clients \X EventIds

VARIABLES
    running,      \* the module is loaded and SimConnect dispatches to it
    status,       \* Client::status; "None" when the client has no record in g_mClients
    paused,       \* Client::pauseDataUpdates
    timeout,      \* ticks left until Client::nextTimeout
    heartbeat,    \* ticks left until Client::nextHearbeat
    requests,     \* Client::requests
    events,       \* Client::events: the ids which have a TrackedEvent
    eventIds,     \* g_mEventIds: the client and event id behind a SimConnect event id
    nextEventId,  \* g_nextClientEventId
    trigger,      \* g_triggersRegistered
    tickDue,      \* g_tpNextTick has passed
    simval,       \* the simulator variable
    defs,         \* size of the SimConnect data definition behind a request's dataId, 0 if none
    area,         \* the value in the client's data area for a request
    sent          \* the responses sent by the last step

connVars  == <<status, paused, timeout, heartbeat>>
eventVars == <<events, eventIds, nextEventId>>
dataVars  == <<requests, defs, area>>
vars == <<running, connVars, dataVars, eventVars, trigger, tickDue, simval, sent>>

Statuses == {"None", "Connected", "Disconnected", "TimedOut"}
Periods  == {"Never", "Once", "Tick", "Millisecond"}
Repeating == {"Tick", "Millisecond"}              \* period > UpdatePeriod::Once

\* What a client writes to its DataRequest area.
DataRequest == [period: Periods, interval: Intervals, size: Sizes, compare: BOOLEAN]

TrackedRequest ==
    [period: Periods, interval: Nat, size: Sizes, compare: BOOLEAN,
     data: Values \cup {Fill}, due: Nat]

SimEvents == 1..MaxSimEvent
Outcome(kind) == IF kind \in CanFail THEN BOOLEAN ELSE {TRUE}

Msg(c, id) == [to |-> c, id |-> id]

--------------------------------------------------------------------------------
\* Lookups over the client records

Held(c)       == {r \in RequestIds : requests[c][r] # None}
Subscribed(c) == {r \in Held(c) : requests[c][r].period \in Repeating}
Mapped(c, e)  == {i \in SimEvents : eventIds[i] = <<c, e>>}

\* sendResponse() looks at the status at the time of the call, and drops the message otherwise.
SendResponse(st, c, id) == {m \in {Msg(c, id)} : st[c] = "Connected"}

\* checkTriggerEventNeeded() with pauseTriggerEvent(): stop the frame events unless some connected
\* client which is not paused holds a request.  st, pz, rq are the values the handler has stored so far.
TriggerNeeded_AllOfThem(st, pz, rq) ==     \* slip: all clients instead of any
    \A c \in Clients : st[c] = "Connected" /\ ~pz[c] /\ \E r \in RequestIds : rq[c][r] # None

TriggerNeeded(st, pz, rq) ==
    \E c \in Clients : /\ st[c] = "Connected"
                       /\ ~pz[c]
                       /\ \E r \in RequestIds : rq[c][r] # None

CheckTriggerEventNeeded(st, pz, rq) ==
    IF TriggerNeeded(st, pz, rq) THEN trigger' = trigger
    ELSE \E ok \in Outcome("trigger") : trigger' = (trigger /\ ~ok)

\* resumeTriggerEvent(), called when the triggers are not registered and wanted is TRUE
ResumeTriggerEvent(wanted) ==
    IF wanted /\ ~trigger THEN trigger' \in Outcome("trigger") ELSE trigger' = trigger

--------------------------------------------------------------------------------
\* Connections

\* dispatchMessage() on client data: updateClientTimeout() for a connected client, connectClient() for
\* any other one that has a record.  Both leave the client connected with fresh deadlines.
Touch(c) ==
    /\ running
    /\ status[c] # "None"
    /\ status' = [status EXCEPT ![c] = "Connected"]
    /\ timeout' = [timeout EXCEPT ![c] = CONN_TIMEOUT]
    /\ heartbeat' = [heartbeat EXCEPT ![c] = CONN_HEARTBEAT]

Reply(c, ok) == sent' = {Msg(c, IF ok THEN "Ack" ELSE "Nak")}

\* The "Connect" event: getOrCreateClient(), connectClient(id), then an Ack.  A client whose command
\* area cannot be set up is not recorded.  The record of a returning client keeps what it holds.
ConnectEvent(c) ==
    /\ running
    /\ \E ok \in IF status[c] = "None" THEN Outcome("area") ELSE {TRUE} :
         IF ok
         THEN /\ status' = [status EXCEPT ![c] = "Connected"]
              /\ timeout' = [timeout EXCEPT ![c] = CONN_TIMEOUT]
              /\ heartbeat' = [heartbeat EXCEPT ![c] = CONN_HEARTBEAT]
              /\ Reply(c, TRUE)
         ELSE sent' = {} /\ UNCHANGED <<status, timeout, heartbeat>>
    /\ UNCHANGED <<running, paused, dataVars, eventVars, trigger, tickDue, simval>>

\* Ids removeClientCustomEvent() erases for (c, e): the first mapping in id order.
FirstMapping_AnyClient(c, e) ==             \* slip: compares the event id only
    {i \in SimEvents : eventIds[i] # None /\ eventIds[i][2] = e}

FirstMapping(c, e) == {i \in Mapped(c, e) : \A j \in Mapped(c, e) : i <= j}

\* disconnectClient(c, newStatus) for every client in gone: all its requests with their definitions,
\* and all its events with one SimConnect event id each, are removed.
ClearedRequests_Kept(gone) == requests      \* slip: the requests outlive the connection
ClearedRequests(gone) ==
    [c \in Clients |-> IF c \in gone THEN [r \in RequestIds |-> None] ELSE requests[c]]
ClearedDefs(gone) ==
    [c \in Clients |-> [r \in RequestIds |->
        IF c \in gone /\ requests[c][r] # None THEN 0 ELSE defs[c][r]]]
ClearedEvents(gone) == [c \in Clients |-> IF c \in gone THEN {} ELSE events[c]]
ClearedEventIds(gone) ==
    [i \in SimEvents |->
        IF \E c \in gone : \E e \in events[c] : i \in FirstMapping(c, e) THEN None ELSE eventIds[i]]

\* The Disconnect command.  It is the only command which is not answered.
Disconnect(c) ==
    /\ running
    /\ status[c] # "None"
    /\ status' = [status EXCEPT ![c] = "Disconnected"]
    /\ timeout' = [timeout EXCEPT ![c] = CONN_TIMEOUT]
    /\ heartbeat' = [heartbeat EXCEPT ![c] = CONN_HEARTBEAT]
    /\ requests' = ClearedRequests({c})
    /\ defs' = ClearedDefs({c})
    /\ events' = ClearedEvents({c})
    /\ eventIds' = ClearedEventIds({c})
    /\ CheckTriggerEventNeeded(status', paused, requests')
    /\ sent' = {}
    /\ UNCHANGED <<running, paused, area, nextEventId, tickDue, simval>>

\* Every command that changes nothing of the state kept here (Ping, Connect, Get, Set, Exec, Lookup,
\* Transmit, SendKey, Log, ...), and a message that is refused before it changes anything.
StatelessCommand(c) ==
    /\ Touch(c)
    /\ \E ok \in BOOLEAN : Reply(c, ok)
    /\ UNCHANGED <<running, paused, dataVars, eventVars, trigger, tickDue, simval>>

\* The Ack (or Nak) a client sends in answer to a heartbeat ping is not answered in turn.
ClientAck(c) ==
    /\ Touch(c)
    /\ sent' = {}
    /\ UNCHANGED <<running, paused, dataVars, eventVars, trigger, tickDue, simval>>

--------------------------------------------------------------------------------
\* Data requests

\* updateRequestValue() skips a value equal to the stored one, if both the caller and the request ask
\* for the comparison.
Unchanged(tr, compareCheck) == compareCheck /\ tr.compare /\ tr.data = simval

\* The request after updateRequestValue(): disabled when the lookup or the calculation fails.
Evaluated_StoredFirst(tr, ok, compareCheck) ==  \* slip: stores before it knows the lookup worked
    [tr EXCEPT !.data = simval, !.period = IF ok THEN @ ELSE "Never"]

Evaluated(tr, ok, compareCheck) ==
    IF ~ok THEN [tr EXCEPT !.period = "Never"]
    ELSE IF Unchanged(tr, compareCheck) THEN tr
    ELSE [tr EXCEPT !.data = simval]

\* writeRequestData(): SimConnect accepts the value only through a definition of its size.
Written(tr, ok, compareCheck, def, old) ==
    IF ok /\ ~Unchanged(tr, compareCheck) /\ def = tr.size THEN simval ELSE old

\* The TrackedRequest constructor and its assignment operator.  Assignment keeps nextUpdate, and the
\* stored data unless the size changes.
NewRequest_Blank(req) ==                    \* slip: the data is not filled
    [period |-> req.period, interval |-> req.interval, size |-> req.size,
     compare |-> req.compare, data |-> None, due |-> 0]
NewRequest(req) ==
    [period |-> req.period, interval |-> req.interval, size |-> req.size,
     compare |-> req.compare, data |-> Fill, due |-> 0]
Assigned(tr, req) ==
    [period |-> req.period, interval |-> req.interval, size |-> req.size, compare |-> req.compare,
     data |-> IF req.size = tr.size THEN tr.data ELSE Fill, due |-> tr.due]

\* A Millisecond interval is at least one tick period.
Clamped(tr) ==
    IF tr.period = "Millisecond" /\ tr.interval < 1 THEN [tr EXCEPT !.interval = 1] ELSE tr

\* The rest of addOrUpdateRequest() for a request stored as tr with a definition of size def: lookups,
\* Ack, first value or the "pending" mark, and the trigger.
Schedule(c, r, tr, def) ==
    \E found \in Outcome("lookup"), ok \in Outcome("lookup") :
        LET looked == IF found THEN Clamped(tr) ELSE [tr EXCEPT !.period = "Never"]
            final ==
              IF looked.period = "Never" THEN looked
              ELSE IF ~paused[c] THEN Evaluated(looked, ok, FALSE)
              ELSE IF looked.period = "Once" THEN [looked EXCEPT !.interval = 1]
              ELSE looked
        IN /\ requests' = [requests EXCEPT ![c][r] = final]
           /\ defs' = [defs EXCEPT ![c][r] = def]
           /\ area' = IF looked.period = "Never" \/ paused[c] THEN area
                      ELSE [area EXCEPT ![c][r] = Written(looked, ok, FALSE, def, @)]
           /\ ResumeTriggerEvent(final.period \in Repeating /\ ~paused[c])
           /\ Reply(c, TRUE)

\* addOrUpdateRequest() for an id the client does not hold yet
AddRequest(c, r, req) ==
    /\ requests[c][r] = None
    /\ Touch(c)
    /\ \/ Schedule(c, r, NewRequest(req), req.size)
       \/ /\ "area" \in CanFail
          /\ Reply(c, FALSE)
          /\ UNCHANGED <<dataVars, trigger>>
    /\ UNCHANGED <<running, paused, eventVars, tickDue, simval>>

\* addOrUpdateRequest() for an id the client holds.  The value cannot grow; when it shrinks the
\* definition is removed and added again, either of which may fail and leaves the request as it was.
UpdateRequest(c, r, req) ==
    /\ requests[c][r] # None
    /\ Touch(c)
    /\ LET tr == requests[c][r] IN
       \/ /\ req.size > tr.size
          /\ Reply(c, FALSE)
          /\ UNCHANGED <<dataVars, trigger>>
       \/ /\ req.size < tr.size
          /\ "definition" \in CanFail
          /\ \E def \in {defs[c][r], 0} : defs' = [defs EXCEPT ![c][r] = def]
          /\ Reply(c, FALSE)
          /\ UNCHANGED <<requests, area, trigger>>
       \/ /\ req.size <= tr.size
          /\ Schedule(c, r, Assigned(tr, req), IF req.size < tr.size THEN req.size ELSE defs[c][r])
    /\ UNCHANGED <<running, paused, eventVars, tickDue, simval>>

\* removeRequest(), for a DataRequest with the request type None
RemoveRequest(c, r) ==
    /\ Touch(c)
    /\ IF requests[c][r] = None
       THEN Reply(c, FALSE) /\ UNCHANGED <<requests, defs, trigger>>
       ELSE /\ requests' = [requests EXCEPT ![c][r] = None]
            /\ defs' = [defs EXCEPT ![c][r] = 0]
            /\ IF trigger /\ Held(c) = {r}
               THEN CheckTriggerEventNeeded(status', paused, requests') ELSE UNCHANGED trigger
            /\ Reply(c, TRUE)
    /\ UNCHANGED <<running, paused, area, eventVars, tickDue, simval>>

\* The Update command: the value is sent without comparison, whatever the period and the pause flag.
UpdateCommand(c, r) ==
    /\ Touch(c)
    /\ IF requests[c][r] = None
       THEN Reply(c, FALSE) /\ UNCHANGED <<requests, area>>
       ELSE \E ok \in Outcome("lookup") :
              /\ requests' = [requests EXCEPT ![c][r] = Evaluated(@, ok, FALSE)]
              /\ area' = [area EXCEPT ![c][r] = Written(requests[c][r], ok, FALSE, defs[c][r], @)]
              /\ Reply(c, ok)
    /\ UNCHANGED <<running, paused, defs, eventVars, trigger, tickDue, simval>>

\* setSuspendClientDataUpdates(c, TRUE)
Suspend(c) ==
    /\ Touch(c)
    /\ paused' = [paused EXCEPT ![c] = TRUE]
    /\ IF paused[c] THEN UNCHANGED trigger
                    ELSE CheckTriggerEventNeeded(status', paused', requests)
    /\ Reply(c, TRUE)
    /\ UNCHANGED <<running, dataVars, eventVars, tickDue, simval>>

\* "Once" requests stored while the client was paused are marked by an interval of 1.
Pending(c) == {r \in Held(c) : requests[c][r].period = "Once" /\ requests[c][r].interval = 1}
Sent(tr) == [tr EXCEPT !.interval = 0]

\* setSuspendClientDataUpdates(c, FALSE): pending values go out, through the comparison.
Resume(c) ==
    /\ Touch(c)
    /\ paused' = [paused EXCEPT ![c] = FALSE]
    /\ IF ~paused[c] THEN UNCHANGED <<requests, area, trigger>>
       ELSE \E ok \in [Pending(c) -> Outcome("lookup")] :
              /\ requests' = [requests EXCEPT ![c] = [r \in RequestIds |->
                    IF r \in Pending(c) THEN Evaluated(Sent(@[r]), ok[r], TRUE) ELSE @[r]]]
              /\ area' = [area EXCEPT ![c] = [r \in RequestIds |->
                    IF r \in Pending(c)
                    THEN Written(requests[c][r], ok[r], TRUE, defs[c][r], @[r]) ELSE @[r]]]
              /\ ResumeTriggerEvent(Subscribed(c) # {})
    /\ Reply(c, TRUE)
    /\ UNCHANGED <<running, defs, eventVars, tickDue, simval>>

--------------------------------------------------------------------------------
\* Calculator events

\* The Register command with an event code.  A new event is mapped to a SimConnect event first and
\* compiled after; when the code does not compile the event is dropped and the mapping stays.
RegisterEvent(c, e) ==
    /\ Touch(c)
    /\ \E compiled \in Outcome("compile") :
         \/ /\ e \in events[c]                             \* new code for a known event
            /\ Reply(c, compiled)
            /\ UNCHANGED eventVars
         \/ /\ e \notin events[c]
            /\ nextEventId \in SimEvents
            /\ nextEventId' = nextEventId + 1
            /\ \E mapped \in Outcome("event") :
                 /\ eventIds' = IF mapped THEN [eventIds EXCEPT ![nextEventId] = <<c, e>>] ELSE eventIds
                 /\ events' = IF mapped /\ compiled THEN [events EXCEPT ![c] = @ \cup {e}] ELSE events
                 /\ Reply(c, mapped /\ compiled)
    /\ UNCHANGED <<running, paused, dataVars, trigger, tickDue, simval>>

\* The Register command with an empty code string: removeCustomEvent().
RemoveEvent(c, e) ==
    /\ Touch(c)
    /\ IF e \notin events[c]
       THEN Reply(c, FALSE) /\ UNCHANGED <<events, eventIds>>
       ELSE /\ events' = [events EXCEPT ![c] = @ \ {e}]
            /\ eventIds' = [i \in SimEvents |-> IF i \in FirstMapping(c, e) THEN None ELSE eventIds[i]]
            /\ Reply(c, TRUE)
    /\ UNCHANGED <<running, paused, dataVars, nextEventId, trigger, tickDue, simval>>

\* The ids for which SimConnect runs the code of event e of client c when its named event is sent.
Executions(c, e) == IF e \in events[c] THEN Mapped(c, e) ELSE {}

--------------------------------------------------------------------------------
\* The frame event

Served_Paused == {c \in Clients : status[c] = "Connected"}            \* slip: paused clients too
Served == {c \in Clients : status[c] = "Connected" /\ ~paused[c]}
TimedOut_Idle == {c \in Served : timeout[c] = 0 /\ Subscribed(c) = {}}  \* slip: idle clients only
TimedOut == {c \in Served : timeout[c] = 0}
Pinged == {c \in Served \ TimedOut : heartbeat[c] = 0}

Due_Both(c) ==                              \* slip: "or" turned into "and"
    {r \in Subscribed(c) : requests[c][r].interval = 0 /\ requests[c][r].due = 0}
Due(c) == {r \in Subscribed(c) : requests[c][r].interval = 0 \/ requests[c][r].due = 0}

\* The next update is due a number of ticks later; a value that failed is not scheduled again.
Rescheduled(tr) ==
    CASE tr.period = "Millisecond"              -> [tr EXCEPT !.due = tr.interval]
      [] tr.period = "Tick" /\ tr.interval > 0  -> [tr EXCEPT !.due = tr.interval + 1]
      [] OTHER                                  -> tr

\* tick(), when g_tpNextTick has passed.  Paused clients are passed over before their deadlines are
\* looked at.  The Disconnect message of a timed out client is handed to sendResponse() after the
\* status has changed.
Tick ==
    /\ running
    /\ trigger
    /\ tickDue
    /\ tickDue' = FALSE
    /\ status' = [c \in Clients |-> IF c \in TimedOut THEN "TimedOut" ELSE status[c]]
    /\ heartbeat' = [c \in Clients |-> IF c \in Pinged THEN CONN_HEARTBEAT ELSE heartbeat[c]]
    /\ events' = ClearedEvents(TimedOut)
    /\ eventIds' = ClearedEventIds(TimedOut)
    /\ defs' = ClearedDefs(TimedOut)
    /\ \E ok \in [Clients -> [RequestIds -> Outcome("lookup")]] :
         LET now(c) == c \in Served \ TimedOut
         IN /\ requests' = [c \in Clients |-> [r \in RequestIds |->
                 IF now(c) /\ r \in Due(c)
                 THEN Rescheduled(Evaluated(requests[c][r], ok[c][r], TRUE))
                 ELSE ClearedRequests(TimedOut)[c][r]]]
            /\ area' = [c \in Clients |-> [r \in RequestIds |->
                 IF now(c) /\ r \in Due(c)
                 THEN Written(requests[c][r], ok[c][r], TRUE, defs[c][r], area[c][r])
                 ELSE area[c][r]]]
    /\ IF TimedOut # {} THEN CheckTriggerEventNeeded(status', paused, requests')
                        ELSE UNCHANGED trigger
    /\ sent' = (UNION {SendResponse(status, c, "Ping") : c \in Pinged})
               \cup (UNION {SendResponse(status', c, "Disconnect") : c \in TimedOut})
    /\ UNCHANGED <<running, paused, timeout, nextEventId, simval>>

--------------------------------------------------------------------------------
\* The environment: time, the simulator, and the life of the module

Decrement(n) == IF n = 0 THEN 0 ELSE n - 1

\* One tick period passes, for every deadline.
Elapse ==
    /\ running
    /\ tickDue' = TRUE
    /\ timeout' = [c \in Clients |-> Decrement(timeout[c])]
    /\ heartbeat' = [c \in Clients |-> Decrement(heartbeat[c])]
    /\ requests' = [c \in Clients |-> [r \in RequestIds |->
         IF requests[c][r] = None THEN None ELSE [requests[c][r] EXCEPT !.due = Decrement(@)]]]
    /\ sent' = {}
    /\ UNCHANGED <<running, status, paused, eventVars, defs, area, trigger, simval>>

SimValueChanges ==
    /\ running
    /\ simval' \in Values
    /\ sent' = {}
    /\ UNCHANGED <<running, connVars, dataVars, eventVars, trigger, tickDue>>

\* SIMCONNECT_RECV_ID_QUIT or module_deinit(): disableAllClients().  SimConnect is gone and sends nothing more.
Quit ==
    /\ running
    /\ running' = FALSE
    /\ status' = [c \in Clients |-> IF status[c] = "None" THEN "None" ELSE "Disconnected"]
    /\ sent' = {}
    /\ UNCHANGED <<paused, timeout, heartbeat, dataVars, eventVars, trigger, tickDue, simval>>

\* module_init(): the state of a module which has just been loaded.
Loaded(run, st, pz, tmo, hb, rq, df, ar, ev, ids, next, trg, due) ==
    /\ run = TRUE
    /\ st = [c \in Clients |-> "None"]
    /\ pz = [c \in Clients |-> FALSE]
    /\ tmo = [c \in Clients |-> 0]
    /\ hb = [c \in Clients |-> 0]
    /\ rq = [c \in Clients |-> [r \in RequestIds |-> None]]
    /\ df = [c \in Clients |-> [r \in RequestIds |-> 0]]
    /\ ar = [c \in Clients |-> [r \in RequestIds |-> None]]
    /\ ev = [c \in Clients |-> {}]
    /\ ids = [i \in SimEvents |-> None]
    /\ next = 1
    /\ trg = FALSE
    /\ due = TRUE

Init ==
    /\ Loaded(running, status, paused, timeout, heartbeat, requests, defs, area,
              events, eventIds, nextEventId, trigger, tickDue)
    /\ simval \in Values
    /\ sent = {}

module_init ==
    /\ ~running
    /\ Loaded(running', status', paused', timeout', heartbeat', requests', defs', area',
              events', eventIds', nextEventId', trigger', tickDue')
    /\ sent' = {}
    /\ UNCHANGED simval

Handler(c) ==
    \/ ConnectEvent(c)
    \/ Disconnect(c)
    \/ StatelessCommand(c)
    \/ ClientAck(c)
    \/ Suspend(c)
    \/ Resume(c)
    \/ \E r \in RequestIds :
         \/ RemoveRequest(c, r)
         \/ UpdateCommand(c, r)
         \/ \E req \in DataRequest : AddRequest(c, r, req) \/ UpdateRequest(c, r, req)
    \/ \E e \in EventIds : RegisterEvent(c, e) \/ RemoveEvent(c, e)

Next ==
    \/ \E c \in Clients : Handler(c)
    \/ Tick
    \/ Elapse
    \/ SimValueChanges
    \/ Quit
    \/ module_init

Spec == Init /\ [][Next]_vars

\* The simulator sends frame events while they are on, and time passes.  Nothing is assumed of clients.
FairSpec == Spec /\ WF_vars(Tick) /\ WF_vars(Elapse)

--------------------------------------------------------------------------------
\* Properties

TypeOK ==
    /\ running \in BOOLEAN
    /\ status \in [Clients -> Statuses]
    /\ paused \in [Clients -> BOOLEAN]
    /\ timeout \in [Clients -> Nat]
    /\ heartbeat \in [Clients -> Nat]
    /\ requests \in [Clients -> [RequestIds -> TrackedRequest \cup {None}]]
    /\ defs \in [Clients -> [RequestIds -> Sizes \cup {0}]]
    /\ area \in [Clients -> [RequestIds -> Values \cup {None}]]
    /\ events \in [Clients -> SUBSET EventIds]
    /\ eventIds \in [SimEvents -> (Clients \X EventIds) \cup {None}]
    /\ nextEventId \in 1..(MaxSimEvent + 1)
    /\ trigger \in BOOLEAN
    /\ tickDue \in BOOLEAN
    /\ simval \in Values

\* A client for which the server has promised value updates.
Active(c) == running /\ status[c] = "Connected" /\ ~paused[c] /\ Subscribed(c) # {}

\* The frame trigger is shared by all clients and switched by whoever subscribes, pauses, removes its
\* last request, disconnects or times out.  It is never off while some client waits for updates.
TriggerCoversSubscriptions ==
    "trigger" \notin CanFail => \A c \in Clients : Active(c) => trigger

\* "marks client as disconnected or timed out and clears any saved requests/events"
OnlyConnectedHold ==
    running => \A c \in Clients : status[c] # "Connected" => Held(c) = {} /\ events[c] = {}

\* Whatever sequence of registrations, refusals and removals went before, each registered event is
\* reached by the SimConnect event of its name, and an id never given out is mapped to nothing.
EventsReachable ==
    /\ \A c \in Clients : \A e \in events[c] : Executions(c, e) # {}
    /\ \A i \in SimEvents : i >= nextEventId => eventIds[i] = None

\* tick() suppresses a value equal to the one stored in the request.  That is right only as long as
\* the stored value is the one the client can read, through every size change, failure and resumption.
StoredValueIsDelivered ==
    \A c \in Clients : \A r \in Held(c) :
        LET tr == requests[c][r] IN
        tr.data # Fill /\ defs[c][r] = tr.size => area[c][r] = tr.data

\* A handler for one client leaves everything kept for the others alone, though event and request ids
\* of different clients coincide and the event map is shared.
ClientsAreIsolated ==
    [][\A c \in Clients : Handler(c) =>
         \A d \in Clients \ {c} :
            /\ <<status[d], paused[d], timeout[d]>>' = <<status[d], paused[d], timeout[d]>>
            /\ <<requests[d], defs[d], area[d], events[d]>>' = <<requests[d], defs[d], area[d], events[d]>>
            /\ \A i \in SimEvents : \A e \in EventIds : (eventIds[i] = <<d, e>>) <=> (eventIds'[i] = <<d, e>>)
      ]_vars

\* While a client has its updates suspended nothing is written to its data areas, except on its Update
\* command ("suspend (pause) any and all data subscription request value updates").
PausedClientGetsNothing ==
    [][\A c \in Clients : paused[c] /\ paused'[c] /\ area'[c] # area[c] =>
         \E r \in RequestIds : UpdateCommand(c, r) \/ module_init]_vars

\* A current value of the simulator variable reaches every subscriber, unless the variable changes
\* again, the subscription ends, or its definition was lost.  Fill is left out: a new
\* request holds it already, and a variable of that value is not sent.
CurrentlyServed(c, r) ==
    Active(c) /\ r \in Subscribed(c) /\ defs[c][r] = requests[c][r].size

FreshValueArrives ==
    \A c \in Clients : \A r \in RequestIds : \A v \in Values \ {Fill} :
        (CurrentlyServed(c, r) /\ simval = v)
            ~> (area[c][r] = v \/ simval # v \/ ~CurrentlyServed(c, r))

\* "enforcing a timeout if no response is received": a subscriber that falls silent is dropped.
SilentSubscriberIsDropped ==
    \A c \in Clients : Active(c) ~> (~Active(c) \/ timeout[c] = CONN_TIMEOUT)

================================================================================
