------------------------------ MODULE MappedNames ------------------------------
(***************************************************************************)
(* Names which the client (src/WASimClient/WASimClient.cpp) maps to ids    *)
(* with SimConnect: key events sent by name, custom ones under ids of the  *)
(* client's own, and variables set to a string through data definitions.   *)
(* The maps at the simulator live as long as the connection, the caches    *)
(* of events for ever, and those of variables until disconnectSimulator(). *)
(*                                                                         *)
(* Threads of the application send events and set variables; another one   *)
(* connects and disconnects.  One lock, or one access outside any, is one  *)
(* step.  SimConnect may refuse any call.                                  *)
(***************************************************************************)
EXTENDS Naturals, Sequences, FiniteSets

CONSTANTS
    Threads,        \* application threads
    CustomEvents,   \* names that start with # or contain a period
    KeyEvents,      \* names of standard key events
    Variables,      \* names of simulator variables
    None,
    MaxEventId,     \* bound on custom event ids, counted from CUSTOM_KEY_EVENT_ID_MIN
    MaxLinks,       \* bound on connections to the simulator
    MaxCalls        \* bound on calls of setStringVariable() and sendKeyEvent()

ASSUME NamesConstants ==
    /\ {MaxEventId, MaxLinks, MaxCalls} \subseteq Nat
    /\ CustomEvents \cap (KeyEvents \cup Variables) = {}
    /\ None \notin CustomEvents \cup KeyEvents \cup Variables

VARIABLES
    link,                  \* "none", "opening", "open", "ready" or "closing"
    links, calls,
    clearing,              \* disconnectSimulator() has yet to clear the cache of variables
    keyEventNameCache,     \* the id of a name, 0 if it has none; a standard key event is just "known"
    nextCustomEventID,
    simEvents,             \* at the simulator: what it was asked to map to an event id
    refused,               \* event ids the simulator refused to map on this connection
    mappedVarsNameCache,   \* the definition of a variable, 0 if it has none
    nextMappedVarID,
    defs,                  \* at the simulator: the variables of each data definition
    job,                   \* the call each thread is in
    sentTo,                \* history: what the last call of a thread asked for, and what it reached
    tainted                \* history: a variable was mapped while another one was, or while the cache was
                           \*          cleared, and the cache has not been cleared in peace since

eventVars == <<keyEventNameCache, nextCustomEventID, simEvents, refused>>
varVars   == <<mappedVarsNameCache, nextMappedVarID, defs>>
vars == <<link, links, calls, clearing, eventVars, varVars, job, sentTo, tainted>>

EventNames == CustomEvents \cup KeyEvents
EventIds == 1..MaxEventId
VarIds   == 1..(MaxCalls + 1)
NoJob    == [at |-> "idle", name |-> None, id |-> 0, link |-> 0]
NoEffect == [name |-> None, reached |-> <<>>, sound |-> FALSE]

HasHandle == link # "none"                         \* checkInit()
simConnected == link \in {"open", "ready"}
Mapping == {t \in Threads : job[t].at \in {"add", "take", "insert"}}

Init ==
    /\ link = "none" /\ links = 0 /\ calls = 0 /\ clearing = FALSE
    /\ keyEventNameCache = [n \in EventNames |-> 0]
    /\ nextCustomEventID = 1
    /\ simEvents = [i \in EventIds |-> None]
    /\ refused = {}
    /\ mappedVarsNameCache = [v \in Variables |-> 0]
    /\ nextMappedVarID = 1
    /\ defs = [i \in VarIds |-> <<>>]
    /\ job = [t \in Threads |-> NoJob]
    /\ sentTo = [t \in Threads |-> NoEffect]
    /\ tainted = FALSE

Call(t) == job[t].at = "idle" /\ calls < MaxCalls /\ calls' = calls + 1
Go(t, j) == job' = [job EXCEPT ![t] = j]
Finish(t) == Go(t, NoJob)
Effect(t, name, reached, sound) ==
    sentTo' = [sentTo EXCEPT ![t] = [name |-> name, reached |-> reached, sound |-> sound]]

--------------------------------------------------------------------------------
\* Key events

\* mapCustomKeyEvent(): the simulator keeps the first name of an id.
MapEvent(ids, works) ==
    /\ simEvents' = [i \in EventIds |->
         IF i \in ids \cap works /\ simEvents[i] = None
         THEN CHOOSE n \in CustomEvents : keyEventNameCache'[n] = i ELSE simEvents[i]]
    /\ refused' = (refused \cup (ids \ works))

\* registerCustomKeyEvent(): all under the lock.  The name is cached whatever the simulator answers.
NextId == nextCustomEventID + 1

Register(n) ==
    IF keyEventNameCache[n] # 0 THEN UNCHANGED eventVars
    ELSE /\ nextCustomEventID <= MaxEventId
         /\ keyEventNameCache' = [keyEventNameCache EXCEPT ![n] = nextCustomEventID]
         /\ nextCustomEventID' = NextId
         /\ IF simConnected THEN \E works \in {{}, {nextCustomEventID}} : MapEvent({nextCustomEventID}, works)
                            ELSE UNCHANGED <<simEvents, refused>>

RegisterCustomKeyEvent(n) ==
    /\ Register(n)
    /\ UNCHANGED <<link, links, calls, clearing, varVars, job, sentTo, tainted>>

RemoveCustomKeyEvent(n) ==
    /\ keyEventNameCache[n] # 0
    /\ keyEventNameCache' = [keyEventNameCache EXCEPT ![n] = 0]
    /\ UNCHANGED <<link, links, calls, clearing, nextCustomEventID, simEvents, refused, varVars, job, sentTo, tainted>>

\* sendSimCustomKeyEvent(): what the simulator does with a custom event, if it is connected
Transmitted(t, n, id) ==
    Effect(t, n, IF simConnected THEN <<simEvents[id]>> ELSE <<>>,
           link = "ready" /\ id \notin refused /\ keyEventNameCache[n] = id)

\* sendKeyEvent(name): a cached id is used at once, under the lock.
SendCached(t, n) ==
    /\ Call(t)
    /\ keyEventNameCache[n] # 0
    /\ IF n \in CustomEvents THEN Transmitted(t, n, keyEventNameCache[n]) ELSE UNCHANGED sentTo
    /\ UNCHANGED <<link, links, clearing, eventVars, varVars, job, tainted>>

\* A custom name that is not cached is registered, a standard one looked up, in a second step: another
\* thread may have done so since.
SendNew(t, n) ==
    /\ Call(t)
    /\ keyEventNameCache[n] = 0
    /\ Go(t, [NoJob EXCEPT !.at = "resolve", !.name = n])
    /\ UNCHANGED <<link, links, clearing, eventVars, varVars, sentTo, tainted>>

Resolve(t) ==
    /\ job[t].at = "resolve"
    /\ LET n == job[t].name IN
       IF n \in CustomEvents
       THEN /\ Register(n)
            /\ Go(t, IF keyEventNameCache'[n] \in refused' \ refused THEN NoJob
                     ELSE [job[t] EXCEPT !.at = "transmit", !.id = keyEventNameCache'[n], !.link = links])
       ELSE /\ keyEventNameCache' = [keyEventNameCache EXCEPT ![n] = 1]
            /\ UNCHANGED <<nextCustomEventID, simEvents, refused>>
            /\ Finish(t)
    /\ UNCHANGED <<link, links, calls, clearing, varVars, sentTo, tainted>>

Transmit(t) ==
    /\ job[t].at = "transmit"
    /\ Transmitted(t, job[t].name, job[t].id)
    /\ Finish(t)
    /\ UNCHANGED <<link, links, calls, clearing, eventVars, varVars, tainted>>

--------------------------------------------------------------------------------
\* setStringVariable()

FindMapping(t, v) ==
    /\ Call(t)
    /\ HasHandle
    /\ LET id == mappedVarsNameCache[v] IN
       /\ Go(t, [at |-> IF id = 0 THEN "add" ELSE "set", name |-> v, id |-> id, link |-> links])
       /\ tainted' = (tainted \/ (id = 0 /\ Mapping # {}))
    /\ UNCHANGED <<link, links, clearing, eventVars, varVars, sentTo>>

\* AddToDataDefinition() adds the variable to what the definition has already.
AddDefinition(t) ==
    /\ job[t].at = "add"
    /\ \/ /\ HasHandle
          /\ defs' = [defs EXCEPT ![nextMappedVarID] = Append(@, job[t].name)]
          /\ Go(t, [job[t] EXCEPT !.at = "take"])
       \/ Finish(t) /\ UNCHANGED defs
    /\ UNCHANGED <<link, links, calls, clearing, eventVars, mappedVarsNameCache, nextMappedVarID, sentTo, tainted>>

TakeId(t) ==
    /\ job[t].at = "take"
    /\ Go(t, [job[t] EXCEPT !.at = "insert", !.id = nextMappedVarID])
    /\ nextMappedVarID' = nextMappedVarID + 1
    /\ UNCHANGED <<link, links, calls, clearing, eventVars, mappedVarsNameCache, defs, sentTo, tainted>>

\* An entry that is there already stays.
InsertMapping(t) ==
    /\ job[t].at = "insert"
    /\ mappedVarsNameCache' = [mappedVarsNameCache EXCEPT ![job[t].name] = IF @ = 0 THEN job[t].id ELSE @]
    /\ Go(t, [job[t] EXCEPT !.at = "set"])
    /\ UNCHANGED <<link, links, calls, clearing, eventVars, nextMappedVarID, defs, sentTo, tainted>>

SetData(t) ==
    /\ job[t].at = "set"
    /\ IF HasHandle THEN Effect(t, job[t].name, defs[job[t].id], ~tainted /\ job[t].link = links)
                    ELSE UNCHANGED sentTo
    /\ Finish(t)
    /\ UNCHANGED <<link, links, calls, clearing, eventVars, varVars, tainted>>

--------------------------------------------------------------------------------
\* The connection to the simulator

Connect ==
    /\ link = "none"
    /\ links < MaxLinks
    /\ links' = links + 1
    /\ link' = "opening"
    /\ tainted' = (tainted \/ clearing)
    /\ UNCHANGED <<calls, clearing, eventVars, varVars, job, sentTo>>

\* SIMCONNECT_RECV_ID_OPEN
Open ==
    /\ link = "opening"
    /\ link' = "open"
    /\ UNCHANGED <<links, calls, clearing, eventVars, varVars, job, sentTo, tainted>>

\* mapAllCustomKeyEvents(), with which connectSimulator() ends
Cached == {keyEventNameCache[n] : n \in CustomEvents} \ {0}
AllEvents_New == {i \in Cached : i + 1 = nextCustomEventID}    \* slip: the last one only
AllEvents == Cached

MapAllCustomKeyEvents ==
    /\ link = "open"
    /\ link' = "ready"
    /\ \E works \in SUBSET AllEvents :
         simEvents' = [i \in EventIds |-> IF i \in works /\ simEvents[i] = None
                                          THEN CHOOSE n \in CustomEvents : keyEventNameCache[n] = i ELSE simEvents[i]]
         /\ refused' = (refused \cup (AllEvents \ works))
    /\ UNCHANGED <<links, calls, clearing, keyEventNameCache, nextCustomEventID, varVars, job, sentTo, tainted>>

\* disconnectSimulator(), one at a time: the flag, the handle, and then the cache of variables, when
\* another thread may have connected again.
BeginDisconnect ==
    /\ link \in {"opening", "open", "ready"}
    /\ ~clearing
    /\ link' = "closing"
    /\ UNCHANGED <<links, calls, clearing, eventVars, varVars, job, sentTo, tainted>>

Close ==
    /\ link = "closing"
    /\ link' = "none"
    /\ clearing' = TRUE
    /\ simEvents' = [i \in EventIds |-> None]
    /\ refused' = {}
    /\ defs' = [i \in VarIds |-> <<>>]
    /\ UNCHANGED <<links, calls, keyEventNameCache, nextCustomEventID, mappedVarsNameCache, nextMappedVarID,
                   job, sentTo, tainted>>

ClearCache_IdsOnly == nextMappedVarID' = 1 /\ UNCHANGED mappedVarsNameCache     \* slip: names stay cached
ClearCache == nextMappedVarID' = 1 /\ mappedVarsNameCache' = [v \in Variables |-> 0]

ClearMappedVarNames ==
    /\ clearing
    /\ clearing' = FALSE
    /\ ClearCache
    /\ tainted' = (Mapping # {} \/ (\E t \in Threads : job[t].at = "set") \/ \E i \in VarIds : defs[i] # <<>>)
    /\ UNCHANGED <<link, links, calls, eventVars, defs, job, sentTo>>

Next ==
    \/ \E n \in CustomEvents : RegisterCustomKeyEvent(n)
    \/ \E n \in EventNames : RemoveCustomKeyEvent(n)
    \/ \E t \in Threads :
         \/ \E n \in EventNames : SendCached(t, n) \/ SendNew(t, n)
         \/ Resolve(t) \/ Transmit(t)
         \/ \E v \in Variables : FindMapping(t, v)
         \/ AddDefinition(t) \/ TakeId(t) \/ InsertMapping(t) \/ SetData(t)
    \/ Connect \/ Open \/ MapAllCustomKeyEvents
    \/ BeginDisconnect \/ Close \/ ClearMappedVarNames

Spec == Init /\ [][Next]_vars

--------------------------------------------------------------------------------
\* Properties

\* Custom events are registered with a connection, without one, and while connectSimulator() is at it, by
\* two threads at once and after removals.  Once it is done each name in the cache is mapped at the
\* simulator to the id in the cache, unless the simulator refused.
CachedIsMapped ==
    link = "ready" => \A n \in CustomEvents :
        LET id == keyEventNameCache[n] IN id # 0 => id \in refused \/ simEvents[id] = n

\* What is sent by name reaches that name: an event the simulator has mapped triggers no other one, and a
\* string goes to its own variable and to no other, through any number of connections, unless threads
\* mapped variables at the same moment or while the cache was cleared.
NamesAreReached ==
    \A t \in Threads :
        /\ sentTo[t].sound => sentTo[t].reached = <<sentTo[t].name>>
        /\ sentTo[t].name \in CustomEvents => sentTo[t].reached \in {<<>>, <<None>>, <<sentTo[t].name>>}
================================================================================
