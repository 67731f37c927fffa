---------------------------- MODULE MappedNamesProofs ----------------------------
(***************************************************************************)
(* Proofs about the names the client maps to ids, for any number of        *)
(* threads, names, ids and connections: what is sent by name reaches that  *)
(* name.                                                                   *)
(***************************************************************************)
EXTENDS MappedNames, TLAPS

--------------------------------------------------------------------------------
\* Types

Job == [at: {"idle", "resolve", "transmit", "add", "take", "insert", "set"},
        name: EventNames \cup Variables \cup {None}, id: Nat, link: Nat]

JobFits(j) ==
    /\ j.at = "resolve" => j.name \in EventNames
    /\ j.at = "transmit" => j.name \in CustomEvents
    /\ j.at \in {"add", "take", "insert", "set"} => j.name \in Variables

NamesTypeOK ==
    /\ link \in {"none", "opening", "open", "ready", "closing"}
    /\ links \in Nat /\ calls \in 0..MaxCalls
    /\ clearing \in BOOLEAN /\ tainted \in BOOLEAN
    /\ keyEventNameCache \in [EventNames -> Nat]
    /\ nextCustomEventID \in 1..(MaxEventId + 1)
    /\ simEvents \in [EventIds -> CustomEvents \cup {None}]
    /\ refused \subseteq EventIds
    /\ mappedVarsNameCache \in [Variables -> Nat]
    /\ nextMappedVarID \in Nat \ {0}
    /\ defs \in [VarIds -> Seq(Variables)]
    /\ job \in [Threads -> Job]
    /\ \A t \in Threads : JobFits(job[t])
    /\ DOMAIN sentTo = Threads

--------------------------------------------------------------------------------
\* Events

\* An id that was given to n belongs to nobody else, neither in the cache nor at the simulator, and never will.
OwnId(n, id) ==
    /\ id \in EventIds /\ id < nextCustomEventID
    /\ \A m \in CustomEvents : keyEventNameCache[m] = id => m = n
    /\ simEvents[id] \in {None, n}

CachedAreOwn == \A n \in CustomEvents : keyEventNameCache[n] # 0 => OwnId(n, keyEventNameCache[n])
SentAreOwn   == \A t \in Threads : job[t].at = "transmit" => OwnId(job[t].name, job[t].id)
\* What the simulator was given is an id from before.
GivenOnly == \A i \in EventIds : i >= nextCustomEventID => simEvents[i] = None

EventsInv == CachedAreOwn /\ SentAreOwn /\ GivenOnly /\ CachedIsMapped

--------------------------------------------------------------------------------
\* Variables

InSet(t) == job[t].at = "set"

\* Nothing is mapped, and no thread is about to.
Empty ==
    /\ Mapping = {} /\ \A t \in Threads : ~InSet(t)
    /\ nextMappedVarID = 1
    /\ \A v \in Variables : mappedVarsNameCache[v] = 0
    /\ \A i \in VarIds : defs[i] = <<>>

\* Definition id is the one of variable v.
Defines(id, v) == id \in 1..(nextMappedVarID - 1) /\ id \in VarIds /\ defs[id] = <<v>>

\* What the next definition has, and the places of the one thread that maps a variable
MapperRight(t) ==
    /\ job[t].at \in {"add", "take"} => nextMappedVarID <= calls
    /\ job[t].at = "add"  => defs[nextMappedVarID] = <<>>
    /\ job[t].at = "take" => defs[nextMappedVarID] = <<job[t].name>>
    /\ job[t].at \in {"insert", "set"} => Defines(job[t].id, job[t].name)

\* Over a link
Linked ==
    /\ ~clearing
    /\ nextMappedVarID <= calls + 1
    /\ \A t \in Threads : job[t].at \in {"add", "take", "insert", "set"} => MapperRight(t)
    /\ \A v \in Variables : mappedVarsNameCache[v] # 0 => Defines(mappedVarsNameCache[v], v)
    /\ \A i \in VarIds : i > nextMappedVarID => defs[i] = <<>>
    /\ (\A t \in Threads : job[t].at # "take") => \A i \in VarIds : i >= nextMappedVarID => defs[i] = <<>>

VarsInv ==
    ~tainted =>
        /\ \A t, u \in Mapping : t = u
        /\ IF HasHandle THEN Linked ELSE clearing \/ Empty

NInv == NamesTypeOK /\ EventsInv /\ VarsInv /\ NamesAreReached
--------------------------------------------------------------------------------
\* The steps

USE DEF EventNames, EventIds, VarIds

LEMMA Constants ==
  /\ MaxEventId \in Nat /\ MaxLinks \in Nat /\ MaxCalls \in Nat
  /\ CustomEvents \cap KeyEvents = {} /\ CustomEvents \cap Variables = {}
  /\ None \notin CustomEvents /\ None \notin KeyEvents /\ None \notin Variables
BY NamesConstants

LEMMA NoJobTypes == NoJob \in Job /\ JobFits(NoJob)
BY DEF NoJob, Job, JobFits

\* A step which gives thread t a job
LEMMA GoTypes ==
  ASSUME NamesTypeOK, NEW t \in Threads, NEW j \in Job, JobFits(j), Go(t, j)
  PROVE  job' \in [Threads -> Job] /\ \A u \in Threads : JobFits(job'[u])
BY DEF NamesTypeOK, Go

LEMMA EffectTypes ==
  ASSUME NamesTypeOK, NEW t \in Threads, NEW n, NEW reached, NEW sound, Effect(t, n, reached, sound)
  PROVE  /\ DOMAIN sentTo' = Threads
         /\ sentTo'[t] = [name |-> n, reached |-> reached, sound |-> sound]
         /\ \A u \in Threads : u # t => sentTo'[u] = sentTo[u]
BY DEF NamesTypeOK, Effect

\* An id that is new: what registerCustomKeyEvent() does to the names and the simulator
LEMMA RegisterSteps ==
  ASSUME NamesTypeOK, EventsInv, NEW n \in CustomEvents, Register(n)
  PROVE  \/ keyEventNameCache[n] # 0 /\ UNCHANGED eventVars
         \/ /\ keyEventNameCache[n] = 0
            /\ nextCustomEventID \in EventIds
            /\ keyEventNameCache' = [keyEventNameCache EXCEPT ![n] = nextCustomEventID]
            /\ nextCustomEventID' = nextCustomEventID + 1
            /\ \/ /\ simEvents' = [simEvents EXCEPT ![nextCustomEventID] = n]
                  /\ refused' = refused
               \/ /\ simEvents' = simEvents
                  /\ refused' = refused \cup {nextCustomEventID}
               \/ ~simConnected /\ UNCHANGED <<simEvents, refused>>
<1>1. CASE keyEventNameCache[n] # 0
  BY <1>1 DEF Register
<1>2. CASE keyEventNameCache[n] = 0
  <2>. DEFINE id == nextCustomEventID
  <2>1. /\ id <= MaxEventId
        /\ keyEventNameCache' = [keyEventNameCache EXCEPT ![n] = id]
        /\ nextCustomEventID' = id + 1
        /\ \/ \E works \in {{}, {id}} : MapEvent({id}, works)
           \/ ~simConnected /\ UNCHANGED <<simEvents, refused>>
    BY <1>2 DEF Register, NextId
  <2>2. id \in EventIds
    BY <2>1, Constants DEF NamesTypeOK
  <2>3. \A m \in CustomEvents : keyEventNameCache'[m] = id <=> m = n
    BY <2>1 DEF EventsInv, CachedAreOwn, OwnId, NamesTypeOK
  <2>4. (CHOOSE m \in CustomEvents : keyEventNameCache'[m] = id) = n
    BY <2>3
  <2>5. simEvents[id] = None
    BY <2>2 DEF EventsInv, GivenOnly, NamesTypeOK
  <2>6. ASSUME MapEvent({id}, {id})
        PROVE  /\ simEvents' = [simEvents EXCEPT ![id] = n]
               /\ refused' = refused
    <3>1. refused' = refused \cup ({id} \ {id})
      BY <2>6 DEF MapEvent
    <3>2. simEvents' = [i \in EventIds |-> IF i \in {id} \cap {id} /\ simEvents[i] = None
                          THEN CHOOSE m \in CustomEvents : keyEventNameCache'[m] = i ELSE simEvents[i]]
      BY <2>6 DEF MapEvent
    <3>3. simEvents'[id] = n
      <4>1. id \in {id} \cap {id}
        OBVIOUS
      <4>2. simEvents'[id] = CHOOSE m \in CustomEvents : keyEventNameCache'[m] = id
        BY <3>2, <4>1, <2>2, <2>5
      <4>. QED  BY <4>2, <2>4
    <3>4. \A i \in EventIds : i # id => simEvents'[i] = simEvents[i]
      BY <3>2
    <3>5. simEvents' = [i \in EventIds |-> simEvents'[i]]
      BY <3>2
    <3>6. simEvents' = [simEvents EXCEPT ![id] = n]
      BY <3>3, <3>4, <3>5 DEF NamesTypeOK
    <3>. QED  BY <3>1, <3>6
  <2>7. ASSUME MapEvent({id}, {})
        PROVE  /\ simEvents' = simEvents
               /\ refused' = refused \cup {id}
    <3>1. simEvents' = [i \in EventIds |-> IF i \in {id} \cap {} /\ simEvents[i] = None
                          THEN CHOOSE m \in CustomEvents : keyEventNameCache'[m] = i ELSE simEvents[i]]
      BY <2>7 DEF MapEvent
    <3>2. \A i \in EventIds : simEvents'[i] = simEvents[i]
      BY <3>1
    <3>3. simEvents' = simEvents
      BY <3>1, <3>2 DEF NamesTypeOK
    <3>. QED  BY <2>7, <3>3 DEF MapEvent
  <2>. QED  BY <1>2, <2>1, <2>2, <2>6, <2>7
<1>3. keyEventNameCache[n] = 0 \/ keyEventNameCache[n] # 0
  OBVIOUS
<1>. QED  BY <1>1, <1>2

LEMMA RegisterTypes ==
  ASSUME NamesTypeOK, EventsInv, NEW n \in CustomEvents, Register(n)
  PROVE  /\ keyEventNameCache' \in [EventNames -> Nat]
         /\ nextCustomEventID' \in 1..(MaxEventId + 1)
         /\ simEvents' \in [EventIds -> CustomEvents \cup {None}]
         /\ refused' \subseteq EventIds
<1>1. CASE UNCHANGED eventVars
  BY <1>1 DEF NamesTypeOK, eventVars
<1>2. ASSUME nextCustomEventID \in EventIds
      PROVE  /\ [keyEventNameCache EXCEPT ![n] = nextCustomEventID] \in [EventNames -> Nat]
             /\ nextCustomEventID + 1 \in 1..(MaxEventId + 1)
             /\ [simEvents EXCEPT ![nextCustomEventID] = n] \in [EventIds -> CustomEvents \cup {None}]
             /\ refused \cup {nextCustomEventID} \subseteq EventIds
  BY <1>2, Constants DEF NamesTypeOK
<1>3. simEvents \in [EventIds -> CustomEvents \cup {None}] /\ refused \subseteq EventIds
  BY DEF NamesTypeOK
<1>. QED  BY Zenon, <1>1, <1>2, <1>3, RegisterSteps

\* Registration keeps what holds of ids.
LEMMA RegisterKeeps ==
  ASSUME NamesTypeOK, EventsInv, NEW n \in CustomEvents, Register(n), UNCHANGED link
  PROVE  /\ CachedAreOwn' /\ GivenOnly' /\ CachedIsMapped'
         /\ \A m, id : OwnId(m, id) => OwnId(m, id)'
         /\ keyEventNameCache'[n] # 0
<1>1. CASE keyEventNameCache[n] # 0 /\ UNCHANGED eventVars
  BY <1>1 DEF EventsInv, CachedAreOwn, GivenOnly, CachedIsMapped, OwnId, eventVars
<1>2. ASSUME keyEventNameCache[n] = 0,
             nextCustomEventID \in EventIds,
             keyEventNameCache' = [keyEventNameCache EXCEPT ![n] = nextCustomEventID],
             nextCustomEventID' = nextCustomEventID + 1,
             \/ /\ simEvents' = [simEvents EXCEPT ![nextCustomEventID] = n]
                /\ refused' = refused
             \/ /\ simEvents' = simEvents
                /\ refused' = refused \cup {nextCustomEventID}
             \/ ~simConnected /\ UNCHANGED <<simEvents, refused>>
      PROVE  /\ CachedAreOwn' /\ GivenOnly' /\ CachedIsMapped'
             /\ \A m, id : OwnId(m, id) => OwnId(m, id)'
             /\ keyEventNameCache'[n] # 0
  <2>. PICK new : new = nextCustomEventID
    OBVIOUS
  <2>1. /\ \A m \in CustomEvents : m # n => keyEventNameCache'[m] = keyEventNameCache[m]
        /\ keyEventNameCache'[n] = new
    BY <1>2 DEF NamesTypeOK
  <2>0. simEvents[new] = None
    BY <1>2 DEF NamesTypeOK, EventsInv, GivenOnly
  <2>2. /\ \A i \in EventIds : i # new => simEvents'[i] = simEvents[i]
        /\ simEvents'[new] \in {None, n}
        /\ simEvents'[new] = n \/ new \in refused' \/ ~simConnected
    <3>1. CASE simEvents' = [simEvents EXCEPT ![new] = n]
      BY <1>2, <3>1 DEF NamesTypeOK
    <3>2. CASE simEvents' = simEvents /\ refused' = refused \cup {new}
      BY <2>0, <3>2
    <3>3. CASE ~simConnected /\ UNCHANGED <<simEvents, refused>>
      BY <2>0, <3>3
    <3>. QED  BY <1>2, <3>1, <3>2, <3>3
  <2>3. new \in Nat /\ new # 0
    BY DEF NamesTypeOK
  <2>4. ASSUME NEW m, NEW id, OwnId(m, id)
        PROVE  OwnId(m, id)'
    BY <1>2, <2>1, <2>2, <2>3, <2>4 DEF OwnId
  <2>5. OwnId(n, new)'
    <3>1. \A m \in CustomEvents : keyEventNameCache'[m] = new => m = n
      BY <2>1, <2>3 DEF EventsInv, CachedAreOwn, OwnId
    <3>2. new < nextCustomEventID'
      BY <1>2, <2>3
    <3>. QED  BY <1>2, <2>2, <3>1, <3>2 DEF OwnId
  <2>6. CachedAreOwn'
    <3>1. ASSUME NEW m \in CustomEvents, keyEventNameCache'[m] # 0
          PROVE  OwnId(m, keyEventNameCache[m])'
      <4>1. CASE m = n
        BY <4>1, <2>1, <2>5 DEF OwnId
      <4>2. CASE m # n
        <5>1. keyEventNameCache'[m] = keyEventNameCache[m]
          BY <4>2, <2>1
        <5>2. OwnId(m, keyEventNameCache[m])
          BY <3>1, <5>1 DEF EventsInv, CachedAreOwn
        <5>3. PICK id : id = keyEventNameCache[m]
          OBVIOUS
        <5>4. OwnId(m, id)'
          BY <5>2, <5>3, <2>4
        <5>. QED  BY <5>1, <5>3, <5>4 DEF OwnId
      <4>. QED  BY <4>1, <4>2
    <3>. QED  BY <3>1 DEF CachedAreOwn
  <2>7. GivenOnly'
    BY <1>2, <2>2, <2>3 DEF GivenOnly, EventsInv
  <2>8. CachedIsMapped'
    <3>1. ASSUME link = "ready", NEW m \in CustomEvents, keyEventNameCache'[m] # 0
          PROVE  keyEventNameCache'[m] \in refused' \/ simEvents'[keyEventNameCache'[m]] = m
      <4>1. CASE m = n
        BY <4>1, <3>1, <2>1, <2>2 DEF simConnected
      <4>2. CASE m # n
        <5>1. keyEventNameCache'[m] = keyEventNameCache[m]
          BY <4>2, <2>1
        <5>2. keyEventNameCache[m] \in refused \/ simEvents[keyEventNameCache[m]] = m
          BY <5>1, <3>1 DEF EventsInv, CachedIsMapped
        <5>3. keyEventNameCache[m] \in EventIds /\ keyEventNameCache[m] # new
          BY <5>1, <3>1 DEF EventsInv, CachedAreOwn, OwnId, NamesTypeOK
        <5>4. refused \subseteq refused'
          BY <1>2
        <5>. QED  BY <5>1, <5>2, <5>3, <5>4, <2>2
      <4>. QED  BY <4>1, <4>2
    <3>. QED  BY <3>1 DEF CachedIsMapped
  <2>. QED  BY <2>1, <2>3, <2>4, <2>6, <2>7, <2>8
<1>. QED  BY Zenon, <1>1, <1>2, RegisterSteps
VarPlaces == {"add", "take", "insert", "set"}

\* Steps which leave the ids and the transmitting threads alone
LEMMA EventsStay ==
  ASSUME EventsInv, UNCHANGED eventVars, link' = "ready" => link = "ready",
         \A t \in Threads : job'[t].at = "transmit" => job'[t] = job[t]
  PROVE  EventsInv'
<1>1. \A m, id : OwnId(m, id) => OwnId(m, id)'
  BY DEF OwnId, eventVars
<1>2. CachedAreOwn' /\ GivenOnly' /\ CachedIsMapped'
  BY DEF EventsInv, CachedAreOwn, GivenOnly, CachedIsMapped, OwnId, eventVars
<1>3. SentAreOwn'
  <2>1. ASSUME NEW t \in Threads, job'[t].at = "transmit"
        PROVE  OwnId(job[t].name, job[t].id)'
    <3>1. job'[t] = job[t]
      BY <2>1
    <3>2. OwnId(job[t].name, job[t].id)
      BY <2>1, <3>1 DEF EventsInv, SentAreOwn
    <3>. QED  BY <3>1, <3>2 DEF OwnId, eventVars
  <2>. QED  BY <2>1 DEF SentAreOwn
<1>. QED  BY <1>2, <1>3 DEF EventsInv

\* One job changes.
LEMMA GoMoves ==
  ASSUME NamesTypeOK, NEW t \in Threads, NEW j, Go(t, j)
  PROVE  job'[t] = j /\ \A u \in Threads : u # t => job'[u] = job[u]
BY DEF NamesTypeOK, Go

LEMMA RegisterStep ==
  ASSUME NamesTypeOK, EventsInv, NEW n \in CustomEvents, RegisterCustomKeyEvent(n)
  PROVE  EventsInv'
<1>1. Register(n) /\ UNCHANGED <<link, job>>
  BY DEF RegisterCustomKeyEvent
<1>2. /\ CachedAreOwn' /\ GivenOnly' /\ CachedIsMapped'
      /\ \A m, id : OwnId(m, id) => OwnId(m, id)'
  BY <1>1, RegisterKeeps
<1>3. SentAreOwn'
  <2>1. ASSUME NEW t \in Threads, job'[t].at = "transmit"
        PROVE  OwnId(job[t].name, job[t].id)'
    <3>1. PICK m, id : m = job[t].name /\ id = job[t].id
      OBVIOUS
    <3>2. OwnId(m, id)
      BY <1>1, <2>1, <3>1 DEF EventsInv, SentAreOwn
    <3>3. OwnId(m, id)'
      BY <1>2, <3>2
    <3>. QED  BY <1>1, <3>1, <3>3 DEF OwnId
  <2>. QED  BY <2>1 DEF SentAreOwn
<1>. QED  BY <1>2, <1>3 DEF EventsInv

LEMMA RemoveStep ==
  ASSUME NamesTypeOK, EventsInv, NEW n \in EventNames, RemoveCustomKeyEvent(n)
  PROVE  EventsInv'
<1>1. /\ UNCHANGED <<link, job, nextCustomEventID, simEvents, refused>>
      /\ keyEventNameCache' = [keyEventNameCache EXCEPT ![n] = 0]
  BY DEF RemoveCustomKeyEvent
<1>2. \A m \in EventNames : keyEventNameCache'[m] \in {0, keyEventNameCache[m]}
  BY <1>1 DEF NamesTypeOK
<1>3. \A m \in CustomEvents : keyEventNameCache'[m] # 0 => keyEventNameCache'[m] = keyEventNameCache[m]
  BY <1>2
<1>4. 0 \notin EventIds
  BY Constants
<1>5. ASSUME NEW m, NEW id, OwnId(m, id)
      PROVE  OwnId(m, id)'
  BY <1>1, <1>3, <1>4, <1>5 DEF OwnId
<1>6. CachedAreOwn'
  <2>1. ASSUME NEW m \in CustomEvents, keyEventNameCache'[m] # 0
        PROVE  OwnId(m, keyEventNameCache[m])'
    <3>1. PICK id : id = keyEventNameCache[m]
      OBVIOUS
    <3>2. OwnId(m, id)'
      BY <1>3, <1>5, <2>1, <3>1 DEF EventsInv, CachedAreOwn
    <3>. QED  BY <1>3, <2>1, <3>1, <3>2 DEF OwnId
  <2>. QED  BY <2>1 DEF CachedAreOwn
<1>7. SentAreOwn'
  <2>1. ASSUME NEW t \in Threads, job'[t].at = "transmit"
        PROVE  OwnId(job[t].name, job[t].id)'
    <3>1. PICK m, id : m = job[t].name /\ id = job[t].id
      OBVIOUS
    <3>2. OwnId(m, id)'
      BY <1>1, <1>5, <2>1, <3>1 DEF EventsInv, SentAreOwn
    <3>. QED  BY <1>1, <3>1, <3>2 DEF OwnId
  <2>. QED  BY <2>1 DEF SentAreOwn
<1>8. GivenOnly' /\ CachedIsMapped'
  BY <1>1, <1>3 DEF EventsInv, GivenOnly, CachedIsMapped
<1>. QED  BY <1>6, <1>7, <1>8 DEF EventsInv

LEMMA ResolveStep ==
  ASSUME NamesTypeOK, EventsInv, NEW t \in Threads, Resolve(t)
  PROVE  EventsInv'
<1>. DEFINE n == job[t].name
<1>0. job[t].at = "resolve" /\ n \in EventNames /\ UNCHANGED link
  BY DEF Resolve, NamesTypeOK, JobFits
<1>1. CASE n \in CustomEvents
  <2>1. /\ Register(n)
        /\ \/ Go(t, NoJob)
           \/ Go(t, [job[t] EXCEPT !.at = "transmit", !.id = keyEventNameCache'[n], !.link = links])
    BY <1>1 DEF Resolve
  <2>2. /\ CachedAreOwn' /\ GivenOnly' /\ CachedIsMapped'
        /\ \A m, id : OwnId(m, id) => OwnId(m, id)'
        /\ keyEventNameCache'[n] # 0
    BY <1>0, <1>1, <2>1, RegisterKeeps
  <2>3. PICK k, i : k = n /\ i = keyEventNameCache'[n]
    OBVIOUS
  <2>4. OwnId(k, i)'
    BY <1>1, <2>2, <2>3 DEF CachedAreOwn, OwnId
  <2>5. /\ \A u \in Threads : u # t => job'[u] = job[u]
        /\ job'[t].at = "transmit" => job'[t].name = k /\ job'[t].id = i
    <3>1. CASE Go(t, NoJob)
      BY <3>1, GoMoves DEF NoJob
    <3>2. CASE Go(t, [job[t] EXCEPT !.at = "transmit", !.id = keyEventNameCache'[n], !.link = links])
      <4>1. PICK j : j = [job[t] EXCEPT !.at = "transmit", !.id = keyEventNameCache'[n], !.link = links]
        OBVIOUS
      <4>2. Go(t, j)
        BY <3>2, <4>1
      <4>3. j.name = n /\ j.id = i
        BY <2>3, <4>1 DEF NamesTypeOK, Job
      <4>. QED  BY <2>3, <4>2, <4>3, GoMoves
    <3>. QED  BY <2>1, <3>1, <3>2
  <2>6. SentAreOwn'
    <3>1. ASSUME NEW u \in Threads, job'[u].at = "transmit"
          PROVE  OwnId(job[u].name, job[u].id)'
      <4>1. CASE u = t
        BY <2>4, <2>5, <3>1, <4>1 DEF OwnId
      <4>2. CASE u # t
        <5>1. PICK m, id : m = job[u].name /\ id = job[u].id
          OBVIOUS
        <5>2. OwnId(m, id)'
          BY <2>2, <2>5, <3>1, <4>2, <5>1 DEF EventsInv, SentAreOwn
        <5>. QED  BY <2>5, <4>2, <5>1, <5>2 DEF OwnId
      <4>. QED  BY <4>1, <4>2
    <3>. QED  BY <3>1 DEF SentAreOwn
  <2>. QED  BY <2>2, <2>6 DEF EventsInv
<1>2. CASE n \notin CustomEvents
  <2>1. /\ keyEventNameCache' = [keyEventNameCache EXCEPT ![n] = 1]
        /\ UNCHANGED <<nextCustomEventID, simEvents, refused>>
        /\ Go(t, NoJob)
    BY <1>2 DEF Resolve, Finish
  <2>2. \A m \in CustomEvents : keyEventNameCache'[m] = keyEventNameCache[m]
    BY <1>2, <2>1 DEF NamesTypeOK
  <2>3. \A m, id : OwnId(m, id) => OwnId(m, id)'
    BY <2>1, <2>2 DEF OwnId
  <2>4. CachedAreOwn' /\ GivenOnly' /\ CachedIsMapped'
    BY <1>0, <2>1, <2>2 DEF EventsInv, CachedAreOwn, GivenOnly, CachedIsMapped, OwnId
  <2>5. \A u \in Threads : job'[u].at = "transmit" => job'[u] = job[u]
    BY <2>1, GoMoves DEF NoJob
  <2>6. SentAreOwn'
    BY <2>1, <2>2, <2>5 DEF EventsInv, SentAreOwn, OwnId
  <2>. QED  BY <2>4, <2>6 DEF EventsInv
<1>. QED  BY <1>1, <1>2

LEMMA MapAllStep ==
  ASSUME NamesTypeOK, EventsInv, MapAllCustomKeyEvents
  PROVE  EventsInv' /\ simEvents' \in [EventIds -> CustomEvents \cup {None}] /\ refused' \subseteq EventIds
<1>1. /\ link' = "ready" /\ UNCHANGED <<keyEventNameCache, nextCustomEventID, job>>
  BY DEF MapAllCustomKeyEvents
<1>2. PICK works \in SUBSET Cached :
        /\ simEvents' = [i \in EventIds |-> IF i \in works /\ simEvents[i] = None
                                          THEN CHOOSE n \in CustomEvents : keyEventNameCache[n] = i ELSE simEvents[i]]
        /\ refused' = (refused \cup (Cached \ works))
  BY DEF MapAllCustomKeyEvents, AllEvents
<1>3. \A i \in Cached : \E n \in CustomEvents : keyEventNameCache[n] = i /\ i # 0
  BY DEF Cached
<1>4. \A n \in CustomEvents : keyEventNameCache[n] # 0 => keyEventNameCache[n] \in Cached
  BY DEF Cached
<1>5. ASSUME NEW n \in CustomEvents, keyEventNameCache[n] # 0
      PROVE  /\ (CHOOSE m \in CustomEvents : keyEventNameCache[m] = keyEventNameCache[n]) = n
             /\ OwnId(n, keyEventNameCache[n])
  <2>1. OwnId(n, keyEventNameCache[n])
    BY <1>5 DEF EventsInv, CachedAreOwn
  <2>2. \A m \in CustomEvents : keyEventNameCache[m] = keyEventNameCache[n] <=> m = n
    BY <2>1 DEF OwnId
  <2>. QED  BY <2>1, <2>2
<1>6. ASSUME NEW i \in EventIds
      PROVE  \/ i \notin works /\ simEvents'[i] = simEvents[i]
             \/ \E n \in CustomEvents : keyEventNameCache[n] = i /\ i # 0 /\ simEvents'[i] = n
  <2>1. CASE i \in works
    <3>1. PICK n \in CustomEvents : keyEventNameCache[n] = i /\ i # 0
      BY <1>3, <2>1
    <3>2. simEvents[i] = None => simEvents'[i] = CHOOSE m \in CustomEvents : keyEventNameCache[m] = i
      BY <1>2, <2>1
    <3>3. simEvents[i] # None => simEvents'[i] = simEvents[i]
      BY <1>2
    <3>4. simEvents[i] \in {None, n}
      BY <1>5, <3>1 DEF OwnId
    <3>5. (CHOOSE m \in CustomEvents : keyEventNameCache[m] = i) = n
      BY <1>5, <3>1
    <3>. QED  BY <3>1, <3>2, <3>3, <3>4, <3>5
  <2>2. CASE i \notin works
    BY <1>2, <2>2
  <2>. QED  BY <2>1, <2>2
<1>7. ASSUME NEW m, NEW id, OwnId(m, id)
      PROVE  OwnId(m, id)'
  BY <1>1, <1>6, <1>7 DEF OwnId
<1>8. CachedAreOwn'
  <2>1. ASSUME NEW n \in CustomEvents, keyEventNameCache'[n] # 0
        PROVE  OwnId(n, keyEventNameCache[n])'
    <3>1. PICK id : id = keyEventNameCache[n]
      OBVIOUS
    <3>2. OwnId(n, id)'
      BY <1>1, <1>7, <2>1, <3>1 DEF EventsInv, CachedAreOwn
    <3>. QED  BY <1>1, <3>1, <3>2 DEF OwnId
  <2>. QED  BY <2>1 DEF CachedAreOwn
<1>9. SentAreOwn'
  <2>1. ASSUME NEW t \in Threads, job'[t].at = "transmit"
        PROVE  OwnId(job[t].name, job[t].id)'
    <3>1. PICK m, id : m = job[t].name /\ id = job[t].id
      OBVIOUS
    <3>2. OwnId(m, id)'
      BY <1>1, <1>7, <2>1, <3>1 DEF EventsInv, SentAreOwn
    <3>. QED  BY <1>1, <3>1, <3>2 DEF OwnId
  <2>. QED  BY <2>1 DEF SentAreOwn
<1>10. GivenOnly'
  <2>1. ASSUME NEW i \in EventIds, i >= nextCustomEventID
        PROVE  simEvents'[i] = None
    <3>1. \A n \in CustomEvents : keyEventNameCache[n] = i => i = 0
      BY <1>5, <2>1 DEF OwnId, NamesTypeOK
    <3>. QED  BY <1>6, <2>1, <3>1 DEF EventsInv, GivenOnly
  <2>. QED  BY <1>1, <2>1 DEF GivenOnly
<1>11. CachedIsMapped'
  <2>1. ASSUME NEW n \in CustomEvents, keyEventNameCache[n] # 0
        PROVE  keyEventNameCache[n] \in refused' \/ simEvents'[keyEventNameCache[n]] = n
    <3>1. keyEventNameCache[n] \in Cached /\ OwnId(n, keyEventNameCache[n])
      BY <1>4, <1>5, <2>1
    <3>2. keyEventNameCache[n] \in works => simEvents'[keyEventNameCache[n]] = n
      BY <1>6, <3>1 DEF OwnId
    <3>. QED  BY <1>2, <3>1, <3>2
  <2>. QED  BY <1>1, <2>1 DEF CachedIsMapped
<1>12. simEvents' \in [EventIds -> CustomEvents \cup {None}] /\ refused' \subseteq EventIds
  <2>1. \A i \in EventIds : simEvents'[i] \in CustomEvents \cup {None}
    BY <1>6 DEF NamesTypeOK
  <2>2. simEvents' = [i \in EventIds |-> simEvents'[i]]
    BY <1>2
  <2>3. Cached \subseteq EventIds
    BY <1>3, <1>5 DEF OwnId
  <2>. QED  BY <1>2, <2>1, <2>2, <2>3 DEF NamesTypeOK
<1>. QED  BY <1>8, <1>9, <1>10, <1>11, <1>12 DEF EventsInv
\* One step keeps the types.
LEMMA TypeStep ==
  ASSUME NamesTypeOK, EventsInv, Next
  PROVE  NamesTypeOK'
<1>. USE NamesTypeOK
<1>1. ASSUME NEW n \in CustomEvents, RegisterCustomKeyEvent(n)
      PROVE  NamesTypeOK'
  <2>1. Register(n) /\ UNCHANGED <<link, links, calls, clearing, varVars, job, sentTo, tainted>>
    BY <1>1 DEF RegisterCustomKeyEvent
  <2>. QED  BY <2>1, RegisterTypes DEF NamesTypeOK, varVars
<1>2. ASSUME NEW n \in EventNames, RemoveCustomKeyEvent(n)
      PROVE  NamesTypeOK'
  BY <1>2 DEF RemoveCustomKeyEvent, NamesTypeOK, varVars
<1>3. ASSUME NEW t \in Threads, NEW n \in EventNames, SendCached(t, n)
      PROVE  NamesTypeOK'
  <2>1. DOMAIN sentTo' = Threads
    BY <1>3, EffectTypes DEF SendCached, Transmitted, NamesTypeOK
  <2>2. calls' \in 0..MaxCalls
    BY <1>3, Constants DEF SendCached, Call, NamesTypeOK
  <2>. QED  BY <1>3, <2>1, <2>2 DEF SendCached, NamesTypeOK, eventVars, varVars
<1>4. ASSUME NEW t \in Threads, NEW n \in EventNames, SendNew(t, n)
      PROVE  NamesTypeOK'
  <2>1. [NoJob EXCEPT !.at = "resolve", !.name = n] \in Job /\ JobFits([NoJob EXCEPT !.at = "resolve", !.name = n])
    BY DEF NoJob, Job, JobFits
  <2>2. job' \in [Threads -> Job] /\ \A u \in Threads : JobFits(job'[u])
    BY <1>4, <2>1, GoTypes DEF SendNew
  <2>3. calls' \in 0..MaxCalls
    BY <1>4, Constants DEF SendNew, Call, NamesTypeOK
  <2>. QED  BY <1>4, <2>2, <2>3 DEF SendNew, NamesTypeOK, eventVars, varVars
<1>5. ASSUME NEW t \in Threads, Resolve(t)
      PROVE  NamesTypeOK'
  <2>. DEFINE n == job[t].name
  <2>0. /\ job[t].at = "resolve" /\ n \in EventNames
        /\ UNCHANGED <<link, links, calls, clearing, varVars, sentTo, tainted>>
    BY <1>5 DEF Resolve, NamesTypeOK, JobFits
  <2>1. CASE n \in CustomEvents
    <3>1. /\ Register(n)
          /\ \/ Go(t, NoJob)
             \/ Go(t, [job[t] EXCEPT !.at = "transmit", !.id = keyEventNameCache'[n], !.link = links])
      BY <1>5, <2>1 DEF Resolve
    <3>2. /\ keyEventNameCache' \in [EventNames -> Nat]
          /\ nextCustomEventID' \in 1..(MaxEventId + 1)
          /\ simEvents' \in [EventIds -> CustomEvents \cup {None}]
          /\ refused' \subseteq EventIds
      BY <2>1, <3>1, RegisterTypes
    <3>3. PICK j : j = [job[t] EXCEPT !.at = "transmit", !.id = keyEventNameCache'[n], !.link = links]
      OBVIOUS
    <3>4. j \in Job
      BY <2>0, <3>2, <3>3 DEF NamesTypeOK, Job
    <3>5. JobFits(j)
      BY <2>0, <2>1, <3>3 DEF NamesTypeOK, Job, JobFits
    <3>6. job' \in [Threads -> Job] /\ \A u \in Threads : JobFits(job'[u])
      BY <3>1, <3>3, <3>4, <3>5, GoTypes, NoJobTypes
    <3>. QED  BY <2>0, <3>2, <3>6 DEF NamesTypeOK, varVars
  <2>2. CASE n \notin CustomEvents
    <3>1. /\ keyEventNameCache' = [keyEventNameCache EXCEPT ![n] = 1]
          /\ UNCHANGED <<nextCustomEventID, simEvents, refused>>
          /\ Go(t, NoJob)
      BY <1>5, <2>2 DEF Resolve, Finish
    <3>2. job' \in [Threads -> Job] /\ \A u \in Threads : JobFits(job'[u])
      BY <3>1, GoTypes, NoJobTypes
    <3>. QED  BY <2>0, <3>1, <3>2 DEF NamesTypeOK, varVars
  <2>. QED  BY <2>1, <2>2
<1>6. ASSUME NEW t \in Threads, Transmit(t)
      PROVE  NamesTypeOK'
  <2>1. DOMAIN sentTo' = Threads
    BY <1>6, EffectTypes DEF Transmit, Transmitted
  <2>2. job' \in [Threads -> Job] /\ \A u \in Threads : JobFits(job'[u])
    BY <1>6, GoTypes, NoJobTypes DEF Transmit, Finish
  <2>. QED  BY <1>6, <2>1, <2>2 DEF Transmit, NamesTypeOK, eventVars, varVars
<1>7. ASSUME NEW t \in Threads, NEW v \in Variables, FindMapping(t, v)
      PROVE  NamesTypeOK'
  <2>1. PICK id : id = mappedVarsNameCache[v] /\ id \in Nat
    BY DEF NamesTypeOK
  <2>2. PICK j : j = [at |-> IF id = 0 THEN "add" ELSE "set", name |-> v, id |-> id, link |-> links]
    OBVIOUS
  <2>3. j \in Job /\ JobFits(j)
    BY <2>1, <2>2 DEF NamesTypeOK, Job, JobFits
  <2>4. Go(t, j) /\ tainted' \in BOOLEAN
    BY <1>7, <2>1, <2>2 DEF FindMapping, NamesTypeOK
  <2>5. job' \in [Threads -> Job] /\ \A u \in Threads : JobFits(job'[u])
    BY <2>3, <2>4, GoTypes
  <2>6. calls' \in 0..MaxCalls
    BY <1>7, Constants DEF FindMapping, Call, NamesTypeOK
  <2>. QED  BY <1>7, <2>4, <2>5, <2>6 DEF FindMapping, NamesTypeOK, eventVars, varVars
<1>8. ASSUME NEW t \in Threads, AddDefinition(t)
      PROVE  NamesTypeOK'
  <2>0. job[t].at = "add" /\ job[t].name \in Variables
    BY <1>8 DEF AddDefinition, NamesTypeOK, JobFits
  <2>1. PICK j : j = [job[t] EXCEPT !.at = "take"]
    OBVIOUS
  <2>2. j \in Job /\ JobFits(j)
    BY <2>0, <2>1 DEF NamesTypeOK, Job, JobFits
  <2>3. \/ Go(t, j) /\ defs' = [defs EXCEPT ![nextMappedVarID] = Append(@, job[t].name)]
        \/ Go(t, NoJob) /\ UNCHANGED defs
    BY <1>8, <2>1 DEF AddDefinition, Finish
  <2>4. job' \in [Threads -> Job] /\ \A u \in Threads : JobFits(job'[u])
    BY <2>2, <2>3, GoTypes, NoJobTypes
  <2>5. defs' \in [VarIds -> Seq(Variables)]
    <3>1. ASSUME nextMappedVarID \in VarIds
          PROVE  Append(defs[nextMappedVarID], job[t].name) \in Seq(Variables)
      BY <2>0, <3>1 DEF NamesTypeOK
    <3>2. defs \in [VarIds -> Seq(Variables)]
      BY DEF NamesTypeOK
    <3>. QED  BY <2>3, <3>1, <3>2
  <2>. QED  BY <1>8, <2>4, <2>5 DEF AddDefinition, NamesTypeOK, eventVars
<1>9. ASSUME NEW t \in Threads, TakeId(t)
      PROVE  NamesTypeOK'
  <2>0. job[t].at = "take" /\ job[t].name \in Variables
    BY <1>9 DEF TakeId, NamesTypeOK, JobFits
  <2>1. PICK j : j = [job[t] EXCEPT !.at = "insert", !.id = nextMappedVarID]
    OBVIOUS
  <2>2. j \in Job /\ JobFits(j)
    BY <2>0, <2>1 DEF NamesTypeOK, Job, JobFits
  <2>3. job' \in [Threads -> Job] /\ \A u \in Threads : JobFits(job'[u])
    BY <1>9, <2>1, <2>2, GoTypes DEF TakeId
  <2>. QED  BY <1>9, <2>3 DEF TakeId, NamesTypeOK, eventVars
<1>10. ASSUME NEW t \in Threads, InsertMapping(t)
       PROVE  NamesTypeOK'
  <2>0. job[t].at = "insert" /\ job[t].name \in Variables /\ job[t].id \in Nat
    BY <1>10 DEF InsertMapping, NamesTypeOK, JobFits, Job
  <2>1. PICK j : j = [job[t] EXCEPT !.at = "set"]
    OBVIOUS
  <2>2. j \in Job /\ JobFits(j)
    BY <2>0, <2>1 DEF NamesTypeOK, Job, JobFits
  <2>3. job' \in [Threads -> Job] /\ \A u \in Threads : JobFits(job'[u])
    BY <1>10, <2>1, <2>2, GoTypes DEF InsertMapping
  <2>4. mappedVarsNameCache' \in [Variables -> Nat]
    BY <1>10, <2>0 DEF InsertMapping, NamesTypeOK
  <2>. QED  BY <1>10, <2>3, <2>4 DEF InsertMapping, NamesTypeOK, eventVars
<1>11. ASSUME NEW t \in Threads, SetData(t)
       PROVE  NamesTypeOK'
  <2>1. DOMAIN sentTo' = Threads
    BY <1>11, EffectTypes DEF SetData, NamesTypeOK
  <2>2. job' \in [Threads -> Job] /\ \A u \in Threads : JobFits(job'[u])
    BY <1>11, GoTypes, NoJobTypes DEF SetData, Finish
  <2>. QED  BY <1>11, <2>1, <2>2 DEF SetData, NamesTypeOK, eventVars, varVars
<1>12. CASE Connect
  BY <1>12 DEF Connect, NamesTypeOK, eventVars, varVars
<1>13. CASE Open
  BY <1>13 DEF Open, NamesTypeOK, eventVars, varVars
<1>14. CASE MapAllCustomKeyEvents
  BY <1>14, MapAllStep DEF MapAllCustomKeyEvents, NamesTypeOK, varVars
<1>15. CASE BeginDisconnect
  BY <1>15 DEF BeginDisconnect, NamesTypeOK, eventVars, varVars
<1>16. CASE Close
  BY <1>16 DEF Close, NamesTypeOK
<1>17. CASE ClearMappedVarNames
  <2>1. tainted' \in BOOLEAN
    BY <1>17, Zenon DEF ClearMappedVarNames
  <2>2. /\ clearing' = FALSE /\ nextMappedVarID' = 1 /\ mappedVarsNameCache' = [v \in Variables |-> 0]
        /\ UNCHANGED <<link, links, calls, eventVars, defs, job, sentTo>>
    BY <1>17 DEF ClearMappedVarNames, ClearCache
  <2>3. /\ mappedVarsNameCache' \in [Variables -> Nat] /\ nextMappedVarID' \in Nat \ {0}
    BY <2>2
  <2>5. clearing' \in BOOLEAN
    BY <2>2, Zenon
  <2>4. UNCHANGED <<link, links, calls, keyEventNameCache, nextCustomEventID, simEvents, refused, defs, job, sentTo>>
    BY <2>2 DEF eventVars
  <2>. QED  BY <2>1, <2>3, <2>4, <2>5, Zenon DEF NamesTypeOK
<1>. QED  BY <1>1, <1>2, <1>3, <1>4, <1>5, <1>6, <1>7, <1>8, <1>9, <1>10, <1>11, <1>12, <1>13, <1>14, <1>15,
             <1>16, <1>17 DEF Next

\* One step keeps what holds of custom events.
LEMMA EventsStep ==
  ASSUME NamesTypeOK, EventsInv, Next
  PROVE  EventsInv'
<1>1. ASSUME NEW n \in EventNames, RemoveCustomKeyEvent(n)
      PROVE  EventsInv'
  BY <1>1, RemoveStep
<1>2. ASSUME NEW t \in Threads, NEW n \in EventNames, SendCached(t, n) \/ SendNew(t, n)
      PROVE  EventsInv'
  <2>1. PICK j : j = [NoJob EXCEPT !.at = "resolve", !.name = n]
    OBVIOUS
  <2>2. UNCHANGED job \/ (Go(t, j) /\ j.at # "transmit")
    BY <1>2, <2>1 DEF SendCached, SendNew, NoJob
  <2>3. UNCHANGED <<link, eventVars>>
    BY <1>2 DEF SendCached, SendNew
  <2>4. \A u \in Threads : job'[u].at = "transmit" => job'[u] = job[u]
    BY <2>2, GoMoves
  <2>. QED  BY <2>3, <2>4, EventsStay
<1>3. ASSUME NEW t \in Threads,
             \/ Transmit(t) \/ \E v \in Variables : FindMapping(t, v)
             \/ AddDefinition(t) \/ TakeId(t) \/ InsertMapping(t) \/ SetData(t)
      PROVE  EventsInv'
  <2>1. \E j : Go(t, j) /\ j.at # "transmit"
    <3>1. ASSUME NEW v \in Variables, FindMapping(t, v)
          PROVE  \E j : Go(t, j) /\ j.at # "transmit"
      <4>1. PICK j : j = [at |-> IF mappedVarsNameCache[v] = 0 THEN "add" ELSE "set", name |-> v,
                          id |-> mappedVarsNameCache[v], link |-> links]
        OBVIOUS
      <4>. QED  BY <3>1, <4>1 DEF FindMapping
    <3>2. \A p \in {"take", "set"} : [job[t] EXCEPT !.at = p].at # "transmit"
      BY DEF NamesTypeOK, Job
    <3>3. [job[t] EXCEPT !.at = "insert", !.id = nextMappedVarID].at # "transmit"
      BY DEF NamesTypeOK, Job
    <3>4. NoJob.at # "transmit"
      BY DEF NoJob
    <3>. QED  BY <1>3, <3>1, <3>2, <3>3, <3>4
              DEF Transmit, AddDefinition, TakeId, InsertMapping, SetData, Finish
  <2>2. UNCHANGED <<link, eventVars>>
    BY <1>3 DEF Transmit, FindMapping, AddDefinition, TakeId, InsertMapping, SetData
  <2>3. \A u \in Threads : job'[u].at = "transmit" => job'[u] = job[u]
    BY <2>1, GoMoves
  <2>. QED  BY <2>2, <2>3, EventsStay
<1>4. CASE Connect \/ Open \/ BeginDisconnect \/ ClearMappedVarNames
  BY <1>4, EventsStay DEF Connect, Open, BeginDisconnect, ClearMappedVarNames
<1>5. CASE Close
  <2>1. /\ link' = "none" /\ UNCHANGED <<keyEventNameCache, nextCustomEventID, job>>
        /\ \A i \in EventIds : simEvents'[i] = None
    BY <1>5 DEF Close
  <2>2. \A m, id : OwnId(m, id) => OwnId(m, id)'
    BY <2>1 DEF OwnId
  <2>. QED  BY <2>1, <2>2 DEF EventsInv, CachedAreOwn, SentAreOwn, GivenOnly, CachedIsMapped, OwnId
<1>. QED  BY <1>1, <1>2, <1>3, <1>4, <1>5, RegisterStep, ResolveStep, MapAllStep DEF Next
--------------------------------------------------------------------------------
\* Variables

\* Steps which leave the definitions, the connection and the threads that set variables alone
LEMMA VarsStay ==
  ASSUME NamesTypeOK, VarsInv, UNCHANGED <<varVars, clearing, tainted>>, HasHandle' <=> HasHandle,
         calls' \in {calls, calls + 1},
         \A u \in Threads : job'[u].at \in VarPlaces \/ job[u].at \in VarPlaces => job'[u] = job[u]
  PROVE  VarsInv'
<1>1. SUFFICES ASSUME ~tainted
               PROVE  VarsInv'
  BY DEF VarsInv
<1>2. Mapping' = Mapping /\ \A t \in Threads : InSet(t)' <=> InSet(t)
  BY DEF Mapping, InSet, VarPlaces
<1>3. \A t \in Threads : job'[t].at = "take" <=> job[t].at = "take"
  BY DEF VarPlaces
<1>4. Empty => Empty'
  BY <1>2 DEF Empty, varVars
<1>5. \A id, v : Defines(id, v) <=> Defines(id, v)'
  BY DEF Defines, varVars
<1>6. Linked => Linked'
  <2>1. ASSUME Linked
        PROVE  Linked'
    <3>1. ASSUME NEW t \in Threads, job'[t].at \in VarPlaces
          PROVE  MapperRight(t)'
      <4>1. job'[t] = job[t] /\ MapperRight(t)
        BY <2>1, <3>1 DEF Linked, VarPlaces
      <4>2. nextMappedVarID <= calls => nextMappedVarID' <= calls'
        BY DEF NamesTypeOK, varVars
      <4>. QED  BY <4>1, <4>2, <1>5 DEF MapperRight, varVars, Defines
    <3>2. nextMappedVarID' <= calls' + 1
      <4>1. nextMappedVarID <= calls + 1 /\ nextMappedVarID' = nextMappedVarID
        BY <2>1 DEF Linked, varVars
      <4>2. nextMappedVarID \in Nat /\ calls \in Nat
        BY Constants DEF NamesTypeOK
      <4>3. CASE calls' = calls
        BY <4>1, <4>2, <4>3
      <4>4. CASE calls' = calls + 1
        BY <4>1, <4>2, <4>4
      <4>. QED  BY <4>3, <4>4
    <3>3. \A v \in Variables : mappedVarsNameCache'[v] # 0 => Defines(mappedVarsNameCache[v], v)'
      BY <2>1 DEF Linked, Defines, varVars
    <3>. QED  BY <2>1, <3>1, <3>2, <3>3, <1>3 DEF Linked, VarPlaces, varVars
  <2>. QED  BY <2>1
<1>. QED  BY <1>1, <1>2, <1>4, <1>6 DEF VarsInv

\* A thread that is mapping a variable, with nothing to have spoilt it
LEMMA OnlyMapper ==
  ASSUME NamesTypeOK, VarsInv, ~tainted, NEW t \in Threads, job[t].at \in VarPlaces
  PROVE  /\ \A u, w \in Mapping : u = w
         /\ HasHandle => Linked /\ MapperRight(t)
         /\ ~HasHandle => clearing
BY DEF VarsInv, Empty, Linked, Mapping, InSet, VarPlaces

LEMMA FindMappingStep ==
  ASSUME NamesTypeOK, VarsInv, NEW t \in Threads, NEW v \in Variables, FindMapping(t, v)
  PROVE  VarsInv'
<1>1. SUFFICES ASSUME ~tainted'
               PROVE  VarsInv'
  BY DEF VarsInv
<1>2. PICK id : id = mappedVarsNameCache[v]
  OBVIOUS
<1>3. PICK j : j = [at |-> IF id = 0 THEN "add" ELSE "set", name |-> v, id |-> id, link |-> links]
  OBVIOUS
<1>4. /\ HasHandle /\ Go(t, j) /\ job[t].at = "idle" /\ calls < MaxCalls /\ calls' = calls + 1
      /\ UNCHANGED <<link, clearing, varVars>>
  BY <1>2, <1>3 DEF FindMapping, Call
<1>5. ~tainted /\ (id = 0 => Mapping = {})
  BY <1>1, <1>2, Zenon DEF FindMapping
<1>6. job'[t] = j /\ \A u \in Threads : u # t => job'[u] = job[u]
  BY <1>4, GoMoves
<1>7. Linked /\ \A u, w \in Mapping : u = w
  BY <1>4, <1>5 DEF VarsInv
<1>8. \A k, n : Defines(k, n) <=> Defines(k, n)'
  BY <1>4 DEF Defines, varVars
<1>9. calls \in Nat /\ MaxCalls \in Nat /\ nextMappedVarID \in Nat \ {0}
  BY Constants DEF NamesTypeOK
<1>10. nextMappedVarID <= calls + 1 /\ nextMappedVarID \in VarIds
  BY <1>4, <1>7, <1>9 DEF Linked
<1>11. Mapping' = IF id = 0 THEN {t} ELSE Mapping
  <2>1. \A u \in Threads : u # t => (u \in Mapping' <=> u \in Mapping)
    BY <1>6 DEF Mapping
  <2>2. t \notin Mapping /\ (t \in Mapping' <=> id = 0)
    BY <1>3, <1>4, <1>6 DEF Mapping
  <2>3. Mapping \subseteq Threads /\ Mapping' \subseteq Threads
    BY DEF Mapping
  <2>. QED  BY <1>5, <2>1, <2>2, <2>3
<1>12. ASSUME NEW u \in Threads, job'[u].at \in VarPlaces
       PROVE  MapperRight(u)'
  <2>1. CASE u = t
    <3>1. id = 0 => defs[nextMappedVarID] = <<>>
      BY <1>5, <1>7, <1>9, <1>10 DEF Linked, Mapping
    <3>2. id # 0 => Defines(id, v)'
      BY <1>2, <1>7, <1>8 DEF Linked
    <3>3. id = 0 => job'[t].at = "add"
      BY <1>3, <1>6
    <3>4. id # 0 => job'[t].at = "set" /\ job'[t].id = id /\ job'[t].name = v
      BY <1>3, <1>6
    <3>5. nextMappedVarID' <= calls'
      BY <1>4, <1>9, <1>10 DEF varVars
    <3>. QED  BY <1>4, <2>1, <3>1, <3>2, <3>3, <3>4, <3>5 DEF MapperRight, varVars, Defines
  <2>2. CASE u # t
    <3>1. job'[u] = job[u] /\ MapperRight(u)
      BY <1>6, <1>7, <1>12, <2>2 DEF Linked, VarPlaces
    <3>2. nextMappedVarID <= calls => nextMappedVarID' <= calls'
      BY <1>4, <1>9 DEF varVars
    <3>. QED  BY <1>4, <1>8, <3>1, <3>2 DEF MapperRight, varVars, Defines
  <2>. QED  BY <2>1, <2>2
<1>13. \A w \in Variables : mappedVarsNameCache'[w] # 0 => Defines(mappedVarsNameCache[w], w)'
  BY <1>4, <1>7 DEF Linked, Defines, varVars
<1>14. nextMappedVarID' <= calls' + 1
  BY <1>4, <1>9, <1>10 DEF varVars
<1>15. \A u \in Threads : job[u].at = "take" => job'[u].at = "take"
  BY <1>4, <1>6
<1>16. Linked'
  BY <1>4, <1>7, <1>12, <1>13, <1>14, <1>15 DEF Linked, VarPlaces, varVars
<1>. QED  BY <1>4, <1>5, <1>7, <1>11, <1>16 DEF VarsInv, HasHandle

LEMMA AddDefinitionStep ==
  ASSUME NamesTypeOK, VarsInv, NEW t \in Threads, AddDefinition(t)
  PROVE  VarsInv'
<1>1. SUFFICES ASSUME ~tainted'
               PROVE  VarsInv'
  BY DEF VarsInv
<1>2. PICK j : j = [job[t] EXCEPT !.at = "take"]
  OBVIOUS
<1>3. /\ job[t].at = "add" /\ job[t].name \in Variables
      /\ UNCHANGED <<link, calls, clearing, mappedVarsNameCache, nextMappedVarID, tainted>>
      /\ \/ /\ HasHandle /\ Go(t, j)
            /\ defs' = [defs EXCEPT ![nextMappedVarID] = Append(@, job[t].name)]
         \/ Go(t, NoJob) /\ UNCHANGED defs
  BY <1>2 DEF AddDefinition, Finish, NamesTypeOK, JobFits
<1>4. /\ \A u, w \in Mapping : u = w
      /\ HasHandle => Linked /\ MapperRight(t)
      /\ ~HasHandle => clearing
  BY <1>1, <1>3, OnlyMapper DEF VarPlaces
<1>5. /\ job'[t].at \in {"take", "idle"}
      /\ job'[t].at = "take" => job'[t].name = job[t].name
      /\ \A u \in Threads : u # t => job'[u] = job[u]
  <2>1. j.at = "take" /\ j.name = job[t].name /\ NoJob.at = "idle"
    BY <1>2 DEF NamesTypeOK, Job, NoJob
  <2>. QED  BY <1>3, <2>1, GoMoves
<1>6. Mapping' \subseteq Mapping
  BY <1>3, <1>5 DEF Mapping
<1>7. ASSUME HasHandle
      PROVE  Linked'
  <2>1. Linked /\ MapperRight(t) /\ nextMappedVarID \in Nat \ {0} /\ calls \in Nat /\ MaxCalls \in Nat
    BY <1>4, <1>7, Constants DEF NamesTypeOK
  <2>2. nextMappedVarID <= calls /\ nextMappedVarID \in VarIds /\ defs[nextMappedVarID] = <<>>
    BY <1>3, <2>1 DEF MapperRight, NamesTypeOK
  <2>3. \A i \in VarIds : i # nextMappedVarID => defs'[i] = defs[i]
    BY <1>3 DEF NamesTypeOK
  <2>4. job'[t].at = "take" => defs'[nextMappedVarID] = <<job[t].name>>
    <3>1. NoJob.at # "take" /\ Append(<<>>, job[t].name) = <<job[t].name>>
      BY DEF NoJob
    <3>2. CASE Go(t, NoJob)
      BY <3>1, <3>2, GoMoves
    <3>3. CASE defs' = [defs EXCEPT ![nextMappedVarID] = Append(@, job[t].name)]
      BY <2>2, <3>1, <3>3 DEF NamesTypeOK
    <3>. QED  BY <1>3, <3>2, <3>3
  <2>5. job'[t].at # "take" => defs' = defs
    <3>1. j.at = "take"
      BY <1>2 DEF NamesTypeOK, Job
    <3>. QED  BY <1>3, <3>1, GoMoves
  <2>6. \A id, n : Defines(id, n) => Defines(id, n)'
    BY <1>3, <2>1, <2>3 DEF Defines
  <2>7. \A u \in Threads : u # t => job[u].at \notin {"add", "take", "insert"}
    BY <1>3, <1>4 DEF Mapping
  <2>8. ASSUME NEW u \in Threads, job'[u].at \in VarPlaces
        PROVE  MapperRight(u)'
    <3>1. CASE u = t
      <4>1. job'[u].at \in {"take", "idle"}
        BY <1>5, <3>1
      <4>2. job'[u].at = "take" => defs'[nextMappedVarID'] = <<job'[u].name>>
        BY <1>3, <1>5, <2>4, <3>1
      <4>3. nextMappedVarID' <= calls'
        BY <1>3, <2>2
      <4>. QED  BY <4>1, <4>2, <4>3 DEF MapperRight
    <3>2. CASE u # t
      <4>1. job'[u] = job[u] /\ job[u].at = "set" /\ Defines(job[u].id, job[u].name)
        BY <1>5, <2>1, <2>7, <2>8, <3>2 DEF Linked, MapperRight, VarPlaces
      <4>2. Defines(job[u].id, job[u].name)'
        BY <4>1, <2>6, <1>3, <2>1, <2>3 DEF Defines
      <4>. QED  BY <4>1, <4>2 DEF MapperRight
    <3>. QED  BY <3>1, <3>2
  <2>9. \A v \in Variables : mappedVarsNameCache'[v] # 0 => Defines(mappedVarsNameCache[v], v)'
    BY <1>3, <2>1, <2>3 DEF Linked, Defines
  <2>10. \A i \in VarIds : i > nextMappedVarID => defs'[i] = <<>>
    BY <2>1, <2>3 DEF Linked
  <2>11. (\A u \in Threads : job'[u].at # "take") => \A i \in VarIds : i >= nextMappedVarID => defs'[i] = <<>>
    BY <2>1, <2>2, <2>5, <2>10
  <2>. QED  BY <1>3, <2>1, <2>8, <2>9, <2>10, <2>11 DEF Linked, VarPlaces
<1>. QED  BY <1>1, <1>3, <1>4, <1>6, <1>7 DEF VarsInv, HasHandle

LEMMA TakeIdStep ==
  ASSUME NamesTypeOK, VarsInv, NEW t \in Threads, TakeId(t)
  PROVE  VarsInv'
<1>1. SUFFICES ASSUME ~tainted'
               PROVE  VarsInv'
  BY DEF VarsInv
<1>2. PICK j : j = [job[t] EXCEPT !.at = "insert", !.id = nextMappedVarID]
  OBVIOUS
<1>3. /\ job[t].at = "take" /\ Go(t, j) /\ nextMappedVarID' = nextMappedVarID + 1
      /\ UNCHANGED <<link, calls, clearing, mappedVarsNameCache, defs, tainted>>
  BY <1>2 DEF TakeId
<1>4. /\ \A u, w \in Mapping : u = w
      /\ HasHandle => Linked /\ MapperRight(t)
      /\ ~HasHandle => clearing
  BY <1>1, <1>3, OnlyMapper DEF VarPlaces
<1>5. /\ job'[t].at = "insert" /\ job'[t].id = nextMappedVarID /\ job'[t].name = job[t].name
      /\ \A u \in Threads : u # t => job'[u] = job[u]
  <2>1. j.at = "insert" /\ j.id = nextMappedVarID /\ j.name = job[t].name
    BY <1>2 DEF NamesTypeOK, Job
  <2>. QED  BY <1>3, <2>1, GoMoves
<1>6. Mapping' = Mapping
  BY <1>3, <1>5 DEF Mapping
<1>7. ASSUME HasHandle
      PROVE  Linked'
  <2>1. Linked /\ MapperRight(t) /\ nextMappedVarID \in Nat \ {0} /\ calls \in Nat /\ MaxCalls \in Nat
    BY <1>4, <1>7, Constants DEF NamesTypeOK
  <2>2. nextMappedVarID <= calls /\ nextMappedVarID \in VarIds /\ defs[nextMappedVarID] = <<job[t].name>>
    BY <1>3, <2>1 DEF MapperRight, NamesTypeOK
  <2>3. \A id, n : Defines(id, n) => Defines(id, n)'
    <3>1. 1..(nextMappedVarID - 1) \subseteq 1..(nextMappedVarID' - 1)
      <4>1. nextMappedVarID \in Nat /\ nextMappedVarID' = nextMappedVarID + 1
        BY <1>3, <2>1
      <4>2. \A k \in Nat : 1..(k - 1) \subseteq 1..(k + 1 - 1)
        OBVIOUS
      <4>. QED  BY <4>1, <4>2
    <3>. QED  BY <1>3, <3>1 DEF Defines
  <2>4. PICK k, n : k = nextMappedVarID /\ n = job[t].name
    OBVIOUS
  <2>10. Defines(k, n)'
    <3>1. k \in 1..(nextMappedVarID' - 1)
      BY <1>3, <2>1, <2>4
    <3>. QED  BY <1>3, <2>2, <2>4, <3>1 DEF Defines
  <2>5. \A u \in Threads : u # t => job[u].at \notin {"add", "take", "insert"}
    BY <1>3, <1>4 DEF Mapping
  <2>6. ASSUME NEW u \in Threads, job'[u].at \in VarPlaces
        PROVE  MapperRight(u)'
    <3>1. CASE u = t
      <4>1. job'[u].at = "insert" /\ job'[u].name = job[t].name /\ job'[u].id = nextMappedVarID
        BY <1>5, <3>1
      <4>2. Defines(job[u].id, job[u].name)'
        BY <2>4, <2>10, <4>1 DEF Defines
      <4>. QED  BY <4>1, <4>2 DEF MapperRight
    <3>2. CASE u # t
      <4>1. job'[u] = job[u] /\ job[u].at = "set" /\ Defines(job[u].id, job[u].name)
        BY <1>5, <2>1, <2>5, <2>6, <3>2 DEF Linked, MapperRight, VarPlaces
      <4>2. Defines(job[u].id, job[u].name)'
        BY <1>3, <2>1, <4>1 DEF Defines
      <4>. QED  BY <4>1, <4>2 DEF MapperRight
    <3>. QED  BY <3>1, <3>2
  <2>7. \A v \in Variables : mappedVarsNameCache'[v] # 0 => Defines(mappedVarsNameCache[v], v)'
    <3>1. 1..(nextMappedVarID - 1) \subseteq 1..(nextMappedVarID' - 1)
      <4>1. nextMappedVarID \in Nat /\ nextMappedVarID' = nextMappedVarID + 1
        BY <1>3, <2>1
      <4>2. \A m \in Nat : 1..(m - 1) \subseteq 1..(m + 1 - 1)
        OBVIOUS
      <4>. QED  BY <4>1, <4>2
    <3>. QED  BY <1>3, <2>1, <3>1 DEF Linked, Defines
  <2>8. \A i \in VarIds : i >= nextMappedVarID' => defs'[i] = <<>>
    BY <1>3, <2>1 DEF Linked
  <2>9. \A i \in VarIds : i > nextMappedVarID' => i >= nextMappedVarID'
    BY <1>3, <2>1
  <2>. QED  BY <1>3, <2>1, <2>2, <2>6, <2>7, <2>8, <2>9 DEF Linked, VarPlaces
<1>. QED  BY <1>1, <1>3, <1>4, <1>6, <1>7 DEF VarsInv, HasHandle

LEMMA InsertMappingStep ==
  ASSUME NamesTypeOK, VarsInv, NEW t \in Threads, InsertMapping(t)
  PROVE  VarsInv'
<1>1. SUFFICES ASSUME ~tainted'
               PROVE  VarsInv'
  BY DEF VarsInv
<1>2. PICK j : j = [job[t] EXCEPT !.at = "set"]
  OBVIOUS
<1>3. /\ job[t].at = "insert" /\ job[t].name \in Variables /\ Go(t, j)
      /\ mappedVarsNameCache' = [mappedVarsNameCache EXCEPT ![job[t].name] = IF @ = 0 THEN job[t].id ELSE @]
      /\ UNCHANGED <<link, calls, clearing, nextMappedVarID, defs, tainted>>
  BY <1>2 DEF InsertMapping, NamesTypeOK, JobFits
<1>4. /\ \A u, w \in Mapping : u = w
      /\ HasHandle => Linked /\ MapperRight(t)
      /\ ~HasHandle => clearing
  BY <1>1, <1>3, OnlyMapper DEF VarPlaces
<1>5. /\ job'[t].at = "set" /\ job'[t].id = job[t].id /\ job'[t].name = job[t].name
      /\ \A u \in Threads : u # t => job'[u] = job[u]
  <2>1. j.at = "set" /\ j.id = job[t].id /\ j.name = job[t].name
    BY <1>2 DEF NamesTypeOK, Job
  <2>. QED  BY <1>3, <2>1, GoMoves
<1>6. Mapping' \subseteq Mapping
  BY <1>3, <1>5 DEF Mapping
<1>7. \A u \in Threads : job'[u].at = "take" <=> job[u].at = "take"
  BY <1>3, <1>5
<1>8. ASSUME HasHandle
      PROVE  Linked'
  <2>1. Linked /\ MapperRight(t) /\ nextMappedVarID \in Nat \ {0} /\ calls \in Nat
    BY <1>4, <1>8, Constants DEF NamesTypeOK
  <2>2. Defines(job[t].id, job[t].name)
    BY <1>3, <2>1 DEF MapperRight
  <2>3. \A id, n : Defines(id, n) <=> Defines(id, n)'
    BY <1>3 DEF Defines
  <2>4. ASSUME NEW u \in Threads, job'[u].at \in VarPlaces
        PROVE  MapperRight(u)'
    <3>1. CASE u = t
      <4>1. job'[u].at = "set" /\ job'[u].name = job[t].name /\ job'[u].id = job[t].id
        BY <1>5, <3>1
      <4>2. Defines(job[u].id, job[u].name)'
        BY <1>3, <2>2, <4>1 DEF Defines
      <4>. QED  BY <4>1, <4>2 DEF MapperRight
    <3>2. CASE u # t
      <4>1. job'[u] = job[u] /\ MapperRight(u)
        BY <1>5, <2>1, <2>4, <3>2 DEF Linked, VarPlaces
      <4>. QED  BY <1>3, <4>1, <2>3 DEF MapperRight, Defines
    <3>. QED  BY <3>1, <3>2
  <2>5. ASSUME NEW v \in Variables, mappedVarsNameCache'[v] # 0
        PROVE  Defines(mappedVarsNameCache[v], v)'
    <3>1. CASE mappedVarsNameCache'[v] = mappedVarsNameCache[v]
      BY <1>3, <2>1, <2>5, <3>1 DEF Linked, Defines
    <3>2. CASE v = job[t].name /\ mappedVarsNameCache'[v] = job[t].id
      BY <1>3, <2>2, <3>2 DEF Defines
    <3>. QED  BY <1>3, <3>1, <3>2 DEF NamesTypeOK
  <2>. QED  BY <1>3, <1>7, <2>1, <2>4, <2>5 DEF Linked, VarPlaces
<1>. QED  BY <1>1, <1>3, <1>4, <1>6, <1>8 DEF VarsInv, HasHandle

LEMMA SetDataStep ==
  ASSUME NamesTypeOK, VarsInv, NEW t \in Threads, SetData(t)
  PROVE  VarsInv'
<1>1. SUFFICES ASSUME ~tainted'
               PROVE  VarsInv'
  BY DEF VarsInv
<1>3. /\ job[t].at = "set" /\ Go(t, NoJob)
      /\ UNCHANGED <<link, calls, clearing, varVars, tainted>>
  BY DEF SetData, Finish
<1>4. /\ \A u, w \in Mapping : u = w
      /\ HasHandle => Linked
      /\ ~HasHandle => clearing
  BY <1>1, <1>3, OnlyMapper DEF VarPlaces
<1>5. /\ job'[t].at = "idle"
      /\ \A u \in Threads : u # t => job'[u] = job[u]
  BY <1>3, GoMoves DEF NoJob
<1>6. Mapping' \subseteq Mapping
  BY <1>3, <1>5 DEF Mapping
<1>7. \A u \in Threads : job'[u].at = "take" <=> job[u].at = "take"
  BY <1>3, <1>5
<1>8. ASSUME Linked
      PROVE  Linked'
  <2>1. ASSUME NEW u \in Threads, job'[u].at \in VarPlaces
        PROVE  MapperRight(u)'
    <3>1. job'[u] = job[u] /\ MapperRight(u)
      BY <1>5, <1>8, <2>1 DEF Linked, VarPlaces
    <3>. QED  BY <1>3, <3>1 DEF MapperRight, Defines, varVars
  <2>2. \A v \in Variables : mappedVarsNameCache'[v] # 0 => Defines(mappedVarsNameCache[v], v)'
    BY <1>3, <1>8 DEF Linked, Defines, varVars
  <2>. QED  BY <1>3, <1>7, <1>8, <2>1, <2>2 DEF Linked, VarPlaces, varVars
<1>. QED  BY <1>1, <1>3, <1>4, <1>6, <1>8 DEF VarsInv, HasHandle

LEMMA ConnectStep ==
  ASSUME NamesTypeOK, VarsInv, Connect
  PROVE  VarsInv'
<1>1. SUFFICES ASSUME ~tainted'
               PROVE  VarsInv'
  BY DEF VarsInv
<1>2. ~tainted /\ ~clearing /\ ~HasHandle /\ HasHandle' /\ UNCHANGED <<calls, clearing, varVars, job>>
  BY <1>1, Zenon DEF Connect, HasHandle
<1>3. Empty
  BY <1>2 DEF VarsInv
<1>4. Mapping' = {}
  BY <1>2, <1>3 DEF Empty, Mapping
<1>5. \A t \in Threads : job'[t].at \notin VarPlaces
  BY <1>2, <1>3 DEF Empty, Mapping, InSet, VarPlaces
<1>6. nextMappedVarID' <= calls' + 1
  BY <1>2, <1>3, Constants DEF Empty, NamesTypeOK, varVars
<1>7. Linked'
  BY <1>2, <1>3, <1>5, <1>6 DEF Linked, Empty, VarPlaces, varVars
<1>. QED  BY <1>1, <1>2, <1>4, <1>7 DEF VarsInv

LEMMA ClearStep ==
  ASSUME NamesTypeOK, VarsInv, ClearMappedVarNames
  PROVE  VarsInv'
<1>1. SUFFICES ASSUME ~tainted'
               PROVE  VarsInv'
  BY DEF VarsInv
<1>2. Mapping = {} /\ (\A t \in Threads : ~InSet(t)) /\ (\A i \in VarIds : defs[i] = <<>>)
  <2>1. ~(Mapping # {} \/ (\E t \in Threads : job[t].at = "set") \/ \E i \in VarIds : defs[i] # <<>>)
    BY <1>1, Zenon DEF ClearMappedVarNames
  <2>. QED  BY <2>1 DEF InSet
<1>3. clearing' = FALSE /\ UNCHANGED <<link, calls, defs, job>>
  BY Zenon DEF ClearMappedVarNames
<1>4. nextMappedVarID' = 1 /\ mappedVarsNameCache' = [v \in Variables |-> 0]
  BY DEF ClearMappedVarNames, ClearCache
<1>5. Mapping' = {} /\ (\A t \in Threads : ~InSet(t)')
  BY <1>2, <1>3 DEF Mapping, InSet
<1>6. Empty'
  BY <1>2, <1>3, <1>4, <1>5 DEF Empty
<1>7. \A t \in Threads : job'[t].at \notin VarPlaces
  BY <1>5 DEF Mapping, InSet, VarPlaces
<1>8. nextMappedVarID' <= calls' + 1
  BY <1>3, <1>4, Constants DEF NamesTypeOK
<1>9. Linked'
  BY <1>2, <1>3, <1>4, <1>7, <1>8 DEF Linked, VarPlaces
<1>. QED  BY <1>5, <1>6, <1>9 DEF VarsInv

LEMMA CloseStep ==
  ASSUME NamesTypeOK, VarsInv, Close
  PROVE  VarsInv'
<1>1. clearing' = TRUE /\ UNCHANGED <<job, tainted>> /\ HasHandle /\ ~HasHandle'
  BY DEF Close, HasHandle
<1>2. Mapping' = Mapping
  BY <1>1 DEF Mapping
<1>. QED  BY <1>1, <1>2 DEF VarsInv

\* One step keeps what holds of variables.
LEMMA VarsStep ==
  ASSUME NamesTypeOK, VarsInv, Next
  PROVE  VarsInv'
<1>1. ASSUME NEW n \in CustomEvents, RegisterCustomKeyEvent(n)
      PROVE  VarsInv'
  BY <1>1, VarsStay DEF RegisterCustomKeyEvent, HasHandle
<1>2. ASSUME NEW n \in EventNames, RemoveCustomKeyEvent(n)
      PROVE  VarsInv'
  BY <1>2, VarsStay DEF RemoveCustomKeyEvent, HasHandle
<1>3. ASSUME NEW t \in Threads, NEW n \in EventNames, SendCached(t, n)
      PROVE  VarsInv'
  BY <1>3, VarsStay DEF SendCached, HasHandle, Call
<1>4. ASSUME NEW t \in Threads, NEW j, Go(t, j), j.at \notin VarPlaces, job[t].at \notin VarPlaces,
             UNCHANGED <<link, clearing, varVars, tainted>>, calls' \in {calls, calls + 1}
      PROVE  VarsInv'
  <2>1. \A u \in Threads : job'[u].at \in VarPlaces \/ job[u].at \in VarPlaces => job'[u] = job[u]
    BY <1>4, GoMoves
  <2>. QED  BY <1>4, <2>1, VarsStay DEF HasHandle
<1>5. NoJob.at \notin VarPlaces
  BY DEF NoJob, VarPlaces
<1>6. ASSUME NEW t \in Threads, NEW n \in EventNames, SendNew(t, n)
      PROVE  VarsInv'
  <2>1. [NoJob EXCEPT !.at = "resolve", !.name = n].at \notin VarPlaces /\ "idle" \notin VarPlaces
    BY DEF NoJob, VarPlaces
  <2>2. /\ Go(t, [NoJob EXCEPT !.at = "resolve", !.name = n]) /\ job[t].at = "idle" /\ calls' = calls + 1
        /\ UNCHANGED <<link, clearing, varVars, tainted>>
    BY <1>6 DEF SendNew, Call
  <2>. QED  BY <1>4, <2>1, <2>2
<1>7. ASSUME NEW t \in Threads, Resolve(t)
      PROVE  VarsInv'
  <2>1. PICK j : j = [job[t] EXCEPT !.at = "transmit", !.id = keyEventNameCache'[job[t].name], !.link = links]
    OBVIOUS
  <2>2. j.at \notin VarPlaces /\ "resolve" \notin VarPlaces
    BY <2>1 DEF NamesTypeOK, Job, VarPlaces
  <2>3. Go(t, j) \/ Go(t, NoJob)
    BY <1>7, <2>1 DEF Resolve, Finish
  <2>4. job[t].at = "resolve" /\ UNCHANGED <<link, calls, clearing, varVars, tainted>>
    BY <1>7 DEF Resolve
  <2>. QED  BY <1>4, <1>5, <2>2, <2>3, <2>4
<1>8. ASSUME NEW t \in Threads, Transmit(t)
      PROVE  VarsInv'
  <2>1. "transmit" \notin VarPlaces
    BY DEF VarPlaces
  <2>. QED  BY <1>4, <1>5, <1>8, <2>1 DEF Transmit, Finish
<1>9. CASE Open \/ MapAllCustomKeyEvents \/ BeginDisconnect
  BY <1>9, VarsStay DEF Open, MapAllCustomKeyEvents, BeginDisconnect, HasHandle
<1>. QED  BY <1>1, <1>2, <1>3, <1>6, <1>7, <1>8, <1>9, FindMappingStep, AddDefinitionStep, TakeIdStep,
             InsertMappingStep, SetDataStep, ConnectStep, ClearStep, CloseStep DEF Next

--------------------------------------------------------------------------------
\* What is reached

LEMMA EffectReaches ==
  ASSUME NamesTypeOK, NamesAreReached, NEW t \in Threads, NEW n, NEW reached, NEW sound,
         Effect(t, n, reached, sound),
         sound => reached = <<n>>,
         n \in CustomEvents => reached \in {<<>>, <<None>>, <<n>>}
  PROVE  NamesAreReached'
<1>1. /\ sentTo'[t] = [name |-> n, reached |-> reached, sound |-> sound]
      /\ \A u \in Threads : u # t => sentTo'[u] = sentTo[u]
  BY EffectTypes
<1>2. PICK e : e = [name |-> n, reached |-> reached, sound |-> sound]
  OBVIOUS
<1>3. e.name = n /\ e.reached = reached /\ e.sound = sound
  BY <1>2
<1>4. sentTo'[t] = e
  BY <1>1, <1>2
<1>. QED  BY <1>1, <1>3, <1>4 DEF NamesAreReached

\* A custom event that is sent reaches its own name, or nothing.
LEMMA TransmittedReaches ==
  ASSUME NamesTypeOK, EventsInv, NamesAreReached, NEW t \in Threads, NEW n \in CustomEvents, NEW id, OwnId(n, id),
         Transmitted(t, n, id)
  PROVE  NamesAreReached'
<1>1. PICK reached : reached = IF simConnected THEN <<simEvents[id]>> ELSE <<>>
  OBVIOUS
<1>2. PICK sound : sound = (link = "ready" /\ id \notin refused /\ keyEventNameCache[n] = id)
  OBVIOUS
<1>3. Effect(t, n, reached, sound)
  BY <1>1, <1>2 DEF Transmitted
<1>4. reached \in {<<>>, <<None>>, <<n>>}
  BY <1>1 DEF OwnId
<1>5. id # 0
  BY Constants DEF OwnId
<1>6. link = "ready" /\ id \notin refused /\ keyEventNameCache[n] = id => reached = <<n>>
  BY <1>1, <1>5 DEF EventsInv, CachedIsMapped, simConnected
<1>7. sound => reached = <<n>>
  BY <1>2, <1>6, Zenon
<1>. QED  BY <1>3, <1>4, <1>7, EffectReaches

LEMMA ReachedStep ==
  ASSUME NamesTypeOK, EventsInv, VarsInv, NamesAreReached, Next
  PROVE  NamesAreReached'
<1>1. ASSUME UNCHANGED sentTo
      PROVE  NamesAreReached'
  BY <1>1 DEF NamesAreReached
<1>2. ASSUME NEW t \in Threads, NEW n \in EventNames, SendCached(t, n)
      PROVE  NamesAreReached'
  <2>1. CASE n \in CustomEvents
    <3>1. OwnId(n, keyEventNameCache[n]) /\ Transmitted(t, n, keyEventNameCache[n])
      BY <1>2, <2>1 DEF SendCached, EventsInv, CachedAreOwn
    <3>. QED  BY <2>1, <3>1, TransmittedReaches
  <2>2. CASE n \notin CustomEvents
    BY <1>1, <1>2, <2>2 DEF SendCached
  <2>. QED  BY <2>1, <2>2
<1>3. ASSUME NEW t \in Threads, Transmit(t)
      PROVE  NamesAreReached'
  <2>1. /\ job[t].name \in CustomEvents /\ OwnId(job[t].name, job[t].id)
        /\ Transmitted(t, job[t].name, job[t].id)
    BY <1>3 DEF Transmit, EventsInv, SentAreOwn, NamesTypeOK, JobFits
  <2>. QED  BY <2>1, TransmittedReaches
<1>4. ASSUME NEW t \in Threads, SetData(t)
      PROVE  NamesAreReached'
  <2>1. CASE HasHandle
    <3>1. PICK v : v = job[t].name
      OBVIOUS
    <3>2. PICK reached : reached = defs[job[t].id]
      OBVIOUS
    <3>3. PICK sound : sound = (~tainted /\ job[t].link = links)
      OBVIOUS
    <3>4. Effect(t, v, reached, sound)
      BY <1>4, <2>1, <3>1, <3>2, <3>3 DEF SetData
    <3>5. job[t].at = "set" /\ v \notin CustomEvents
      BY <1>4, <3>1, Constants DEF SetData, NamesTypeOK, JobFits
    <3>6. ~tainted => reached = <<v>>
      <4>1. ASSUME ~tainted
            PROVE  MapperRight(t)
        BY <2>1, <3>5, <4>1, OnlyMapper DEF VarPlaces
      <4>. QED  BY <3>1, <3>2, <3>5, <4>1 DEF MapperRight, Defines
    <3>7. sound => reached = <<v>>
      BY <3>3, <3>6, Zenon
    <3>. QED  BY <3>4, <3>5, <3>7, EffectReaches
  <2>2. CASE ~HasHandle
    BY <1>1, <1>4, <2>2 DEF SetData
  <2>. QED  BY <2>1, <2>2
<1>5. ASSUME \/ \E n \in CustomEvents : RegisterCustomKeyEvent(n)
             \/ \E n \in EventNames : RemoveCustomKeyEvent(n)
             \/ \E t \in Threads : \/ \E n \in EventNames : SendNew(t, n)
                                   \/ Resolve(t)
                                   \/ \E v \in Variables : FindMapping(t, v)
                                   \/ AddDefinition(t) \/ TakeId(t) \/ InsertMapping(t)
             \/ Connect \/ Open \/ MapAllCustomKeyEvents \/ BeginDisconnect \/ Close \/ ClearMappedVarNames
      PROVE  UNCHANGED sentTo
  BY <1>5 DEF RegisterCustomKeyEvent, RemoveCustomKeyEvent, SendNew, Resolve, FindMapping, AddDefinition, TakeId,
              InsertMapping, Connect, Open, MapAllCustomKeyEvents, BeginDisconnect, Close, ClearMappedVarNames
<1>. QED  BY <1>1, <1>2, <1>3, <1>4, <1>5 DEF Next

--------------------------------------------------------------------------------
\* The results

LEMMA NamesInit == Init => NInv
<1>. SUFFICES ASSUME Init
              PROVE  NInv
  OBVIOUS
<1>1. NamesTypeOK
  <2>1. 0 \in 0..MaxCalls /\ 1 \in 1..(MaxEventId + 1)
    BY Constants
  <2>2. \A t \in Threads : JobFits(job[t])
    BY NoJobTypes DEF Init
  <2>3. job \in [Threads -> Job]
    BY NoJobTypes DEF Init
  <2>4. clearing \in BOOLEAN /\ tainted \in BOOLEAN
    BY Zenon DEF Init
  <2>. QED  BY <2>1, <2>2, <2>3, <2>4 DEF Init, NamesTypeOK
<1>2. \A t \in Threads : job[t].at = "idle"
  BY DEF Init, NoJob
<1>3. EventsInv
  BY <1>2 DEF Init, EventsInv, CachedAreOwn, SentAreOwn, GivenOnly, CachedIsMapped
<1>4. VarsInv
  <2>1. Mapping = {} /\ (\A t \in Threads : ~InSet(t))
    BY <1>2 DEF Mapping, InSet
  <2>. QED  BY <2>1 DEF Init, VarsInv, Empty, HasHandle
<1>5. NamesAreReached
  BY Constants DEF Init, NamesAreReached, NoEffect
<1>. QED  BY <1>1, <1>3, <1>4, <1>5 DEF NInv

LEMMA NamesNext == NInv /\ [Next]_vars => NInv'
<1>1. ASSUME NInv, Next
      PROVE  NInv'
  BY <1>1, TypeStep, EventsStep, VarsStep, ReachedStep DEF NInv
<1>2. ASSUME NInv, UNCHANGED vars
      PROVE  NInv'
  <2>1. NamesTypeOK'
    BY <1>2, Zenon DEF NInv, vars, eventVars, varVars, NamesTypeOK, JobFits
  <2>2. EventsInv'
    BY <1>2, EventsStay DEF NInv, vars
  <2>3. VarsInv'
    <3>1. calls' \in {calls, calls + 1} /\ (HasHandle' <=> HasHandle)
      BY <1>2 DEF vars, HasHandle
    <3>. QED  BY <1>2, <3>1, VarsStay DEF NInv, vars
  <2>4. NamesAreReached'
    BY <1>2 DEF NInv, NamesAreReached, vars
  <2>. QED  BY <2>1, <2>2, <2>3, <2>4 DEF NInv
<1>. QED  BY <1>1, <1>2

LEMMA NamesHold == Spec => []NInv
BY NamesInit, NamesNext, PTL DEF Spec

\* Whatever threads register, send and remove, and however often the connection is lost and made: the ids in
\* the cache of custom events are mapped to their names, or the simulator refused them.
THEOREM CachedEventsAreMapped == Spec => []CachedIsMapped
<1>1. NInv => CachedIsMapped
  BY DEF NInv, EventsInv
<1>. QED  BY <1>1, NamesHold, PTL

\* sendKeyEvent() and setStringVariable() reach what their caller named, and never something else.
THEOREM NamesReachTheirOwn == Spec => []NamesAreReached
<1>1. NInv => NamesAreReached
  BY DEF NInv
<1>. QED  BY <1>1, NamesHold, PTL

================================================================================
