----------------------------- MODULE VariableAccess -----------------------------
(***************************************************************************)
(* How a variable which an application names is found, read, set and       *)
(* created: the client puts type, name or id, index and unit into the text *)
(* of a command (src/WASimClient/WASimClient.cpp), the server takes it     *)
(* apart and calls the Gauge API or makes calculator code of it, at once   *)
(* for a command and again and again for a data request                    *)
(* (src/WASimModule/WASimModule.cpp).                                      *)
(*                                                                         *)
(* A text is the record of its parts; what its length and its digits do to *)
(* the parser is kept.  A value is what was set, by whom and in which unit;*)
(* reading it in a unit pairs it with that unit.  The commands of a client *)
(* reach the server in order.  Timeouts are the matter of CommandTracking. *)
(***************************************************************************)
EXTENDS Integers, Sequences, FiniteSets

CONSTANTS
    Clients,
    Names,         \* names of variables; the same name may exist in several types
    SimIds,        \* the id of each known A variable
    TokenIds,      \* the id of each known T variable
    FlagTokens,    \* those whose value is an integer
    ButtonNames,   \* names of B variables, which have no ids
    LeadingNumber, \* the number with which the text of a name starts, -1 if with none
    Indexes,       \* indexes in use, with 0 for none
    KeyNames, UnknownKey,
    Wanted,        \* the VariableRequests of the applications
    Subscribed,    \* their data requests
    None,
    MaxQueue,      \* bound on commands under way from a client
    MaxCalls       \* bound on calls of all clients

ASSUME VariableConstants ==
    /\ (DOMAIN SimIds) \cup (DOMAIN TokenIds) \cup ButtonNames \subseteq Names
    /\ LeadingNumber \in [Names -> Nat \cup {-1}]
    /\ 0 \in Indexes /\ Indexes \subseteq 0..255
    /\ {MaxQueue, MaxCalls} \subseteq Nat

Units == {"number", "feet", "string"}
BadUnit == "bogus"
Sizes == {"int", "double", "chars"}
Inputs == {"zero", "one"}
CodeInputs == {"tiny", "one"}        \* "tiny" has no digit among the first 7 decimals
IndexedVariableTypes == {"A", "L", "T"}
UnitBasedVariableTypes == {"A", "L", "C", "E", "P"}
SettableVariableTypes == {"A", "B", "L", "C", "H", "K", "Z"}
VariableTypes == IndexedVariableTypes \cup UnitBasedVariableTypes \cup SettableVariableTypes

\* An id belongs to one variable and a name of another kind is none.  check_named_variable() gives 0 and more,
\* getVariableId() takes 0 for no SimVar and for no token.
ASSUME IdsAreUnique ==
    /\ SimIds \in [DOMAIN SimIds -> Nat \ {0}] /\ TokenIds \in [DOMAIN TokenIds -> Nat \ {0}]
    /\ \A m, n \in DOMAIN SimIds : SimIds[m] = SimIds[n] => m = n
    /\ \A m, n \in DOMAIN TokenIds : TokenIds[m] = TokenIds[n] => m = n
    /\ None \notin Names \cup Units \cup {BadUnit}

\* As VariableRequest and DataRequest document their fields: an id of a unit is one that was looked up, a unit
\* is given to a type that has units, in calculator code by its name, and a string is asked for as the
\* unit "string" of an A variable.
ASSUME WantedMakesSense ==
    /\ Wanted \subseteq [type : VariableTypes, name : Names, byId : BOOLEAN, index : Indexes,
                         unit : Units \cup {None, BadUnit}, unitById : BOOLEAN, create : BOOLEAN]
    /\ \A v \in Wanted :
        /\ v.unitById => v.unit \in Units
        /\ v.type \notin IndexedVariableTypes => ~v.unitById /\ v.unit # BadUnit
        /\ v.type \notin UnitBasedVariableTypes => v.unit = None
ASSUME SubscribedMakesSense ==
    /\ Subscribed \subseteq [type : VariableTypes, name : Names, index : Indexes,
                             unit : Units \cup {None, BadUnit}, size : Sizes]
    /\ \A r \in Subscribed :
        /\ r.type \notin IndexedVariableTypes => r.unit # BadUnit
        /\ r.size = "chars" <=> r.type = "A" /\ r.unit = "string"
        /\ r.unit = "string" => r.type = "A"

VARIABLES
    registered,    \* at the simulator: names of L variables, in the order of their ids 0, 1, ...
    store,         \* at the simulator: the value of each variable
    queue,         \* commands of each client on their way
    requests,      \* at the server: the data request of each client
    calls,
    got,           \* history: the last call of a client that was answered, and what it should have got
    sample,        \* history: the last value delivered for the data request, and what it should be
    overwritten    \* history: the request took over an id that was looked up for another type, or a unit's with
                   \* which a string is not read as one

vars == <<registered, store, queue, requests, calls, got, sample, overwritten>>

Known == ({"A"} \X (DOMAIN SimIds) \X Indexes) \cup ({"T"} \X (DOMAIN TokenIds) \X {0}) \cup ({"B"} \X ButtonNames \X {0})
Locals == {"L"} \X Names \X {0}
Zero == [x |-> "zero", by |-> None, unit |-> "number"]
Nowhere == [x |-> "nothing", by |-> None, unit |-> "number"]  \* what reading what is no variable gives
Value(x, by, unit) == IF x = "zero" THEN Zero ELSE [x |-> x, by |-> by, unit |-> unit]
In(value, unit) == [value |-> value, in |-> unit]
NoAnswer == [call |-> None, ack |-> FALSE, answer |-> Zero, truth |-> Zero]
NoSample == [value |-> Zero, format |-> None]

Init ==
    /\ registered = <<>>
    /\ store = [v \in Known \cup Locals |-> IF v \in Locals THEN Zero ELSE [x |-> "initial", by |-> v, unit |-> "number"]]
    /\ queue = [c \in Clients |-> <<>>]
    /\ requests = [c \in Clients |-> None]
    /\ calls = 0
    /\ got = [c \in Clients |-> NoAnswer]
    /\ sample = [c \in Clients |-> [was |-> NoSample, should |-> NoSample]]
    /\ overwritten = [c \in Clients |-> FALSE]

--------------------------------------------------------------------------------
\* The simulator

Exists(v) == IF v[1] = "L" THEN \E i \in DOMAIN registered : registered[i] = v[2] ELSE v \in Known
Read(v, unit) == In(IF Exists(v) THEN store[v] ELSE Nowhere, unit)

\* check_named_variable(), get_aircraft_var_enum() and the table of token variables
LocalId(name) == IF \E i \in DOMAIN registered : registered[i] = name
                 THEN (CHOOSE i \in DOMAIN registered : registered[i] = name) - 1 ELSE -1
TokenVariableId(name) == IF name \in DOMAIN TokenIds THEN TokenIds[name] ELSE -1
VariableId(type, name) ==
    CASE type = "L" -> LocalId(name)
      [] type = "A" -> IF name \in DOMAIN SimIds THEN SimIds[name] ELSE -1
      [] type = "T" -> TokenVariableId(name)
      [] OTHER -> -1

\* The name under which a type has an id, None if no variable has it
NameOf(type, id) ==
    LET named == {n \in Names : id = CASE type = "L" -> LocalId(n)
                                       [] type = "A" -> IF n \in DOMAIN SimIds THEN SimIds[n] ELSE -1
                                       [] OTHER -> TokenVariableId(n)}
    IN IF id >= 0 /\ named # {} THEN CHOOSE n \in named : TRUE ELSE None

\* execute_calculator_code("(type:name:index,unit)"): names only, an id in the place of a name is none
CodeValue(type, name, index, unit) == Read(<<type, name, index>>, IF unit = None THEN "number" ELSE unit)

--------------------------------------------------------------------------------
\* The client: what becomes of a VariableRequest.  An id is one the application has looked up.

Digits(n) == IF n < 10 THEN 1 ELSE IF n < 100 THEN 2 ELSE 3

IdOf(v) == IF v.byId THEN VariableId(v.type, v.name) ELSE -1

BuildVariableCommandString(v, isLocal) ==
    LET isIndexed == isLocal \/ v.type \in IndexedVariableTypes
        hasUnits  == isLocal \/ v.type \in UnitBasedVariableTypes
        id == IF isIndexed THEN IdOf(v) ELSE -1
    IN [name |-> IF id >= 0 THEN None ELSE v.name,
        id |-> id,
        index |-> IF v.type = "A" THEN v.index ELSE 0,
        unit |-> IF hasUnits /\ (isIndexed \/ ~v.unitById) THEN v.unit ELSE None,
        unitById |-> isIndexed /\ v.unitById]
Plain(name, index, unit) == [name |-> name, id |-> -1, index |-> index, unit |-> unit, unitById |-> FALSE]

Command(kind, type, text, v, x, by) ==
    [kind |-> kind, type |-> type, text |-> text, v |-> v, x |-> x, by |-> by]

\* A client that waits for an answer makes no call.
Idle(c) == \A i \in DOMAIN queue[c] : queue[c][i].kind \in {"Set", "SetCreate", "Exec", "DataRequest"}
Send(c, cmd) ==
    /\ Idle(c)
    /\ calls < MaxCalls
    /\ Len(queue[c]) < MaxQueue
    /\ calls' = calls + 1
    /\ queue' = [queue EXCEPT ![c] = Append(@, cmd)]
    /\ UNCHANGED <<registered, store, requests, got, sample, overwritten>>

HasId(v) == v.byId => VariableId(v.type, v.name) >= 0

\* getVariable(), getLocalVariable(), getOrCreateLocalVariable() with the default value x
GetVariable(c, v, x) ==
    /\ v.byId => v.type \in IndexedVariableTypes
    /\ HasId(v)
    /\ Send(c, Command(IF v.create /\ v.type = "L" THEN "GetCreate" ELSE "Get",
                       v.type, BuildVariableCommandString(v, FALSE), v, x, c))

\* setLocalVariable(), setOrCreateLocalVariable()
SetLocalVariable(c, v, x) ==
    /\ v.type = "L"
    /\ HasId(v)
    /\ Send(c, Command(IF v.create THEN "SetCreate" ELSE "Set", "L", BuildVariableCommandString(v, TRUE), v, x, c))

\* All other types are set by calculator code, in which the value has 7 decimals.
Printed(x) == IF x = "tiny" THEN "zero" ELSE x

SetByCode(c, v, x) ==
    /\ v.type # "L" /\ v.type \in SettableVariableTypes
    /\ ~v.byId /\ ~v.unitById
    /\ Send(c, Command("Exec", v.type, Plain(v.name, v.index, v.unit),
                       v, Printed(x), c))

\* lookup() of a variable or of a data request by its name
Lookup(c, type, name) ==
    Send(c, Command("Lookup", type, Plain(name, 0, None), None, "zero", c))

\* The command SendKey with a name, through sendCommand()
SendKey(c, key) ==
    Send(c, Command("SendKey", "K", Plain(key, 0, None), None, "zero", c))

SaveDataRequest(c, r) ==
    Send(c, Command("DataRequest", r.type, Plain(r.name, r.index, r.unit),
                    r, "zero", c))

--------------------------------------------------------------------------------
\* The server: commands

Arrived(c) == IF queue[c] = <<>> THEN {} ELSE {Head(queue[c])}
Receive(c, kinds, m) ==
    /\ m.kind \in kinds
    /\ queue' = [queue EXCEPT ![c] = Tail(@)]
    /\ UNCHANGED calls

\* parseVariableString() looks for an index in the last 3 characters of a text of more than 3.  What it
\* does not find stays with the name, which then names no variable, or follows an id, and is ignored.
IndexFound_Any(text) == FALSE                              \* slip: takes no index
IndexFound(text) ==
    /\ Digits(text.index) <= 2
    /\ text.id >= 0 => Digits(text.id) + 1 + Digits(text.index) > 3

UnitId(text) == IF text.unit \in Units THEN text.unit ELSE None

\* register_named_variable()
Register(name) == registered' = IF LocalId(name) >= 0 THEN registered ELSE Append(registered, name)

Parsed_AlwaysNew(type, text, create) ==                    \* slip: existed is not set by the lookup
    [name |-> text.name, existed |-> ~create, index |-> 0]
Parsed(type, text, create) ==
    LET lost == text.index # 0 /\ ~IndexFound(text)
        number == IF text.id >= 0 THEN text.id ELSE LeadingNumber[text.name]
        named == text.id < 0 /\ number < 0
    IN [name |-> IF ~named THEN NameOf(type, number)
                 ELSE IF lost THEN None
                 ELSE IF create \/ VariableId(type, text.name) >= 0 THEN text.name ELSE None,
        existed |-> ~(create /\ named /\ LocalId(text.name) < 0),
        index |-> IF lost THEN 0 ELSE text.index]

\* A number names whatever has that id, and nothing fails if nothing has.
Resolved(type, text, parsed) == parsed.name # None \/ text.id >= 0 \/ LeadingNumber[text.name] >= 0

Var(v) == <<v.type, v.name, IF v.type = "A" THEN v.index ELSE 0>>
UnitOf(v) == IF v.type = "T" THEN None ELSE IF v.unit \in Units THEN v.unit ELSE "number"
Truth(v) == Read(Var(v), UnitOf(v))

Answer(c, m, ack, answer) ==
    got' = [got EXCEPT ![c] = [call |-> m, ack |-> ack, answer |-> answer, truth |-> Truth(m.v)']]
Nak(c, m) == got' = [got EXCEPT ![c] = [call |-> m, ack |-> FALSE, answer |-> Zero, truth |-> Zero]]

\* getVariable(): other types, and A variables in the unit "string", become calculator code.
AsCode(m) == m.type \notin IndexedVariableTypes
             \/ (m.type = "A" /\ m.text.unit = "string" /\ ~m.text.unitById)

GetByCode(c) ==
    \E m \in Arrived(c) :
        /\ Receive(c, {"Get", "GetCreate"}, m)
        /\ AsCode(m)
        /\ UNCHANGED <<registered, store, requests, sample, overwritten>>
        /\ Answer(c, m, TRUE, CodeValue(m.type, m.text.name, m.text.index, m.text.unit))

Get(c) ==
    \E m \in Arrived(c) :
        /\ Receive(c, {"Get", "GetCreate"}, m)
        /\ ~AsCode(m)
        /\ LET create == m.kind = "GetCreate"
               p == Parsed(m.type, m.text, create)
               unit == UnitId(m.text)
               variable == <<m.type, p.name, p.index>>
           IN IF ~Resolved(m.type, m.text, p) \/ (p.existed /\ m.type = "A" /\ unit = None)
              THEN Nak(c, m) /\ UNCHANGED <<registered, store>>
              ELSE IF p.existed
              THEN /\ UNCHANGED <<registered, store>>
                   /\ Answer(c, m, TRUE, Read(variable, IF m.type = "L" /\ unit = None THEN "number"
                                                        ELSE IF m.type = "T" THEN None ELSE unit))
              ELSE /\ Register(p.name)
                   /\ LET in == IF unit = None THEN "number" ELSE unit IN
                      /\ store' = [store EXCEPT ![variable] = Value(m.x, m.by, in)]
                      /\ Answer(c, m, TRUE, In(Value(m.x, m.by, in), in))
        /\ UNCHANGED <<requests, sample, overwritten>>

\* setVariable() of an L variable; an id without a variable sets nothing
Set(c) ==
    \E m \in Arrived(c) :
        /\ Receive(c, {"Set", "SetCreate"}, m)
        /\ LET p == Parsed("L", m.text, m.kind = "SetCreate")
               unit == UnitId(m.text)
           IN IF p.name = None THEN UNCHANGED <<registered, store>>
              ELSE /\ Register(p.name)
                   /\ store' = [store EXCEPT ![<<"L", p.name, 0>>] =
                                Value(m.x, m.by, IF unit = None THEN "number" ELSE unit)]
        /\ UNCHANGED <<requests, got, sample, overwritten>>

\* execCalculatorCode() of "value (>type:name:index,unit)"
Exec(c) ==
    \E m \in Arrived(c) :
        /\ Receive(c, {"Exec"}, m)
        /\ LET variable == <<m.type, m.text.name, IF m.type = "A" THEN m.text.index ELSE 0>> IN
           store' = IF Exists(variable)
                    THEN [store EXCEPT ![variable] = Value(m.x, m.by, IF m.text.unit = None THEN "number" ELSE m.text.unit)]
                    ELSE store
        /\ UNCHANGED <<registered, requests, got, sample, overwritten>>

\* lookup(): a data request is found by the name or the code which it has at the server.
LookedUp(c, type, name) ==
    IF type # "request" THEN VariableId(type, name)
    ELSE IF requests[c] # None /\ ~requests[c].calculated /\ requests[c].name = name THEN 0 ELSE -1

ServeLookup(c) ==
    \E m \in Arrived(c) :
        /\ Receive(c, {"Lookup"}, m)
        /\ LET id == LookedUp(c, m.type, m.text.name) IN
           got' = [got EXCEPT ![c] = [call |-> m, ack |-> id >= 0, answer |-> [Zero EXCEPT !.x = id],
                                      truth |-> [Zero EXCEPT !.x = IF id >= 0 THEN NameOf(m.type, id) ELSE None]]]
        /\ UNCHANGED <<registered, store, requests, sample, overwritten>>

\* sendKeyEvent(): getKeyEventId() gives -1 for an unknown name, which is not 0 and is triggered.
KeyEventId(key) == IF key \in KeyNames THEN key ELSE None

ServeSendKey(c) ==
    \E m \in Arrived(c) :
        /\ Receive(c, {"SendKey"}, m)
        /\ got' = [got EXCEPT ![c] = [call |-> m, ack |-> TRUE, answer |-> [Zero EXCEPT !.x = KeyEventId(m.text.name)],
                                      truth |-> [Zero EXCEPT !.x = m.text.name]]]
        /\ UNCHANGED <<registered, store, requests, sample, overwritten>>

--------------------------------------------------------------------------------
\* The server: data requests

SizeOf(size) == IF size = "int" THEN 4 ELSE 8

\* TrackedRequest::operator=(): the ids looked up before are kept unless name or unit is another.
\* A converted request has its code for a name.
KeptId_Always(tr, r) == IF tr = None THEN -1 ELSE tr.variableId                         \* slip: not reset
KeptId(tr, r) == IF tr = None \/ tr.calculated \/ tr.name # r.name THEN -1 ELSE tr.variableId
KeptUnit(tr, r) == IF tr = None \/ tr.unit # r.unit THEN None ELSE tr.unitId

\* checkRequestType()
IsCode(r, variableId, unitId) ==
    variableId < 0 /\ (r.type \notin IndexedVariableTypes \/ (unitId = None /\ r.type = "A" /\ r.unit = "string"))

\* A name or unit without an id ends the updates of a request, but a token may be found by its name later.
NotFound(r, id, unit) ==
    \/ id < 0 /\ r.type # "T"
    \/ unit = None /\ r.type = "A" /\ r.unit # None

\* addOrUpdateRequest(): refused if the size grows; else the ids are looked up.
AddOrUpdateRequest(c) ==
    \E m \in Arrived(c) :
        /\ Receive(c, {"DataRequest"}, m)
        /\ LET r == m.v
               tr == requests[c]
               kept == KeptId(tr, r)
               keptUnit == KeptUnit(tr, r)
               calculated == IsCode(r, kept, keptUnit)
               id == IF calculated \/ kept >= 0 THEN kept ELSE VariableId(r.type, r.name)
               unit == IF keptUnit = None /\ ~calculated /\ r.unit \in Units THEN r.unit ELSE keptUnit
           IN IF tr # None /\ SizeOf(r.size) > SizeOf(tr.size) THEN UNCHANGED <<requests, overwritten, sample>>
              ELSE /\ requests' = [requests EXCEPT ![c] =
                         [type |-> r.type, name |-> r.name, index |-> r.index, unit |-> r.unit, size |-> r.size,
                          calculated |-> calculated, variableId |-> id, unitId |-> unit,
                          never |-> ~calculated /\ NotFound(r, id, unit)]]
                   /\ overwritten' = [overwritten EXCEPT ![c] =
                         \/ kept >= 0 /\ (r.type # tr.type \/ r.unit = "string" \/ @)
                         \/ keptUnit # None /\ r.unit = "string"]
                   /\ sample' = [sample EXCEPT ![c] = [was |-> NoSample, should |-> NoSample]]
        /\ UNCHANGED <<registered, store, got>>

\* The bytes of the result as the client will read them: a double is converted to the numeric type of the
\* request, all else is copied as it is.
Encoded(member, size) == IF member = "double" /\ size # "chars" THEN size ELSE member

ResultMember(tr) ==
    IF tr.calculated THEN IF tr.type = "A" THEN "chars" ELSE IF tr.size = "int" THEN "int" ELSE "double"
    ELSE IF tr.type = "T" /\ NameOf("T", tr.variableId) \in FlagTokens THEN "int" ELSE "double"

\* getNamedVariableValue()
Readable(tr) == IF tr.type = "L" THEN tr.variableId >= 0
                ELSE IF tr.type = "A" THEN tr.variableId >= 0 /\ tr.unitId # None
                ELSE tr.type = "T" /\ NameOf("T", tr.variableId) # None

\* The code of a converted request has no index.
Current(tr) ==
    IF tr.calculated THEN CodeValue(tr.type, tr.name, 0, tr.unit)
    ELSE Read(<<tr.type, NameOf(tr.type, tr.variableId), IF tr.type = "A" THEN tr.index ELSE 0>>,
              IF tr.type = "T" THEN None ELSE IF tr.unitId = None THEN "number" ELSE tr.unitId)

\* updateRequestValue(), from the tick or for an Update command; an error ends the updates.
UpdateRequestValue(c) ==
    /\ requests[c] # None
    /\ ~requests[c].never
    /\ LET tr == requests[c] IN
       IF tr.calculated \/ Readable(tr)
       THEN /\ sample' = [sample EXCEPT ![c] =
                  [was |-> [value |-> Current(tr), format |-> Encoded(ResultMember(tr), tr.size)],
                   should |-> [value |-> Truth(tr), format |-> IF tr.unit = "string" THEN "chars" ELSE tr.size]]]
            /\ UNCHANGED requests
       ELSE requests' = [requests EXCEPT ![c].never = TRUE] /\ UNCHANGED sample
    /\ UNCHANGED <<registered, store, queue, calls, got, overwritten>>

Next ==
    \E c \in Clients :
        \/ \E v \in Wanted : \E x \in IF v.create THEN Inputs ELSE {"zero"} : GetVariable(c, v, x)
        \/ \E v \in Wanted, x \in Inputs : SetLocalVariable(c, v, x)
        \/ \E v \in Wanted, x \in CodeInputs : SetByCode(c, v, x)
        \/ \E v \in Wanted : Lookup(c, v.type, v.name)
        \/ \E r \in Subscribed : SaveDataRequest(c, r) \/ Lookup(c, "request", r.name)
        \/ \E key \in KeyNames \cup {UnknownKey} : SendKey(c, key)
        \/ GetByCode(c) \/ Get(c) \/ Set(c) \/ Exec(c) \/ ServeLookup(c) \/ ServeSendKey(c)
        \/ AddOrUpdateRequest(c) \/ UpdateRequestValue(c)

Spec == Init /\ [][Next]_vars

--------------------------------------------------------------------------------
\* Properties

\* What the parser cannot find in the text: an index of three digits, one after an id where both have one
\* digit, and a name that starts with digits; and an id in calculator code.
Lost(m) ==
    IF AsCode(m) THEN m.text.id >= 0
    ELSE \/ m.text.index >= 100
         \/ m.text.index \in 1..9 /\ m.text.id \in 0..9
         \/ m.text.id < 0 /\ LeadingNumber[m.text.name] >= 0

\* The value with which a Get or GetCreate is answered is the one which the variable that was asked for, by
\* name or by id, at the index and in the unit that were asked for, has at that moment, through the text of
\* the client, the parser of the server and the code it makes; a lookup gives the id of that name; a key
\* event that is known is triggered.  (Unless the text cannot be parsed, see Lost.)
GotWhatWasAsked ==
    \A c \in Clients : LET g == got[c] IN g.ack =>
        CASE g.call.kind \in {"Get", "GetCreate"} -> Lost(g.call) \/ g.answer = g.truth
          [] g.call.kind = "Lookup" -> g.call.type = "request" \/ g.truth.x = g.call.text.name
          [] OTHER -> g.call.text.name = UnknownKey \/ g.answer = g.truth

\* Clients race to create and to set variables.  A variable changes only by a command to set it, or by the
\* default of the one command that creates it: no default replaces a value that is there, and no Get
\* without the flag creates a variable.
OnlySetsChange ==
    [][/\ \A v \in DOMAIN store : store'[v] # store[v] =>
            \E c \in Clients : queue[c] # <<>> /\ queue'[c] = Tail(queue[c]) /\
                LET m == Head(queue[c]) IN
                /\ m.kind # "Lookup"
                /\ m.type = v[1] /\ (Var(m.v) = v \/ Lost(m))
                /\ m.kind \in {"Set", "SetCreate", "Exec"} \/ (m.kind = "GetCreate" /\ ~Exists(v))
       /\ registered' # registered =>
            \E c \in Clients : queue'[c] # queue[c] /\ Head(queue[c]).v.create]_vars

\* What a data request delivers is the value of the variable it names, in the unit and in the type it asks
\* for, though ids are looked up once and kept by updates.  (Unless an update took over the ids of another
\* type or unit, a string has an index, or the integer of a token is asked for as a double.)
SubscriptionAgrees ==
    \A c \in Clients : sample[c].was = sample[c].should
        \/ overwritten[c]
        \/ (requests[c].unit = "string" /\ requests[c].index # 0)
        \/ (requests[c].name \in FlagTokens /\ requests[c].size # "int")
================================================================================
