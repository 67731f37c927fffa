-------------------------- MODULE VariableAccessProofs --------------------------
(***************************************************************************)
(* That the variable which is read or set is the one that was asked for,   *)
(* for any names, ids, indexes and units: what the text of a command says  *)
(* still holds when the server takes it apart, for an id once given stays  *)
(* with its name; and the ids kept in a data request are those of its name *)
(* unless an update took over others.                                      *)
(***************************************************************************)
EXTENDS VariableAccess, TLAPS
--------------------------------------------------------------------------------
(* The inductive invariant                                                 *)

\* What a command says, after the client has made its text.
AllUnits == Units \cup {None, BadUnit}
Texts == [name : Names \cup KeyNames \cup {UnknownKey, None}, id : Nat \cup {-1}, index : Indexes,
          unit : AllUnits, unitById : BOOLEAN]
Kinds == {"Get", "GetCreate", "Set", "SetCreate", "Exec", "Lookup", "SendKey", "DataRequest"}
Messages == [kind : Kinds, type : VariableTypes \cup {"request"}, text : Texts,
             v : Wanted \cup Subscribed \cup {None}, x : Inputs \cup CodeInputs, by : Clients]

\* The text of a command names v: by its name, or by the id it has had since the text was made.
Denotes(text, v) ==
    \/ text.id = -1 /\ text.name = v.name
    \/ v.type \in IndexedVariableTypes /\ text.id >= 0 /\ text.id = VariableId(v.type, v.name) /\ text.name = None

\* The rest of the text is what v says.
Says(text, v) ==
    /\ text.index = IF v.type = "A" THEN v.index ELSE 0
    /\ text.unit = IF v.type \in UnitBasedVariableTypes THEN v.unit ELSE None
    /\ text.unitById = (v.type \in IndexedVariableTypes /\ v.unitById)

Faithful(m) ==
    /\ m.kind \in {"Get", "GetCreate", "Set", "SetCreate"} =>
        /\ m.v \in Wanted
        /\ m.type = m.v.type
        /\ Denotes(m.text, m.v)
        /\ Says(m.text, m.v)
        /\ m.kind # "Get" => m.type = "L"
        /\ m.kind \in {"GetCreate", "SetCreate"} => m.v.create
        /\ m.kind = "Set" => ~m.v.create
    /\ m.kind = "Exec" =>
        /\ m.v \in Wanted
        /\ m.type = m.v.type
        /\ m.text.name = m.v.name /\ m.text.index = m.v.index
    /\ m.kind = "Lookup" => m.text.name \in Names
    /\ m.kind = "SendKey" => m.text.name \in KeyNames \cup {UnknownKey}
    /\ m.kind = "DataRequest" => m.v \in Subscribed

\* Names of L variables are registered once.
RegisteredOnce ==
    /\ registered \in Seq(Names)
    /\ \A i, j \in DOMAIN registered : registered[i] = registered[j] => i = j

Tracked == [type : VariableTypes, name : Names, index : Indexes, unit : AllUnits, size : Sizes,
            calculated : BOOLEAN, variableId : Nat \cup {-1}, unitId : Units \cup {None}, never : BOOLEAN]

\* The ids of a data request are those of its name and its unit, unless it took over others.
IdsAreCurrent(tr, tookOver) ==
    /\ tr.type \notin IndexedVariableTypes => tr.unit # BadUnit
    /\ tr.size = "chars" <=> tr.type = "A" /\ tr.unit = "string"
    /\ tr.unit = "string" => tr.type = "A"
    /\ tr.unitId # None => tr.unitId = tr.unit
    /\ tr.unit \in Units /\ ~tr.calculated => tr.unitId = tr.unit
    /\ tr.calculated => tr.variableId = -1 /\ (tr.type \notin IndexedVariableTypes \/ (tr.type = "A" /\ tr.unit = "string"))
    /\ ~tookOver => /\ tr.variableId >= 0 => tr.variableId = VariableId(tr.type, tr.name)
                    /\ tr.unit = "string" => tr.calculated
                    /\ tr.type \notin IndexedVariableTypes => tr.calculated

Shape ==
    /\ DOMAIN store = Known \cup Locals
    /\ DOMAIN got = Clients /\ DOMAIN sample = Clients
    /\ overwritten \in [Clients -> BOOLEAN]

CommandsAreFaithful ==
    /\ queue \in [Clients -> Seq(Messages)]
    /\ \A c \in Clients : \A i \in DOMAIN queue[c] : Faithful(queue[c][i])

RequestsAreCurrent ==
    /\ requests \in [Clients -> Tracked \cup {None}]
    /\ \A c \in Clients : requests[c] # None => IdsAreCurrent(requests[c], overwritten[c])

Inductive == RegisteredOnce /\ Shape /\ CommandsAreFaithful /\ RequestsAreCurrent

\* An id once given stays with its name.
IdsStay == \A type \in VariableTypes \cup {"request"}, name \in Names :
    VariableId(type, name) >= 0 => VariableId(type, name)' = VariableId(type, name)

--------------------------------------------------------------------------------
(* Names and their ids                                                     *)

\* The id of an L variable is its place in the order of registration, and -1 stands for no variable.
LEMMA LocalIdIsPlace ==
    ASSUME RegisteredOnce
    PROVE  /\ \A i \in DOMAIN registered : LocalId(registered[i]) = i - 1
           /\ \A name : LocalId(name) # -1 => LocalId(name) + 1 \in DOMAIN registered
                                              /\ registered[LocalId(name) + 1] = name
           /\ \A name : LocalId(name) \in Nat \cup {-1}
  <1>1. \A i \in DOMAIN registered : i \in Nat \ {0}
    BY DEF RegisteredOnce
  <1>2. ASSUME NEW name, NEW i \in DOMAIN registered, registered[i] = name
        PROVE  LocalId(name) = i - 1
    <2>1. (CHOOSE j \in DOMAIN registered : registered[j] = name) = i
      BY <1>2 DEF RegisteredOnce
    <2> QED BY <2>1, <1>2 DEF LocalId
  <1>3. ASSUME NEW name, ~\E i \in DOMAIN registered : registered[i] = name
        PROVE  LocalId(name) = -1
    BY <1>3 DEF LocalId
  <1>4. ASSUME NEW name
        PROVE  /\ LocalId(name) # -1 => LocalId(name) + 1 \in DOMAIN registered
                                        /\ registered[LocalId(name) + 1] = name
               /\ LocalId(name) \in Nat \cup {-1}
    <2>1. CASE \E i \in DOMAIN registered : registered[i] = name
      <3>1. PICK i \in DOMAIN registered : registered[i] = name
        BY <2>1
      <3>2. LocalId(name) = i - 1 /\ i \in Nat \ {0}
        BY <1>1, <1>2, <3>1
      <3>3. LocalId(name) + 1 = i
        BY <3>2
      <3> QED BY <3>1, <3>2, <3>3
    <2>2. CASE ~\E i \in DOMAIN registered : registered[i] = name
      BY <1>3, <2>2
    <2> QED BY <2>1, <2>2
  <1> QED BY <1>2, <1>4

\* An id is a natural number, or -1 if there is no variable of that name.
LEMMA VariableIdType ==
    ASSUME RegisteredOnce
    PROVE  \A type, name : VariableId(type, name) \in Nat \cup {-1}
  BY LocalIdIsPlace, IdsAreUnique DEF VariableId, TokenVariableId

\* The name under which a type has an id is the one that was looked up.
LEMMA IdNamesOne ==
    ASSUME RegisteredOnce, NEW type \in IndexedVariableTypes, NEW name \in Names, VariableId(type, name) >= 0
    PROVE  NameOf(type, VariableId(type, name)) = name
  <1> DEFINE id == VariableId(type, name)
             IdIn(n) == CASE type = "L" -> LocalId(n)
                          [] type = "A" -> IF n \in DOMAIN SimIds THEN SimIds[n] ELSE -1
                          [] OTHER -> TokenVariableId(n)
             named == {n \in Names : id = IdIn(n)}
  <1>1. id \in Nat
    BY VariableIdType
  <1>2. \A n \in Names : IdIn(n) = VariableId(type, n)
    BY DEF VariableId, IndexedVariableTypes
  <1>3. name \in named
    BY <1>2
  <1>4. ASSUME NEW n \in named PROVE n = name
    <2>1. VariableId(type, n) = id /\ n \in Names
      BY <1>2
    <2>2. CASE type = "L"
      <3>1. LocalId(n) = LocalId(name) /\ LocalId(n) # -1
        BY <2>1, <2>2, <1>1 DEF VariableId
      <3> QED BY <3>1, LocalIdIsPlace
    <2>3. CASE type = "A"
      <3>1. n \in DOMAIN SimIds /\ name \in DOMAIN SimIds /\ SimIds[n] = SimIds[name]
        BY <2>1, <2>3, <1>1 DEF VariableId
      <3> QED BY <3>1, IdsAreUnique
    <2>4. CASE type = "T"
      <3>1. n \in DOMAIN TokenIds /\ name \in DOMAIN TokenIds /\ TokenIds[n] = TokenIds[name]
        BY <2>1, <2>4, <1>1 DEF VariableId, TokenVariableId
      <3> QED BY <3>1, IdsAreUnique
    <2> QED BY <2>2, <2>3, <2>4 DEF IndexedVariableTypes
  <1>5. NameOf(type, id) = CHOOSE n \in named : TRUE
    BY <1>1, <1>3 DEF NameOf
  <1>6. (CHOOSE n \in named : TRUE) \in named
    BY <1>3
  <1> HIDE DEF named, id
  <1>7. NameOf(type, id) = name
    BY <1>4, <1>5, <1>6
  <1> QED BY <1>7 DEF id

\* A name found for an id has that id.
LEMMA FoundNameHasId ==
    ASSUME RegisteredOnce, NEW type \in IndexedVariableTypes, NEW id, NameOf(type, id) # None
    PROVE  NameOf(type, id) \in Names /\ VariableId(type, NameOf(type, id)) = id /\ id >= 0
  <1> DEFINE IdIn(n) == CASE type = "L" -> LocalId(n)
                          [] type = "A" -> IF n \in DOMAIN SimIds THEN SimIds[n] ELSE -1
                          [] OTHER -> TokenVariableId(n)
             named == {n \in Names : id = IdIn(n)}
  <1>1. id >= 0 /\ named # {} /\ NameOf(type, id) = CHOOSE n \in named : TRUE
    BY DEF NameOf
  <1>2. NameOf(type, id) \in named
    BY <1>1
  <1>3. \A n \in Names : IdIn(n) = VariableId(type, n)
    BY DEF VariableId, IndexedVariableTypes
  <1> QED BY <1>1, <1>2, <1>3

\* Registering a name gives it an id, keeps those given before and gives none twice.
LEMMA RegisterKeepsIds ==
    ASSUME RegisteredOnce, NEW name \in Names, Register(name)
    PROVE  RegisteredOnce' /\ IdsStay /\ LocalId(name)' >= 0
  <1>1. CASE LocalId(name) >= 0
    BY <1>1 DEF Register, RegisteredOnce, IdsStay, VariableId, LocalId
  <1>2. CASE ~(LocalId(name) >= 0)
    <2>1. registered' = Append(registered, name) /\ registered \in Seq(Names)
      BY <1>2 DEF Register, RegisteredOnce
    <2>2. \A i \in DOMAIN registered : registered[i] # name
      BY <1>2, LocalIdIsPlace DEF RegisteredOnce
    <2>3. /\ DOMAIN registered' = (DOMAIN registered) \cup {Len(registered) + 1}
          /\ \A i \in DOMAIN registered : registered'[i] = registered[i]
          /\ registered'[Len(registered) + 1] = name
          /\ registered' \in Seq(Names)
      BY <2>1
    <2>4. RegisteredOnce'
      BY <2>2, <2>3 DEF RegisteredOnce
    <2>5. ASSUME NEW n, NEW i \in DOMAIN registered', registered'[i] = n
          PROVE  LocalId(n)' = i - 1
      <3>1. (CHOOSE j \in DOMAIN registered' : registered'[j] = n) = i
        BY <2>4, <2>5 DEF RegisteredOnce
      <3> QED BY <3>1, <2>5 DEF LocalId
    <2>6. ASSUME NEW n, LocalId(n) >= 0
          PROVE  LocalId(n)' = LocalId(n)
      <3>1. PICK i \in DOMAIN registered : registered[i] = n
        BY <2>6, LocalIdIsPlace
      <3>2. LocalId(n) = i - 1 /\ LocalId(n)' = i - 1
        BY <3>1, <2>3, <2>5, LocalIdIsPlace
      <3> QED BY <3>2
    <2>7. IdsStay
      BY <2>6 DEF IdsStay, VariableId, TokenVariableId
    <2>8. LocalId(name)' = Len(registered)
      BY <2>3, <2>5, <2>1
    <2> QED BY <2>4, <2>7, <2>8, <2>1
  <1> QED BY <1>1, <1>2
--------------------------------------------------------------------------------
(* What the commands say stays true                                        *)

\* The names of the constants do not meet.
LEMMA NoneIsNoName == None \notin Names /\ None \notin Units /\ None # BadUnit /\ BadUnit \notin Units
  BY IdsAreUnique DEF BadUnit, Units

\* Where nothing is registered, ids stay.
LEMMA NoRegistrationKeepsIds ==
    ASSUME RegisteredOnce, registered' = registered
    PROVE  RegisteredOnce' /\ IdsStay
  BY DEF RegisteredOnce, IdsStay, VariableId, LocalId, TokenVariableId

\* A command on its way stays what its variable says.
LEMMA FaithfulStays ==
    ASSUME IdsStay, NEW m \in Messages, Faithful(m)
    PROVE  Faithful(m)'
  <1>1. CASE m.kind \in {"Get", "GetCreate", "Set", "SetCreate"}
    <2>1. m.v \in Wanted /\ m.v.name \in Names /\ m.v.type \in VariableTypes /\ Denotes(m.text, m.v)
      BY <1>1, WantedMakesSense DEF Faithful
    <2>2. Denotes(m.text, m.v)'
      BY <2>1 DEF IdsStay, Denotes
    <2> QED BY <1>1, <2>2 DEF Faithful, Says
  <1>2. CASE m.kind \notin {"Get", "GetCreate", "Set", "SetCreate"}
    BY <1>2 DEF Faithful
  <1> QED BY <1>1, <1>2

\* The ids of a data request stay those of its name.
LEMMA CurrentStays ==
    ASSUME IdsStay, NEW tr \in Tracked, NEW tookOver \in BOOLEAN, IdsAreCurrent(tr, tookOver)
    PROVE  IdsAreCurrent(tr, tookOver)'
  <1>1. tr.type \in VariableTypes /\ tr.name \in Names
    BY DEF Tracked
  <1>2. tr.variableId >= 0 /\ tr.variableId = VariableId(tr.type, tr.name) => tr.variableId = VariableId(tr.type, tr.name)'
    BY <1>1 DEF IdsStay
  <1> QED BY <1>2 DEF IdsAreCurrent

\* A command that has arrived is the first of its client's, and faithful.
LEMMA ArrivedIsFaithful ==
    ASSUME CommandsAreFaithful, NEW c \in Clients, NEW m \in Arrived(c)
    PROVE  /\ m = Head(queue[c]) /\ queue[c] # <<>>
           /\ m \in Messages /\ Faithful(m)
  <1>1. m = Head(queue[c]) /\ queue[c] # <<>>
    BY DEF Arrived
  <1>2. queue[c] \in Seq(Messages) /\ 1 \in DOMAIN queue[c] /\ Head(queue[c]) = queue[c][1]
    BY <1>1 DEF CommandsAreFaithful
  <1> QED BY <1>1, <1>2 DEF CommandsAreFaithful

\* The commands that wait behind it stay faithful.
LEMMA ReceiveKeepsCommands ==
    ASSUME CommandsAreFaithful, IdsStay, NEW c \in Clients, queue[c] # <<>>,
           queue' = [queue EXCEPT ![c] = Tail(@)]
    PROVE  CommandsAreFaithful'
  <1>1. queue' \in [Clients -> Seq(Messages)]
    BY DEF CommandsAreFaithful
  <1>2. ASSUME NEW d \in Clients, NEW i \in DOMAIN queue'[d]
        PROVE  Faithful(queue[d][i])'
    <2>1. PICK j \in DOMAIN queue[d] : queue'[d][i] = queue[d][j]
      <3>1. CASE d = c
        <4>1. queue'[d] = Tail(queue[d]) /\ queue[d] \in Seq(Messages)
          BY <3>1 DEF CommandsAreFaithful
        <4>2. PICK s \in Seq(Messages) : s = queue[d] /\ s # <<>> /\ queue'[d] = Tail(s)
          BY <4>1, <3>1
        <4>3. i \in DOMAIN Tail(s)
          BY <4>2
        <4>4. i + 1 \in DOMAIN s /\ Tail(s)[i] = s[i + 1]
          BY <4>2, <4>3
        <4> QED BY <4>2, <4>4
      <3>2. CASE d # c
        BY <3>2 DEF CommandsAreFaithful
      <3> QED BY <3>1, <3>2
    <2>2. PICK m \in Messages : m = queue[d][j] /\ Faithful(m)
      BY DEF CommandsAreFaithful
    <2>3. Faithful(m)'
      BY <2>2, FaithfulStays
    <2> QED BY <2>1, <2>2, <2>3
  <1> QED BY <1>1, <1>2 DEF CommandsAreFaithful

\* Data requests that are left alone stay current.
LEMMA RequestsStayCurrent ==
    ASSUME RequestsAreCurrent, Shape, IdsStay, requests' = requests, overwritten' = overwritten
    PROVE  RequestsAreCurrent'
  <1>1. requests' \in [Clients -> Tracked \cup {None}]
    BY DEF RequestsAreCurrent
  <1>2. ASSUME NEW c \in Clients, requests[c] # None
        PROVE  IdsAreCurrent(requests[c], overwritten[c])'
    <2>1. PICK tr \in Tracked, b \in BOOLEAN : tr = requests[c] /\ b = overwritten[c] /\ IdsAreCurrent(tr, b)
      BY <1>2 DEF RequestsAreCurrent, Shape
    <2>2. IdsAreCurrent(tr, b)'
      BY <2>1, CurrentStays
    <2>3. tr = requests'[c] /\ b = overwritten'[c]
      BY <2>1
    <2> QED BY <2>2, <2>3
  <1> QED BY <1>1, <1>2 DEF RequestsAreCurrent

\* A client that sends a command which is faithful keeps the invariant.
LEMMA SendKeepsInvariant ==
    ASSUME Inductive, NEW c \in Clients, NEW m \in Messages, Faithful(m), Send(c, m)
    PROVE  Inductive'
  <1>1. RegisteredOnce' /\ IdsStay
    BY NoRegistrationKeepsIds DEF Send, Inductive
  <1>2. Shape'
    BY DEF Send, Inductive, Shape
  <1>3. RequestsAreCurrent'
    BY <1>1, RequestsStayCurrent DEF Send, Inductive
  <1>4. queue \in [Clients -> Seq(Messages)] /\ queue' = [queue EXCEPT ![c] = Append(@, m)]
    BY DEF Send, Inductive, CommandsAreFaithful
  <1>5. queue' \in [Clients -> Seq(Messages)]
    BY <1>4
  <1>6. ASSUME NEW d \in Clients, NEW i \in DOMAIN queue'[d]
        PROVE  Faithful(queue[d][i])'
    <2>1. CASE d = c /\ i = Len(queue[d]) + 1
      <3>1. queue'[d][i] = m
        BY <1>4, <2>1
      <3>2. Faithful(m)'
        BY <1>1, FaithfulStays
      <3> QED BY <3>1, <3>2
    <2>2. CASE ~(d = c /\ i = Len(queue[d]) + 1)
      <3>1. i \in DOMAIN queue[d] /\ queue'[d][i] = queue[d][i]
        BY <1>4, <2>2
      <3>2. PICK k \in Messages : k = queue[d][i] /\ Faithful(k)
        BY <3>1, <1>4 DEF Inductive, CommandsAreFaithful
      <3>3. Faithful(k)'
        BY <3>2, <1>1, FaithfulStays
      <3> QED BY <3>1, <3>2, <3>3
    <2> QED BY <2>1, <2>2
  <1> QED BY <1>1, <1>2, <1>3, <1>5, <1>6 DEF Inductive, CommandsAreFaithful
--------------------------------------------------------------------------------
(* The applications' calls                                                 *)

\* The text of a command says what the variable says, in whichever way it is named.
LEMMA BuiltTextIsFaithful ==
    ASSUME RegisteredOnce, NEW v \in Wanted, NEW isLocal \in BOOLEAN, isLocal => v.type = "L"
    PROVE  LET text == BuildVariableCommandString(v, isLocal)
           IN text \in Texts /\ Denotes(text, v) /\ Says(text, v)
  <1> DEFINE text == BuildVariableCommandString(v, isLocal)
             id == IF v.type \in IndexedVariableTypes THEN IdOf(v) ELSE -1
  <1>1. /\ v.type \in VariableTypes /\ v.name \in Names /\ v.byId \in BOOLEAN /\ v.index \in Indexes
        /\ v.unit \in AllUnits /\ v.unitById \in BOOLEAN
        /\ v.type \notin IndexedVariableTypes => ~v.unitById
    BY WantedMakesSense DEF AllUnits
  <1>2. "L" \in IndexedVariableTypes /\ "L" \in UnitBasedVariableTypes
    BY DEF IndexedVariableTypes, UnitBasedVariableTypes
  <1>3. text = [name |-> IF id >= 0 THEN None ELSE v.name,
                id |-> id,
                index |-> IF v.type = "A" THEN v.index ELSE 0,
                unit |-> IF v.type \in UnitBasedVariableTypes THEN v.unit ELSE None,
                unitById |-> v.type \in IndexedVariableTypes /\ v.unitById]
    BY <1>1, <1>2 DEF BuildVariableCommandString
  <1>4. id \in Nat \cup {-1}
    BY VariableIdType DEF IdOf
  <1>5. id >= 0 => v.type \in IndexedVariableTypes /\ id = VariableId(v.type, v.name)
    BY DEF IdOf
  <1> HIDE DEF id, text
  <1>6. text \in Texts
    BY <1>1, <1>3, <1>4, VariableConstants DEF Texts, AllUnits
  <1>7. Denotes(text, v)
    BY <1>1, <1>3, <1>4, <1>5 DEF Denotes
  <1>8. Says(text, v)
    BY <1>1, <1>3 DEF Says
  <1> QED BY <1>6, <1>7, <1>8 DEF text

\* The text that is only a name, an index and a unit is a text.
LEMMA PlainIsText ==
    ASSUME NEW name \in Names \cup KeyNames \cup {UnknownKey}, NEW index \in Indexes, NEW unit \in AllUnits
    PROVE  /\ Plain(name, index, unit) \in Texts
           /\ Plain(name, index, unit).name = name /\ Plain(name, index, unit).index = index
  BY DEF Plain, Texts

\* A command that is made of such parts is a message.
LEMMA CommandIsMessage ==
    ASSUME NEW kind \in Kinds, NEW type \in VariableTypes \cup {"request"}, NEW text \in Texts,
           NEW v \in Wanted \cup Subscribed \cup {None}, NEW x \in Inputs \cup CodeInputs, NEW c \in Clients
    PROVE  LET m == Command(kind, type, text, v, x, c)
           IN m \in Messages /\ m.kind = kind /\ m.type = type /\ m.text = text /\ m.v = v
  BY DEF Command, Messages

\* getVariable() keeps the invariant.
LEMMA GetVariableKeepsInvariant ==
    ASSUME Inductive, NEW c \in Clients, NEW v \in Wanted, NEW x \in Inputs, GetVariable(c, v, x)
    PROVE  Inductive'
  <1> DEFINE kind == IF v.create /\ v.type = "L" THEN "GetCreate" ELSE "Get"
             text == BuildVariableCommandString(v, FALSE)
             m == Command(kind, v.type, text, v, x, c)
  <1>1. v.type \in VariableTypes /\ v.create \in BOOLEAN
    BY WantedMakesSense
  <1>2. text \in Texts /\ Denotes(text, v) /\ Says(text, v)
    BY BuiltTextIsFaithful DEF Inductive
  <1>3. kind \in Kinds /\ kind \in {"Get", "GetCreate"} /\ (kind = "GetCreate" => v.create /\ v.type = "L")
    BY DEF Kinds
  <1> HIDE DEF kind, text
  <1>4. m \in Messages /\ m.kind = kind /\ m.type = v.type /\ m.text = text /\ m.v = v
    BY <1>1, <1>2, <1>3, CommandIsMessage
  <1>5. Send(c, m)
    BY DEF GetVariable, kind, text
  <1> HIDE DEF m
  <1>6. Faithful(m)
    BY <1>2, <1>3, <1>4 DEF Faithful
  <1> QED BY <1>4, <1>5, <1>6, SendKeepsInvariant

\* setLocalVariable() keeps the invariant.
LEMMA SetLocalVariableKeepsInvariant ==
    ASSUME Inductive, NEW c \in Clients, NEW v \in Wanted, NEW x \in Inputs, SetLocalVariable(c, v, x)
    PROVE  Inductive'
  <1> DEFINE kind == IF v.create THEN "SetCreate" ELSE "Set"
             text == BuildVariableCommandString(v, TRUE)
             m == Command(kind, "L", text, v, x, c)
  <1>1. v.type = "L" /\ "L" \in VariableTypes /\ v.create \in BOOLEAN
    BY WantedMakesSense DEF SetLocalVariable, VariableTypes, IndexedVariableTypes
  <1>2. text \in Texts /\ Denotes(text, v) /\ Says(text, v)
    BY <1>1, BuiltTextIsFaithful DEF Inductive
  <1>3. /\ kind \in Kinds /\ kind \in {"Set", "SetCreate"}
        /\ kind = "SetCreate" => v.create
        /\ kind = "Set" => ~v.create
    BY DEF Kinds
  <1> HIDE DEF kind, text
  <1>4. m \in Messages /\ m.kind = kind /\ m.type = "L" /\ m.text = text /\ m.v = v
    BY <1>1, <1>2, <1>3, CommandIsMessage
  <1>5. Send(c, m)
    BY DEF SetLocalVariable, kind, text
  <1> HIDE DEF m
  <1>6. Faithful(m)
    BY <1>1, <1>2, <1>3, <1>4 DEF Faithful
  <1> QED BY <1>4, <1>5, <1>6, SendKeepsInvariant

\* Setting by calculator code keeps the invariant.
LEMMA SetByCodeKeepsInvariant ==
    ASSUME Inductive, NEW c \in Clients, NEW v \in Wanted, NEW x \in CodeInputs, SetByCode(c, v, x)
    PROVE  Inductive'
  <1> DEFINE text == Plain(v.name, v.index, v.unit)
             m == Command("Exec", v.type, text, v, Printed(x), c)
  <1>1. v.type \in VariableTypes /\ v.name \in Names /\ v.index \in Indexes /\ v.unit \in AllUnits
    BY WantedMakesSense DEF AllUnits
  <1>2. text \in Texts /\ text.name = v.name /\ text.index = v.index
    BY <1>1, PlainIsText
  <1>3. Printed(x) \in Inputs /\ "Exec" \in Kinds
    BY DEF Printed, Inputs, CodeInputs, Kinds
  <1> HIDE DEF text
  <1>4. m \in Messages /\ m.kind = "Exec" /\ m.type = v.type /\ m.text = text /\ m.v = v
    BY <1>1, <1>2, <1>3, CommandIsMessage
  <1>5. Send(c, m)
    BY DEF SetByCode, text
  <1> HIDE DEF m
  <1>6. Faithful(m)
    BY <1>2, <1>4 DEF Faithful
  <1> QED BY <1>4, <1>5, <1>6, SendKeepsInvariant

\* lookup() keeps the invariant.
LEMMA LookupKeepsInvariant ==
    ASSUME Inductive, NEW c \in Clients, NEW type \in VariableTypes \cup {"request"}, NEW name \in Names,
           Lookup(c, type, name)
    PROVE  Inductive'
  <1> DEFINE text == Plain(name, 0, None)
             m == Command("Lookup", type, text, None, "zero", c)
  <1>1. text \in Texts /\ text.name = name
    BY PlainIsText, VariableConstants DEF AllUnits
  <1>2. "zero" \in Inputs /\ "Lookup" \in Kinds
    BY DEF Inputs, Kinds
  <1> HIDE DEF text
  <1>3. m \in Messages /\ m.kind = "Lookup" /\ m.text = text
    BY <1>1, <1>2 DEF Command, Messages
  <1>4. Send(c, m)
    BY DEF Lookup, text
  <1> HIDE DEF m
  <1>5. Faithful(m)
    BY <1>1, <1>3 DEF Faithful
  <1> QED BY <1>3, <1>4, <1>5, SendKeepsInvariant

\* sendCommand() of a named key event keeps the invariant.
LEMMA SendKeyKeepsInvariant ==
    ASSUME Inductive, NEW c \in Clients, NEW key \in KeyNames \cup {UnknownKey}, SendKey(c, key)
    PROVE  Inductive'
  <1> DEFINE text == Plain(key, 0, None)
             m == Command("SendKey", "K", text, None, "zero", c)
  <1>1. text \in Texts /\ text.name = key
    BY PlainIsText, VariableConstants DEF AllUnits
  <1>2. "zero" \in Inputs /\ "SendKey" \in Kinds /\ "K" \in VariableTypes
    BY DEF Inputs, Kinds, VariableTypes, SettableVariableTypes
  <1> HIDE DEF text
  <1>3. m \in Messages /\ m.kind = "SendKey" /\ m.text = text
    BY <1>1, <1>2 DEF Command, Messages
  <1>4. Send(c, m)
    BY DEF SendKey, text
  <1> HIDE DEF m
  <1>5. Faithful(m)
    BY <1>1, <1>3 DEF Faithful
  <1> QED BY <1>3, <1>4, <1>5, SendKeepsInvariant

\* saveDataRequest() keeps the invariant.
LEMMA SaveDataRequestKeepsInvariant ==
    ASSUME Inductive, NEW c \in Clients, NEW r \in Subscribed, SaveDataRequest(c, r)
    PROVE  Inductive'
  <1> DEFINE text == Plain(r.name, r.index, r.unit)
             m == Command("DataRequest", r.type, text, r, "zero", c)
  <1>1. r.type \in VariableTypes /\ r.name \in Names /\ r.index \in Indexes /\ r.unit \in AllUnits
    BY SubscribedMakesSense DEF AllUnits
  <1>2. text \in Texts
    BY <1>1, PlainIsText
  <1>3. "zero" \in Inputs /\ "DataRequest" \in Kinds
    BY DEF Inputs, Kinds
  <1> HIDE DEF text
  <1>4. m \in Messages /\ m.kind = "DataRequest" /\ m.v = r
    BY <1>1, <1>2, <1>3, CommandIsMessage
  <1>5. Send(c, m)
    BY DEF SaveDataRequest, text
  <1> HIDE DEF m
  <1>6. Faithful(m)
    BY <1>4 DEF Faithful
  <1> QED BY <1>4, <1>5, <1>6, SendKeepsInvariant
--------------------------------------------------------------------------------
(* The server takes a text apart                                           *)

\* What the parser does find is what the variable of the command says.
LEMMA ParsedIsAsked ==
    ASSUME RegisteredOnce, NEW m \in Messages, Faithful(m), NEW create \in BOOLEAN,
           m.kind \in {"Get", "GetCreate", "Set", "SetCreate"}, ~AsCode(m), ~Lost(m),
           Resolved(m.type, m.text, Parsed(m.type, m.text, create))
    PROVE  LET p == Parsed(m.type, m.text, create)
           IN p.name = m.v.name /\ p.index = IF m.type = "A" THEN m.v.index ELSE 0
  <1> DEFINE text == m.text
             p == Parsed(m.type, text, create)
             lost == text.index # 0 /\ ~IndexFound(text)
  <1>1. /\ m.v \in Wanted /\ m.type = m.v.type /\ Denotes(text, m.v)
        /\ text.index = IF m.type = "A" THEN m.v.index ELSE 0
    BY DEF Faithful, Says
  <1>0. m.type \in IndexedVariableTypes
    BY DEF AsCode
  <1>2. m.v.name \in Names /\ m.v.index \in Indexes /\ text.index \in Nat /\ text.id \in Nat \cup {-1}
    <2>1. m.v.name \in Names /\ m.v.index \in Indexes
      BY <1>1, WantedMakesSense
    <2>2. text.index \in Indexes
      BY DEF Messages, Texts
    <2>3. text.id \in Nat \cup {-1}
      BY DEF Messages, Texts
    <2>4. \A i \in Indexes : i \in Nat
      BY VariableConstants
    <2> QED BY <2>1, <2>2, <2>3, <2>4
  <1>3. /\ ~(text.index >= 100)
        /\ ~(text.index \in 1..9 /\ text.id \in 0..9)
        /\ ~(text.id < 0 /\ LeadingNumber[text.name] >= 0)
    BY DEF Lost
  <1>4. CASE text.id = -1 /\ text.name = m.v.name
    <2>1. LeadingNumber[text.name] = -1
      BY <1>2, <1>3, <1>4, VariableConstants
    <2>2. p.name # None
      BY <1>4, <2>1 DEF Resolved
    <2>3. p.name = text.name /\ ~lost
      BY <1>4, <2>1, <2>2 DEF Parsed
    <2>4. p.index = text.index
      BY <2>3 DEF Parsed
    <2> QED BY <1>1, <1>4, <2>3, <2>4
  <1>5. CASE text.id >= 0 /\ text.id = VariableId(m.type, m.v.name)
    <2>1. text.id \in Nat
      BY <1>5, VariableIdType
    <2>2. p.name = NameOf(m.type, text.id)
      BY <1>5, <2>1 DEF Parsed
    <2>3. p.name = m.v.name
      BY <1>0, <1>2, <1>5, <2>2, IdNamesOne
    <2>4. ~lost
      BY <1>2, <1>3, <2>1 DEF IndexFound, Digits
    <2>5. p.index = text.index
      BY <2>4 DEF Parsed
    <2> QED BY <1>1, <2>3, <2>5
  <1> QED BY <1>1, <1>4, <1>5 DEF Denotes

\* An L variable that the parser does find is registered, or was named by the command that creates it.
LEMMA ParsedLocal ==
    ASSUME RegisteredOnce, NEW m \in Messages, Faithful(m), NEW create \in BOOLEAN,
           m.kind \in {"Get", "GetCreate", "Set", "SetCreate"}, m.type = "L",
           Parsed("L", m.text, create).name # None
    PROVE  LET p == Parsed("L", m.text, create)
           IN p.name \in Names /\ (LocalId(p.name) >= 0 \/ (create /\ p.name = m.v.name))
  <1> DEFINE text == m.text
             p == Parsed("L", text, create)
             number == IF text.id >= 0 THEN text.id ELSE LeadingNumber[text.name]
  <1>1. m.v \in Wanted /\ m.v.name \in Names /\ m.v.type = "L" /\ Denotes(text, m.v) /\ "L" \in IndexedVariableTypes
    BY WantedMakesSense DEF Faithful, IndexedVariableTypes
  <1>0. text.id \in Nat \cup {-1}
    BY DEF Messages, Texts
  <1>2. CASE ~(text.id < 0 /\ number < 0)
    <2>1. p.name = NameOf("L", number)
      BY <1>2 DEF Parsed
    <2>2. p.name \in Names /\ VariableId("L", p.name) = number /\ number >= 0
      BY <1>1, <2>1, FoundNameHasId
    <2> QED BY <2>2 DEF VariableId
  <1>3. CASE text.id < 0 /\ number < 0
    <2>1. text.name = m.v.name
      BY <1>0, <1>1, <1>3 DEF Denotes
    <2>2. p.name = text.name /\ (create \/ VariableId("L", text.name) >= 0)
      BY <1>3 DEF Parsed
    <2> QED BY <1>1, <2>1, <2>2 DEF VariableId
  <1> QED BY <1>2, <1>3

\* What is not taken to have existed is an L variable without an id, which the command creates by name.
LEMMA NewIsNamed ==
    ASSUME RegisteredOnce, NEW m \in Messages, Faithful(m), NEW create \in BOOLEAN,
           m.kind \in {"Get", "GetCreate"}, create => m.type = "L",
           Resolved(m.type, m.text, Parsed(m.type, m.text, create)), ~Parsed(m.type, m.text, create).existed
    PROVE  LET p == Parsed(m.type, m.text, create)
           IN /\ create /\ m.type = "L" /\ m.v \in Wanted /\ m.v.type = "L"
              /\ p.name = m.v.name /\ p.name \in Names /\ p.index = 0 /\ ~(LocalId(p.name) >= 0)
  <1> DEFINE text == m.text
             p == Parsed(m.type, text, create)
             number == IF text.id >= 0 THEN text.id ELSE LeadingNumber[text.name]
  <1>1. create /\ text.id < 0 /\ number < 0 /\ LocalId(text.name) < 0
    BY DEF Parsed
  <1>2. m.type = "L" /\ m.v \in Wanted /\ m.v.type = "L" /\ Denotes(text, m.v) /\ text.index = 0
    BY <1>1 DEF Faithful, Says
  <1>3. m.v.name \in Names /\ text.name = m.v.name
    <2>1. text.id \in Nat \cup {-1}
      BY DEF Messages, Texts
    <2>2. ~(text.id >= 0)
      BY <1>1, <2>1
    <2> QED BY <1>2, <2>2, WantedMakesSense DEF Denotes
  <1>4. p.name # None
    <2>1. text.id \in Nat \cup {-1} /\ LeadingNumber[text.name] \in Nat \cup {-1}
      BY <1>3, VariableConstants DEF Messages, Texts
    <2>2. ~(text.id >= 0) /\ ~(LeadingNumber[text.name] >= 0)
      BY <1>1, <2>1
    <2> QED BY <2>2 DEF Resolved
  <1>5. p.name = text.name /\ p.index = 0
    BY <1>1, <1>2, <1>4 DEF Parsed
  <1>6. ~(LocalId(text.name) >= 0)
    BY <1>1, LocalIdIsPlace
  <1> QED BY <1>1, <1>2, <1>3, <1>5, <1>6

--------------------------------------------------------------------------------
(* The server's steps keep the invariant                                   *)

\* A command that is no data request keeps the invariant.
LEMMA ServeKeepsInvariant ==
    ASSUME Inductive, RegisteredOnce', IdsStay, Shape', NEW c \in Clients, queue[c] # <<>>,
           queue' = [queue EXCEPT ![c] = Tail(@)], requests' = requests, overwritten' = overwritten
    PROVE  Inductive'
  BY ReceiveKeepsCommands, RequestsStayCurrent DEF Inductive

\* getVariable() of what becomes calculator code keeps the invariant.
LEMMA GetByCodeKeepsInvariant ==
    ASSUME Inductive, NEW c \in Clients, GetByCode(c)
    PROVE  Inductive'
  <1>1. PICK m \in Arrived(c) :
            /\ queue' = [queue EXCEPT ![c] = Tail(@)]
            /\ UNCHANGED <<registered, store, requests, sample, overwritten>>
            /\ Answer(c, m, TRUE, CodeValue(m.type, m.text.name, m.text.index, m.text.unit))
    BY DEF GetByCode, Receive
  <1>2. queue[c] # <<>>
    BY ArrivedIsFaithful DEF Inductive
  <1>3. RegisteredOnce' /\ IdsStay
    BY <1>1, NoRegistrationKeepsIds DEF Inductive
  <1>4. Shape'
    BY <1>1 DEF Inductive, Shape, Answer
  <1> QED BY <1>1, <1>2, <1>3, <1>4, ServeKeepsInvariant

\* getVariable() of an indexed variable keeps the invariant: a variable it creates has a new name.
LEMMA GetKeepsInvariant ==
    ASSUME Inductive, NEW c \in Clients, Get(c)
    PROVE  Inductive'
  <1>1. PICK m \in Arrived(c) :
            /\ m.kind \in {"Get", "GetCreate"}
            /\ queue' = [queue EXCEPT ![c] = Tail(@)]
            /\ UNCHANGED <<requests, sample, overwritten>>
            /\ LET create == m.kind = "GetCreate"
                   p == Parsed(m.type, m.text, create)
                   unit == UnitId(m.text)
                   variable == <<m.type, p.name, p.index>>
               IN IF ~Resolved(m.type, m.text, p) \/ (p.existed /\ m.type = "A" /\ unit = None)
                  THEN Nak(c, m) /\ UNCHANGED <<registered, store>>
                  ELSE IF p.existed
                  THEN /\ UNCHANGED <<registered, store>>
                       /\ Answer(c, m, TRUE, Read(variable, IF m.type = "L" /\ unit = None THEN "number"
                                                            ELSE IF m.type = "T" THEN None ELSE unit))
                  ELSE /\ Register(p.name)
                       /\ LET in == IF unit = None THEN "number" ELSE unit IN
                          /\ store' = [store EXCEPT ![variable] = Value(m.x, m.by, in)]
                          /\ Answer(c, m, TRUE, In(Value(m.x, m.by, in), in))
    BY DEF Get, Receive
  <1> DEFINE create == m.kind = "GetCreate"
             p == Parsed(m.type, m.text, create)
  <1>2. RegisteredOnce /\ queue[c] # <<>> /\ m \in Messages /\ Faithful(m)
    BY ArrivedIsFaithful DEF Inductive
  <1>3. DOMAIN store' = DOMAIN store /\ DOMAIN got' = DOMAIN got
    BY <1>1 DEF Answer, Nak
  <1>4. Shape'
    BY <1>1, <1>3 DEF Inductive, Shape
  <1>5. CASE registered' = registered
    BY <1>1, <1>2, <1>4, <1>5, NoRegistrationKeepsIds, ServeKeepsInvariant
  <1>6. CASE registered' # registered
    <2>1. Resolved(m.type, m.text, p) /\ ~p.existed /\ Register(p.name)
      BY <1>1, <1>6
    <2>2. p.name \in Names
      BY <1>1, <1>2, <2>1, NewIsNamed DEF Faithful
    <2>3. RegisteredOnce' /\ IdsStay
      BY <1>2, <2>1, <2>2, RegisterKeepsIds
    <2> QED BY <1>1, <1>2, <1>4, <2>3, ServeKeepsInvariant
  <1> QED BY <1>5, <1>6
\* setVariable() of an L variable keeps the invariant: a variable it creates has a new name.
LEMMA SetKeepsInvariant ==
    ASSUME Inductive, NEW c \in Clients, Set(c)
    PROVE  Inductive'
  <1>1. PICK m \in Arrived(c) :
            /\ m.kind \in {"Set", "SetCreate"}
            /\ queue' = [queue EXCEPT ![c] = Tail(@)]
            /\ UNCHANGED <<requests, got, sample, overwritten>>
            /\ LET p == Parsed("L", m.text, m.kind = "SetCreate")
                   unit == UnitId(m.text)
               IN IF p.name = None THEN UNCHANGED <<registered, store>>
                  ELSE /\ Register(p.name)
                       /\ store' = [store EXCEPT ![<<"L", p.name, 0>>] =
                                    Value(m.x, m.by, IF unit = None THEN "number" ELSE unit)]
    BY DEF Set, Receive
  <1> DEFINE p == Parsed("L", m.text, m.kind = "SetCreate")
  <1>2. RegisteredOnce /\ queue[c] # <<>> /\ m \in Messages /\ Faithful(m)
    BY ArrivedIsFaithful DEF Inductive
  <1>3. DOMAIN store' = DOMAIN store
    BY <1>1
  <1>4. Shape'
    BY <1>1, <1>3 DEF Inductive, Shape
  <1>5. CASE p.name = None
    <2>1. RegisteredOnce' /\ IdsStay
      BY <1>1, <1>2, <1>5, NoRegistrationKeepsIds
    <2> QED BY <1>1, <1>2, <1>4, <2>1, ServeKeepsInvariant
  <1>6. CASE p.name # None
    <2>1. m.type = "L"
      BY <1>1, <1>2 DEF Faithful
    <2>2. p.name \in Names /\ Register(p.name)
      BY <1>1, <1>2, <1>6, <2>1, ParsedLocal
    <2>3. RegisteredOnce' /\ IdsStay
      BY <1>2, <2>2, RegisterKeepsIds
    <2> QED BY <1>1, <1>2, <1>4, <2>3, ServeKeepsInvariant
  <1> QED BY <1>5, <1>6

\* Commands that register nothing and touch no data request keep the invariant.
LEMMA PlainServeKeepsInvariant ==
    ASSUME Inductive, NEW c \in Clients, queue[c] # <<>>,
           queue' = [queue EXCEPT ![c] = Tail(@)],
           DOMAIN store' = DOMAIN store, DOMAIN got' = DOMAIN got,
           UNCHANGED <<registered, requests, sample, overwritten>>
    PROVE  Inductive'
  <1>1. RegisteredOnce' /\ IdsStay
    BY NoRegistrationKeepsIds DEF Inductive
  <1>2. Shape'
    BY DEF Inductive, Shape
  <1> QED BY <1>1, <1>2, ServeKeepsInvariant

\* execCalculatorCode(), lookup() and sendKeyEvent() keep the invariant.
LEMMA OtherCommandsKeepInvariant ==
    ASSUME Inductive, NEW c \in Clients, Exec(c) \/ ServeLookup(c) \/ ServeSendKey(c)
    PROVE  Inductive'
  <1>1. \E m \in Arrived(c) : queue' = [queue EXCEPT ![c] = Tail(@)]
    BY DEF Exec, ServeLookup, ServeSendKey, Receive
  <1>2. queue[c] # <<>>
    BY <1>1 DEF Arrived
  <1>3. DOMAIN store' = DOMAIN store /\ DOMAIN got' = DOMAIN got
    BY DEF Exec, ServeLookup, ServeSendKey
  <1>4. UNCHANGED <<registered, requests, sample, overwritten>>
    BY DEF Exec, ServeLookup, ServeSendKey
  <1> QED BY <1>1, <1>2, <1>3, <1>4, PlainServeKeepsInvariant

\* What addOrUpdateRequest() makes of a data request, and whether it takes over what was looked up for another.
Updated(tr, r) ==
    LET kept == KeptId(tr, r)
        keptUnit == KeptUnit(tr, r)
        calculated == IsCode(r, kept, keptUnit)
        id == IF calculated \/ kept >= 0 THEN kept ELSE VariableId(r.type, r.name)
        unit == IF keptUnit = None /\ ~calculated /\ r.unit \in Units THEN r.unit ELSE keptUnit
    IN [type |-> r.type, name |-> r.name, index |-> r.index, unit |-> r.unit, size |-> r.size,
        calculated |-> calculated, variableId |-> id, unitId |-> unit,
        never |-> ~calculated /\ NotFound(r, id, unit)]
TakesOver(tr, r, tookOver) ==
    \/ KeptId(tr, r) >= 0 /\ (r.type # tr.type \/ r.unit = "string" \/ tookOver)
    \/ KeptUnit(tr, r) # None /\ r.unit = "string"

\* The ids of an updated request are looked up, or those kept are still those of its name and its unit, unless
\* it is known to have taken over others.
LEMMA UpdatedIsCurrent ==
    ASSUME RegisteredOnce, NEW r \in Subscribed, NEW tr \in Tracked \cup {None}, NEW tookOver \in BOOLEAN,
           tr # None => IdsAreCurrent(tr, tookOver)
    PROVE  /\ Updated(tr, r) \in Tracked
           /\ TakesOver(tr, r, tookOver) \in BOOLEAN
           /\ IdsAreCurrent(Updated(tr, r), TakesOver(tr, r, tookOver))
  <1> DEFINE kept == KeptId(tr, r)
             keptUnit == KeptUnit(tr, r)
             calculated == IsCode(r, kept, keptUnit)
             id == IF calculated \/ kept >= 0 THEN kept ELSE VariableId(r.type, r.name)
             unit == IF keptUnit = None /\ ~calculated /\ r.unit \in Units THEN r.unit ELSE keptUnit
             never == ~calculated /\ NotFound(r, id, unit)
             new == [type |-> r.type, name |-> r.name, index |-> r.index, unit |-> r.unit, size |-> r.size,
                     calculated |-> calculated, variableId |-> id, unitId |-> unit, never |-> never]
             over == \/ kept >= 0 /\ (r.type # tr.type \/ r.unit = "string" \/ tookOver)
                     \/ keptUnit # None /\ r.unit = "string"
  <1>1. /\ r.type \in VariableTypes /\ r.name \in Names /\ r.index \in Indexes /\ r.unit \in AllUnits /\ r.size \in Sizes
        /\ r.type \notin IndexedVariableTypes => r.unit # BadUnit
        /\ r.size = "chars" <=> r.type = "A" /\ r.unit = "string"
        /\ r.unit = "string" => r.type = "A"
    BY SubscribedMakesSense DEF AllUnits
  <1>2. kept \in Nat \cup {-1}
    BY DEF KeptId, Tracked
  <1>3. kept >= 0 => tr \in Tracked /\ tr # None /\ kept = tr.variableId /\ ~tr.calculated /\ tr.name = r.name
    BY DEF KeptId
  <1>4. keptUnit # None => tr \in Tracked /\ tr # None /\ keptUnit = tr.unitId /\ tr.unit = r.unit
    BY DEF KeptUnit
  <1>5. keptUnit # None => keptUnit = r.unit /\ keptUnit \in Units
    BY <1>4 DEF IdsAreCurrent, Tracked
  <1>6. calculated \in BOOLEAN /\ never \in BOOLEAN /\ over \in BOOLEAN
    BY DEF IsCode, NotFound
  <1>7. id \in Nat \cup {-1}
    BY <1>2, VariableIdType
  <1>8. unit \in Units \cup {None}
    BY <1>5
  <1>9. new \in Tracked
    <2> HIDE DEF calculated, id, unit, never
    <2> QED BY <1>1, <1>6, <1>7, <1>8 DEF Tracked
  <1>10. unit # None => unit = r.unit
    BY <1>5
  <1>11. r.unit \in Units /\ ~calculated => unit = r.unit
    BY <1>5
  <1>12. calculated => /\ id = -1
                       /\ r.type \notin IndexedVariableTypes \/ (r.type = "A" /\ r.unit = "string")
    <2>1. calculated => kept < 0
      BY DEF IsCode
    <2> QED BY <1>2, <2>1 DEF IsCode
  <1>13. ~over /\ id >= 0 => id = VariableId(r.type, r.name)
    <2>1. CASE kept >= 0 /\ ~over
      BY <1>3, <2>1 DEF IdsAreCurrent
    <2>2. CASE ~(kept >= 0) /\ ~calculated
      BY <2>2
    <2>3. CASE ~(kept >= 0) /\ calculated
      BY <2>3, <1>12
    <2> QED BY <2>1, <2>2, <2>3
  <1>14. ~over /\ r.unit = "string" => calculated
    BY <1>1, <1>2 DEF IsCode
  <1>15. ~over /\ r.type \notin IndexedVariableTypes => calculated
    <2>1. CASE kept >= 0 /\ ~over
      BY <1>3, <2>1 DEF IdsAreCurrent
    <2>2. CASE ~(kept >= 0)
      BY <1>2, <2>2 DEF IsCode
    <2> QED BY <2>1, <2>2
  <1>16. IdsAreCurrent(new, over)
    <2> HIDE DEF calculated, id, unit, never, over
    <2> QED BY <1>1, <1>10, <1>11, <1>12, <1>13, <1>14, <1>15 DEF IdsAreCurrent
  <1>17. new = Updated(tr, r) /\ over = TakesOver(tr, r, tookOver)
    BY DEF Updated, TakesOver
  <1> QED BY <1>6, <1>9, <1>16, <1>17
\* addOrUpdateRequest() keeps the invariant.
LEMMA AddOrUpdateKeepsInvariant ==
    ASSUME Inductive, NEW c \in Clients, AddOrUpdateRequest(c)
    PROVE  Inductive'
  <1>1. PICK m \in Arrived(c) : AddOrUpdateRequest(c)!(m)
    BY DEF AddOrUpdateRequest
  <1> DEFINE r == m.v
             tr == requests[c]
             new == Updated(tr, r)
             over == TakesOver(tr, r, overwritten[c])
  <1>2. m.kind = "DataRequest" /\ queue' = [queue EXCEPT ![c] = Tail(@)] /\ UNCHANGED <<registered, store, got>>
    BY <1>1 DEF Receive
  <1>3. RegisteredOnce /\ queue[c] # <<>> /\ m \in Messages /\ Faithful(m)
    BY ArrivedIsFaithful DEF Inductive
  <1>4. r \in Subscribed /\ tr \in Tracked \cup {None} /\ overwritten[c] \in BOOLEAN
        /\ (tr # None => IdsAreCurrent(tr, overwritten[c]))
    BY <1>2, <1>3 DEF Faithful, Inductive, RequestsAreCurrent, Shape
  <1>5. RegisteredOnce' /\ IdsStay
    BY <1>2, <1>3, NoRegistrationKeepsIds
  <1>6. CASE UNCHANGED <<requests, overwritten, sample>>
    BY <1>2, <1>3, <1>6, PlainServeKeepsInvariant
  <1>7. CASE ~UNCHANGED <<requests, overwritten, sample>>
    <2>1. /\ requests' = [requests EXCEPT ![c] = new]
          /\ overwritten' = [overwritten EXCEPT ![c] = over]
          /\ DOMAIN sample' = DOMAIN sample
      BY <1>1, <1>7 DEF Updated, TakesOver
    <2>2. new \in Tracked /\ over \in BOOLEAN /\ IdsAreCurrent(new, over)
      BY <1>3, <1>4, UpdatedIsCurrent
    <2> HIDE DEF new, over
    <2>3. Shape'
      BY <1>2, <2>1, <2>2 DEF Inductive, Shape
    <2>4. CommandsAreFaithful'
      BY <1>2, <1>3, <1>5, ReceiveKeepsCommands DEF Inductive
    <2>5. requests' \in [Clients -> Tracked \cup {None}]
      BY <2>1, <2>2 DEF Inductive, RequestsAreCurrent
    <2>6. ASSUME NEW d \in Clients, requests'[d] # None
          PROVE  IdsAreCurrent(requests[d], overwritten[d])'
      <3>1. PICK t \in Tracked, b \in BOOLEAN : t = requests'[d] /\ b = overwritten'[d] /\ IdsAreCurrent(t, b)
        <4>1. CASE d = c
          BY <2>1, <2>2, <4>1 DEF Inductive, RequestsAreCurrent, Shape
        <4>2. CASE d # c
          BY <2>1, <2>6, <4>2 DEF Inductive, RequestsAreCurrent, Shape
        <4> QED BY <4>1, <4>2
      <3>2. IdsAreCurrent(t, b)'
        BY <1>5, <3>1, CurrentStays
      <3> QED BY <3>1, <3>2
    <2>7. RequestsAreCurrent'
      BY <2>5, <2>6 DEF RequestsAreCurrent
    <2> QED BY <1>5, <2>3, <2>4, <2>7 DEF Inductive
  <1> QED BY <1>6, <1>7

\* Where no command is taken and nothing registered, the commands stay faithful.
LEMMA CommandsStayFaithful ==
    ASSUME CommandsAreFaithful, IdsStay, queue' = queue
    PROVE  CommandsAreFaithful'
  <1>1. ASSUME NEW d \in Clients, NEW i \in DOMAIN queue[d]
        PROVE  Faithful(queue[d][i])'
    <2>1. PICK m \in Messages : m = queue[d][i] /\ Faithful(m)
      BY DEF CommandsAreFaithful
    <2>2. Faithful(m)'
      BY <2>1, FaithfulStays
    <2>3. m = queue'[d][i]
      BY <2>1
    <2> QED BY <2>2, <2>3
  <1>2. queue' \in [Clients -> Seq(Messages)]
    BY DEF CommandsAreFaithful
  <1> QED BY <1>1, <1>2 DEF CommandsAreFaithful

\* updateRequestValue() keeps the invariant; it may end the updates of a request, and changes nothing else of it.
LEMMA UpdateRequestValueKeepsInvariant ==
    ASSUME Inductive, NEW c \in Clients, UpdateRequestValue(c)
    PROVE  Inductive'
  <1>1. /\ requests[c] # None
        /\ UNCHANGED <<registered, store, queue, calls, got, overwritten>>
        /\ DOMAIN sample' = DOMAIN sample
        /\ requests' = requests \/ requests' = [requests EXCEPT ![c].never = TRUE]
    BY DEF UpdateRequestValue
  <1>2. RegisteredOnce' /\ IdsStay
    BY <1>1, NoRegistrationKeepsIds DEF Inductive
  <1>3. Shape'
    BY <1>1 DEF Inductive, Shape
  <1>4. CommandsAreFaithful'
    BY <1>1, <1>2, CommandsStayFaithful DEF Inductive
  <1>5. CASE requests' = requests
    BY <1>1, <1>2, <1>3, <1>4, <1>5, RequestsStayCurrent DEF Inductive
  <1>6. CASE requests' = [requests EXCEPT ![c].never = TRUE]
    <2>1. PICK tr \in Tracked, b \in BOOLEAN : tr = requests[c] /\ b = overwritten[c] /\ IdsAreCurrent(tr, b)
      BY <1>1 DEF Inductive, RequestsAreCurrent, Shape
    <2>2. PICK new \in Tracked : new = [tr EXCEPT !.never = TRUE]
      BY DEF Tracked
    <2>3. requests' = [requests EXCEPT ![c] = new]
      BY <1>6, <2>1, <2>2
    <2>4. IdsAreCurrent(new, b)
      BY <2>1, <2>2 DEF IdsAreCurrent, Tracked
    <2>5. requests' \in [Clients -> Tracked \cup {None}]
      BY <2>3 DEF Inductive, RequestsAreCurrent
    <2>6. ASSUME NEW d \in Clients, requests'[d] # None
          PROVE  IdsAreCurrent(requests[d], overwritten[d])'
      <3>1. PICK t \in Tracked, o \in BOOLEAN : t = requests'[d] /\ o = overwritten'[d] /\ IdsAreCurrent(t, o)
        <4>1. CASE d = c
          BY <1>1, <2>1, <2>3, <2>4, <4>1 DEF Inductive, RequestsAreCurrent
        <4>2. CASE d # c
          BY <1>1, <2>3, <2>6, <4>2 DEF Inductive, RequestsAreCurrent, Shape
        <4> QED BY <4>1, <4>2
      <3>2. IdsAreCurrent(t, o)'
        BY <1>2, <3>1, CurrentStays
      <3> QED BY <3>1, <3>2
    <2>7. RequestsAreCurrent'
      BY <2>5, <2>6 DEF RequestsAreCurrent
    <2> QED BY <1>2, <1>3, <1>4, <2>7 DEF Inductive
  <1> QED BY <1>1, <1>5, <1>6

\* The invariant holds at the start.
LEMMA InitIsInductive == Init => Inductive
  <1> SUFFICES ASSUME Init PROVE Inductive
    OBVIOUS
  <1>1. RegisteredOnce
    BY DEF Init, RegisteredOnce
  <1>2. Shape
    BY DEF Init, Shape
  <1>3. CommandsAreFaithful
    BY DEF Init, CommandsAreFaithful
  <1>4. RequestsAreCurrent
    BY DEF Init, RequestsAreCurrent
  <1> QED BY <1>1, <1>2, <1>3, <1>4 DEF Inductive

\* Every step keeps the invariant.
LEMMA StepKeepsInvariant == Inductive /\ [Next]_vars => Inductive'
  <1> SUFFICES ASSUME Inductive, [Next]_vars PROVE Inductive'
    OBVIOUS
  <1>1. CASE UNCHANGED vars
    <2>1. RegisteredOnce' /\ IdsStay
      BY <1>1, NoRegistrationKeepsIds DEF Inductive, vars
    <2>2. Shape'
      BY <1>1 DEF Inductive, Shape, vars
    <2>3. CommandsAreFaithful' /\ RequestsAreCurrent'
      BY <1>1, <2>1, CommandsStayFaithful, RequestsStayCurrent DEF Inductive, vars
    <2> QED BY <2>1, <2>2, <2>3 DEF Inductive
  <1>2. CASE Next
    <2>1. PICK c \in Clients : Next!(c)
      BY <1>2 DEF Next
    <2>2. ASSUME NEW v \in Wanted, NEW x \in IF v.create THEN Inputs ELSE {"zero"}, GetVariable(c, v, x)
          PROVE  Inductive'
      <3>1. x \in Inputs
        BY <2>2 DEF Inputs
      <3> QED BY <2>2, <3>1, GetVariableKeepsInvariant
    <2>3. ASSUME NEW v \in Wanted, NEW x \in Inputs, SetLocalVariable(c, v, x)
          PROVE  Inductive'
      BY <2>3, SetLocalVariableKeepsInvariant
    <2>4. ASSUME NEW v \in Wanted, NEW x \in CodeInputs, SetByCode(c, v, x)
          PROVE  Inductive'
      BY <2>4, SetByCodeKeepsInvariant
    <2>5. ASSUME NEW v \in Wanted, Lookup(c, v.type, v.name)
          PROVE  Inductive'
      <3>1. v.type \in VariableTypes /\ v.name \in Names
        BY WantedMakesSense
      <3> QED BY <2>5, <3>1, LookupKeepsInvariant
    <2>6. ASSUME NEW r \in Subscribed, SaveDataRequest(c, r) \/ Lookup(c, "request", r.name)
          PROVE  Inductive'
      <3>1. r.name \in Names
        BY SubscribedMakesSense
      <3> QED BY <2>6, <3>1, SaveDataRequestKeepsInvariant, LookupKeepsInvariant
    <2>7. ASSUME NEW key \in KeyNames \cup {UnknownKey}, SendKey(c, key)
          PROVE  Inductive'
      BY <2>7, SendKeyKeepsInvariant
    <2>8. CASE GetByCode(c) \/ Get(c) \/ Set(c) \/ Exec(c) \/ ServeLookup(c) \/ ServeSendKey(c)
      BY <2>8, GetByCodeKeepsInvariant, GetKeepsInvariant, SetKeepsInvariant, OtherCommandsKeepInvariant
    <2>9. CASE AddOrUpdateRequest(c) \/ UpdateRequestValue(c)
      BY <2>9, AddOrUpdateKeepsInvariant, UpdateRequestValueKeepsInvariant
    <2> QED BY <2>1, <2>2, <2>3, <2>4, <2>5, <2>6, <2>7, <2>8, <2>9
  <1> QED BY <1>1, <1>2

\* What an application wants to read or set is still what a command says when the server takes it apart, and
\* the ids of a data request are those of its name and unit, for any names, ids, indexes and units.
THEOREM VariableInvariance == Spec => []Inductive
  BY InitIsInductive, StepKeepsInvariant, PTL DEF Spec
--------------------------------------------------------------------------------
(* The answers                                                             *)

\* The unit in which a variable is read is the one of the text, if it is known.
LEMMA UnitOfText ==
    ASSUME NEW v \in Wanted, NEW text \in Texts, Says(text, v), v.type \in IndexedVariableTypes
    PROVE  UnitOf(v) = IF v.type = "T" THEN None ELSE IF UnitId(text) = None THEN "number" ELSE UnitId(text)
  <1>1. v.type # "T" => text.unit = v.unit
    BY DEF Says, IndexedVariableTypes, UnitBasedVariableTypes
  <1> QED BY <1>1, NoneIsNoName DEF UnitOf, UnitId

\* In calculator code the unit is the one that was asked for.
LEMMA UnitOfCode ==
    ASSUME NEW m \in Messages, Faithful(m), m.kind \in {"Get", "GetCreate"}, AsCode(m)
    PROVE  UnitOf(m.v) = IF m.text.unit = None THEN "number" ELSE m.text.unit
  <1> DEFINE v == m.v
  <1>1. /\ v \in Wanted /\ m.type = v.type
        /\ m.text.unit = IF v.type \in UnitBasedVariableTypes THEN v.unit ELSE None
    BY DEF Faithful, Says
  <1>2. /\ v.unit \in Units \cup {None, BadUnit}
        /\ v.type \notin IndexedVariableTypes => v.unit # BadUnit
        /\ v.type \notin UnitBasedVariableTypes => v.unit = None
    BY <1>1, WantedMakesSense
  <1>3. CASE v.type \notin IndexedVariableTypes
    BY <1>1, <1>2, <1>3, NoneIsNoName DEF UnitOf, IndexedVariableTypes
  <1>4. CASE v.type = "A" /\ m.text.unit = "string"
    BY <1>1, <1>4, NoneIsNoName DEF UnitOf, UnitBasedVariableTypes, Units
  <1> QED BY <1>1, <1>3, <1>4 DEF AsCode

\* What GotWhatWasAsked says of one client.
GotRight(g) ==
    g.ack =>
        CASE g.call.kind \in {"Get", "GetCreate"} -> Lost(g.call) \/ g.answer = g.truth
          [] g.call.kind = "Lookup" -> g.call.type = "request" \/ g.truth.x = g.call.text.name
          [] OTHER -> g.call.text.name = UnknownKey \/ g.answer = g.truth

\* An answer that is right leaves those of the other clients as they are.
LEMMA OneAnswerIsRight ==
    ASSUME GotWhatWasAsked, Inductive, NEW c \in Clients, NEW g, got' = [got EXCEPT ![c] = g], GotRight(g)
    PROVE  GotWhatWasAsked'
  <1>1. \A d \in Clients : GotRight(got[d])
    BY DEF GotWhatWasAsked, GotRight
  <1>2. \A d \in Clients : GotRight(got'[d])
    BY <1>1 DEF Inductive, Shape
  <1> QED BY <1>2 DEF GotWhatWasAsked, GotRight

\* The answer made by calculator code is the value of the variable that was asked for.
LEMMA GetByCodeIsRight ==
    ASSUME GotWhatWasAsked, Inductive, NEW c \in Clients, GetByCode(c)
    PROVE  GotWhatWasAsked'
  <1>1. PICK m \in Arrived(c) :
            /\ m.kind \in {"Get", "GetCreate"} /\ AsCode(m)
            /\ UNCHANGED <<registered, store>>
            /\ Answer(c, m, TRUE, CodeValue(m.type, m.text.name, m.text.index, m.text.unit))
    BY DEF GetByCode, Receive
  <1> DEFINE v == m.v
             answer == CodeValue(m.type, m.text.name, m.text.index, m.text.unit)
             truth == Truth(v)'
             g == [call |-> m, ack |-> TRUE, answer |-> answer, truth |-> truth]
  <1>2. m \in Messages /\ Faithful(m)
    BY ArrivedIsFaithful DEF Inductive
  <1>3. v \in Wanted /\ m.type = v.type /\ Denotes(m.text, v) /\ m.text.index = IF v.type = "A" THEN v.index ELSE 0
    BY <1>1, <1>2 DEF Faithful, Says
  <1>4. got' = [got EXCEPT ![c] = g]
    BY <1>1 DEF Answer
  <1>5. truth = Read(Var(v), UnitOf(v))
    BY <1>1 DEF Truth, Read, Exists
  <1>6. ASSUME ~Lost(m) PROVE answer = truth
    <2>1. m.text.name = v.name
      BY <1>1, <1>3, <1>6 DEF Denotes, Lost
    <2>2. <<m.type, m.text.name, m.text.index>> = Var(v)
      BY <1>3, <2>1 DEF Var
    <2>3. UnitOf(v) = IF m.text.unit = None THEN "number" ELSE m.text.unit
      BY <1>1, <1>2, UnitOfCode
    <2> QED BY <1>5, <2>2, <2>3 DEF CodeValue
  <1> HIDE DEF answer, truth
  <1>7. GotRight(g)
    BY <1>1, <1>6 DEF GotRight
  <1> HIDE DEF g
  <1> QED BY <1>4, <1>7, OneAnswerIsRight
\* The answer made from an id, or for a variable just created, is the value of the one that was asked for.
LEMMA GetIsRight ==
    ASSUME GotWhatWasAsked, Inductive, NEW c \in Clients, Get(c)
    PROVE  GotWhatWasAsked'
  <1>1. PICK m \in Arrived(c) :
            /\ m.kind \in {"Get", "GetCreate"} /\ ~AsCode(m)
            /\ LET create == m.kind = "GetCreate"
                   p == Parsed(m.type, m.text, create)
                   unit == UnitId(m.text)
                   variable == <<m.type, p.name, p.index>>
               IN IF ~Resolved(m.type, m.text, p) \/ (p.existed /\ m.type = "A" /\ unit = None)
                  THEN Nak(c, m) /\ UNCHANGED <<registered, store>>
                  ELSE IF p.existed
                  THEN /\ UNCHANGED <<registered, store>>
                       /\ Answer(c, m, TRUE, Read(variable, IF m.type = "L" /\ unit = None THEN "number"
                                                            ELSE IF m.type = "T" THEN None ELSE unit))
                  ELSE /\ Register(p.name)
                       /\ LET in == IF unit = None THEN "number" ELSE unit IN
                          /\ store' = [store EXCEPT ![variable] = Value(m.x, m.by, in)]
                          /\ Answer(c, m, TRUE, In(Value(m.x, m.by, in), in))
    BY DEF Get, Receive
  <1> DEFINE create == m.kind = "GetCreate"
             p == Parsed(m.type, m.text, create)
             unit == UnitId(m.text)
             variable == <<m.type, p.name, p.index>>
             v == m.v
             truth == Truth(v)'
  <1>2. RegisteredOnce /\ m \in Messages /\ Faithful(m) /\ m.text \in Texts
    BY ArrivedIsFaithful DEF Inductive, Messages
  <1>3. v \in Wanted /\ m.type = v.type /\ Says(m.text, v) /\ v.type \in IndexedVariableTypes
    BY <1>1, <1>2 DEF Faithful, AsCode
  <1>4. UnitOf(v) = IF v.type = "T" THEN None ELSE IF unit = None THEN "number" ELSE unit
    BY <1>2, <1>3, UnitOfText
  <1>5. CASE ~Resolved(m.type, m.text, p) \/ (p.existed /\ m.type = "A" /\ unit = None)
    <2> DEFINE g == [call |-> m, ack |-> FALSE, answer |-> Zero, truth |-> Zero]
    <2>1. got' = [got EXCEPT ![c] = g]
      BY <1>1, <1>5 DEF Nak
    <2>2. GotRight(g)
      BY DEF GotRight
    <2> HIDE DEF g
    <2> QED BY <2>1, <2>2, OneAnswerIsRight
  <1>6. CASE Resolved(m.type, m.text, p) /\ ~(m.type = "A" /\ unit = None) /\ p.existed
    <2> DEFINE in == IF m.type = "L" /\ unit = None THEN "number" ELSE IF m.type = "T" THEN None ELSE unit
               answer == Read(variable, in)
               g == [call |-> m, ack |-> TRUE, answer |-> answer, truth |-> truth]
    <2>1. got' = [got EXCEPT ![c] = g] /\ UNCHANGED <<registered, store>>
      BY <1>1, <1>6 DEF Answer
    <2>2. truth = Read(Var(v), UnitOf(v))
      BY <2>1 DEF Truth, Read, Exists
    <2>3. in = UnitOf(v)
      BY <1>3, <1>4, <1>6 DEF IndexedVariableTypes
    <2>4. ASSUME ~Lost(m) PROVE variable = Var(v)
      BY <1>1, <1>2, <1>3, <1>6, <2>4, ParsedIsAsked DEF Var
    <2>5. ~Lost(m) => answer = truth
      BY <2>2, <2>3, <2>4
    <2> HIDE DEF answer, truth
    <2>6. GotRight(g)
      BY <1>1, <2>5 DEF GotRight
    <2> HIDE DEF g
    <2> QED BY <2>1, <2>6, OneAnswerIsRight
  <1>7. CASE Resolved(m.type, m.text, p) /\ ~p.existed
    <2> DEFINE in == IF unit = None THEN "number" ELSE unit
               answer == In(Value(m.x, m.by, in), in)
               g == [call |-> m, ack |-> TRUE, answer |-> answer, truth |-> truth]
    <2>1. /\ got' = [got EXCEPT ![c] = g]
          /\ Register(p.name)
          /\ store' = [store EXCEPT ![variable] = Value(m.x, m.by, in)]
      BY <1>1, <1>7 DEF Answer
    <2>2. m.type = "L" /\ v.type = "L" /\ p.name = v.name /\ p.name \in Names /\ p.index = 0
      BY <1>1, <1>2, <1>7, NewIsNamed DEF Faithful
    <2>3. LocalId(v.name)' >= 0
      <3>1. v.name \in Names /\ Register(v.name)
        BY <2>1, <2>2
      <3> QED BY <1>2, <3>1, RegisterKeepsIds
    <2>4. \E i \in DOMAIN registered' : registered'[i] = v.name
      BY <2>3 DEF LocalId
    <2>5. Var(v) = <<"L", p.name, 0>> /\ variable = Var(v) /\ Var(v) \in Locals
      BY <2>2 DEF Var, Locals
    <2>6. Exists(Var(v))'
      BY <2>2, <2>4, <2>5 DEF Exists, Var
    <2>7. store'[Var(v)] = Value(m.x, m.by, in)
      BY <2>1, <2>5 DEF Inductive, Shape
    <2>8. UnitOf(v) = in
      BY <1>4, <2>2
    <2>9. answer = truth
      BY <2>6, <2>7, <2>8 DEF Truth, Read
    <2> HIDE DEF answer, truth
    <2>10. GotRight(g)
      BY <1>1, <2>9 DEF GotRight
    <2> HIDE DEF g
    <2> QED BY <2>1, <2>10, OneAnswerIsRight
  <1> QED BY <1>5, <1>6, <1>7

\* A lookup is answered with the id of the name that was asked for.
LEMMA LookupIsRight ==
    ASSUME GotWhatWasAsked, Inductive, NEW c \in Clients, ServeLookup(c)
    PROVE  GotWhatWasAsked'
  <1>1. PICK m \in Arrived(c) :
            /\ m.kind = "Lookup"
            /\ LET id == LookedUp(c, m.type, m.text.name) IN
               got' = [got EXCEPT ![c] = [call |-> m, ack |-> id >= 0, answer |-> [Zero EXCEPT !.x = id],
                                          truth |-> [Zero EXCEPT !.x = IF id >= 0 THEN NameOf(m.type, id) ELSE None]]]
    BY DEF ServeLookup, Receive
  <1> DEFINE id == LookedUp(c, m.type, m.text.name)
             g == [call |-> m, ack |-> id >= 0, answer |-> [Zero EXCEPT !.x = id],
                   truth |-> [Zero EXCEPT !.x = IF id >= 0 THEN NameOf(m.type, id) ELSE None]]
  <1>2. RegisteredOnce /\ m \in Messages /\ m.text.name \in Names
    BY <1>1, ArrivedIsFaithful DEF Inductive, Faithful
  <1>3. ASSUME m.type # "request", id >= 0
        PROVE  NameOf(m.type, id) = m.text.name
    <2>1. id = VariableId(m.type, m.text.name)
      BY <1>3 DEF LookedUp
    <2>2. m.type \in IndexedVariableTypes
      BY <1>3, <2>1 DEF VariableId, IndexedVariableTypes
    <2> QED BY <1>2, <1>3, <2>1, <2>2, IdNamesOne
  <1>4. g.truth.x = IF id >= 0 THEN NameOf(m.type, id) ELSE None
    BY DEF Zero
  <1>5. GotRight(g)
    <2>1. g.ack => id >= 0
      OBVIOUS
    <2>2. g.call = m
      OBVIOUS
    <2> HIDE DEF g
    <2> QED BY <1>1, <1>3, <1>4, <2>1, <2>2 DEF GotRight
  <1>6. got' = [got EXCEPT ![c] = g]
    BY <1>1
  <1> HIDE DEF g
  <1> QED BY <1>5, <1>6, OneAnswerIsRight

\* A known key event is the one that is triggered.
LEMMA SendKeyIsRight ==
    ASSUME GotWhatWasAsked, Inductive, NEW c \in Clients, ServeSendKey(c)
    PROVE  GotWhatWasAsked'
  <1>1. PICK m \in Arrived(c) :
            /\ m.kind = "SendKey"
            /\ got' = [got EXCEPT ![c] = [call |-> m, ack |-> TRUE,
                                          answer |-> [Zero EXCEPT !.x = KeyEventId(m.text.name)],
                                          truth |-> [Zero EXCEPT !.x = m.text.name]]]
    BY DEF ServeSendKey, Receive
  <1> DEFINE g == [call |-> m, ack |-> TRUE, answer |-> [Zero EXCEPT !.x = KeyEventId(m.text.name)],
                   truth |-> [Zero EXCEPT !.x = m.text.name]]
  <1>2. m.text.name \in KeyNames \cup {UnknownKey}
    BY <1>1, ArrivedIsFaithful DEF Inductive, Faithful
  <1>3. m.text.name # UnknownKey => KeyEventId(m.text.name) = m.text.name
    BY <1>2 DEF KeyEventId
  <1>4. GotRight(g)
    BY <1>1, <1>3 DEF GotRight
  <1>5. got' = [got EXCEPT ![c] = g]
    BY <1>1
  <1> HIDE DEF g
  <1> QED BY <1>4, <1>5, OneAnswerIsRight

\* No step gives a client anything else.
LEMMA StepAnswersRight == GotWhatWasAsked /\ Inductive /\ [Next]_vars => GotWhatWasAsked'
  <1> SUFFICES ASSUME GotWhatWasAsked, Inductive, [Next]_vars PROVE GotWhatWasAsked'
    OBVIOUS
  <1>1. CASE got' = got
    BY <1>1 DEF GotWhatWasAsked
  <1>2. CASE got' # got
    <2>1. PICK c \in Clients : Next!(c)
      BY <1>2 DEF Next, vars
    <2>2. GetByCode(c) \/ Get(c) \/ ServeLookup(c) \/ ServeSendKey(c)
      BY <1>2, <2>1 DEF GetVariable, SetLocalVariable, SetByCode, Lookup, SendKey, SaveDataRequest, Send,
                        Set, Exec, AddOrUpdateRequest, UpdateRequestValue
    <2> QED BY <2>2, GetByCodeIsRight, GetIsRight, LookupIsRight, SendKeyIsRight
  <1> QED BY <1>1, <1>2

\* What a client gets is the value of the variable it asked for, by name or by id, in the unit it asked for, at
\* the moment of the answer; the id of the name; the key event it named.
THEOREM AnswersAreRight == Spec => []GotWhatWasAsked
  <1>1. Init => GotWhatWasAsked
    BY DEF Init, GotWhatWasAsked, NoAnswer
  <1> QED BY <1>1, StepAnswersRight, VariableInvariance, PTL DEF Spec
--------------------------------------------------------------------------------
(* What changes a variable                                                 *)

\* A variable changes by a command that sets or creates it; names are registered by commands that may create.
StoreChangesBySet ==
    \A v \in DOMAIN store : store'[v] # store[v] =>
        \E c \in Clients : queue[c] # <<>> /\ queue'[c] = Tail(queue[c]) /\
            LET m == Head(queue[c]) IN
            /\ m.kind # "Lookup"
            /\ m.type = v[1] /\ (Var(m.v) = v \/ Lost(m))
            /\ m.kind \in {"Set", "SetCreate", "Exec"} \/ (m.kind = "GetCreate" /\ ~Exists(v))
NamesComeByCreate ==
    registered' # registered => \E c \in Clients : queue'[c] # queue[c] /\ Head(queue[c]).v.create

\* A command that is taken shortens the queue of its client.
LEMMA TakenIsGone ==
    ASSUME CommandsAreFaithful, NEW c \in Clients, queue[c] # <<>>, queue' = [queue EXCEPT ![c] = Tail(@)]
    PROVE  queue'[c] = Tail(queue[c]) /\ queue'[c] # queue[c]
  <1>1. PICK s \in Seq(Messages) : s = queue[c] /\ s # <<>> /\ queue'[c] = Tail(s)
    BY DEF CommandsAreFaithful
  <1>2. Len(Tail(s)) = Len(s) - 1 /\ Len(s) \in Nat
    BY <1>1
  <1>3. PICK t : t = Tail(s)
    OBVIOUS
  <1>4. Len(t) = Len(s) - 1
    BY <1>2, <1>3
  <1>5. t # s
    BY <1>2, <1>4
  <1> QED BY <1>1, <1>3, <1>5

\* getVariable() sets the variable it creates, and no other.
LEMMA GetSetsWhatItCreates ==
    ASSUME Inductive, NEW c \in Clients, Get(c)
    PROVE  StoreChangesBySet /\ NamesComeByCreate
  <1>1. PICK m \in Arrived(c) :
            /\ m.kind \in {"Get", "GetCreate"}
            /\ queue' = [queue EXCEPT ![c] = Tail(@)]
            /\ LET create == m.kind = "GetCreate"
                   p == Parsed(m.type, m.text, create)
               IN \/ UNCHANGED <<registered, store>>
                  \/ /\ Resolved(m.type, m.text, p) /\ ~p.existed
                     /\ \E x : store' = [store EXCEPT ![<<m.type, p.name, p.index>>] = x]
    BY DEF Get, Receive
  <1> DEFINE create == m.kind = "GetCreate"
             p == Parsed(m.type, m.text, create)
  <1>2. /\ RegisteredOnce /\ m \in Messages /\ Faithful(m) /\ m = Head(queue[c]) /\ queue[c] # <<>>
        /\ queue'[c] = Tail(queue[c]) /\ queue'[c] # queue[c]
    BY <1>1, ArrivedIsFaithful, TakenIsGone DEF Inductive
  <1>3. CASE UNCHANGED <<registered, store>>
    BY <1>3 DEF StoreChangesBySet, NamesComeByCreate
  <1>4. CASE /\ Resolved(m.type, m.text, p) /\ ~p.existed
             /\ \E x : store' = [store EXCEPT ![<<m.type, p.name, p.index>>] = x]
    <2>1. /\ create /\ m.type = "L" /\ m.v \in Wanted /\ m.v.type = "L"
          /\ p.name = m.v.name /\ p.name \in Names /\ p.index = 0 /\ ~(LocalId(p.name) >= 0)
      BY <1>1, <1>2, <1>4, NewIsNamed DEF Faithful
    <2>2. Var(m.v) = <<m.type, p.name, p.index>> /\ Var(m.v)[1] = "L" /\ Var(m.v)[2] = p.name
      BY <2>1 DEF Var
    <2>3. \A v \in DOMAIN store : store'[v] # store[v] => v = Var(m.v)
      BY <1>4, <2>2
    <2>4. ~Exists(Var(m.v))
      <3>1. ~\E i \in DOMAIN registered : registered[i] = p.name
        <4>1. ASSUME NEW i \in DOMAIN registered, registered[i] = p.name PROVE FALSE
          <5>1. LocalId(p.name) = i - 1 /\ i \in Nat \ {0}
            BY <1>2, <4>1, LocalIdIsPlace DEF RegisteredOnce
          <5> QED BY <2>1, <5>1
        <4> QED BY <4>1
      <3> QED BY <2>2, <3>1 DEF Exists
    <2>5. m.kind = "GetCreate" /\ m.v.create
      BY <1>2, <2>1 DEF Faithful
    <2>6. StoreChangesBySet
      BY <1>2, <2>1, <2>2, <2>3, <2>4, <2>5 DEF StoreChangesBySet
    <2>7. NamesComeByCreate
      BY <1>2, <2>5 DEF NamesComeByCreate
    <2> QED BY <2>6, <2>7
  <1> QED BY <1>1, <1>3, <1>4

\* setVariable() of an L variable sets the one it was given, and registers it only if it may.
LEMMA SetSetsItsOwn ==
    ASSUME Inductive, NEW c \in Clients, Set(c)
    PROVE  StoreChangesBySet /\ NamesComeByCreate
  <1>1. PICK m \in Arrived(c) :
            /\ m.kind \in {"Set", "SetCreate"}
            /\ queue' = [queue EXCEPT ![c] = Tail(@)]
            /\ LET p == Parsed("L", m.text, m.kind = "SetCreate")
               IN IF p.name = None THEN UNCHANGED <<registered, store>>
                  ELSE /\ Register(p.name)
                       /\ \E x : store' = [store EXCEPT ![<<"L", p.name, 0>>] = x]
    BY DEF Set, Receive
  <1> DEFINE create == m.kind = "SetCreate"
             p == Parsed("L", m.text, create)
  <1>2. /\ RegisteredOnce /\ m \in Messages /\ Faithful(m) /\ m = Head(queue[c]) /\ queue[c] # <<>>
        /\ queue'[c] = Tail(queue[c]) /\ queue'[c] # queue[c]
    BY <1>1, ArrivedIsFaithful, TakenIsGone DEF Inductive
  <1>3. CASE p.name = None
    BY <1>1, <1>3 DEF StoreChangesBySet, NamesComeByCreate
  <1>4. CASE p.name # None
    <2>1. m.type = "L" /\ m.v \in Wanted /\ m.v.type = "L" /\ (create => m.v.create)
      BY <1>1, <1>2 DEF Faithful
    <2>2. p.name \in Names /\ (LocalId(p.name) >= 0 \/ (create /\ p.name = m.v.name))
      BY <1>1, <1>2, <1>4, <2>1, ParsedLocal
    <2>3. Var(m.v) = <<"L", m.v.name, 0>>
      BY <2>1 DEF Var
    <2>4. ~Lost(m) => p.name = m.v.name
      <3>1. ~AsCode(m)
        BY <2>1 DEF AsCode, IndexedVariableTypes
      <3>2. Resolved(m.type, m.text, p)
        BY <1>4 DEF Resolved
      <3> QED BY <1>1, <1>2, <2>1, <3>1, <3>2, ParsedIsAsked
    <2>5. \A v \in DOMAIN store : store'[v] # store[v] => v = <<"L", p.name, 0>>
      BY <1>1, <1>4
    <2>6. StoreChangesBySet
      <3>1. ASSUME NEW v \in DOMAIN store, store'[v] # store[v]
            PROVE  m.type = v[1] /\ (Var(m.v) = v \/ Lost(m))
        BY <2>1, <2>3, <2>4, <2>5, <3>1
      <3>2. m.kind # "Lookup"
        BY <1>1
      <3> QED BY <1>1, <1>2, <3>1, <3>2 DEF StoreChangesBySet
    <2>7. NamesComeByCreate
      <3>1. registered' # registered => ~(LocalId(p.name) >= 0)
        BY <1>1, <1>4 DEF Register
      <3> QED BY <1>2, <2>1, <2>2, <3>1 DEF NamesComeByCreate
    <2> QED BY <2>6, <2>7
  <1> QED BY <1>3, <1>4

\* Calculator code sets the variable it names.
LEMMA ExecSetsItsOwn ==
    ASSUME Inductive, NEW c \in Clients, Exec(c)
    PROVE  StoreChangesBySet /\ NamesComeByCreate
  <1>1. PICK m \in Arrived(c) :
            /\ m.kind = "Exec"
            /\ queue' = [queue EXCEPT ![c] = Tail(@)]
            /\ \/ store' = store
               \/ \E x : store' = [store EXCEPT ![<<m.type, m.text.name, IF m.type = "A" THEN m.text.index ELSE 0>>] = x]
            /\ registered' = registered
    BY DEF Exec, Receive
  <1>2. /\ Faithful(m) /\ m = Head(queue[c]) /\ queue[c] # <<>>
        /\ queue'[c] = Tail(queue[c])
    BY <1>1, ArrivedIsFaithful, TakenIsGone DEF Inductive
  <1>3. /\ m.type = m.v.type
        /\ Var(m.v) = <<m.type, m.text.name, IF m.type = "A" THEN m.text.index ELSE 0>>
    BY <1>1, <1>2 DEF Faithful, Var
  <1>4. ASSUME NEW v \in DOMAIN store, store'[v] # store[v]
        PROVE  v = Var(m.v) /\ m.type = v[1]
    BY <1>1, <1>3, <1>4 DEF Var
  <1>5. StoreChangesBySet
    BY <1>1, <1>2, <1>4 DEF StoreChangesBySet
  <1> QED BY <1>1, <1>5 DEF NamesComeByCreate

\* A variable changes only by a command to set it, or by the default of the one command that creates it, however
\* the commands of the clients are interleaved.
THEOREM OnlySetsChangeVariables == Spec => OnlySetsChange
  <1>1. Inductive /\ [Next]_vars => [StoreChangesBySet /\ NamesComeByCreate]_vars
    <2> SUFFICES ASSUME Inductive, Next PROVE StoreChangesBySet /\ NamesComeByCreate
      OBVIOUS
    <2>1. PICK c \in Clients : Next!(c)
      BY DEF Next
    <2>2. CASE UNCHANGED <<registered, store>>
      BY <2>2 DEF StoreChangesBySet, NamesComeByCreate
    <2>3. CASE ~UNCHANGED <<registered, store>>
      <3>1. Get(c) \/ Set(c) \/ Exec(c)
        BY <2>1, <2>3 DEF GetVariable, SetLocalVariable, SetByCode, Lookup, SendKey, SaveDataRequest, Send,
                          GetByCode, ServeLookup, ServeSendKey, AddOrUpdateRequest, UpdateRequestValue
      <3> QED BY <3>1, GetSetsWhatItCreates, SetSetsItsOwn, ExecSetsItsOwn
    <2> QED BY <2>2, <2>3
  <1> QED BY <1>1, VariableInvariance, PTL DEF Spec, OnlySetsChange, StoreChangesBySet, NamesComeByCreate
--------------------------------------------------------------------------------
(* What data requests deliver                                              *)

Format(tr) == IF tr.unit = "string" THEN "chars" ELSE tr.size

\* A value that is read with current ids is the value of the variable, in the unit and the type asked for.
LEMMA CurrentIdsReadTheVariable ==
    ASSUME RegisteredOnce, NEW tr \in Tracked, IdsAreCurrent(tr, FALSE),
           tr.calculated \/ Readable(tr),
           ~(tr.unit = "string" /\ tr.index # 0), ~(tr.name \in FlagTokens /\ tr.size # "int")
    PROVE  Current(tr) = Truth(tr) /\ Encoded(ResultMember(tr), tr.size) = Format(tr)
  <1>1. /\ tr.type \in VariableTypes /\ tr.name \in Names /\ tr.unit \in Units \cup {None, BadUnit}
        /\ tr.size \in {"int", "double", "chars"} /\ tr.calculated \in BOOLEAN
        /\ tr.variableId \in Nat \cup {-1} /\ tr.unitId \in Units \cup {None}
    BY DEF Tracked, AllUnits, Sizes
  <1>2. /\ tr.type \notin IndexedVariableTypes => tr.unit # BadUnit /\ tr.calculated
        /\ tr.size = "chars" <=> tr.type = "A" /\ tr.unit = "string"
        /\ tr.unit = "string" => tr.type = "A" /\ tr.calculated
        /\ tr.unitId # None => tr.unitId = tr.unit
        /\ tr.unit \in Units /\ ~tr.calculated => tr.unitId = tr.unit
        /\ tr.calculated => tr.type \notin IndexedVariableTypes \/ (tr.type = "A" /\ tr.unit = "string")
        /\ tr.variableId >= 0 => tr.variableId = VariableId(tr.type, tr.name)
    BY DEF IdsAreCurrent
  <1>3. Var(tr) = <<tr.type, tr.name, IF tr.type = "A" THEN tr.index ELSE 0>>
    BY DEF Var
  <1>4. CASE tr.calculated
    <2>1. Var(tr) = <<tr.type, tr.name, 0>>
      BY <1>2, <1>3, <1>4 DEF IndexedVariableTypes
    <2>2. tr.type # "T" /\ tr.unit \in Units \cup {None}
      BY <1>1, <1>2, <1>4 DEF IndexedVariableTypes, Units
    <2>3. UnitOf(tr) = IF tr.unit = None THEN "number" ELSE tr.unit
      BY <2>2, NoneIsNoName DEF UnitOf
    <2>4. Current(tr) = Truth(tr)
      BY <1>4, <2>1, <2>3 DEF Current, CodeValue, Truth
    <2>5. tr.type = "A" => tr.unit = "string"
      BY <1>2, <1>4 DEF IndexedVariableTypes
    <2>6. Encoded(ResultMember(tr), tr.size) = Format(tr)
      BY <1>1, <1>2, <1>4, <2>5 DEF Encoded, ResultMember, Format
    <2> QED BY <2>4, <2>6
  <1>5. CASE ~tr.calculated
    <2>1. Readable(tr) /\ tr.type \in IndexedVariableTypes /\ tr.unit # "string" /\ tr.size # "chars"
      BY <1>2, <1>5
    <2>2. tr.variableId >= 0
      <3>1. CASE tr.type = "T"
        BY <2>1, <3>1, FoundNameHasId DEF Readable
      <3>2. CASE tr.type # "T"
        BY <2>1, <3>2 DEF Readable
      <3> QED BY <3>1, <3>2
    <2>3. NameOf(tr.type, tr.variableId) = tr.name
      BY <1>1, <1>2, <2>1, <2>2, IdNamesOne
    <2>4. UnitOf(tr) = IF tr.type = "T" THEN None ELSE IF tr.unitId = None THEN "number" ELSE tr.unitId
      BY <1>1, <1>2, <1>5, NoneIsNoName DEF UnitOf
    <2>5. Current(tr) = Truth(tr)
      BY <1>3, <1>5, <2>3, <2>4 DEF Current, Truth
    <2>6. ResultMember(tr) = IF tr.type = "T" /\ tr.name \in FlagTokens THEN "int" ELSE "double"
      BY <1>5, <2>3 DEF ResultMember
    <2>7. Encoded(ResultMember(tr), tr.size) = Format(tr)
      BY <2>1, <2>6 DEF Encoded, Format
    <2> QED BY <2>5, <2>7
  <1> QED BY <1>1, <1>4, <1>5

\* What SubscriptionAgrees says of one client.
SampleRight(pair, tookOver, tr) ==
    \/ pair.was = pair.should
    \/ tookOver
    \/ tr.unit = "string" /\ tr.index # 0
    \/ tr.name \in FlagTokens /\ tr.size # "int"

\* An update delivers the value of the variable, or ends the updates.
LEMMA UpdateDeliversRight ==
    ASSUME SubscriptionAgrees, Inductive, NEW c \in Clients, UpdateRequestValue(c)
    PROVE  SubscriptionAgrees'
  <1>1. \A d \in Clients : SampleRight(sample[d], overwritten[d], requests[d])
    BY DEF SubscriptionAgrees, SampleRight
  <1>2. PICK tr \in Tracked : tr = requests[c] /\ IdsAreCurrent(tr, overwritten[c]) /\ overwritten[c] \in BOOLEAN
    BY DEF UpdateRequestValue, Inductive, RequestsAreCurrent, Shape
  <1>3. overwritten' = overwritten
    BY DEF UpdateRequestValue
  <1>4. CASE tr.calculated \/ Readable(tr)
    <2> DEFINE pair == [was |-> [value |-> Current(tr), format |-> Encoded(ResultMember(tr), tr.size)],
                        should |-> [value |-> Truth(tr), format |-> Format(tr)]]
    <2>1. sample' = [sample EXCEPT ![c] = pair] /\ requests' = requests
      BY <1>2, <1>4 DEF UpdateRequestValue, Format
    <2>2. SampleRight(pair, overwritten[c], tr)
      <3>1. CASE overwritten[c] = FALSE
        BY <1>2, <1>4, <3>1, CurrentIdsReadTheVariable DEF SampleRight, Inductive
      <3>2. CASE overwritten[c] = TRUE
        BY <3>2 DEF SampleRight
      <3> QED BY <1>2, <3>1, <3>2
    <2> HIDE DEF pair
    <2>3. \A d \in Clients : SampleRight(sample'[d], overwritten'[d], requests'[d])
      BY <1>1, <1>2, <1>3, <2>1, <2>2 DEF Inductive, Shape
    <2> QED BY <2>3 DEF SubscriptionAgrees, SampleRight
  <1>5. CASE ~(tr.calculated \/ Readable(tr))
    <2>1. sample' = sample /\ requests' = [requests EXCEPT ![c].never = TRUE]
      BY <1>2, <1>5 DEF UpdateRequestValue
    <2>2. PICK new : new = [tr EXCEPT !.never = TRUE]
      OBVIOUS
    <2>3. new.unit = tr.unit /\ new.index = tr.index /\ new.name = tr.name /\ new.size = tr.size
      BY <2>2 DEF Tracked
    <2>4. requests' = [requests EXCEPT ![c] = new]
      BY <1>2, <2>1, <2>2
    <2>5. SampleRight(sample[c], overwritten[c], new)
      BY <1>1, <1>2, <2>3 DEF SampleRight
    <2>6. \A d \in Clients : SampleRight(sample'[d], overwritten'[d], requests'[d])
      BY <1>1, <1>3, <2>1, <2>4, <2>5 DEF Inductive, RequestsAreCurrent
    <2> QED BY <2>6 DEF SubscriptionAgrees, SampleRight
  <1> QED BY <1>4, <1>5

\* A request that is saved or changed has delivered nothing yet.
LEMMA SavedHasDeliveredNothing ==
    ASSUME SubscriptionAgrees, Inductive, NEW c \in Clients, AddOrUpdateRequest(c)
    PROVE  SubscriptionAgrees'
  <1>1. \A d \in Clients : SampleRight(sample[d], overwritten[d], requests[d])
    BY DEF SubscriptionAgrees, SampleRight
  <1>2. CASE UNCHANGED <<requests, overwritten, sample>>
    BY <1>2 DEF SubscriptionAgrees
  <1>3. CASE ~UNCHANGED <<requests, overwritten, sample>>
    <2>1. PICK new, over : /\ requests' = [requests EXCEPT ![c] = new]
                           /\ overwritten' = [overwritten EXCEPT ![c] = over]
                           /\ sample' = [sample EXCEPT ![c] = [was |-> NoSample, should |-> NoSample]]
      BY <1>3 DEF AddOrUpdateRequest
    <2>2. SampleRight(sample'[c], overwritten'[c], requests'[c])
      BY <2>1 DEF SampleRight, Inductive, Shape
    <2>3. \A d \in Clients \ {c} : SampleRight(sample'[d], overwritten'[d], requests'[d])
      BY <1>1, <2>1 DEF Inductive, Shape, RequestsAreCurrent
    <2> QED BY <2>2, <2>3 DEF SubscriptionAgrees, SampleRight
  <1> QED BY <1>2, <1>3

\* What a data request delivers is the value of the variable it names, in the unit and the type it asks for,
\* for any sequence of updates of the request, but for the named exceptions.
THEOREM SubscriptionsAgree == Spec => []SubscriptionAgrees
  <1>1. Init => SubscriptionAgrees
    BY DEF Init, SubscriptionAgrees
  <1>2. SubscriptionAgrees /\ Inductive /\ [Next]_vars => SubscriptionAgrees'
    <2> SUFFICES ASSUME SubscriptionAgrees, Inductive, [Next]_vars PROVE SubscriptionAgrees'
      OBVIOUS
    <2>1. CASE UNCHANGED <<sample, requests, overwritten>>
      BY <2>1 DEF SubscriptionAgrees
    <2>2. CASE ~UNCHANGED <<sample, requests, overwritten>>
      <3>1. PICK c \in Clients : Next!(c)
        BY <2>2 DEF Next, vars
      <3>2. UpdateRequestValue(c) \/ AddOrUpdateRequest(c)
        BY <2>2, <3>1 DEF GetVariable, SetLocalVariable, SetByCode, Lookup, SendKey, SaveDataRequest, Send,
                          GetByCode, Get, Set, Exec, ServeLookup, ServeSendKey
      <3> QED BY <3>2, UpdateDeliversRight, SavedHasDeliveredNothing
    <2> QED BY <2>1, <2>2
  <1> QED BY <1>1, <1>2, VariableInvariance, PTL DEF Spec

================================================================================
