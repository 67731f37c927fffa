------------------------------ MODULE RequestEditor ------------------------------
(***************************************************************************)
(* The data requests of WASimUI: the table of requests, the form that      *)
(* edits one of them, files of requests, values and client events that     *)
(* come through the queue of the GUI thread, and the client's own map of   *)
(* requests behind it all.                                                 *)
(*                                                                         *)
(* Actions of the GUI thread are whole handlers, since Qt delivers queued  *)
(* signals between them.  Of a request's definition only the size matters, *)
(* which the client does not let grow.  What the form's fields hold is     *)
(* chosen when it is saved, what a file holds when it is loaded.  The      *)
(* signal rowCountChanged() is left out: it sets the buttons again, from   *)
(* the same facts.                                                         *)
(***************************************************************************)
EXTENDS Integers, Sequences, FiniteSets, SequencesExt

CONSTANTS
    Sizes,       \* sizes of values, in bytes
    Keys,        \* export ids of requests
    None,        \* no export id, no value yet
    New,         \* the form's id while it edits no request
    MaxRows,     \* bound: rows of the table
    MaxId,       \* bound: ids given out
    MaxResults,  \* bound: values in the GUI thread's queue
    MaxEvents    \* bound: client events in the GUI thread's queue

ASSUME EditorAssumption ==
    /\ Sizes \subseteq Nat
    /\ {MaxRows, MaxId, MaxResults, MaxEvents} \subseteq Nat
    /\ None \notin Keys \cup Sizes

VARIABLES
    rows,        \* the table, a sequence of records; "made" counts creations
    nextId,      \* m_nextRequestId
    form,        \* the property "requestId" of the request form
    selected,    \* ids of the selected rows
    client,      \* the client's requests: id -> size and creation
    results,     \* dataResultReady signals on their way to setRequestValue()
    connected,   \* client->isConnected()
    events,      \* clientEvent signals on their way: connected or not
    known,       \* Connected in clientStatus, the last event handled
    canUpdate,   \* whether the button "Update" is enabled
    made,        \* history: requests created
    refused      \* history: rows' ids whose last save the client has not stored

requestVars == <<rows, nextId, form, client, made, refused>>
signalVars == <<connected, events, known>>
vars == <<requestVars, signalVars, results, selected, canUpdate>>

-----------------------------------------------------------------------------
(* RequestsModel *)

Ids(rs) == {rs[i].id : i \in DOMAIN rs}

\* The rows of request id: one at most.
FindRequestRow(rs, id) == {i \in DOMAIN rs : rs[i].id = id}

\* The row with an export id that importFromPluginFormat() takes: the first one.
FindKey(rs, key) ==
    LET same == {i \in DOMAIN rs : rs[i].key = key /\ key # None}
    IN  {i \in same : \A j \in same : i <= j}

\* addRequest() writes to the request's row, whose value stays, or appends one.
AddRequest(rs, r) ==
    IF FindRequestRow(rs, r.id) = {} THEN Append(rs, r)
    ELSE [i \in DOMAIN rs |-> IF rs[i].id = r.id THEN [r EXCEPT !.shown = rs[i].shown] ELSE rs[i]]

Row(id, size, key, n) == [id |-> id, size |-> size, key |-> key, made |-> n, shown |-> None]

\* nextRequestId()
FreshId_RowCount(n, rs) == Len(rs)
FreshId(n, rs) == n

\* removeRequests() removes from the last row to the first, so that indexes stay right.
RowsWithout_FirstToLast(rs, indexes) ==
    MapThenFoldSet(LAMBDA i, left : RemoveAt(left, i), rs, LAMBDA i : i, Max, indexes)
RowsWithout(rs, indexes) ==
    MapThenFoldSet(LAMBDA i, left : RemoveAt(left, i), rs, LAMBDA i : i, Min, indexes)

-----------------------------------------------------------------------------
(* The form *)

\* rowsAboutToBeRemoved: the form lets go of a request whose row is removed.
FormWithout_Kept(f, ids) == f
FormWithout(f, ids) == IF f \in ids THEN New ELSE f

\* toggleRequestButtonsState()
ToggleButtons(sel, conn) == canUpdate' = (sel # {} /\ conn)

\* The selection model tells of changes only.
Select(sel) ==
    /\ selected' = sel
    /\ IF sel # selected THEN ToggleButtons(sel, connected) ELSE UNCHANGED canUpdate

\* saveDataRequest() for the rows rs: those in "kept" are stored.  A size may not grow, and every
\* save may be refused.
Save(held, rs, kept) ==
    /\ \A r \in rs : r.id \in kept /\ r.id \in DOMAIN held => r.size <= held[r.id].size
    /\ client' = [i \in DOMAIN held \cup kept |->
                    IF i \in kept
                    THEN LET r == CHOOSE r \in rs : r.id = i IN [size |-> r.size, made |-> r.made]
                    ELSE held[i]]

\* handleRequestForm(): a new request gets a row if it was saved, an existing one is changed in the
\* table even if it was not.  "Save" (update) may be clicked while the form has an id.
ShowsRow(isNew, ok) == ok \/ ~isNew

Edited(update) == IF update THEN FindRequestRow(rows, form) ELSE {}

HandleRequestForm(update) ==
    LET isNew == Edited(update) = {} IN
    /\ update => form # New
    /\ isNew => nextId < MaxId /\ Len(rows) < MaxRows
    /\ \E size \in Sizes, ok \in BOOLEAN, stored \in BOOLEAN :
        LET old == rows[CHOOSE i \in Edited(update) : TRUE]
            r == IF isNew THEN Row(FreshId(nextId, rows), size, None, made) ELSE [old EXCEPT !.size = size]
            kept == IF stored THEN {r.id} ELSE {}
        IN  /\ ok => stored
            /\ isNew \/ ~connected => (stored => ok)
            /\ Save(client, {r}, kept)
            /\ form' = r.id
            /\ IF ShowsRow(isNew, ok)
               THEN /\ rows' = AddRequest(rows, r)
                    /\ Select({r.id})
                    /\ refused' = (refused \cup {r.id}) \ kept
               ELSE UNCHANGED <<rows, selected, canUpdate, refused>>
    /\ nextId' = IF isNew THEN nextId + 1 ELSE nextId
    /\ made' = IF isNew THEN made + 1 ELSE made
    /\ UNCHANGED <<results, signalVars>>

\* populateRequestForm(), by a double click on a row.
PopulateRequestForm ==
    /\ \E id \in Ids(rows) : form' = id /\ Select({id})
    /\ UNCHANGED <<rows, nextId, client, results, signalVars, made, refused>>

\* clearRequestForm(), copyCalcCodeToRequest(), copyLocalVarToRequest()
ClearRequestForm ==
    /\ form # New
    /\ form' = New
    /\ UNCHANGED <<rows, nextId, client, selected, results, signalVars, canUpdate, made, refused>>

SelectRows ==
    /\ \E sel \in SUBSET Ids(rows) : sel # selected /\ Select(sel)
    /\ UNCHANGED <<requestVars, results, signalVars>>

-----------------------------------------------------------------------------
(* Removal *)

\* What the client holds once removeDataRequest() was called for ids.
ClientWithout(held, ids) == [i \in DOMAIN held \ ids |-> held[i]]

\* removeSelectedRequests() and removeRequests()
RemoveSelectedRequests ==
    /\ selected # {}
    /\ client' = ClientWithout(client, selected)
    /\ rows' = RowsWithout(rows, {i \in DOMAIN rows : rows[i].id \in selected})
    /\ form' = FormWithout(form, selected)
    /\ refused' = refused \ selected
    /\ Select({})
    /\ UNCHANGED <<nextId, results, signalVars, made>>

\* removeAllRequests(), as loadRequests(true) calls it.
Base(replace) == IF replace THEN <<>> ELSE rows

-----------------------------------------------------------------------------
(* Files *)

\* loadFromFile(): every request of the file becomes a new row.
Loaded(base, sizes) ==
    [k \in DOMAIN sizes |-> Row(FreshId(nextId, base) + k - 1, sizes[k], None, made + k - 1)]

\* importFromPluginFormat(): groups in order, up to the first one without "Name" or "SimVarName"
\* (no size here), whose group is never left, so that no later one is found.
Complete(groups) ==
    LET incomplete == {k \in DOMAIN groups : groups[k].size = None}
    IN  SubSeq(groups, 1, IF incomplete = {} THEN Len(groups) ELSE Min(incomplete) - 1)

Imported(base, groups) ==
    LET found == Complete(groups)
        IsNew(k) == FindKey(base, found[k].key) = {}
        Before(k) == Cardinality({j \in 1..(k - 1) : IsNew(j)})
    IN  [k \in DOMAIN found |->
            LET g == found[k]
            IN  IF IsNew(k)
                THEN Row(FreshId(nextId, base) + Before(k), g.size, g.key, made + Before(k))
                ELSE [base[CHOOSE i \in FindKey(base, g.key) : TRUE] EXCEPT !.size = g.size]]

\* loadRequests(): what the table held is removed before the file is opened; rows are added before
\* their asynchronous saves, whose results are not looked at.
LoadRequests(replace, added) ==
    LET base == Base(replace)
        ids == Ids(added)
        fresh == Cardinality(ids \ Ids(base))
        gone == Ids(rows) \ Ids(base)
    IN  /\ nextId + fresh <= MaxId
        /\ Len(base) + fresh <= MaxRows
        /\ rows' = FoldLeft(AddRequest, base, added)
        /\ nextId' = nextId + fresh
        /\ made' = made + fresh
        /\ form' = FormWithout(form, gone)
        /\ Select(selected \ gone)
        /\ \E kept \in SUBSET ids :
            /\ Save(ClientWithout(client, gone), ToSet(added), kept)
            /\ refused' = ((refused \ gone) \cup ids) \ kept
        /\ UNCHANGED <<results, signalVars>>

LoadNative ==
    \E replace \in BOOLEAN, n \in 0..MaxRows : \E sizes \in [1..n -> Sizes] :
        \E added \in {Loaded(Base(replace), sizes)} : LoadRequests(replace, added)

\* Export files of the plugin: an export id is the name of one group only.
PluginFiles ==
    UNION {{groups \in [1..n -> [key: Keys, size: Sizes \cup {None}]] :
              \A j, k \in 1..n : groups[j].key = groups[k].key => j = k} : n \in 1..MaxRows}

LoadPlugin ==
    \E replace \in BOOLEAN :
        \E added \in {Imported(Base(replace), groups) : groups \in PluginFiles} : LoadRequests(replace, added)

-----------------------------------------------------------------------------
(* Signals *)

\* The dispatch thread has a value; the signal carries a copy of the request.
DataResultReady ==
    /\ connected
    /\ Len(results) < MaxResults
    /\ \E i \in DOMAIN client : results' = Append(results, [id |-> i, made |-> client[i].made])
    /\ UNCHANGED <<requestVars, signalVars, selected, canUpdate>>

\* setRequestValue()
SetRequestValue ==
    /\ results # <<>>
    /\ LET res == Head(results)
       IN  rows' = [i \in DOMAIN rows |->
                      IF rows[i].id = res.id THEN [rows[i] EXCEPT !.shown = res.made] ELSE rows[i]]
    /\ results' = Tail(results)
    /\ UNCHANGED <<nextId, form, client, made, refused, signalVars, selected, canUpdate>>

\* toggleConnection() connects or disconnects, or the connection is lost: the client's status changes
\* and its callback queues the event.
ClientEvent ==
    /\ Len(events) < MaxEvents
    /\ connected' = ~connected
    /\ events' = Append(events, ~connected)
    /\ UNCHANGED <<requestVars, known, results, selected, canUpdate>>

\* onClientEvent() sets the buttons if the event says something new.
Changed_Stored(was, is) == FALSE
Changed(was, is) == was # is

OnClientEvent ==
    /\ events # <<>>
    /\ events' = Tail(events)
    /\ IF Changed(known, Head(events)) THEN ToggleButtons(selected, connected) ELSE UNCHANGED canUpdate
    /\ known' = Head(events)
    /\ UNCHANGED <<requestVars, connected, results, selected>>

-----------------------------------------------------------------------------
Init ==
    /\ rows = <<>> /\ nextId = 0 /\ form = New /\ selected = {}
    /\ client = [i \in {} |-> None]
    /\ results = <<>> /\ connected = FALSE /\ events = <<>> /\ known = FALSE
    /\ canUpdate = FALSE
    /\ made = 0 /\ refused = {}

Next ==
    \/ HandleRequestForm(TRUE) \/ HandleRequestForm(FALSE)
    \/ PopulateRequestForm \/ ClearRequestForm \/ SelectRows
    \/ RemoveSelectedRequests
    \/ LoadNative \/ LoadPlugin
    \/ DataResultReady \/ SetRequestValue
    \/ ClientEvent \/ OnClientEvent

Spec == Init /\ [][Next]_vars

-----------------------------------------------------------------------------
(* Properties *)

\* A value shown in a row is a value of the row's own request, however late it was delivered: rows
\* come and go while values are in the queue, and setRequestValue() knows a request by its id only.
ValueIsRowsOwn == \A i \in DOMAIN rows : rows[i].shown \in {None, rows[i].made}

\* When the row goes which the form edits, the form lets go of it, whether the row is removed alone,
\* with others or by loading a file; "Save" would bring the request back otherwise.  An id without a
\* row is in the form only after that request could not be saved as a new one.
FormIsNotRemoved ==
    [][form' # New => form' \in Ids(rows') \/ form' >= nextId \/ (form' = form /\ form \notin Ids(rows))]_vars

\* The client has no request which the table does not show, and except for what the client has
\* refused it has every request of the table as the table shows it.
ShownIsHeld ==
    /\ DOMAIN client \subseteq Ids(rows)
    /\ \A i \in DOMAIN rows : rows[i].id \notin refused =>
            /\ rows[i].id \in DOMAIN client
            /\ client[rows[i].id].size = rows[i].size

\* Once all client events are handled, "Update" may be clicked if and only if there is a selection and
\* a connection, whatever order connections, selections and queued events came in.
ButtonsFollow == events = <<>> => canUpdate = (selected # {} /\ connected)
================================================================================
