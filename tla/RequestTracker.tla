---------------------------- MODULE RequestTracker ----------------------------
(***************************************************************************)
(* The record of SimConnect calls (src/shared/SimConnectRequestTracker.h)  *)
(* and the proxy through which the client makes every call                 *)
(* (src/shared/SimConnectHelper.h).  SimConnect reports an error of an     *)
(* earlier call by the number of the packet it was sent in; the tracker    *)
(* keeps the last MaxRecords packet numbers with the calls they belong to. *)
(*                                                                         *)
(* Any thread of the client calls SimConnect, and the dispatch thread      *)
(* looks records up without taking the mutex of the proxy.  A step is one  *)
(* access to what the threads share.  Calls are numbered; the number       *)
(* stands for the function name and the arguments kept in a record.        *)
(***************************************************************************)
EXTENDS Integers, Sequences, FiniteSets

CONSTANTS
    Threads,     \* threads that call SimConnect
    Handles,     \* connections the process opens, one after the other or at once
    None,
    MaxRecords,  \* m_maxRecords
    LookBack,    \* how far before the newest record a search begins (10 in the code)
    Locked,      \* calls are made through simConnectProxy(), which holds g_simConnectMutex
    MaxCalls     \* bound on the number of calls

ASSUME TrackerConstants ==
    /\ MaxRecords \in Nat \ {0}
    /\ LookBack \in Nat
    /\ Locked \in BOOLEAN
    /\ MaxCalls \in Nat
    /\ None \notin Threads
    /\ None \notin Nat

VARIABLES
    lastId,    \* SimConnect_GetLastSentPacketID(): number of the last packet sent on a handle
    calls,     \* the calls which sent a packet: handle and packet number of each
    data,      \* m_data: the packet number and the call of each record
    index,     \* m_dataIndex
    holder,    \* the thread which holds g_simConnectMutex
    pc, job,   \* where each thread is in addRequestRecord(), and its local variables
    logged,    \* the calls recorded so far, in the order their records were completed
    search     \* the dispatch thread in getRequestRecord()

vars == <<lastId, calls, data, index, holder, pc, job, logged, search>>
callVars == <<lastId, calls, holder>>

Slots    == 0..(MaxRecords - 1)
CallIds  == 1..MaxCalls
NoJob    == [call |-> None, handle |-> None, id |-> None, slot |-> None]
NoSearch == [at |-> "idle", call |-> None, known |-> FALSE, slot |-> None, end |-> None,
             reported |-> None]

Lesser(m, n) == IF m < n THEN m ELSE n

Init ==
    /\ lastId = [h \in Handles |-> 0]
    /\ calls = <<>>
    /\ data = [s \in Slots |-> [id |-> None, call |-> None]]
    /\ index = -1
    /\ holder = None
    /\ pc = [t \in Threads |-> "idle"]
    /\ job = [t \in Threads |-> NoJob]
    /\ logged = <<>>
    /\ search = NoSearch

--------------------------------------------------------------------------------
\* simConnectProxy() and addRequestRecord()

\* The call itself.  A call that fails at once has no record and is not of interest here.
Invoke(t, h) ==
    /\ pc[t] = "idle"
    /\ Len(calls) < MaxCalls
    /\ Locked => holder = None
    /\ holder' = IF Locked THEN t ELSE None
    /\ lastId' = [lastId EXCEPT ![h] = @ + 1]
    /\ calls' = Append(calls, [handle |-> h, id |-> lastId[h] + 1])
    /\ job' = [job EXCEPT ![t] = [call |-> Len(calls) + 1, handle |-> h, id |-> None, slot |-> None]]
    /\ pc' = [pc EXCEPT ![t] = "invoked"]
    /\ UNCHANGED <<data, index, logged, search>>

\* The thread is done with the call and leaves the scope of the lock.
Release(t) ==
    /\ pc' = [pc EXCEPT ![t] = "idle"]
    /\ job' = [job EXCEPT ![t] = NoJob]
    /\ holder' = IF holder = t THEN None ELSE holder

\* The packet number is asked for after the call.  When that fails there is no record.
SentId_Next(t) == lastId[job[t].handle] + 1     \* slip: the number of the packet to come
SentId(t) == lastId[job[t].handle]

GetLastSentPacketID(t) ==
    /\ pc[t] = "invoked"
    /\ \/ /\ job' = [job EXCEPT ![t].id = SentId(t)]
          /\ pc' = [pc EXCEPT ![t] = "numbered"]
          /\ UNCHANGED holder
       \/ Release(t)
    /\ UNCHANGED <<lastId, calls, data, index, logged, search>>

\* m_dataIndex = (m_dataIndex + 1) % m_maxRecords: a load and a store, each of them atomic
NextSlot_NoWrap(i) == i + 1                     \* slip: runs past the end
NextSlot(i) == (i + 1) % MaxRecords

LoadIndex(t) ==
    /\ pc[t] = "numbered"
    /\ job' = [job EXCEPT ![t].slot = NextSlot(index)]
    /\ pc' = [pc EXCEPT ![t] = "stepped"]
    /\ UNCHANGED <<callVars, data, index, logged, search>>

StoreIndex(t) ==
    /\ pc[t] = "stepped"
    /\ index' = job[t].slot
    /\ pc' = [pc EXCEPT ![t] = "indexed"]
    /\ UNCHANGED <<callVars, data, job, logged, search>>

\* m_data[m_dataIndex] = RequestData(...): the index is read again, and the members are assigned in
\* the order of their declaration, the method name and the arguments before the packet number.
AssignCall(t) ==
    /\ pc[t] = "indexed"
    /\ data' = [data EXCEPT ![index].call = job[t].call]
    /\ job' = [job EXCEPT ![t].slot = index]
    /\ pc' = [pc EXCEPT ![t] = "writing"]
    /\ UNCHANGED <<callVars, index, logged, search>>

AssignId(t) ==
    /\ pc[t] = "writing"
    /\ data' = [data EXCEPT ![job[t].slot].id = job[t].id]
    /\ logged' = Append(logged, job[t].call)
    /\ Release(t)
    /\ UNCHANGED <<lastId, calls, index, search>>

--------------------------------------------------------------------------------
\* getRequestRecord(), called by logSimConnectException() in the dispatch thread

\* Where the search begins.  With no record yet and a small ring the unsigned arithmetic of the code
\* yields some other slot, which is as good since every slot is visited.
Start == (MaxRecords + index - Lesser(LookBack, MaxRecords)) % MaxRecords

\* SimConnect reports that call k was wrong.
Exception(k) ==
    /\ search.at = "idle"
    /\ k \in DOMAIN calls
    /\ search' = [NoSearch EXCEPT !.at = "searching", !.call = k, !.slot = Start, !.end = Start,
                                  !.known = \E n \in DOMAIN logged : logged[n] = k]
    /\ UNCHANGED <<callVars, data, index, pc, job, logged>>

Matches(s) == data[s].id = calls[search.call].id

\* The last slot of the search is the one before the first.
Exhausted_Early(s) == s = search.end                            \* slip: compares before it looks
Exhausted(s) == NextSlot(s) = search.end

\* One slot is compared.  A record is returned by reference; the null record names no call.
Compare ==
    /\ search.at = "searching"
    /\ search' = IF Matches(search.slot) THEN [search EXCEPT !.at = "found"]
                 ELSE IF Exhausted(search.slot)
                      THEN [search EXCEPT !.at = "reported", !.reported = None]
                      ELSE [search EXCEPT !.slot = NextSlot(@)]
    /\ UNCHANGED <<callVars, data, index, pc, job, logged>>

\* The record is formatted for the log, as it is by then.
Report ==
    /\ search.at = "found"
    /\ search' = [search EXCEPT !.at = "reported", !.reported = data[search.slot].call]
    /\ UNCHANGED <<callVars, data, index, pc, job, logged>>

Finish ==
    /\ search.at = "reported"
    /\ search' = NoSearch
    /\ UNCHANGED <<callVars, data, index, pc, job, logged>>

AddRequestRecord(t) ==
    \/ GetLastSentPacketID(t)
    \/ LoadIndex(t)
    \/ StoreIndex(t)
    \/ AssignCall(t)
    \/ AssignId(t)

Next ==
    \/ \E t \in Threads : AddRequestRecord(t) \/ \E h \in Handles : Invoke(t, h)
    \/ \E k \in CallIds : Exception(k)
    \/ Compare
    \/ Report
    \/ Finish

Spec == Init /\ [][Next]_vars

--------------------------------------------------------------------------------
\* Properties

Records == [id: Nat \cup {None}, call: CallIds \cup {None}]

TypeOK ==
    /\ lastId \in [Handles -> Nat]
    /\ calls \in Seq([handle: Handles, id: Nat])
    /\ Len(calls) <= MaxCalls
    /\ data \in [Slots -> Records]
    /\ index \in Slots \cup {-1}
    /\ holder \in Threads \cup {None}
    /\ pc \in [Threads -> {"idle", "invoked", "numbered", "stepped", "indexed", "writing"}]
    /\ job \in [Threads -> [call: CallIds \cup {None}, handle: Handles \cup {None},
                            id: Nat \cup {None}, slot: Slots \cup {None}]]
    /\ logged \in Seq(CallIds)
    /\ search \in [at: {"idle", "searching", "found", "reported"}, call: CallIds \cup {None},
                   known: BOOLEAN, slot: Slots \cup {None}, end: Slots \cup {None},
                   reported: CallIds \cup {None}]

\* A record which no thread is writing holds the packet number of the very call it names, whatever
\* the other threads called in between ("gets the unique send ID from SimConnect").
BeingWritten(s) == \E t \in Threads : pc[t] = "writing" /\ job[t].slot = s

RecordsAreRight ==
    \A s \in Slots : data[s].call # None /\ ~BeingWritten(s)
        => data[s].call \in DOMAIN calls /\ data[s].id = calls[data[s].call].id

\* Of the records that were completed, all but the one that may be about to be overwritten are recent.
Recent(k) ==
    \E n \in DOMAIN logged : logged[n] = k /\ n > Len(logged) - (MaxRecords - 1)

\* "find which SimConnect function call caused an exception": a search finds the call SimConnect
\* complains about if it was recorded before the search began and is recent when the record is read,
\* though records are added, and one may be half written, while the search goes on.
RecentCallIsReported ==
    search.at = "reported" /\ search.known /\ Recent(search.call) => search.reported = search.call
================================================================================
