------------------------- MODULE RequestTrackerProofs -------------------------
(***************************************************************************)
(* What holds of RequestTracker for every number of threads, handles,      *)
(* records and calls, given that calls go through simConnectProxy().       *)
(* RecordsAreRight alone is not inductive: it needs that one thread at a   *)
(* time is between its call and its record (Exclusive), and that this      *)
(* thread's local variables belong to the call it made (JobsAreRight).     *)
(* RecentCallIsReported needs the order of the ring besides, in the second *)
(* half: which record is in which slot, and that the search has not passed *)
(* the slot of the one it is for (RingInv).                                *)
(***************************************************************************)
EXTENDS RequestTracker, SequenceTheorems, TLAPS

Exclusive == \A t \in Threads : pc[t] # "idle" => holder = t

JobIsRight(t) ==
    /\ pc[t] # "idle" => /\ job[t].call \in DOMAIN calls
                         /\ job[t].handle = calls[job[t].call].handle
    /\ pc[t] = "invoked" => lastId[job[t].handle] = calls[job[t].call].id
    /\ pc[t] \in {"numbered", "stepped", "indexed", "writing"} => job[t].id = calls[job[t].call].id
    /\ pc[t] \in {"stepped", "writing"} => job[t].slot \in Slots
    /\ pc[t] \in {"indexed", "writing"} => index \in Slots
    /\ pc[t] = "writing" => data[job[t].slot].call = job[t].call

JobsAreRight == \A t \in Threads : JobIsRight(t)

SearchIsRight ==
    /\ search.at \in {"searching", "found"} =>
         search.call \in DOMAIN calls /\ search.slot \in Slots

IInv == TypeOK /\ Exclusive /\ JobsAreRight /\ SearchIsRight /\ RecordsAreRight

\* A slot stays in the ring when it is stepped.
LEMMA SlotInRing ==
    /\ \A i \in Slots \cup {-1} : NextSlot(i) \in Slots
    /\ index \in Slots \cup {-1} => Start \in Slots
<1>1. ASSUME NEW i \in Slots \cup {-1} PROVE NextSlot(i) \in Slots
  BY TrackerConstants DEF NextSlot, Slots
<1>2. ASSUME index \in Slots \cup {-1} PROVE Start \in Slots
  <2>1. Lesser(LookBack, MaxRecords) \in Nat
    BY TrackerConstants DEF Lesser
  <2>2. MaxRecords + index - Lesser(LookBack, MaxRecords) \in Int
    BY <1>2, <2>1, TrackerConstants DEF Slots
  <2>. QED
    BY <2>2, TrackerConstants DEF Start, Slots
<1>. QED
  BY <1>1, <1>2

\* Nothing is recorded and nobody is in a call at first.
LEMMA InitIInv == Init => IInv
<1>. SUFFICES ASSUME Init PROVE IInv
  OBVIOUS
<1>1. TypeOK
  BY TrackerConstants DEF Init, TypeOK, Slots, CallIds, NoJob, NoSearch, Records
<1>2. Exclusive /\ JobsAreRight /\ SearchIsRight /\ RecordsAreRight
  BY DEF Init, Exclusive, JobsAreRight, JobIsRight, SearchIsRight, RecordsAreRight, NoSearch
<1>. QED
  BY <1>1, <1>2 DEF IInv
\* A call begins only when no other thread is between its call and its record.
LEMMA InvokeIInv ==
  ASSUME Locked, IInv, NEW t \in Threads, NEW h \in Handles, Invoke(t, h)
  PROVE IInv'
<1>. USE DEF Invoke
<1>1. /\ lastId \in [Handles -> Nat] /\ calls \in Seq([handle: Handles, id: Nat])
      /\ Len(calls) \in Nat /\ Len(calls) + 1 \in CallIds
  BY TrackerConstants DEF IInv, TypeOK, CallIds
<1>2. calls' \in Seq([handle: Handles, id: Nat]) /\ Len(calls') = Len(calls) + 1
  BY <1>1
<1>3. \A k \in DOMAIN calls : k \in DOMAIN calls' /\ calls'[k] = calls[k]
  BY <1>1
<1>4. /\ Len(calls) + 1 \in DOMAIN calls'
      /\ calls'[Len(calls) + 1] = [handle |-> h, id |-> lastId[h] + 1]
  BY <1>1
<1>5. \A u \in Threads : pc[u] = "idle"
  BY TrackerConstants DEF IInv, Exclusive
<1>6. job'[t].call = Len(calls) + 1 /\ job'[t].handle = h /\ pc'[t] = "invoked"
  BY DEF IInv, TypeOK, NoJob
<1>7. \A u \in Threads \ {t} : pc'[u] = "idle" /\ job'[u] = job[u]
  BY <1>5 DEF IInv, TypeOK
<1>8. TypeOK'
  <2>1. lastId' \in [Handles -> Nat]
    BY <1>1
  <2>2. Len(calls') <= MaxCalls
    BY <1>1, <1>2, TrackerConstants
  <2>3. holder' \in Threads \cup {None}
    OBVIOUS
  <2>4. pc' \in [Threads -> {"idle", "invoked", "numbered", "stepped", "indexed", "writing"}]
    BY DEF IInv, TypeOK
  <2>5. job' \in [Threads -> [call: CallIds \cup {None}, handle: Handles \cup {None},
                            id: Nat \cup {None}, slot: Slots \cup {None}]]
    BY <1>1 DEF IInv, TypeOK, NoJob
  <2>. QED
    BY <1>2, <2>1, <2>2, <2>3, <2>4, <2>5 DEF IInv, TypeOK
<1>9. Exclusive'
  BY <1>6, <1>7 DEF Exclusive
<1>10. JobsAreRight'
  <2>1. JobIsRight(t)'
    <3>1. lastId'[h] = lastId[h] + 1
      BY <1>1
    <3>. QED
      BY <1>4, <1>6, <3>1 DEF JobIsRight
  <2>2. ASSUME NEW u \in Threads \ {t} PROVE JobIsRight(u)'
    BY <1>7 DEF JobIsRight
  <2>. QED
    BY <2>1, <2>2 DEF JobsAreRight
<1>11. SearchIsRight'
  BY <1>3 DEF IInv, SearchIsRight
<1>12. RecordsAreRight'
  <2>. SUFFICES ASSUME NEW s \in Slots, data[s].call # None
                PROVE data[s].call \in DOMAIN calls' /\ data[s].id = calls'[data[s].call].id
    BY DEF RecordsAreRight
  <2>1. ~BeingWritten(s)
    BY <1>5 DEF BeingWritten
  <2>. QED
    BY <1>3, <2>1 DEF IInv, RecordsAreRight
<1>. QED
  BY <1>8, <1>9, <1>10, <1>11, <1>12 DEF IInv

\* Leaving the scope of the lock disturbs no job but the thread's own, which is over.
LEMMA ReleaseIInv ==
  ASSUME Locked, IInv, NEW t \in Threads, pc[t] # "idle", Release(t), UNCHANGED <<calls, lastId, index>>
  PROVE /\ pc' \in [Threads -> {"idle", "invoked", "numbered", "stepped", "indexed", "writing"}]
        /\ job' \in [Threads -> [call: CallIds \cup {None}, handle: Handles \cup {None},
                                id: Nat \cup {None}, slot: Slots \cup {None}]]
        /\ holder' \in Threads \cup {None}
        /\ \A u \in Threads : pc'[u] = "idle"
        /\ Exclusive' /\ JobsAreRight'
<1>1. \A u \in Threads \ {t} : pc[u] = "idle"
  BY DEF IInv, Exclusive
<1>2. \A u \in Threads : pc'[u] = "idle"
  BY <1>1 DEF Release, IInv, TypeOK
<1>3. pc' \in [Threads -> {"idle", "invoked", "numbered", "stepped", "indexed", "writing"}]
  BY DEF Release, IInv, TypeOK
<1>4. job' \in [Threads -> [call: CallIds \cup {None}, handle: Handles \cup {None},
                           id: Nat \cup {None}, slot: Slots \cup {None}]]
  BY DEF Release, IInv, TypeOK, NoJob
<1>5. holder' \in Threads \cup {None}
  BY DEF Release, IInv, TypeOK
<1>6. Exclusive' /\ JobsAreRight'
  BY <1>2 DEF Exclusive, JobsAreRight, JobIsRight
<1>. QED
  BY <1>2, <1>3, <1>4, <1>5, <1>6

\* The packet number read is the one of the thread's own call, no other call being under way.
LEMMA GetLastSentPacketIDIInv ==
  ASSUME Locked, IInv, NEW t \in Threads, GetLastSentPacketID(t)
  PROVE IInv'
<1>. USE DEF GetLastSentPacketID
<1>1. \A u \in Threads \ {t} : pc[u] = "idle"
  BY DEF IInv, Exclusive
<1>2. CASE Release(t)
  <2>1. /\ pc' \in [Threads -> {"idle", "invoked", "numbered", "stepped", "indexed", "writing"}]
        /\ job' \in [Threads -> [call: CallIds \cup {None}, handle: Handles \cup {None},
                                id: Nat \cup {None}, slot: Slots \cup {None}]]
        /\ holder' \in Threads \cup {None}
        /\ \A u \in Threads : pc'[u] = "idle"
        /\ Exclusive' /\ JobsAreRight'
    BY <1>2, ReleaseIInv
  <2>2. TypeOK'
    BY <2>1 DEF IInv, TypeOK
  <2>3. SearchIsRight'
    BY DEF IInv, SearchIsRight
  <2>4. RecordsAreRight'
    BY <1>1 DEF IInv, RecordsAreRight, BeingWritten
  <2>. QED
    BY <2>1, <2>2, <2>3, <2>4 DEF IInv
<1>3. CASE ~Release(t)
  <2>1. /\ job' = [job EXCEPT ![t].id = SentId(t)]
        /\ pc' = [pc EXCEPT ![t] = "numbered"]
        /\ UNCHANGED <<holder, lastId, calls, data, index, logged, search>>
    BY <1>3
  <2>2. job[t].handle = calls[job[t].call].handle /\ job[t].call \in DOMAIN calls
    BY DEF IInv, JobsAreRight, JobIsRight
  <2>3. calls[job[t].call] \in [handle: Handles, id: Nat]
    <3>1. calls \in Seq([handle: Handles, id: Nat])
      BY DEF IInv, TypeOK
    <3>2. job[t].call \in 1..Len(calls)
      BY <2>2, <3>1, LenProperties
    <3>. QED
      BY <3>1, <3>2, ElementOfSeq
  <2>4. SentId(t) = calls[job[t].call].id /\ SentId(t) \in Nat
    BY <2>2, <2>3 DEF SentId, IInv, JobsAreRight, JobIsRight, TypeOK
  <2>5. job[t] \in [call: CallIds \cup {None}, handle: Handles \cup {None},
                    id: Nat \cup {None}, slot: Slots \cup {None}]
    BY DEF IInv, TypeOK
  <2>6. /\ job'[t] = [job[t] EXCEPT !.id = SentId(t)] /\ pc'[t] = "numbered"
        /\ \A u \in Threads \ {t} : pc'[u] = "idle" /\ job'[u] = job[u]
    BY <1>1, <2>1 DEF IInv, TypeOK
  <2>7. TypeOK'
    <3>1. pc' \in [Threads -> {"idle", "invoked", "numbered", "stepped", "indexed", "writing"}]
      BY <2>1 DEF IInv, TypeOK
    <3>2. job' \in [Threads -> [call: CallIds \cup {None}, handle: Handles \cup {None},
                               id: Nat \cup {None}, slot: Slots \cup {None}]]
      BY <2>1, <2>4, <2>5 DEF IInv, TypeOK
    <3>. QED
      BY <2>1, <3>1, <3>2 DEF IInv, TypeOK
  <2>8. Exclusive'
    BY <2>1, <2>6 DEF IInv, Exclusive
  <2>9. JobsAreRight'
    <3>1. JobIsRight(t)'
      BY <2>1, <2>2, <2>4, <2>5, <2>6 DEF JobIsRight
    <3>. QED
      BY <2>6, <3>1 DEF JobsAreRight, JobIsRight
  <2>10. SearchIsRight' /\ RecordsAreRight'
    BY <1>1, <2>1 DEF IInv, SearchIsRight, RecordsAreRight, BeingWritten
  <2>. QED
    BY <2>7, <2>8, <2>9, <2>10 DEF IInv
<1>. QED
  BY <1>2, <1>3
\* What a step of a thread on its own leaves to show: the thread's job, the index and the records.
LEMMA OwnStepIInv ==
  ASSUME Locked, IInv, NEW t \in Threads, pc[t] # "idle",
         UNCHANGED <<lastId, calls, holder, logged, search>>,
         pc' \in [Threads -> {"idle", "invoked", "numbered", "stepped", "indexed", "writing"}],
         job' \in [Threads -> [call: CallIds \cup {None}, handle: Handles \cup {None},
                              id: Nat \cup {None}, slot: Slots \cup {None}]],
         data' \in [Slots -> Records],
         index' \in Slots \cup {-1},
         \A u \in Threads \ {t} : pc'[u] = pc[u] /\ job'[u] = job[u],
         JobIsRight(t)',
         RecordsAreRight'
  PROVE IInv'
<1>1. holder = t /\ \A u \in Threads \ {t} : pc[u] = "idle"
  BY DEF IInv, Exclusive
<1>2. TypeOK'
  BY DEF IInv, TypeOK
<1>3. Exclusive'
  BY <1>1 DEF Exclusive
<1>4. JobsAreRight'
  BY <1>1 DEF JobsAreRight, JobIsRight
<1>5. SearchIsRight'
  BY DEF IInv, SearchIsRight
<1>. QED
  BY <1>2, <1>3, <1>4, <1>5 DEF IInv

\* Loading and storing the index writes no record.
LEMMA IndexIInv ==
  ASSUME Locked, IInv, NEW t \in Threads, LoadIndex(t) \/ StoreIndex(t)
  PROVE IInv'
<1>1. \A u \in Threads \ {t} : pc[u] = "idle"
  BY DEF IInv, Exclusive, LoadIndex, StoreIndex
<1>2. /\ pc \in [Threads -> {"idle", "invoked", "numbered", "stepped", "indexed", "writing"}]
      /\ job \in [Threads -> [call: CallIds \cup {None}, handle: Handles \cup {None},
                             id: Nat \cup {None}, slot: Slots \cup {None}]]
      /\ data \in [Slots -> Records] /\ index \in Slots \cup {-1}
  BY DEF IInv, TypeOK
<1>3. job[t] \in [call: CallIds \cup {None}, handle: Handles \cup {None},
                  id: Nat \cup {None}, slot: Slots \cup {None}]
  BY <1>2
<1>4. JobIsRight(t)
  BY DEF IInv, JobsAreRight
<1>5. CASE LoadIndex(t)
  <2>1. NextSlot(index) \in Slots
    BY <1>2, SlotInRing
  <2>2. pc' \in [Threads -> {"idle", "invoked", "numbered", "stepped", "indexed", "writing"}]
        /\ pc'[t] = "stepped" /\ \A u \in Threads \ {t} : pc'[u] = pc[u]
    BY <1>2, <1>5 DEF LoadIndex
  <2>3. job' \in [Threads -> [call: CallIds \cup {None}, handle: Handles \cup {None},
                             id: Nat \cup {None}, slot: Slots \cup {None}]]
        /\ job'[t] = [job[t] EXCEPT !.slot = NextSlot(index)]
        /\ \A u \in Threads \ {t} : job'[u] = job[u]
    BY <1>2, <1>3, <1>5, <2>1 DEF LoadIndex
  <2>4. JobIsRight(t)'
    BY <1>3, <1>4, <1>5, <2>1, <2>2, <2>3 DEF JobIsRight, LoadIndex, callVars
  <2>5. RecordsAreRight'
    <3>1. data' = data /\ calls' = calls /\ pc[t] = "numbered"
      BY <1>5 DEF LoadIndex, callVars
    <3>. QED
      BY <1>1, <3>1 DEF IInv, RecordsAreRight, BeingWritten
  <2>. QED
    BY <1>2, <1>5, <2>2, <2>3, <2>4, <2>5, OwnStepIInv DEF LoadIndex, callVars
<1>6. CASE StoreIndex(t)
  <2>1. job[t].slot \in Slots
    BY <1>4, <1>6 DEF JobIsRight, StoreIndex
  <2>2. pc' \in [Threads -> {"idle", "invoked", "numbered", "stepped", "indexed", "writing"}]
        /\ pc'[t] = "indexed" /\ \A u \in Threads \ {t} : pc'[u] = pc[u]
    BY <1>2, <1>6 DEF StoreIndex
  <2>3. JobIsRight(t)'
    BY <1>4, <1>6, <2>1, <2>2 DEF JobIsRight, StoreIndex, callVars
  <2>4. RecordsAreRight'
    <3>1. data' = data /\ calls' = calls /\ pc[t] = "stepped"
      BY <1>6 DEF StoreIndex, callVars
    <3>. QED
      BY <1>1, <3>1 DEF IInv, RecordsAreRight, BeingWritten
  <2>. QED
    BY <1>2, <1>6, <2>1, <2>2, <2>3, <2>4, OwnStepIInv DEF StoreIndex, callVars
<1>. QED
  BY <1>5, <1>6
\* The record is written in two steps; it is right again when the second one is done.
LEMMA AssignCallIInv ==
  ASSUME Locked, IInv, NEW t \in Threads, AssignCall(t)
  PROVE IInv'
<1>1. \A u \in Threads \ {t} : pc[u] = "idle"
  BY DEF IInv, Exclusive, AssignCall
<1>2. /\ pc \in [Threads -> {"idle", "invoked", "numbered", "stepped", "indexed", "writing"}]
      /\ job \in [Threads -> [call: CallIds \cup {None}, handle: Handles \cup {None},
                             id: Nat \cup {None}, slot: Slots \cup {None}]]
      /\ data \in [Slots -> Records] /\ index \in Slots \cup {-1}
  BY DEF IInv, TypeOK
<1>3. job[t] \in [call: CallIds \cup {None}, handle: Handles \cup {None},
                  id: Nat \cup {None}, slot: Slots \cup {None}]
  BY <1>2
<1>4. JobIsRight(t) /\ index \in Slots
  BY DEF IInv, JobsAreRight, JobIsRight, AssignCall
<1>5. pc' \in [Threads -> {"idle", "invoked", "numbered", "stepped", "indexed", "writing"}]
      /\ pc'[t] = "writing" /\ \A u \in Threads \ {t} : pc'[u] = pc[u]
  BY <1>2 DEF AssignCall
<1>6. job' \in [Threads -> [call: CallIds \cup {None}, handle: Handles \cup {None},
                           id: Nat \cup {None}, slot: Slots \cup {None}]]
      /\ job'[t] = [job[t] EXCEPT !.slot = index]
      /\ \A u \in Threads \ {t} : job'[u] = job[u]
  BY <1>2, <1>3, <1>4 DEF AssignCall
<1>7. /\ data' \in [Slots -> Records]
      /\ \A s \in Slots \ {index} : data'[s] = data[s]
      /\ data'[index].call = job[t].call
  BY <1>2, <1>3, <1>4 DEF AssignCall, Records
<1>8. JobIsRight(t)'
  BY <1>3, <1>4, <1>5, <1>6, <1>7 DEF JobIsRight, AssignCall, callVars
<1>9. RecordsAreRight'
  <2>. SUFFICES ASSUME NEW s \in Slots, data'[s].call # None, ~BeingWritten(s)'
                PROVE data'[s].call \in DOMAIN calls' /\ data'[s].id = calls'[data'[s].call].id
    BY DEF RecordsAreRight
  <2>1. s # index
    BY <1>3, <1>5, <1>6 DEF BeingWritten
  <2>2. data'[s] = data[s] /\ calls' = calls
    BY <1>7, <2>1 DEF AssignCall, callVars
  <2>3. ~BeingWritten(s)
    BY <1>1 DEF BeingWritten, AssignCall
  <2>. QED
    BY <2>2, <2>3 DEF IInv, RecordsAreRight
<1>. QED
  BY <1>2, <1>5, <1>6, <1>7, <1>8, <1>9, OwnStepIInv DEF AssignCall, callVars

\* The packet number completes a record: it is the number of the call assigned just before.
LEMMA AssignIdIInv ==
  ASSUME Locked, IInv, NEW t \in Threads, AssignId(t)
  PROVE IInv'
<1>1. \A u \in Threads \ {t} : pc[u] = "idle"
  BY DEF IInv, Exclusive, AssignId
<1>2. data \in [Slots -> Records] /\ logged \in Seq(CallIds)
  BY DEF IInv, TypeOK
<1>3. job[t] \in [call: CallIds \cup {None}, handle: Handles \cup {None},
                  id: Nat \cup {None}, slot: Slots \cup {None}]
  BY DEF IInv, TypeOK
<1>4. calls \in Seq([handle: Handles, id: Nat]) /\ Len(calls) <= MaxCalls
  BY DEF IInv, TypeOK
<1>5. /\ job[t].slot \in Slots
      /\ job[t].call \in DOMAIN calls
      /\ job[t].id = calls[job[t].call].id
  BY DEF IInv, JobsAreRight, JobIsRight, AssignId
<1>6. job[t].call \in 1..Len(calls)
  BY <1>4, <1>5, LenProperties
<1>7. job[t].call \in CallIds /\ job[t].id \in Nat
  <2>1. Len(calls) \in Nat /\ MaxCalls \in Nat
    BY <1>4, LenProperties, TrackerConstants
  <2>2. calls[job[t].call] \in [handle: Handles, id: Nat]
    BY <1>4, <1>6, ElementOfSeq
  <2>. QED
    BY <1>4, <1>5, <1>6, <2>1, <2>2 DEF CallIds
<1>8. /\ pc' \in [Threads -> {"idle", "invoked", "numbered", "stepped", "indexed", "writing"}]
      /\ job' \in [Threads -> [call: CallIds \cup {None}, handle: Handles \cup {None},
                              id: Nat \cup {None}, slot: Slots \cup {None}]]
      /\ holder' \in Threads \cup {None}
      /\ \A u \in Threads : pc'[u] = "idle"
      /\ Exclusive' /\ JobsAreRight'
  BY ReleaseIInv DEF AssignId
<1>9. TypeOK'
  <2>1. data' \in [Slots -> Records]
    BY <1>2, <1>5, <1>7 DEF AssignId, Records
  <2>2. logged' \in Seq(CallIds)
    BY <1>2, <1>7 DEF AssignId
  <2>. QED
    BY <1>8, <2>1, <2>2 DEF IInv, TypeOK, AssignId
<1>10. SearchIsRight'
  BY DEF IInv, SearchIsRight, AssignId
<1>11. RecordsAreRight'
  <2>. SUFFICES ASSUME NEW s \in Slots, data'[s].call # None
                PROVE data'[s].call \in DOMAIN calls' /\ data'[s].id = calls'[data'[s].call].id
    BY DEF RecordsAreRight
  <2>1. calls' = calls
    BY DEF AssignId
  <2>2. CASE s # job[t].slot
    <3>1. ~BeingWritten(s) /\ data'[s] = data[s]
      BY <1>1, <1>2, <1>5, <2>2 DEF BeingWritten, AssignId
    <3>. QED
      BY <2>1, <3>1 DEF IInv, RecordsAreRight
  <2>3. CASE s = job[t].slot
    <3>1. data'[s].call = data[s].call /\ data'[s].id = job[t].id
      BY <1>2, <1>5, <2>3 DEF AssignId, Records
    <3>2. data[s].call = job[t].call
      BY <2>3 DEF IInv, JobsAreRight, JobIsRight, AssignId
    <3>. QED
      BY <1>5, <2>1, <3>1, <3>2
  <2>. QED
    BY <2>2, <2>3
<1>. QED
  BY <1>8, <1>9, <1>10, <1>11 DEF IInv
\* The dispatch thread only reads.
LEMMA SearchIInv ==
  ASSUME Locked, IInv, Compare \/ Report \/ Finish \/ \E k \in CallIds : Exception(k)
  PROVE IInv'
<1>1. UNCHANGED <<lastId, calls, holder, data, index, pc, job, logged>>
  BY DEF Compare, Report, Finish, Exception, callVars
<1>2. Exclusive' /\ JobsAreRight' /\ RecordsAreRight'
  BY <1>1 DEF IInv, Exclusive, JobsAreRight, JobIsRight, RecordsAreRight, BeingWritten
<1>. DEFINE Searches == [at: {"idle", "searching", "found", "reported"}, call: CallIds \cup {None},
                         known: BOOLEAN, slot: Slots \cup {None}, end: Slots \cup {None},
                         reported: CallIds \cup {None}]
<1>3. search \in Searches /\ data \in [Slots -> Records] /\ index \in Slots \cup {-1}
  BY DEF IInv, TypeOK
<1>4. search' \in Searches /\ SearchIsRight'
  <2>1. CASE Compare
    <3>1. search.slot \in Slots /\ search.call \in DOMAIN calls
      BY <2>1 DEF Compare, IInv, SearchIsRight
    <3>2. NextSlot(search.slot) \in Slots
      BY <3>1, SlotInRing
    <3>. QED
      BY <1>1, <1>3, <2>1, <3>1, <3>2 DEF Compare, SearchIsRight
  <2>2. CASE Report
    <3>1. search.slot \in Slots
      BY <2>2 DEF Report, IInv, SearchIsRight
    <3>2. data[search.slot].call \in CallIds \cup {None}
      BY <1>3, <3>1 DEF Records
    <3>. QED
      BY <1>3, <2>2, <3>2 DEF Report, SearchIsRight
  <2>3. CASE Finish
    BY <2>3 DEF Finish, NoSearch, SearchIsRight
  <2>4. ASSUME NEW k \in CallIds, Exception(k) PROVE search' \in Searches /\ SearchIsRight'
    <3>1. Start \in Slots
      BY <1>3, SlotInRing
    <3>. DEFINE known == \E n \in DOMAIN logged : logged[n] = k
    <3>2. search' = [at |-> "searching", call |-> k, known |-> known, slot |-> Start,
                     end |-> Start, reported |-> None]
      BY <2>4 DEF Exception, NoSearch
    <3>3. k \in DOMAIN calls' /\ known \in BOOLEAN
      BY <1>1, <2>4 DEF Exception
    <3>. HIDE DEF known
    <3>. QED
      BY <3>1, <3>2, <3>3 DEF SearchIsRight
  <2>. QED
    BY <2>1, <2>2, <2>3, <2>4
<1>5. TypeOK'
  BY <1>1, <1>4 DEF IInv, TypeOK
<1>. QED
  BY <1>2, <1>4, <1>5 DEF IInv

\* Every step of a process which makes its calls through the proxy keeps the invariant.
LEMMA NextIInv == ASSUME Locked, IInv, [Next]_vars PROVE IInv'
<1>1. CASE UNCHANGED vars
  BY <1>1 DEF vars, IInv, TypeOK, Exclusive, JobsAreRight, JobIsRight, SearchIsRight,
              RecordsAreRight, BeingWritten
<1>2. ASSUME NEW t \in Threads, AddRequestRecord(t) PROVE IInv'
  BY <1>2, GetLastSentPacketIDIInv, IndexIInv, AssignCallIInv, AssignIdIInv DEF AddRequestRecord
<1>3. ASSUME NEW t \in Threads, NEW h \in Handles, Invoke(t, h) PROVE IInv'
  BY <1>3, InvokeIInv
<1>4. CASE Compare \/ Report \/ Finish \/ \E k \in CallIds : Exception(k)
  BY <1>4, SearchIInv
<1>. QED
  BY <1>1, <1>2, <1>3, <1>4 DEF Next

\* The strengthened invariant holds in every state of a process which makes its calls through the proxy.
THEOREM TrackerInvariance == Locked => (Spec => []IInv)
<1>. SUFFICES ASSUME Locked PROVE Spec => []IInv
  OBVIOUS
<1>1. IInv /\ [Next]_vars => IInv'
  BY NextIInv
<1>. QED
  BY <1>1, InitIInv, PTL DEF Spec

\* Every record which is not being written holds the packet number of the call it names, for any
\* number of threads, handles and records.
THEOREM RecordsStayRight == Locked => (Spec => []RecordsAreRight)
<1>. SUFFICES ASSUME Locked PROVE Spec => []RecordsAreRight
  OBVIOUS
<1>1. IInv => RecordsAreRight
  BY DEF IInv
<1>2. Spec => []IInv
  BY TrackerInvariance
<1>. QED
  BY <1>1, <1>2, PTL

\* The index and every slot a thread or a search holds stay inside the ring.
THEOREM TrackerTypeCorrect == Locked => (Spec => []TypeOK)
<1>. SUFFICES ASSUME Locked PROVE Spec => []TypeOK
  OBVIOUS
<1>1. IInv => TypeOK
  BY DEF IInv
<1>2. Spec => []IInv
  BY TrackerInvariance
<1>. QED
  BY <1>1, <1>2, PTL

--------------------------------------------------------------------------------
\* A recent call is found.  The index says which record is in which slot, so that nothing needs to be
\* known of the order in which the slots were filled.

OneHandle == \A g, h \in Handles : g = h

\* With one connection the packets are numbered like the calls, so that a number is of one call only.
NumbersAreUnique ==
    /\ \A h \in Handles : lastId[h] = Len(calls)
    /\ \A k \in DOMAIN calls : calls[k].id = k

\* A call is recorded at most once, and not before its thread has completed the record.
LoggedOnce ==
    /\ \A n \in DOMAIN logged : logged[n] \in DOMAIN calls
    /\ \A m, n \in DOMAIN logged : logged[m] = logged[n] => m = n
    /\ \A t \in Threads : pc[t] # "idle" => \A n \in DOMAIN logged : logged[n] # job[t].call

\* A thread has the slot after the index, until it stores it.
SlotsFollow ==
    \A t \in Threads : /\ pc[t] = "stepped" => job[t].slot = NextSlot(index)
                       /\ pc[t] = "writing" => job[t].slot = index

\* The records whose slot has been taken: those completed and the one which is being written.
Underway == \E t \in Threads : pc[t] \in {"indexed", "writing"}
Begun == IF Underway THEN Len(logged) + 1 ELSE Len(logged)

\* How many slots s is behind the index, hence the number of the record which s was last taken for.
Age(s) == IF s <= index THEN index - s ELSE index - s + MaxRecords
Nth(s) == Begun - Age(s)

\* The number of the last record completed in s: the slot that was just taken keeps the packet number
\* of the record it had a round ago.
Completed(s) == IF Nth(s) > Len(logged) THEN Nth(s) - MaxRecords ELSE Nth(s)

SlotIsInOrder(s) ==
    /\ Nth(s) \in DOMAIN logged => data[s].call = logged[Nth(s)]
    /\ Completed(s) \in DOMAIN logged => data[s].id = calls[logged[Completed(s)]].id
    /\ Completed(s) \notin DOMAIN logged => data[s].id = None

RingIsInOrder == \A s \in Slots : SlotIsInOrder(s)

\* How far a search that began in slot e has to go to s.
Ahead(e, s) == IF e <= s THEN s - e ELSE s - e + MaxRecords

\* Record n is the one that the search is for, and is recent.
IsSought(n) == logged[n] = search.call /\ n > Len(logged) - (MaxRecords - 1)

\* A search has not passed the slot of a recent call, and what it found is that slot.
SearchIsOnTrack ==
    search.known =>
        /\ search.at # "idle" => \E n \in DOMAIN logged : logged[n] = search.call
        /\ search.at = "searching" =>
             /\ search.end \in Slots
             /\ \A n \in DOMAIN logged : \A s \in Slots :
                  IsSought(n) /\ Nth(s) = n => Ahead(search.end, search.slot) <= Ahead(search.end, s)
        /\ search.at = "found" => \A n \in DOMAIN logged : IsSought(n) => Nth(search.slot) = n

RingInv == NumbersAreUnique /\ LoggedOnce /\ SlotsFollow /\ RingIsInOrder /\ SearchIsOnTrack
              /\ RecentCallIsReported

\* What the ring looks like, as far as it is used below.
LEMMA RingTypes ==
  ASSUME IInv
  PROVE /\ data \in [Slots -> Records] /\ index \in Slots \cup {-1} /\ Slots = 0..(MaxRecords - 1)
        /\ MaxRecords \in Nat \ {0}
        /\ logged \in Seq(CallIds) /\ Len(logged) \in Nat /\ DOMAIN logged = 1..Len(logged)
        /\ calls \in Seq([handle: Handles, id: Nat]) /\ DOMAIN calls = 1..Len(calls)
        /\ Len(calls) \in Nat /\ Begun \in {Len(logged), Len(logged) + 1}
<1>1. logged \in Seq(CallIds) /\ calls \in Seq([handle: Handles, id: Nat])
  BY DEF IInv, TypeOK
<1>2. Len(logged) \in Nat /\ DOMAIN logged = 1..Len(logged)
  BY <1>1, LenProperties
<1>3. Len(calls) \in Nat /\ DOMAIN calls = 1..Len(calls)
  BY <1>1, LenProperties
<1>. QED
  BY <1>1, <1>2, <1>3, TrackerConstants DEF IInv, TypeOK, Slots, Begun

\* The slot after the index, without the remainder.
LEMMA NextSlotIs ==
  \A i \in Slots \cup {-1} : NextSlot(i) = IF i = MaxRecords - 1 THEN 0 ELSE i + 1
<1>. SUFFICES ASSUME NEW i \in Slots \cup {-1}
              PROVE NextSlot(i) = IF i = MaxRecords - 1 THEN 0 ELSE i + 1
  OBVIOUS
<1>1. MaxRecords \in Nat \ {0} /\ i \in -1..(MaxRecords - 1)
  BY TrackerConstants DEF Slots
<1>2. CASE i = MaxRecords - 1
  BY <1>1, <1>2 DEF NextSlot
<1>3. CASE i # MaxRecords - 1
  BY <1>1, <1>3 DEF NextSlot
<1>. QED
  BY <1>2, <1>3

\* A slot is no further behind the index than the ring is long, and every distance is that of one slot.
LEMMA AgeInRing ==
  ASSUME index \in Slots \cup {-1}
  PROVE /\ \A s \in Slots : Age(s) \in 0..(MaxRecords - 1)
        /\ \A r, s \in Slots : Age(r) = Age(s) => r = s
        /\ \A a \in 0..(MaxRecords - 1) : \E s \in Slots : Age(s) = a
<1>1. MaxRecords \in Nat \ {0} /\ index \in -1..(MaxRecords - 1) /\ Slots = 0..(MaxRecords - 1)
  BY TrackerConstants DEF Slots
<1>2. \A s \in Slots : Age(s) \in 0..(MaxRecords - 1)
  BY <1>1 DEF Age
<1>3. \A r, s \in Slots : Age(r) = Age(s) => r = s
  BY <1>1 DEF Age
<1>4. ASSUME NEW a \in 0..(MaxRecords - 1) PROVE \E s \in Slots : Age(s) = a
  <2>1. CASE a <= index
    <3>1. index - a \in Slots /\ Age(index - a) = a
      BY <1>1, <2>1 DEF Age
    <3>. QED
      BY <3>1
  <2>2. CASE a > index
    <3>1. index - a + MaxRecords \in Slots /\ Age(index - a + MaxRecords) = a
      BY <1>1, <2>2 DEF Age
    <3>. QED
      BY <3>1
  <2>. QED
    BY <1>1, <2>1, <2>2
<1>. QED
  BY <1>2, <1>3, <1>4

\* When the index is stepped, every slot is one further behind it but the one it comes to.
LEMMA AgeSteps ==
  ASSUME index \in Slots \cup {-1}, index' = NextSlot(index)
  PROVE /\ index' \in Slots
        /\ \A s \in Slots : s = index' => Age(s) = MaxRecords - 1 /\ Age(s)' = 0
        /\ \A s \in Slots : s # index' => Age(s)' = Age(s) + 1
<1>1. MaxRecords \in Nat \ {0} /\ index \in -1..(MaxRecords - 1) /\ Slots = 0..(MaxRecords - 1)
  BY TrackerConstants DEF Slots
<1>2. index' = IF index = MaxRecords - 1 THEN 0 ELSE index + 1
  BY NextSlotIs
<1>3. index' \in Slots
  BY <1>1, <1>2
<1>4. \A s \in Slots : s = index' => Age(s) = MaxRecords - 1
  BY <1>1, <1>2, <1>3 DEF Age
<1>5. \A s \in Slots : s = index' => Age(s)' = 0
  BY <1>1, <1>3 DEF Age
<1>6. \A s \in Slots : s # index' => Age(s)' = Age(s) + 1
  BY <1>1, <1>2 DEF Age
<1>. QED
  BY <1>3, <1>4, <1>5, <1>6

\* A search that has not come round goes one slot further.
LEMMA AheadSteps ==
  ASSUME NEW e \in Slots, NEW s \in Slots
  PROVE /\ NextSlot(s) # e => Ahead(e, NextSlot(s)) = Ahead(e, s) + 1
        /\ NextSlot(s) = e => Ahead(e, s) = MaxRecords - 1
        /\ Ahead(e, e) = 0
        /\ \A r \in Slots : /\ Ahead(e, r) \in 0..(MaxRecords - 1)
                            /\ Ahead(e, r) = Ahead(e, s) => r = s
<1>1. MaxRecords \in Nat \ {0} /\ e \in 0..(MaxRecords - 1) /\ s \in 0..(MaxRecords - 1)
      /\ Slots = 0..(MaxRecords - 1)
  BY TrackerConstants DEF Slots
<1>2. NextSlot(s) = IF s = MaxRecords - 1 THEN 0 ELSE s + 1
  BY NextSlotIs
<1>3. NextSlot(s) # e => Ahead(e, NextSlot(s)) = Ahead(e, s) + 1
  BY <1>1, <1>2 DEF Ahead
<1>4. NextSlot(s) = e => Ahead(e, s) = MaxRecords - 1
  BY <1>1, <1>2 DEF Ahead
<1>5. Ahead(e, e) = 0
  BY <1>1 DEF Ahead
<1>6. \A r \in Slots : Ahead(e, r) \in 0..(MaxRecords - 1) /\ (Ahead(e, r) = Ahead(e, s) => r = s)
  BY <1>1 DEF Ahead
<1>. QED
  BY <1>3, <1>4, <1>5, <1>6
\* Nothing is recorded at first.
LEMMA InitRing == ASSUME OneHandle, Init PROVE RingInv
<1>1. calls = <<>> /\ logged = <<>> /\ Len(calls) = 0 /\ Len(logged) = 0
      /\ DOMAIN calls = {} /\ DOMAIN logged = {} /\ search = NoSearch
  BY DEF Init
<1>2. NumbersAreUnique /\ LoggedOnce /\ SlotsFollow
  BY <1>1 DEF Init, NumbersAreUnique, LoggedOnce, SlotsFollow
<1>3. RingIsInOrder
  BY <1>1 DEF Init, RingIsInOrder, SlotIsInOrder
<1>4. SearchIsOnTrack /\ RecentCallIsReported
  BY <1>1 DEF SearchIsOnTrack, RecentCallIsReported, NoSearch
<1>. QED
  BY <1>2, <1>3, <1>4 DEF RingInv

\* A record stays where it is, and so does a search, while no slot is taken and no record completed.
LEMMA QuietRing ==
  ASSUME IInv, RingInv, UNCHANGED <<data, index, logged, search>>, Begun' = Begun,
         \A k \in DOMAIN calls : k \in DOMAIN calls' /\ calls'[k] = calls[k],
         NumbersAreUnique', LoggedOnce', SlotsFollow'
  PROVE RingInv'
<1>2. \A s \in Slots : Age(s)' = Age(s) /\ Nth(s)' = Nth(s) /\ Completed(s)' = Completed(s)
  BY DEF Age, Nth, Completed
<1>3. RingIsInOrder'
  <2>. SUFFICES ASSUME NEW s \in Slots PROVE SlotIsInOrder(s)'
    BY DEF RingIsInOrder
  <2>1. SlotIsInOrder(s)
    BY DEF RingInv, RingIsInOrder
  <2>2. \A n \in DOMAIN logged : calls'[logged[n]] = calls[logged[n]]
    BY DEF RingInv, LoggedOnce
  <2>. QED
    BY ONLY <1>2, <2>1, <2>2, data' = data, logged' = logged DEF SlotIsInOrder
<1>4. SearchIsOnTrack'
  <2>1. search.at = "found" => search.slot \in Slots
    BY DEF IInv, SearchIsRight
  <2>2. SearchIsOnTrack
    BY DEF RingInv
  <2>. QED
    BY ONLY <1>2, <2>1, <2>2, search' = search, logged' = logged DEF SearchIsOnTrack, IsSought
<1>5. RecentCallIsReported'
  BY DEF RingInv, RecentCallIsReported, Recent
<1>. QED
  BY <1>3, <1>4, <1>5 DEF RingInv

\* A call gets the number that follows that of the call before.
LEMMA InvokeRing ==
  ASSUME Locked, OneHandle, IInv, RingInv, NEW t \in Threads, NEW h \in Handles, Invoke(t, h)
  PROVE RingInv'
<1>. USE DEF Invoke
<1>1. /\ lastId \in [Handles -> Nat] /\ calls \in Seq([handle: Handles, id: Nat])
      /\ Len(calls) \in Nat
  BY DEF IInv, TypeOK
<1>2. /\ \A k \in DOMAIN calls : k \in DOMAIN calls' /\ calls'[k] = calls[k]
      /\ DOMAIN calls' = DOMAIN calls \cup {Len(calls) + 1} /\ Len(calls') = Len(calls) + 1
      /\ calls'[Len(calls) + 1] = [handle |-> h, id |-> lastId[h] + 1]
      /\ Len(calls) + 1 \notin DOMAIN calls
  BY <1>1
<1>3. \A u \in Threads : pc[u] = "idle"
  BY TrackerConstants DEF IInv, Exclusive
<1>4. job'[t].call = Len(calls) + 1 /\ pc'[t] = "invoked"
      /\ \A u \in Threads \ {t} : pc'[u] = "idle"
  BY <1>3 DEF IInv, TypeOK
<1>5. NumbersAreUnique'
  <2>1. \A g \in Handles : lastId'[g] = Len(calls')
    BY <1>1, <1>2 DEF OneHandle, RingInv, NumbersAreUnique
  <2>2. \A k \in DOMAIN calls' : calls'[k].id = k
    BY <1>2 DEF RingInv, NumbersAreUnique
  <2>. QED
    BY <2>1, <2>2 DEF NumbersAreUnique
<1>6. LoggedOnce'
  <2>1. LoggedOnce
    BY DEF RingInv
  <2>. QED
    BY <1>2, <1>4, <2>1 DEF LoggedOnce
<1>7. SlotsFollow'
  BY <1>4 DEF SlotsFollow
<1>8. Begun' = Begun
  BY <1>3, <1>4 DEF Begun, Underway
<1>. QED
  BY <1>2, <1>5, <1>6, <1>7, <1>8, QuietRing

\* Reading the packet number, or giving up when it fails, touches neither the index nor a record.
LEMMA NumberRing ==
  ASSUME Locked, IInv, RingInv, NEW t \in Threads, GetLastSentPacketID(t) \/ LoadIndex(t)
  PROVE RingInv'
<1>1. \A u \in Threads \ {t} : pc[u] = "idle"
  BY DEF IInv, Exclusive, GetLastSentPacketID, LoadIndex
<1>2. UNCHANGED <<lastId, calls, data, index, logged, search>>
  BY DEF GetLastSentPacketID, LoadIndex, callVars
<1>3. pc[t] \in {"invoked", "numbered"}
  BY DEF GetLastSentPacketID, LoadIndex
<1>4. /\ \A u \in Threads \ {t} : pc'[u] = "idle"
      /\ \/ pc'[t] = "idle"
         \/ pc'[t] = "numbered" /\ job'[t].call = job[t].call
         \/ pc'[t] = "stepped" /\ job'[t].call = job[t].call /\ job'[t].slot = NextSlot(index)
  <2>1. CASE GetLastSentPacketID(t)
    BY <1>1, <2>1 DEF GetLastSentPacketID, Release, IInv, TypeOK
  <2>2. CASE LoadIndex(t)
    BY <1>1, <2>2 DEF LoadIndex, IInv, TypeOK
  <2>. QED
    BY <2>1, <2>2
<1>5. NumbersAreUnique'
  BY <1>2 DEF RingInv, NumbersAreUnique
<1>6. LoggedOnce'
  <2>1. LoggedOnce
    BY DEF RingInv
  <2>. QED
    BY <1>2, <1>3, <1>4, <2>1 DEF LoggedOnce
<1>7. SlotsFollow'
  BY <1>2, <1>4 DEF SlotsFollow
<1>8. Begun' = Begun
  BY <1>1, <1>2, <1>3, <1>4 DEF Begun, Underway
<1>. QED
  BY <1>2, <1>5, <1>6, <1>7, <1>8, QuietRing

\* The slot that is taken was taken last a round ago, and still has the packet number from then.
LEMMA StoreIndexRing ==
  ASSUME Locked, IInv, RingInv, NEW t \in Threads, StoreIndex(t)
  PROVE RingInv'
<1>1. \A u \in Threads \ {t} : pc[u] = "idle" /\ pc'[u] = "idle"
  BY DEF IInv, Exclusive, StoreIndex, TypeOK
<1>2. UNCHANGED <<lastId, calls, data, logged, search, job>> /\ index' = NextSlot(index)
  BY DEF StoreIndex, callVars, RingInv, SlotsFollow
<1>3. pc[t] = "stepped" /\ pc'[t] = "indexed"
  BY DEF StoreIndex, IInv, TypeOK
<1>4. Begun = Len(logged) /\ Begun' = Len(logged) + 1
  BY <1>1, <1>2, <1>3 DEF Begun, Underway
<1>5. /\ index \in Slots \cup {-1} /\ Len(logged) \in Nat /\ DOMAIN logged = 1..Len(logged)
      /\ MaxRecords \in Nat \ {0}
  BY RingTypes
<1>6. /\ \A s \in Slots : s = index' => Nth(s) = Len(logged) + 1 - MaxRecords /\ Nth(s)' = Len(logged) + 1
      /\ \A s \in Slots : s # index' => Nth(s)' = Nth(s)
      /\ \A s \in Slots : Nth(s) \in Int /\ Nth(s) <= Len(logged)
  <2>1. \A s \in Slots : Age(s) \in 0..(MaxRecords - 1)
    BY <1>5, AgeInRing
  <2>2. /\ \A s \in Slots : s = index' => Age(s) = MaxRecords - 1 /\ Age(s)' = 0
        /\ \A s \in Slots : s # index' => Age(s)' = Age(s) + 1
    BY <1>2, <1>5, AgeSteps
  <2>. QED
    BY ONLY <1>4, <1>5, <2>1, <2>2 DEF Nth
<1>7. \A s \in Slots : Completed(s)' = Completed(s)
  BY <1>2, <1>5, <1>6 DEF Completed
<1>8. NumbersAreUnique' /\ LoggedOnce' /\ SlotsFollow'
  BY <1>1, <1>2, <1>3 DEF RingInv, NumbersAreUnique, LoggedOnce, SlotsFollow
<1>9. RingIsInOrder'
  <2>. SUFFICES ASSUME NEW s \in Slots PROVE SlotIsInOrder(s)'
    BY DEF RingIsInOrder
  <2>1. SlotIsInOrder(s)
    BY DEF RingInv, RingIsInOrder
  <2>2. Nth(s)' \in DOMAIN logged => Nth(s)' = Nth(s)
    BY <1>5, <1>6
  <2>. QED
    BY ONLY <1>2, <1>7, <2>1, <2>2 DEF SlotIsInOrder
<1>10. SearchIsOnTrack'
  <2>1. search.at = "found" => search.slot \in Slots
    BY DEF IInv, SearchIsRight
  <2>2. SearchIsOnTrack
    BY DEF RingInv
  <2>3. \A n \in DOMAIN logged : \A s \in Slots : Nth(s)' = n => Nth(s) = n
    BY <1>5, <1>6
  <2>4. \A n \in DOMAIN logged : \A s \in Slots : IsSought(n) /\ Nth(s) = n => Nth(s)' = n
    BY <1>5, <1>6 DEF IsSought
  <2>. QED
    BY ONLY <1>2, <2>1, <2>2, <2>3, <2>4 DEF SearchIsOnTrack, IsSought
<1>11. RecentCallIsReported'
  BY <1>2 DEF RingInv, RecentCallIsReported, Recent
<1>. QED
  BY <1>8, <1>9, <1>10, <1>11 DEF RingInv
\* The first half of a record goes to the slot just taken, which no completed record is looked for in.
LEMMA AssignCallRing ==
  ASSUME Locked, IInv, RingInv, NEW t \in Threads, AssignCall(t)
  PROVE RingInv'
<1>1. \A u \in Threads \ {t} : pc[u] = "idle" /\ pc'[u] = "idle" /\ job'[u] = job[u]
  BY DEF IInv, Exclusive, AssignCall, TypeOK
<1>2. UNCHANGED <<lastId, calls, index, logged, search>>
  BY DEF AssignCall, callVars
<1>3. pc[t] = "indexed" /\ pc'[t] = "writing" /\ job'[t].call = job[t].call /\ job'[t].slot = index
  BY DEF AssignCall, IInv, TypeOK
<1>4. Begun = Len(logged) + 1 /\ Begun' = Begun
  BY <1>2, <1>3 DEF Begun, Underway
<1>5. /\ index \in Slots /\ Len(logged) \in Nat /\ DOMAIN logged = 1..Len(logged)
      /\ MaxRecords \in Nat \ {0} /\ data \in [Slots -> Records]
  BY RingTypes DEF IInv, JobsAreRight, JobIsRight, AssignCall
<1>6. \A s \in Slots : Nth(s)' = Nth(s) /\ Completed(s)' = Completed(s) /\ Age(s)' = Age(s)
  BY <1>2, <1>4 DEF Nth, Age, Completed
<1>7. Nth(index) = Len(logged) + 1
  BY <1>4, <1>5 DEF Nth, Age, Slots
<1>8. /\ \A s \in Slots : s # index => data'[s] = data[s]
      /\ data'[index].id = data[index].id
  BY <1>5 DEF AssignCall, Records
<1>9. NumbersAreUnique' /\ LoggedOnce' /\ SlotsFollow'
  BY <1>1, <1>2, <1>3 DEF RingInv, NumbersAreUnique, LoggedOnce, SlotsFollow
<1>10. RingIsInOrder'
  <2>. SUFFICES ASSUME NEW s \in Slots PROVE SlotIsInOrder(s)'
    BY DEF RingIsInOrder
  <2>1. SlotIsInOrder(s)
    BY DEF RingInv, RingIsInOrder
  <2>2. data'[s].id = data[s].id
    BY <1>8
  <2>3. Nth(s) \in DOMAIN logged => data'[s].call = data[s].call
    BY <1>5, <1>7, <1>8
  <2>. QED
    BY ONLY <1>2, <1>6, <2>1, <2>2, <2>3 DEF SlotIsInOrder
<1>11. SearchIsOnTrack'
  <2>1. search.at = "found" => search.slot \in Slots
    BY DEF IInv, SearchIsRight
  <2>2. SearchIsOnTrack
    BY DEF RingInv
  <2>. QED
    BY ONLY <1>2, <1>6, <2>1, <2>2 DEF SearchIsOnTrack, IsSought
<1>12. RecentCallIsReported'
  BY <1>2 DEF RingInv, RecentCallIsReported, Recent
<1>. QED
  BY <1>9, <1>10, <1>11, <1>12 DEF RingInv

\* The second half completes the record of a call that was not recorded before: what was recent and is
\* no longer concerns no search, and what a search is for was complete when it began.
LEMMA AssignIdRing ==
  ASSUME Locked, IInv, RingInv, NEW t \in Threads, AssignId(t)
  PROVE RingInv'
<1>1. \A u \in Threads : pc'[u] = "idle"
  BY ReleaseIInv DEF AssignId
<1>2. UNCHANGED <<lastId, calls, index, search>>
  BY DEF AssignId
<1>. DEFINE c == job[t].call  L == Len(logged)
<1>3. /\ pc[t] = "writing" /\ job[t].slot = index /\ index \in Slots
      /\ c \in DOMAIN calls /\ job[t].id = calls[c].id /\ data[index].call = c
      /\ \A n \in DOMAIN logged : logged[n] # c
  BY DEF IInv, JobsAreRight, JobIsRight, AssignId, RingInv, SlotsFollow, LoggedOnce
<1>4. /\ L \in Nat /\ DOMAIN logged = 1..L
      /\ MaxRecords \in Nat \ {0} /\ data \in [Slots -> Records] /\ logged \in Seq(CallIds)
  BY RingTypes
<1>5. c \in CallIds
  <2>1. Len(calls) \in Nat /\ MaxCalls \in Nat /\ Len(calls) <= MaxCalls /\ DOMAIN calls = 1..Len(calls)
    BY RingTypes, TrackerConstants DEF IInv, TypeOK
  <2>. QED
    BY <1>3, <2>1 DEF CallIds
<1>6. /\ logged' = Append(logged, c) /\ Len(logged') = L + 1 /\ DOMAIN logged' = 1..(L + 1)
      /\ \A n \in 1..L : logged'[n] = logged[n]
      /\ logged'[L + 1] = c
  BY <1>4, <1>5 DEF AssignId
<1>7. Begun = L + 1 /\ Begun' = Begun
  BY <1>1, <1>3, <1>6 DEF Begun, Underway
<1>. HIDE DEF c, L
<1>8. \A s \in Slots : Nth(s)' = Nth(s) /\ Age(s)' = Age(s)
  BY <1>2, <1>7 DEF Nth, Age
<1>9. /\ Nth(index) = L + 1
      /\ \A s \in Slots : Nth(s) \in Int /\ (s # index => Nth(s) <= L)
  <2>1. \A s \in Slots : Age(s) \in 0..(MaxRecords - 1) /\ (Age(s) = 0 => s = index) /\ Age(index) = 0
    BY <1>3, <1>4 DEF Age, Slots
  <2>. QED
    BY <1>2, <1>3, <1>4, <1>7, <2>1 DEF Nth, Age, Slots
<1>10. /\ \A s \in Slots : s # index => data'[s] = data[s]
       /\ data'[index] = [id |-> calls[c].id, call |-> c]
  BY <1>3, <1>4 DEF AssignId, Records
<1>11. NumbersAreUnique' /\ SlotsFollow'
  BY <1>1, <1>2 DEF RingInv, NumbersAreUnique, SlotsFollow
<1>12. LoggedOnce'
  <2>1. LoggedOnce
    BY DEF RingInv
  <2>2. \A n \in DOMAIN logged' : logged'[n] \in DOMAIN calls'
    BY <1>2, <1>3, <1>4, <1>6, <2>1 DEF LoggedOnce
  <2>3. \A m, n \in DOMAIN logged' : logged'[m] = logged'[n] => m = n
    BY <1>3, <1>4, <1>6, <2>1 DEF LoggedOnce
  <2>. QED
    BY <1>1, <2>2, <2>3 DEF LoggedOnce
<1>13. RingIsInOrder'
  <2>. SUFFICES ASSUME NEW s \in Slots PROVE SlotIsInOrder(s)'
    BY DEF RingIsInOrder
  <2>1. SlotIsInOrder(s)
    BY DEF RingInv, RingIsInOrder
  <2>2. CASE s = index
    <3>1. Nth(s)' = L + 1 /\ Completed(s)' = L + 1 /\ L + 1 \in DOMAIN logged'
      BY <1>4, <1>6, <1>8, <1>9, <2>2 DEF Completed
    <3>. QED
      BY ONLY <1>2, <1>6, <1>10, <2>2, <3>1 DEF SlotIsInOrder
  <2>3. CASE s # index
    <3>1. /\ Nth(s)' = Nth(s) /\ Completed(s)' = Nth(s) /\ Completed(s) = Nth(s)
          /\ (Nth(s) \in DOMAIN logged' <=> Nth(s) \in DOMAIN logged)
          /\ (Nth(s) \in DOMAIN logged => logged'[Nth(s)] = logged[Nth(s)])
      BY <1>4, <1>6, <1>8, <1>9, <2>3 DEF L, Completed
    <3>. QED
      BY ONLY <1>2, <1>10, <2>1, <2>3, <3>1 DEF SlotIsInOrder
  <2>. QED
    BY <2>2, <2>3
<1>14. ASSUME search.known, search.at # "idle", NEW n \in DOMAIN logged', IsSought(n)'
       PROVE n \in DOMAIN logged /\ IsSought(n)
  <2>1. PICK m \in DOMAIN logged : logged[m] = search.call
    BY <1>14 DEF RingInv, SearchIsOnTrack
  <2>2. n # L + 1
    BY <1>2, <1>3, <1>6, <1>14, <2>1 DEF IsSought
  <2>3. n \in 1..L /\ logged'[n] = logged[n]
    BY <1>4, <1>6, <2>2
  <2>4. n > L - (MaxRecords - 1)
    BY <1>4, <1>6, <1>14, <2>3 DEF IsSought
  <2>. QED
    BY <1>2, <1>4, <1>14, <2>3, <2>4 DEF IsSought, L
<1>15. SearchIsOnTrack'
  <2>1. search.at = "found" => search.slot \in Slots
    BY DEF IInv, SearchIsRight
  <2>2. SearchIsOnTrack
    BY DEF RingInv
  <2>3. search.known /\ search.at # "idle" => \E n \in DOMAIN logged' : logged'[n] = search.call
    BY <1>4, <1>6, <2>2 DEF SearchIsOnTrack
  <2>. QED
    BY ONLY <1>2, <1>8, <1>14, <2>1, <2>2, <2>3 DEF SearchIsOnTrack
<1>16. RecentCallIsReported'
  <2>. SUFFICES ASSUME search.at = "reported", search.known, Recent(search.call)'
                PROVE search.reported = search.call
    BY <1>2 DEF RecentCallIsReported
  <2>1. PICK n \in DOMAIN logged' : IsSought(n)'
    BY <1>2 DEF Recent, IsSought
  <2>2. n \in DOMAIN logged /\ IsSought(n)
    BY <1>14, <2>1
  <2>. QED
    BY <2>2 DEF RingInv, RecentCallIsReported, Recent, IsSought
<1>. QED
  BY <1>11, <1>12, <1>13, <1>15, <1>16 DEF RingInv

\* What a search compares with a packet number: only the slot of the call has it, if the call is recent.
LEMMA MatchIsSought ==
  ASSUME IInv, RingInv, search.known, search.at = "searching",
         NEW n \in DOMAIN logged, IsSought(n), NEW s \in Slots
  PROVE Matches(s) <=> Nth(s) = n
<1>1. /\ MaxRecords \in Nat \ {0} /\ Len(logged) \in Nat /\ DOMAIN logged = 1..Len(logged)
      /\ Begun \in {Len(logged), Len(logged) + 1} /\ index \in Slots \cup {-1}
  BY RingTypes
<1>2. Age(s) \in 0..(MaxRecords - 1)
  BY <1>1, AgeInRing
<1>3. SlotIsInOrder(s) /\ logged[n] = search.call /\ n > Len(logged) - (MaxRecords - 1)
  BY DEF RingInv, RingIsInOrder, IsSought
<1>4. search.call \in DOMAIN calls /\ calls[search.call].id = search.call /\ search.call # None
  BY RingTypes, TrackerConstants DEF IInv, SearchIsRight, RingInv, NumbersAreUnique
<1>5. ASSUME Nth(s) = n PROVE Matches(s)
  <2>1. Completed(s) = n
    BY <1>1, <1>5 DEF Completed
  <2>. QED
    BY <1>3, <1>4, <2>1 DEF SlotIsInOrder, Matches
<1>6. ASSUME Matches(s) PROVE Nth(s) = n
  <2>1. data[s].id = search.call
    BY <1>4, <1>6 DEF Matches
  <2>2. Completed(s) \in DOMAIN logged
    BY <1>3, <1>4, <2>1 DEF SlotIsInOrder
  <2>3. logged[Completed(s)] = search.call
    BY <1>3, <1>4, <2>1, <2>2 DEF SlotIsInOrder, RingInv, LoggedOnce, NumbersAreUnique
  <2>4. Completed(s) = n
    BY <1>3, <2>2, <2>3 DEF RingInv, LoggedOnce
  <2>. QED
    BY <1>1, <1>2, <1>3, <2>4 DEF Completed, Nth
<1>. QED
  BY <1>5, <1>6

\* A search that begins has passed nothing, one that goes on has passed a slot that did not match, and
\* one that gives up has come round.
LEMMA SearchRing ==
  ASSUME IInv, RingInv, Compare \/ Report \/ Finish \/ \E k \in CallIds : Exception(k)
  PROVE RingInv'
<1>1. UNCHANGED <<lastId, calls, holder, data, index, pc, job, logged>>
  BY DEF Compare, Report, Finish, Exception, callVars
<1>2. /\ MaxRecords \in Nat \ {0} /\ Len(logged) \in Nat /\ DOMAIN logged = 1..Len(logged)
      /\ Begun \in {Len(logged), Len(logged) + 1} /\ index \in Slots \cup {-1}
      /\ data \in [Slots -> Records]
  BY RingTypes
<1>3. Begun' = Begun /\ \A s \in Slots : Nth(s)' = Nth(s) /\ Age(s)' = Age(s)
                                          /\ Completed(s)' = Completed(s)
  BY <1>1 DEF Begun, Underway, Nth, Age, Completed
<1>4. NumbersAreUnique' /\ LoggedOnce' /\ SlotsFollow'
  BY <1>1 DEF RingInv, NumbersAreUnique, LoggedOnce, SlotsFollow
<1>5. RingIsInOrder'
  BY <1>1, <1>3 DEF RingInv, RingIsInOrder, SlotIsInOrder
<1>6. search \in [at: {"idle", "searching", "found", "reported"}, call: CallIds \cup {None},
                  known: BOOLEAN, slot: Slots \cup {None}, end: Slots \cup {None},
                  reported: CallIds \cup {None}]
  BY DEF IInv, TypeOK
<1>7. SearchIsOnTrack
  BY DEF RingInv
<1>8. SearchIsOnTrack' /\ RecentCallIsReported'
  <2>1. CASE Compare
    <3>1. search.at = "searching" /\ search.slot \in Slots
      BY <2>1 DEF Compare, IInv, SearchIsRight
    <3>2. CASE Matches(search.slot)
      <4>1. search' = [search EXCEPT !.at = "found"]
        BY <2>1, <3>2 DEF Compare
      <4>2. /\ search'.at = "found" /\ search'.known = search.known /\ search'.slot = search.slot
            /\ search'.call = search.call
        BY <1>6, <4>1
      <4>3. ASSUME search.known, NEW n \in DOMAIN logged, IsSought(n) PROVE Nth(search.slot) = n
        BY <3>1, <3>2, <4>3, MatchIsSought
      <4>. QED
        BY <1>1, <1>3, <1>7, <3>1, <4>2, <4>3 DEF SearchIsOnTrack, IsSought, RecentCallIsReported
    <3>3. CASE ~Matches(search.slot) /\ Exhausted(search.slot)
      <4>1. search' = [search EXCEPT !.at = "reported", !.reported = None]
        BY <2>1, <3>3 DEF Compare
      <4>2. /\ search'.at = "reported" /\ search'.known = search.known /\ search'.call = search.call
        BY <1>6, <4>1
      <4>3. ASSUME search.known, NEW n \in DOMAIN logged, IsSought(n) PROVE FALSE
        <5>1. n > Len(logged) - (MaxRecords - 1) /\ n \in 1..Len(logged)
          BY <1>2, <4>3 DEF IsSought
        <5>2. Begun - n \in 0..(MaxRecords - 1)
          BY <1>2, <5>1
        <5>3. PICK s \in Slots : Age(s) = Begun - n
          BY <1>2, <5>2, AgeInRing
        <5>4. Nth(s) = n
          BY <1>2, <5>1, <5>3 DEF Nth
        <5>5. search.end \in Slots /\ Ahead(search.end, search.slot) <= Ahead(search.end, s)
          BY <1>7, <3>1, <4>3, <5>4 DEF SearchIsOnTrack
        <5>6. Ahead(search.end, search.slot) = MaxRecords - 1
          BY <3>1, <3>3, <5>5, AheadSteps DEF Exhausted
        <5>7. Ahead(search.end, s) \in 0..(MaxRecords - 1)
          BY <3>1, <5>5, AheadSteps
        <5>8. s = search.slot
          <6>1. Ahead(search.end, s) = Ahead(search.end, search.slot)
            BY <1>2, <5>5, <5>6, <5>7
          <6>. QED
            BY <3>1, <5>5, <6>1, AheadSteps
        <5>. QED
          BY <3>1, <3>3, <4>3, <5>4, <5>8, MatchIsSought
      <4>. QED
        BY <1>1, <1>7, <3>1, <4>2, <4>3 DEF SearchIsOnTrack, IsSought, RecentCallIsReported, Recent
    <3>4. CASE ~Matches(search.slot) /\ ~Exhausted(search.slot)
      <4>1. search' = [search EXCEPT !.slot = NextSlot(@)]
        BY <2>1, <3>4 DEF Compare
      <4>2. /\ search'.at = "searching" /\ search'.known = search.known /\ search'.call = search.call
            /\ search'.end = search.end /\ search'.slot = NextSlot(search.slot)
        BY <1>6, <3>1, <4>1
      <4>3. ASSUME search.known, NEW n \in DOMAIN logged, IsSought(n), NEW s \in Slots, Nth(s) = n
            PROVE Ahead(search.end, NextSlot(search.slot)) <= Ahead(search.end, s)
        <5>1. search.end \in Slots /\ Ahead(search.end, search.slot) <= Ahead(search.end, s)
          BY <1>7, <3>1, <4>3 DEF SearchIsOnTrack
        <5>2. s # search.slot
          BY <3>1, <3>4, <4>3, MatchIsSought
        <5>3. Ahead(search.end, NextSlot(search.slot)) = Ahead(search.end, search.slot) + 1
          BY <3>1, <3>4, <5>1, AheadSteps DEF Exhausted
        <5>4. /\ Ahead(search.end, s) \in Int /\ Ahead(search.end, search.slot) \in Int
              /\ Ahead(search.end, s) # Ahead(search.end, search.slot)
          BY <1>2, <3>1, <5>1, <5>2, AheadSteps
        <5>. QED
          BY <5>1, <5>3, <5>4
      <4>. QED
        BY <1>1, <1>3, <1>7, <3>1, <4>2, <4>3 DEF SearchIsOnTrack, IsSought, RecentCallIsReported
    <3>. QED
      BY <3>2, <3>3, <3>4
  <2>2. CASE Report
    <3>1. search.at = "found" /\ search.slot \in Slots
      BY <2>2 DEF Report, IInv, SearchIsRight
    <3>2. /\ search'.at = "reported" /\ search'.known = search.known /\ search'.call = search.call
          /\ search'.reported = data[search.slot].call
      BY <1>6, <2>2 DEF Report
    <3>3. ASSUME search.known, NEW n \in DOMAIN logged, IsSought(n)
          PROVE data[search.slot].call = search.call
      BY <1>7, <3>1, <3>3 DEF SearchIsOnTrack, RingInv, RingIsInOrder, SlotIsInOrder, IsSought
    <3>. QED
      BY <1>1, <1>7, <3>1, <3>2, <3>3 DEF SearchIsOnTrack, IsSought, RecentCallIsReported, Recent
  <2>3. CASE Finish
    BY <2>3 DEF Finish, NoSearch, SearchIsOnTrack, RecentCallIsReported
  <2>4. ASSUME NEW k \in CallIds, Exception(k) PROVE SearchIsOnTrack' /\ RecentCallIsReported'
    <3>. DEFINE known == \E n \in DOMAIN logged : logged[n] = k
    <3>1. search' = [at |-> "searching", call |-> k, known |-> known, slot |-> Start,
                     end |-> Start, reported |-> None]
      BY <2>4 DEF Exception, NoSearch
    <3>2. Start \in Slots
      BY <1>2, SlotInRing
    <3>3. \A s \in Slots : Ahead(Start, Start) <= Ahead(Start, s)
      BY <1>2, <3>2, AheadSteps
    <3>. QED
      BY <1>1, <3>1, <3>2, <3>3 DEF SearchIsOnTrack, RecentCallIsReported
  <2>. QED
    BY <2>1, <2>2, <2>3, <2>4
<1>. QED
  BY <1>4, <1>5, <1>8 DEF RingInv

\* Every step keeps the ring in order and the search on its track.
LEMMA NextRing == ASSUME Locked, OneHandle, IInv, RingInv, [Next]_vars PROVE RingInv'
<1>1. CASE UNCHANGED vars
  <2>1. NumbersAreUnique' /\ LoggedOnce' /\ SlotsFollow' /\ Begun' = Begun
    BY <1>1 DEF vars, RingInv, NumbersAreUnique, LoggedOnce, SlotsFollow, Begun, Underway
  <2>. QED
    BY <1>1, <2>1, QuietRing DEF vars
<1>2. ASSUME NEW t \in Threads, AddRequestRecord(t) PROVE RingInv'
  BY <1>2, NumberRing, StoreIndexRing, AssignCallRing, AssignIdRing DEF AddRequestRecord
<1>3. ASSUME NEW t \in Threads, NEW h \in Handles, Invoke(t, h) PROVE RingInv'
  BY <1>3, InvokeRing
<1>4. CASE Compare \/ Report \/ Finish \/ \E k \in CallIds : Exception(k)
  BY <1>4, SearchRing
<1>. QED
  BY <1>1, <1>2, <1>3, <1>4 DEF Next

\* A search finds the call SimConnect complains about, if it was recorded before the search began and
\* is recent when its record is read, however many records are added meanwhile and whatever the size
\* of the ring and the slot the search begins in, as long as all calls are made on one connection.
THEOREM RecentCallsAreReported == Locked /\ OneHandle => (Spec => []RecentCallIsReported)
<1>. SUFFICES ASSUME Locked, OneHandle PROVE Spec => []RecentCallIsReported
  OBVIOUS
<1>1. Init => IInv /\ RingInv
  BY InitIInv, InitRing
<1>2. IInv /\ RingInv /\ [Next]_vars => IInv' /\ RingInv'
  BY NextIInv, NextRing
<1>3. RingInv => RecentCallIsReported
  BY DEF RingInv
<1>. QED
  BY <1>1, <1>2, <1>3, PTL DEF Spec

================================================================================
