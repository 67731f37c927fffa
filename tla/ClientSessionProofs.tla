-------------------------- MODULE ClientSessionProofs --------------------------
(***************************************************************************)
(* Proofs about the server, and about a client and the server, composed,   *)
(* for any number of clients, requests, events, sizes, values and codes,   *)
(* any number of messages under way and any failures of connections.       *)
(*                                                                         *)
(* Part one is about the server as WASimModule specifies it.  The state    *)
(* keeps its types, a client which is not connected holds nothing, and     *)
(* the frame trigger covers every subscription.  Calculator events can be  *)
(* reached, and the handlers for one client leave the others alone.  The   *)
(* value tick() compares with is the one the client can read, and a client *)
(* that has suspended its updates gets none.                               *)
(*                                                                         *)
(* Part two is about ClientSession, whose server is a server of part one.  *)
(* Both ends agree on the pause flag, the events and the requests, the     *)
(* client listens to what it is served, and counts the areas it listens    *)
(* to.  What both ends will agree on when all messages are through is      *)
(* written as a condition on the messages under way: Ends(wire, M, G, now) *)
(* says that the last message of the set M is one of G or, when there is   *)
(* no such message, that now holds.                                        *)
(***************************************************************************)
EXTENDS ClientSession, FiniteSetTheorems, WellFoundedInduction, TLAPS

--------------------------------------------------------------------------------
\* The server

\* The trigger can be trusted only because a client that comes back has nothing left over from before:
\* a reconnection does not look at the trigger.  Hence the two invariants are proved together.
IInv == TypeOK /\ OnlyConnectedHold /\ TriggerCoversSubscriptions

--------------------------------------------------------------------------------
\* What the operators return

\* An outcome is a truth value.
LEMMA OutcomeType == \A kind : Outcome(kind) \subseteq BOOLEAN
  BY DEF Outcome

\* Evaluating a request keeps its type, and its period unless it is disabled.
LEMMA EvaluatedType ==
  ASSUME NEW tr \in TrackedRequest, NEW ok \in BOOLEAN, NEW cmp \in BOOLEAN, simval \in Values
  PROVE  /\ Evaluated(tr, ok, cmp) \in TrackedRequest
         /\ Evaluated(tr, ok, cmp).period \in {tr.period, "Never"}
  BY DEF Evaluated, Unchanged, TrackedRequest, Periods

\* Scheduling the next update keeps the type and the period.
LEMMA RescheduledType ==
  ASSUME NEW tr \in TrackedRequest
  PROVE  /\ Rescheduled(tr) \in TrackedRequest
         /\ Rescheduled(tr).period = tr.period
<1>1. CASE tr.period = "Millisecond"
  BY <1>1 DEF Rescheduled, TrackedRequest, Periods
<1>2. CASE tr.period = "Tick" /\ tr.interval > 0
  BY <1>2 DEF Rescheduled, TrackedRequest, Periods
<1>3. CASE ~(tr.period = "Millisecond") /\ ~(tr.period = "Tick" /\ tr.interval > 0)
  BY <1>3 DEF Rescheduled, TrackedRequest, Periods
<1>. QED  BY <1>1, <1>2, <1>3

\* A new request is well typed.
LEMMA NewRequestType ==
  ASSUME NEW req \in DataRequest
  PROVE  NewRequest(req) \in TrackedRequest
  BY ServerConstants DEF NewRequest, DataRequest, TrackedRequest

\* A reassigned request is well typed.
LEMMA AssignedType ==
  ASSUME NEW req \in DataRequest, NEW tr \in TrackedRequest
  PROVE  Assigned(tr, req) \in TrackedRequest
  BY ServerConstants DEF Assigned, DataRequest, TrackedRequest

\* So is one whose interval was set to the minimum.
LEMMA ClampedType ==
  ASSUME NEW tr \in TrackedRequest
  PROVE  Clamped(tr) \in TrackedRequest
  BY DEF Clamped, TrackedRequest

\* What is written to a data area is a value.
LEMMA WrittenType ==
  ASSUME NEW tr, NEW ok \in BOOLEAN, NEW cmp \in BOOLEAN, NEW def, NEW old \in Values \cup {None},
         simval \in Values
  PROVE  Written(tr, ok, cmp, def, old) \in Values \cup {None}
  BY DEF Written

\* Deadlines stay natural numbers.
LEMMA DecrementType ==
  ASSUME NEW n \in Nat
  PROVE  Decrement(n) \in Nat
  BY DEF Decrement

\* After the check the trigger is as before or off, and off only if the check found it is not needed.
LEMMA CheckTrigger ==
  ASSUME NEW st, NEW pz, NEW rq, trigger \in BOOLEAN, CheckTriggerEventNeeded(st, pz, rq)
  PROVE  /\ trigger' \in BOOLEAN
         /\ trigger /\ TriggerNeeded(st, pz, rq) => trigger'
  BY OutcomeType DEF CheckTriggerEventNeeded

\* After resumption the trigger is on if it was, or if it is wanted and SimConnect does not fail.
LEMMA ResumeTrigger ==
  ASSUME NEW wanted \in BOOLEAN, trigger \in BOOLEAN, ResumeTriggerEvent(wanted)
  PROVE  /\ trigger' \in BOOLEAN
         /\ trigger => trigger'
         /\ wanted /\ "trigger" \notin CanFail => trigger'
  BY OutcomeType DEF ResumeTriggerEvent, Outcome

--------------------------------------------------------------------------------
\* The initial state

\* No client is known at first.
LEMMA InitInv == Init => IInv
<1>. SUFFICES ASSUME Init PROVE IInv
  OBVIOUS
<1>1. TypeOK
  <2>1. /\ running \in BOOLEAN /\ trigger \in BOOLEAN /\ tickDue \in BOOLEAN
        /\ simval \in Values
    BY Zenon DEF Init, Loaded
  <2>2. nextEventId \in 1..(MaxSimEvent + 1)
    BY ServerConstants DEF Init, Loaded
  <2>3. /\ status \in [Clients -> Statuses] /\ paused \in [Clients -> BOOLEAN]
        /\ timeout \in [Clients -> Nat] /\ heartbeat \in [Clients -> Nat]
    BY DEF Init, Loaded, Statuses
  <2>4. /\ requests \in [Clients -> [RequestIds -> TrackedRequest \cup {None}]]
        /\ defs \in [Clients -> [RequestIds -> Sizes \cup {0}]]
        /\ area \in [Clients -> [RequestIds -> Values \cup {None}]]
    BY DEF Init, Loaded
  <2>5. /\ events \in [Clients -> SUBSET EventIds]
        /\ eventIds \in [SimEvents -> (Clients \X EventIds) \cup {None}]
    BY DEF Init, Loaded
  <2>. QED  BY <2>1, <2>2, <2>3, <2>4, <2>5 DEF TypeOK
<1>2. OnlyConnectedHold
  BY DEF Init, Loaded, OnlyConnectedHold, Held
<1>3. TriggerCoversSubscriptions
  BY DEF Init, Loaded, TriggerCoversSubscriptions, Active
<1>. QED  BY <1>1, <1>2, <1>3 DEF IInv

--------------------------------------------------------------------------------
\* Connections

\* A message from a client of which nothing else is stored keeps the invariant: a client that was not
\* connected holds nothing, so that being connected again makes no subscription active.
LEMMA TouchInv ==
  ASSUME IInv, NEW c \in Clients, Touch(c),
         UNCHANGED <<running, paused, dataVars, eventVars, trigger, tickDue, simval>>
  PROVE  IInv'
<1>1. TypeOK'
  BY ServerConstants DEF IInv, TypeOK, Touch, dataVars, eventVars, Statuses
<1>2. OnlyConnectedHold'
  BY DEF IInv, TypeOK, OnlyConnectedHold, Held, Touch, dataVars, eventVars
<1>3. TriggerCoversSubscriptions'
  <2>1. SUFFICES ASSUME "trigger" \notin CanFail, NEW d \in Clients, Active(d)'
                 PROVE  trigger'
    BY DEF TriggerCoversSubscriptions
  <2>2. Active(d)
    <3>1. running /\ ~paused[d] /\ Subscribed(d) # {}
      BY <2>1 DEF Active, Subscribed, Held, dataVars
    <3>2. Held(d) # {}
      BY <3>1 DEF Subscribed
    <3>3. status[d] = "Connected"
      BY <3>1, <3>2 DEF IInv, OnlyConnectedHold
    <3>. QED  BY <3>1, <3>3 DEF Active
  <2>. QED  BY <2>1, <2>2 DEF IInv, TriggerCoversSubscriptions
<1>. QED  BY <1>1, <1>2, <1>3 DEF IInv

\* A client that connects holds nothing yet, and one that was connected keeps what it holds.
LEMMA ConnectInv ==
  ASSUME IInv, NEW c \in Clients, ConnectEvent(c)
  PROVE  IInv'
<1>1. CASE UNCHANGED <<status, timeout, heartbeat>>
  BY <1>1 DEF ConnectEvent, IInv, TypeOK, OnlyConnectedHold, TriggerCoversSubscriptions, Active,
              Subscribed, Held, dataVars, eventVars
<1>2. CASE /\ status' = [status EXCEPT ![c] = "Connected"]
           /\ timeout' = [timeout EXCEPT ![c] = CONN_TIMEOUT]
           /\ heartbeat' = [heartbeat EXCEPT ![c] = CONN_HEARTBEAT]
  <2>1. TypeOK'
    BY <1>2, ServerConstants DEF ConnectEvent, IInv, TypeOK, dataVars, eventVars, Statuses
  <2>2. OnlyConnectedHold'
    BY <1>2 DEF ConnectEvent, IInv, TypeOK, OnlyConnectedHold, Held, dataVars, eventVars
  <2>3. TriggerCoversSubscriptions'
    <3>1. SUFFICES ASSUME "trigger" \notin CanFail, NEW d \in Clients, Active(d)'
                   PROVE  trigger'
      BY DEF TriggerCoversSubscriptions
    <3>2. running /\ ~paused[d] /\ Subscribed(d) # {}
      BY <3>1 DEF ConnectEvent, Active, Subscribed, Held, dataVars
    <3>3. status[d] = "Connected"
      BY <3>2 DEF IInv, OnlyConnectedHold, Subscribed
    <3>4. trigger
      BY <3>1, <3>2, <3>3 DEF IInv, TriggerCoversSubscriptions, Active
    <3>. QED  BY <3>4 DEF ConnectEvent
  <2>. QED  BY <2>1, <2>2, <2>3 DEF IInv
<1>. QED  BY <1>1, <1>2 DEF ConnectEvent

\* Clearing clients keeps the types.
LEMMA ClearedType ==
  ASSUME TypeOK, NEW gone \in SUBSET Clients
  PROVE  /\ ClearedRequests(gone) \in [Clients -> [RequestIds -> TrackedRequest \cup {None}]]
         /\ ClearedDefs(gone) \in [Clients -> [RequestIds -> Sizes \cup {0}]]
         /\ ClearedEvents(gone) \in [Clients -> SUBSET EventIds]
         /\ ClearedEventIds(gone) \in [SimEvents -> (Clients \X EventIds) \cup {None}]
  BY DEF TypeOK, ClearedRequests, ClearedDefs, ClearedEvents, ClearedEventIds

\* A client that disconnects gives up all it held; the trigger goes off only if no other client needs it.
LEMMA DisconnectInv ==
  ASSUME IInv, NEW c \in Clients, Disconnect(c)
  PROVE  IInv'
<1>1. trigger' \in BOOLEAN /\ (trigger /\ TriggerNeeded(status', paused, requests') => trigger')
  BY CheckTrigger DEF Disconnect, IInv, TypeOK
<1>2. TypeOK'
  <2>1. {c} \in SUBSET Clients
    OBVIOUS
  <2>. QED  BY <1>1, <2>1, ClearedType, ServerConstants DEF Disconnect, IInv, TypeOK, Statuses
<1>3. OnlyConnectedHold'
  BY DEF Disconnect, IInv, TypeOK, OnlyConnectedHold, Held, ClearedRequests, ClearedEvents
<1>4. TriggerCoversSubscriptions'
  <2>1. SUFFICES ASSUME "trigger" \notin CanFail, NEW d \in Clients, Active(d)'
                 PROVE  trigger'
    BY DEF TriggerCoversSubscriptions
  <2>2. d # c
    BY <2>1 DEF Disconnect, IInv, TypeOK, Active
  <2>3. Active(d)
    BY <2>1, <2>2 DEF Disconnect, IInv, TypeOK, Active, Subscribed, Held, ClearedRequests
  <2>4. TriggerNeeded(status', paused, requests')
    BY <2>1 DEF Disconnect, Active, Subscribed, Held, TriggerNeeded
  <2>. QED  BY <1>1, <2>1, <2>3, <2>4 DEF IInv, TriggerCoversSubscriptions
<1>. QED  BY <1>2, <1>3, <1>4 DEF IInv

--------------------------------------------------------------------------------
\* Data requests

\* The common part of AddRequest and UpdateRequest: a request which is stored with a repeating period,
\* for a client that is not paused, asks for the trigger itself.
LEMMA ScheduleInv ==
  ASSUME IInv, NEW c \in Clients, NEW r \in RequestIds, NEW tr \in TrackedRequest,
         NEW def \in Sizes \cup {0},
         Touch(c), Schedule(c, r, tr, def),
         UNCHANGED <<running, paused, eventVars, tickDue, simval>>
  PROVE  IInv'
<1> DEFINE looked(found) == IF found THEN Clamped(tr) ELSE [tr EXCEPT !.period = "Never"]
           final(found, ok) ==
             IF looked(found).period = "Never" THEN looked(found)
             ELSE IF ~paused[c] THEN Evaluated(looked(found), ok, FALSE)
             ELSE IF looked(found).period = "Once" THEN [looked(found) EXCEPT !.interval = 1]
             ELSE looked(found)
<1>1. PICK found \in Outcome("lookup"), ok \in Outcome("lookup") :
        /\ requests' = [requests EXCEPT ![c][r] = final(found, ok)]
        /\ defs' = [defs EXCEPT ![c][r] = def]
        /\ area' = IF looked(found).period = "Never" \/ paused[c] THEN area
                   ELSE [area EXCEPT ![c][r] = Written(looked(found), ok, FALSE, def, @)]
        /\ ResumeTriggerEvent(final(found, ok).period \in Repeating /\ ~paused[c])
  BY Zenon DEF Schedule
<1>2. found \in BOOLEAN /\ ok \in BOOLEAN
  BY OutcomeType
<1>3. looked(found) \in TrackedRequest
  BY ClampedType DEF TrackedRequest, Periods
<1>4. final(found, ok) \in TrackedRequest
  <2>1. Evaluated(looked(found), ok, FALSE) \in TrackedRequest
    BY <1>2, <1>3, EvaluatedType DEF IInv, TypeOK
  <2>2. [looked(found) EXCEPT !.interval = 1] \in TrackedRequest
    BY <1>3 DEF TrackedRequest
  <2>. QED  BY <1>3, <2>1, <2>2
<1> HIDE DEF looked, final
<1>5. /\ trigger' \in BOOLEAN
      /\ trigger => trigger'
      /\ final(found, ok).period \in Repeating /\ ~paused[c] /\ "trigger" \notin CanFail => trigger'
  BY <1>1, ResumeTrigger DEF IInv, TypeOK
<1>6. TypeOK'
  <2>1. requests' \in [Clients -> [RequestIds -> TrackedRequest \cup {None}]]
    BY <1>1, <1>4 DEF IInv, TypeOK
  <2>2. defs' \in [Clients -> [RequestIds -> Sizes \cup {0}]]
    BY <1>1 DEF IInv, TypeOK
  <2>3. area' \in [Clients -> [RequestIds -> Values \cup {None}]]
    <3>1. area[c][r] \in Values \cup {None} /\ simval \in Values
      BY DEF IInv, TypeOK
    <3>2. Written(looked(found), ok, FALSE, def, area[c][r]) \in Values \cup {None}
      BY <3>1 DEF Written
    <3>. QED  BY <1>1, <3>2 DEF IInv, TypeOK
  <2>. QED  BY <1>5, <2>1, <2>2, <2>3, ServerConstants DEF IInv, TypeOK, Touch, eventVars, Statuses
<1>7. OnlyConnectedHold'
  BY <1>1 DEF IInv, TypeOK, OnlyConnectedHold, Held, Touch, eventVars
<1>8. TriggerCoversSubscriptions'
  <2>1. SUFFICES ASSUME "trigger" \notin CanFail, NEW d \in Clients, Active(d)'
                 PROVE  trigger'
    BY DEF TriggerCoversSubscriptions
  <2>2. PICK q \in RequestIds : requests'[d][q] # None /\ requests'[d][q].period \in Repeating
    BY <2>1 DEF Active, Subscribed, Held
  <2>3. running /\ ~paused[d]
    BY <2>1 DEF Active
  <2>4. CASE d = c /\ q = r
    <3>1. requests'[d][q] = final(found, ok)
      BY <1>1, <2>4 DEF IInv, TypeOK
    <3>. QED  BY <1>5, <2>1, <2>2, <2>3, <2>4, <3>1
  <2>5. CASE ~(d = c /\ q = r)
    <3>1. requests[d][q] # None /\ requests[d][q].period \in Repeating
      BY <1>1, <2>2, <2>5 DEF IInv, TypeOK
    <3>2. Subscribed(d) # {} /\ Held(d) # {}
      BY <3>1 DEF Subscribed, Held
    <3>3. status[d] = "Connected"
      BY <2>3, <3>2 DEF IInv, OnlyConnectedHold
    <3>. QED  BY <1>5, <2>1, <2>3, <3>2, <3>3 DEF IInv, TriggerCoversSubscriptions, Active
  <2>. QED  BY <2>4, <2>5
<1>. QED  BY <1>6, <1>7, <1>8 DEF IInv

\* A handler which stores nothing but a data definition, apart from the deadlines.
LEMMA RefusedInv ==
  ASSUME IInv, NEW c \in Clients, Touch(c),
         UNCHANGED <<running, paused, requests, area, eventVars, trigger, tickDue, simval>>,
         defs' \in [Clients -> [RequestIds -> Sizes \cup {0}]]
  PROVE  IInv'
<1>1. TypeOK'
  BY ServerConstants DEF IInv, TypeOK, Touch, eventVars, Statuses
<1>2. OnlyConnectedHold'
  BY DEF IInv, TypeOK, OnlyConnectedHold, Held, Touch, eventVars
<1>3. TriggerCoversSubscriptions'
  BY DEF IInv, TypeOK, OnlyConnectedHold, TriggerCoversSubscriptions, Active, Subscribed, Held, Touch
<1>. QED  BY <1>1, <1>2, <1>3 DEF IInv

\* A new request is stored and scheduled.
LEMMA AddRequestInv ==
  ASSUME IInv, NEW c \in Clients, NEW r \in RequestIds, NEW req \in DataRequest, AddRequest(c, r, req)
  PROVE  IInv'
<1>1. CASE Schedule(c, r, NewRequest(req), req.size)
  <2>1. req.size \in Sizes \cup {0}
    BY DEF DataRequest
  <2>. QED  BY <1>1, <2>1, NewRequestType, ScheduleInv DEF AddRequest
<1>2. CASE UNCHANGED <<dataVars, trigger>>
  BY <1>2, TouchInv DEF AddRequest
<1>. QED  BY <1>1, <1>2 DEF AddRequest

\* A changed request is stored and scheduled, or left disabled.
LEMMA UpdateRequestInv ==
  ASSUME IInv, NEW c \in Clients, NEW r \in RequestIds, NEW req \in DataRequest,
         UpdateRequest(c, r, req)
  PROVE  IInv'
<1>1. requests[c][r] \in TrackedRequest /\ defs[c][r] \in Sizes \cup {0} /\ req.size \in Sizes
  BY DEF UpdateRequest, IInv, TypeOK, DataRequest
<1>2. CASE UNCHANGED <<dataVars, trigger>>
  BY <1>2, TouchInv DEF UpdateRequest
<1>3. CASE /\ \E def \in {defs[c][r], 0} : defs' = [defs EXCEPT ![c][r] = def]
           /\ UNCHANGED <<requests, area, trigger>>
  <2>1. defs' \in [Clients -> [RequestIds -> Sizes \cup {0}]]
    BY <1>1, <1>3 DEF IInv, TypeOK
  <2>. QED  BY <1>3, <2>1, RefusedInv DEF UpdateRequest
<1>4. ASSUME NEW def \in Sizes \cup {0}, Schedule(c, r, Assigned(requests[c][r], req), def)
      PROVE  IInv'
  BY <1>1, <1>4, AssignedType, ScheduleInv DEF UpdateRequest
<1>. QED  BY <1>1, <1>2, <1>3, <1>4 DEF UpdateRequest

\* A request that is removed takes the trigger with it only if it was the last one active.
LEMMA RemoveRequestInv ==
  ASSUME IInv, NEW c \in Clients, NEW r \in RequestIds, RemoveRequest(c, r)
  PROVE  IInv'
<1>1. CASE UNCHANGED <<requests, defs, trigger>>
  BY <1>1, TouchInv DEF RemoveRequest, dataVars
<1>2. CASE /\ requests' = [requests EXCEPT ![c][r] = None]
           /\ defs' = [defs EXCEPT ![c][r] = 0]
           /\ IF trigger /\ Held(c) = {r}
              THEN CheckTriggerEventNeeded(status', paused, requests') ELSE UNCHANGED trigger
  <2>1. trigger' \in BOOLEAN /\ (trigger /\ TriggerNeeded(status', paused, requests') => trigger')
    BY <1>2, CheckTrigger DEF IInv, TypeOK
  <2>2. TypeOK'
    BY <1>2, <2>1, ServerConstants DEF RemoveRequest, Touch, IInv, TypeOK, eventVars, Statuses
  <2>3. OnlyConnectedHold'
    BY <1>2 DEF RemoveRequest, Touch, IInv, TypeOK, OnlyConnectedHold, Held, eventVars
  <2>4. TriggerCoversSubscriptions'
    <3>1. SUFFICES ASSUME "trigger" \notin CanFail, NEW d \in Clients, Active(d)'
                   PROVE  trigger'
      BY DEF TriggerCoversSubscriptions
    <3>2. running /\ ~paused[d] /\ Subscribed(d) # {}
      BY <1>2, <3>1 DEF RemoveRequest, IInv, TypeOK, Active, Subscribed, Held
    <3>3. trigger
      BY <3>1, <3>2 DEF IInv, OnlyConnectedHold, TriggerCoversSubscriptions, Active, Subscribed
    <3>4. TriggerNeeded(status', paused, requests')
      BY <3>1 DEF RemoveRequest, Active, Subscribed, Held, TriggerNeeded
    <3>. QED  BY <2>1, <3>3, <3>4
  <2>. QED  BY <2>2, <2>3, <2>4 DEF IInv
<1>. QED  BY <1>1, <1>2 DEF RemoveRequest

\* An Update command writes the value and may disable the request.
LEMMA UpdateCommandInv ==
  ASSUME IInv, NEW c \in Clients, NEW r \in RequestIds, UpdateCommand(c, r)
  PROVE  IInv'
<1>1. CASE UNCHANGED <<requests, area>>
  BY <1>1, TouchInv DEF UpdateCommand, dataVars
<1>2. ASSUME requests[c][r] # None, NEW ok \in Outcome("lookup"),
             requests' = [requests EXCEPT ![c][r] = Evaluated(@, ok, FALSE)],
             area' = [area EXCEPT ![c][r] = Written(requests[c][r], ok, FALSE, defs[c][r], @)]
      PROVE  IInv'
  <2>1. requests[c][r] \in TrackedRequest /\ ok \in BOOLEAN /\ simval \in Values
        /\ area[c][r] \in Values \cup {None}
    BY <1>2, OutcomeType DEF IInv, TypeOK
  <2>2. /\ Evaluated(requests[c][r], ok, FALSE) \in TrackedRequest
        /\ Evaluated(requests[c][r], ok, FALSE).period \in {requests[c][r].period, "Never"}
    BY <2>1, EvaluatedType
  <2>3. Written(requests[c][r], ok, FALSE, defs[c][r], area[c][r]) \in Values \cup {None}
    BY <2>1 DEF Written
  <2>4. TypeOK'
    BY <1>2, <2>2, <2>3, ServerConstants
    DEF UpdateCommand, Touch, IInv, TypeOK, eventVars, Statuses
  <2>5. OnlyConnectedHold'
    BY <1>2 DEF UpdateCommand, Touch, IInv, TypeOK, OnlyConnectedHold, Held, eventVars
  <2>6. TriggerCoversSubscriptions'
    <3>1. SUFFICES ASSUME "trigger" \notin CanFail, NEW d \in Clients, Active(d)'
                   PROVE  trigger
      BY DEF TriggerCoversSubscriptions, UpdateCommand
    <3>2. PICK q \in RequestIds : requests'[d][q] # None /\ requests'[d][q].period \in Repeating
      BY <3>1 DEF Active, Subscribed, Held
    <3>3. requests[d][q] # None /\ requests[d][q].period \in Repeating
      BY <1>2, <2>2, <3>2 DEF IInv, TypeOK, Repeating
    <3>4. running /\ ~paused[d] /\ Subscribed(d) # {}
      BY <3>1, <3>3 DEF UpdateCommand, Active, Subscribed, Held
    <3>. QED  BY <3>1, <3>4 DEF IInv, OnlyConnectedHold, TriggerCoversSubscriptions, Active, Subscribed
  <2>. QED  BY <2>4, <2>5, <2>6 DEF IInv
<1>. QED  BY <1>1, <1>2 DEF UpdateCommand

\* A client that is paused is no reason to keep the trigger; the others are.
LEMMA SuspendInv ==
  ASSUME IInv, NEW c \in Clients, Suspend(c)
  PROVE  IInv'
<1>1. trigger' \in BOOLEAN
      /\ (trigger /\ (paused[c] \/ TriggerNeeded(status', paused', requests)) => trigger')
  BY CheckTrigger DEF Suspend, IInv, TypeOK
<1>2. TypeOK'
  BY <1>1, ServerConstants DEF Suspend, Touch, IInv, TypeOK, dataVars, eventVars, Statuses
<1>3. OnlyConnectedHold'
  BY DEF Suspend, Touch, IInv, TypeOK, OnlyConnectedHold, Held, dataVars, eventVars
<1>4. TriggerCoversSubscriptions'
  <2>1. SUFFICES ASSUME "trigger" \notin CanFail, NEW d \in Clients, Active(d)'
                 PROVE  trigger'
    BY DEF TriggerCoversSubscriptions
  <2>2. running /\ ~paused[d] /\ Subscribed(d) # {}
    BY <2>1 DEF Suspend, IInv, TypeOK, Active, Subscribed, Held, dataVars
  <2>3. trigger
    BY <2>1, <2>2 DEF IInv, OnlyConnectedHold, TriggerCoversSubscriptions, Active, Subscribed
  <2>4. TriggerNeeded(status', paused', requests)
    BY <2>1 DEF Suspend, Active, Subscribed, Held, TriggerNeeded, dataVars
  <2>. QED  BY <1>1, <2>3, <2>4
<1>. QED  BY <1>2, <1>3, <1>4 DEF IInv

\* Resuming asks for the trigger if a repeating request is held; the pending ones do not repeat.
LEMMA ResumeInv ==
  ASSUME IInv, NEW c \in Clients, Resume(c)
  PROVE  IInv'
<1>1. CASE ~paused[c]
  <2>1. paused' = paused
    BY <1>1 DEF Resume, IInv, TypeOK
  <2>. QED  BY <1>1, <2>1, TouchInv DEF Resume, dataVars
<1>2. CASE paused[c]
  <2>1. PICK ok \in [Pending(c) -> Outcome("lookup")] :
          /\ requests' = [requests EXCEPT ![c] = [r \in RequestIds |->
                IF r \in Pending(c) THEN Evaluated(Sent(requests[c][r]), ok[r], TRUE)
                ELSE requests[c][r]]]
          /\ area' = [area EXCEPT ![c] = [r \in RequestIds |->
                IF r \in Pending(c)
                THEN Written(requests[c][r], ok[r], TRUE, defs[c][r], area[c][r])
                ELSE area[c][r]]]
          /\ ResumeTriggerEvent(Subscribed(c) # {})
    BY <1>2 DEF Resume, IInv, TypeOK
  <2>2. /\ trigger' \in BOOLEAN
        /\ trigger => trigger'
        /\ Subscribed(c) # {} /\ "trigger" \notin CanFail => trigger'
    BY <2>1, ResumeTrigger DEF IInv, TypeOK
  <2>3. ASSUME NEW r \in Pending(c)
        PROVE  /\ Evaluated(Sent(requests[c][r]), ok[r], TRUE) \in TrackedRequest
               /\ Evaluated(Sent(requests[c][r]), ok[r], TRUE).period \notin Repeating
               /\ requests[c][r] # None
               /\ Written(requests[c][r], ok[r], TRUE, defs[c][r], area[c][r]) \in Values \cup {None}
    <3>1. r \in RequestIds /\ requests[c][r] # None /\ requests[c][r].period = "Once"
      BY DEF Pending, Held
    <3>2. requests[c][r] \in TrackedRequest /\ area[c][r] \in Values \cup {None} /\ simval \in Values
      BY <3>1 DEF IInv, TypeOK
    <3>3. Sent(requests[c][r]) \in TrackedRequest /\ Sent(requests[c][r]).period = "Once"
      BY <3>1, <3>2 DEF Sent, TrackedRequest
    <3>4. ok[r] \in BOOLEAN
      BY OutcomeType
    <3>5. /\ Evaluated(Sent(requests[c][r]), ok[r], TRUE) \in TrackedRequest
          /\ Evaluated(Sent(requests[c][r]), ok[r], TRUE).period
               \in {Sent(requests[c][r]).period, "Never"}
      BY <3>2, <3>3, <3>4, EvaluatedType
    <3>6. Written(requests[c][r], ok[r], TRUE, defs[c][r], area[c][r]) \in Values \cup {None}
      BY <3>2 DEF Written
    <3>. QED  BY <3>1, <3>3, <3>5, <3>6 DEF Repeating
  <2>4. TypeOK'
    <3>1. requests' \in [Clients -> [RequestIds -> TrackedRequest \cup {None}]]
      BY <2>1, <2>3 DEF IInv, TypeOK
    <3>2. area' \in [Clients -> [RequestIds -> Values \cup {None}]]
      BY <2>1, <2>3 DEF IInv, TypeOK
    <3>. QED  BY <2>2, <3>1, <3>2, ServerConstants
              DEF Resume, Touch, IInv, TypeOK, eventVars, Statuses
  <2>5. OnlyConnectedHold'
    BY <2>1 DEF Resume, Touch, IInv, TypeOK, OnlyConnectedHold, Held, eventVars
  <2>6. TriggerCoversSubscriptions'
    <3>1. SUFFICES ASSUME "trigger" \notin CanFail, NEW d \in Clients, Active(d)'
                   PROVE  trigger'
      BY DEF TriggerCoversSubscriptions
    <3>2. PICK q \in RequestIds : requests'[d][q] # None /\ requests'[d][q].period \in Repeating
      BY <3>1 DEF Active, Subscribed, Held
    <3>3. q \in Subscribed(d)
      <4>1. CASE d = c
        <5>1. q \notin Pending(c)
          BY <2>1, <2>3, <3>2, <4>1 DEF IInv, TypeOK
        <5>. QED  BY <2>1, <3>2, <4>1, <5>1 DEF IInv, TypeOK, Subscribed, Held
      <4>2. CASE d # c
        BY <2>1, <3>2, <4>2 DEF IInv, TypeOK, Subscribed, Held
      <4>. QED  BY <4>1, <4>2
    <3>4. CASE d = c
      BY <2>2, <3>1, <3>3, <3>4
    <3>5. CASE d # c
      <4>1. running /\ ~paused[d]
        BY <3>1, <3>5 DEF Resume, IInv, TypeOK, Active
      <4>. QED  BY <2>2, <3>1, <3>3, <4>1
                DEF IInv, OnlyConnectedHold, TriggerCoversSubscriptions, Active, Subscribed
    <3>. QED  BY <3>4, <3>5
  <2>. QED  BY <2>4, <2>5, <2>6 DEF IInv
<1>. QED  BY <1>1, <1>2 DEF Resume, IInv, TypeOK

--------------------------------------------------------------------------------
\* Calculator events

\* Registering an event concerns the event maps only.
LEMMA RegisterEventInv ==
  ASSUME IInv, NEW c \in Clients, NEW e \in EventIds, RegisterEvent(c, e)
  PROVE  IInv'
<1>1. CASE UNCHANGED eventVars
  BY <1>1, TouchInv DEF RegisterEvent
<1>2. ASSUME nextEventId \in SimEvents, nextEventId' = nextEventId + 1,
             NEW compiled \in BOOLEAN, NEW mapped \in BOOLEAN,
             eventIds' = IF mapped THEN [eventIds EXCEPT ![nextEventId] = <<c, e>>] ELSE eventIds,
             events' = IF mapped /\ compiled THEN [events EXCEPT ![c] = @ \cup {e}] ELSE events
      PROVE  IInv'
  <2>1. nextEventId' \in 1..(MaxSimEvent + 1)
    BY <1>2, ServerConstants DEF SimEvents
  <2>2. /\ eventIds' \in [SimEvents -> (Clients \X EventIds) \cup {None}]
        /\ events' \in [Clients -> SUBSET EventIds]
    BY <1>2 DEF IInv, TypeOK
  <2>3. TypeOK'
    BY <2>1, <2>2, ServerConstants DEF RegisterEvent, Touch, IInv, TypeOK, dataVars, Statuses
  <2>4. OnlyConnectedHold'
    BY <1>2 DEF RegisterEvent, Touch, IInv, TypeOK, OnlyConnectedHold, Held, dataVars
  <2>5. TriggerCoversSubscriptions'
    BY DEF RegisterEvent, Touch, IInv, TypeOK, OnlyConnectedHold, TriggerCoversSubscriptions,
           Active, Subscribed, Held, dataVars
  <2>. QED  BY <2>3, <2>4, <2>5 DEF IInv
<1>. QED  BY <1>1, <1>2, OutcomeType DEF RegisterEvent

\* Removing an event concerns the event maps only.
LEMMA RemoveEventInv ==
  ASSUME IInv, NEW c \in Clients, NEW e \in EventIds, RemoveEvent(c, e)
  PROVE  IInv'
<1>1. CASE UNCHANGED <<events, eventIds>>
  BY <1>1, TouchInv DEF RemoveEvent, eventVars
<1>2. CASE /\ events' = [events EXCEPT ![c] = @ \ {e}]
           /\ eventIds' = [i \in SimEvents |-> IF i \in FirstMapping(c, e) THEN None ELSE eventIds[i]]
  <2>1. TypeOK'
    BY <1>2, ServerConstants DEF RemoveEvent, Touch, IInv, TypeOK, dataVars, Statuses
  <2>2. OnlyConnectedHold'
    BY <1>2 DEF RemoveEvent, Touch, IInv, TypeOK, OnlyConnectedHold, Held, dataVars
  <2>3. TriggerCoversSubscriptions'
    BY DEF RemoveEvent, Touch, IInv, TypeOK, OnlyConnectedHold, TriggerCoversSubscriptions,
           Active, Subscribed, Held, dataVars
  <2>. QED  BY <2>1, <2>2, <2>3 DEF IInv
<1>. QED  BY <1>1, <1>2 DEF RemoveEvent

--------------------------------------------------------------------------------
\* The frame event

\* What tick() stores for a request: the type is kept, and a request which repeats after did before.
LEMMA TickRequests ==
  ASSUME IInv, Tick
  PROVE  /\ requests' \in [Clients -> [RequestIds -> TrackedRequest \cup {None}]]
         /\ area' \in [Clients -> [RequestIds -> Values \cup {None}]]
         /\ \A c \in Clients \ (Served \ TimedOut) : \A r \in RequestIds :
              requests'[c][r] \in {requests[c][r], None}
         /\ \A c \in TimedOut : \A r \in RequestIds : requests'[c][r] = None
         /\ \A c \in Clients : \A r \in RequestIds :
              requests'[c][r] # None /\ requests'[c][r].period \in Repeating =>
                requests[c][r] # None /\ requests[c][r].period \in Repeating
<1> DEFINE now(c) == c \in Served \ TimedOut
<1>1. PICK ok \in [Clients -> [RequestIds -> Outcome("lookup")]] :
        /\ requests' = [c \in Clients |-> [r \in RequestIds |->
              IF now(c) /\ r \in Due(c)
              THEN Rescheduled(Evaluated(requests[c][r], ok[c][r], TRUE))
              ELSE ClearedRequests(TimedOut)[c][r]]]
        /\ area' = [c \in Clients |-> [r \in RequestIds |->
              IF now(c) /\ r \in Due(c)
              THEN Written(requests[c][r], ok[c][r], TRUE, defs[c][r], area[c][r])
              ELSE area[c][r]]]
  BY DEF Tick
<1>2. ASSUME NEW c \in Clients, NEW r \in Due(c)
      PROVE  /\ r \in RequestIds /\ requests[c][r] # None /\ requests[c][r].period \in Repeating
             /\ Rescheduled(Evaluated(requests[c][r], ok[c][r], TRUE)) \in TrackedRequest
             /\ Written(requests[c][r], ok[c][r], TRUE, defs[c][r], area[c][r]) \in Values \cup {None}
  <2>1. r \in RequestIds /\ requests[c][r] # None /\ requests[c][r].period \in Repeating
    BY DEF Due, Subscribed, Held
  <2>2. requests[c][r] \in TrackedRequest /\ area[c][r] \in Values \cup {None} /\ simval \in Values
    BY <2>1 DEF IInv, TypeOK
  <2>3. ok[c][r] \in BOOLEAN
    BY <2>1, OutcomeType
  <2>4. Evaluated(requests[c][r], ok[c][r], TRUE) \in TrackedRequest
    BY <2>2, <2>3, EvaluatedType
  <2>5. Written(requests[c][r], ok[c][r], TRUE, defs[c][r], area[c][r]) \in Values \cup {None}
    BY <2>2 DEF Written
  <2>. QED  BY <2>1, <2>4, <2>5, RescheduledType
<1>3. TimedOut \in SUBSET Clients /\ TimedOut \subseteq Served /\ Served \subseteq Clients
  BY DEF TimedOut, Served
<1>4. \A c \in Clients : \A r \in RequestIds :
        ClearedRequests(TimedOut)[c][r] = IF c \in TimedOut THEN None ELSE requests[c][r]
  BY DEF ClearedRequests
<1>5. requests' \in [Clients -> [RequestIds -> TrackedRequest \cup {None}]]
  <2>1. \A c \in Clients : \A r \in RequestIds :
          ClearedRequests(TimedOut)[c][r] \in TrackedRequest \cup {None}
    BY <1>4 DEF IInv, TypeOK
  <2>. QED  BY <1>1, <1>2, <2>1
<1>6. area' \in [Clients -> [RequestIds -> Values \cup {None}]]
  BY <1>1, <1>2 DEF IInv, TypeOK
<1>7. ASSUME NEW c \in Clients, NEW r \in RequestIds, ~(now(c) /\ r \in Due(c))
      PROVE  requests'[c][r] = IF c \in TimedOut THEN None ELSE requests[c][r]
  <2>1. requests'[c][r] = ClearedRequests(TimedOut)[c][r]
    BY <1>1, <1>7
  <2>. QED  BY <1>4, <2>1
<1>8. ASSUME NEW c \in Clients, NEW r \in RequestIds, requests'[c][r] # None,
             requests'[c][r].period \in Repeating
      PROVE  requests[c][r] # None /\ requests[c][r].period \in Repeating
  <2>1. CASE now(c) /\ r \in Due(c)
    BY <1>2, <2>1
  <2>2. CASE ~(now(c) /\ r \in Due(c))
    BY <1>7, <1>8, <2>2
  <2>. QED  BY <2>1, <2>2
<1>. QED  BY <1>3, <1>5, <1>6, <1>7, <1>8

\* A frame serves the active requests and drops the clients that are late.
LEMMA TickInv ==
  ASSUME IInv, Tick
  PROVE  IInv'
<1>1. TimedOut \in SUBSET Clients /\ TimedOut \subseteq Served /\ Served \subseteq Clients
  BY DEF TimedOut, Served
<1>2. trigger' \in BOOLEAN /\ (TriggerNeeded(status', paused, requests') => trigger')
  <2>1. trigger /\ trigger \in BOOLEAN
    BY DEF Tick, IInv, TypeOK
  <2>2. CheckTriggerEventNeeded(status', paused, requests') \/ trigger' = trigger
    BY Zenon DEF Tick
  <2>3. CASE CheckTriggerEventNeeded(status', paused, requests')
    BY <2>1, <2>3, CheckTrigger
  <2>4. CASE trigger' = trigger
    BY <2>1, <2>4
  <2>. QED  BY <2>2, <2>3, <2>4
<1>3. TypeOK'
  <2>1. /\ defs' \in [Clients -> [RequestIds -> Sizes \cup {0}]]
        /\ events' \in [Clients -> SUBSET EventIds]
        /\ eventIds' \in [SimEvents -> (Clients \X EventIds) \cup {None}]
    BY <1>1, ClearedType DEF Tick, IInv
  <2>2. status' \in [Clients -> Statuses] /\ heartbeat' \in [Clients -> Nat] /\ tickDue' \in BOOLEAN
    BY ServerConstants DEF Tick, IInv, TypeOK, Statuses
  <2>. QED  BY <1>2, <2>1, <2>2, TickRequests DEF Tick, IInv, TypeOK
<1>4. OnlyConnectedHold'
  <2>1. SUFFICES ASSUME NEW c \in Clients, status'[c] # "Connected"
                 PROVE  Held(c)' = {} /\ events'[c] = {}
    BY DEF OnlyConnectedHold
  <2>2. CASE c \in TimedOut
    BY <2>2, TickRequests DEF Tick, Held, ClearedEvents
  <2>3. CASE c \notin TimedOut
    <3>1. status[c] # "Connected" /\ c \notin Served
      BY <2>1, <2>3 DEF Tick, Served
    <3>2. Held(c) = {} /\ events[c] = {}
      BY <3>1 DEF Tick, IInv, OnlyConnectedHold
    <3>3. Held(c)' = {}
      BY <3>1, <3>2, TickRequests DEF Held
    <3>. QED  BY <2>3, <3>2, <3>3 DEF Tick, ClearedEvents
  <2>. QED  BY <2>2, <2>3
<1>5. TriggerCoversSubscriptions'
  <2>1. SUFFICES ASSUME NEW d \in Clients, Active(d)'
                 PROVE  trigger'
    BY DEF TriggerCoversSubscriptions
  <2>2. TriggerNeeded(status', paused, requests')
    BY <2>1 DEF Tick, Active, Subscribed, Held, TriggerNeeded
  <2>. QED  BY <1>2, <2>2
<1>. QED  BY <1>3, <1>4, <1>5 DEF IInv

--------------------------------------------------------------------------------
\* The environment

\* The clock moves deadlines only.
LEMMA ElapseInv ==
  ASSUME IInv, Elapse
  PROVE  IInv'
<1>1. \A c \in Clients : \A r \in RequestIds :
        requests'[c][r] = IF requests[c][r] = None THEN None
                          ELSE [requests[c][r] EXCEPT !.due = Decrement(@)]
  BY DEF Elapse
<1>2. ASSUME NEW c \in Clients, NEW r \in RequestIds, requests[c][r] # None
      PROVE  /\ [requests[c][r] EXCEPT !.due = Decrement(@)] \in TrackedRequest
             /\ [requests[c][r] EXCEPT !.due = Decrement(@)].period = requests[c][r].period
  <2>1. requests[c][r] \in TrackedRequest
    BY <1>2 DEF IInv, TypeOK
  <2>. QED  BY <2>1 DEF TrackedRequest, Decrement
<1>3. TypeOK'
  <2>1. requests' \in [Clients -> [RequestIds -> TrackedRequest \cup {None}]]
    BY <1>2 DEF Elapse
  <2>2. timeout' \in [Clients -> Nat] /\ heartbeat' \in [Clients -> Nat]
    BY DecrementType DEF Elapse, IInv, TypeOK
  <2>. QED  BY <2>1, <2>2 DEF Elapse, IInv, TypeOK, eventVars
<1>4. OnlyConnectedHold'
  BY <1>1 DEF Elapse, IInv, OnlyConnectedHold, Held, eventVars
<1>5. TriggerCoversSubscriptions'
  BY <1>1, <1>2 DEF Elapse, IInv, TriggerCoversSubscriptions, Active, Subscribed, Held
<1>. QED  BY <1>3, <1>4, <1>5 DEF IInv

\* The simulator's variable changes on its own.
LEMMA SimValueInv ==
  ASSUME IInv, SimValueChanges
  PROVE  IInv'
BY DEF SimValueChanges, IInv, TypeOK, OnlyConnectedHold, TriggerCoversSubscriptions, Active,
       Subscribed, Held, connVars, dataVars, eventVars

\* A module which has stopped keeps the records, but makes no promise about them.
LEMMA QuitInv ==
  ASSUME IInv, Quit
  PROVE  IInv'
<1>1. TypeOK'
  BY DEF Quit, IInv, TypeOK, Statuses, dataVars, eventVars
<1>2. OnlyConnectedHold' /\ TriggerCoversSubscriptions'
  BY DEF Quit, OnlyConnectedHold, TriggerCoversSubscriptions, Active
<1>. QED  BY <1>1, <1>2 DEF IInv

\* The module starts again with no clients.
LEMMA ModuleInitInv ==
  ASSUME IInv, module_init
  PROVE  IInv'
<1>1. TypeOK'
  <2>1. /\ running' \in BOOLEAN /\ trigger' \in BOOLEAN /\ tickDue' \in BOOLEAN
        /\ simval' \in Values
    BY Zenon DEF module_init, Loaded, IInv, TypeOK
  <2>2. nextEventId' \in 1..(MaxSimEvent + 1)
    BY ServerConstants DEF module_init, Loaded
  <2>3. /\ status' \in [Clients -> Statuses] /\ paused' \in [Clients -> BOOLEAN]
        /\ timeout' \in [Clients -> Nat] /\ heartbeat' \in [Clients -> Nat]
    BY DEF module_init, Loaded, Statuses
  <2>4. /\ requests' \in [Clients -> [RequestIds -> TrackedRequest \cup {None}]]
        /\ defs' \in [Clients -> [RequestIds -> Sizes \cup {0}]]
        /\ area' \in [Clients -> [RequestIds -> Values \cup {None}]]
    BY DEF module_init, Loaded
  <2>5. /\ events' \in [Clients -> SUBSET EventIds]
        /\ eventIds' \in [SimEvents -> (Clients \X EventIds) \cup {None}]
    BY DEF module_init, Loaded
  <2>. QED  BY <2>1, <2>2, <2>3, <2>4, <2>5 DEF TypeOK
<1>2. OnlyConnectedHold'
  BY DEF module_init, Loaded, OnlyConnectedHold, Held
<1>3. TriggerCoversSubscriptions'
  BY DEF module_init, Loaded, TriggerCoversSubscriptions, Active
<1>. QED  BY <1>1, <1>2, <1>3 DEF IInv

--------------------------------------------------------------------------------
\* The theorems

\* A step that changes nothing keeps the invariant.
LEMMA StutterInv == IInv /\ UNCHANGED vars => IInv'
BY DEF vars, connVars, dataVars, eventVars, IInv, TypeOK, OnlyConnectedHold,
       TriggerCoversSubscriptions, Active, Subscribed, Held

\* Every step keeps the invariant.
LEMMA StepInv == IInv /\ [Next]_vars => IInv'
<1>. SUFFICES ASSUME IInv, [Next]_vars PROVE IInv'
  OBVIOUS
<1>1. ASSUME NEW c \in Clients, Handler(c) PROVE IInv'
  <2>1. CASE ConnectEvent(c)
    BY <2>1, ConnectInv
  <2>2. CASE Disconnect(c)
    BY <2>2, DisconnectInv
  <2>3. CASE StatelessCommand(c)
    BY <2>3, TouchInv DEF StatelessCommand
  <2>4. CASE ClientAck(c)
    BY <2>4, TouchInv DEF ClientAck
  <2>5. CASE Suspend(c)
    BY <2>5, SuspendInv
  <2>6. CASE Resume(c)
    BY <2>6, ResumeInv
  <2>7. ASSUME NEW r \in RequestIds, RemoveRequest(c, r) PROVE IInv'
    BY <2>7, RemoveRequestInv
  <2>8. ASSUME NEW r \in RequestIds, UpdateCommand(c, r) PROVE IInv'
    BY <2>8, UpdateCommandInv
  <2>9. ASSUME NEW r \in RequestIds, NEW req \in DataRequest, AddRequest(c, r, req) PROVE IInv'
    BY <2>9, AddRequestInv
  <2>10. ASSUME NEW r \in RequestIds, NEW req \in DataRequest, UpdateRequest(c, r, req) PROVE IInv'
    BY <2>10, UpdateRequestInv
  <2>11. ASSUME NEW e \in EventIds, RegisterEvent(c, e) PROVE IInv'
    BY <2>11, RegisterEventInv
  <2>12. ASSUME NEW e \in EventIds, RemoveEvent(c, e) PROVE IInv'
    BY <2>12, RemoveEventInv
  <2>. QED  BY Zenon, <1>1, <2>1, <2>2, <2>3, <2>4, <2>5, <2>6, <2>7, <2>8, <2>9, <2>10, <2>11, <2>12
            DEF Handler
<1>2. CASE UNCHANGED vars
  BY <1>2, StutterInv
<1>. QED  BY <1>1, <1>2, TickInv, ElapseInv, SimValueInv, QuitInv, ModuleInitInv DEF Next

\* The strengthened invariant holds in every state the server reaches.
THEOREM Invariance == Spec => []IInv
BY InitInv, StepInv, PTL DEF Spec

\* The server's records, counters and maps keep their types through every sequence of messages.
THEOREM TypeCorrect == Spec => []TypeOK
<1>1. IInv => TypeOK
  BY DEF IInv
<1>. QED  BY <1>1, Invariance, PTL

\* disconnectClient() clears everything a client held, however the connection ended, and no handler
\* stores anything for a client which is not connected.
THEOREM OnlyConnectedClientsHold == Spec => []OnlyConnectedHold
<1>1. IInv => OnlyConnectedHold
  BY DEF IInv
<1>. QED  BY <1>1, Invariance, PTL

\* No sequence of subscriptions, suspensions, removals, disconnections and timeouts of any number of
\* clients turns the frame events off while one of them waits for updates.
THEOREM TriggerIsKept == Spec => []TriggerCoversSubscriptions
<1>1. IInv => TriggerCoversSubscriptions
  BY DEF IInv
<1>. QED  BY <1>1, Invariance, PTL

--------------------------------------------------------------------------------
\* Calculator events, and what the handlers for one client do to the others

\* Ids are given out in order and a removal undoes mappings of the event it removes only.  That the id
\* of a registered event lies below the next one keeps the next registration from taking it over.
MappedBelow ==
    \A c \in Clients : \A e \in events[c] :
        \E i \in SimEvents : i < nextEventId /\ eventIds[i] = <<c, e>>
NothingAbove == \A i \in SimEvents : i >= nextEventId => eventIds[i] = None

EInv == MappedBelow /\ NothingAbove

--------------------------------------------------------------------------------
\* The event map

\* The invariant is about the event map and the registered events only.
LEMMA EventFrame ==
  ASSUME EInv, UNCHANGED eventVars
  PROVE  EInv'
  BY DEF EInv, MappedBelow, NothingAbove, eventVars

\* A new event takes the next id, which no other event has.
LEMMA RegisterEventMaps ==
  ASSUME TypeOK, EInv, NEW c \in Clients, NEW e \in EventIds, RegisterEvent(c, e)
  PROVE  EInv'
<1>1. CASE UNCHANGED eventVars
  BY <1>1, EventFrame
<1>2. ASSUME nextEventId \in SimEvents, nextEventId' = nextEventId + 1,
             NEW compiled \in BOOLEAN, NEW mapped \in BOOLEAN,
             eventIds' = IF mapped THEN [eventIds EXCEPT ![nextEventId] = <<c, e>>] ELSE eventIds,
             events' = IF mapped /\ compiled THEN [events EXCEPT ![c] = @ \cup {e}] ELSE events
      PROVE  EInv'
  <2>1. \A i \in SimEvents : i \in Nat
    BY DEF SimEvents
  <2>2. eventIds \in [SimEvents -> (Clients \X EventIds) \cup {None}] /\ events \in [Clients -> SUBSET EventIds]
    BY DEF TypeOK
  <2>3. \A i \in SimEvents : i # nextEventId => eventIds'[i] = eventIds[i]
    BY <1>2, <2>2
  <2>4. MappedBelow'
    <3>1. SUFFICES ASSUME NEW d \in Clients, NEW f \in events'[d]
                   PROVE  \E i \in SimEvents : i < nextEventId' /\ eventIds'[i] = <<d, f>>
      BY DEF MappedBelow
    <3>2. CASE f \in events[d]
      <4>1. PICK i \in SimEvents : i < nextEventId /\ eventIds[i] = <<d, f>>
        BY <3>2 DEF EInv, MappedBelow
      <4>2. i < nextEventId' /\ i # nextEventId
        BY <1>2, <2>1, <4>1
      <4>. QED  BY <2>3, <4>1, <4>2
    <3>3. CASE f \notin events[d]
      <4>1. mapped /\ d = c /\ f = e
        BY <1>2, <2>2, <3>1, <3>3
      <4>2. eventIds'[nextEventId] = <<d, f>>
        BY <1>2, <2>2, <4>1
      <4>3. nextEventId < nextEventId'
        BY <1>2, <2>1
      <4>. QED  BY <1>2, <4>2, <4>3
    <3>. QED  BY <3>2, <3>3
  <2>5. NothingAbove'
    <3>1. SUFFICES ASSUME NEW i \in SimEvents, i >= nextEventId'
                   PROVE  eventIds'[i] = None
      BY DEF NothingAbove
    <3>2. i >= nextEventId /\ i # nextEventId
      BY <1>2, <2>1, <3>1
    <3>. QED  BY <2>3, <3>2 DEF EInv, NothingAbove
  <2>. QED  BY <2>4, <2>5 DEF EInv
<1>. QED  BY <1>1, <1>2, OutcomeType DEF RegisterEvent

\* Mappings that are erased belong to the events which are removed with them.
LEMMA ErasedMappings ==
  ASSUME TypeOK, EInv, nextEventId' = nextEventId,
         NEW erased \in SUBSET SimEvents,
         eventIds' = [i \in SimEvents |-> IF i \in erased THEN None ELSE eventIds[i]],
         \A d \in Clients : events'[d] \subseteq events[d],
         \A d \in Clients : \A f \in events'[d] : \A i \in erased : eventIds[i] # <<d, f>>
  PROVE  EInv'
<1>1. MappedBelow'
  <2>1. SUFFICES ASSUME NEW d \in Clients, NEW f \in events'[d]
                 PROVE  \E i \in SimEvents : i < nextEventId /\ eventIds'[i] = <<d, f>>
    BY DEF MappedBelow
  <2>2. PICK i \in SimEvents : i < nextEventId /\ eventIds[i] = <<d, f>>
    BY DEF EInv, MappedBelow
  <2>. QED  BY <2>2
<1>2. NothingAbove'
  BY DEF EInv, NothingAbove
<1>. QED  BY <1>1, <1>2 DEF EInv

\* Removing an event erases a mapping of that event.
LEMMA RemoveEventUnmaps ==
  ASSUME TypeOK, EInv, NEW c \in Clients, NEW e \in EventIds, RemoveEvent(c, e)
  PROVE  EInv'
<1>1. CASE UNCHANGED <<events, eventIds>>
  BY <1>1, EventFrame DEF RemoveEvent, eventVars
<1>2. CASE /\ events' = [events EXCEPT ![c] = @ \ {e}]
           /\ eventIds' = [i \in SimEvents |-> IF i \in FirstMapping(c, e) THEN None ELSE eventIds[i]]
  <2>1. FirstMapping(c, e) \in SUBSET SimEvents /\ \A i \in FirstMapping(c, e) : eventIds[i] = <<c, e>>
    BY DEF FirstMapping, Mapped
  <2>2. \A d \in Clients : events'[d] \subseteq events[d] /\ (d = c => e \notin events'[d])
    BY <1>2 DEF TypeOK
  <2>3. \A d \in Clients : \A f \in events'[d] : \A i \in FirstMapping(c, e) : eventIds[i] # <<d, f>>
    BY <2>1, <2>2
  <2>. QED  BY <1>2, <2>1, <2>2, <2>3, ErasedMappings DEF RemoveEvent
<1>. QED  BY <1>1, <1>2 DEF RemoveEvent

\* Clients that go take their own mappings with them.
LEMMA ClearedUnmaps ==
  ASSUME TypeOK, EInv, NEW gone \in SUBSET Clients,
         nextEventId' = nextEventId, events' = ClearedEvents(gone), eventIds' = ClearedEventIds(gone)
  PROVE  EInv'
<1> DEFINE erased == {i \in SimEvents : \E c \in gone : \E e \in events[c] : i \in FirstMapping(c, e)}
<1>1. \A i \in erased : \E c \in gone : \E e \in events[c] : eventIds[i] = <<c, e>>
  BY DEF FirstMapping, Mapped
<1>2. \A d \in Clients : events'[d] = IF d \in gone THEN {} ELSE events[d]
  BY DEF ClearedEvents
<1>3. \A d \in Clients : \A f \in events'[d] : \A i \in erased : eventIds[i] # <<d, f>>
  BY <1>1, <1>2
<1>4. eventIds' = [i \in SimEvents |-> IF i \in erased THEN None ELSE eventIds[i]]
  BY DEF ClearedEventIds
<1>5. erased \in SUBSET SimEvents
  OBVIOUS
<1> HIDE DEF erased
<1>6. \A d \in Clients : events'[d] \subseteq events[d]
  BY <1>2
<1>. QED  BY <1>3, <1>4, <1>5, <1>6, ErasedMappings

\* A module that was just loaded has no events.
LEMMA LoadedEvents == Init => EInv
  BY DEF Init, Loaded, EInv, MappedBelow, NothingAbove

\* Nor has one that was loaded again.
LEMMA ReloadedEvents == module_init => EInv'
  BY DEF module_init, Loaded, EInv, MappedBelow, NothingAbove

\* Every step keeps the invariant.
LEMMA EventStep == TypeOK /\ EInv /\ [Next]_vars => EInv'
<1>. SUFFICES ASSUME TypeOK, EInv, [Next]_vars PROVE EInv'
  OBVIOUS
<1>1. ASSUME NEW c \in Clients, Handler(c) PROVE EInv'
  <2>1. CASE UNCHANGED eventVars
    BY <2>1, EventFrame
  <2>2. CASE Disconnect(c)
    <3>1. {c} \in SUBSET Clients
      OBVIOUS
    <3>. QED  BY <2>2, <3>1, ClearedUnmaps DEF Disconnect
  <2>3. ASSUME NEW e \in EventIds, RegisterEvent(c, e) PROVE EInv'
    BY <2>3, RegisterEventMaps
  <2>4. ASSUME NEW e \in EventIds, RemoveEvent(c, e) PROVE EInv'
    BY <2>4, RemoveEventUnmaps
  <2>5. ASSUME NEW r \in RequestIds,
               \/ RemoveRequest(c, r)
               \/ UpdateCommand(c, r)
               \/ \E req \in DataRequest : AddRequest(c, r, req) \/ UpdateRequest(c, r, req)
        PROVE  UNCHANGED eventVars
    BY Zenon, <2>5 DEF RemoveRequest, UpdateCommand, AddRequest, UpdateRequest, eventVars
  <2>6. ASSUME ConnectEvent(c) \/ StatelessCommand(c) \/ ClientAck(c) \/ Suspend(c) \/ Resume(c)
        PROVE  UNCHANGED eventVars
    BY Zenon, <2>6 DEF ConnectEvent, StatelessCommand, ClientAck, Suspend, Resume, eventVars
  <2>. QED  BY Zenon, <1>1, <2>1, <2>2, <2>3, <2>4, <2>5, <2>6 DEF Handler
<1>2. CASE Tick
  <2>1. TimedOut \in SUBSET Clients
    BY DEF TimedOut, Served
  <2>. QED  BY <1>2, <2>1, ClearedUnmaps DEF Tick
<1>3. CASE Elapse \/ SimValueChanges \/ Quit \/ UNCHANGED vars
  <2>1. UNCHANGED eventVars
    BY Zenon, <1>3 DEF Elapse, SimValueChanges, Quit, vars, eventVars
  <2>. QED  BY <2>1, EventFrame
<1>4. CASE module_init
  BY <1>4, ReloadedEvents
<1>. QED  BY <1>1, <1>2, <1>3, <1>4 DEF Next

\* The strengthened invariant of the events holds in every state the server reaches.
THEOREM EventInvariance == Spec => []EInv
BY LoadedEvents, EventStep, TypeCorrect, PTL DEF Spec

\* Whatever registrations, failures, removals, disconnections and timeouts of any number of clients went
\* before, an event the server holds is mapped, and the next id to be given out is free.
THEOREM RegisteredEventsAreReachable == Spec => []EventsReachable
<1>1. EInv => EventsReachable
  <2>1. SUFFICES ASSUME EInv PROVE EventsReachable
    OBVIOUS
  <2>2. \A c \in Clients : \A e \in events[c] : Executions(c, e) # {}
    BY <2>1 DEF EInv, MappedBelow, Executions, Mapped
  <2>. QED  BY <2>1, <2>2 DEF EInv, NothingAbove, EventsReachable
<1>. QED  BY <1>1, EventInvariance, PTL

--------------------------------------------------------------------------------
\* Isolation

\* What a step leaves alone of one client
OwnState(d) ==
    /\ <<status[d], paused[d], timeout[d]>>' = <<status[d], paused[d], timeout[d]>>
    /\ <<requests[d], defs[d], area[d], events[d]>>' = <<requests[d], defs[d], area[d], events[d]>>
    /\ \A i \in SimEvents : \A e \in EventIds : (eventIds[i] = <<d, e>>) <=> (eventIds'[i] = <<d, e>>)
OthersKeep(c) == \A d \in Clients \ {c} : OwnState(d)

\* The message of one client renews the deadlines of that client.
LEMMA TouchIsolated ==
  ASSUME TypeOK, NEW c \in Clients, Touch(c), NEW d \in Clients \ {c}
  PROVE  status'[d] = status[d] /\ timeout'[d] = timeout[d]
  BY DEF Touch, TypeOK

\* Handlers that store nothing but deadlines
LEMMA StatusIsolated ==
  ASSUME TypeOK, NEW c \in Clients,
         ConnectEvent(c) \/ StatelessCommand(c) \/ ClientAck(c)
  PROVE  OthersKeep(c)
<1>. SUFFICES ASSUME NEW d \in Clients \ {c} PROVE OwnState(d)
  BY DEF OthersKeep
<1>1. UNCHANGED <<paused, dataVars, eventVars>>
  BY DEF ConnectEvent, StatelessCommand, ClientAck
<1>2. status'[d] = status[d] /\ timeout'[d] = timeout[d]
  BY TouchIsolated DEF ConnectEvent, StatelessCommand, ClientAck, TypeOK
<1>. QED  BY <1>1, <1>2 DEF OwnState, dataVars, eventVars

\* Handlers that store something of the client's own as well
LEMMA RequestsIsolated ==
  ASSUME TypeOK, NEW c \in Clients, Touch(c), UNCHANGED eventVars,
         \A d \in Clients \ {c} :
            <<paused[d], requests[d], defs[d], area[d]>>' = <<paused[d], requests[d], defs[d], area[d]>>
  PROVE  OthersKeep(c)
  BY TouchIsolated DEF OthersKeep, OwnState, eventVars

\* Scheduling a request stores values of that request.
LEMMA ScheduleIsolated ==
  ASSUME TypeOK, NEW c \in Clients, NEW r \in RequestIds, NEW tr, NEW def, Schedule(c, r, tr, def),
         NEW d \in Clients \ {c}
  PROVE  <<requests[d], defs[d], area[d]>>' = <<requests[d], defs[d], area[d]>>
<1>1. /\ \E x : requests' = [requests EXCEPT ![c][r] = x]
      /\ defs' = [defs EXCEPT ![c][r] = def]
      /\ area' = area \/ \E x : area' = [area EXCEPT ![c][r] = x]
  BY Zenon DEF Schedule
<1>. QED  BY <1>1 DEF TypeOK

\* Handlers for a data request
LEMMA RequestHandlersIsolated ==
  ASSUME TypeOK, NEW c \in Clients, NEW r \in RequestIds,
         \/ RemoveRequest(c, r)
         \/ UpdateCommand(c, r)
         \/ \E req \in DataRequest : AddRequest(c, r, req) \/ UpdateRequest(c, r, req)
  PROVE  OthersKeep(c)
<1>1. Touch(c) /\ UNCHANGED <<paused, eventVars>>
  BY Zenon DEF RemoveRequest, UpdateCommand, AddRequest, UpdateRequest
<1>. SUFFICES ASSUME NEW d \in Clients \ {c}
              PROVE  <<requests[d], defs[d], area[d]>>' = <<requests[d], defs[d], area[d]>>
  BY <1>1, RequestsIsolated
<1>2. CASE RemoveRequest(c, r)
  <2>1. /\ requests' = requests \/ requests' = [requests EXCEPT ![c][r] = None]
        /\ defs' = defs \/ defs' = [defs EXCEPT ![c][r] = 0]
        /\ area' = area
    BY Zenon, <1>2 DEF RemoveRequest
  <2>. QED  BY <2>1 DEF TypeOK
<1>3. CASE UpdateCommand(c, r)
  <2>1. /\ requests' = requests \/ \E x : requests' = [requests EXCEPT ![c][r] = x]
        /\ defs' = defs
        /\ area' = area \/ \E x : area' = [area EXCEPT ![c][r] = x]
    BY Zenon, <1>3 DEF UpdateCommand
  <2>. QED  BY <2>1 DEF TypeOK
<1>4. ASSUME NEW req \in DataRequest, AddRequest(c, r, req)
      PROVE  <<requests[d], defs[d], area[d]>>' = <<requests[d], defs[d], area[d]>>
  <2>1. Schedule(c, r, NewRequest(req), req.size) \/ UNCHANGED dataVars
    BY Zenon, <1>4 DEF AddRequest
  <2>. QED  BY <2>1, ScheduleIsolated DEF dataVars
<1>5. ASSUME NEW req \in DataRequest, UpdateRequest(c, r, req)
      PROVE  <<requests[d], defs[d], area[d]>>' = <<requests[d], defs[d], area[d]>>
  <2>1. \/ \E def : Schedule(c, r, Assigned(requests[c][r], req), def)
        \/ UNCHANGED <<requests, area>> /\ \E x : defs' = [defs EXCEPT ![c][r] = x]
        \/ UNCHANGED dataVars
    BY Zenon, <1>5 DEF UpdateRequest
  <2>2. CASE \E def : Schedule(c, r, Assigned(requests[c][r], req), def)
    BY <2>2, ScheduleIsolated
  <2>3. CASE UNCHANGED <<requests, area>> /\ \E x : defs' = [defs EXCEPT ![c][r] = x]
    BY <2>3 DEF TypeOK
  <2>. QED  BY <2>1, <2>2, <2>3 DEF dataVars
<1>. QED  BY <1>2, <1>3, <1>4, <1>5

\* Suspension and resumption
LEMMA PauseIsolated ==
  ASSUME TypeOK, NEW c \in Clients, Suspend(c) \/ Resume(c)
  PROVE  OthersKeep(c)
<1>1. Touch(c) /\ UNCHANGED eventVars /\ defs' = defs
  BY DEF Suspend, Resume, dataVars
<1>2. \E x : paused' = [paused EXCEPT ![c] = x]
  BY Zenon DEF Suspend, Resume
<1>3. /\ requests' = requests \/ \E x : requests' = [requests EXCEPT ![c] = x]
      /\ area' = area \/ \E x : area' = [area EXCEPT ![c] = x]
  BY Zenon DEF Suspend, Resume, dataVars
<1>4. \A d \in Clients \ {c} :
         <<paused[d], requests[d], area[d]>>' = <<paused[d], requests[d], area[d]>>
  BY <1>2, <1>3 DEF TypeOK
<1>. QED  BY <1>1, <1>4, RequestsIsolated

\* Erased mappings of one client are no mappings of another.
LEMMA ErasedIsolated ==
  ASSUME NEW c \in Clients, NEW d \in Clients \ {c}, NEW erased \in SUBSET SimEvents,
         \A i \in erased : \E e \in EventIds : eventIds[i] = <<c, e>>,
         eventIds' = [i \in SimEvents |-> IF i \in erased THEN None ELSE eventIds[i]]
  PROVE  \A i \in SimEvents : \A e \in EventIds :
            (eventIds[i] = <<d, e>>) <=> (eventIds'[i] = <<d, e>>)
<1>. SUFFICES ASSUME NEW i \in SimEvents, NEW e \in EventIds
              PROVE  (eventIds[i] = <<d, e>>) <=> (eventIds'[i] = <<d, e>>)
  OBVIOUS
<1>1. CASE i \in erased
  <2>1. eventIds[i] # <<d, e>>
    BY <1>1
  <2>2. eventIds'[i] = None
    BY <1>1
  <2>3. None # <<d, e>>
    BY ServerConstants
  <2>. QED  BY <2>1, <2>2, <2>3
<1>2. CASE i \notin erased
  BY <1>2
<1>. QED  BY <1>1, <1>2

\* Handlers for an event, and the disconnection
LEMMA EventHandlersIsolated ==
  ASSUME TypeOK, NothingAbove, NEW c \in Clients,
         Disconnect(c) \/ \E e \in EventIds : RegisterEvent(c, e) \/ RemoveEvent(c, e)
  PROVE  OthersKeep(c)
<1>. SUFFICES ASSUME NEW d \in Clients \ {c} PROVE OwnState(d)
  BY DEF OthersKeep
<1>1. CASE Disconnect(c)
  <2>1. /\ <<status[d], paused[d], timeout[d]>>' = <<status[d], paused[d], timeout[d]>>
        /\ <<requests[d], defs[d], area[d], events[d]>>' = <<requests[d], defs[d], area[d], events[d]>>
    BY <1>1 DEF Disconnect, ClearedRequests, ClearedDefs, ClearedEvents, TypeOK
  <2> DEFINE erased == {i \in SimEvents : \E e \in events[c] : i \in FirstMapping(c, e)}
  <2>2. eventIds' = [i \in SimEvents |-> IF i \in erased THEN None ELSE eventIds[i]]
    BY <1>1 DEF Disconnect, ClearedEventIds
  <2>3. \A i \in erased : \E e \in EventIds : eventIds[i] = <<c, e>>
    BY DEF FirstMapping, Mapped, TypeOK
  <2>4. erased \in SUBSET SimEvents
    OBVIOUS
  <2> HIDE DEF erased
  <2>5. \A i \in SimEvents : \A e \in EventIds :
            (eventIds[i] = <<d, e>>) <=> (eventIds'[i] = <<d, e>>)
    BY <2>2, <2>3, <2>4, ErasedIsolated
  <2>. QED  BY <2>1, <2>5 DEF OwnState
<1>2. ASSUME NEW e \in EventIds, RemoveEvent(c, e) PROVE OwnState(d)
  <2>1. Touch(c) /\ UNCHANGED <<paused, dataVars>>
    BY <1>2 DEF RemoveEvent
  <2>2. events'[d] = events[d]
    BY <1>2 DEF RemoveEvent, TypeOK
  <2>3. FirstMapping(c, e) \in SUBSET SimEvents /\ \A i \in FirstMapping(c, e) : eventIds[i] = <<c, e>>
    BY DEF FirstMapping, Mapped
  <2>4. \/ eventIds' = eventIds
        \/ eventIds' = [i \in SimEvents |-> IF i \in FirstMapping(c, e) THEN None ELSE eventIds[i]]
    BY Zenon, <1>2 DEF RemoveEvent
  <2>5. \A i \in SimEvents : \A f \in EventIds :
            (eventIds[i] = <<d, f>>) <=> (eventIds'[i] = <<d, f>>)
    BY <2>3, <2>4, ErasedIsolated
  <2>. QED  BY <2>1, <2>2, <2>5, TouchIsolated DEF OwnState, dataVars
<1>3. ASSUME NEW e \in EventIds, RegisterEvent(c, e) PROVE OwnState(d)
  <2>1. Touch(c) /\ UNCHANGED <<paused, dataVars>>
    BY <1>3 DEF RegisterEvent
  <2>2. events' = events \/ events' = [events EXCEPT ![c] = @ \cup {e}]
    BY Zenon, <1>3 DEF RegisterEvent, eventVars
  <2>3. \/ eventIds' = eventIds
        \/ nextEventId \in SimEvents /\ eventIds' = [eventIds EXCEPT ![nextEventId] = <<c, e>>]
    BY Zenon, <1>3 DEF RegisterEvent, eventVars
  <2>4. \A i \in SimEvents : \A f \in EventIds :
            (eventIds[i] = <<d, f>>) <=> (eventIds'[i] = <<d, f>>)
    <3>1. CASE eventIds' = eventIds
      BY <3>1
    <3>2. CASE nextEventId \in SimEvents /\ eventIds' = [eventIds EXCEPT ![nextEventId] = <<c, e>>]
      <4>1. nextEventId >= nextEventId
        BY <3>2 DEF SimEvents
      <4>2. eventIds[nextEventId] = None
        BY <3>2, <4>1 DEF NothingAbove
      <4>3. \A f \in EventIds : None # <<d, f>>
        BY ServerConstants
      <4>. QED  BY <3>2, <4>2, <4>3 DEF TypeOK
    <3>. QED  BY <2>3, <3>1, <3>2
  <2>. QED  BY <2>1, <2>2, <2>4, TouchIsolated DEF OwnState, TypeOK, dataVars
<1>. QED  BY <1>1, <1>2, <1>3

\* All handlers
LEMMA HandlersIsolated ==
  ASSUME TypeOK, NothingAbove, NEW c \in Clients, Handler(c)
  PROVE  OthersKeep(c)
  BY Zenon, StatusIsolated, RequestHandlersIsolated, PauseIsolated, EventHandlersIsolated DEF Handler

\* No message of a client, whatever ids it uses, changes what the server keeps for another client.
THEOREM ClientsStayIsolated == Spec => ClientsAreIsolated
<1>1. TypeOK /\ EInv => (\A c \in Clients : Handler(c) =>
         \A d \in Clients \ {c} :
            /\ <<status[d], paused[d], timeout[d]>>' = <<status[d], paused[d], timeout[d]>>
            /\ <<requests[d], defs[d], area[d], events[d]>>' = <<requests[d], defs[d], area[d], events[d]>>
            /\ \A i \in SimEvents : \A e \in EventIds : (eventIds[i] = <<d, e>>) <=> (eventIds'[i] = <<d, e>>))
  BY HandlersIsolated DEF EInv, OthersKeep, OwnState
<1>. QED  BY <1>1, EventInvariance, TypeCorrect, PTL DEF ClientsAreIsolated

--------------------------------------------------------------------------------
\* The values of data requests

\* What holds of a request tr with a definition of size def and value v in its data area.
InStep(tr, def, v) == tr.data # Fill /\ def = tr.size => v = tr.data

Delivered(c, r) == requests[c][r] # None => InStep(requests[c][r], defs[c][r], area[c][r])
DInv == \A c \in Clients : \A r \in RequestIds : Delivered(c, r)

\* One request as a handler may leave it: as it was, removed, evaluated and written, or with a definition lost.
LEMMA WrittenInStep ==
  ASSUME NEW tr \in TrackedRequest, NEW ok \in BOOLEAN, NEW cmp \in BOOLEAN, NEW def, NEW old,
         InStep(tr, def, old)
  PROVE  InStep(Evaluated(tr, ok, cmp), def, Written(tr, ok, cmp, def, old))
<1>1. CASE ~ok
  BY <1>1 DEF InStep, Evaluated, Written, TrackedRequest
<1>2. CASE ok /\ Unchanged(tr, cmp)
  BY <1>2 DEF InStep, Evaluated, Written
<1>3. CASE ok /\ ~Unchanged(tr, cmp)
  BY <1>3 DEF InStep, Evaluated, Written, TrackedRequest
<1>. QED  BY <1>1, <1>2, <1>3

--------------------------------------------------------------------------------
\* The handlers

\* A step that concerns one request of one client
LEMMA OneRequest ==
  ASSUME TypeOK, DInv, NEW c \in Clients, NEW r \in RequestIds,
         requests' = requests \/ \E x : requests' = [requests EXCEPT ![c][r] = x],
         defs' = defs \/ \E x : defs' = [defs EXCEPT ![c][r] = x],
         area' = area \/ \E x : area' = [area EXCEPT ![c][r] = x],
         Delivered(c, r)'
  PROVE  DInv'
<1>. SUFFICES ASSUME NEW d \in Clients, NEW q \in RequestIds, ~(d = c /\ q = r)
              PROVE  Delivered(d, q)'
  BY DEF DInv
<1>1. requests'[d][q] = requests[d][q] /\ defs'[d][q] = defs[d][q] /\ area'[d][q] = area[d][q]
  BY DEF TypeOK
<1>. QED  BY <1>1 DEF DInv, Delivered

\* A request that is stored with a definition of its own is evaluated once it is scheduled.
LEMMA ScheduleInStep ==
  ASSUME TypeOK, DInv, NEW c \in Clients, NEW r \in RequestIds, NEW tr \in TrackedRequest,
         NEW def, InStep(tr, def, area[c][r]), Schedule(c, r, tr, def)
  PROVE  DInv'
<1> DEFINE looked(found) == IF found THEN Clamped(tr) ELSE [tr EXCEPT !.period = "Never"]
           final(found, ok) ==
             IF looked(found).period = "Never" THEN looked(found)
             ELSE IF ~paused[c] THEN Evaluated(looked(found), ok, FALSE)
             ELSE IF looked(found).period = "Once" THEN [looked(found) EXCEPT !.interval = 1]
             ELSE looked(found)
<1>1. PICK found \in Outcome("lookup"), ok \in Outcome("lookup") :
        /\ requests' = [requests EXCEPT ![c][r] = final(found, ok)]
        /\ defs' = [defs EXCEPT ![c][r] = def]
        /\ area' = IF looked(found).period = "Never" \/ paused[c] THEN area
                   ELSE [area EXCEPT ![c][r] = Written(looked(found), ok, FALSE, def, area[c][r])]
  BY Zenon DEF Schedule
<1>2. found \in BOOLEAN /\ ok \in BOOLEAN
  BY OutcomeType
<1>3. looked(found) \in TrackedRequest /\ looked(found).data = tr.data /\ looked(found).size = tr.size
  BY DEF Clamped, TrackedRequest, Periods
<1>4. InStep(looked(found), def, area[c][r])
  BY <1>3 DEF InStep
<1> HIDE DEF looked
<1>5. requests'[c][r] = final(found, ok) /\ defs'[c][r] = def
  BY <1>1 DEF TypeOK
<1>6. Delivered(c, r)'
  <2>1. CASE looked(found).period = "Never" \/ paused[c]
    <3>1. area'[c][r] = area[c][r]
      BY <1>1, <2>1
    <3>2. final(found, ok).data = looked(found).data /\ final(found, ok).size = looked(found).size
      BY <1>3, <2>1 DEF TrackedRequest
    <3>. QED  BY <1>4, <1>5, <3>1, <3>2 DEF Delivered, InStep
  <2>2. CASE ~(looked(found).period = "Never" \/ paused[c])
    <3>1. area'[c][r] = Written(looked(found), ok, FALSE, def, area[c][r])
      BY <1>1, <2>2 DEF TypeOK
    <3>2. final(found, ok) = Evaluated(looked(found), ok, FALSE)
      BY <2>2
    <3>3. InStep(Evaluated(looked(found), ok, FALSE), def, Written(looked(found), ok, FALSE, def, area[c][r]))
      BY <1>2, <1>3, <1>4, WrittenInStep
    <3>. QED  BY <1>5, <3>1, <3>2, <3>3 DEF Delivered
  <2>. QED  BY <2>1, <2>2
<1>7. /\ \E x : requests' = [requests EXCEPT ![c][r] = x]
      /\ \E x : defs' = [defs EXCEPT ![c][r] = x]
      /\ area' = area \/ \E x : area' = [area EXCEPT ![c][r] = x]
  BY Zenon, <1>1
<1>. QED  BY <1>6, <1>7, OneRequest

\* A handler that concerns no value
LEMMA DataFrame ==
  ASSUME DInv, UNCHANGED dataVars
  PROVE  DInv'
  BY DEF DInv, Delivered, dataVars

\* A new request starts with the fill pattern, which is no value.
LEMMA AddInStep ==
  ASSUME TypeOK, DInv, NEW c \in Clients, NEW r \in RequestIds, NEW req \in DataRequest,
         AddRequest(c, r, req)
  PROVE  DInv'
<1>1. Schedule(c, r, NewRequest(req), req.size) \/ UNCHANGED dataVars
  BY Zenon DEF AddRequest
<1>2. InStep(NewRequest(req), req.size, area[c][r])
  BY DEF InStep, NewRequest
<1>. QED  BY <1>1, <1>2, NewRequestType, ScheduleInStep, DataFrame

\* A changed request keeps its value with its definition, or has neither; a definition that is lost has no size.
LEMMA UpdateInStep ==
  ASSUME TypeOK, DInv, NEW c \in Clients, NEW r \in RequestIds, NEW req \in DataRequest,
         UpdateRequest(c, r, req)
  PROVE  DInv'
<1> DEFINE tr == requests[c][r]
<1>1. tr \in TrackedRequest /\ InStep(tr, defs[c][r], area[c][r])
  BY DEF UpdateRequest, TypeOK, DInv, Delivered
<1>2. \/ UNCHANGED dataVars
      \/ /\ \E def \in {defs[c][r], 0} : defs' = [defs EXCEPT ![c][r] = def]
         /\ UNCHANGED <<requests, area>>
      \/ /\ req.size <= tr.size
         /\ Schedule(c, r, Assigned(tr, req), IF req.size < tr.size THEN req.size ELSE defs[c][r])
  BY Zenon DEF UpdateRequest
<1>3. CASE /\ \E def \in {defs[c][r], 0} : defs' = [defs EXCEPT ![c][r] = def]
           /\ UNCHANGED <<requests, area>>
  <2>1. defs'[c][r] \in {defs[c][r], 0}
    BY <1>3 DEF TypeOK
  <2>2. tr.size # 0
    BY <1>1, ServerConstants DEF TrackedRequest
  <2>3. Delivered(c, r)'
    BY <1>1, <1>3, <2>1, <2>2 DEF Delivered, InStep
  <2>. QED  BY <1>3, <2>3, OneRequest
<1>4. CASE /\ req.size <= tr.size
           /\ Schedule(c, r, Assigned(tr, req), IF req.size < tr.size THEN req.size ELSE defs[c][r])
  <2>1. Assigned(tr, req) \in TrackedRequest
    BY <1>1, AssignedType
  <2>2. req.size \in Nat /\ tr.size \in Nat
    BY <1>1, ServerConstants DEF DataRequest, TrackedRequest
  <2>3. CASE req.size = tr.size
    <3>1. InStep(Assigned(tr, req), defs[c][r], area[c][r])
      BY <1>1, <2>3 DEF InStep, Assigned
    <3>2. ~(req.size < tr.size)
      BY <2>2, <2>3
    <3>. QED  BY <1>4, <2>1, <3>1, <3>2, ScheduleInStep
  <2>4. CASE req.size # tr.size
    <3>1. InStep(Assigned(tr, req), req.size, area[c][r])
      BY <2>4 DEF InStep, Assigned
    <3>2. req.size < tr.size
      BY <1>4, <2>2, <2>4
    <3>. QED  BY <1>4, <2>1, <3>1, <3>2, ScheduleInStep
  <2>. QED  BY <2>3, <2>4
<1>. QED  BY <1>2, <1>3, <1>4, DataFrame

\* The Update command sends what it stores.
LEMMA UpdateCommandInStep ==
  ASSUME TypeOK, DInv, NEW c \in Clients, NEW r \in RequestIds, UpdateCommand(c, r)
  PROVE  DInv'
<1>1. CASE UNCHANGED dataVars
  BY <1>1, DataFrame
<1>2. ASSUME requests[c][r] # None, NEW ok \in Outcome("lookup"), defs' = defs,
             requests' = [requests EXCEPT ![c][r] = Evaluated(requests[c][r], ok, FALSE)],
             area' = [area EXCEPT ![c][r] = Written(requests[c][r], ok, FALSE, defs[c][r], area[c][r])]
      PROVE  DInv'
  <2>1. requests[c][r] \in TrackedRequest /\ ok \in BOOLEAN
    BY <1>2, OutcomeType DEF TypeOK
  <2>2. InStep(requests[c][r], defs[c][r], area[c][r])
    BY <1>2 DEF DInv, Delivered
  <2>3. /\ requests'[c][r] = Evaluated(requests[c][r], ok, FALSE)
        /\ area'[c][r] = Written(requests[c][r], ok, FALSE, defs[c][r], area[c][r])
    BY <1>2 DEF TypeOK
  <2>4. InStep(Evaluated(requests[c][r], ok, FALSE), defs[c][r],
               Written(requests[c][r], ok, FALSE, defs[c][r], area[c][r]))
    BY <2>1, <2>2, WrittenInStep
  <2>5. Delivered(c, r)'
    BY <1>2, <2>3, <2>4 DEF Delivered
  <2>. QED  BY <1>2, <2>5, OneRequest
<1>. QED  BY Zenon, <1>1, <1>2 DEF UpdateCommand, dataVars

\* A removed request has nothing to be delivered.
LEMMA RemoveInStep ==
  ASSUME TypeOK, DInv, NEW c \in Clients, NEW r \in RequestIds, RemoveRequest(c, r)
  PROVE  DInv'
<1>1. CASE UNCHANGED dataVars
  BY <1>1, DataFrame
<1>2. CASE /\ requests' = [requests EXCEPT ![c][r] = None]
           /\ defs' = [defs EXCEPT ![c][r] = 0]
           /\ area' = area
  <2>1. Delivered(c, r)'
    BY <1>2 DEF Delivered, TypeOK
  <2>. QED  BY <1>2, <2>1, OneRequest
<1>. QED  BY Zenon, <1>1, <1>2 DEF RemoveRequest, dataVars

\* Pending values are sent as they are stored on resumption.
LEMMA ResumeInStep ==
  ASSUME TypeOK, DInv, NEW c \in Clients, Resume(c)
  PROVE  DInv'
<1>1. CASE UNCHANGED dataVars
  BY <1>1, DataFrame
<1>2. ASSUME NEW ok \in [Pending(c) -> Outcome("lookup")], defs' = defs,
             requests' = [requests EXCEPT ![c] = [r \in RequestIds |->
                IF r \in Pending(c) THEN Evaluated(Sent(requests[c][r]), ok[r], TRUE)
                ELSE requests[c][r]]],
             area' = [area EXCEPT ![c] = [r \in RequestIds |->
                IF r \in Pending(c)
                THEN Written(requests[c][r], ok[r], TRUE, defs[c][r], area[c][r])
                ELSE area[c][r]]]
      PROVE  DInv'
  <2>. SUFFICES ASSUME NEW d \in Clients, NEW r \in RequestIds PROVE Delivered(d, r)'
    BY DEF DInv
  <2>1. CASE d = c /\ r \in Pending(c)
    <3>1. requests[c][r] # None /\ requests[c][r] \in TrackedRequest /\ ok[r] \in BOOLEAN
      BY <2>1, OutcomeType DEF Pending, Held, TypeOK
    <3>2. /\ Sent(requests[c][r]) \in TrackedRequest
          /\ Sent(requests[c][r]).data = requests[c][r].data
          /\ Sent(requests[c][r]).size = requests[c][r].size
          /\ Sent(requests[c][r]).compare = requests[c][r].compare
      BY <3>1 DEF Sent, TrackedRequest
    <3>3. InStep(Sent(requests[c][r]), defs[c][r], area[c][r])
      BY <3>1, <3>2 DEF DInv, Delivered, InStep
    <3>4. Written(Sent(requests[c][r]), ok[r], TRUE, defs[c][r], area[c][r])
             = Written(requests[c][r], ok[r], TRUE, defs[c][r], area[c][r])
      BY <3>2 DEF Written, Unchanged
    <3>5. requests'[c][r] = Evaluated(Sent(requests[c][r]), ok[r], TRUE)
      BY <1>2, <2>1 DEF TypeOK
    <3>6. area'[c][r] = Written(requests[c][r], ok[r], TRUE, defs[c][r], area[c][r])
      BY <1>2, <2>1 DEF TypeOK
    <3>7. InStep(Evaluated(Sent(requests[c][r]), ok[r], TRUE), defs[c][r],
                 Written(Sent(requests[c][r]), ok[r], TRUE, defs[c][r], area[c][r]))
      BY <3>1, <3>2, <3>3, WrittenInStep
    <3>. QED  BY <1>2, <2>1, <3>4, <3>5, <3>6, <3>7 DEF Delivered
  <2>2. CASE ~(d = c /\ r \in Pending(c))
    <3>1. requests'[d][r] = requests[d][r] /\ area'[d][r] = area[d][r]
      BY <1>2, <2>2 DEF TypeOK
    <3>. QED  BY <1>2, <3>1 DEF DInv, Delivered
  <2>. QED  BY <2>1, <2>2
<1>. QED  BY Zenon, <1>1, <1>2 DEF Resume, dataVars

--------------------------------------------------------------------------------
\* The frame event, time and the rest

\* tick() sends what it stores, and clears clients that are late.
LEMMA TickInStep ==
  ASSUME TypeOK, DInv, Tick
  PROVE  DInv'
<1> DEFINE now(c) == c \in Served \ TimedOut
<1>1. PICK ok \in [Clients -> [RequestIds -> Outcome("lookup")]] :
        /\ requests' = [c \in Clients |-> [r \in RequestIds |->
              IF now(c) /\ r \in Due(c)
              THEN Rescheduled(Evaluated(requests[c][r], ok[c][r], TRUE))
              ELSE ClearedRequests(TimedOut)[c][r]]]
        /\ area' = [c \in Clients |-> [r \in RequestIds |->
              IF now(c) /\ r \in Due(c)
              THEN Written(requests[c][r], ok[c][r], TRUE, defs[c][r], area[c][r])
              ELSE area[c][r]]]
  BY DEF Tick
<1>. SUFFICES ASSUME NEW c \in Clients, NEW r \in RequestIds PROVE Delivered(c, r)'
  BY DEF DInv
<1>2. defs'[c][r] = IF c \in TimedOut /\ requests[c][r] # None THEN 0 ELSE defs[c][r]
  BY DEF Tick, ClearedDefs
<1>3. CASE now(c) /\ r \in Due(c)
  <2>1. requests[c][r] # None /\ requests[c][r] \in TrackedRequest /\ ok[c][r] \in BOOLEAN
    BY <1>3, OutcomeType DEF Due, Subscribed, Held, TypeOK
  <2> DEFINE tr == Evaluated(requests[c][r], ok[c][r], TRUE)
             v == Written(requests[c][r], ok[c][r], TRUE, defs[c][r], area[c][r])
  <2>2. InStep(requests[c][r], defs[c][r], area[c][r])
    BY <2>1 DEF DInv, Delivered
  <2>3. InStep(tr, defs[c][r], v)
    BY <2>1, <2>2, WrittenInStep
  <2>4. tr \in TrackedRequest
    BY <2>1, EvaluatedType DEF TypeOK
  <2>5. requests'[c][r] = Rescheduled(tr) /\ area'[c][r] = v
    BY <1>1, <1>3
  <2>6. defs'[c][r] = defs[c][r]
    BY <1>2, <1>3
  <2> HIDE DEF tr, v
  <2>7. Rescheduled(tr).data = tr.data /\ Rescheduled(tr).size = tr.size
    BY <2>4 DEF Rescheduled, TrackedRequest
  <2>. QED  BY <2>3, <2>5, <2>6, <2>7 DEF Delivered, InStep
<1>4. CASE ~(now(c) /\ r \in Due(c))
  <2>1. requests'[c][r] = ClearedRequests(TimedOut)[c][r] /\ area'[c][r] = area[c][r]
    BY <1>1, <1>4
  <2>2. requests'[c][r] = IF c \in TimedOut THEN None ELSE requests[c][r]
    BY <2>1 DEF ClearedRequests
  <2>. QED  BY <1>2, <2>1, <2>2 DEF DInv, Delivered
<1>. QED  BY <1>3, <1>4

\* The clock moves deadlines only.
LEMMA ElapseInStep ==
  ASSUME TypeOK, DInv, Elapse
  PROVE  DInv'
<1>. SUFFICES ASSUME NEW c \in Clients, NEW r \in RequestIds, requests'[c][r] # None
              PROVE  InStep(requests'[c][r], defs'[c][r], area'[c][r])
  BY DEF DInv, Delivered
<1>1. CASE requests[c][r] = None
  BY <1>1 DEF Elapse
<1>2. CASE requests[c][r] # None
  <2>1. requests[c][r] \in TrackedRequest
    BY <1>2 DEF TypeOK
  <2>2. requests'[c][r] = [requests[c][r] EXCEPT !.due = Decrement(@)]
    BY <1>2 DEF Elapse
  <2>3. requests'[c][r].data = requests[c][r].data /\ requests'[c][r].size = requests[c][r].size
    BY <2>1, <2>2 DEF TrackedRequest
  <2>4. defs'[c][r] = defs[c][r] /\ area'[c][r] = area[c][r]
    BY DEF Elapse
  <2>. QED  BY <1>2, <2>3, <2>4 DEF DInv, Delivered, InStep
<1>. QED  BY <1>1, <1>2

\* A client that disconnects holds no request.
LEMMA DisconnectInStep ==
  ASSUME TypeOK, DInv, NEW c \in Clients, Disconnect(c)
  PROVE  DInv'
<1>. SUFFICES ASSUME NEW d \in Clients, NEW r \in RequestIds PROVE Delivered(d, r)'
  BY DEF DInv
<1>1. /\ requests'[d][r] = IF d = c THEN None ELSE requests[d][r]
      /\ d # c => defs'[d][r] = defs[d][r]
      /\ area' = area
  BY DEF Disconnect, ClearedRequests, ClearedDefs
<1>. QED  BY <1>1 DEF DInv, Delivered

\* Every step keeps the invariant.
LEMMA DataStep == TypeOK /\ DInv /\ [Next]_vars => DInv'
<1>. SUFFICES ASSUME TypeOK, DInv, [Next]_vars PROVE DInv'
  OBVIOUS
<1>1. ASSUME NEW c \in Clients, Handler(c) PROVE DInv'
  <2>1. CASE UNCHANGED dataVars
    BY <2>1, DataFrame
  <2>2. ASSUME \/ ConnectEvent(c) \/ StatelessCommand(c) \/ ClientAck(c) \/ Suspend(c)
               \/ \E e \in EventIds : RegisterEvent(c, e) \/ RemoveEvent(c, e)
        PROVE  UNCHANGED dataVars
    BY Zenon, <2>2 DEF ConnectEvent, StatelessCommand, ClientAck, Suspend, RegisterEvent, RemoveEvent
  <2>3. ASSUME NEW r \in RequestIds,
               \/ RemoveRequest(c, r)
               \/ UpdateCommand(c, r)
               \/ \E req \in DataRequest : AddRequest(c, r, req) \/ UpdateRequest(c, r, req)
        PROVE  DInv'
    BY <2>3, RemoveInStep, UpdateCommandInStep, AddInStep, UpdateInStep
  <2>. QED  BY Zenon, <1>1, <2>1, <2>2, <2>3, ResumeInStep, DisconnectInStep DEF Handler
<1>2. CASE SimValueChanges \/ Quit \/ UNCHANGED vars
  <2>1. UNCHANGED dataVars
    BY Zenon, <1>2 DEF SimValueChanges, Quit, vars, dataVars
  <2>. QED  BY <2>1, DataFrame
<1>3. CASE module_init
  BY <1>3 DEF module_init, Loaded, DInv, Delivered
<1>. QED  BY <1>1, <1>2, <1>3, TickInStep, ElapseInStep DEF Next

\* Through every order of updates, size changes, failed lookups and definitions, suspensions and
\* resumptions, the value with which tick() compares the next one is the value the client can read.
THEOREM StoredValuesAreDelivered == Spec => []StoredValueIsDelivered
<1>1. Init => DInv
  BY DEF Init, Loaded, DInv, Delivered
<1>2. DInv => StoredValueIsDelivered
  BY DEF DInv, Delivered, InStep, StoredValueIsDelivered, Held
<1>. QED  BY <1>1, <1>2, DataStep, TypeCorrect, PTL DEF Spec

--------------------------------------------------------------------------------
\* Suspended updates

\* A request that is stored while the client is paused is not sent.
LEMMA ScheduleWhilePaused ==
  ASSUME NEW c \in Clients, NEW r \in RequestIds, NEW tr, NEW def, Schedule(c, r, tr, def), paused[c]
  PROVE  area' = area
  BY Zenon DEF Schedule

\* The handlers for messages of the client itself
LEMMA OwnHandlersWhilePaused ==
  ASSUME TypeOK, NEW c \in Clients, Handler(c), paused[c], paused'[c], area' # area
  PROVE  \E r \in RequestIds : UpdateCommand(c, r)
<1>1. ~Resume(c)
  <2>. SUFFICES ASSUME Resume(c) PROVE FALSE
    OBVIOUS
  <2>1. paused' = [paused EXCEPT ![c] = FALSE]
    BY DEF Resume
  <2>. QED  BY <2>1 DEF TypeOK
<1>2. ASSUME \/ ConnectEvent(c) \/ StatelessCommand(c) \/ ClientAck(c) \/ Suspend(c) \/ Disconnect(c)
             \/ \E e \in EventIds : RegisterEvent(c, e) \/ RemoveEvent(c, e)
      PROVE  area' = area
  BY Zenon, <1>2 DEF ConnectEvent, StatelessCommand, ClientAck, Suspend, Disconnect, RegisterEvent,
                     RemoveEvent, dataVars
<1>3. ASSUME NEW r \in RequestIds,
             \/ RemoveRequest(c, r)
             \/ \E req \in DataRequest : AddRequest(c, r, req) \/ UpdateRequest(c, r, req)
      PROVE  area' = area
  <2>1. \/ area' = area
        \/ \E tr, def : Schedule(c, r, tr, def)
    BY Zenon, <1>3 DEF RemoveRequest, AddRequest, UpdateRequest, dataVars
  <2>. QED  BY <2>1, ScheduleWhilePaused
<1>. QED  BY Zenon, <1>1, <1>2, <1>3 DEF Handler

\* A frame passes over a client that is paused.
LEMMA TickWhilePaused ==
  ASSUME TypeOK, Tick, NEW c \in Clients, paused[c]
  PROVE  area'[c] = area[c]
<1>1. c \notin Served
  BY DEF Served
<1>2. area'[c] = [r \in RequestIds |-> area[c][r]]
  BY <1>1 DEF Tick
<1>. QED  BY <1>2 DEF TypeOK

\* What a client reads does not change while it has suspended its updates, whatever the other clients
\* and the simulator do, unless it asks for a value or the server starts anew.
THEOREM PausedClientsGetNothing == Spec => PausedClientGetsNothing
<1>1. ASSUME TypeOK, EInv, [Next]_vars, NEW c \in Clients, paused[c], paused'[c], area'[c] # area[c]
      PROVE  \E r \in RequestIds : UpdateCommand(c, r) \/ module_init
  <2>1. ASSUME NEW d \in Clients, Handler(d)
        PROVE  \E r \in RequestIds : UpdateCommand(c, r)
    <3>1. d = c
      BY <1>1, <2>1, HandlersIsolated DEF EInv, OthersKeep, OwnState
    <3>. QED  BY <1>1, <2>1, <3>1, OwnHandlersWhilePaused
  <2>2. CASE Tick
    BY <1>1, <2>2, TickWhilePaused
  <2>3. CASE Elapse \/ SimValueChanges \/ Quit \/ UNCHANGED vars
    <3>1. area' = area
      BY Zenon, <2>3 DEF Elapse, SimValueChanges, Quit, dataVars, vars
    <3>. QED  BY <1>1, <3>1
  <2>4. CASE module_init
    <3>1. area[c] \in [RequestIds -> Values \cup {None}] /\ area'[c] = [r \in RequestIds |-> None]
      BY <1>1, <2>4 DEF TypeOK, module_init, Loaded
    <3>2. RequestIds # {}
      BY <1>1, <3>1
    <3>. QED  BY <2>4, <3>2
  <2>. QED  BY <1>1, <2>1, <2>2, <2>3, <2>4 DEF Next
<1>2. TypeOK /\ EInv /\ [Next]_vars =>
        (\A c \in Clients : paused[c] /\ paused'[c] /\ area'[c] # area[c] =>
           \E r \in RequestIds : UpdateCommand(c, r) \/ module_init)
  BY <1>1
<1>. QED  BY <1>2, EventInvariance, TypeCorrect, PTL DEF Spec, PausedClientGetsNothing

--------------------------------------------------------------------------------
\* A client and the server

\* What a client may send.
Messages ==
    [cmd: {"Save"}, id: RequestIds, arg: Saves]
    \cup [cmd: {"Remove", "Update"}, id: RequestIds, arg: {None}]
    \cup [cmd: {"Subscribe"}, id: {None}, arg: BOOLEAN]
    \cup [cmd: {"Register"}, id: EventIds, arg: Codes \cup {""}]
    \cup [cmd: {"Connect", "Disconnect"}, id: {None}, arg: {None}]

Replays == {<<>>, <<"events">>, <<"requests", "events">>, <<"pause", "requests", "events">>}
Places == {"none", "submit", "resize", "wait", "pause"}

SessionTypeOK ==
    /\ link \in {"none", "sim", "connecting", "server"}
    /\ serverConnected \in BOOLEAN
    /\ replay \in Replays
    /\ mine \in [RequestIds -> Saves \cup {None}]
    /\ heard \in [RequestIds -> Nat]
    /\ requestsPaused \in BOOLEAN
    /\ saving \in [at: Places, r: RequestIds \cup {None}, new: BOOLEAN, reply: {"None", "Ack", "Nak"}]
    /\ saving.at \in {"submit", "resize", "wait"} => saving.r \in RequestIds /\ mine[saving.r] # None
    /\ codes \in [EventIds -> Codes \cup {"", None}]
    /\ sentToServer \in [EventIds -> BOOLEAN]
    /\ wire \in Seq(Messages)
    /\ theirs \in [EventIds -> Codes \cup {None}]
    /\ deaf \subseteq RequestIds /\ unsettled \subseteq RequestIds /\ orphans \subseteq EventIds
    /\ raced \in BOOLEAN
    /\ crashes \in Nat

\* A client that has connected once keeps its record at the server, so that no message is ignored.
Recorded ==
    serverConnected \/ IsConnected \/ (\E i \in DOMAIN wire : wire[i].cmd # "Connect")
        => status[Self] # "None"

\* connectServer() has still to send its messages of this kind.
ToReplay(kind) == \E i \in DOMAIN replay : replay[i] = kind

BaseInv == IInv /\ running /\ SessionTypeOK /\ Recorded

--------------------------------------------------------------------------------
\* Messages under way

Has(w, M) == \E i \in DOMAIN w : w[i] \in M

Ends(w, M, G, now) ==
    /\ \A i \in DOMAIN w : w[i] \in M => w[i] \in G \/ \E j \in DOMAIN w : j > i /\ w[j] \in M
    /\ now \/ Has(w, M)

\* A sequence without its head.
LEMMA WithoutHead ==
  ASSUME NEW S, NEW w \in Seq(S), w # <<>>
  PROVE  /\ Head(w) \in S /\ Head(w) = w[1] /\ 1 \in DOMAIN w
         /\ Tail(w) \in Seq(S)
         /\ \A i \in DOMAIN Tail(w) : i + 1 \in DOMAIN w /\ Tail(w)[i] = w[i + 1]
         /\ \A i \in DOMAIN w : i # 1 => i - 1 \in DOMAIN Tail(w) /\ Tail(w)[i - 1] = w[i]
  OBVIOUS

\* Two sequences, one after the other.
LEMMA Appended ==
  ASSUME NEW S, NEW w \in Seq(S), NEW x \in Seq(S)
  PROVE  /\ w \o x \in Seq(S)
         /\ \A i \in DOMAIN w : i \in DOMAIN (w \o x) /\ (w \o x)[i] = w[i]
         /\ \A i \in DOMAIN x : Len(w) + i \in DOMAIN (w \o x) /\ (w \o x)[Len(w) + i] = x[i]
         /\ \A i \in DOMAIN (w \o x) :
              \/ i \in DOMAIN w
              \/ \E j \in DOMAIN x : i = Len(w) + j
<1>1. /\ Len(w) \in Nat /\ Len(x) \in Nat /\ Len(w \o x) = Len(w) + Len(x)
      /\ DOMAIN w = 1..Len(w) /\ DOMAIN x = 1..Len(x) /\ DOMAIN (w \o x) = 1..Len(w \o x)
      /\ w \o x \in Seq(S)
  OBVIOUS
<1>2. \A i \in 1..(Len(w) + Len(x)) : (w \o x)[i] = IF i <= Len(w) THEN w[i] ELSE x[i - Len(w)]
  OBVIOUS
<1>3. \A i \in DOMAIN w : i \in DOMAIN (w \o x) /\ (w \o x)[i] = w[i]
  BY <1>1, <1>2
<1>4. ASSUME NEW i \in DOMAIN x
      PROVE  Len(w) + i \in DOMAIN (w \o x) /\ (w \o x)[Len(w) + i] = x[i]
  <2>1. PICK k : k = Len(w) + i
    OBVIOUS
  <2>2. k \in 1..(Len(w) + Len(x)) /\ ~(k <= Len(w)) /\ k - Len(w) = i
    BY <1>1, <2>1
  <2>. QED  BY <1>1, <1>2, <2>1, <2>2
<1>5. ASSUME NEW i \in DOMAIN (w \o x)
      PROVE  i \in DOMAIN w \/ \E j \in DOMAIN x : i = Len(w) + j
  <2>1. CASE i <= Len(w)
    BY <1>1, <2>1
  <2>2. CASE ~(i <= Len(w))
    <3>1. i - Len(w) \in DOMAIN x /\ i = Len(w) + (i - Len(w))
      BY <1>1, <2>2
    <3>. QED  BY <3>1
  <2>. QED  BY <2>1, <2>2
<1>. QED  BY <1>1, <1>3, <1>4, <1>5

\* A message that is under way is the next one or one behind it.
LEMMA HasTail ==
  ASSUME NEW S, NEW w \in Seq(S), w # <<>>, NEW M
  PROVE  Has(w, M) <=> Head(w) \in M \/ Has(Tail(w), M)
  BY WithoutHead DEF Has

\* Of two sequences, one has it or the other.
LEMMA HasAppended ==
  ASSUME NEW S, NEW w \in Seq(S), NEW x \in Seq(S), NEW M
  PROVE  Has(w \o x, M) <=> Has(w, M) \/ Has(x, M)
<1>1. ASSUME Has(w \o x, M)
      PROVE  Has(w, M) \/ Has(x, M)
  <2>1. PICK i \in DOMAIN (w \o x) : (w \o x)[i] \in M
    BY <1>1 DEF Has
  <2>2. CASE i \in DOMAIN w
    BY <2>1, <2>2, Appended DEF Has
  <2>3. ASSUME NEW j \in DOMAIN x, i = Len(w) + j
        PROVE  Has(x, M)
    BY <2>1, <2>3, Appended DEF Has
  <2>. QED  BY <2>2, <2>3, Appended
<1>2. ASSUME Has(w, M)
      PROVE  Has(w \o x, M)
  BY <1>2, Appended DEF Has
<1>3. ASSUME Has(x, M)
      PROVE  Has(w \o x, M)
  <2>1. PICK j \in DOMAIN x : x[j] \in M
    BY <1>3 DEF Has
  <2>2. Len(w) + j \in DOMAIN (w \o x) /\ (w \o x)[Len(w) + j] \in M
    BY <2>1, Appended
  <2>3. PICK k : k = Len(w) + j
    OBVIOUS
  <2>. QED  BY <2>2, <2>3 DEF Has
<1>. QED  BY <1>1, <1>2, <1>3

\* What the messages come to when the next one of them is taken
LEMMA EndsTail ==
  ASSUME NEW S, NEW w \in Seq(S), w # <<>>, NEW M, NEW G, NEW now, NEW next,
         Ends(w, M, G, now),
         Head(w) \in M /\ Head(w) \in G /\ ~Has(Tail(w), M) => next,
         Head(w) \notin M /\ now => next
  PROVE  Ends(Tail(w), M, G, next)
<1>1. ASSUME NEW i \in DOMAIN Tail(w), Tail(w)[i] \in M, Tail(w)[i] \notin G
      PROVE  \E j \in DOMAIN Tail(w) : j > i /\ Tail(w)[j] \in M
  <2>1. i + 1 \in DOMAIN w /\ w[i + 1] \in M /\ w[i + 1] \notin G
    BY <1>1, WithoutHead
  <2>2. PICK j \in DOMAIN w : j > i + 1 /\ w[j] \in M
    BY <2>1 DEF Ends
  <2>3. j # 1 /\ j - 1 > i /\ i \in Nat
    BY <2>2
  <2>4. j - 1 \in DOMAIN Tail(w) /\ Tail(w)[j - 1] = w[j]
    BY <2>3, WithoutHead
  <2>. QED  BY <2>2, <2>3, <2>4
<1>2. next \/ Has(Tail(w), M)
  <2>1. CASE Head(w) \in M /\ Head(w) \notin G
    <3>1. PICK j \in DOMAIN w : j > 1 /\ w[j] \in M
      BY <2>1, WithoutHead DEF Ends
    <3>2. j # 1
      BY <3>1
    <3>. QED  BY <3>1, <3>2, WithoutHead DEF Has
  <2>2. CASE Head(w) \notin M
    BY <2>2, HasTail DEF Ends
  <2>. QED  BY <2>1, <2>2
<1>. QED  BY <1>1, <1>2 DEF Ends

\* What they come to when others follow which are not in the set
LEMMA EndsSame ==
  ASSUME NEW S, NEW w \in Seq(S), NEW x \in Seq(S), NEW M, NEW G, NEW now,
         Ends(w, M, G, now), ~Has(x, M)
  PROVE  Ends(w \o x, M, G, now)
<1>1. ASSUME NEW i \in DOMAIN (w \o x), (w \o x)[i] \in M, (w \o x)[i] \notin G
      PROVE  \E j \in DOMAIN (w \o x) : j > i /\ (w \o x)[j] \in M
  <2>1. i \in DOMAIN w /\ w[i] \in M /\ w[i] \notin G
    BY <1>1, Appended DEF Has
  <2>2. PICK j \in DOMAIN w : j > i /\ w[j] \in M
    BY <2>1 DEF Ends
  <2>. QED  BY <2>2, Appended
<1>2. now \/ Has(w \o x, M)
  BY HasAppended DEF Ends
<1>. QED  BY <1>1, <1>2 DEF Ends

\* What they come to when others follow of which some are in the set, all of them as wanted
LEMMA EndsSet ==
  ASSUME NEW S, NEW w \in Seq(S), NEW x \in Seq(S), NEW M, NEW G, NEW now,
         Has(x, M), \A i \in DOMAIN x : x[i] \in M => x[i] \in G
  PROVE  Ends(w \o x, M, G, now)
<1>1. PICK k \in DOMAIN x : x[k] \in M
  BY DEF Has
<1>2. Len(w) + k \in DOMAIN (w \o x) /\ (w \o x)[Len(w) + k] \in M
  BY <1>1, Appended
<1>3. ASSUME NEW i \in DOMAIN (w \o x), (w \o x)[i] \in M
      PROVE  (w \o x)[i] \in G \/ \E j \in DOMAIN (w \o x) : j > i /\ (w \o x)[j] \in M
  <2>1. CASE i \in DOMAIN w
    <3>1. Len(w) \in Nat /\ DOMAIN w = 1..Len(w) /\ k \in Nat \ {0}
      OBVIOUS
    <3>2. Len(w) + k > i
      BY <2>1, <3>1
    <3>. QED  BY <1>2, <3>2
  <2>2. ASSUME NEW j \in DOMAIN x, i = Len(w) + j
        PROVE  (w \o x)[i] \in G
    BY <1>3, <2>2, Appended
  <2>. QED  BY <2>1, <2>2, Appended
<1>. QED  BY <1>2, <1>3 DEF Ends, Has

\* A message on its own
LEMMA OneMessage ==
  ASSUME NEW S, NEW m \in S
  PROVE  /\ <<m>> \in Seq(S) /\ DOMAIN <<m>> = {1} /\ <<m>>[1] = m
         /\ \A M : Has(<<m>>, M) <=> m \in M
         /\ \A M : ~Has(<<>>, M)
  BY DEF Has

--------------------------------------------------------------------------------
\* The server takes a message

\* What one message makes the server do, when it is not ignored
Handles(m) ==
    \/ m.cmd = "Connect" /\ ConnectEvent(Self)
    \/ m.cmd = "Disconnect" /\ Disconnect(Self)
    \/ m.cmd = "Save" /\ m.id \in RequestIds /\ m.arg \in Saves
         /\ (AddRequest(Self, m.id, m.arg) \/ UpdateRequest(Self, m.id, m.arg))
    \/ m.cmd = "Remove" /\ m.id \in RequestIds /\ RemoveRequest(Self, m.id)
    \/ m.cmd = "Update" /\ m.id \in RequestIds /\ UpdateCommand(Self, m.id)
    \/ m.cmd = "Subscribe" /\ m.arg = TRUE /\ Resume(Self)
    \/ m.cmd = "Subscribe" /\ m.arg = FALSE /\ Suspend(Self)
    \/ m.cmd = "Register" /\ m.id \in EventIds /\ m.arg = "" /\ RemoveEvent(Self, m.id)
    \/ m.cmd = "Register" /\ m.id \in EventIds /\ m.arg \in Codes /\ RegisterEvent(Self, m.id)

\* A message of the client is one of seven kinds.
LEMMA MessageKinds ==
  ASSUME NEW m \in Messages
  PROVE  \/ m.cmd \in {"Connect", "Disconnect"}
         \/ m.cmd = "Save" /\ m.id \in RequestIds /\ m.arg \in Saves
         \/ m.cmd \in {"Remove", "Update"} /\ m.id \in RequestIds
         \/ m.cmd = "Subscribe" /\ m.arg \in BOOLEAN
         \/ m.cmd = "Register" /\ m.id \in EventIds /\ m.arg \in Codes \cup {""}
  BY DEF Messages

\* The server takes the head of the messages, and either ignores it or handles it.
LEMMA ServeHandles ==
  ASSUME SessionTypeOK, Serve
  PROVE  /\ wire \in Seq(Messages) /\ wire # <<>> /\ wire' = Tail(wire) /\ Head(wire) \in Messages
         /\ \/ Head(wire).cmd # "Connect" /\ status[Self] = "None" /\ UNCHANGED vars
            \/ Handles(Head(wire))
<1>1. wire \in Seq(Messages) /\ wire # <<>> /\ wire' = Tail(wire)
  BY DEF SessionTypeOK, Serve
<1>2. PICK m : m = Head(wire)
  OBVIOUS
<1>3. m \in Messages
  BY <1>1, <1>2, WithoutHead
<1>4. IF m.cmd # "Connect" /\ status[Self] = "None" THEN UNCHANGED vars
      ELSE CASE m.cmd = "Connect"    -> ConnectEvent(Self)
             [] m.cmd = "Disconnect" -> Disconnect(Self)
             [] m.cmd = "Save"       -> AddRequest(Self, m.id, m.arg) \/ UpdateRequest(Self, m.id, m.arg)
             [] m.cmd = "Remove"     -> RemoveRequest(Self, m.id)
             [] m.cmd = "Update"     -> UpdateCommand(Self, m.id)
             [] m.cmd = "Subscribe"  -> IF m.arg THEN Resume(Self) ELSE Suspend(Self)
             [] m.cmd = "Register"   -> IF m.arg = "" THEN RemoveEvent(Self, m.id)
                                                      ELSE RegisterEvent(Self, m.id)
  BY <1>2 DEF Serve, serverVars
<1>5. ASSUME ~(m.cmd # "Connect" /\ status[Self] = "None")
      PROVE  Handles(m)
  <2>1. CASE m.cmd = "Connect"
    BY <1>4, <1>5, <2>1 DEF Handles
  <2>2. CASE m.cmd = "Disconnect"
    BY <1>4, <1>5, <2>2 DEF Handles
  <2>3. CASE m.cmd = "Save"
    BY <1>3, <1>4, <1>5, <2>3, MessageKinds DEF Handles
  <2>4. CASE m.cmd = "Remove"
    BY <1>3, <1>4, <1>5, <2>4, MessageKinds DEF Handles
  <2>5. CASE m.cmd = "Update"
    BY <1>3, <1>4, <1>5, <2>5, MessageKinds DEF Handles
  <2>6. CASE m.cmd = "Subscribe"
    <3>1. m.arg \in BOOLEAN
      BY <1>3, <2>6, MessageKinds
    <3>2. IF m.arg THEN Resume(Self) ELSE Suspend(Self)
      BY <1>4, <1>5, <2>6
    <3>. QED  BY <2>6, <3>1, <3>2 DEF Handles
  <2>7. CASE m.cmd = "Register"
    <3>1. m.id \in EventIds /\ m.arg \in Codes \cup {""}
      BY <1>3, <2>7, MessageKinds
    <3>2. IF m.arg = "" THEN RemoveEvent(Self, m.id) ELSE RegisterEvent(Self, m.id)
      BY <1>4, <1>5, <2>7
    <3>. QED  BY <2>7, <3>1, <3>2 DEF Handles
  <2>. QED  BY <1>3, <2>1, <2>2, <2>3, <2>4, <2>5, <2>6, <2>7, MessageKinds
<1>. QED  BY <1>1, <1>2, <1>3, <1>4, <1>5

\* Whatever it does, it does as WASimModule says.
LEMMA HandlesIsNext ==
  ASSUME NEW m, Handles(m)
  PROVE  Next
<1>1. Self \in Clients /\ Saves \subseteq DataRequest
  BY SessionConstants
<1>2. Handler(Self)
  <2>1. CASE m.cmd = "Save"
    BY <1>1, <2>1 DEF Handles, Handler
  <2>2. CASE m.cmd # "Save"
    BY <2>2 DEF Handles, Handler
  <2>. QED  BY <2>1, <2>2
<1>. QED  BY <1>1, <1>2 DEF Next

\* Only the server's own step touches what the server keeps.
LEMMA ServerStep == SessionTypeOK /\ [SessionNext]_allVars => [Next]_vars
<1> SUFFICES ASSUME SessionTypeOK, [SessionNext]_allVars PROVE [Next]_vars
  OBVIOUS
<1>1. CASE Serve
  BY <1>1, ServeHandles, HandlesIsNext
<1>2. CASE SessionNext /\ ~Serve
  BY <1>2 DEF SessionNext, SaveRequest, RemoveDataRequest, UpdateDataRequest, SubmitRequest, EndSave, StorePaused,
              SetDataRequestsPaused, RemoveClientEvent, RegisterClientEvent, ConnectSimulator, ConnectServer,
              AwaitServer, Replay, DisconnectServer, DisconnectSimulator, Crash, serverVars
<1>3. CASE UNCHANGED allVars
  BY <1>3 DEF allVars, serverVars
<1>. QED  BY <1>1, <1>2, <1>3

\* What every handler leaves of the connection: the module runs, and a record stays.
LEMMA HandlesKeeps ==
  ASSUME IInv, running, NEW m, Handles(m)
  PROVE  /\ running'
         /\ status[Self] # "None" => status'[Self] # "None"
         /\ m.cmd # "Connect" => status'[Self] # "None"
         /\ m.cmd = "Connect" /\ Acked => status'[Self] # "None"
<1>1. Self \in Clients /\ status \in [Clients -> Statuses]
  BY SessionConstants DEF IInv, TypeOK
<1>2. CASE m.cmd = "Connect"
  <2>1. ConnectEvent(Self)
    BY <1>2 DEF Handles
  <2>. QED  BY <1>1, <1>2, <2>1 DEF ConnectEvent, Acked
<1>3. CASE m.cmd = "Disconnect"
  BY <1>1, <1>3 DEF Handles, Disconnect
<1>4. ASSUME m.cmd \notin {"Connect", "Disconnect"}
      PROVE  Touch(Self) /\ UNCHANGED running
  BY <1>4 DEF Handles, AddRequest, UpdateRequest, RemoveRequest, UpdateCommand, Resume, Suspend, RemoveEvent, RegisterEvent
<1>5. Touch(Self) => status'[Self] = "Connected"
  BY <1>1 DEF Touch
<1>. QED  BY <1>2, <1>3, <1>4, <1>5

--------------------------------------------------------------------------------
\* Types

\* The messages of the client are messages.
LEMMA MessageTypes ==
  /\ \A r \in RequestIds : mine[r] \in Saves => SaveMsg(r) \in Messages
  /\ \A r \in RequestIds : RemoveMsg(r) \in Messages /\ [Msg0("Update") EXCEPT !.id = r] \in Messages
  /\ \A on \in BOOLEAN : SubscribeMsg(on) \in Messages
  /\ \A e \in EventIds : \A code \in Codes \cup {""} : RegisterMsg(e, code) \in Messages
  /\ Msg0("Connect") \in Messages /\ Msg0("Disconnect") \in Messages
<1>1. \A r \in RequestIds : mine[r] \in Saves => SaveMsg(r) \in Messages
  BY DEF SaveMsg, Messages
<1>2. \A r \in RequestIds : RemoveMsg(r) \in Messages /\ [Msg0("Update") EXCEPT !.id = r] \in Messages
  BY DEF RemoveMsg, Msg0, Messages
<1>3. \A on \in BOOLEAN : SubscribeMsg(on) \in Messages
  BY DEF SubscribeMsg, Messages
<1>4. \A e \in EventIds : \A code \in Codes \cup {""} : RegisterMsg(e, code) \in Messages
  BY DEF RegisterMsg, Messages
<1>5. Msg0("Connect") \in Messages /\ Msg0("Disconnect") \in Messages
  BY DEF Msg0, Messages
<1>. QED  BY <1>1, <1>2, <1>3, <1>4, <1>5

\* A Subscribe message is a message.
LEMMA SubscribeTypes == \A p \in BOOLEAN : SubscribeMsg(~p) \in Messages
  BY DEF SubscribeMsg, Messages

\* What is sent is appended.
LEMMA SendTypes ==
  ASSUME wire \in Seq(Messages), NEW m \in Messages
  PROVE  /\ Send(<<m>>) => wire' \in Seq(Messages)
         /\ SendIfConnected(m) => wire' \in Seq(Messages)
  BY DEF Send, SendIfConnected

\* The order in which a finite set is walked: every member, and nothing else.
LEMMA OrderOf ==
  ASSUME NEW S, IsFiniteSet(S), NEW ids \in Orders(S)
  PROVE  /\ ids \in Seq(S)
         /\ \A x \in S : \E i \in DOMAIN ids : ids[i] = x
<1>1. Cardinality(S) \in Nat
  BY FS_CardinalityType
<1>2. ids \in [1..Cardinality(S) -> S] /\ \A x \in S : \E i \in 1..Cardinality(S) : ids[i] = x
  BY DEF Orders, Bijection, Surjection
<1>. QED  BY <1>1, <1>2

\* There are finitely many requests to send again.
LEMMA FinitelyMany == IsFiniteSet(Stored)
<1>1. Stored \subseteq RequestIds
  BY DEF Stored
<1>. QED  BY <1>1, FS_Subset, SessionConstants

\* What the replay sends: the requests as they are stored, ...
LEMMA ReplayedRequests ==
  ASSUME SessionTypeOK, NEW msgs \in ReplayRequests
  PROVE  /\ msgs \in Seq(Messages)
         /\ \A i \in DOMAIN msgs : \E r \in RequestIds : mine[r] # None /\ msgs[i] = SaveMsg(r)
         /\ \A r \in RequestIds : mine[r] # None => \E i \in DOMAIN msgs : msgs[i] = SaveMsg(r)
<1>1. PICK ids \in Orders(Stored) : msgs = [i \in DOMAIN ids |-> SaveMsg(ids[i])]
  BY DEF ReplayRequests
<1>2. ids \in Seq(Stored) /\ \A x \in Stored : \E i \in DOMAIN ids : ids[i] = x
  BY OrderOf, FinitelyMany
<1>3. \A i \in DOMAIN ids : ids[i] \in Stored
  BY <1>2
<1>4. \A r \in Stored : r \in RequestIds /\ mine[r] # None /\ SaveMsg(r) \in Messages
  BY MessageTypes DEF Stored, SessionTypeOK
<1>5. DOMAIN msgs = DOMAIN ids /\ \A i \in DOMAIN ids : msgs[i] = SaveMsg(ids[i])
  BY <1>1
<1>6. msgs \in Seq(Messages)
  <2>1. Len(ids) \in Nat /\ DOMAIN ids = 1..Len(ids)
    BY <1>2
  <2>2. msgs \in [1..Len(ids) -> Messages]
    BY <1>1, <1>3, <1>4, <2>1
  <2>. QED  BY <2>1, <2>2
<1>. QED  BY <1>2, <1>3, <1>4, <1>5, <1>6 DEF Stored

\* ... and the events with their codes, an empty one for those to remove.
LEMMA ReplayedEvents ==
  ASSUME SessionTypeOK, NEW msgs \in ReplayEvents
  PROVE  /\ msgs \in Seq(Messages)
         /\ \A i \in DOMAIN msgs : \E e \in EventIds : codes[e] # None /\ msgs[i] = RegisterMsg(e, codes[e])
         /\ \A e \in EventIds : codes[e] # None => \E i \in DOMAIN msgs : msgs[i] = RegisterMsg(e, codes[e])
<1> DEFINE known == {e \in EventIds : codes[e] # None}
<1>1. PICK ids \in Orders(known) : msgs = [i \in DOMAIN ids |-> RegisterMsg(ids[i], codes[ids[i]])]
  BY DEF ReplayEvents
<1>7. ids \in Seq(known) /\ \A e \in known : \E i \in DOMAIN ids : ids[i] = e
  <2>1. IsFiniteSet(known)
    BY FS_Subset, SessionConstants
  <2>. QED  BY <2>1, OrderOf
<1>9. DOMAIN msgs = DOMAIN ids /\ \A i \in DOMAIN ids : ids[i] \in known /\ msgs[i] = RegisterMsg(ids[i], codes[ids[i]])
  BY <1>1, <1>7
<1>10. \A e \in known : e \in EventIds /\ codes[e] # None /\ RegisterMsg(e, codes[e]) \in Messages
  BY MessageTypes DEF SessionTypeOK
<1>11. msgs \in Seq(Messages)
  <2>1. Len(ids) \in Nat /\ DOMAIN ids = 1..Len(ids)
    BY <1>7
  <2>2. msgs \in [1..Len(ids) -> Messages]
    BY <1>1, <1>9, <1>10, <2>1
  <2>. QED  BY <2>1, <2>2
<1>12. \A i \in DOMAIN msgs : \E e \in EventIds : codes[e] # None /\ msgs[i] = RegisterMsg(e, codes[e])
  BY <1>9, <1>10
<1>13. \A e \in EventIds : codes[e] # None => \E i \in DOMAIN msgs : msgs[i] = RegisterMsg(e, codes[e])
  BY <1>7, <1>9
<1>. QED  BY <1>11, <1>12, <1>13

\* What remains to be sent upon connection, after the first part
LEMMA ReplayOrder ==
  ASSUME replay \in Replays, replay # <<>>
  PROVE  /\ Head(replay) \in {"pause", "requests", "events"}
         /\ Tail(replay) \in Replays
         /\ ToReplay(Head(replay))
         /\ \A kind : (\E i \in DOMAIN Tail(replay) : Tail(replay)[i] = kind) <=> ToReplay(kind) /\ kind # Head(replay)
<1>1. CASE replay = <<"events">>
  BY <1>1 DEF Replays, ToReplay
<1>2. CASE replay = <<"requests", "events">>
  <2>1. Head(replay) = "requests" /\ Tail(replay) = <<"events">>
    BY <1>2
  <2>2. DOMAIN replay = {1, 2} /\ replay[1] = "requests" /\ replay[2] = "events"
    BY <1>2
  <2>3. DOMAIN Tail(replay) = {1} /\ Tail(replay)[1] = "events"
    <3>1. DOMAIN <<"events">> = {1} /\ <<"events">>[1] = "events"
      OBVIOUS
    <3>. QED  BY <2>1, <3>1, Zenon
  <2>. QED  BY <2>1, <2>2, <2>3 DEF Replays, ToReplay
<1>3. CASE replay = <<"pause", "requests", "events">>
  <2>1. Head(replay) = "pause" /\ Tail(replay) = <<"requests", "events">>
    BY <1>3
  <2>2. DOMAIN replay = {1, 2, 3} /\ replay[1] = "pause" /\ replay[2] = "requests" /\ replay[3] = "events"
    BY <1>3
  <2>3. DOMAIN Tail(replay) = {1, 2} /\ Tail(replay)[1] = "requests" /\ Tail(replay)[2] = "events"
    <3>1. DOMAIN <<"requests", "events">> = {1, 2} /\ <<"requests", "events">>[1] = "requests"
          /\ <<"requests", "events">>[2] = "events"
      OBVIOUS
    <3>. QED  BY <2>1, <3>1, Zenon
  <2>. QED  BY <2>1, <2>2, <2>3 DEF Replays, ToReplay
<1>. QED  BY <1>1, <1>2, <1>3 DEF Replays

\* At the beginning the types are right.
LEMMA SessionInitTypes == SessionInit => BaseInv
<1> SUFFICES ASSUME SessionInit PROVE BaseInv
  OBVIOUS
<1>1. IInv /\ running
  BY InitInv DEF SessionInit, Init, Loaded
<1>2. SessionTypeOK
  <2>1. saving \in [at: Places, r: RequestIds \cup {None}, new: BOOLEAN, reply: {"None", "Ack", "Nak"}]
        /\ saving.at = "none"
    BY DEF SessionInit, NoSave, Places
  <2>2. replay \in Replays /\ wire \in Seq(Messages)
    BY DEF SessionInit, Replays
  <2>. QED  BY <2>1, <2>2 DEF SessionInit, SessionTypeOK
<1>3. Recorded
  BY DEF SessionInit, Recorded, IsConnected
<1>. QED  BY <1>1, <1>2, <1>3 DEF BaseInv

\* What the application saves is a request with a size, and not None.
LEMMA SaveTypes == \A req \in Saves : req # None /\ req.size \in Nat \ {0}
<1>1. TAKE req \in Saves
<1>2. req \in DataRequest /\ req # None
  BY SessionConstants
<1>3. req.size \in Sizes
  BY <1>2 DEF DataRequest
<1>. QED  BY <1>2, <1>3, ServerConstants

\* So is what it has stored.
LEMMA SavedTypes ==
  ASSUME SessionTypeOK
  PROVE  \A r \in RequestIds : mine[r] # None => mine[r] \in Saves /\ mine[r].size \in Nat
<1>1. TAKE r \in RequestIds
<1>2. mine[r] # None => mine[r] \in Saves
  BY DEF SessionTypeOK
<1>. QED  BY <1>2, SaveTypes

\* One lemma for the calls about requests, ...
LEMMA RequestCallTypes ==
  ASSUME SessionTypeOK,
         \/ \E r \in RequestIds : (\E req \in Saves : SaveRequest(r, req)) \/ RemoveDataRequest(r) \/ UpdateDataRequest(r)
         \/ SubmitRequest
         \/ EndSave
         \/ \E p \in BOOLEAN : SetDataRequestsPaused(p)
         \/ StorePaused
  PROVE  SessionTypeOK'
<1> USE DEF SessionTypeOK, requestVars, clientEventVars, counters
<1>0. \A r \in RequestIds : mine[r] # None => mine[r] \in Saves /\ mine[r].size \in Nat
  BY SavedTypes
<1>1. ASSUME NEW r \in RequestIds, NEW req \in Saves, SaveRequest(r, req)
      PROVE  SessionTypeOK'
  <2>1. req # None
    BY SaveTypes
  <2>2. /\ saving' \in [at: Places, r: RequestIds \cup {None}, new: BOOLEAN, reply: {"None", "Ack", "Nak"}]
        /\ saving'.r = r
    BY <1>1 DEF SaveRequest, NoSave, Places
  <2>. QED  BY <1>1, <2>1, <2>2 DEF SaveRequest
<1>2. ASSUME NEW r \in RequestIds, RemoveDataRequest(r)
      PROVE  SessionTypeOK'
  <2>1. wire' \in Seq(Messages)
    BY <1>2, SendTypes, MessageTypes DEF RemoveDataRequest
  <2>2. saving.at = "none"
    BY <1>2 DEF RemoveDataRequest, Call, NoSave
  <2>. QED  BY <1>2, <2>1, <2>2 DEF RemoveDataRequest, Removed
<1>3. ASSUME NEW r \in RequestIds, UpdateDataRequest(r)
      PROVE  SessionTypeOK'
  <2>1. wire' \in Seq(Messages)
    BY <1>3, SendTypes, MessageTypes DEF UpdateDataRequest
  <2>. QED  BY <1>3, <2>1 DEF UpdateDataRequest
<1>4. CASE SubmitRequest
  <2>1. saving.r \in RequestIds /\ mine[saving.r] # None
    BY <1>4 DEF SubmitRequest
  <2>2. SaveMsg(saving.r) \in Messages
    BY <1>0, <2>1, MessageTypes
  <2>3. wire' \in Seq(Messages)
    BY <1>4, <2>2, SendTypes DEF SubmitRequest
  <2>4. heard' \in [RequestIds -> Nat]
    BY <1>0, <1>4, <2>1 DEF SubmitRequest
  <2>5. /\ saving' \in [at: Places, r: RequestIds \cup {None}, new: BOOLEAN, reply: {"None", "Ack", "Nak"}]
        /\ saving'.at \in {"submit", "resize", "wait"} => saving'.r = saving.r
    <3>1. saving' \in {NoSave, [saving EXCEPT !.at = "wait"]}
      BY <1>4 DEF SubmitRequest
    <3>2. NoSave \in [at: Places, r: RequestIds \cup {None}, new: BOOLEAN, reply: {"None", "Ack", "Nak"}]
          /\ NoSave.at = "none"
      BY DEF NoSave, Places
    <3>3. /\ [saving EXCEPT !.at = "wait"] \in [at: Places, r: RequestIds \cup {None}, new: BOOLEAN, reply: {"None", "Ack", "Nak"}]
          /\ [saving EXCEPT !.at = "wait"].r = saving.r
      BY DEF Places
    <3>. QED  BY <3>1, <3>2, <3>3
  <2>6. unsettled' \subseteq RequestIds /\ deaf' \subseteq RequestIds
    BY <1>4, <2>1 DEF SubmitRequest
  <2>7. UNCHANGED <<link, serverConnected, replay, mine, requestsPaused, raced, codes, sentToServer, orphans, crashes, theirs>>
    BY <1>4 DEF SubmitRequest
  <2>. QED  BY <2>1, <2>3, <2>4, <2>5, <2>6, <2>7
<1>5. CASE EndSave
  <2>1. saving.r \in RequestIds
    BY <1>5 DEF EndSave
  <2>2. wire' \in Seq(Messages)
    BY <1>5, <2>1, SendTypes, MessageTypes DEF EndSave
  <2>3. mine' \in [RequestIds -> Saves \cup {None}]
    BY <1>5, <2>1 DEF EndSave, Removed
  <2>4. heard' \in [RequestIds -> Nat]
    <3>1. heard' \in {heard, [heard EXCEPT ![saving.r] = 0]}
      BY <1>5 DEF EndSave, Removed
    <3>2. heard \in [RequestIds -> Nat]
      OBVIOUS
    <3>. QED  BY ONLY <2>1, <3>1, <3>2
  <2>5. saving' = NoSave /\ NoSave.at = "none"
        /\ NoSave \in [at: Places, r: RequestIds \cup {None}, new: BOOLEAN, reply: {"None", "Ack", "Nak"}]
    BY <1>5 DEF EndSave, NoSave, Places
  <2>6. unsettled' \subseteq RequestIds /\ deaf' \subseteq RequestIds
    BY <1>5, <2>1 DEF EndSave, Removed
  <2>7. UNCHANGED <<link, serverConnected, replay, requestsPaused, raced, codes, sentToServer, orphans, crashes, theirs>>
    BY <1>5 DEF EndSave
  <2>. QED  BY <2>2, <2>3, <2>4, <2>5, <2>6, <2>7
<1>6. ASSUME NEW p \in BOOLEAN, SetDataRequestsPaused(p)
      PROVE  SessionTypeOK'
  <2>0. SubscribeMsg(~p) \in Messages
    BY DEF SubscribeMsg, Messages
  <2>1. wire' \in Seq(Messages)
    BY <1>6, <2>0, SendTypes DEF SetDataRequestsPaused
  <2>2. /\ saving' \in [at: Places, r: RequestIds \cup {None}, new: BOOLEAN, reply: {"None", "Ack", "Nak"}]
        /\ saving'.at = "pause"
    BY <1>6 DEF SetDataRequestsPaused, NoSave, Places
  <2>3. raced' \in BOOLEAN
    BY <1>6 DEF SetDataRequestsPaused
  <2>. QED  BY <1>6, <2>1, <2>2, <2>3 DEF SetDataRequestsPaused
<1>7. CASE StorePaused
  BY <1>7 DEF StorePaused, NoSave, Places
<1>. QED  BY <1>1, <1>2, <1>3, <1>4, <1>5, <1>6, <1>7

\* ... one for those about events and connections, ...
LEMMA ConnectionTypes ==
  ASSUME SessionTypeOK,
         \/ \E e \in EventIds : RemoveClientEvent(e) \/ \E code \in Codes : RegisterClientEvent(e, code)
         \/ ConnectSimulator \/ ConnectServer \/ AwaitServer \/ Replay
         \/ DisconnectServer \/ DisconnectSimulator \/ Crash
  PROVE  SessionTypeOK'
<1> USE DEF SessionTypeOK, requestVars, clientEventVars, counters
<1>0. \A r \in RequestIds : mine[r] # None => mine[r] \in Saves /\ mine[r].size \in Nat
  BY SavedTypes
<1>1. ASSUME NEW e \in EventIds, RemoveClientEvent(e)
      PROVE  SessionTypeOK'
  <2>1. wire' \in Seq(Messages)
    BY <1>1, SendTypes, MessageTypes DEF RemoveClientEvent
  <2>. QED  BY <1>1, <2>1 DEF RemoveClientEvent
<1>2. ASSUME NEW e \in EventIds, NEW code \in Codes, RegisterClientEvent(e, code)
      PROVE  SessionTypeOK'
  <2>1. wire' \in Seq(Messages)
    BY <1>2, SendTypes, MessageTypes DEF RegisterClientEvent
  <2>2. sentToServer' \in [EventIds -> BOOLEAN]
    BY <1>2 DEF RegisterClientEvent
  <2>. QED  BY <1>2, <2>1, <2>2 DEF RegisterClientEvent
<1>3. CASE ConnectSimulator
  <2>1. heard' \in [RequestIds -> Nat]
    BY <1>0, <1>3 DEF ConnectSimulator, AllAreas
  <2>. QED  BY <1>3, <2>1 DEF ConnectSimulator
<1>4. CASE ConnectServer
  <2>1. wire' \in Seq(Messages)
    BY <1>4, SendTypes, MessageTypes DEF ConnectServer
  <2>. QED  BY <1>4, <2>1 DEF ConnectServer
<1>5. CASE AwaitServer
  BY <1>5 DEF AwaitServer, Replays
<1>6. CASE Replay
  <2>1. replay' \in Replays
    BY <1>6, ReplayOrder DEF Replay
  <2>2. wire' \in Seq(Messages)
    <3>1. SubscribeMsg(~requestsPaused) \in Messages
      BY DEF SubscribeMsg, Messages
    <3>2. ReplaySubscribe \subseteq Seq(Messages)
      BY ONLY <3>1, OneMessage DEF ReplaySubscribe
    <3>3. ReplayRequests \subseteq Seq(Messages) /\ ReplayEvents \subseteq Seq(Messages)
      BY ReplayedRequests, ReplayedEvents
    <3>4. Head(replay) \in {"pause", "requests", "events"}
      BY <1>6, ReplayOrder DEF Replay
    <3>5. wire' = wire \/ \E msgs \in Seq(Messages) : wire' = wire \o msgs
      BY <1>6, <3>2, <3>3, <3>4 DEF Replay, Send
    <3>6. wire \in Seq(Messages)
      OBVIOUS
    <3>. QED  BY ONLY <3>5, <3>6, Appended
  <2>3. codes' \in [EventIds -> Codes \cup {"", None}]
    <3>1. codes' = codes \/ codes' = [e \in EventIds |-> IF codes[e] = "" THEN None ELSE codes[e]]
      BY <1>6 DEF Replay
    <3>. QED  BY <3>1
  <2>4. raced' \in BOOLEAN
    BY <1>6 DEF Replay
  <2>5. UNCHANGED <<link, serverConnected, mine, heard, deaf, unsettled, requestsPaused, saving, sentToServer,
                    orphans, crashes, theirs>>
    BY <1>6 DEF Replay
  <2>. QED  BY <2>1, <2>2, <2>3, <2>4, <2>5
<1>7. CASE DisconnectServer
  <2>1. wire' \in Seq(Messages)
    BY <1>7, SendTypes, MessageTypes DEF DisconnectServer
  <2>. QED  BY <1>7, <2>1 DEF DisconnectServer
<1>8. CASE DisconnectSimulator
  BY <1>8 DEF DisconnectSimulator
<1>9. CASE Crash
  <2>1. saving' \in [at: Places, r: RequestIds \cup {None}, new: BOOLEAN, reply: {"None", "Ack", "Nak"}]
        /\ saving'.at = "none"
    BY <1>9 DEF Crash, NoSave, Places
  <2>2. replay' \in Replays
    BY <1>9 DEF Crash, Replays
  <2>3. link' = "none" /\ serverConnected' = FALSE /\ requestsPaused' = FALSE /\ raced' = FALSE
        /\ deaf' = {} /\ unsettled' = {} /\ orphans' = {} /\ crashes' = crashes + 1
        /\ wire' = wire /\ theirs' = theirs
    BY <1>9 DEF Crash
  <2>4. /\ mine' \in [RequestIds -> Saves \cup {None}] /\ heard' \in [RequestIds -> Nat]
        /\ codes' \in [EventIds -> Codes \cup {"", None}] /\ sentToServer' \in [EventIds -> BOOLEAN]
    BY <1>9 DEF Crash
  <2>5. wire \in Seq(Messages) /\ theirs \in [EventIds -> Codes \cup {None}] /\ crashes \in Nat
    OBVIOUS
  <2>6. link' \in {"none", "sim", "connecting", "server"} /\ serverConnected' \in BOOLEAN /\ requestsPaused' \in BOOLEAN
    BY ONLY <2>3
  <2>7. deaf' \subseteq RequestIds /\ unsettled' \subseteq RequestIds /\ orphans' \subseteq EventIds /\ raced' \in BOOLEAN
    BY ONLY <2>3
  <2>10. crashes' \in Nat
    <3>1. crashes' = crashes + 1 /\ crashes \in Nat
      BY ONLY <2>3, <2>5
    <3>. QED  BY ONLY <3>1
  <2>8. saving'.at \in {"submit", "resize", "wait"} => saving'.r \in RequestIds /\ mine'[saving'.r] # None
    BY ONLY <2>1
  <2>9. wire' \in Seq(Messages) /\ theirs' \in [EventIds -> Codes \cup {None}]
    BY ONLY <2>3, <2>5
  <2>. QED  BY ONLY <2>1, <2>2, <2>4, <2>6, <2>7, <2>8, <2>9, <2>10
<1>. QED  BY <1>1, <1>2, <1>3, <1>4, <1>5, <1>6, <1>7, <1>8, <1>9

\* ... and one for the server's step.
LEMMA ServeTypes ==
  ASSUME SessionTypeOK, Serve
  PROVE  SessionTypeOK'
<1>1. wire' \in Seq(Messages) /\ Head(wire) \in Messages
  BY ServeHandles, WithoutHead
<1>2. PICK m \in Messages : m = Head(wire)
  BY <1>1
<1>3. theirs' = TheirEvent(m) /\ theirs \in [EventIds -> Codes \cup {None}]
  BY <1>2 DEF Serve, SessionTypeOK
<1>4. theirs' \in [EventIds -> Codes \cup {None}]
  <2>1. CASE m.cmd = "Register"
    <3>1. m.id \in EventIds /\ m.arg \in Codes \cup {""}
      BY <2>1, MessageKinds
    <3>. QED  BY <1>3, <2>1, <3>1 DEF TheirEvent
  <2>2. CASE m.cmd # "Register"
    BY <1>3, <2>2 DEF TheirEvent
  <2>. QED  BY <2>1, <2>2
<1>5. /\ saving' \in [at: Places, r: RequestIds \cup {None}, new: BOOLEAN, reply: {"None", "Ack", "Nak"}]
      /\ saving'.at = saving.at /\ saving'.r = saving.r
  <2>1. saving' = saving \/ \E a \in {"Ack", "Nak"} : saving' = [saving EXCEPT !.reply = a]
    BY DEF Serve
  <2>. QED  BY <2>1 DEF SessionTypeOK
<1>6. serverConnected' \in BOOLEAN
  BY DEF Serve, SessionTypeOK
<1>7. unsettled' \subseteq unsettled /\ orphans' \subseteq orphans
  BY DEF Serve
<1>8. UNCHANGED <<link, replay, mine, heard, deaf, requestsPaused, raced, codes, sentToServer, crashes>>
  BY DEF Serve, counters
<1>. QED  BY <1>1, <1>4, <1>5, <1>6, <1>7, <1>8 DEF SessionTypeOK

\* The client sends over a connection only, but for the Connect event, and no handler of its own changes the server.
LEMMA ClientSends ==
  ASSUME SessionTypeOK, SessionNext, ~Serve
  PROVE  /\ UNCHANGED vars
         /\ serverConnected' => serverConnected
         /\ IsConnected' => IsConnected \/ serverConnected
         /\ \E x : wire' = wire \o x /\ (IsConnected \/ x = <<>> \/ x = <<Msg0("Connect")>>)
<1>0. wire = wire \o <<>>
  <2>1. wire \in Seq(Messages)
    BY DEF SessionTypeOK
  <2>. QED  BY ONLY <2>1
<1>1. UNCHANGED vars
  BY DEF SessionNext, SaveRequest, RemoveDataRequest, UpdateDataRequest, SubmitRequest, EndSave, StorePaused,
         SetDataRequestsPaused, RemoveClientEvent, RegisterClientEvent, ConnectSimulator, ConnectServer,
         AwaitServer, Replay, DisconnectServer, DisconnectSimulator, Crash, serverVars
<1>2. (serverConnected' => serverConnected) /\ (IsConnected' => IsConnected \/ serverConnected)
  <2>1. CASE UNCHANGED <<serverConnected, link>>
    BY <2>1 DEF IsConnected
  <2>2. CASE ConnectSimulator \/ ConnectServer \/ AwaitServer \/ DisconnectServer \/ DisconnectSimulator \/ Crash
    BY <2>2 DEF ConnectSimulator, ConnectServer, AwaitServer, DisconnectServer, DisconnectSimulator, Crash, IsConnected
  <2>. QED
    BY <2>1, <2>2 DEF SessionNext, SaveRequest, RemoveDataRequest, UpdateDataRequest, SubmitRequest, EndSave, StorePaused,
         SetDataRequestsPaused, RemoveClientEvent, RegisterClientEvent, Replay
<1>3. \E x : wire' = wire \o x /\ (IsConnected \/ x = <<>> \/ x = <<Msg0("Connect")>>)
  <2>1. CASE UNCHANGED wire
    BY <1>0, <2>1
  <2>2. ASSUME NEW m, SendIfConnected(m)
        PROVE  \E x : wire' = wire \o x /\ (IsConnected \/ x = <<>>)
    BY <1>0, <2>2 DEF SendIfConnected, Send
  <2>3. CASE SubmitRequest
    BY <1>0, <2>3 DEF SubmitRequest, Send
  <2>4. CASE ConnectServer
    BY <2>4 DEF ConnectServer, Send
  <2>5. CASE Replay
    <3>1. CASE IsConnected
      <4>1. \E x : wire' = wire \o x
        BY <2>5, <3>1 DEF Replay, Send
      <4>. QED  BY <3>1, <4>1
    <3>2. CASE ~IsConnected
      BY <2>1, <2>5, <3>2 DEF Replay
    <3>. QED  BY <3>1, <3>2
  <2>6. ASSUME NEW r \in RequestIds, UpdateDataRequest(r)
        PROVE  IsConnected /\ \E x : wire' = wire \o x
    BY <2>6 DEF UpdateDataRequest, Send
  <2>7. CASE EndSave
    BY <2>1, <2>2, <2>7 DEF EndSave
  <2>8. \A e \in EventIds : RemoveClientEvent(e) => UNCHANGED wire \/ SendIfConnected(RegisterMsg(e, ""))
    BY DEF RemoveClientEvent
  <2>9. \A e \in EventIds, code \in Codes : RegisterClientEvent(e, code) => SendIfConnected(RegisterMsg(e, code))
    BY DEF RegisterClientEvent
  <2>10. \A r \in RequestIds : RemoveDataRequest(r) => SendIfConnected(RemoveMsg(r))
    BY DEF RemoveDataRequest
  <2>11. \A p \in BOOLEAN : SetDataRequestsPaused(p) => SendIfConnected(SubscribeMsg(~p))
    BY DEF SetDataRequestsPaused
  <2>12. DisconnectServer => SendIfConnected(Msg0("Disconnect"))
    BY DEF DisconnectServer
  <2>13. \/ \E r \in RequestIds, req \in Saves : SaveRequest(r, req)
         \/ StorePaused \/ ConnectSimulator \/ AwaitServer \/ DisconnectSimulator \/ Crash
         => UNCHANGED wire
    BY DEF SaveRequest, StorePaused, ConnectSimulator, AwaitServer, DisconnectSimulator, Crash
  <2>. QED
    BY <2>1, <2>2, <2>3, <2>4, <2>5, <2>6, <2>7, <2>8, <2>9, <2>10, <2>11, <2>12, <2>13 DEF SessionNext
<1>. QED  BY <1>1, <1>2, <1>3

\* No step takes the record of a client from under its messages.
LEMMA RecordedStep ==
  ASSUME BaseInv, [SessionNext]_allVars, SessionTypeOK'
  PROVE  running' /\ Recorded'
<1>1. CASE Serve
  <2>1. PICK m \in Messages : m = Head(wire)
    BY <1>1, ServeHandles DEF BaseInv
  <2>2. wire \in Seq(Messages) /\ wire # <<>> /\ wire' = Tail(wire)
    BY <1>1, ServeHandles DEF BaseInv
  <2>3. 1 \in DOMAIN wire /\ wire[1] = m
    BY <2>1, <2>2, WithoutHead
  <2>4. m.cmd # "Connect" => status[Self] # "None"
    BY <2>3 DEF BaseInv, Recorded
  <2>5. Handles(m)
    BY <1>1, <2>1, <2>4, ServeHandles DEF BaseInv
  <2>6. running' /\ (status[Self] # "None" => status'[Self] # "None") /\ (m.cmd # "Connect" => status'[Self] # "None")
        /\ (m.cmd = "Connect" /\ Acked => status'[Self] # "None")
    BY <2>5, HandlesKeeps DEF BaseInv
  <2>7. ASSUME status[Self] = "None", m.cmd = "Connect", ~Acked
        PROVE  Recorded'
    <3>1. ~serverConnected /\ ~IsConnected /\ \A i \in DOMAIN wire : wire[i].cmd = "Connect"
      BY <2>7 DEF BaseInv, Recorded
    <3>2. ~serverConnected' /\ ~IsConnected'
      BY <1>1, <2>1, <2>7, <3>1 DEF Serve, IsConnected
    <3>3. \A i \in DOMAIN wire' : wire'[i].cmd = "Connect"
      BY <2>2, <3>1, WithoutHead
    <3>. QED  BY <3>2, <3>3 DEF Recorded
  <2>8. CASE status'[Self] # "None"
    BY <2>6, <2>8 DEF Recorded
  <2>. QED  BY <2>6, <2>7, <2>8
<1>2. CASE SessionNext /\ ~Serve
  <2>1. /\ UNCHANGED vars
        /\ serverConnected' => serverConnected
        /\ IsConnected' => IsConnected \/ serverConnected
    BY <1>2, ClientSends DEF BaseInv
  <2>2. PICK x : wire' = wire \o x /\ (IsConnected \/ x = <<>> \/ x = <<Msg0("Connect")>>)
    BY <1>2, ClientSends DEF BaseInv
  <2>3. status' = status /\ running' = running
    BY <2>1 DEF vars, connVars
  <2>4. ASSUME ~IsConnected, NEW i \in DOMAIN wire', wire'[i].cmd # "Connect"
        PROVE  i \in DOMAIN wire /\ wire[i].cmd # "Connect"
    <3>1. wire \in Seq(Messages)
      BY DEF BaseInv, SessionTypeOK
    <3>2. CASE x = <<>>
      <4>1. wire' = wire
        BY ONLY <2>2, <3>1, <3>2
      <4>. QED  BY <2>4, <4>1
    <3>3. CASE x = <<Msg0("Connect")>>
      <4>2. PICK m : m = Msg0("Connect")
        OBVIOUS
      <4>3. m \in Messages /\ m.cmd = "Connect" /\ x = <<m>>
        BY <3>3, <4>2, MessageTypes DEF Msg0
      <4>1. x \in Seq(Messages) /\ \A j \in DOMAIN x : x[j].cmd = "Connect"
        BY ONLY <4>3, OneMessage
      <4>. QED  BY <2>2, <2>4, <3>1, <4>1, Appended
    <3>. QED  BY <2>2, <2>4, <3>2, <3>3
  <2>. QED  BY <2>1, <2>3, <2>4 DEF BaseInv, Recorded
<1>3. CASE UNCHANGED allVars
  BY <1>3 DEF allVars, serverVars, vars, connVars, clientVars, BaseInv, Recorded, IsConnected
<1>. QED  BY <1>1, <1>2, <1>3

\* Every step keeps the types and the record.
LEMMA BaseStep == BaseInv /\ [SessionNext]_allVars => BaseInv'
<1> SUFFICES ASSUME BaseInv, [SessionNext]_allVars PROVE BaseInv'
  OBVIOUS
<1>1. IInv'
  BY ServerStep, StepInv DEF BaseInv
<1>2. SessionTypeOK'
  <2>1. CASE SessionNext
    BY <2>1, RequestCallTypes, ConnectionTypes, ServeTypes DEF SessionNext, BaseInv
  <2>2. CASE UNCHANGED allVars
    BY <2>2 DEF BaseInv, SessionTypeOK, allVars, clientVars, requestVars, clientEventVars, counters
  <2>. QED  BY <2>1, <2>2
<1>3. running' /\ Recorded'
  BY <1>2, RecordedStep
<1>. QED  BY <1>1, <1>2, <1>3 DEF BaseInv

\* The state of client and server keeps its types.
THEOREM SessionTypeCorrect == SessionSpec => []BaseInv
<1>. QED  BY SessionInitTypes, BaseStep, PTL DEF SessionSpec

\* The server that one client talks to through a queue is the server of WASimModule: whatever is proved of that
\* one holds here, whichever of its messages are late and whatever the client forgets.
THEOREM SessionRefinesServer == SessionSpec => Spec
<1>1. SessionInit => Init
  BY DEF SessionInit
<1>2. BaseInv /\ [SessionNext]_allVars => [Next]_vars
  BY ServerStep DEF BaseInv
<1>. QED  BY <1>1, <1>2, SessionTypeCorrect, PTL DEF SessionSpec, Spec

--------------------------------------------------------------------------------
\* The pause of all updates

\* What the application asked for last
Want == IF saving.at = "pause" THEN saving.new ELSE requestsPaused

Subscribes == {m \in Messages : m.cmd = "Subscribe"}

\* Once the flag has been sent on connection, the last message about it asks for what is wanted.
PauseInv ==
    IsConnected /\ ~ToReplay("pause") /\ ~raced
        => Ends(wire, Subscribes, {SubscribeMsg(~Want)}, paused[Self] = Want)

\* Only a Subscribe message changes the flag of a client.
LEMMA HandlesPause ==
  ASSUME IInv, NEW m, Handles(m)
  PROVE  paused'[Self] = IF m.cmd = "Subscribe" THEN m.arg = FALSE ELSE paused[Self]
<1>1. Self \in Clients /\ paused \in [Clients -> BOOLEAN]
  BY SessionConstants DEF IInv, TypeOK
<1>2. CASE m.cmd = "Subscribe"
  <2>1. \/ m.arg = TRUE /\ Resume(Self)
        \/ m.arg = FALSE /\ Suspend(Self)
    BY <1>2 DEF Handles
  <2>2. Resume(Self) => paused'[Self] = FALSE
    BY <1>1 DEF Resume
  <2>3. Suspend(Self) => paused'[Self] = TRUE
    BY <1>1 DEF Suspend
  <2>. QED  BY <1>2, <2>1, <2>2, <2>3
<1>3. CASE m.cmd # "Subscribe"
  <2>1. paused' = paused
    BY <1>3 DEF Handles, ConnectEvent, Disconnect, AddRequest, UpdateRequest, RemoveRequest, UpdateCommand,
                RemoveEvent, RegisterEvent
  <2>. QED  BY <1>3, <2>1
<1>. QED  BY <1>2, <1>3

\* The server takes a message about the pause flag, or another one.
LEMMA ServePause ==
  ASSUME BaseInv, PauseInv, Serve
  PROVE  PauseInv'
<1> SUFFICES ASSUME IsConnected', ~ToReplay("pause")', ~raced'
             PROVE  Ends(wire, Subscribes, {SubscribeMsg(~Want)}, paused[Self] = Want)'
  BY DEF PauseInv
<1>1. UNCHANGED <<link, replay, raced, requestsPaused>>
  BY DEF Serve
<1>2. Want' = Want
  <2>1. saving' = saving \/ \E a : saving' = [saving EXCEPT !.reply = a]
    BY DEF Serve
  <2>2. saving'.at = saving.at /\ saving'.new = saving.new
    BY <2>1 DEF BaseInv, SessionTypeOK
  <2>. QED  BY <1>1, <2>2 DEF Want
<1>3. PICK m \in Messages : m = Head(wire)
  BY ServeHandles DEF BaseInv
<1>4. wire \in Seq(Messages) /\ wire # <<>> /\ wire' = Tail(wire)
  BY ServeHandles DEF BaseInv
<1>5. IsConnected /\ ~ToReplay("pause") /\ ~raced
  BY <1>1 DEF IsConnected, ToReplay
<1>6. PICK G : G = {SubscribeMsg(~Want)}
  OBVIOUS
<1>7. Ends(wire, Subscribes, G, paused[Self] = Want)
  BY <1>5, <1>6 DEF PauseInv
<1>8. Handles(m)
  BY <1>3, <1>5, ServeHandles DEF BaseInv, Recorded
<1>9. PICK next \in BOOLEAN : next = (paused'[Self] = Want)
  OBVIOUS
<1>10. m \in Subscribes /\ m \in G => next
  <2>1. m.arg = (~Want) /\ m.cmd = "Subscribe" /\ Want \in BOOLEAN => next
    <3>1. Want \in BOOLEAN /\ m.arg = (~Want) => (m.arg = FALSE) = Want
      OBVIOUS
    <3>. QED  BY <1>8, <1>9, <3>1, HandlesPause DEF BaseInv
  <2>2. Want \in BOOLEAN
    BY DEF BaseInv, SessionTypeOK, Want
  <2>. QED  BY <1>6, <2>1, <2>2 DEF SubscribeMsg
<1>11. m \notin Subscribes /\ paused[Self] = Want => next
  BY <1>3, <1>8, <1>9, HandlesPause DEF BaseInv, Subscribes
<1>12. Ends(Tail(wire), Subscribes, G, next)
  BY <1>3, <1>4, <1>7, <1>10, <1>11, EndsTail
<1>13. G = {SubscribeMsg(~Want)}'
  BY <1>2, <1>6 DEF SubscribeMsg
<1>. QED  BY <1>2, <1>4, <1>9, <1>12, <1>13

\* A step that neither changes what is wanted nor sends a Subscribe
LEMMA OtherPause ==
  ASSUME SessionTypeOK, PauseInv, UNCHANGED <<vars, raced>>, Want' = Want, IsConnected' => IsConnected,
         ToReplay("pause") => ToReplay("pause")' \/ ~IsConnected,
         NEW x \in Seq(Messages), wire' = wire \o x, ~Has(x, Subscribes)
  PROVE  PauseInv'
<1> SUFFICES ASSUME IsConnected', ~ToReplay("pause")', ~raced'
             PROVE  Ends(wire, Subscribes, {SubscribeMsg(~Want)}, paused[Self] = Want)'
  BY DEF PauseInv
<1>1. Ends(wire, Subscribes, {SubscribeMsg(~Want)}, paused[Self] = Want)
  BY DEF PauseInv
<1>2. PICK G, now : G = {SubscribeMsg(~Want)} /\ now = (paused[Self] = Want)
  OBVIOUS
<1>3. Ends(wire \o x, Subscribes, G, now)
  BY <1>1, <1>2, EndsSame DEF SessionTypeOK
<1>4. G = {SubscribeMsg(~Want)}' /\ now = (paused[Self] = Want)'
  BY <1>2 DEF SubscribeMsg, vars, connVars
<1>. QED  BY <1>3, <1>4

\* A step that sends at most one message
LEMMA SentOne ==
  ASSUME SessionTypeOK, NEW m \in Messages, UNCHANGED wire \/ SendIfConnected(m) \/ Send(<<m>>)
  PROVE  \E x \in Seq(Messages) : wire' = wire \o x /\ \A M : Has(x, M) => m \in M
<1>1. wire \in Seq(Messages)
  BY DEF SessionTypeOK
<1>2. CASE wire' = wire \o <<m>>
  BY <1>2, OneMessage
<1>3. CASE wire' = wire
  <2>1. wire' = wire \o <<>> /\ <<>> \in Seq(Messages)
    BY ONLY <1>1, <1>3
  <2>. QED  BY <2>1, OneMessage
<1>4. wire \o <<>> = wire
  BY ONLY <1>1
<1>. QED  BY <1>2, <1>3, <1>4 DEF SendIfConnected, Send

\* The messages of the calls about requests, ...
LEMMA RequestCallSends ==
  ASSUME SessionTypeOK,
         \/ \E r \in RequestIds : (\E req \in Saves : SaveRequest(r, req)) \/ RemoveDataRequest(r) \/ UpdateDataRequest(r)
         \/ SubmitRequest \/ EndSave \/ StorePaused
  PROVE  \E x \in Seq(Messages) : wire' = wire \o x /\ ~Has(x, {m \in Messages : m.cmd \in {"Subscribe", "Register", "Disconnect"}})
<1> DEFINE M == {m \in Messages : m.cmd \in {"Subscribe", "Register", "Disconnect"}}
<1>1. ASSUME NEW m \in Messages, m.cmd \notin {"Subscribe", "Register", "Disconnect"},
             UNCHANGED wire \/ SendIfConnected(m) \/ Send(<<m>>)
      PROVE  \E x \in Seq(Messages) : wire' = wire \o x /\ ~Has(x, M)
  BY <1>1, SentOne
<1>2. ASSUME NEW r \in RequestIds, UNCHANGED wire \/ SendIfConnected(RemoveMsg(r))
      PROVE  \E x \in Seq(Messages) : wire' = wire \o x /\ ~Has(x, M)
  <2>1. RemoveMsg(r) \in Messages /\ RemoveMsg(r).cmd = "Remove"
    BY MessageTypes DEF RemoveMsg
  <2>. QED  BY <1>1, <1>2, <2>1
<1>3. ASSUME NEW r \in RequestIds, RemoveDataRequest(r)
      PROVE  \E x \in Seq(Messages) : wire' = wire \o x /\ ~Has(x, M)
  BY <1>2, <1>3 DEF RemoveDataRequest
<1>4. CASE EndSave
  <2>1. saving.r \in RequestIds
    BY <1>4 DEF EndSave, SessionTypeOK
  <2>. QED  BY <1>2, <1>4, <2>1 DEF EndSave
<1>5. ASSUME NEW r \in RequestIds, UpdateDataRequest(r)
      PROVE  \E x \in Seq(Messages) : wire' = wire \o x /\ ~Has(x, M)
  <2>1. PICK m \in Messages : m = [Msg0("Update") EXCEPT !.id = r]
    BY MessageTypes
  <2>2. m.cmd = "Update"
    BY <2>1 DEF Msg0
  <2>3. Send(<<m>>)
    BY <1>5, <2>1 DEF UpdateDataRequest
  <2>. QED  BY <1>1, <2>2, <2>3
<1>6. CASE SubmitRequest
  <2>1. saving.r \in RequestIds /\ mine[saving.r] \in Saves
    BY <1>6, SavedTypes DEF SubmitRequest, SessionTypeOK
  <2>2. SaveMsg(saving.r) \in Messages /\ SaveMsg(saving.r).cmd = "Save"
    BY <2>1, MessageTypes DEF SaveMsg
  <2>. QED  BY <1>1, <1>6, <2>2 DEF SubmitRequest
<1>7. Msg0("Connect") \in Messages /\ Msg0("Connect").cmd = "Connect"
  BY MessageTypes DEF Msg0
<1>8. CASE StorePaused
  BY <1>1, <1>7, <1>8 DEF StorePaused
<1>9. ASSUME NEW r \in RequestIds, NEW req \in Saves, SaveRequest(r, req)
      PROVE  \E x \in Seq(Messages) : wire' = wire \o x /\ ~Has(x, M)
  BY <1>1, <1>7, <1>9 DEF SaveRequest
<1>. QED  BY <1>3, <1>4, <1>5, <1>6, <1>8, <1>9

\* ... about events, ...
LEMMA EventCallSends ==
  ASSUME SessionTypeOK, NEW e \in EventIds,
         RemoveClientEvent(e) \/ \E code \in Codes : RegisterClientEvent(e, code)
  PROVE  \E x \in Seq(Messages) : wire' = wire \o x /\ ~Has(x, {m \in Messages : m.cmd # "Register" \/ m.id # e})
<1> DEFINE M == {m \in Messages : m.cmd # "Register" \/ m.id # e}
<1>1. ASSUME NEW code \in Codes \cup {""}, UNCHANGED wire \/ SendIfConnected(RegisterMsg(e, code))
      PROVE  \E x \in Seq(Messages) : wire' = wire \o x /\ ~Has(x, M)
  <2>1. PICK m \in Messages : m = RegisterMsg(e, code)
    BY MessageTypes
  <2>2. m.cmd = "Register" /\ m.id = e
    BY <2>1 DEF RegisterMsg
  <2>3. UNCHANGED wire \/ SendIfConnected(m)
    BY <1>1, <2>1
  <2>. QED  BY <2>2, <2>3, SentOne
<1>2. CASE RemoveClientEvent(e)
  BY <1>1, <1>2 DEF RemoveClientEvent
<1>3. ASSUME NEW code \in Codes, RegisterClientEvent(e, code)
      PROVE  \E x \in Seq(Messages) : wire' = wire \o x /\ ~Has(x, M)
  BY <1>1, <1>3 DEF RegisterClientEvent
<1>. QED  BY <1>2, <1>3

\* ... and of the thread that makes and ends connections.
LEMMA ConnectionSends ==
  ASSUME SessionTypeOK,
         ConnectSimulator \/ ConnectServer \/ AwaitServer \/ DisconnectServer \/ DisconnectSimulator \/ Crash
  PROVE  \E x \in Seq(Messages) :
            wire' = wire \o x /\ ~Has(x, {m \in Messages : m.cmd \notin {"Connect", "Disconnect"}})
<1> DEFINE M == {m \in Messages : m.cmd \notin {"Connect", "Disconnect"}}
<1>1. \A kind \in {"Connect", "Disconnect"} : Msg0(kind) \in Messages /\ Msg0(kind) \notin M
  BY MessageTypes DEF Msg0
<1>2. \E kind \in {"Connect", "Disconnect"} : UNCHANGED wire \/ SendIfConnected(Msg0(kind)) \/ Send(<<Msg0(kind)>>)
  BY DEF ConnectSimulator, ConnectServer, AwaitServer, DisconnectServer, DisconnectSimulator, Crash
<1>. QED  BY <1>1, <1>2, SentOne

\* One part of the replay
LEMMA ReplaySends ==
  ASSUME SessionTypeOK, Replay
  PROVE  /\ Head(replay) \in {"pause", "requests", "events"}
         /\ UNCHANGED <<vars, link, serverConnected, mine, heard, deaf, unsettled, requestsPaused, saving,
                        sentToServer, orphans, crashes, theirs>>
         /\ \A kind : ToReplay(kind)' <=> ToReplay(kind) /\ kind # Head(replay)
         /\ ~IsConnected => wire' = wire \o <<>>
         /\ IsConnected => \E x \in Seq(Messages) :
              /\ wire' = wire \o x
              /\ Head(replay) = "pause" => x = <<SubscribeMsg(~requestsPaused)>>
              /\ Head(replay) = "requests" => x \in ReplayRequests
              /\ Head(replay) = "events" => x \in ReplayEvents
<1>1. replay \in Replays /\ replay # <<>> /\ replay' = Tail(replay)
  BY DEF SessionTypeOK, Replay
<1>2. Head(replay) \in {"pause", "requests", "events"}
  BY <1>1, ReplayOrder
<1>3. \A kind : ToReplay(kind)' <=> ToReplay(kind) /\ kind # Head(replay)
  BY <1>1, ReplayOrder DEF ToReplay
<1>4. ASSUME ~IsConnected
      PROVE  wire' = wire \o <<>>
  <2>1. wire' = wire /\ wire \in Seq(Messages)
    BY <1>4 DEF Replay, SessionTypeOK
  <2>. QED  BY ONLY <2>1
<1>5. ASSUME IsConnected
      PROVE  \E x \in Seq(Messages) :
              /\ wire' = wire \o x
              /\ Head(replay) = "pause" => x = <<SubscribeMsg(~requestsPaused)>>
              /\ Head(replay) = "requests" => x \in ReplayRequests
              /\ Head(replay) = "events" => x \in ReplayEvents
  <2>1. CASE Head(replay) = "pause"
    <3>1. SubscribeMsg(~requestsPaused) \in Messages
      BY DEF SubscribeMsg, Messages, SessionTypeOK
    <3>2. <<SubscribeMsg(~requestsPaused)>> \in Seq(Messages)
      BY ONLY <3>1, OneMessage
    <3>3. wire' = wire \o <<SubscribeMsg(~requestsPaused)>>
      BY <1>5, <2>1 DEF Replay, Send, ReplaySubscribe
    <3>. QED  BY <2>1, <3>2, <3>3
  <2>2. CASE Head(replay) = "requests"
    <3>1. PICK x \in ReplayRequests : wire' = wire \o x
      BY <1>5, <2>2 DEF Replay, Send
    <3>. QED  BY <2>2, <3>1, ReplayedRequests
  <2>3. CASE Head(replay) = "events"
    <3>1. PICK x \in ReplayEvents : wire' = wire \o x
      BY <1>5, <2>3 DEF Replay, Send
    <3>. QED  BY <2>3, <3>1, ReplayedEvents
  <2>. QED  BY <1>2, <2>1, <2>2, <2>3
<1>6. UNCHANGED <<vars, link, serverConnected, mine, heard, deaf, unsettled, requestsPaused, saving,
                  sentToServer, orphans, crashes, theirs>>
  BY DEF Replay, serverVars, requestVars, counters
<1>. QED  BY <1>2, <1>3, <1>4, <1>5, <1>6

\* Every step keeps the two ends on the way to the same pause flag.
LEMMA PauseStep ==
  ASSUME BaseInv, PauseInv, [SessionNext]_allVars
  PROVE  PauseInv'
<1> USE DEF requestVars, clientEventVars, counters, serverVars
<1>0. SessionTypeOK
  BY DEF BaseInv
<1>1. ASSUME \/ \E r \in RequestIds : (\E req \in Saves : SaveRequest(r, req)) \/ RemoveDataRequest(r) \/ UpdateDataRequest(r)
             \/ SubmitRequest \/ EndSave \/ StorePaused
      PROVE  PauseInv'
  <2>1. PICK x \in Seq(Messages) : wire' = wire \o x /\ ~Has(x, {m \in Messages : m.cmd \in {"Subscribe", "Register", "Disconnect"}})
    BY <1>0, <1>1, RequestCallSends
  <2>2. ~Has(x, Subscribes)
    BY <2>1 DEF Has, Subscribes
  <2>3. Want' = Want
    <3>1. CASE StorePaused
      BY <3>1 DEF StorePaused, Want, NoSave
    <3>2. CASE ~StorePaused
      <4>1. requestsPaused' = requestsPaused
        BY <1>1, <3>2 DEF SaveRequest, RemoveDataRequest, UpdateDataRequest, SubmitRequest, EndSave
      <4>2. saving.at # "pause"
        <5>1. saving.at \in {"submit", "resize", "wait"} \/ saving = NoSave
          BY <1>1, <3>2 DEF SaveRequest, RemoveDataRequest, UpdateDataRequest, SubmitRequest, EndSave, Call
        <5>2. NoSave.at = "none"
          BY DEF NoSave
        <5>. QED  BY <5>1, <5>2
      <4>3. saving'.at # "pause"
        <5>1. ASSUME NEW r \in RequestIds, NEW req \in Saves, SaveRequest(r, req)
              PROVE  saving'.at # "pause"
          BY <5>1 DEF SaveRequest, NoSave
        <5>2. CASE SubmitRequest
          <6>1. saving' = NoSave \/ saving' = [saving EXCEPT !.at = "wait"]
            BY <5>2 DEF SubmitRequest
          <6>2. saving \in [at: Places, r: RequestIds \cup {None}, new: BOOLEAN, reply: {"None", "Ack", "Nak"}]
            BY <1>0 DEF SessionTypeOK
          <6>3. [saving EXCEPT !.at = "wait"].at = "wait" /\ NoSave.at = "none"
            BY ONLY <6>2 DEF NoSave
          <6>. QED  BY <6>1, <6>3
        <5>3. EndSave => saving' = NoSave
          BY DEF EndSave
        <5>4. \A r \in RequestIds : RemoveDataRequest(r) \/ UpdateDataRequest(r) => saving' = saving
          BY DEF RemoveDataRequest, UpdateDataRequest
        <5>. QED  BY <1>1, <3>2, <4>2, <5>1, <5>2, <5>3, <5>4 DEF NoSave
      <4>. QED  BY <4>1, <4>2, <4>3 DEF Want
    <3>. QED  BY <3>1, <3>2
  <2>4. UNCHANGED <<vars, raced, link, replay>>
    BY <1>1 DEF SaveRequest, RemoveDataRequest, UpdateDataRequest, SubmitRequest, EndSave, StorePaused
  <2>. QED  BY <1>0, <2>1, <2>2, <2>3, <2>4, OtherPause DEF ToReplay, IsConnected
<1>2. ASSUME NEW e \in EventIds, RemoveClientEvent(e) \/ \E code \in Codes : RegisterClientEvent(e, code)
      PROVE  PauseInv'
  <2>1. PICK x \in Seq(Messages) : wire' = wire \o x /\ ~Has(x, {m \in Messages : m.cmd # "Register" \/ m.id # e})
    BY <1>0, <1>2, EventCallSends
  <2>2. ~Has(x, Subscribes)
    BY <2>1 DEF Has, Subscribes
  <2>4. UNCHANGED <<vars, raced, link, replay, saving, requestsPaused>>
    BY <1>2 DEF RemoveClientEvent, RegisterClientEvent
  <2>. QED  BY <1>0, <2>1, <2>2, <2>4, OtherPause DEF ToReplay, IsConnected, Want
<1>3. ASSUME ConnectSimulator \/ ConnectServer \/ AwaitServer \/ DisconnectServer \/ DisconnectSimulator \/ Crash
      PROVE  PauseInv'
  <2>1. CASE ~IsConnected'
    BY <2>1 DEF PauseInv
  <2>2. CASE AwaitServer /\ IsConnected'
    <3>1. replay' = <<"pause", "requests", "events">>
      BY <2>2 DEF AwaitServer, IsConnected
    <3>2. ToReplay("pause")'
      BY <3>1 DEF ToReplay
    <3>. QED  BY <3>2 DEF PauseInv
  <2>3. IsConnected' => AwaitServer
    BY <1>3 DEF ConnectSimulator, ConnectServer, DisconnectServer, DisconnectSimulator, Crash, IsConnected
  <2>. QED  BY <2>1, <2>2, <2>3
<1>4. ASSUME NEW p \in BOOLEAN, SetDataRequestsPaused(p)
      PROVE  PauseInv'
  <2>1. CASE ~IsConnected
    BY <1>4, <2>1 DEF PauseInv, SetDataRequestsPaused, IsConnected
  <2>2. CASE IsConnected
    <3>1. PICK m \in Messages : m = SubscribeMsg(~p)
      BY SubscribeTypes
    <3>2. wire' = wire \o <<m>>
      BY <1>4, <2>2, <3>1 DEF SetDataRequestsPaused, SendIfConnected, Send
    <3>3. Want' = p
      BY <1>4 DEF SetDataRequestsPaused, Want, NoSave
    <3>4. m \in Subscribes
      BY <3>1 DEF SubscribeMsg, Subscribes
    <3>5. PICK G, now : G = {m} /\ now = (paused[Self] = Want)'
      OBVIOUS
    <3>6. <<m>> \in Seq(Messages) /\ Has(<<m>>, Subscribes) /\ \A i \in DOMAIN <<m>> : <<m>>[i] \in G
      BY <3>4, <3>5, OneMessage
    <3>7. Ends(wire \o <<m>>, Subscribes, G, now)
      BY <1>0, <3>6, EndsSet DEF SessionTypeOK
    <3>8. G = {SubscribeMsg(~Want)}'
      BY <3>1, <3>3, <3>5 DEF SubscribeMsg
    <3>. QED  BY <3>2, <3>5, <3>7, <3>8 DEF PauseInv
  <2>. QED  BY <2>1, <2>2
<1>5. CASE Replay
  <2>1. raced' = IF Head(replay) = "pause" THEN saving.at = "pause" ELSE raced
    BY <1>5 DEF Replay
  <2>2. CASE ~IsConnected
    BY <1>0, <1>5, <2>2, ReplaySends DEF PauseInv, IsConnected
  <2>3. ASSUME IsConnected, Head(replay) = "pause", saving.at # "pause"
        PROVE  PauseInv'
    <3>1. PICK m \in Messages : m = SubscribeMsg(~requestsPaused)
      BY <1>0, SubscribeTypes DEF SessionTypeOK
    <3>2. wire' = wire \o <<m>>
      BY <1>0, <1>5, <2>3, <3>1, ReplaySends
    <3>3. Want' = requestsPaused
      BY <1>0, <1>5, <2>3, ReplaySends DEF Want
    <3>4. m \in Subscribes
      BY <3>1 DEF SubscribeMsg, Subscribes
    <3>5. PICK G, now : G = {m} /\ now = (paused[Self] = Want)'
      OBVIOUS
    <3>6. <<m>> \in Seq(Messages) /\ Has(<<m>>, Subscribes) /\ \A i \in DOMAIN <<m>> : <<m>>[i] \in G
      BY <3>4, <3>5, OneMessage
    <3>7. Ends(wire \o <<m>>, Subscribes, G, now)
      BY <1>0, <3>6, EndsSet DEF SessionTypeOK
    <3>8. G = {SubscribeMsg(~Want)}'
      BY <3>1, <3>3, <3>5 DEF SubscribeMsg
    <3>. QED  BY <3>2, <3>5, <3>7, <3>8 DEF PauseInv
  <2>4. ASSUME IsConnected, Head(replay) = "pause", saving.at = "pause"
        PROVE  PauseInv'
    BY <2>1, <2>4 DEF PauseInv
  <2>5. ASSUME IsConnected, Head(replay) # "pause"
        PROVE  PauseInv'
    <3>1. PICK x \in Seq(Messages) :
             /\ wire' = wire \o x
             /\ Head(replay) = "requests" => x \in ReplayRequests
             /\ Head(replay) = "events" => x \in ReplayEvents
      BY <1>0, <1>5, <2>5, ReplaySends
    <3>2. \A i \in DOMAIN x : x[i].cmd \in {"Save", "Register"}
      <4>1. CASE x \in ReplayRequests
        BY <1>0, <4>1, ReplayedRequests DEF SaveMsg
      <4>2. CASE x \in ReplayEvents
        BY <1>0, <4>2, ReplayedEvents DEF RegisterMsg
      <4>. QED  BY <1>0, <1>5, <2>5, <3>1, <4>1, <4>2, ReplaySends
    <3>3. ~Has(x, Subscribes)
      BY <3>2 DEF Has, Subscribes
    <3>4. Want' = Want /\ raced' = raced /\ UNCHANGED <<vars, link>>
      BY <1>0, <1>5, <2>1, <2>5, ReplaySends DEF Want
    <3>5. ToReplay("pause") => ToReplay("pause")'
      BY <1>0, <1>5, <2>5, ReplaySends
    <3>. QED  BY <1>0, <3>1, <3>3, <3>4, <3>5, OtherPause DEF IsConnected
  <2>. QED  BY <2>2, <2>3, <2>4, <2>5
<1>6. CASE Serve
  BY <1>6, ServePause
<1>7. CASE UNCHANGED allVars
  BY <1>7 DEF allVars, clientVars, vars, connVars, PauseInv, IsConnected, ToReplay, Want, SubscribeMsg
<1>. QED  BY <1>1, <1>2, <1>3, <1>4, <1>5, <1>6, <1>7 DEF SessionNext

\* The pause of all updates which the application asked for last is the one the server has once all is settled,
\* through any number of disconnections and crashes, late messages and failures, unless the flag was sent
\* again in the middle of the call: connectServer() sends it before anything else.
THEOREM PausesAgree == SessionSpec => []PauseAgrees
<1>1. SessionInit => PauseInv
  BY DEF SessionInit, PauseInv, IsConnected
<1>2. BaseInv /\ PauseInv /\ [SessionNext]_allVars => PauseInv'
  BY PauseStep
<1>3. BaseInv /\ PauseInv => PauseAgrees
  <2> SUFFICES ASSUME BaseInv, PauseInv, Settled, ~raced PROVE paused[Self] = requestsPaused
    BY DEF PauseAgrees
  <2>1. saving.at = "none" /\ wire = <<>> /\ replay = <<>> /\ IsConnected
    BY DEF Settled, NoSave
  <2>2. ~ToReplay("pause") /\ ~Has(wire, Subscribes)
    BY <2>1 DEF ToReplay, Has
  <2>. QED  BY <2>1, <2>2 DEF PauseInv, Ends, Want
<1>. QED  BY <1>1, <1>2, <1>3, SessionTypeCorrect, PTL DEF SessionSpec

--------------------------------------------------------------------------------
\* The data areas the client listens to

\* The call in progress will make or resize the area of r.
WillListen(r) ==
    saving.r = r /\ saving.at \in {"submit", "resize"} /\ (saving.new \/ (saving.at = "resize" /\ heard[r] # 0))

HeardInv ==
    \A r \in RequestIds : link # "none" /\ mine[r] # None /\ r \notin deaf => heard[r] = mine[r].size \/ WillListen(r)

\* A request which is new gets an area, and one whose size changes has one to be resized.
LEMMA SaveHeard ==
  ASSUME SessionTypeOK, HeardInv, NEW r \in RequestIds, NEW req \in Saves, SaveRequest(r, req)
  PROVE  HeardInv'
<1>1. /\ saving = NoSave /\ UNCHANGED <<link, heard, deaf>>
      /\ mine' = [mine EXCEPT ![r] = req]
      /\ saving' = [NoSave EXCEPT !.at = IF mine[r] # None /\ mine[r].size # req.size THEN "resize" ELSE "submit",
                                  !.r = r, !.new = (mine[r] = None)]
  BY DEF SaveRequest, Call
<1>2. saving'.r = r /\ saving'.new = (mine[r] = None)
      /\ saving'.at = IF mine[r] # None /\ mine[r].size # req.size THEN "resize" ELSE "submit"
  BY <1>1 DEF NoSave
<1>3. mine'[r] = req /\ \A q \in RequestIds \ {r} : mine'[q] = mine[q]
  BY <1>1 DEF SessionTypeOK
<1>4. \A q \in RequestIds : ~WillListen(q)
  BY <1>1 DEF WillListen, NoSave
<1>5. ASSUME NEW q \in RequestIds, link # "none", mine'[q] # None, q \notin deaf
      PROVE  heard[q] = mine'[q].size \/ WillListen(q)'
  <2>1. CASE q # r
    BY <1>3, <1>4, <1>5, <2>1 DEF HeardInv
  <2>2. CASE q = r /\ mine[r] = None
    BY <1>2, <2>2 DEF WillListen
  <2>3. CASE q = r /\ mine[r] # None
    <3>1. heard[r] = mine[r].size /\ mine[r] \in Saves
      BY <1>4, <1>5, <2>3 DEF HeardInv, SessionTypeOK
    <3>2. heard[r] # 0 /\ heard'[r] = heard[r]
      BY <1>1, <3>1, SaveTypes
    <3>. QED  BY <1>2, <1>3, <2>3, <3>1, <3>2 DEF WillListen
  <2>. QED  BY <2>1, <2>2, <2>3
<1>. QED  BY <1>1, <1>5 DEF HeardInv

\* registerDataRequestArea() makes or resizes it.
LEMMA SubmitHeard ==
  ASSUME SessionTypeOK, HeardInv, SubmitRequest
  PROVE  HeardInv'
<1> DEFINE s == saving.r
           works == saving.new \/ (saving.at = "resize" /\ heard[s] # 0)
           remake == saving.new \/ saving.at = "resize"
<1>1. s \in RequestIds /\ saving.at \in {"submit", "resize"} /\ UNCHANGED <<link, mine>>
  BY DEF SubmitRequest, SessionTypeOK
<1>2. WillListen(s) <=> works
  BY <1>1 DEF WillListen
<1>3. \A q \in RequestIds \ {s} : ~WillListen(q)
  BY DEF WillListen
<1>4. CASE IsConnected
  <2>1. /\ heard' = IF works THEN [heard EXCEPT ![s] = mine[s].size] ELSE heard
        /\ deaf' = IF works THEN deaf \ {s} ELSE deaf
    BY <1>4 DEF SubmitRequest
  <2>2. CASE works
    <3>1. heard'[s] = mine[s].size /\ \A q \in RequestIds \ {s} : heard'[q] = heard[q]
      BY <1>1, <2>1, <2>2 DEF SessionTypeOK
    <3>. QED  BY <1>1, <1>3, <2>1, <2>2, <3>1 DEF HeardInv
  <2>3. CASE ~works
    <3>1. heard' = heard /\ deaf' = deaf
      BY <2>1, <2>3
    <3>. QED  BY <1>1, <1>2, <1>3, <2>3, <3>1 DEF HeardInv
  <2>. QED  BY <2>2, <2>3
<1>5. CASE ~IsConnected
  <2>1. heard' = heard /\ deaf' = IF remake /\ link # "none" THEN deaf \cup {s} ELSE deaf
    BY <1>5 DEF SubmitRequest
  <2>2. works => remake
    OBVIOUS
  <2>3. ASSUME NEW q \in RequestIds, link # "none", mine[q] # None, q \notin deaf'
        PROVE  heard[q] = mine[q].size
    <3>1. q \notin deaf /\ (q = s => ~remake)
      BY <2>1, <2>3
    <3>2. ~WillListen(q)
      BY <1>2, <1>3, <2>2, <3>1
    <3>. QED  BY <2>3, <3>1, <3>2 DEF HeardInv
  <2>. QED  BY <1>1, <2>1, <2>3 DEF HeardInv
<1>. QED  BY <1>4, <1>5

\* A request which is removed is listened to no longer, and the others as before.
LEMMA RemovedHeard ==
  ASSUME SessionTypeOK, HeardInv, NEW r \in RequestIds, Removed(r), link' = link,
         \A q \in RequestIds : ~WillListen(q)
  PROVE  HeardInv'
<1>1. mine'[r] = None /\ \A q \in RequestIds \ {r} : mine'[q] = mine[q] /\ heard'[q] = heard[q]
  BY DEF Removed, SessionTypeOK
<1>2. \A q \in RequestIds \ {r} : q \notin deaf' => q \notin deaf
  BY DEF Removed
<1>. QED  BY <1>1, <1>2 DEF HeardInv

\* There is no connection to the server without one to the simulator.
LinkInv == serverConnected => link # "none"

\* A link to the server needs one to the simulator.
LEMMA LinkStep ==
  ASSUME BaseInv, LinkInv, [SessionNext]_allVars
  PROVE  LinkInv'
<1>1. CASE UNCHANGED <<serverConnected, link>>
  BY <1>1 DEF LinkInv
<1>2. CASE Serve
  BY <1>2 DEF Serve, LinkInv
<1>3. CASE ConnectSimulator \/ ConnectServer \/ AwaitServer \/ DisconnectServer \/ DisconnectSimulator \/ Crash
  BY <1>3 DEF ConnectSimulator, ConnectServer, AwaitServer, DisconnectServer, DisconnectSimulator, Crash, LinkInv
<1>. QED
  BY <1>1, <1>2, <1>3 DEF SessionNext, SaveRequest, RemoveDataRequest, UpdateDataRequest, SubmitRequest, EndSave, StorePaused,
       SetDataRequestsPaused, RemoveClientEvent, RegisterClientEvent, Replay, allVars, clientVars

\* Every step keeps the areas the client listens to.
LEMMA HeardStep ==
  ASSUME BaseInv, LinkInv, HeardInv, [SessionNext]_allVars
  PROVE  HeardInv'
<1> USE DEF requestVars, clientEventVars, counters, serverVars
<1>0. SessionTypeOK
  BY DEF BaseInv
<1>1. ASSUME NEW r \in RequestIds, NEW req \in Saves, SaveRequest(r, req)
      PROVE  HeardInv'
  BY <1>0, <1>1, SaveHeard
<1>2. CASE SubmitRequest
  BY <1>0, <1>2, SubmitHeard
<1>3. ASSUME NEW r \in RequestIds, RemoveDataRequest(r)
      PROVE  HeardInv'
  <2>1. Removed(r) /\ link' = link /\ saving = NoSave
    BY <1>3 DEF RemoveDataRequest, Call
  <2>2. \A q \in RequestIds : ~WillListen(q)
    BY <2>1 DEF WillListen, NoSave
  <2>. QED  BY <1>0, <2>1, <2>2, RemovedHeard
<1>4. CASE EndSave
  <2>1. link' = link /\ saving.at = "wait" /\ saving.r \in RequestIds
    BY <1>0, <1>4 DEF EndSave, SessionTypeOK
  <2>2. \A q \in RequestIds : ~WillListen(q)
    BY <2>1 DEF WillListen
  <2>3. Removed(saving.r) \/ UNCHANGED <<mine, heard, deaf>>
    BY <1>4 DEF EndSave
  <2>4. CASE Removed(saving.r)
    BY <1>0, <2>1, <2>2, <2>4, RemovedHeard
  <2>5. CASE UNCHANGED <<mine, heard, deaf>>
    BY <2>1, <2>2, <2>5 DEF HeardInv
  <2>. QED  BY <2>3, <2>4, <2>5
<1>5. ASSUME UNCHANGED <<mine, heard, deaf>>, link # "none" \/ link' = "none",
             saving'.at = saving.at /\ saving'.r = saving.r /\ saving'.new = saving.new
      PROVE  HeardInv'
  BY <1>5 DEF HeardInv, WillListen
<1>6. ASSUME UNCHANGED <<mine, heard, deaf, link>>, saving.at \notin {"submit", "resize"}
      PROVE  HeardInv'
  BY <1>6 DEF HeardInv, WillListen
<1>7. ASSUME NEW p \in BOOLEAN, SetDataRequestsPaused(p)
      PROVE  HeardInv'
  BY <1>6, <1>7 DEF SetDataRequestsPaused, Call, NoSave
<1>8. CASE StorePaused
  BY <1>6, <1>8 DEF StorePaused
<1>9. ASSUME \/ \E r \in RequestIds : UpdateDataRequest(r)
             \/ \E e \in EventIds : RemoveClientEvent(e) \/ \E code \in Codes : RegisterClientEvent(e, code)
             \/ Replay
      PROVE  HeardInv'
  <2>1. UNCHANGED <<mine, heard, deaf, link, saving>>
    BY <1>9 DEF UpdateDataRequest, RemoveClientEvent, RegisterClientEvent, Replay
  <2>. QED  BY <2>1 DEF HeardInv, WillListen
<1>10. CASE ConnectSimulator
  <2>1. \A r \in RequestIds : mine[r] # None => heard'[r] = mine[r].size
    BY <1>10 DEF ConnectSimulator, AllAreas
  <2>2. mine' = mine
    BY <1>10 DEF ConnectSimulator
  <2>. QED  BY <2>1, <2>2 DEF HeardInv
<1>11. CASE ConnectServer \/ AwaitServer \/ DisconnectServer
  <2>1. UNCHANGED <<mine, heard, deaf, saving>>
    BY <1>11 DEF ConnectServer, AwaitServer, DisconnectServer
  <2>2. link # "none"
    BY <1>11 DEF ConnectServer, AwaitServer, DisconnectServer, LinkInv
  <2>. QED  BY <1>5, <2>1, <2>2
<1>13. CASE DisconnectSimulator \/ Crash
  BY <1>13 DEF DisconnectSimulator, Crash, HeardInv
<1>14. CASE Serve
  <2>1. UNCHANGED <<mine, heard, deaf, link>>
    BY <1>14 DEF Serve
  <2>2. saving' = saving \/ \E a : saving' = [saving EXCEPT !.reply = a]
    BY <1>14 DEF Serve
  <2>3. saving'.at = saving.at /\ saving'.r = saving.r /\ saving'.new = saving.new
    BY <1>0, <2>2 DEF SessionTypeOK
  <2>. QED  BY <2>1, <2>3 DEF HeardInv, WillListen
<1>15. CASE UNCHANGED allVars
  BY <1>15 DEF allVars, clientVars, HeardInv, WillListen
<1>. QED
  BY <1>1, <1>2, <1>3, <1>4, <1>7, <1>8, <1>9, <1>10, <1>11, <1>13, <1>14, <1>15 DEF SessionNext

\* The client listens to an area of the right size for each request it has over a connection, whichever came
\* first, the request or the connections: one that is new gets an area when it is submitted or by
\* connectSimulator(), and a change of size makes it again.
THEOREM RequestsAreHeard == SessionSpec => []HeardWhenServed
<1>1. SessionInit => LinkInv /\ HeardInv
  BY DEF SessionInit, LinkInv, HeardInv
<1>2. BaseInv /\ LinkInv /\ HeardInv /\ [SessionNext]_allVars => (LinkInv /\ HeardInv)'
  BY LinkStep, HeardStep
<1>3. HeardInv => HeardWhenServed
  BY DEF HeardInv, WillListen, HeardWhenServed, IsConnected
<1>. QED  BY <1>1, <1>2, <1>3, SessionTypeCorrect, PTL DEF SessionSpec

--------------------------------------------------------------------------------
\* Sums.  SumFunction is defined by a recursion over subsets.  What is needed of it follows from another
\* way to count: a sum is the number of units, f[x] of them for each x.

\* A set of subsets of a finite set has one that is minimal; proofs by induction over subsets use it.
LEMMA MinimalSubset ==
  ASSUME NEW S, IsFiniteSet(S), NEW F \in SUBSET (SUBSET S), F # {}
  PROVE  \E T \in F : \A U \in F : U \subseteq T => U = T
<1>1. IsWellFoundedOn(StrictSubsetOrdering(S), SUBSET S)
  BY FS_StrictSubsetOrderingWellFounded, FS_FiniteSubsetsOfFinite
<1>2. PICK T \in F : \A U \in F : ~(<<U, T>> \in StrictSubsetOrdering(S))
  BY <1>1, WFMin
<1>3. ASSUME NEW U \in F, U \subseteq T, U # T
      PROVE  FALSE
  BY <1>2, <1>3 DEF StrictSubsetOrdering
<1>. QED  BY <1>2, <1>3

Units(f, T) == {p \in T \X Nat : p[2] \in 1..f[p[1]]}

\* The units of one element are as many as the number at it.
LEMMA UnitsOfOne ==
  ASSUME NEW x, NEW n \in Nat
  PROVE  IsFiniteSet({x} \X (1..n)) /\ Cardinality({x} \X (1..n)) = n
<1>1. IsFiniteSet({x}) /\ Cardinality({x}) = 1
  BY FS_Singleton
<1>2. IsFiniteSet(1..n) /\ Cardinality(1..n) = n
  BY FS_Interval
<1>3. IsFiniteSet({x} \X (1..n)) /\ Cardinality({x} \X (1..n)) = Cardinality({x}) * Cardinality(1..n)
  BY <1>1, <1>2, FS_Product
<1>. QED  BY <1>1, <1>2, <1>3

\* The units of a set are those of one element and those of the others.
LEMMA UnitsSplit ==
  ASSUME NEW S, NEW f \in [S -> Nat], NEW T \in SUBSET S, NEW x \in T
  PROVE  /\ Units(f, T) = Units(f, T \ {x}) \cup ({x} \X (1..f[x]))
         /\ Units(f, T \ {x}) \cap ({x} \X (1..f[x])) = {}
<1>1. f[x] \in Nat /\ \A i \in 1..f[x] : i \in Nat
  OBVIOUS
<1>2. ASSUME NEW p \in Units(f, T)
      PROVE  p \in Units(f, T \ {x}) \cup ({x} \X (1..f[x]))
  BY <1>2 DEF Units
<1>3. ASSUME NEW p \in Units(f, T \ {x}) \cup ({x} \X (1..f[x]))
      PROVE  p \in Units(f, T)
  BY <1>1, <1>3 DEF Units
<1>4. ASSUME NEW p \in Units(f, T \ {x}), p \in {x} \X (1..f[x])
      PROVE  FALSE
  BY <1>4 DEF Units
<1>. QED  BY <1>2, <1>3, <1>4

\* A finite sum has finitely many units.
LEMMA UnitsFinite ==
  ASSUME NEW S, IsFiniteSet(S), NEW f \in [S -> Nat]
  PROVE  \A T \in SUBSET S : IsFiniteSet(Units(f, T))
<1> DEFINE F == {T \in SUBSET S : ~IsFiniteSet(Units(f, T))}
<1>1. SUFFICES ASSUME F # {}
               PROVE  FALSE
  OBVIOUS
<1>2. PICK T \in F : \A U \in F : U \subseteq T => U = T
  <2>1. F \in SUBSET (SUBSET S)
    OBVIOUS
  <2>. HIDE DEF F
  <2>. QED  BY <1>1, <2>1, MinimalSubset
<1>3. T # {}
  <2>1. Units(f, {}) = {}
    BY DEF Units
  <2>. QED  BY <1>2, <2>1, FS_EmptySet
<1>4. PICK x \in T : TRUE
  BY <1>3
<1>5. IsFiniteSet(Units(f, T \ {x}))
  BY <1>2, <1>4
<1>6. f[x] \in Nat
  BY <1>2, <1>4
<1>7. IsFiniteSet({x} \X (1..f[x]))
  BY <1>6, UnitsOfOne
<1>8. IsFiniteSet(Units(f, T))
  <2>1. Units(f, T) = Units(f, T \ {x}) \cup ({x} \X (1..f[x]))
    <3>1. T \in SUBSET S /\ x \in T
      BY <1>2, <1>4
    <3>. HIDE DEF F
    <3>. QED  BY <3>1, UnitsSplit
  <2>2. IsFiniteSet(Units(f, T \ {x}) \cup ({x} \X (1..f[x])))
    BY ONLY <1>5, <1>7, FS_Union
  <2>. QED  BY ONLY <2>1, <2>2
<1>. QED  BY <1>2, <1>8

\* Each element adds its number.
LEMMA UnitsAdd ==
  ASSUME NEW S, IsFiniteSet(S), NEW f \in [S -> Nat], NEW T \in SUBSET S, NEW x \in T
  PROVE  /\ Cardinality(Units(f, T)) = f[x] + Cardinality(Units(f, T \ {x}))
         /\ Cardinality(Units(f, T \ {x})) \in Nat
<1>1. IsFiniteSet(Units(f, T \ {x})) /\ f[x] \in Nat
  BY UnitsFinite
<1>2. IsFiniteSet({x} \X (1..f[x])) /\ Cardinality({x} \X (1..f[x])) = f[x]
  BY <1>1, UnitsOfOne
<1>3. Cardinality(Units(f, T)) = Cardinality(Units(f, T \ {x})) + f[x] - Cardinality({})
  BY <1>1, <1>2, UnitsSplit, FS_Union
<1>4. Cardinality(Units(f, T \ {x})) \in Nat /\ Cardinality({}) = 0
  BY <1>1, FS_CardinalityType, FS_EmptySet
<1>. QED  BY <1>1, <1>3, <1>4

\* The recursion by which SumFunction is defined.
Pick(s) == CHOOSE x \in s : TRUE
Summed(f, S, g) == [s \in SUBSET S |-> IF s = {} THEN 0 ELSE f[Pick(s)] + g[s \ {Pick(s)}]]
Sums(f, S) == CHOOSE g : g = Summed(f, S, g)

\* Counting units is a solution of that recursion, and the only one.
LEMMA SumIsUnits ==
  ASSUME NEW S, IsFiniteSet(S), NEW f \in [S -> Nat]
  PROVE  SumFunction(f) = Cardinality(Units(f, S))
<1> DEFINE u == [s \in SUBSET S |-> Cardinality(Units(f, s))]
           g == Sums(f, S)
<1>1. SumFunction(f) = Sums(f, DOMAIN f)[DOMAIN f]
  BY Zenon DEF SumFunction, SumFunctionOnSet, FoldFunctionOnSet, MapThenFoldSet, Sums, Summed, Pick
<1>2. ASSUME NEW s \in SUBSET S, s # {}
      PROVE  Pick(s) \in s /\ s \ {Pick(s)} \in SUBSET S
  BY <1>2 DEF Pick
<1>3. u = Summed(f, S, u)
  <2>1. ASSUME NEW s \in SUBSET S
        PROVE  u[s] = IF s = {} THEN 0 ELSE f[Pick(s)] + u[s \ {Pick(s)}]
    <3>1. CASE s = {}
      <4>1. Units(f, {}) = {}
        BY DEF Units
      <4>. QED  BY <3>1, <4>1, FS_EmptySet
    <3>2. CASE s # {}
      BY <1>2, <3>2, UnitsAdd
    <3>. QED  BY <3>1, <3>2
  <2>. QED  BY <2>1 DEF Summed
<1>4. g = Summed(f, S, g)
  BY <1>3, Zenon DEF Sums
<1>. HIDE DEF g, u
<1>5. \A s \in SUBSET S : g[s] = u[s]
  <2> DEFINE F == {s \in SUBSET S : g[s] # u[s]}
  <2>1. SUFFICES ASSUME F # {}
                 PROVE  FALSE
    OBVIOUS
  <2>2. PICK T \in F : \A U \in F : U \subseteq T => U = T
    <3>1. F \in SUBSET (SUBSET S)
      OBVIOUS
    <3>. HIDE DEF F
    <3>. QED  BY <2>1, <3>1, MinimalSubset
  <2>3. /\ g[T] = IF T = {} THEN 0 ELSE f[Pick(T)] + g[T \ {Pick(T)}]
        /\ u[T] = IF T = {} THEN 0 ELSE f[Pick(T)] + u[T \ {Pick(T)}]
    <3>1. g[T] = Summed(f, S, g)[T] /\ u[T] = Summed(f, S, u)[T]
      BY <1>3, <1>4
    <3>. QED  BY <2>2, <3>1 DEF Summed
  <2>4. T # {} => g[T \ {Pick(T)}] = u[T \ {Pick(T)}]
    BY <1>2, <2>2
  <2>. QED  BY <2>2, <2>3, <2>4
<1>6. DOMAIN f = S /\ g[S] = u[S]
  BY <1>5
<1>. QED  BY <1>1, <1>6 DEF g, u

\* A sum changes by as much as one of its numbers does.
LEMMA SumUpdate ==
  ASSUME NEW S, IsFiniteSet(S), NEW f \in [S -> Nat], NEW h \in [S -> Nat], NEW x \in S,
         \A y \in S \ {x} : h[y] = f[y]
  PROVE  /\ SumFunction(f) \in Nat /\ SumFunction(h) \in Nat
         /\ SumFunction(h) + f[x] = SumFunction(f) + h[x]
<1>1. Units(h, S \ {x}) = Units(f, S \ {x})
  <2>1. ASSUME NEW y \in S \ {x}
        PROVE  h[y] = f[y]
    OBVIOUS
  <2>. QED  BY <2>1 DEF Units
<1>2. /\ SumFunction(f) = f[x] + Cardinality(Units(f, S \ {x}))
      /\ SumFunction(h) = h[x] + Cardinality(Units(h, S \ {x}))
      /\ Cardinality(Units(f, S \ {x})) \in Nat
  BY SumIsUnits, UnitsAdd
<1>. QED  BY <1>1, <1>2

\* Nothing adds up to nothing.
LEMMA SumOfNone ==
  ASSUME NEW S, IsFiniteSet(S), NEW f \in [S -> Nat], \A x \in S : f[x] = 0
  PROVE  SumFunction(f) = 0
<1>1. Units(f, S) = {}
  BY DEF Units
<1>. QED  BY <1>1, SumIsUnits, FS_EmptySet

\* Numbers that are zero may be left out of a sum.
LEMMA SumOfSome ==
  ASSUME NEW S, IsFiniteSet(S), NEW f \in [S -> Nat], NEW T \in SUBSET S, NEW h \in [T -> Nat],
         \A x \in S : IF x \in T THEN h[x] = f[x] ELSE f[x] = 0
  PROVE  SumFunction(h) = SumFunction(f) /\ SumFunction(h) \in Nat
<1>1. IsFiniteSet(T)
  BY FS_Subset
<1>2. Units(h, T) = Units(f, S)
  BY DEF Units
<1>3. Cardinality(Units(f, S)) \in Nat
  BY UnitsFinite, FS_CardinalityType
<1>. QED  BY <1>1, <1>2, <1>3, SumIsUnits

--------------------------------------------------------------------------------
\* The allocation

\* An area is of a request the client holds, and as large as the request or larger: a size never grows.
AllocInv ==
    /\ totalDataAlloc \in Nat
    /\ AllocationIsCounted
    /\ \A r \in RequestIds : IF mine[r] = None THEN heard[r] = 0 ELSE heard[r] # 0 => mine[r].size <= heard[r]

\* An area that becomes smaller, or one that grows by no more than what is counted for it.
LEMMA AreaCounted ==
  ASSUME SessionTypeOK, AllocInv, NEW r \in RequestIds, NEW n \in Nat, NEW t \in Nat,
         totalDataAlloc + n <= t + heard[r]
  PROVE  SumFunction([heard EXCEPT ![r] = n]) <= t
<1>1. heard \in [RequestIds -> Nat] /\ heard[r] \in Nat
  BY DEF SessionTypeOK
<1>2. PICK h : h = [heard EXCEPT ![r] = n]
  OBVIOUS
<1>3. h \in [RequestIds -> Nat] /\ h[r] = n /\ \A q \in RequestIds \ {r} : h[q] = heard[q]
  BY <1>1, <1>2
<1>4. IsFiniteSet(RequestIds)
  BY SessionConstants
<1>5. /\ SumFunction(heard) \in Nat /\ SumFunction(h) \in Nat
      /\ SumFunction(h) + heard[r] = SumFunction(heard) + h[r]
  BY ONLY <1>1, <1>3, <1>4, SumUpdate
<1>6. SumFunction(heard) <= totalDataAlloc /\ totalDataAlloc \in Nat
  BY DEF AllocInv, AllocationIsCounted
<1>7. SumFunction(h) <= t
  BY ONLY <1>1, <1>3, <1>5, <1>6, n \in Nat, t \in Nat, totalDataAlloc + n <= t + heard[r]
<1>. QED  BY <1>2, <1>7

\* Without areas nothing needs to be counted.
LEMMA NothingCounted ==
  ASSUME heard = [r \in RequestIds |-> 0], totalDataAlloc = 0
  PROVE  AllocInv
<1>1. heard \in [RequestIds -> Nat] /\ \A r \in RequestIds : heard[r] = 0
  OBVIOUS
<1>2. SumFunction(heard) = 0
  BY <1>1, SumOfNone, SessionConstants
<1>. QED  BY <1>1, <1>2 DEF AllocInv, AllocationIsCounted

\* A request is stored before it has an area, or with a smaller size than it had.
LEMMA SaveCounted ==
  ASSUME SessionTypeOK, AllocInv, NEW r \in RequestIds, NEW req \in Saves, SaveRequest(r, req)
  PROVE  AllocInv'
<1>1. /\ UNCHANGED <<heard, totalDataAlloc>> /\ mine' = [mine EXCEPT ![r] = req]
      /\ mine[r] # None => req.size <= mine[r].size
  BY DEF SaveRequest, Valid
<1>2. mine'[r] = req /\ \A q \in RequestIds \ {r} : mine'[q] = mine[q]
  BY <1>1 DEF SessionTypeOK
<1>3. req # None /\ req.size \in Nat /\ (mine[r] # None => mine[r].size \in Nat) /\ heard[r] \in Nat
  BY SaveTypes DEF SessionTypeOK
<1>4. heard[r] # 0 => req.size <= heard[r]
  BY <1>1, <1>3 DEF AllocInv
<1>. QED  BY <1>1, <1>2, <1>3, <1>4 DEF AllocInv, AllocationIsCounted

\* An area made is counted, and one that is defined again is not larger than before.
LEMMA SubmitCounted ==
  ASSUME SessionTypeOK, AllocInv, SubmitRequest
  PROVE  AllocInv'
<1> DEFINE s == saving.r
           works == saving.new \/ (saving.at = "resize" /\ heard[s] # 0)
<1>1. s \in RequestIds /\ mine[s] # None /\ mine[s].size \in Nat /\ mine' = mine /\ heard[s] \in Nat
  BY SaveTypes DEF SubmitRequest, SessionTypeOK
<1>2. CASE ~IsConnected
  BY <1>1, <1>2 DEF SubmitRequest, AllocInv, AllocationIsCounted
<1>3. CASE IsConnected
  <2>1. /\ heard' = IF works THEN [heard EXCEPT ![s] = mine[s].size] ELSE heard
        /\ totalDataAlloc' = IF saving.new THEN totalDataAlloc + mine[s].size ELSE totalDataAlloc
    BY <1>3 DEF SubmitRequest, Registered
  <2>2. totalDataAlloc' \in Nat
    BY <1>1, <2>1 DEF AllocInv
  <2>3. CASE works
    <3>1. heard' = [heard EXCEPT ![s] = mine[s].size]
      BY <2>1, <2>3
    <3>2. totalDataAlloc + mine[s].size <= totalDataAlloc' + heard[s]
      BY <1>1, <2>1, <2>2, <2>3 DEF AllocInv
    <3>3. SumFunction([heard EXCEPT ![s] = mine[s].size]) <= totalDataAlloc'
      <4> HIDE DEF s
      <4>. QED  BY <1>1, <2>2, <3>2, AreaCounted
    <3>4. AllocationIsCounted'
      BY <3>1, <3>3 DEF AllocationIsCounted
    <3>5. heard'[s] = mine[s].size /\ \A q \in RequestIds \ {s} : heard'[q] = heard[q]
      BY <1>1, <3>1 DEF SessionTypeOK
    <3>. QED  BY <1>1, <2>2, <3>4, <3>5 DEF AllocInv
  <2>4. CASE ~works
    <3>1. heard' = heard /\ totalDataAlloc' = totalDataAlloc
      BY <2>1, <2>4
    <3>. QED  BY <1>1, <3>1 DEF AllocInv, AllocationIsCounted
  <2>. QED  BY <2>3, <2>4
<1>. QED  BY <1>2, <1>3

\* The area of a request that is removed stays counted.
LEMMA RemovedCounted ==
  ASSUME SessionTypeOK, AllocInv, NEW r \in RequestIds, Removed(r), totalDataAlloc' = totalDataAlloc
  PROVE  AllocInv'
<1>1. heard' = [heard EXCEPT ![r] = 0] /\ mine' = [mine EXCEPT ![r] = None]
  BY DEF Removed
<1>2. heard[r] \in Nat /\ totalDataAlloc \in Nat
  <2>1. heard \in [RequestIds -> Nat]
    BY DEF SessionTypeOK
  <2>. QED  BY <2>1 DEF AllocInv
<1>3. SumFunction([heard EXCEPT ![r] = 0]) <= totalDataAlloc
  <2>1. PICK n \in Nat : n = 0
    OBVIOUS
  <2>2. totalDataAlloc + n <= totalDataAlloc + heard[r]
    BY ONLY <1>2, <2>1
  <2>3. SumFunction([heard EXCEPT ![r] = n]) <= totalDataAlloc
    BY <1>2, <2>2, AreaCounted
  <2>. QED  BY <2>1, <2>3
<1>4. /\ heard'[r] = 0 /\ mine'[r] = None
      /\ \A q \in RequestIds \ {r} : heard'[q] = heard[q] /\ mine'[q] = mine[q]
  BY <1>1 DEF SessionTypeOK
<1>5. AllocationIsCounted'
  BY <1>1, <1>3 DEF AllocationIsCounted
<1>. QED  BY <1>2, <1>4, <1>5 DEF AllocInv

\* The areas made by connectSimulator() are counted at once.
LEMMA ConnectCounted ==
  ASSUME SessionTypeOK, AllocInv, ConnectSimulator
  PROVE  AllocInv'
<1> DEFINE sizes == [r \in Stored |-> mine[r].size]
<1>1. heard' = AllAreas /\ totalDataAlloc' = totalDataAlloc + SumFunction(sizes) /\ mine' = mine
  BY DEF ConnectSimulator
<1>2. \A r \in RequestIds : mine[r] # None => mine[r].size \in Nat
  BY SaveTypes DEF SessionTypeOK
<1>3. AllAreas \in [RequestIds -> Nat] /\ sizes \in [Stored -> Nat] /\ Stored \in SUBSET RequestIds
  BY <1>2 DEF AllAreas, Stored
<1>4. \A r \in RequestIds : IF r \in Stored THEN sizes[r] = AllAreas[r] ELSE AllAreas[r] = 0
  BY DEF AllAreas, Stored
<1>. HIDE DEF sizes
<1>5. SumFunction(sizes) = SumFunction(AllAreas) /\ SumFunction(sizes) \in Nat
  BY <1>3, <1>4, SumOfSome, SessionConstants
<1>6. totalDataAlloc' \in Nat /\ SumFunction(heard') <= totalDataAlloc'
  BY <1>1, <1>5 DEF AllocInv
<1>7. \A r \in RequestIds : IF mine[r] = None THEN heard'[r] = 0 ELSE mine[r].size <= heard'[r]
  BY <1>1, <1>2 DEF AllAreas
<1>. QED  BY <1>1, <1>6, <1>7 DEF AllocInv, AllocationIsCounted

\* Every step keeps the count.
LEMMA AllocStep ==
  ASSUME SessionTypeOK, AllocInv, [SessionNext]_allVars
  PROVE  AllocInv'
<1> USE DEF requestVars, counters
<1>1. CASE UNCHANGED <<mine, heard, totalDataAlloc>>
  BY <1>1 DEF AllocInv, AllocationIsCounted
<1>2. ASSUME NEW r \in RequestIds, NEW req \in Saves, SaveRequest(r, req)
      PROVE  AllocInv'
  BY <1>2, SaveCounted
<1>3. CASE SubmitRequest
  BY <1>3, SubmitCounted
<1>4. ASSUME NEW r \in RequestIds, RemoveDataRequest(r)
      PROVE  AllocInv'
  BY <1>4, RemovedCounted DEF RemoveDataRequest
<1>5. CASE EndSave
  <2>1. totalDataAlloc' = totalDataAlloc /\ saving.r \in RequestIds
    BY <1>5 DEF EndSave, SessionTypeOK
  <2>2. Removed(saving.r) \/ UNCHANGED <<mine, heard>>
    BY <1>5 DEF EndSave
  <2>. QED  BY <1>1, <2>1, <2>2, RemovedCounted
<1>6. CASE ConnectSimulator
  BY <1>6, ConnectCounted
<1>7. CASE DisconnectSimulator \/ Crash
  <2>1. heard' = [r \in RequestIds |-> 0] /\ totalDataAlloc' = 0
    BY <1>7 DEF DisconnectSimulator, Crash
  <2>2. (heard = [r \in RequestIds |-> 0] /\ totalDataAlloc = 0 => AllocInv)'
    BY NothingCounted, PTL
  <2>. QED  BY <2>1, <2>2
<1>8. ASSUME \/ \E r \in RequestIds : UpdateDataRequest(r)
             \/ \E p \in BOOLEAN : SetDataRequestsPaused(p)
             \/ \E e \in EventIds : RemoveClientEvent(e) \/ \E code \in Codes : RegisterClientEvent(e, code)
             \/ StorePaused \/ ConnectServer \/ AwaitServer \/ Replay \/ DisconnectServer \/ Serve
      PROVE  UNCHANGED <<mine, heard, totalDataAlloc>>
  BY <1>8 DEF UpdateDataRequest, SetDataRequestsPaused, RemoveClientEvent, RegisterClientEvent, StorePaused,
              ConnectServer, AwaitServer, Replay, DisconnectServer, Serve
<1>9. UNCHANGED allVars => UNCHANGED <<mine, heard, totalDataAlloc>>
  BY DEF allVars, clientVars
<1>. QED  BY <1>1, <1>2, <1>3, <1>4, <1>5, <1>6, <1>7, <1>8, <1>9 DEF SessionNext

\* What is held against the limit of SimConnect covers the areas of all requests the client has, whatever
\* is saved, removed and connected in between, for any requests and sizes.
THEOREM AllocationsAreCounted == SessionSpec => []AllocationIsCounted
<1>1. SessionInit => AllocInv
  BY NothingCounted DEF SessionInit
<1>2. BaseInv /\ AllocInv /\ [SessionNext]_allVars => AllocInv'
  BY AllocStep DEF BaseInv
<1>3. AllocInv => AllocationIsCounted
  BY DEF AllocInv
<1>. QED  BY <1>1, <1>2, <1>3, SessionTypeCorrect, PTL DEF SessionSpec

--------------------------------------------------------------------------------
\* Calculator events

\* The messages after which the server has v for event e, or nothing if v is None
SetsEvent(e) == {m \in Messages : m.cmd = "Disconnect" \/ (m.cmd = "Register" /\ m.id = e)}
CodeOf(m) == IF m.cmd = "Disconnect" \/ m.arg = "" THEN None ELSE m.arg
SetsTo(e, v) == {m \in SetsEvent(e) : CodeOf(m) = v}
ComesTo(e, v) == Ends(wire, SetsEvent(e), SetsTo(e, v), theirs[e] = v)

\* The server has a code for each event it has registered, and none for others.
CodesHeld == \A e \in EventIds : theirs[e] # None <=> e \in events[Self]

\* An event the client does not have will be none of the server's.  Once all has been sent on connection, one
\* the client has will be the server's with the same code.
EventInv ==
    /\ CodesHeld
    /\ \A e \in orphans : codes[e] = None
    /\ crashes = 0 => \A e \in EventIds \ orphans :
         /\ codes[e] = None => ComesTo(e, None)
         /\ IsConnected /\ ~ToReplay("events") => codes[e] # "" /\ ComesTo(e, codes[e])

\* What the server does about events
LEMMA HandlesEvents ==
  ASSUME IInv, CanFail \cap {"compile", "event"} = {}, NEW m, Handles(m)
  PROVE  /\ m.cmd = "Register" /\ m.arg = "" =>
              events'[Self] = events[Self] \ {m.id} /\ (Acked <=> m.id \in events[Self])
         /\ m.cmd = "Register" /\ m.arg # "" => events'[Self] = events[Self] \cup {m.id} /\ Acked
         /\ m.cmd = "Disconnect" => events'[Self] = {}
         /\ m.cmd \notin {"Register", "Disconnect"} => events'[Self] = events[Self]
<1>0. Self \in Clients /\ events \in [Clients -> SUBSET EventIds]
  BY SessionConstants DEF IInv, TypeOK
<1>1. \A ok \in BOOLEAN : Reply(Self, ok) => (Acked <=> ok)
  BY DEF Reply, Msg, Acked
<1>2. CASE m.cmd = "Register" /\ m.arg = ""
  <2>1. RemoveEvent(Self, m.id)
    BY <1>2, SessionConstants DEF Handles
  <2>. QED  BY <1>0, <1>1, <1>2, <2>1 DEF RemoveEvent
<1>3. CASE m.cmd = "Register" /\ m.arg # ""
  <2>1. RegisterEvent(Self, m.id)
    BY <1>3 DEF Handles
  <2>2. Outcome("compile") = {TRUE} /\ Outcome("event") = {TRUE}
    BY DEF Outcome
  <2>3. \/ m.id \in events[Self] /\ Reply(Self, TRUE) /\ events' = events
        \/ m.id \notin events[Self] /\ Reply(Self, TRUE) /\ events' = [events EXCEPT ![Self] = @ \cup {m.id}]
    BY <2>1, <2>2 DEF RegisterEvent, eventVars
  <2>4. events'[Self] = events[Self] \cup {m.id}
    BY <1>0, <2>3
  <2>5. Acked
    BY <1>1, <2>3
  <2>. QED  BY <1>3, <2>4, <2>5
<1>4. CASE m.cmd = "Disconnect"
  BY <1>0, <1>4 DEF Handles, Disconnect, ClearedEvents
<1>5. CASE m.cmd \notin {"Register", "Disconnect"}
  <2>1. events' = events
    BY <1>5 DEF Handles, ConnectEvent, AddRequest, UpdateRequest, RemoveRequest, UpdateCommand, Resume, Suspend, eventVars
  <2>. QED  BY <1>5, <2>1
<1>. QED  BY <1>2, <1>3, <1>4, <1>5

\* A message about an event sets it, and any other one leaves it.
LEMMA ServeCodes ==
  ASSUME BaseInv, CodesHeld, CanFail \cap {"compile", "event"} = {}, Serve, NEW m \in Messages, m = Head(wire), Handles(m)
  PROVE  /\ CodesHeld'
         /\ \A e \in EventIds : theirs'[e] = IF m \in SetsEvent(e) THEN CodeOf(m) ELSE theirs[e]
<1>0. theirs \in [EventIds -> Codes \cup {None}] /\ None \notin Codes
  BY SessionConstants DEF BaseInv, SessionTypeOK
<1>1. theirs' = TheirEvent(m)
  BY DEF Serve
<1>2. IInv
  BY DEF BaseInv
<1>3. CASE m.cmd = "Register"
  <2>1. m.id \in EventIds /\ m.arg \in Codes \cup {""}
    BY <1>3, MessageKinds
  <2>2. theirs' = [theirs EXCEPT ![m.id] = IF ~Acked THEN @ ELSE IF m.arg = "" THEN None ELSE m.arg]
    BY <1>1, <1>3 DEF TheirEvent
  <2>3. \A e \in EventIds \ {m.id} : theirs'[e] = theirs[e] /\ m \notin SetsEvent(e)
    BY <1>0, <1>3, <2>2 DEF SetsEvent
  <2>4. m \in SetsEvent(m.id) /\ CodeOf(m) = IF m.arg = "" THEN None ELSE m.arg
    BY <1>3 DEF SetsEvent, CodeOf
  <2>5. CASE m.arg = ""
    <3>1. events'[Self] = events[Self] \ {m.id} /\ (Acked <=> m.id \in events[Self])
      BY <1>2, <1>3, <2>5, HandlesEvents
    <3>2. theirs'[m.id] = None
      BY <1>0, <2>1, <2>2, <2>5, <3>1 DEF CodesHeld
    <3>. QED  BY <2>1, <2>3, <2>4, <2>5, <3>1, <3>2 DEF CodesHeld
  <2>6. CASE m.arg # ""
    <3>1. events'[Self] = events[Self] \cup {m.id} /\ Acked
      BY <1>2, <1>3, <2>6, HandlesEvents
    <3>2. theirs'[m.id] = m.arg /\ m.arg # None
      BY <1>0, <2>1, <2>2, <2>6, <3>1
    <3>. QED  BY <2>1, <2>3, <2>4, <2>6, <3>1, <3>2 DEF CodesHeld
  <2>. QED  BY <2>5, <2>6
<1>4. CASE m.cmd # "Register"
  <2>1. theirs' = [e \in EventIds |-> IF e \in events'[Self] THEN theirs[e] ELSE None]
    BY <1>1, <1>4 DEF TheirEvent
  <2>2. CASE m.cmd = "Disconnect"
    <3>1. events'[Self] = {}
      BY <1>2, <2>2, HandlesEvents
    <3>. QED  BY <2>1, <2>2, <3>1 DEF CodesHeld, SetsEvent, CodeOf
  <2>3. CASE m.cmd # "Disconnect"
    <3>1. events'[Self] = events[Self]
      BY <1>2, <1>4, <2>3, HandlesEvents
    <3>2. \A e \in EventIds : theirs'[e] = theirs[e] /\ m \notin SetsEvent(e)
      BY <1>4, <2>1, <2>3, <3>1 DEF CodesHeld, SetsEvent
    <3>. QED  BY <3>1, <3>2 DEF CodesHeld
  <2>. QED  BY <2>2, <2>3
<1>. QED  BY <1>3, <1>4

\* What the messages come to is the same when one of them has been taken.
LEMMA ServeComes ==
  ASSUME BaseInv, CodesHeld, CanFail \cap {"compile", "event"} = {}, Serve, NEW m \in Messages, m = Head(wire), Handles(m),
         NEW e \in EventIds, NEW v, ComesTo(e, v)
  PROVE  ComesTo(e, v)'
<1>1. wire \in Seq(Messages) /\ wire # <<>> /\ wire' = Tail(wire)
  BY ServeHandles DEF BaseInv
<1>2. theirs'[e] = IF m \in SetsEvent(e) THEN CodeOf(m) ELSE theirs[e]
  BY ServeCodes
<1>3. PICK M, G, now, next : M = SetsEvent(e) /\ G = SetsTo(e, v) /\ now = (theirs[e] = v) /\ next = (theirs'[e] = v)
  OBVIOUS
<1>4. Ends(wire, M, G, now)
  BY <1>3 DEF ComesTo
<1>5. m \in M /\ m \in G => next
  BY <1>2, <1>3 DEF SetsTo
<1>6. m \notin M /\ now => next
  BY <1>2, <1>3
<1>7. Ends(Tail(wire), M, G, next)
  BY <1>1, <1>4, <1>5, <1>6, EndsTail
<1>. QED  BY <1>1, <1>3, <1>7 DEF ComesTo

\* Nor do messages that are not about the event make a difference.
LEMMA SameComes ==
  ASSUME SessionTypeOK, theirs' = theirs, NEW e \in EventIds, NEW v, ComesTo(e, v),
         NEW x \in Seq(Messages), wire' = wire \o x, ~Has(x, SetsEvent(e))
  PROVE  ComesTo(e, v)'
<1>1. PICK M, G, now : M = SetsEvent(e) /\ G = SetsTo(e, v) /\ now = (theirs[e] = v)
  OBVIOUS
<1>2. Ends(wire \o x, M, G, now)
  BY <1>1, EndsSame DEF ComesTo, SessionTypeOK
<1>. QED  BY <1>1, <1>2 DEF ComesTo

\* New ones about the event decide, if they agree.
LEMMA SetComes ==
  ASSUME SessionTypeOK, NEW e \in EventIds, NEW v,
         NEW x \in Seq(Messages), wire' = wire \o x, Has(x, SetsEvent(e)),
         \A i \in DOMAIN x : x[i] \in SetsEvent(e) => CodeOf(x[i]) = v
  PROVE  ComesTo(e, v)'
<1>1. PICK M, G, now : M = SetsEvent(e) /\ G = SetsTo(e, v) /\ now = (theirs[e] = v)'
  OBVIOUS
<1>2. \A i \in DOMAIN x : x[i] \in M => x[i] \in G
  BY <1>1 DEF SetsTo
<1>3. Ends(wire \o x, M, G, now)
  BY <1>1, <1>2, EndsSet DEF SessionTypeOK
<1>. QED  BY <1>1, <1>3 DEF ComesTo

\* What a Register message sets
LEMMA RegisterSets ==
  ASSUME NEW e \in EventIds, NEW code \in Codes \cup {""}
  PROVE  /\ RegisterMsg(e, code) \in Messages
         /\ \A q : RegisterMsg(e, code) \in SetsEvent(q) <=> q = e
         /\ CodeOf(RegisterMsg(e, code)) = IF code = "" THEN None ELSE code
  BY MessageTypes DEF RegisterMsg, SetsEvent, CodeOf

\* Steps that touch nothing of the events and send no message about them
LEMMA OtherEvent ==
  ASSUME SessionTypeOK, EventInv, theirs' = theirs, events' = events, codes' = codes, orphans' = orphans,
         crashes' = crashes,
         IsConnected' /\ ~ToReplay("events")' => IsConnected /\ ~ToReplay("events"),
         NEW x \in Seq(Messages), wire' = wire \o x, \A i \in DOMAIN x : x[i].cmd \notin {"Register", "Disconnect"}
  PROVE  EventInv'
<1>1. \A e \in EventIds : ~Has(x, SetsEvent(e))
  BY DEF Has, SetsEvent
<1>2. CodesHeld' /\ \A e \in orphans' : codes'[e] = None
  BY DEF EventInv, CodesHeld
<1>3. ASSUME crashes' = 0, NEW e \in EventIds \ orphans'
      PROVE  /\ codes'[e] = None => ComesTo(e, None)'
             /\ IsConnected' /\ ~ToReplay("events")' => codes'[e] # "" /\ ComesTo(e, codes[e])'
  <2>1. PICK v : v = codes[e]
    OBVIOUS
  <2>2. /\ v = None => ComesTo(e, None)
        /\ IsConnected /\ ~ToReplay("events") => v # "" /\ ComesTo(e, v)
    BY <1>3, <2>1 DEF EventInv
  <2>3. ComesTo(e, None) => ComesTo(e, None)'
    BY <1>1, SameComes
  <2>4. ComesTo(e, v) => ComesTo(e, v)'
    BY <1>1, SameComes
  <2>5. ComesTo(e, v)' => ComesTo(e, codes[e])'
    <3>1. codes'[e] = v
      BY <2>1
    <3>. QED  BY <3>1 DEF ComesTo
  <2>6. v = codes'[e]
    BY <2>1
  <2>. QED  BY <2>2, <2>3, <2>4, <2>5, <2>6
<1>. QED  BY <1>2, <1>3 DEF EventInv

\* The server takes a message.
LEMMA ServeEvent ==
  ASSUME BaseInv, EventInv, CanFail \cap {"compile", "event"} = {}, Serve
  PROVE  EventInv'
<1>1. PICK m \in Messages : m = Head(wire)
  BY ServeHandles DEF BaseInv
<1>2. wire \in Seq(Messages) /\ wire # <<>> /\ wire' = Tail(wire)
  BY ServeHandles DEF BaseInv
<1>3. Handles(m)
  <2>1. 1 \in DOMAIN wire /\ wire[1] = m
    BY <1>1, <1>2, WithoutHead
  <2>2. m.cmd # "Connect" => status[Self] # "None"
    BY <2>1 DEF BaseInv, Recorded
  <2>. QED  BY <1>1, <2>2, ServeHandles DEF BaseInv
<1>4. /\ UNCHANGED <<link, replay, codes, crashes>>
      /\ orphans' = {e \in orphans : m.cmd # "Disconnect" \/ OnItsWay("Register", e, wire')}
  BY <1>1 DEF Serve, counters
<1>5. CodesHeld /\ CodesHeld'
  BY <1>1, <1>3, ServeCodes DEF EventInv
<1>6. \A e \in orphans' : codes'[e] = None
  BY <1>4 DEF EventInv
<1>7. ASSUME crashes' = 0, NEW e \in EventIds \ orphans, NEW v, v = codes[e]
      PROVE  /\ v = None => ComesTo(e, None)'
             /\ IsConnected' /\ ~ToReplay("events")' => v # "" /\ ComesTo(e, v)'
  <2>1. /\ v = None => ComesTo(e, None)
        /\ IsConnected /\ ~ToReplay("events") => v # "" /\ ComesTo(e, v)
    BY <1>4, <1>7 DEF EventInv
  <2>2. (ComesTo(e, None) => ComesTo(e, None)') /\ (ComesTo(e, v) => ComesTo(e, v)')
    BY <1>1, <1>3, <1>5, ServeComes
  <2>. QED  BY <1>4, <2>1, <2>2 DEF IsConnected, ToReplay
<1>8. ASSUME NEW e \in orphans \ orphans'
      PROVE  e \in EventIds /\ codes[e] = None /\ ComesTo(e, None)'
  <2>0. e \in EventIds /\ codes[e] = None
    BY DEF EventInv, BaseInv, SessionTypeOK
  <2>1. m.cmd = "Disconnect" /\ ~OnItsWay("Register", e, wire')
    BY <1>4, <1>8
  <2>2. theirs'[e] = None
    BY <1>1, <1>3, <1>5, <2>0, <2>1, ServeCodes DEF SetsEvent, CodeOf
  <2>3. wire' \in Seq(Messages)
    BY <1>2, WithoutHead
  <2>4. \A i \in DOMAIN wire' : wire'[i] \in SetsEvent(e) => wire'[i] \in SetsTo(e, None)
    BY <2>1, <2>3 DEF OnItsWay, SetsEvent, SetsTo, CodeOf
  <2>. QED  BY <2>0, <2>2, <2>4 DEF ComesTo, Ends
<1>9. ASSUME crashes' = 0, NEW e \in EventIds \ orphans'
      PROVE  /\ codes'[e] = None => ComesTo(e, None)'
             /\ IsConnected' /\ ~ToReplay("events")' => codes'[e] # "" /\ ComesTo(e, codes[e])'
  <2>1. PICK v : v = codes[e]
    OBVIOUS
  <2>2. v = codes'[e] /\ (ComesTo(e, v)' => ComesTo(e, codes[e])')
    <3>1. v = codes'[e]
      BY <1>4, <2>1
    <3>. QED  BY <3>1 DEF ComesTo
  <2>3. CASE e \notin orphans
    BY <1>7, <1>9, <2>1, <2>2, <2>3
  <2>4. CASE e \in orphans
    <3>1. v = None /\ ComesTo(e, None)'
      BY <1>8, <1>9, <2>1, <2>4
    <3>. QED  BY <2>2, <3>1, SessionConstants
  <2>. QED  BY <2>3, <2>4
<1>. QED  BY <1>5, <1>6, <1>9 DEF EventInv

\* The application registers an event, ...
LEMMA RegisterEventStep ==
  ASSUME BaseInv, EventInv, NEW e \in EventIds, NEW code \in Codes, RegisterClientEvent(e, code)
  PROVE  EventInv'
<1>0. SessionTypeOK
  BY DEF BaseInv
<1>1. /\ UNCHANGED <<vars, link, replay, theirs, crashes>>
      /\ codes' = [codes EXCEPT ![e] = code]
      /\ orphans' = orphans \ {e}
  BY DEF RegisterClientEvent, serverVars
<1>2. codes'[e] = code /\ \A q \in EventIds \ {e} : codes'[q] = codes[q]
  BY <1>0, <1>1 DEF SessionTypeOK
<1>3. code # None /\ code # ""
  BY SessionConstants
<1>4. CodesHeld' /\ \A q \in orphans' : codes'[q] = None
  BY <1>0, <1>1, <1>2 DEF EventInv, CodesHeld, vars, eventVars, SessionTypeOK
<1>5. PICK x \in Seq(Messages) : wire' = wire \o x /\ ~Has(x, {m \in Messages : m.cmd # "Register" \/ m.id # e})
  BY <1>0, EventCallSends
<1>6. ASSUME crashes' = 0, NEW q \in EventIds \ orphans', q # e
      PROVE  /\ codes'[q] = None => ComesTo(q, None)'
             /\ IsConnected' /\ ~ToReplay("events")' => codes'[q] # "" /\ ComesTo(q, codes[q])'
  <2>1. PICK v : v = codes[q] /\ v = codes'[q]
    BY <1>2, <1>6
  <2>2. /\ v = None => ComesTo(q, None)
        /\ IsConnected /\ ~ToReplay("events") => v # "" /\ ComesTo(q, v)
    BY <1>1, <1>6, <2>1 DEF EventInv
  <2>3. ~Has(x, SetsEvent(q))
    BY <1>5, <1>6 DEF Has, SetsEvent
  <2>4. (ComesTo(q, None) => ComesTo(q, None)') /\ (ComesTo(q, v) => ComesTo(q, v)')
    BY <1>0, <1>1, <1>5, <2>3, SameComes
  <2>5. ComesTo(q, v)' => ComesTo(q, codes[q])'
    BY <2>1 DEF ComesTo
  <2>. QED  BY <1>1, <2>1, <2>2, <2>4, <2>5 DEF IsConnected, ToReplay
<1>7. ASSUME IsConnected'
      PROVE  ComesTo(e, codes[e])'
  <2>1. PICK m \in Messages : m = RegisterMsg(e, code)
    BY RegisterSets
  <2>2. wire' = wire \o <<m>>
    BY <1>1, <1>7, <2>1 DEF RegisterClientEvent, SendIfConnected, Send, IsConnected
  <2>3. m \in SetsEvent(e) /\ CodeOf(m) = code
    BY <1>3, <2>1, RegisterSets
  <2>4. <<m>> \in Seq(Messages) /\ Has(<<m>>, SetsEvent(e)) /\ \A i \in DOMAIN <<m>> : CodeOf(<<m>>[i]) = code
    BY <2>3, OneMessage
  <2>5. ComesTo(e, code)'
    BY <1>0, <2>2, <2>4, SetComes
  <2>. QED  BY <1>2, <2>5 DEF ComesTo
<1>. QED  BY <1>2, <1>3, <1>4, <1>6, <1>7 DEF EventInv

\* ... or removes one.
LEMMA RemoveEventStep ==
  ASSUME BaseInv, EventInv, NEW e \in EventIds, RemoveClientEvent(e)
  PROVE  EventInv'
<1>0. SessionTypeOK
  BY DEF BaseInv
<1>1. /\ UNCHANGED <<vars, link, replay, theirs, crashes>>
      /\ codes' = [codes EXCEPT ![e] = IF ~sentToServer[e] \/ IsConnected THEN None ELSE ""]
      /\ orphans' = IF ~sentToServer[e] /\ Known(theirs[e]) THEN orphans \cup {e} ELSE orphans
      /\ codes[e] # None
  BY DEF RemoveClientEvent, serverVars
<1>2. /\ codes'[e] = (IF ~sentToServer[e] \/ IsConnected THEN None ELSE "")
      /\ \A q \in EventIds \ {e} : codes'[q] = codes[q]
  BY <1>0, <1>1 DEF SessionTypeOK
<1>3. None # ""
  BY SessionConstants
<1>4. CodesHeld' /\ \A q \in orphans' : codes'[q] = None
  <2>1. e \notin orphans
    BY <1>1 DEF EventInv
  <2>2. \A q \in orphans : q \in EventIds
    BY <1>0 DEF SessionTypeOK
  <2>3. CodesHeld'
    BY <1>1 DEF EventInv, CodesHeld, vars, eventVars
  <2>. QED  BY <1>1, <1>2, <2>1, <2>2, <2>3 DEF EventInv
<1>5. PICK x \in Seq(Messages) : wire' = wire \o x /\ ~Has(x, {m \in Messages : m.cmd # "Register" \/ m.id # e})
  BY <1>0, EventCallSends
<1>6. ASSUME crashes' = 0, NEW q \in EventIds \ orphans', q # e
      PROVE  /\ codes'[q] = None => ComesTo(q, None)'
             /\ IsConnected' /\ ~ToReplay("events")' => codes'[q] # "" /\ ComesTo(q, codes[q])'
  <2>1. PICK v : v = codes[q] /\ v = codes'[q]
    BY <1>2, <1>6
  <2>2. /\ v = None => ComesTo(q, None)
        /\ IsConnected /\ ~ToReplay("events") => v # "" /\ ComesTo(q, v)
    BY <1>1, <1>6, <2>1 DEF EventInv
  <2>3. ~Has(x, SetsEvent(q))
    BY <1>5, <1>6 DEF Has, SetsEvent
  <2>4. (ComesTo(q, None) => ComesTo(q, None)') /\ (ComesTo(q, v) => ComesTo(q, v)')
    BY <1>0, <1>1, <1>5, <2>3, SameComes
  <2>5. ComesTo(q, v)' => ComesTo(q, codes[q])'
    BY <2>1 DEF ComesTo
  <2>. QED  BY <1>1, <2>1, <2>2, <2>4, <2>5 DEF IsConnected, ToReplay
<1>7. ASSUME e \notin orphans', codes'[e] = None
      PROVE  ComesTo(e, None)'
  <2>1. CASE sentToServer[e]
    <3>1. IsConnected
      BY <1>2, <1>3, <1>7, <2>1
    <3>2. PICK m \in Messages : m = RegisterMsg(e, "")
      BY RegisterSets
    <3>3. wire' = wire \o <<m>>
      BY <2>1, <3>1, <3>2 DEF RemoveClientEvent, SendIfConnected, Send
    <3>4. m \in SetsEvent(e) /\ CodeOf(m) = None
      BY <3>2, RegisterSets
    <3>5. <<m>> \in Seq(Messages) /\ Has(<<m>>, SetsEvent(e)) /\ \A i \in DOMAIN <<m>> : CodeOf(<<m>>[i]) = None
      BY <3>4, OneMessage
    <3>. QED  BY <1>0, <3>3, <3>5, SetComes
  <2>2. CASE ~sentToServer[e]
    <3>1. ~Known(theirs[e])
      BY <1>1, <1>7, <2>2
    <3>2. theirs[e] = None /\ wire = <<>> /\ wire' = wire
      BY <2>2, <3>1 DEF Known, RemoveClientEvent
    <3>3. theirs'[e] = None /\ wire' = <<>>
      BY <1>1, <3>2
    <3>. QED  BY <3>3 DEF ComesTo, Ends
  <2>. QED  BY <2>1, <2>2
<1>8. ASSUME IsConnected', e \notin orphans'
      PROVE  codes'[e] # "" /\ ComesTo(e, codes[e])'
  <2>1. codes'[e] = None
    BY <1>1, <1>2, <1>8 DEF IsConnected
  <2>. QED  BY <1>3, <1>7, <1>8, <2>1 DEF ComesTo
<1>. QED  BY <1>4, <1>6, <1>7, <1>8 DEF EventInv

\* All events are sent again, and those to remove are removed.
LEMMA ReplayEventStep ==
  ASSUME BaseInv, EventInv, Replay
  PROVE  EventInv'
<1>0. SessionTypeOK
  BY DEF BaseInv
<1>1. /\ Head(replay) \in {"pause", "requests", "events"}
      /\ UNCHANGED <<vars, link, orphans, crashes, theirs>>
      /\ \A kind : ToReplay(kind)' <=> ToReplay(kind) /\ kind # Head(replay)
  BY <1>0, ReplaySends
<1>2. events' = events
  BY <1>1 DEF vars, eventVars
<1>3. CASE ~IsConnected
  <2>1. wire' = wire \o <<>> /\ codes' = codes
    BY <1>0, <1>3, ReplaySends DEF Replay
  <2>2. <<>> \in Seq(Messages) /\ \A i \in DOMAIN <<>> : <<>>[i].cmd \notin {"Register", "Disconnect"}
    OBVIOUS
  <2>3. ~IsConnected'
    BY <1>1, <1>3 DEF IsConnected
  <2>4. PICK x \in Seq(Messages) : wire' = wire \o x /\ \A i \in DOMAIN x : x[i].cmd \notin {"Register", "Disconnect"}
    BY <2>1, <2>2
  <2>. QED  BY <1>0, <1>1, <1>2, <2>1, <2>3, <2>4, OtherEvent
<1>4. CASE IsConnected /\ Head(replay) # "events"
  <2>1. PICK x \in Seq(Messages) :
           /\ wire' = wire \o x
           /\ Head(replay) = "pause" => x = <<SubscribeMsg(~requestsPaused)>>
           /\ Head(replay) = "requests" => x \in ReplayRequests
    BY <1>0, <1>4, ReplaySends
  <2>2. \A i \in DOMAIN x : x[i].cmd \notin {"Register", "Disconnect"}
    <3>1. CASE Head(replay) = "pause"
      BY <2>1, <3>1 DEF SubscribeMsg
    <3>2. CASE Head(replay) = "requests"
      BY <1>0, <2>1, <3>2, ReplayedRequests DEF SaveMsg
    <3>. QED  BY <1>1, <1>4, <3>1, <3>2
  <2>3. codes' = codes
    BY <1>4 DEF Replay
  <2>. QED  BY <1>0, <1>1, <1>2, <1>4, <2>1, <2>2, <2>3, OtherEvent DEF IsConnected
<1>5. CASE IsConnected /\ Head(replay) = "events"
  <2>1. PICK x \in ReplayEvents : x \in Seq(Messages) /\ wire' = wire \o x
    BY <1>0, <1>5, ReplaySends
  <2>2. codes' = [e \in EventIds |-> IF codes[e] = "" THEN None ELSE codes[e]]
    BY <1>5 DEF Replay
  <2>3. None # ""
    BY SessionConstants
  <2>4. CodesHeld' /\ \A e \in orphans' : codes'[e] = None
    <3>1. \A e \in orphans : e \in EventIds /\ codes[e] = None
      BY <1>0 DEF EventInv, SessionTypeOK
    <3>2. CodesHeld'
      BY <1>1, <1>2 DEF EventInv, CodesHeld
    <3>. QED  BY <1>1, <2>2, <2>3, <3>1, <3>2
  <2>5. ASSUME crashes' = 0, NEW e \in EventIds \ orphans
        PROVE  codes'[e] # "" /\ ComesTo(e, codes[e])'
    <3>1. PICK v : v = codes'[e]
      OBVIOUS
    <3>2. v # "" /\ v = IF codes[e] = "" THEN None ELSE codes[e]
      BY <2>2, <2>3, <3>1
    <3>3. CASE codes[e] = None
      <4>1. ComesTo(e, None) /\ v = None
        BY <1>1, <2>5, <3>2, <3>3, <2>3 DEF EventInv
      <4>2. ~Has(x, SetsEvent(e))
        <5>1. ASSUME NEW i \in DOMAIN x, x[i] \in SetsEvent(e)
              PROVE  FALSE
          <6>1. PICK q \in EventIds : codes[q] # None /\ x[i] = RegisterMsg(q, codes[q])
            BY <1>0, <2>1, ReplayedEvents
          <6>2. codes[q] \in Codes \cup {""}
            BY <1>0, <6>1 DEF SessionTypeOK
          <6>3. PICK cd \in Codes \cup {""} : cd = codes[q]
            BY <6>2
          <6>4. RegisterMsg(q, cd) \in SetsEvent(e)
            BY <5>1, <6>1, <6>3
          <6>5. e = q
            BY <6>4, RegisterSets
          <6>. QED  BY <3>3, <6>1, <6>5
        <5>. QED  BY <5>1 DEF Has
      <4>3. ComesTo(e, None)'
        BY <1>0, <1>1, <2>1, <4>1, <4>2, SameComes
      <4>. QED  BY <3>1, <3>2, <4>1, <4>3 DEF ComesTo
    <3>4. CASE codes[e] # None
      <4>1. codes[e] \in Codes \cup {""}
        BY <1>0, <3>4 DEF SessionTypeOK
      <4>2. \E i \in DOMAIN x : x[i] = RegisterMsg(e, codes[e])
        BY <1>0, <2>1, <3>4, ReplayedEvents
      <4>3. Has(x, SetsEvent(e))
        <5>1. RegisterMsg(e, codes[e]) \in SetsEvent(e)
          BY <4>1, RegisterSets
        <5>. QED  BY <4>2, <5>1 DEF Has
      <4>4. ASSUME NEW i \in DOMAIN x, x[i] \in SetsEvent(e)
            PROVE  CodeOf(x[i]) = v
        <5>1. PICK q \in EventIds : codes[q] # None /\ x[i] = RegisterMsg(q, codes[q])
          BY <1>0, <2>1, ReplayedEvents
        <5>2. codes[q] \in Codes \cup {""}
          BY <1>0, <5>1 DEF SessionTypeOK
        <5>3. PICK cd \in Codes \cup {""} : cd = codes[q]
          BY <5>2
        <5>4. RegisterMsg(q, cd) \in SetsEvent(e) /\ x[i] = RegisterMsg(q, cd)
          BY <4>4, <5>1, <5>3
        <5>5. e = q /\ CodeOf(RegisterMsg(q, cd)) = IF cd = "" THEN None ELSE cd
          BY <5>4, RegisterSets
        <5>6. v = IF cd = "" THEN None ELSE cd
          BY <3>2, <5>3, <5>5
        <5>. QED  BY <5>4, <5>5, <5>6
      <4>5. ComesTo(e, v)'
        BY <1>0, <2>1, <4>3, <4>4, SetComes
      <4>. QED  BY <3>1, <3>2, <4>5 DEF ComesTo
    <3>. QED  BY <3>3, <3>4
  <2>6. ASSUME crashes' = 0, NEW e \in EventIds \ orphans, codes'[e] = None
        PROVE  ComesTo(e, None)'
    BY <2>5, <2>6 DEF ComesTo
  <2>. QED  BY <1>1, <2>4, <2>5, <2>6 DEF EventInv
<1>. QED  BY <1>1, <1>3, <1>4, <1>5

\* Connections: a disconnection removes all events from the server.
LEMMA EventConnectionStep ==
  ASSUME BaseInv, EventInv,
         ConnectSimulator \/ ConnectServer \/ AwaitServer \/ DisconnectServer \/ DisconnectSimulator \/ Crash
  PROVE  EventInv'
<1>0. SessionTypeOK
  BY DEF BaseInv
<1>1. UNCHANGED <<events, theirs>>
  BY DEF ConnectSimulator, ConnectServer, AwaitServer, DisconnectServer, DisconnectSimulator, Crash, serverVars, vars, eventVars
<1>2. CASE Crash
  <2>1. crashes' # 0 /\ orphans' = {}
    <3>1. crashes' = crashes + 1 /\ crashes \in Nat
      BY <1>0, <1>2 DEF Crash, SessionTypeOK
    <3>2. crashes' # 0
      BY ONLY <3>1
    <3>. QED  BY <1>2, <3>2 DEF Crash
  <2>. QED  BY <1>1, <2>1 DEF EventInv, CodesHeld
<1>3. CASE ~Crash
  <2>1. UNCHANGED <<codes, orphans, crashes>>
    BY <1>3 DEF ConnectSimulator, ConnectServer, AwaitServer, DisconnectServer, DisconnectSimulator, clientEventVars, counters
  <2>2. IsConnected' /\ ~ToReplay("events")' => IsConnected /\ ~ToReplay("events")
    <3>1. IsConnected' => AwaitServer
      BY <1>3 DEF ConnectSimulator, ConnectServer, DisconnectServer, DisconnectSimulator, IsConnected
    <3>2. AwaitServer /\ IsConnected' => replay' = <<"pause", "requests", "events">>
      BY DEF AwaitServer, IsConnected
    <3>3. replay' = <<"pause", "requests", "events">> => ToReplay("events")'
      BY DEF ToReplay
    <3>. QED  BY <3>1, <3>2, <3>3
  <2>3. CASE DisconnectServer /\ IsConnected
    <3>1. PICK m \in Messages : m = Msg0("Disconnect")
      BY MessageTypes
    <3>2. wire' = wire \o <<m>> /\ ~IsConnected'
      BY <2>3, <3>1 DEF DisconnectServer, SendIfConnected, Send, IsConnected
    <3>3. \A e \in EventIds : m \in SetsEvent(e) /\ CodeOf(m) = None
      BY <3>1 DEF Msg0, SetsEvent, CodeOf
    <3>4. \A e \in EventIds : ComesTo(e, None)'
      <4>1. TAKE e \in EventIds
      <4>2. <<m>> \in Seq(Messages) /\ Has(<<m>>, SetsEvent(e)) /\ \A i \in DOMAIN <<m>> : CodeOf(<<m>>[i]) = None
        BY <3>3, OneMessage
      <4>. QED  BY <1>0, <3>2, <4>2, SetComes
    <3>. QED  BY <1>1, <2>1, <3>2, <3>4 DEF EventInv, CodesHeld
  <2>4. CASE ~(DisconnectServer /\ IsConnected)
    <3>0. wire \in Seq(Messages)
      BY <1>0 DEF SessionTypeOK
    <3>1. UNCHANGED wire \/ wire' = wire \o <<Msg0("Connect")>>
      <4>1. wire \o <<>> = wire
        BY ONLY <3>0
      <4>2. DisconnectServer /\ ~IsConnected => wire' = wire \o <<>>
        BY DEF DisconnectServer, SendIfConnected, Send
      <4>3. ConnectServer => wire' = wire \o <<Msg0("Connect")>>
        BY DEF ConnectServer, Send
      <4>4. ConnectSimulator \/ AwaitServer \/ DisconnectSimulator => UNCHANGED wire
        BY DEF ConnectSimulator, AwaitServer, DisconnectSimulator
      <4>. QED  BY <1>3, <2>4, <4>1, <4>2, <4>3, <4>4
    <3>2. PICK m \in Messages : m = Msg0("Connect") /\ m.cmd = "Connect"
      BY MessageTypes DEF Msg0
    <3>3. UNCHANGED wire \/ Send(<<m>>)
      BY <3>1, <3>2 DEF Send
    <3>5. PICK x \in Seq(Messages) : wire' = wire \o x /\ \A M : Has(x, M) => m \in M
      BY <1>0, <3>3, SentOne
    <3>6. ~Has(x, {n \in Messages : n.cmd \in {"Register", "Disconnect"}})
      BY <3>2, <3>5
    <3>7. \A i \in DOMAIN x : x[i].cmd \notin {"Register", "Disconnect"}
      BY <3>6 DEF Has
    <3>. QED  BY <1>0, <1>1, <2>1, <2>2, <3>5, <3>7, OtherEvent
  <2>. QED  BY <2>3, <2>4
<1>. QED  BY <1>2, <1>3

\* Calls about requests send nothing about events.
LEMMA EventRequestStep ==
  ASSUME BaseInv, EventInv,
         \/ \E r \in RequestIds : (\E req \in Saves : SaveRequest(r, req)) \/ RemoveDataRequest(r) \/ UpdateDataRequest(r)
         \/ SubmitRequest \/ EndSave \/ StorePaused
         \/ \E p \in BOOLEAN : SetDataRequestsPaused(p)
  PROVE  EventInv'
<1>0. SessionTypeOK
  BY DEF BaseInv
<1>1. UNCHANGED <<events, theirs, codes, orphans, crashes, link, replay>>
  BY DEF SaveRequest, RemoveDataRequest, UpdateDataRequest, SubmitRequest, EndSave, StorePaused, SetDataRequestsPaused,
         serverVars, vars, eventVars, clientEventVars, counters
<1>2. \E x \in Seq(Messages) : wire' = wire \o x /\ ~Has(x, {m \in Messages : m.cmd \in {"Register", "Disconnect"}})
  <2>1. ASSUME NEW p \in BOOLEAN, SetDataRequestsPaused(p)
        PROVE  \E x \in Seq(Messages) : wire' = wire \o x /\ ~Has(x, {m \in Messages : m.cmd \in {"Register", "Disconnect"}})
    <3>1. PICK m \in Messages : m = SubscribeMsg(~p) /\ m.cmd = "Subscribe"
      BY SubscribeTypes DEF SubscribeMsg
    <3>2. SendIfConnected(m)
      BY <2>1, <3>1 DEF SetDataRequestsPaused
    <3>. QED  BY <1>0, <3>1, <3>2, SentOne
  <2>2. ASSUME \/ \E r \in RequestIds : (\E req \in Saves : SaveRequest(r, req)) \/ RemoveDataRequest(r) \/ UpdateDataRequest(r)
               \/ SubmitRequest \/ EndSave \/ StorePaused
        PROVE  \E x \in Seq(Messages) : wire' = wire \o x /\ ~Has(x, {m \in Messages : m.cmd \in {"Register", "Disconnect"}})
    <3>1. PICK x \in Seq(Messages) : wire' = wire \o x /\ ~Has(x, {m \in Messages : m.cmd \in {"Subscribe", "Register", "Disconnect"}})
      BY <1>0, <2>2, RequestCallSends
    <3>. QED  BY <3>1 DEF Has
  <2>. QED  BY <2>1, <2>2
<1>3. PICK x \in Seq(Messages) : wire' = wire \o x /\ ~Has(x, {m \in Messages : m.cmd \in {"Register", "Disconnect"}})
  BY <1>2
<1>4. \A i \in DOMAIN x : x[i].cmd \notin {"Register", "Disconnect"}
  BY <1>3 DEF Has
<1>. QED  BY <1>0, <1>1, <1>3, <1>4, OtherEvent DEF IsConnected, ToReplay

\* Every step keeps the events on their way.
LEMMA EventInvStep ==
  CanFail \cap {"compile", "event"} = {} => (BaseInv /\ EventInv /\ [SessionNext]_allVars => EventInv')
<1> SUFFICES ASSUME CanFail \cap {"compile", "event"} = {}, BaseInv, EventInv, [SessionNext]_allVars PROVE EventInv'
  OBVIOUS
<1>1. CASE Serve
  BY <1>1, ServeEvent
<1>2. CASE UNCHANGED allVars
  BY <1>2 DEF allVars, serverVars, vars, eventVars, clientVars, clientEventVars, counters, EventInv, CodesHeld, ComesTo,
              IsConnected, ToReplay
<1>3. CASE SessionNext /\ ~Serve
  BY <1>3, RegisterEventStep, RemoveEventStep, ReplayEventStep, EventConnectionStep, EventRequestStep DEF SessionNext
<1>. QED  BY <1>1, <1>2, <1>3

\* Once all is settled, the server has for each event the code registered last, and none of the events the client
\* has removed, if it had been told of them by registerEvent(): through disconnections, late messages and the
\* replay of all events, which removes in the end those that were removed without a connection.  It is
\* true as long as the server accepts the codes, since the client does not wait for its answer.
THEOREM EventsAreAgreed == CanFail \cap {"compile", "event"} = {} => (SessionSpec => []EventsAgree)
<1> SUFFICES ASSUME CanFail \cap {"compile", "event"} = {} PROVE SessionSpec => []EventsAgree
  OBVIOUS
<1>1. SessionInit => EventInv
  <2> SUFFICES ASSUME SessionInit PROVE EventInv
    OBVIOUS
  <2>1. wire = <<>> /\ ~IsConnected /\ orphans = {} /\ \A e \in EventIds : theirs[e] = None
    BY DEF SessionInit, IsConnected
  <2>2. CodesHeld
    <3>1. events[Self] = {}
      BY SessionConstants DEF SessionInit, Init, Loaded
    <3>. QED  BY <2>1, <3>1 DEF CodesHeld
  <2>3. \A e \in EventIds : ComesTo(e, None)
    <3>1. DOMAIN wire = {}
      BY <2>1
    <3>. QED  BY <2>1, <3>1 DEF ComesTo, Ends
  <2>. QED  BY <2>1, <2>2, <2>3 DEF EventInv
<1>2. BaseInv /\ EventInv /\ [SessionNext]_allVars => EventInv'
  BY EventInvStep
<1>3. BaseInv /\ EventInv => EventsAgree
  <2> SUFFICES ASSUME BaseInv, EventInv, Settled, crashes = 0, NEW e \in EventIds \ orphans PROVE theirs[e] = codes[e]
    BY DEF EventsAgree
  <2>1. wire = <<>> /\ replay = <<>> /\ IsConnected
    BY DEF Settled
  <2>2. ~ToReplay("events") /\ ~Has(wire, SetsEvent(e))
    BY <2>1 DEF ToReplay, Has
  <2>. QED  BY <2>1, <2>2 DEF EventInv, ComesTo, Ends
<1>. QED  BY <1>1, <1>2, <1>3, SessionTypeCorrect, PTL DEF SessionSpec

--------------------------------------------------------------------------------
\* Requests: the server serves what the client holds.

\* The server's record of a request comes from one with the same size, comparison and period.
Like(tr, req) == tr # None /\ <<tr.size, tr.compare, tr.period>> = <<req.size, req.compare, req.period>>
Matches(r) == Like(requests[Self][r], mine[r])

SavesOf(r) == {m \in Messages : m.cmd = "Save" /\ m.id = r}
\* What ends a request at the server
Cuts(r) == {m \in Messages : m.cmd = "Disconnect" \/ (m.cmd = "Remove" /\ m.id = r)}

\* A message of w saves the request, and none after it ends it.
Live(w, r, i) == i \in DOMAIN w /\ w[i] \in SavesOf(r) /\ \A j \in DOMAIN w : j > i => w[j] \notin Cuts(r)

\* The sizes never grow, from what the server holds, along the messages w, to what the client has now: the server
\* accepts each of them.
Shrinks(w, r, theirs_r, mine_r) ==
    /\ \A i \in DOMAIN w : Live(w, r, i) => mine_r # None /\ w[i].arg.size >= mine_r.size
    /\ \A i, j \in DOMAIN w : i < j /\ Live(w, r, i) /\ Live(w, r, j) => w[i].arg.size >= w[j].arg.size
    /\ ~Has(w, Cuts(r)) /\ theirs_r # None =>
         /\ mine_r # None /\ theirs_r.size >= mine_r.size
         /\ \A i \in DOMAIN w : Live(w, r, i) => theirs_r.size >= w[i].arg.size

\* The server takes the next message, whose size it stores or which ends the request.
LEMMA ShrinksTail ==
  ASSUME NEW w \in Seq(Messages), w # <<>>, NEW r, NEW held, NEW next, NEW req,
         Shrinks(w, r, held, req),
         next # None => \/ held # None /\ next.size = held.size /\ Head(w) \notin Cuts(r)
                        \/ Head(w) \in SavesOf(r) /\ next.size = Head(w).arg.size
  PROVE  Shrinks(Tail(w), r, next, req)
<1> DEFINE t == Tail(w)
<1>1. ASSUME NEW i \in DOMAIN t, Live(t, r, i)
      PROVE  i + 1 \in DOMAIN w /\ Live(w, r, i + 1) /\ t[i] = w[i + 1]
  <2>1. i + 1 \in DOMAIN w /\ t[i] = w[i + 1]
    BY WithoutHead
  <2>2. ASSUME NEW j \in DOMAIN w, j > i + 1
        PROVE  w[j] \notin Cuts(r)
    <3>1. j # 1 /\ j - 1 > i /\ i \in Nat
      BY <2>2
    <3>2. j - 1 \in DOMAIN t /\ t[j - 1] = w[j]
      BY <3>1, WithoutHead
    <3>. QED  BY <1>1, <3>1, <3>2 DEF Live
  <2>. QED  BY <1>1, <2>1, <2>2 DEF Live
<1>2. \A i \in DOMAIN t : Live(t, r, i) => req # None /\ t[i].arg.size >= req.size
  BY <1>1 DEF Shrinks
<1>3. ASSUME NEW i \in DOMAIN t, NEW j \in DOMAIN t, i < j, Live(t, r, i), Live(t, r, j)
      PROVE  t[i].arg.size >= t[j].arg.size
  <2>1. PICK k \in DOMAIN w : k = i + 1 /\ Live(w, r, k) /\ t[i] = w[k]
    BY <1>1, <1>3
  <2>2. PICK l \in DOMAIN w : l = j + 1 /\ Live(w, r, l) /\ t[j] = w[l]
    BY <1>1, <1>3
  <2>3. k < l
    BY <1>3, <2>1, <2>2
  <2>. QED  BY <2>1, <2>2, <2>3 DEF Shrinks
<1>4. ASSUME ~Has(t, Cuts(r)), next # None
      PROVE  /\ req # None /\ next.size >= req.size
             /\ \A i \in DOMAIN t : Live(t, r, i) => next.size >= t[i].arg.size
  <2>1. CASE held # None /\ next.size = held.size /\ Head(w) \notin Cuts(r)
    <3>1. ~Has(w, Cuts(r))
      BY <1>4, <2>1, HasTail
    <3>2. /\ req # None /\ held.size >= req.size
          /\ \A i \in DOMAIN w : Live(w, r, i) => held.size >= w[i].arg.size
      BY <2>1, <3>1 DEF Shrinks
    <3>3. ASSUME NEW i \in DOMAIN t, Live(t, r, i)
          PROVE  next.size >= t[i].arg.size
      <4>1. PICK k \in DOMAIN w : k = i + 1 /\ Live(w, r, k) /\ t[i] = w[k]
        BY <1>1, <3>3
      <4>. QED  BY <2>1, <3>2, <4>1
    <3>. QED  BY <2>1, <3>2, <3>3
  <2>2. CASE Head(w) \in SavesOf(r) /\ next.size = Head(w).arg.size
    <3>1. 1 \in DOMAIN w /\ w[1] = Head(w)
      BY WithoutHead
    <3>2. Live(w, r, 1)
      <4>1. ASSUME NEW j \in DOMAIN w, j > 1
            PROVE  w[j] \notin Cuts(r)
        <5>1. j # 1
          BY <4>1
        <5>2. j - 1 \in DOMAIN t /\ t[j - 1] = w[j]
          BY <5>1, WithoutHead
        <5>. QED  BY <1>4, <5>2 DEF Has
      <4>. QED  BY <2>2, <3>1, <4>1 DEF Live
    <3>3. req # None /\ next.size >= req.size
      BY <2>2, <3>1, <3>2 DEF Shrinks
    <3>4. ASSUME NEW i \in DOMAIN t, Live(t, r, i)
          PROVE  next.size >= t[i].arg.size
      <4>1. PICK k \in DOMAIN w : k = i + 1 /\ Live(w, r, k) /\ t[i] = w[k]
        BY <1>1, <3>4
      <4>2. 1 < k
        BY <4>1
      <4>. QED  BY <2>2, <3>1, <3>2, <4>1, <4>2 DEF Shrinks
    <3>. QED  BY <3>3, <3>4
  <2>. QED  BY <1>4, <2>1, <2>2
<1>. QED  BY <1>2, <1>3, <1>4 DEF Shrinks

\* Others follow, which save the request as it is or not at all.
LEMMA ShrinksSame ==
  ASSUME NEW w \in Seq(Messages), NEW x \in Seq(Messages), NEW r, NEW held, NEW req,
         Shrinks(w, r, held, req), ~Has(x, Cuts(r)),
         req # None => req.size \in Nat,
         \A i \in DOMAIN x : x[i] \in SavesOf(r) => req # None /\ x[i].arg = req
  PROVE  Shrinks(w \o x, r, held, req)
<1> DEFINE y == w \o x
<1>1. ASSUME NEW i \in DOMAIN y, Live(y, r, i)
      PROVE  (i \in DOMAIN w /\ Live(w, r, i) /\ y[i] = w[i]) \/ (i > Len(w) /\ req # None /\ y[i].arg = req)
  <2>1. CASE i \in DOMAIN w
    <3>1. \A j \in DOMAIN w : j \in DOMAIN y /\ y[j] = w[j]
      BY Appended
    <3>. QED  BY <1>1, <2>1, <3>1 DEF Live
  <2>2. ASSUME NEW j \in DOMAIN x, i = Len(w) + j
        PROVE  i > Len(w) /\ req # None /\ y[i].arg = req
    <3>1. y[i] = x[j]
      BY <2>2, Appended
    <3>2. y[i] \in SavesOf(r)
      BY <1>1 DEF Live
    <3>3. Len(w) \in Nat /\ j \in Nat \ {0}
      OBVIOUS
    <3>. QED  BY <2>2, <3>1, <3>2, <3>3
  <2>. QED  BY <2>1, <2>2, Appended
<1>2. ASSUME NEW i \in DOMAIN y, Live(y, r, i)
      PROVE  req # None /\ y[i].arg.size >= req.size
  <2>1. CASE i \in DOMAIN w /\ Live(w, r, i) /\ y[i] = w[i]
    BY <2>1 DEF Shrinks
  <2>2. CASE i > Len(w) /\ req # None /\ y[i].arg = req
    BY <2>2
  <2>. QED  BY <1>1, <1>2, <2>1, <2>2
<1>3. ASSUME NEW i \in DOMAIN y, NEW j \in DOMAIN y, i < j, Live(y, r, i), Live(y, r, j)
      PROVE  y[i].arg.size >= y[j].arg.size
  <2>1. CASE y[j].arg = req
    BY <1>2, <1>3, <2>1
  <2>2. CASE j \in DOMAIN w /\ Live(w, r, j) /\ y[j] = w[j]
    <3>1. i \in DOMAIN w
      <4>1. Len(w) \in Nat /\ DOMAIN w = 1..Len(w) /\ i \in Nat \ {0}
        <5>1. Len(y) \in Nat /\ DOMAIN y = 1..Len(y)
          OBVIOUS
        <5>. QED  BY <5>1
      <4>. QED  BY <1>3, <2>2, <4>1
    <3>2. Live(w, r, i) /\ y[i] = w[i]
      <4>1. ~(i > Len(w))
        BY <3>1
      <4>. QED  BY <1>1, <1>3, <4>1
    <3>. QED  BY <1>3, <2>2, <3>1, <3>2 DEF Shrinks
  <2>. QED  BY <1>1, <1>3, <2>1, <2>2
<1>4. ASSUME ~Has(y, Cuts(r)), held # None
      PROVE  /\ req # None /\ held.size >= req.size
             /\ \A i \in DOMAIN y : Live(y, r, i) => held.size >= y[i].arg.size
  <2>1. ~Has(w, Cuts(r))
    BY <1>4, HasAppended
  <2>2. /\ req # None /\ held.size >= req.size
        /\ \A i \in DOMAIN w : Live(w, r, i) => held.size >= w[i].arg.size
    BY <1>4, <2>1 DEF Shrinks
  <2>3. ASSUME NEW i \in DOMAIN y, Live(y, r, i)
        PROVE  held.size >= y[i].arg.size
    <3>1. CASE i \in DOMAIN w /\ Live(w, r, i) /\ y[i] = w[i]
      BY <2>2, <3>1
    <3>2. CASE y[i].arg = req
      BY <2>2, <3>2
    <3>. QED  BY <1>1, <2>3, <3>1, <3>2
  <2>. QED  BY <2>2, <2>3
<1>. QED  BY <1>2, <1>3, <1>4 DEF Shrinks

\* Others follow which end the request.
LEMMA ShrinksCut ==
  ASSUME NEW w \in Seq(Messages), NEW x \in Seq(Messages), NEW r, NEW held, NEW req,
         Has(x, Cuts(r)), ~Has(x, SavesOf(r))
  PROVE  Shrinks(w \o x, r, held, req)
<1> DEFINE y == w \o x
<1>1. Has(y, Cuts(r))
  BY HasAppended
<1>2. PICK k \in DOMAIN x : x[k] \in Cuts(r)
  BY DEF Has
<1>3. PICK l \in DOMAIN y : l = Len(w) + k /\ y[l] \in Cuts(r)
  BY <1>2, Appended
<1>4. ASSUME NEW i \in DOMAIN y
      PROVE  ~Live(y, r, i)
  <2>1. CASE i \in DOMAIN w
    <3>1. Len(w) \in Nat /\ DOMAIN w = 1..Len(w) /\ k \in Nat \ {0}
      OBVIOUS
    <3>2. l > i
      BY <1>3, <2>1, <3>1
    <3>. QED  BY <1>3, <3>2 DEF Live
  <2>2. ASSUME NEW j \in DOMAIN x, i = Len(w) + j
        PROVE  ~Live(y, r, i)
    BY <2>2, Appended DEF Live, Has
  <2>. QED  BY <2>1, <2>2, Appended
<1>. QED  BY <1>1, <1>4 DEF Shrinks

\* The client saves the request again, with a size it accepts.
LEMMA ShrinksAgain ==
  ASSUME NEW w \in Seq(Messages), NEW r, NEW held, NEW req, NEW new,
         Shrinks(w, r, held, req), new # None, new.size \in Nat,
         req # None => new.size <= req.size /\ req.size \in Nat,
         held # None => held.size \in Nat
  PROVE  Shrinks(w, r, held, new)
<1>1. ASSUME NEW i \in DOMAIN w, Live(w, r, i)
      PROVE  w[i].arg.size >= new.size
  <2>1. PICK size : size = w[i].arg.size
    OBVIOUS
  <2>2. size \in Nat
    <3>1. w[i] \in Messages /\ w[i].cmd = "Save"
      BY <1>1 DEF Live, SavesOf
    <3>2. w[i].arg \in Saves
      BY <3>1, MessageKinds
    <3>. QED  BY <2>1, <3>2, SaveTypes
  <2>3. req # None /\ size >= req.size
    BY <1>1, <2>1 DEF Shrinks
  <2>. QED  BY <2>1, <2>2, <2>3
<1>2. ~Has(w, Cuts(r)) /\ held # None => req # None /\ held.size >= req.size
  BY DEF Shrinks
<1>3. ~Has(w, Cuts(r)) /\ held # None => held.size >= new.size
  BY <1>2
<1>. QED  BY <1>1, <1>3 DEF Shrinks

--------------------------------------------------------------------------------
\* What the server does about requests, when SimConnect accepts what it asks for

Accepted == CanFail \cap {"area", "definition", "lookup"} = {}

\* Alike records are alike.
LEMMA LikeIsTransitive ==
  ASSUME NEW a, NEW b, NEW c, Like(a, b), Like(b, c)
  PROVE  Like(a, c)
  BY DEF Like

\* Calculating a value leaves what the client asked for, ...
LEMMA EvaluatedLike ==
  ASSUME NEW tr \in TrackedRequest, NEW cmp \in BOOLEAN, simval \in Values
  PROVE  Like(Evaluated(tr, TRUE, cmp), tr)
<1>1. Evaluated(tr, TRUE, cmp) # None
  BY EvaluatedType, SessionConstants
<1>2. PICK ev : ev = Evaluated(tr, TRUE, cmp)
  OBVIOUS
<1>3. ev = tr \/ ev = [tr EXCEPT !.data = simval]
  BY <1>2 DEF Evaluated
<1>4. ev.size = tr.size /\ ev.compare = tr.compare /\ ev.period = tr.period
  BY <1>3 DEF TrackedRequest
<1>. QED  BY <1>1, <1>2, <1>4 DEF Like

\* ... and so does another interval.
LEMMA IntervalLike ==
  ASSUME NEW tr \in TrackedRequest, NEW n \in Nat
  PROVE  [tr EXCEPT !.interval = n] \in TrackedRequest /\ Like([tr EXCEPT !.interval = n], tr)
<1>1. PICK it : it = [tr EXCEPT !.interval = n]
  OBVIOUS
<1>2. it \in TrackedRequest /\ it.size = tr.size /\ it.compare = tr.compare /\ it.period = tr.period
  BY <1>1 DEF TrackedRequest
<1>3. it # None
  BY <1>2, SessionConstants
<1>. QED  BY <1>1, <1>2, <1>3 DEF Like

\* Both hold of the interval's minimum.
LEMMA ClampedLike ==
  ASSUME NEW tr \in TrackedRequest
  PROVE  Clamped(tr) \in TrackedRequest /\ Like(Clamped(tr), tr)
<1>1. Like(tr, tr)
  BY SessionConstants DEF Like
<1>2. [tr EXCEPT !.interval = 1] \in TrackedRequest /\ Like([tr EXCEPT !.interval = 1], tr)
  BY IntervalLike
<1>. QED  BY <1>1, <1>2 DEF Clamped

\* A request that is set up is stored as asked for.
LEMMA ScheduledLike ==
  ASSUME Accepted, IInv, NEW r \in RequestIds, NEW tr \in TrackedRequest, NEW def, Schedule(Self, r, tr, def)
  PROVE  /\ Acked
         /\ Like(requests'[Self][r], tr)
         /\ \A q \in RequestIds \ {r} : requests'[Self][q] = requests[Self][q]
<1>0. Self \in Clients /\ simval \in Values /\ requests \in [Clients -> [RequestIds -> TrackedRequest \cup {None}]]
      /\ paused[Self] \in BOOLEAN
  BY SessionConstants DEF IInv, TypeOK
<1>1. Outcome("lookup") = {TRUE}
  BY DEF Outcome, Accepted
<1>2. PICK looked : looked = Clamped(tr)
  OBVIOUS
<1>3. looked \in TrackedRequest /\ Like(looked, tr) /\ Like(looked, looked)
  BY <1>2, ClampedLike, SessionConstants DEF Like
<1>4. PICK final :
         /\ final = IF looked.period = "Never" THEN looked
                    ELSE IF ~paused[Self] THEN Evaluated(looked, TRUE, FALSE)
                    ELSE IF looked.period = "Once" THEN [looked EXCEPT !.interval = 1]
                    ELSE looked
         /\ requests' = [requests EXCEPT ![Self][r] = final]
         /\ Reply(Self, TRUE)
  BY <1>1, <1>2 DEF Schedule
<1>5. Like(final, looked)
  <2>1. Like(Evaluated(looked, TRUE, FALSE), looked)
    BY <1>0, <1>3, EvaluatedLike
  <2>2. Like([looked EXCEPT !.interval = 1], looked)
    BY <1>3, IntervalLike
  <2>. QED  BY <1>3, <1>4, <2>1, <2>2
<1>6. requests'[Self][r] = final /\ \A q \in RequestIds \ {r} : requests'[Self][q] = requests[Self][q]
  BY <1>0, <1>4
<1>7. Acked
  BY <1>4 DEF Reply, Msg, Acked
<1>. QED  BY <1>3, <1>5, <1>6, <1>7, LikeIsTransitive

\* A request that is saved is accepted, unless it grows.
LEMMA SaveHandled ==
  ASSUME Accepted, IInv, NEW m \in Messages, Handles(m), NEW r \in RequestIds, m \in SavesOf(r)
  PROVE  /\ Acked => Like(requests'[Self][r], m.arg)
         /\ ~Acked => /\ requests'[Self][r] = requests[Self][r]
                      /\ requests[Self][r] # None /\ m.arg.size > requests[Self][r].size
<1>0. Self \in Clients /\ requests \in [Clients -> [RequestIds -> TrackedRequest \cup {None}]]
  BY SessionConstants DEF IInv, TypeOK
<1>1. m.cmd = "Save" /\ m.id = r /\ m.arg \in Saves
  BY MessageKinds DEF SavesOf
<1>2. PICK req \in DataRequest : req = m.arg
  BY <1>1, SessionConstants
<1>3. AddRequest(Self, r, req) \/ UpdateRequest(Self, r, req)
  BY <1>1, <1>2 DEF Handles
<1>4. "area" \notin CanFail /\ "definition" \notin CanFail
  BY DEF Accepted
<1>5. CASE AddRequest(Self, r, req)
  <2>1. Schedule(Self, r, NewRequest(req), req.size)
    BY <1>4, <1>5 DEF AddRequest
  <2>2. NewRequest(req) \in TrackedRequest
    BY NewRequestType
  <2>3. Acked /\ Like(requests'[Self][r], NewRequest(req))
    BY <2>1, <2>2, ScheduledLike
  <2>4. Like(NewRequest(req), req)
    BY <2>2, SessionConstants DEF Like, NewRequest
  <2>. QED  BY <1>2, <2>3, <2>4, LikeIsTransitive
<1>6. CASE UpdateRequest(Self, r, req)
  <2>1. PICK tr \in TrackedRequest : tr = requests[Self][r] /\ tr # None
    BY <1>0, <1>6 DEF UpdateRequest
  <2>2. CASE req.size > tr.size /\ Reply(Self, FALSE) /\ requests' = requests
    <3>1. ~Acked
      BY <2>2 DEF Reply, Msg, Acked
    <3>. QED  BY <1>2, <2>1, <2>2, <3>1
  <2>3. CASE Schedule(Self, r, Assigned(tr, req), IF req.size < tr.size THEN req.size ELSE defs[Self][r])
    <3>1. Assigned(tr, req) \in TrackedRequest
      BY AssignedType
    <3>2. Acked /\ Like(requests'[Self][r], Assigned(tr, req))
      BY <2>3, <3>1, ScheduledLike
    <3>3. Like(Assigned(tr, req), req)
      BY <3>1, SessionConstants DEF Like, Assigned
    <3>. QED  BY <1>2, <3>2, <3>3, LikeIsTransitive
  <2>. QED  BY <1>4, <1>6, <2>1, <2>2, <2>3 DEF UpdateRequest, dataVars
<1>. QED  BY <1>3, <1>5, <1>6

\* A message that ends a request ends it.
LEMMA CutHandled ==
  ASSUME IInv, NEW m \in Messages, Handles(m), NEW r \in RequestIds, m \in Cuts(r)
  PROVE  requests'[Self][r] = None
<1>0. Self \in Clients /\ requests \in [Clients -> [RequestIds -> TrackedRequest \cup {None}]]
  BY SessionConstants DEF IInv, TypeOK
<1>1. CASE m.cmd = "Disconnect"
  BY <1>0, <1>1 DEF Handles, Disconnect, ClearedRequests
<1>2. CASE m.cmd = "Remove" /\ m.id = r
  <2>1. RemoveRequest(Self, r)
    BY <1>2 DEF Handles
  <2>. QED  BY <1>0, <2>1 DEF RemoveRequest
<1>. QED  BY <1>1, <1>2 DEF Cuts

\* Any other message leaves what the client asked for.
LEMMA OtherHandled ==
  ASSUME Accepted, IInv, NEW m \in Messages, Handles(m), NEW r \in RequestIds, m \notin SavesOf(r), m \notin Cuts(r)
  PROVE  /\ requests[Self][r] = None => requests'[Self][r] = None
         /\ requests[Self][r] # None => Like(requests'[Self][r], requests[Self][r])
<1>0. Self \in Clients /\ simval \in Values /\ requests \in [Clients -> [RequestIds -> TrackedRequest \cup {None}]]
  BY SessionConstants DEF IInv, TypeOK
<1>1. PICK tr : tr = requests[Self][r]
  OBVIOUS
<1>2. (tr = None \/ tr \in TrackedRequest) /\ (tr # None => Like(tr, tr))
  BY <1>0, <1>1 DEF Like
<1>3. Outcome("lookup") = {TRUE} /\ "area" \notin CanFail /\ "definition" \notin CanFail
  BY DEF Outcome, Accepted
<1>4. CASE requests'[Self][r] = tr
  BY <1>1, <1>2, <1>4
<1>5. CASE m.cmd = "Save"
  <2>1. m.id \in RequestIds /\ m.id # r /\ m.arg \in Saves
    BY <1>5, MessageKinds DEF SavesOf
  <2>2. PICK q \in RequestIds, req \in DataRequest : q = m.id /\ req = m.arg /\ q # r
    BY <2>1, SessionConstants
  <2>3. AddRequest(Self, q, req) \/ UpdateRequest(Self, q, req)
    BY <1>5, <2>2 DEF Handles
  <2>4. \/ requests' = requests
        \/ \E it \in TrackedRequest : \E def : Schedule(Self, q, it, def)
    <3>1. CASE AddRequest(Self, q, req)
      BY <1>3, <3>1, NewRequestType DEF AddRequest
    <3>2. CASE UpdateRequest(Self, q, req)
      <4>1. requests[Self][q] \in TrackedRequest
        BY <1>0, <3>2 DEF UpdateRequest
      <4>2. Assigned(requests[Self][q], req) \in TrackedRequest
        BY <4>1, AssignedType
      <4>. QED  BY <1>3, <3>2, <4>2 DEF UpdateRequest, dataVars
    <3>. QED  BY <2>3, <3>1, <3>2
  <2>5. ASSUME NEW it \in TrackedRequest, NEW def, Schedule(Self, q, it, def)
        PROVE  requests'[Self][r] = tr
    BY <1>1, <2>2, <2>5, ScheduledLike
  <2>. QED  BY <1>1, <1>4, <2>4, <2>5
<1>6. CASE m.cmd = "Remove"
  <2>1. m.id \in RequestIds /\ m.id # r
    BY <1>6, MessageKinds DEF Cuts
  <2>2. RemoveRequest(Self, m.id)
    BY <1>6 DEF Handles
  <2>3. requests' = requests \/ requests' = [requests EXCEPT ![Self][m.id] = None]
    BY <2>2 DEF RemoveRequest
  <2>4. requests'[Self][r] = tr
    BY <1>0, <1>1, <2>1, <2>3
  <2>. QED  BY <1>4, <2>4
<1>7. CASE m.cmd = "Update"
  <2>1. PICK q \in RequestIds : q = m.id /\ UpdateCommand(Self, q)
    BY <1>7 DEF Handles
  <2>2. \/ requests' = requests
        \/ requests[Self][q] # None /\ requests' = [requests EXCEPT ![Self][q] = Evaluated(@, TRUE, FALSE)]
    BY <1>3, <2>1 DEF UpdateCommand
  <2>3. CASE q # r \/ requests' = requests
    <3>1. requests'[Self][r] = tr
      BY <1>0, <1>1, <2>2, <2>3
    <3>. QED  BY <1>4, <3>1
  <2>4. CASE q = r /\ requests[Self][q] # None /\ requests' = [requests EXCEPT ![Self][q] = Evaluated(@, TRUE, FALSE)]
    <3>1. tr \in TrackedRequest /\ requests'[Self][r] = Evaluated(tr, TRUE, FALSE)
      BY <1>0, <1>1, <2>4
    <3>2. Like(Evaluated(tr, TRUE, FALSE), tr)
      BY <1>0, <3>1, EvaluatedLike
    <3>. QED  BY <1>1, <2>4, <3>1, <3>2
  <2>. QED  BY <2>2, <2>3, <2>4
<1>8. CASE m.cmd = "Subscribe" /\ Resume(Self)
  <2>1. CASE r \notin Pending(Self) \/ requests' = requests
    <3>1. CASE requests' = requests
      BY <1>1, <1>4, <3>1
    <3>2. CASE requests' # requests /\ r \notin Pending(Self)
      <4>1. PICK ok \in [Pending(Self) -> {TRUE}] :
               requests' = [requests EXCEPT ![Self] = [q \in RequestIds |->
                              IF q \in Pending(Self) THEN Evaluated(Sent(@[q]), ok[q], TRUE) ELSE @[q]]]
        BY <1>3, <1>8, <3>2 DEF Resume
      <4>2. requests'[Self][r] = tr
        BY <1>0, <1>1, <3>2, <4>1
      <4>. QED  BY <1>4, <4>2
    <3>. QED  BY <2>1, <3>1, <3>2
  <2>2. CASE r \in Pending(Self) /\ requests' # requests
    <3>1. PICK ok \in [Pending(Self) -> {TRUE}] :
             requests' = [requests EXCEPT ![Self] = [q \in RequestIds |->
                            IF q \in Pending(Self) THEN Evaluated(Sent(@[q]), ok[q], TRUE) ELSE @[q]]]
      BY <1>3, <1>8, <2>2 DEF Resume
    <3>2. ok[r] = TRUE /\ requests'[Self][r] = Evaluated(Sent(tr), TRUE, TRUE)
      BY <1>0, <1>1, <2>2, <3>1
    <3>3. tr \in TrackedRequest
      BY <1>1, <1>2, <2>2 DEF Pending, Held
    <3>4. Sent(tr) \in TrackedRequest /\ Like(Sent(tr), tr)
      BY <3>3, IntervalLike DEF Sent
    <3>5. Like(Evaluated(Sent(tr), TRUE, TRUE), Sent(tr))
      BY <1>0, <3>4, EvaluatedLike
    <3>6. tr # None
      BY <3>3, SessionConstants
    <3>. QED  BY <1>1, <3>2, <3>4, <3>5, <3>6, LikeIsTransitive
  <2>. QED  BY <2>1, <2>2
<1>9. CASE m.cmd \in {"Connect", "Register"} \/ (m.cmd = "Subscribe" /\ ~Resume(Self))
  <2>1. requests' = requests
    BY <1>9 DEF Handles, ConnectEvent, RegisterEvent, RemoveEvent, Suspend, dataVars
  <2>. QED  BY <1>1, <1>4, <2>1
<1>10. m.cmd # "Disconnect"
  BY DEF Cuts
<1>. QED  BY <1>5, <1>6, <1>7, <1>8, <1>9, <1>10, MessageKinds

--------------------------------------------------------------------------------
\* What both ends know of a request

Unsent(r) == saving.r = r /\ saving.at \in {"submit", "resize"}
Waiting(r) == saving.at = "wait" /\ saving.r = r
\* The server has accepted the request as it is.
Confirmed(r) == r \notin unsettled \/ (Waiting(r) /\ saving.reply = "Ack")

\* Once all has been sent on connection, the last message about a request the client has is the one that
\* saves it as it is.  When the messages are through, the server has it, if it was accepted.
Kept(r) ==
    IsConnected /\ ~ToReplay("requests") /\ mine[r] # None /\ ~Unsent(r) =>
        Ends(wire, SavesOf(r) \cup Cuts(r), {SaveMsg(r)}, Confirmed(r) => Matches(r))

\* An answer that arrives after the last message which saves the request is the answer to that.
Awaited(r) ==
    Waiting(r) =>
        /\ Ends(wire, SavesOf(r), {SaveMsg(r)}, TRUE)
        /\ saving.reply = "Ack" /\ ~Has(wire, SavesOf(r)) => requests[Self][r] = None \/ Matches(r)

Followed(r) ==
    /\ r \notin unsettled => Shrinks(wire, r, requests[Self][r], mine[r])
    /\ Kept(r)
    /\ Awaited(r)

RequestInv == crashes = 0 => \A r \in RequestIds : Followed(r)

\* The server takes a message.
LEMMA ServeRequest ==
  ASSUME Accepted, BaseInv, Serve, NEW r \in RequestIds, Followed(r)
  PROVE  Followed(r)'
<1>1. PICK m \in Messages : m = Head(wire)
  BY ServeHandles DEF BaseInv
<1>2. wire \in Seq(Messages) /\ wire # <<>> /\ wire' = Tail(wire)
  BY ServeHandles DEF BaseInv
<1>3. Handles(m)
  <2>1. 1 \in DOMAIN wire /\ wire[1] = m
    BY <1>1, <1>2, WithoutHead
  <2>2. m.cmd # "Connect" => status[Self] # "None"
    BY <2>1 DEF BaseInv, Recorded
  <2>. QED  BY <1>1, <2>2, ServeHandles DEF BaseInv
<1>4. IInv
  BY DEF BaseInv
<1>5. /\ UNCHANGED <<link, replay, mine>>
      /\ unsettled' = {q \in unsettled : m.cmd # "Disconnect" \/ OnItsWay("Save", q, wire')}
      /\ saving' = IF m.cmd = "Save" /\ saving.at = "wait" /\ saving.r = m.id
                   THEN [saving EXCEPT !.reply = IF Acked THEN "Ack" ELSE "Nak"] ELSE saving
  BY <1>1 DEF Serve
<1>6. /\ saving'.at = saving.at /\ saving'.r = saving.r
      /\ Waiting(r) /\ m \in SavesOf(r) => saving'.reply = IF Acked THEN "Ack" ELSE "Nak"
      /\ m \notin SavesOf(r) => saving'.reply = saving.reply \/ ~Waiting(r)
  <2>1. PICK S : saving \in [at: Places, r: S, new: BOOLEAN, reply: {"None", "Ack", "Nak"}]
    BY DEF BaseInv, SessionTypeOK
  <2>. QED  BY <1>5, <2>1 DEF SavesOf, Waiting
<1>7. PICK held, next : held = requests[Self][r] /\ next = requests'[Self][r]
  OBVIOUS
<1>8. /\ m \in SavesOf(r) /\ Acked => Like(next, m.arg)
      /\ m \in SavesOf(r) /\ ~Acked => next = held /\ held # None /\ m.arg.size > held.size
      /\ m \in Cuts(r) => next = None
      /\ m \notin SavesOf(r) /\ m \notin Cuts(r) => (held = None => next = None) /\ (held # None => Like(next, held))
  BY <1>3, <1>4, <1>7, SaveHandled, CutHandled, OtherHandled
<1>9. m \in SavesOf(r) => m \notin Cuts(r)
  BY DEF SavesOf, Cuts
<1>10. ASSUME r \notin unsettled
       PROVE  Shrinks(wire, r, held, mine[r]) /\ Shrinks(wire', r, next, mine[r])
  <2>1. Shrinks(wire, r, held, mine[r])
    BY <1>7, <1>10 DEF Followed
  <2>2. next # None => \/ held # None /\ next.size = held.size /\ m \notin Cuts(r)
                       \/ m \in SavesOf(r) /\ next.size = m.arg.size
    BY <1>8, <1>9 DEF Like
  <2>3. Shrinks(Tail(wire), r, next, mine[r])
    BY <1>1, <1>2, <2>1, <2>2, ShrinksTail
  <2>. QED  BY <1>2, <2>1, <2>3
<1>11. ASSUME r \in unsettled, r \notin unsettled'
       PROVE  m \in Cuts(r) /\ Shrinks(wire', r, next, mine[r])
  <2>1. m.cmd = "Disconnect" /\ ~OnItsWay("Save", r, wire')
    BY <1>5, <1>11
  <2>2. m \in Cuts(r) /\ next = None
    BY <1>8, <2>1 DEF Cuts
  <2>3. \A i \in DOMAIN wire' : ~Live(wire', r, i)
    BY <2>1 DEF OnItsWay, Live, SavesOf
  <2>. QED  BY <2>2, <2>3 DEF Shrinks
<1>12. r \notin unsettled' => Shrinks(wire', r, requests'[Self][r], mine'[r])
  BY <1>5, <1>7, <1>10, <1>11
<1>13. PICK msg : msg = SaveMsg(r) /\ msg = SaveMsg(r)' /\ msg.arg = mine[r] /\ msg.arg = mine'[r]
  <2>1. SaveMsg(r)' = SaveMsg(r) /\ mine'[r] = mine[r]
    BY <1>5 DEF SaveMsg
  <2>2. SaveMsg(r).arg = mine[r]
    BY DEF SaveMsg
  <2>. QED  BY <2>1, <2>2
<1>14. Kept(r)'
  <2> SUFFICES ASSUME IsConnected', ~ToReplay("requests")', mine'[r] # None, ~Unsent(r)'
               PROVE  Ends(wire, SavesOf(r) \cup Cuts(r), {SaveMsg(r)}, Confirmed(r) => Matches(r))'
    BY DEF Kept
  <2>1. PICK M, G, now, then :
           /\ M = SavesOf(r) \cup Cuts(r) /\ G = {msg}
           /\ now = (Confirmed(r) => Matches(r)) /\ then = (Confirmed(r) => Matches(r))'
    OBVIOUS
  <2>2. Ends(wire, M, G, now)
    BY <1>5, <1>6, <1>13, <2>1 DEF Followed, Kept, IsConnected, ToReplay, Unsent
  <2>3. ASSUME m \in M, m \in G, ~Has(Tail(wire), M), Confirmed(r)'
        PROVE  Matches(r)'
    <3>1. m \in SavesOf(r) /\ m.arg = mine'[r]
      <4>1. msg.cmd = "Save"
        BY <1>13 DEF SaveMsg
      <4>2. m = msg
        BY <2>1, <2>3
      <4>. QED  BY <1>13, <2>1, <2>3, <4>1, <4>2 DEF Cuts
    <3>2. CASE Acked
      BY <1>7, <1>8, <3>1, <3>2 DEF Matches
    <3>3. CASE ~Acked
      <4>1. held # None /\ m.arg.size > held.size
        BY <1>8, <3>1, <3>3
      <4>2. r \in unsettled'
        <5>1. SUFFICES ASSUME r \notin unsettled' PROVE FALSE
          OBVIOUS
        <5>2. r \notin unsettled
          BY <1>5, <3>1, <5>1 DEF SavesOf
        <5>3. Shrinks(wire, r, held, mine[r])
          BY <1>10, <5>2
        <5>4. ~Has(Tail(wire), Cuts(r))
          BY <2>1, <2>3 DEF Has
        <5>5. ~Has(wire, Cuts(r))
          BY <1>1, <1>2, <1>9, <3>1, <5>4, HasTail
        <5>6. 1 \in DOMAIN wire /\ wire[1] = m
          BY <1>1, <1>2, WithoutHead
        <5>7. Live(wire, r, 1)
          BY <3>1, <5>5, <5>6 DEF Live, Has
        <5>8. held.size >= m.arg.size
          BY <4>1, <5>3, <5>5, <5>6, <5>7 DEF Shrinks
        <5>9. held.size \in Nat /\ m.arg.size \in Nat
          <6>1. m.arg \in Saves
            BY <3>1, MessageKinds DEF SavesOf
          <6>2. held \in TrackedRequest
            <7>1. Self \in Clients /\ requests \in [Clients -> [RequestIds -> TrackedRequest \cup {None}]]
              BY <1>4, SessionConstants DEF IInv, TypeOK
            <7>. QED  BY <1>7, <4>1, <7>1
          <6>3. held.size \in Sizes
            BY <6>2 DEF TrackedRequest
          <6>. QED  BY <6>1, <6>3, SaveTypes, ServerConstants
        <5>. QED  BY <4>1, <5>8, <5>9
      <4>3. Waiting(r) /\ saving'.reply = "Ack"
        BY <1>6, <2>3, <4>2 DEF Confirmed, Waiting
      <4>. QED  BY <1>6, <3>1, <3>3, <4>3
    <3>. QED  BY <3>2, <3>3
  <2>4. ASSUME m \notin M, now, Confirmed(r)'
        PROVE  Matches(r)'
    <3>1. m \notin SavesOf(r) /\ m \notin Cuts(r)
      BY <2>1, <2>4
    <3>2. Confirmed(r)
      BY <1>6, <1>11, <2>4, <3>1 DEF Confirmed, Waiting
    <3>3. Matches(r)
      BY <2>1, <2>4, <3>2
    <3>4. Like(held, mine[r]) /\ held # None
      BY <1>7, <3>3 DEF Matches, Like
    <3>5. Like(next, held)
      BY <1>8, <3>1, <3>4
    <3>6. Like(next, mine[r])
      BY <3>4, <3>5, LikeIsTransitive
    <3>. QED  BY <1>5, <1>7, <3>6 DEF Matches
  <2>5. m \in M /\ m \in G /\ ~Has(Tail(wire), M) => then
    BY <2>1, <2>3
  <2>6. m \notin M /\ now => then
    BY <2>1, <2>4
  <2>7. Ends(Tail(wire), M, G, then)
    BY <1>1, <1>2, <2>2, <2>5, <2>6, EndsTail
  <2>. QED  BY <1>2, <1>13, <2>1, <2>7
<1>15. Awaited(r)'
  <2> SUFFICES ASSUME Waiting(r)'
               PROVE  /\ Ends(wire, SavesOf(r), {SaveMsg(r)}, TRUE)'
                      /\ (saving.reply = "Ack" /\ ~Has(wire, SavesOf(r)) => requests[Self][r] = None \/ Matches(r))'
    BY DEF Awaited
  <2>1. PICK M, G : M = SavesOf(r) /\ G = {msg}
    OBVIOUS
  <2>2. Waiting(r)
    BY <1>6 DEF Waiting
  <2>3. /\ Ends(wire, M, G, TRUE)
        /\ saving.reply = "Ack" /\ ~Has(wire, M) => held = None \/ Like(held, mine[r])
    BY <1>7, <1>13, <2>1, <2>2 DEF Followed, Awaited, Matches
  <2>4. Ends(Tail(wire), M, G, TRUE)
    BY <1>2, <2>3, EndsTail
  <2>5. ASSUME saving'.reply = "Ack", ~Has(Tail(wire), M)
        PROVE  next = None \/ Like(next, mine[r])
    <3>1. CASE m \in M
      <4>1. Acked
        BY <1>6, <2>1, <2>2, <2>5, <3>1
      <4>2. m \in G
        <5>1. 1 \in DOMAIN wire /\ wire[1] = m
          BY <1>1, <1>2, WithoutHead
        <5>2. SUFFICES ASSUME NEW j \in DOMAIN wire, j > 1, wire[j] \in M PROVE FALSE
          BY <2>3, <3>1, <5>1 DEF Ends
        <5>3. j # 1
          BY <5>2
        <5>4. j - 1 \in DOMAIN Tail(wire) /\ Tail(wire)[j - 1] = wire[j]
          BY <1>2, <5>3, WithoutHead
        <5>. QED  BY <2>5, <5>2, <5>4 DEF Has
      <4>3. m.arg = mine[r]
        BY <1>13, <2>1, <4>2
      <4>. QED  BY <1>8, <2>1, <3>1, <4>1, <4>3
    <3>2. CASE m \notin M
      <4>1. saving.reply = "Ack" /\ ~Has(wire, M)
        BY <1>1, <1>2, <1>6, <2>1, <2>2, <2>5, <3>2, HasTail
      <4>2. held = None \/ Like(held, mine[r])
        BY <2>3, <4>1
      <4>3. CASE m \in Cuts(r)
        BY <1>8, <4>3
      <4>4. CASE m \notin Cuts(r)
        <5>1. held = None => next = None
          BY <1>8, <2>1, <3>2, <4>4
        <5>2. held # None => Like(next, held)
          BY <1>8, <2>1, <3>2, <4>4
        <5>. QED  BY <4>2, <5>1, <5>2, LikeIsTransitive
      <4>. QED  BY <4>3, <4>4
    <3>. QED  BY <3>1, <3>2
  <2>. QED  BY <1>2, <1>5, <1>7, <1>13, <2>1, <2>4, <2>5 DEF Matches
<1>. QED  BY <1>12, <1>14, <1>15 DEF Followed

\* Steps that leave a request as it is and send no message about it
LEMMA OtherRequest ==
  ASSUME SessionTypeOK, NEW r \in RequestIds, Followed(r),
         requests' = requests, mine'[r] = mine[r], r \in unsettled => r \in unsettled',
         IsConnected' /\ ~ToReplay("requests")' /\ ~Unsent(r)' => IsConnected /\ ~ToReplay("requests") /\ ~Unsent(r),
         Waiting(r)' => saving' = saving,
         NEW x \in Seq(Messages), wire' = wire \o x, ~Has(x, SavesOf(r)), ~Has(x, Cuts(r))
  PROVE  Followed(r)'
<1>1. wire \in Seq(Messages)
  BY DEF SessionTypeOK
<1>2. mine[r] # None => mine[r].size \in Nat
  BY SavedTypes
<1>3. r \notin unsettled' => Shrinks(wire', r, requests'[Self][r], mine'[r])
  <2>1. \A i \in DOMAIN x : x[i] \notin SavesOf(r)
    BY DEF Has
  <2>2. Shrinks(wire, r, requests[Self][r], mine[r]) => Shrinks(wire \o x, r, requests[Self][r], mine[r])
    BY <1>1, <1>2, <2>1, ShrinksSame
  <2>. QED  BY <2>2 DEF Followed
<1>4. PICK msg : msg = SaveMsg(r) /\ msg = SaveMsg(r)'
  BY DEF SaveMsg
<1>5. (Waiting(r)' => Waiting(r)) /\ (Confirmed(r)' => Confirmed(r)) /\ (Matches(r) => Matches(r)')
  BY DEF Waiting, Confirmed, Matches
<1>6. Kept(r)'
  <2> SUFFICES ASSUME IsConnected', ~ToReplay("requests")', mine'[r] # None, ~Unsent(r)'
               PROVE  Ends(wire, SavesOf(r) \cup Cuts(r), {SaveMsg(r)}, Confirmed(r) => Matches(r))'
    BY DEF Kept
  <2>1. PICK M, G, now, then :
           /\ M = SavesOf(r) \cup Cuts(r) /\ G = {msg}
           /\ now = (Confirmed(r) => Matches(r)) /\ then = (Confirmed(r) => Matches(r))'
    OBVIOUS
  <2>2. Ends(wire, M, G, now)
    BY <1>4, <2>1 DEF Followed, Kept
  <2>3. ~Has(x, M)
    BY <2>1 DEF Has
  <2>4. Ends(wire \o x, M, G, now)
    BY <1>1, <2>2, <2>3, EndsSame
  <2>5. now => then
    BY <1>5, <2>1
  <2>6. Ends(wire \o x, M, G, then)
    BY <2>4, <2>5 DEF Ends
  <2>. QED  BY <1>4, <2>1, <2>6
<1>7. Awaited(r)'
  <2> SUFFICES ASSUME Waiting(r)'
               PROVE  /\ Ends(wire, SavesOf(r), {SaveMsg(r)}, TRUE)'
                      /\ (saving.reply = "Ack" /\ ~Has(wire, SavesOf(r)) => requests[Self][r] = None \/ Matches(r))'
    BY DEF Awaited
  <2>1. PICK M, G : M = SavesOf(r) /\ G = {msg}
    OBVIOUS
  <2>2. /\ Ends(wire, M, G, TRUE)
        /\ saving.reply = "Ack" /\ ~Has(wire, M) => requests[Self][r] = None \/ Matches(r)
    BY <1>4, <1>5, <2>1 DEF Followed, Awaited
  <2>3. Ends(wire \o x, M, G, TRUE)
    BY <1>1, <2>1, <2>2, EndsSame
  <2>4. Has(wire, M) => Has(wire \o x, M)
    BY <1>1, HasAppended
  <2>5. saving'.reply = "Ack" /\ ~Has(wire \o x, M) => requests'[Self][r] = None \/ Matches(r)'
    BY <1>5, <2>2, <2>4
  <2>. QED  BY <1>4, <2>1, <2>3, <2>5
<1>. QED  BY <1>3, <1>6, <1>7 DEF Followed

\* Which messages are about which request
LEMMA AboutRequest ==
  /\ \A m \in Messages : \A r : m.cmd \notin {"Save", "Remove", "Disconnect"} => m \notin SavesOf(r) /\ m \notin Cuts(r)
  /\ \A m \in Messages : \A r : m.id # r /\ m.cmd # "Disconnect" => m \notin SavesOf(r) /\ m \notin Cuts(r)
  /\ \A m \in Messages : \A r : m.cmd = "Save" => m \notin Cuts(r)
  /\ \A m \in Messages : \A r : m.cmd \in {"Remove", "Disconnect"} => m \notin SavesOf(r)
  BY DEF SavesOf, Cuts

\* The client saves a request, ...
LEMMA SaveStep ==
  ASSUME BaseInv, NEW r \in RequestIds, NEW req \in Saves, SaveRequest(r, req), NEW q \in RequestIds, Followed(q)
  PROVE  Followed(q)'
<1>0. SessionTypeOK
  BY DEF BaseInv
<1>1. /\ UNCHANGED <<vars, link, replay, unsettled, wire>>
      /\ mine' = [mine EXCEPT ![r] = req]
      /\ saving = NoSave
      /\ saving'.r = r /\ saving'.at \in {"submit", "resize"}
  BY DEF SaveRequest, serverVars, Call, NoSave
<1>2. requests' = requests
  BY <1>1 DEF vars, dataVars
<1>3. wire \in Seq(Messages) /\ wire' = wire \o <<>> /\ <<>> \in Seq(Messages)
  <2>1. wire \in Seq(Messages)
    BY <1>0 DEF SessionTypeOK
  <2>2. wire = wire \o <<>>
    BY ONLY <2>1
  <2>. QED  BY <1>1, <2>1, <2>2
<1>4. ~Waiting(q)'
  BY <1>1 DEF Waiting
<1>5. CASE q # r
  <2>1. mine'[q] = mine[q]
    BY <1>0, <1>1, <1>5 DEF SessionTypeOK
  <2>2. ~Unsent(q)
    BY <1>1 DEF Unsent, NoSave
  <2>3. PICK x \in Seq(Messages) : wire' = wire \o x /\ ~Has(x, SavesOf(q)) /\ ~Has(x, Cuts(q))
    <3>1. \A M : ~Has(<<>>, M)
      BY DEF Has
    <3>. QED  BY <1>3, <3>1
  <2>. QED  BY <1>0, <1>1, <1>2, <1>4, <2>1, <2>2, <2>3, OtherRequest DEF IsConnected, ToReplay
<1>6. CASE q = r
  <2>1. mine'[r] = req
    BY <1>0, <1>1 DEF SessionTypeOK
  <2>2. Unsent(r)'
    BY <1>1 DEF Unsent
  <2>3. r \notin unsettled' => Shrinks(wire', r, requests'[Self][r], mine'[r])
    <3>1. req # None /\ req.size \in Nat
      BY SaveTypes
    <3>2. mine[r] # None => req.size <= mine[r].size /\ mine[r].size \in Nat
      BY <1>0, SavedTypes DEF SaveRequest, Valid
    <3>3. requests[Self][r] # None => requests[Self][r].size \in Nat
      <4>1. Self \in Clients /\ requests \in [Clients -> [RequestIds -> TrackedRequest \cup {None}]]
        BY SessionConstants DEF BaseInv, IInv, TypeOK
      <4>2. requests[Self][r] # None => requests[Self][r] \in TrackedRequest
        BY <4>1
      <4>. QED  BY <4>2, ServerConstants DEF TrackedRequest
    <3>4. Shrinks(wire, r, requests[Self][r], mine[r]) => Shrinks(wire, r, requests[Self][r], req)
      BY <1>3, <3>1, <3>2, <3>3, ShrinksAgain
    <3>. QED  BY <1>1, <1>2, <1>6, <2>1, <3>4 DEF Followed
  <2>. QED  BY <1>4, <1>6, <2>2, <2>3 DEF Followed, Kept, Awaited
<1>. QED  BY <1>5, <1>6

\* ... sends it, ...
LEMMA SubmitStep ==
  ASSUME BaseInv, SubmitRequest, NEW q \in RequestIds, Followed(q)
  PROVE  Followed(q)'
<1>0. SessionTypeOK
  BY DEF BaseInv
<1>1. PICK r \in RequestIds : r = saving.r
  BY DEF BaseInv, SessionTypeOK, SubmitRequest
<1>2. /\ UNCHANGED <<vars, link, replay, mine>>
      /\ saving.at \in {"submit", "resize"}
      /\ mine[r] # None
  BY <1>0, <1>1 DEF SubmitRequest, serverVars, SessionTypeOK
<1>3. requests' = requests
  BY <1>2 DEF vars, dataVars
<1>4. wire \in Seq(Messages)
  BY <1>0 DEF SessionTypeOK
<1>5. CASE ~IsConnected
  <2>1. saving' = NoSave /\ wire' = wire /\ unsettled' = unsettled /\ ~IsConnected'
    BY <1>2, <1>5 DEF SubmitRequest, IsConnected
  <2>2. ~Waiting(q)'
    BY <2>1 DEF Waiting, NoSave
  <2>. QED  BY <1>2, <1>3, <2>1, <2>2 DEF Followed, Kept, Awaited
<1>6. CASE IsConnected
  <2>1. PICK m \in Messages : m = SaveMsg(r) /\ m = SaveMsg(r)'
    BY <1>0, <1>2, MessageTypes, SavedTypes DEF SaveMsg
  <2>2. /\ unsettled' = unsettled \cup {r} /\ wire' = wire \o <<m>>
        /\ saving' = NoSave \/ saving' = [saving EXCEPT !.at = "wait"]
    BY <1>1, <1>6, <2>1 DEF SubmitRequest, Send
  <2>3. m.cmd = "Save" /\ m.id = r /\ m \in SavesOf(r)
    BY <2>1 DEF SaveMsg, SavesOf
  <2>4. saving'.at \in {"none", "wait"} /\ (saving'.at = "wait" => saving'.r = r)
    <3>1. saving' = [saving EXCEPT !.at = "wait"] => saving'.at = "wait" /\ saving'.r = r
      <4>1. PICK S : saving \in [at: Places, r: S, new: BOOLEAN, reply: {"None", "Ack", "Nak"}]
        BY <1>0 DEF SessionTypeOK
      <4>. QED  BY <1>1, <4>1
    <3>. QED  BY <2>2, <3>1 DEF NoSave
  <2>5. CASE q = r
    <3>1. <<m>> \in Seq(Messages) /\ Has(<<m>>, SavesOf(r)) /\ Has(<<m>>, SavesOf(r) \cup Cuts(r))
      BY <2>3, OneMessage
    <3>2. \A i \in DOMAIN <<m>> : <<m>>[i] \in {m}
      OBVIOUS
    <3>3. \A now : Ends(wire \o <<m>>, SavesOf(r) \cup Cuts(r), {m}, now)
      BY <1>4, <3>1, <3>2, EndsSet
    <3>4. Ends(wire \o <<m>>, SavesOf(r), {m}, TRUE)
      BY <1>4, <3>1, <3>2, EndsSet
    <3>5. Has(wire \o <<m>>, SavesOf(r))
      BY <1>4, <3>1, HasAppended
    <3>6. PICK now : now = (Confirmed(r) => Matches(r))'
      OBVIOUS
    <3>7. Kept(r)'
      BY <2>1, <2>2, <3>3, <3>6 DEF Kept
    <3>8. Awaited(r)'
      BY <2>1, <2>2, <3>4, <3>5 DEF Awaited
    <3>. QED  BY <2>2, <2>5, <3>7, <3>8 DEF Followed
  <2>6. CASE q # r
    <3>1. ~Waiting(q)' /\ ~Unsent(q)
      BY <1>1, <2>4, <2>6 DEF Waiting, Unsent
    <3>2. <<m>> \in Seq(Messages) /\ ~Has(<<m>>, SavesOf(q)) /\ ~Has(<<m>>, Cuts(q))
      BY <2>3, <2>6, AboutRequest, OneMessage
    <3>3. PICK x \in Seq(Messages) : wire' = wire \o x /\ ~Has(x, SavesOf(q)) /\ ~Has(x, Cuts(q))
      BY <2>2, <3>2
    <3>. QED  BY <1>0, <1>2, <1>3, <2>2, <3>1, <3>3, OtherRequest DEF IsConnected, ToReplay
  <2>. QED  BY <2>5, <2>6
<1>. QED  BY <1>5, <1>6

\* ... removes it, on its own account or because it was refused, ...
LEMMA RemovedStep ==
  ASSUME BaseInv, NEW r \in RequestIds, Removed(r), SendIfConnected(RemoveMsg(r)), UNCHANGED <<vars, link, replay>>,
         saving = NoSave \/ (saving.at = "wait" /\ saving.r = r), saving' = NoSave, NEW q \in RequestIds, Followed(q)
  PROVE  Followed(q)'
<1>0. SessionTypeOK
  BY DEF BaseInv
<1>1. wire \in Seq(Messages) /\ requests' = requests /\ (IsConnected' <=> IsConnected) /\ ~Waiting(q)'
  BY <1>0 DEF SessionTypeOK, vars, dataVars, IsConnected, Waiting, NoSave
<1>2. PICK m \in Messages : m = RemoveMsg(r) /\ m.cmd = "Remove" /\ m.id = r
  BY MessageTypes DEF RemoveMsg
<1>3. /\ mine' = [mine EXCEPT ![r] = None]
      /\ unsettled' = IF ~IsConnected /\ Known(requests[Self][r]) THEN unsettled \cup {r} ELSE unsettled \ {r}
  BY DEF Removed
<1>4. CASE q = r
  <2>1. mine'[r] = None
    BY <1>0, <1>3 DEF SessionTypeOK
  <2>2. r \notin unsettled' => Shrinks(wire', r, requests'[Self][r], mine'[r])
    <3>1. CASE IsConnected
      <4>1. wire' = wire \o <<m>>
        BY <1>2, <3>1 DEF SendIfConnected, Send
      <4>2. <<m>> \in Seq(Messages) /\ Has(<<m>>, Cuts(r)) /\ ~Has(<<m>>, SavesOf(r))
        BY <1>2, OneMessage DEF Cuts, SavesOf
      <4>. QED  BY <1>1, <4>1, <4>2, ShrinksCut
    <3>2. CASE ~IsConnected
      <4>1. wire' = wire
        <5>1. wire' = wire \o <<>>
          BY <3>2 DEF SendIfConnected, Send
        <5>2. wire \in Seq(Messages)
          BY <1>1
        <5>. QED  BY ONLY <5>1, <5>2
      <4>2. r \notin unsettled' => requests[Self][r] = None /\ wire = <<>>
        BY <1>3, <3>2 DEF Known
      <4>3. wire = <<>> => DOMAIN wire = {}
        OBVIOUS
      <4>. QED  BY <1>1, <4>1, <4>2, <4>3 DEF Shrinks
    <3>. QED  BY <3>1, <3>2
  <2>. QED  BY <1>1, <1>4, <2>1, <2>2 DEF Followed, Kept, Awaited
<1>5. CASE q # r
  <2>1. mine'[q] = mine[q] /\ (q \in unsettled => q \in unsettled')
    BY <1>0, <1>3, <1>5 DEF SessionTypeOK
  <2>2. ~Unsent(q)
    BY <1>5 DEF Unsent, NoSave
  <2>3. m \notin SavesOf(q) /\ m \notin Cuts(q)
    BY <1>2, <1>5, AboutRequest
  <2>4. PICK x \in Seq(Messages) : wire' = wire \o x /\ \A M : Has(x, M) => m \in M
    BY <1>0, <1>2, SentOne
  <2>. QED  BY <1>0, <1>1, <2>1, <2>2, <2>3, <2>4, OtherRequest DEF ToReplay
<1>. QED  BY <1>4, <1>5

\* ... or stops waiting for the answer.
LEMMA EndSaveStep ==
  ASSUME BaseInv, EndSave, NEW q \in RequestIds, Followed(q)
  PROVE  Followed(q)'
<1>0. SessionTypeOK
  BY DEF BaseInv
<1>1. PICK r \in RequestIds : r = saving.r /\ mine[r] # None
  BY DEF BaseInv, SessionTypeOK, EndSave
<1>2. /\ UNCHANGED <<vars, link, replay>>
      /\ saving.at = "wait" /\ saving' = NoSave
  BY DEF EndSave, serverVars
<1>3. requests' = requests /\ ~Waiting(q)' /\ ~Unsent(q) /\ wire \in Seq(Messages)
  BY <1>0, <1>2 DEF vars, dataVars, Waiting, Unsent, NoSave, SessionTypeOK
<1>4. CASE Removed(r) /\ SendIfConnected(RemoveMsg(r))
  BY <1>1, <1>2, <1>4, RemovedStep
<1>5. CASE UNCHANGED <<mine, wire>> /\ (unsettled' = unsettled \/ (q # r /\ unsettled' = unsettled \ {r}))
  <2>1. PICK x \in Seq(Messages) : wire' = wire \o x /\ ~Has(x, SavesOf(q)) /\ ~Has(x, Cuts(q))
    <3>1. wire = wire \o <<>>
      BY ONLY <1>3
    <3>2. \A M : ~Has(<<>>, M)
      BY DEF Has
    <3>3. <<>> \in Seq(Messages) /\ wire' = wire \o <<>>
      BY <1>5, <3>1
    <3>. QED  BY <3>2, <3>3
  <2>. QED  BY <1>0, <1>2, <1>3, <1>5, <2>1, OtherRequest DEF IsConnected, ToReplay
<1>6. CASE UNCHANGED <<mine, wire>> /\ q = r /\ saving.reply = "Ack" /\ ~OnItsWay("Save", r, wire)
  <2>1. Waiting(r) /\ Confirmed(r)
    BY <1>1, <1>2, <1>6 DEF Waiting, Confirmed
  <2>2. ~Has(wire, SavesOf(r))
    BY <1>6 DEF OnItsWay, Has, SavesOf
  <2>3. requests[Self][r] = None \/ Matches(r)
    BY <1>6, <2>1, <2>2 DEF Followed, Awaited
  <2>4. Shrinks(wire', r, requests'[Self][r], mine'[r])
    <3>1. \A i \in DOMAIN wire : ~Live(wire, r, i)
      BY <2>2 DEF Live, Has
    <3>2. Matches(r) => mine[r] # None /\ requests[Self][r].size >= mine[r].size
      <4>1. mine[r] # None /\ mine[r].size \in Nat
        BY <1>0, <1>1, SavedTypes
      <4>. QED  BY <4>1 DEF Matches, Like
    <3>3. Shrinks(wire, r, requests[Self][r], mine[r])
      BY <2>3, <3>1, <3>2 DEF Shrinks
    <3>. QED  BY <1>3, <1>6, <3>3
  <2>5. Kept(r)'
    <3> SUFFICES ASSUME IsConnected', ~ToReplay("requests")', mine'[r] # None
                 PROVE  Ends(wire, SavesOf(r) \cup Cuts(r), {SaveMsg(r)}, Confirmed(r) => Matches(r))'
      BY DEF Kept
    <3>1. PICK msg : msg = SaveMsg(r) /\ msg = SaveMsg(r)'
      BY <1>6 DEF SaveMsg
    <3>2. PICK M, G, now, then :
             /\ M = SavesOf(r) \cup Cuts(r) /\ G = {msg}
             /\ now = (Confirmed(r) => Matches(r)) /\ then = (Confirmed(r) => Matches(r))'
      OBVIOUS
    <3>3. Ends(wire, M, G, now)
      BY <1>2, <1>3, <1>6, <3>1, <3>2 DEF Followed, Kept, IsConnected, ToReplay
    <3>4. Matches(r) => Matches(r)'
      BY <1>3, <1>6 DEF Matches
    <3>5. now => then
      BY <2>1, <3>2, <3>4
    <3>6. Ends(wire, M, G, then)
      BY <3>3, <3>5 DEF Ends
    <3>. QED  BY <1>6, <3>1, <3>2, <3>6
  <2>. QED  BY <1>3, <1>6, <2>4, <2>5 DEF Followed, Awaited
<1>. QED  BY <1>1, <1>4, <1>5, <1>6 DEF EndSave

\* The other calls about requests send no message that makes a difference to them.
LEMMA OtherCallStep ==
  ASSUME BaseInv, NEW q \in RequestIds, Followed(q),
         \/ \E r \in RequestIds : UpdateDataRequest(r)
         \/ \E p \in BOOLEAN : SetDataRequestsPaused(p)
         \/ StorePaused
         \/ \E e \in EventIds : RemoveClientEvent(e) \/ \E code \in Codes : RegisterClientEvent(e, code)
  PROVE  Followed(q)'
<1>0. SessionTypeOK
  BY DEF BaseInv
<1>1. UNCHANGED <<vars, link, replay, mine, unsettled>>
  BY DEF UpdateDataRequest, SetDataRequestsPaused, StorePaused, RemoveClientEvent, RegisterClientEvent, serverVars, requestVars
<1>2. requests' = requests
  BY <1>1 DEF vars, dataVars
<1>3. ~Unsent(q) /\ ~Waiting(q)'
  <2>1. saving.at \in {"none", "pause"} /\ saving'.at \in {"none", "pause"}
    <3>1. (\E p \in BOOLEAN : SetDataRequestsPaused(p)) => saving = NoSave /\ saving'.at = "pause"
      BY DEF SetDataRequestsPaused, Call, NoSave
    <3>2. StorePaused => saving.at = "pause" /\ saving' = NoSave
      BY DEF StorePaused
    <3>3. (\E r \in RequestIds : UpdateDataRequest(r)) => saving = NoSave /\ saving' = NoSave
      BY DEF UpdateDataRequest, Call
    <3>4. ASSUME NEW e \in EventIds, RemoveClientEvent(e) \/ \E code \in Codes : RegisterClientEvent(e, code)
          PROVE  saving = NoSave /\ saving' = NoSave
      BY <3>4 DEF RemoveClientEvent, RegisterClientEvent, Call
    <3>5. NoSave.at = "none"
      BY DEF NoSave
    <3>. QED  BY <3>1, <3>2, <3>3, <3>4, <3>5
  <2>. QED  BY <2>1 DEF Unsent, Waiting
<1>4. \E m \in Messages : m.cmd \notin {"Save", "Remove", "Disconnect"} /\ (UNCHANGED wire \/ SendIfConnected(m) \/ Send(<<m>>))
  <2>1. ASSUME NEW r \in RequestIds, UpdateDataRequest(r)
        PROVE  \E m \in Messages : m.cmd = "Update" /\ Send(<<m>>)
    <3>1. PICK m \in Messages : m = [Msg0("Update") EXCEPT !.id = r]
      BY MessageTypes
    <3>. QED  BY <2>1, <3>1 DEF UpdateDataRequest, Msg0
  <2>2. ASSUME NEW p \in BOOLEAN, SetDataRequestsPaused(p)
        PROVE  \E m \in Messages : m.cmd = "Subscribe" /\ SendIfConnected(m)
    <3>1. PICK m \in Messages : m = SubscribeMsg(~p) /\ m.cmd = "Subscribe"
      BY SubscribeTypes DEF SubscribeMsg
    <3>. QED  BY <2>2, <3>1 DEF SetDataRequestsPaused
  <2>3. ASSUME StorePaused
        PROVE  \E m \in Messages : m.cmd = "Connect" /\ UNCHANGED wire
    <3>1. PICK m \in Messages : m = Msg0("Connect") /\ m.cmd = "Connect"
      BY MessageTypes DEF Msg0
    <3>. QED  BY <2>3, <3>1 DEF StorePaused
  <2>4. ASSUME NEW e \in EventIds, NEW code \in Codes \cup {""},
               UNCHANGED wire \/ SendIfConnected(RegisterMsg(e, code))
        PROVE  \E m \in Messages : m.cmd = "Register" /\ (UNCHANGED wire \/ SendIfConnected(m))
    <3>1. PICK m \in Messages : m = RegisterMsg(e, code) /\ m.cmd = "Register"
      BY MessageTypes DEF RegisterMsg
    <3>. QED  BY <2>4, <3>1
  <2>5. ASSUME NEW e \in EventIds, RemoveClientEvent(e) \/ \E code \in Codes : RegisterClientEvent(e, code)
        PROVE  \E m \in Messages : m.cmd = "Register" /\ (UNCHANGED wire \/ SendIfConnected(m))
    <3>1. CASE RemoveClientEvent(e)
      BY <2>4, <3>1 DEF RemoveClientEvent
    <3>2. ASSUME NEW code \in Codes, RegisterClientEvent(e, code)
          PROVE  \E m \in Messages : m.cmd = "Register" /\ (UNCHANGED wire \/ SendIfConnected(m))
      BY <2>4, <3>2 DEF RegisterClientEvent
    <3>. QED  BY <2>5, <3>1, <3>2
  <2>. QED  BY <2>1, <2>2, <2>3, <2>5
<1>5. PICK m \in Messages : m.cmd \notin {"Save", "Remove", "Disconnect"} /\ (UNCHANGED wire \/ SendIfConnected(m) \/ Send(<<m>>))
  BY <1>4
<1>6. PICK x \in Seq(Messages) : wire' = wire \o x /\ \A M : Has(x, M) => m \in M
  BY <1>0, <1>5, SentOne
<1>7. ~Has(x, SavesOf(q)) /\ ~Has(x, Cuts(q))
  BY <1>5, <1>6, AboutRequest
<1>. QED  BY <1>0, <1>1, <1>2, <1>3, <1>6, <1>7, OtherRequest DEF IsConnected, ToReplay

\* Connections: requests are not sent before all of them are sent again, and a disconnection ends them.
LEMMA RequestConnectionStep ==
  ASSUME BaseInv, NEW q \in RequestIds, Followed(q),
         ConnectSimulator \/ ConnectServer \/ AwaitServer \/ DisconnectServer \/ DisconnectSimulator
  PROVE  Followed(q)'
<1>0. SessionTypeOK
  BY DEF BaseInv
<1>1. UNCHANGED <<vars, mine, unsettled, saving>>
  BY DEF ConnectSimulator, ConnectServer, AwaitServer, DisconnectServer, DisconnectSimulator, serverVars, requestVars
<1>2. requests' = requests
  BY <1>1 DEF vars, dataVars
<1>3. ~(IsConnected' /\ ~ToReplay("requests")')
  <2>1. IsConnected' => AwaitServer
    BY DEF ConnectSimulator, ConnectServer, DisconnectServer, DisconnectSimulator, IsConnected
  <2>2. AwaitServer /\ IsConnected' => replay' = <<"pause", "requests", "events">>
    BY DEF AwaitServer, IsConnected
  <2>3. replay' = <<"pause", "requests", "events">> => ToReplay("requests")'
    <3>1. DOMAIN <<"pause", "requests", "events">> = 1..3 /\ <<"pause", "requests", "events">>[2] = "requests"
      OBVIOUS
    <3>. QED  BY <3>1 DEF ToReplay
  <2>. QED  BY <2>1, <2>2, <2>3
<1>4. PICK x \in Seq(Messages) :
         wire' = wire \o x /\ ~Has(x, {m \in Messages : m.cmd \notin {"Connect", "Disconnect"}})
  BY <1>0, ConnectionSends
<1>5. \A i \in DOMAIN x : x[i] \in Messages /\ x[i].cmd \in {"Connect", "Disconnect"}
  BY <1>4 DEF Has
<1>6. ~Has(x, SavesOf(q))
  BY <1>5 DEF Has, SavesOf
<1>7. CASE ~Has(x, Cuts(q))
  BY <1>0, <1>1, <1>2, <1>3, <1>4, <1>6, <1>7, OtherRequest
<1>8. CASE Has(x, Cuts(q))
  <2>1. wire \in Seq(Messages)
    BY <1>0 DEF SessionTypeOK
  <2>2. Shrinks(wire', q, requests'[Self][q], mine'[q])
    BY <1>4, <1>6, <1>8, <2>1, ShrinksCut
  <2>3. Awaited(q)'
    <3> SUFFICES ASSUME Waiting(q)'
                 PROVE  /\ Ends(wire, SavesOf(q), {SaveMsg(q)}, TRUE)'
                        /\ (saving.reply = "Ack" /\ ~Has(wire, SavesOf(q)) => requests[Self][q] = None \/ Matches(q))'
      BY DEF Awaited
    <3>1. PICK M, G : M = SavesOf(q) /\ G = {SaveMsg(q)} /\ G = {SaveMsg(q)}'
      BY <1>1 DEF SaveMsg
    <3>2. /\ Ends(wire, M, G, TRUE)
          /\ saving.reply = "Ack" /\ ~Has(wire, M) => requests[Self][q] = None \/ Matches(q)
      BY <1>1, <3>1 DEF Followed, Awaited, Waiting
    <3>3. Ends(wire \o x, M, G, TRUE)
      BY <1>6, <2>1, <3>1, <3>2, EndsSame
    <3>4. Has(wire, M) => Has(wire \o x, M)
      BY <2>1, HasAppended
    <3>5. Matches(q) => Matches(q)'
      BY <1>1, <1>2 DEF Matches
    <3>6. saving'.reply = "Ack" /\ ~Has(wire', M) => requests'[Self][q] = None \/ Matches(q)'
      BY <1>1, <1>2, <1>4, <3>2, <3>4, <3>5
    <3>. QED  BY <1>4, <3>1, <3>3, <3>6
  <2>. QED  BY <1>3, <2>2, <2>3 DEF Followed, Kept
<1>. QED  BY <1>7, <1>8

\* All requests are sent again, as they are.
LEMMA RequestReplayStep ==
  ASSUME BaseInv, NEW q \in RequestIds, Followed(q), Replay
  PROVE  Followed(q)'
<1>0. SessionTypeOK
  BY DEF BaseInv
<1>1. /\ UNCHANGED <<vars, link, mine, unsettled, saving>>
      /\ \A kind : ToReplay(kind)' <=> ToReplay(kind) /\ kind # Head(replay)
      /\ Head(replay) \in {"pause", "requests", "events"}
  BY <1>0, ReplaySends
<1>2. requests' = requests /\ wire \in Seq(Messages)
  BY <1>0, <1>1 DEF vars, dataVars, SessionTypeOK
<1>3. (Unsent(q)' <=> Unsent(q)) /\ (IsConnected' <=> IsConnected)
  BY <1>1 DEF Unsent, IsConnected
<1>4. ASSUME NEW x \in Seq(Messages), wire' = wire \o x, ~Has(x, SavesOf(q)), ~Has(x, Cuts(q)),
             ~IsConnected \/ Head(replay) # "requests"
      PROVE  Followed(q)'
  BY <1>0, <1>1, <1>2, <1>3, <1>4, OtherRequest
<1>5. CASE ~IsConnected
  <2>1. wire' = wire \o <<>> /\ <<>> \in Seq(Messages)
    BY <1>0, <1>5, ReplaySends
  <2>2. \A M : ~Has(<<>>, M)
    BY DEF Has
  <2>. QED  BY <1>4, <1>5, <2>1, <2>2
<1>6. CASE IsConnected
  <2>1. PICK x \in Seq(Messages) :
           /\ wire' = wire \o x
           /\ Head(replay) = "pause" => x = <<SubscribeMsg(~requestsPaused)>>
           /\ Head(replay) = "requests" => x \in ReplayRequests
           /\ Head(replay) = "events" => x \in ReplayEvents
    BY <1>0, <1>6, ReplaySends
  <2>2. CASE Head(replay) # "requests"
    <3>1. \A i \in DOMAIN x : x[i].cmd \in {"Subscribe", "Register"}
      <4>1. CASE Head(replay) = "pause"
        BY <2>1, <4>1 DEF SubscribeMsg
      <4>2. CASE Head(replay) = "events"
        BY <1>0, <2>1, <4>2, ReplayedEvents DEF RegisterMsg
      <4>. QED  BY <1>1, <2>2, <4>1, <4>2
    <3>2. ~Has(x, SavesOf(q)) /\ ~Has(x, Cuts(q))
      BY <3>1 DEF Has, SavesOf, Cuts
    <3>. QED  BY <1>4, <2>1, <2>2, <3>2
  <2>3. CASE Head(replay) = "requests"
    <3>1. /\ \A i \in DOMAIN x : \E r \in RequestIds : mine[r] # None /\ x[i] = SaveMsg(r)
          /\ \A r \in RequestIds : mine[r] # None => \E i \in DOMAIN x : x[i] = SaveMsg(r)
      BY <1>0, <2>1, <2>3, ReplayedRequests
    <3>2. PICK msg : msg = SaveMsg(q) /\ msg = SaveMsg(q)'
      BY <1>1 DEF SaveMsg
    <3>3. ASSUME NEW i \in DOMAIN x
          PROVE  /\ x[i] \notin Cuts(q)
                 /\ x[i] \in SavesOf(q) => x[i] = msg /\ mine[q] # None /\ x[i].arg = mine[q]
      <4>1. PICK r \in RequestIds : mine[r] # None /\ x[i] = SaveMsg(r)
        BY <3>1
      <4>2. x[i].cmd = "Save" /\ x[i].id = r /\ x[i].arg = mine[r]
        BY <4>1 DEF SaveMsg
      <4>. QED  BY <3>2, <4>1, <4>2 DEF Cuts, SavesOf
    <3>4. ~Has(x, Cuts(q))
      BY <3>3 DEF Has
    <3>5. q \notin unsettled' => Shrinks(wire', q, requests'[Self][q], mine'[q])
      <4>1. mine[q] # None => mine[q].size \in Nat
        BY <1>0, SavedTypes
      <4>2. Shrinks(wire, q, requests[Self][q], mine[q]) => Shrinks(wire \o x, q, requests[Self][q], mine[q])
        BY <1>2, <3>3, <3>4, <4>1, ShrinksSame
      <4>. QED  BY <1>1, <1>2, <2>1, <4>2 DEF Followed
    <3>6. ASSUME mine[q] # None
          PROVE  Has(x, SavesOf(q))
      <4>1. PICK i \in DOMAIN x : x[i] = SaveMsg(q)
        BY <3>1, <3>6
      <4>2. SaveMsg(q) \in SavesOf(q)
        BY <1>0, <3>6, MessageTypes, SavedTypes DEF SavesOf, SaveMsg
      <4>. QED  BY <4>1, <4>2 DEF Has
    <3>7. Kept(q)'
      <4> SUFFICES ASSUME mine[q] # None
                   PROVE  Ends(wire, SavesOf(q) \cup Cuts(q), {SaveMsg(q)}, Confirmed(q) => Matches(q))'
        BY <1>1 DEF Kept
      <4>1. PICK M, G, then : M = SavesOf(q) \cup Cuts(q) /\ G = {msg} /\ then = (Confirmed(q) => Matches(q))'
        OBVIOUS
      <4>2. Has(x, M) /\ \A i \in DOMAIN x : x[i] \in M => x[i] \in G
        BY <3>3, <3>6, <4>1 DEF Has
      <4>3. Ends(wire \o x, M, G, then)
        BY <1>2, <4>2, EndsSet
      <4>. QED  BY <2>1, <3>2, <4>1, <4>3
    <3>8. Awaited(q)'
      <4> SUFFICES ASSUME Waiting(q)'
                   PROVE  Ends(wire, SavesOf(q), {SaveMsg(q)}, TRUE)' /\ Has(wire', SavesOf(q))
        BY DEF Awaited
      <4>1. mine[q] # None
        BY <1>0, <1>1 DEF SessionTypeOK, Waiting
      <4>2. PICK M, G : M = SavesOf(q) /\ G = {msg}
        OBVIOUS
      <4>3. Has(x, M) /\ \A i \in DOMAIN x : x[i] \in M => x[i] \in G
        BY <3>3, <3>6, <4>1, <4>2
      <4>4. Ends(wire \o x, M, G, TRUE)
        BY <1>2, <4>3, EndsSet
      <4>5. Has(wire \o x, M)
        BY <1>2, <4>3, HasAppended
      <4>. QED  BY <2>1, <3>2, <4>2, <4>4, <4>5
    <3>. QED  BY <3>5, <3>7, <3>8 DEF Followed
  <2>. QED  BY <2>2, <2>3
<1>. QED  BY <1>5, <1>6

\* Every step keeps the requests on their way.
LEMMA RequestInvStep ==
  Accepted => (BaseInv /\ RequestInv /\ [SessionNext]_allVars => RequestInv')
<1> SUFFICES ASSUME Accepted, BaseInv, RequestInv, [SessionNext]_allVars, crashes' = 0, NEW q \in RequestIds PROVE Followed(q)'
  BY DEF RequestInv
<1>1. crashes = 0 /\ ~Crash
  <2>1. crashes \in Nat
    BY DEF BaseInv, SessionTypeOK
  <2>2. crashes' = crashes \/ crashes' = crashes + 1
    BY DEF SessionNext, SaveRequest, RemoveDataRequest, UpdateDataRequest, SubmitRequest, EndSave, StorePaused,
           SetDataRequestsPaused, RemoveClientEvent, RegisterClientEvent, ConnectSimulator, ConnectServer,
           AwaitServer, Replay, DisconnectServer, DisconnectSimulator, Crash, Serve, allVars, clientVars, counters
  <2>3. crashes' # crashes + 1
    BY ONLY <2>1, crashes' = 0
  <2>. QED  BY <2>2, <2>3 DEF Crash
<1>2. Followed(q)
  BY <1>1 DEF RequestInv
<1>3. CASE Serve
  BY <1>2, <1>3, ServeRequest
<1>4. CASE UNCHANGED allVars
  <2>1. UNCHANGED <<wire, requests, mine, saving, unsettled, link, replay>>
    BY <1>4 DEF allVars, serverVars, vars, dataVars, clientVars, requestVars
  <2>. QED  BY <1>2, <2>1 DEF Followed, Kept, Awaited, Confirmed, Waiting, Unsent, Matches, IsConnected, ToReplay, SaveMsg
<1>5. CASE \E r \in RequestIds : RemoveDataRequest(r)
  <2>1. PICK r \in RequestIds : RemoveDataRequest(r)
    BY <1>5
  <2>2. /\ Removed(r) /\ SendIfConnected(RemoveMsg(r))
        /\ UNCHANGED <<vars, link, replay>> /\ saving = NoSave /\ saving' = NoSave
    BY <2>1 DEF RemoveDataRequest, Call, serverVars
  <2>. QED  BY <1>2, <2>2, RemovedStep
<1>6. CASE \E r \in RequestIds : \E req \in Saves : SaveRequest(r, req)
  BY <1>2, <1>6, SaveStep
<1>7. CASE ConnectSimulator \/ ConnectServer \/ AwaitServer \/ DisconnectServer \/ DisconnectSimulator
  BY <1>2, <1>7, RequestConnectionStep
<1>8. CASE \/ \E r \in RequestIds : UpdateDataRequest(r)
           \/ \E p \in BOOLEAN : SetDataRequestsPaused(p)
           \/ StorePaused
           \/ \E e \in EventIds : RemoveClientEvent(e) \/ \E code \in Codes : RegisterClientEvent(e, code)
  BY <1>2, <1>8, OtherCallStep
<1>9. CASE SubmitRequest
  BY <1>2, <1>9, SubmitStep
<1>10. CASE EndSave
  BY <1>2, <1>10, EndSaveStep
<1>11. CASE Replay
  BY <1>2, <1>11, RequestReplayStep
<1>12. QED
  BY <1>1, <1>3, <1>4, <1>5, <1>6, <1>7, <1>8, <1>9, <1>10, <1>11 DEF SessionNext

\* Requests are saved, changed and removed over a connection, without one and while one is being made, and sent
\* again with each new one.  Once all is settled the server serves those the client holds, as it holds them, and
\* no others, as long as the server can set up what it is asked for.  The client tells one Ack from another
\* by nothing but the request, and takes the answer to an earlier message for the one it waits for: the
\* server has then accepted that one, and it accepts all later ones since no size ever grows.
THEOREM RequestsAreAgreed == CanFail \cap {"area", "definition", "lookup"} = {} => (SessionSpec => []RequestsAgree)
<1> SUFFICES ASSUME CanFail \cap {"area", "definition", "lookup"} = {} PROVE SessionSpec => []RequestsAgree
  OBVIOUS
<1>0. Accepted
  BY DEF Accepted
<1>1. SessionInit => RequestInv
  <2> SUFFICES ASSUME SessionInit, NEW r \in RequestIds PROVE Followed(r)
    BY DEF RequestInv
  <2>1. wire = <<>> /\ ~IsConnected /\ saving = NoSave
    BY DEF SessionInit, IsConnected
  <2>2. requests[Self][r] = None
    BY SessionConstants DEF SessionInit, Init, Loaded
  <2>3. DOMAIN wire = {}
    BY <2>1
  <2>. QED  BY <2>1, <2>2, <2>3 DEF Followed, Shrinks, Kept, Awaited, Waiting, NoSave
<1>2. BaseInv /\ RequestInv /\ [SessionNext]_allVars => RequestInv'
  BY <1>0, RequestInvStep
<1>3. BaseInv /\ RequestInv => RequestsAgree
  <2> SUFFICES ASSUME BaseInv, RequestInv, Settled, crashes = 0, NEW r \in RequestIds \ unsettled
               PROVE  /\ mine[r] = None => requests[Self][r] = None
                      /\ mine[r] # None => Matches(r)
    BY DEF RequestsAgree, Matches, Like
  <2>1. wire = <<>> /\ replay = <<>> /\ IsConnected /\ saving = NoSave /\ Followed(r)
    BY DEF Settled, RequestInv
  <2>2. \A M : ~Has(wire, M)
    BY <2>1 DEF Has
  <2>3. mine[r] = None => requests[Self][r] = None
    BY <2>1, <2>2 DEF Followed, Shrinks
  <2>4. ~ToReplay("requests") /\ ~Unsent(r) /\ Confirmed(r)
    BY <2>1 DEF ToReplay, Unsent, NoSave, Confirmed
  <2>5. mine[r] # None => Matches(r)
    BY <2>1, <2>2, <2>4 DEF Followed, Kept, Ends
  <2>. QED  BY <2>3, <2>5
<1>. QED  BY <1>1, <1>2, <1>3, SessionTypeCorrect, PTL DEF SessionSpec

================================================================================
