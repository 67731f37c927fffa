--------------------------- MODULE ConnectionPromise ---------------------------
(***************************************************************************)
(* What WASimClient promises about its connections: isInitialized() and    *)
(* isConnected() (src/include/client/WASimClient.h) as one state machine.  *)
(* The link to the simulator comes first, the server is joined only over   *)
(* an existing link and only after it has answered, and the link may go at *)
(* any time, with or without leaving the server first.                     *)
(***************************************************************************)
VARIABLES
    link,       \* "down", "sim" (isInitialized()) or "server" (isConnected())
    answered,   \* the server has answered a connection attempt over this link
    excused     \* a link was ended while another thread was at work or a late answer came

Links == {"down", "sim", "server"}

Init == link = "down" /\ answered = FALSE /\ excused = FALSE

Open == link = "down" /\ link' = "sim" /\ answered' = FALSE

Answer == link # "down" /\ answered' = TRUE /\ UNCHANGED link

Join == link = "sim" /\ answered /\ link' = "server" /\ UNCHANGED answered

Leave == link # "down" /\ link' = "sim" /\ answered' = FALSE

\* A new attempt, for a client that is connected, takes it back to the link alone.
Rejoin == link = "server" /\ link' = "sim" /\ UNCHANGED answered

Close == link # "down" /\ link' = "down" /\ answered' = FALSE

\* Threads that undo each other's connections are promised nothing, nor is anything after a late answer
\* met the end of the link.
Excused == excused /\ link' \in Links /\ answered' \in BOOLEAN

Next ==
    /\ Open \/ Answer \/ Join \/ Leave \/ Rejoin \/ Close \/ UNCHANGED <<link, answered>> \/ Excused
    /\ excused => excused'

Spec == Init /\ [][Next]_<<link, answered, excused>>
================================================================================
