---------------------------- MODULE ListRequestsProofs ----------------------------
(***************************************************************************)
(* Proofs about list requests, for any number of threads, calls,           *)
(* connections and items: lists that do not get in each other's way are    *)
(* one at a time, and one that is reported complete has its own items.     *)
(***************************************************************************)
EXTENDS ListRequests, TLAPS

--------------------------------------------------------------------------------
\* Types

Places  == {"none", "start", "check", "sleep", "callback", "reset", "done"}
Results == {"None", "S_OK", "E_FAIL"}
Waiter  == [at: Places, type: Types \cup {None}, token: Nat, hr: Results]
Request == [cmd: {"Connect", "Disconnect", "List"}, token: Nat]
Message == [cmd: {"Connect", "Item", "Ack"}, token: Nat]

ListTypeOK ==
    /\ listType \in Types \cup {None} /\ token \in Nat /\ result \in Seq(Nat)
    /\ caller \in [Threads -> Types \cup {None}]
    /\ \A k \in DOMAIN reponses : reponses[k] \in {"None", "Ack"}
    /\ waiter \in [Calls -> Waiter]
    /\ status \in {"SimConnected", "Connecting", "Connected"}
    /\ wire \in Seq(Request) /\ back \in Seq(Message)
    /\ nextCmdToken \in 1..(MaxLists + 1)
    /\ items \in [Calls -> Nat]
    /\ delivered \in [Calls -> [hr: Results, type: Types \cup {None}, items: Seq(Nat)]]
    /\ raced \subseteq Calls

--------------------------------------------------------------------------------
\* Where the messages of list k are

ListAt(i, k) == i \in 1..Len(wire) /\ wire[i].cmd = "List" /\ wire[i].token = k
ItemAt(i, k) == i \in 1..Len(back) /\ back[i].cmd = "Item" /\ back[i].token = k
AckAt(i, k)  == i \in 1..Len(back) /\ back[i].cmd = "Ack"  /\ back[i].token = k
Acked(k)     == k \in DOMAIN reponses /\ reponses[k] = "Ack"

\* Nothing of list k is under way.
Over(k) == \A i : ~ListAt(i, k) /\ ~ItemAt(i, k) /\ ~AckAt(i, k)

\* Tokens that were given
Given(k) == k \in Calls /\ k < nextCmdToken

Bounds ==
    /\ \A i, k : ListAt(i, k) \/ ItemAt(i, k) \/ AckAt(i, k) => Given(k)
    /\ \A k \in DOMAIN reponses : Given(k)
    /\ \A k \in Calls : ~Given(k) => waiter[k].at = "none" /\ delivered[k].hr = "None"
    /\ status = "Connected" => serverConnected

\* The list is sent once, its items come after it was served, and its end after the items.
Messages ==
    /\ \A i, j, k : ListAt(i, k) /\ ListAt(j, k) => i = j
    /\ \A i, j, k : ListAt(i, k) => ~ItemAt(j, k) /\ ~AckAt(j, k)
    /\ \A i, k : ListAt(i, k) => ~Acked(k)
    /\ \A a, j, k : AckAt(a, k) /\ (ItemAt(j, k) \/ AckAt(j, k)) => j <= a
    /\ \A k : Acked(k) => Over(k)

--------------------------------------------------------------------------------
\* The list requests

OneList == \A k \in Live \ raced :
    Live = {k} /\ token = k /\ listType = waiter[k].type /\ listType # None

InPeace == status = "Connected" /\ ~fresh /\ ~late

\* On a connection items that come in are those of a call which waits for them.
Awaited ==
    \A k : InPeace /\ k = token /\ (\E i : ListAt(i, k) \/ ItemAt(i, k)) =>
        /\ k \in DOMAIN reponses /\ reponses[k] = "None"
        /\ waiter[k].at \in {"start", "check", "sleep"}
        /\ waiter[k].at # "start" => waiter[k].token = k

EmptyResult == InPeace /\ listType = None /\ Live = {} => result = <<>>

\* The result of the list that is gathered: the items that the server sent and that are not in back, where
\* they stand just before their end
Rest(k, a, m) ==
    /\ m < a
    /\ \A i \in Int : ItemAt(i, k) <=> i \in (a - m)..(a - 1)
    /\ result = [i \in 1..(items[k] - m) |-> k]

Gathers(k) ==
    /\ waiter[k].at \in {"check", "sleep"} => waiter[k].token = k
    /\ (\E i : ListAt(i, k)) => result = <<>>
    /\ \A a : AckAt(a, k) => \E m \in 0..items[k] : Rest(k, a, m)
    /\ Acked(k) \/ waiter[k].hr = "S_OK" => Over(k) /\ result = [i \in 1..items[k] |-> k]

Gathering == \A k \in Live \ raced : Gathers(k)

Delivered ==
    \A k \in Calls \ raced :
        delivered[k].hr = "S_OK" =>
            /\ Over(k)
            /\ delivered[k].type = waiter[k].type
            /\ delivered[k].items = [i \in 1..items[k] |-> k]

LInv == ListTypeOK /\ Bounds /\ Messages /\ OneList /\ Awaited /\ EmptyResult /\ Gathering /\ Delivered

--------------------------------------------------------------------------------
\* What becomes of messages

LEMMA Constants ==
  /\ MaxLists \in Nat /\ MaxConnects \in Nat /\ \A n \in Lengths : n \in Nat
  /\ None \notin Types
BY ListConstants

LEMMA WireStays ==
  ASSUME UNCHANGED wire
  PROVE  \A i, k : ListAt(i, k)' <=> ListAt(i, k)
BY DEF ListAt

LEMMA BackStays ==
  ASSUME UNCHANGED back
  PROVE  \A i, k : (ItemAt(i, k)' <=> ItemAt(i, k)) /\ (AckAt(i, k)' <=> AckAt(i, k))
BY DEF ItemAt, AckAt

LEMMA WireAppend ==
  ASSUME wire \in Seq(Request), NEW msg \in Request, wire' = Append(wire, msg)
  PROVE  /\ wire' \in Seq(Request)
         /\ \A i, k : ListAt(i, k)' <=> ListAt(i, k) \/ (i = Len(wire) + 1 /\ msg.cmd = "List" /\ msg.token = k)
<1>1. /\ Len(wire) \in Nat /\ Len(wire') = Len(wire) + 1
      /\ \A i \in 1..Len(wire) : wire'[i] = wire[i]
      /\ wire'[Len(wire) + 1] = msg
  OBVIOUS
<1>2. \A i : i \in 1..Len(wire') <=> i \in 1..Len(wire) \/ i = Len(wire) + 1
  BY <1>1
<1>3. \A i \in 1..Len(wire) : i # Len(wire) + 1
  BY <1>1
<1>. QED  BY <1>1, <1>2, <1>3 DEF ListAt

LEMMA WireTail ==
  ASSUME wire \in Seq(Request), wire # <<>>, wire' = Tail(wire)
  PROVE  /\ wire' \in Seq(Request) /\ Head(wire) \in Request
         /\ \A i, k : ListAt(i, k)' <=> i \in Nat \ {0} /\ ListAt(i + 1, k)
         /\ \A k : ListAt(1, k) <=> Head(wire).cmd = "List" /\ Head(wire).token = k
<1>1. /\ Len(wire) \in Nat \ {0} /\ Len(wire') = Len(wire) - 1
      /\ \A i \in 1..(Len(wire) - 1) : wire'[i] = wire[i + 1]
      /\ Head(wire) = wire[1] /\ 1 \in 1..Len(wire)
  OBVIOUS
<1>2. \A i : i \in 1..Len(wire') <=> i \in Nat \ {0} /\ i + 1 \in 1..Len(wire)
  BY <1>1
<1>3. \A i \in 1..Len(wire') : wire'[i] = wire[i + 1]
  BY <1>1
<1>4. wire' \in Seq(Request) /\ Head(wire) \in Request
  BY <1>1
<1>. QED  BY <1>1, <1>2, <1>3, <1>4 DEF ListAt

LEMMA BackTail ==
  ASSUME back \in Seq(Message), back # <<>>, back' = Tail(back)
  PROVE  /\ back' \in Seq(Message) /\ Head(back) \in Message
         /\ \A i, k : ItemAt(i, k)' <=> i \in Nat \ {0} /\ ItemAt(i + 1, k)
         /\ \A i, k : AckAt(i, k)' <=> i \in Nat \ {0} /\ AckAt(i + 1, k)
         /\ \A k : ItemAt(1, k) <=> Head(back).cmd = "Item" /\ Head(back).token = k
         /\ \A k : AckAt(1, k) <=> Head(back).cmd = "Ack" /\ Head(back).token = k
<1>1. /\ Len(back) \in Nat \ {0} /\ Len(back') = Len(back) - 1
      /\ \A i \in 1..(Len(back) - 1) : back'[i] = back[i + 1]
      /\ Head(back) = back[1] /\ 1 \in 1..Len(back)
  OBVIOUS
<1>2. \A i : i \in 1..Len(back') <=> i \in Nat \ {0} /\ i + 1 \in 1..Len(back)
  BY <1>1
<1>3. \A i \in 1..Len(back') : back'[i] = back[i + 1]
  BY <1>1
<1>4. back' \in Seq(Message) /\ Head(back) \in Message
  BY <1>1
<1>. QED  BY <1>1, <1>2, <1>3, <1>4 DEF ItemAt, AckAt

LEMMA Concatenation ==
  ASSUME NEW M, NEW s \in Seq(M), NEW e \in M
  PROVE  /\ s \o <<e>> \in Seq(M) /\ Len(s \o <<e>>) = Len(s) + 1
         /\ \A i \in 1..Len(s) : (s \o <<e>>)[i] = s[i]
         /\ (s \o <<e>>)[Len(s) + 1] = e
<1>1. s \o <<e>> = Append(s, e)
  OBVIOUS
<1>. QED  BY <1>1

LEMMA BackAppend ==
  ASSUME back \in Seq(Message), NEW msg \in Message, msg.cmd = "Connect", back' = Append(back, msg)
  PROVE  /\ back' \in Seq(Message)
         /\ \A i, k : (ItemAt(i, k)' <=> ItemAt(i, k)) /\ (AckAt(i, k)' <=> AckAt(i, k))
<1>1. /\ Len(back) \in Nat /\ Len(back') = Len(back) + 1
      /\ \A i \in 1..Len(back) : back'[i] = back[i]
      /\ back'[Len(back) + 1] = msg
  OBVIOUS
<1>2. \A i : i \in 1..Len(back') <=> i \in 1..Len(back) \/ i = Len(back) + 1
  BY <1>1
<1>3. \A i \in 1..Len(back) : i # Len(back) + 1
  BY <1>1
<1>. QED  BY <1>1, <1>2, <1>3 DEF ItemAt, AckAt

\* A list that is served: its items, and its end
LEMMA BackList ==
  ASSUME back \in Seq(Message), NEW n \in Nat, NEW t \in Nat,
         back' = back \o [i \in 1..n |-> [cmd |-> "Item", token |-> t]] \o <<[cmd |-> "Ack", token |-> t]>>
  PROVE  /\ back' \in Seq(Message) /\ Len(back) \in Nat
         /\ \A i, k : ItemAt(i, k)' <=> ItemAt(i, k) \/ (k = t /\ i \in (Len(back) + 1)..(Len(back) + n))
         /\ \A i, k : AckAt(i, k)' <=> AckAt(i, k) \/ (k = t /\ i = Len(back) + n + 1)
<1>1. PICK item : item = [cmd |-> "Item", token |-> t]
  OBVIOUS
<1>2. PICK ack : ack = [cmd |-> "Ack", token |-> t]
  OBVIOUS
<1>3. PICK itemsSent : itemsSent = [i \in 1..n |-> item]
  OBVIOUS
<1>4. /\ item \in Message /\ item.cmd = "Item" /\ item.token = t
      /\ ack \in Message /\ ack.cmd = "Ack" /\ ack.token = t
  BY <1>1, <1>2 DEF Message
<1>5. itemsSent \in Seq(Message) /\ Len(itemsSent) = n /\ \A i \in 1..n : itemsSent[i] = item
  BY <1>3, <1>4
<1>6. back' = back \o itemsSent \o <<ack>>
  BY <1>1, <1>2, <1>3
<1>7. PICK mid : mid = back \o itemsSent
  OBVIOUS
<1>8. /\ mid \in Seq(Message) /\ Len(back) \in Nat /\ Len(mid) = Len(back) + n
      /\ \A i \in 1..Len(back) : mid[i] = back[i]
      /\ \A i \in (Len(back) + 1)..(Len(back) + n) : mid[i] = itemsSent[i - Len(back)]
  <2>1. mid \in Seq(Message) /\ Len(back) \in Nat /\ Len(mid) = Len(back) + Len(itemsSent)
    BY <1>5, <1>7
  <2>2. \A i \in 1..Len(back) : mid[i] = back[i]
    BY <1>5, <1>7
  <2>3. \A i \in (Len(back) + 1)..(Len(back) + Len(itemsSent)) : mid[i] = itemsSent[i - Len(back)]
    BY <1>5, <1>7
  <2>. QED  BY <1>5, <2>1, <2>2, <2>3
<1>9. /\ back' \in Seq(Message) /\ Len(back') = Len(back) + n + 1
      /\ \A i \in 1..(Len(back) + n) : back'[i] = mid[i]
      /\ back'[Len(back) + n + 1] = ack
  <2>1. mid \in Seq(Message) /\ Len(mid) \in Nat
    BY <1>8
  <2>2. back' = mid \o <<ack>>
    BY <1>6, <1>7
  <2>3. /\ mid \o <<ack>> \in Seq(Message) /\ Len(mid \o <<ack>>) = Len(mid) + 1
        /\ \A i \in 1..Len(mid) : (mid \o <<ack>>)[i] = mid[i]
        /\ (mid \o <<ack>>)[Len(mid) + 1] = ack
    BY <1>4, <2>1, Concatenation
  <2>4. /\ back' \in Seq(Message) /\ Len(back') = Len(mid) + 1
        /\ \A i \in 1..Len(mid) : back'[i] = mid[i]
        /\ back'[Len(mid) + 1] = ack
    BY Zenon, <2>2, <2>3
  <2>. QED  BY <1>8, <2>4
<1>10. \A i : i \in 1..Len(back') <=> \/ i \in 1..Len(back)
                                      \/ i \in (Len(back) + 1)..(Len(back) + n)
                                      \/ i = Len(back) + n + 1
  BY <1>8, <1>9
<1>11. \A i \in 1..Len(back) : back'[i] = back[i]
  BY <1>8, <1>9
<1>12. \A i \in (Len(back) + 1)..(Len(back) + n) : back'[i] = item
  <2>1. ASSUME NEW i \in (Len(back) + 1)..(Len(back) + n)
        PROVE  back'[i] = item
    <3>1. i - Len(back) \in 1..n /\ i \in 1..(Len(back) + n)
      BY <1>8
    <3>. QED  BY <1>5, <1>8, <1>9, <3>1
  <2>. QED  BY <2>1
<1>. QED  BY <1>4, <1>8, <1>9, <1>10, <1>11, <1>12 DEF ItemAt, AckAt

--------------------------------------------------------------------------------
\* The kinds of steps, for messages

SameWire == \A i, k : ListAt(i, k)' <=> ListAt(i, k)
SameBack == \A i, k : (ItemAt(i, k)' <=> ItemAt(i, k)) /\ (AckAt(i, k)' <=> AckAt(i, k))
NextWire == \A i, k : ListAt(i, k)' <=> i \in Nat \ {0} /\ ListAt(i + 1, k)
NextBack == \A i, k : /\ ItemAt(i, k)' <=> i \in Nat \ {0} /\ ItemAt(i + 1, k)
                      /\ AckAt(i, k)'  <=> i \in Nat \ {0} /\ AckAt(i + 1, k)
NoAnswer == \A k : Acked(k)' => Acked(k)

Quiet   == SameWire /\ SameBack /\ NoAnswer /\ UNCHANGED items
Passed  == NextWire /\ SameBack /\ NoAnswer /\ UNCHANGED items
Sent(n) ==
    /\ n = nextCmdToken /\ n \in Calls
    /\ \A i, k : ListAt(i, k)' <=> ListAt(i, k) \/ (i = Len(wire) + 1 /\ k = n)
    /\ SameBack /\ NoAnswer /\ ~Acked(n)' /\ UNCHANGED items
Served(t, n) ==
    /\ ListAt(1, t) /\ n \in Nat /\ NextWire /\ NoAnswer
    /\ \A i, k : ItemAt(i, k)' <=> ItemAt(i, k) \/ (k = t /\ i \in (Len(back) + 1)..(Len(back) + n))
    /\ \A i, k : AckAt(i, k)' <=> AckAt(i, k) \/ (k = t /\ i = Len(back) + n + 1)
    /\ items' = [items EXCEPT ![t] = n]
Received ==
    /\ SameWire /\ NextBack /\ UNCHANGED items
    /\ \A k : Acked(k)' => Acked(k) \/ AckAt(1, k)

LEMMA SendingIs ==
  ASSUME ListTypeOK, Bounds, NEW t \in Threads, StartList(t)
  PROVE  \E n \in Calls :
           /\ n = nextCmdToken /\ nextCmdToken' = n + 1 /\ nextCmdToken' \in 1..(MaxLists + 1)
           /\ ~Given(n) /\ \A k : Given(k)' <=> Given(k) \/ k = n
           /\ \/ /\ status = "Connected"
                 /\ Sent(n) /\ wire' \in Seq(Request)
                 /\ DOMAIN reponses' = DOMAIN reponses \cup {n}
                 /\ \A k \in DOMAIN reponses : reponses'[k] = reponses[k]
                 /\ reponses'[n] = "None"
                 /\ waiter' = [waiter EXCEPT ![n] = [NoWaiter EXCEPT !.at = "start", !.type = caller[t]]]
              \/ Quiet /\ UNCHANGED <<wire, reponses, waiter>>
<1>. PICK n : n = nextCmdToken
  OBVIOUS
<1>1. /\ n \in Calls /\ nextCmdToken' = n + 1 /\ n \in Nat /\ nextCmdToken' \in 1..(MaxLists + 1)
      /\ UNCHANGED <<back, items>>
  BY Constants DEF StartList, ListTypeOK, Calls
<1>2. ~Given(n) /\ \A k : Given(k)' <=> Given(k) \/ k = n
  BY <1>1 DEF Given, Calls
<1>3. SameBack
  BY <1>1, BackStays DEF SameBack
<1>4. CASE UNCHANGED <<wire, reponses, waiter>>
  <2>1. SameWire
    BY <1>4, WireStays DEF SameWire
  <2>2. NoAnswer
    BY <1>4 DEF NoAnswer, Acked
  <2>. QED  BY <1>1, <1>2, <1>3, <1>4, <2>1, <2>2 DEF Quiet
<1>5. CASE /\ status = "Connected"
           /\ wire' = Append(wire, [cmd |-> "List", token |-> nextCmdToken])
           /\ reponses' = [k \in DOMAIN reponses \cup {nextCmdToken} |->
                             IF k = nextCmdToken THEN "None" ELSE reponses[k]]
           /\ waiter' = [waiter EXCEPT ![nextCmdToken] = [NoWaiter EXCEPT !.at = "start", !.type = caller[t]]]
  <2>1. PICK msg : msg = [cmd |-> "List", token |-> n]
    OBVIOUS
  <2>2. msg \in Request /\ msg.cmd = "List" /\ msg.token = n /\ wire' = Append(wire, msg)
    BY <1>1, <1>5, <2>1 DEF Request
  <2>3. /\ wire' \in Seq(Request)
        /\ \A i, k : ListAt(i, k)' <=> ListAt(i, k) \/ (i = Len(wire) + 1 /\ n = k)
    BY <2>2, WireAppend DEF ListTypeOK
  <2>4. n \notin DOMAIN reponses
    BY <1>2 DEF Bounds
  <2>5. /\ DOMAIN reponses' = DOMAIN reponses \cup {n}
        /\ \A k \in DOMAIN reponses : reponses'[k] = reponses[k]
        /\ reponses'[n] = "None"
    BY <1>5, <2>4
  <2>6. ~Acked(n)'
    BY <2>5 DEF Acked
  <2>7. NoAnswer
    <3>1. ASSUME NEW k, Acked(k)'
          PROVE  Acked(k)
      BY <2>5, <2>6, <3>1 DEF Acked
    <3>. QED  BY <3>1 DEF NoAnswer
  <2>. QED  BY <1>1, <1>2, <1>3, <1>5, <2>3, <2>5, <2>6, <2>7 DEF Sent
<1>. QED  BY <1>4, <1>5 DEF StartList

LEMMA ServingIs ==
  ASSUME ListTypeOK, Bounds, Serve
  PROVE  /\ wire' \in Seq(Request) /\ back' \in Seq(Message) /\ items' \in [Calls -> Nat]
         /\ Passed \/ \E t \in Calls, n \in Nat : Served(t, n)
<1>1. wire # <<>> /\ wire' = Tail(wire) /\ UNCHANGED reponses
  BY DEF Serve
<1>2. PICK msg : msg = Head(wire)
  OBVIOUS
<1>3. /\ wire' \in Seq(Request) /\ msg \in Request /\ NextWire
      /\ \A k : ListAt(1, k) <=> msg.cmd = "List" /\ msg.token = k
  BY <1>1, <1>2, WireTail DEF ListTypeOK, NextWire
<1>4. NoAnswer
  BY <1>1 DEF NoAnswer, Acked
<1>5. CASE msg.cmd = "Connect" /\ known' = TRUE /\ back' = Append(back, msg) /\ UNCHANGED items
  <2>1. msg \in Message
    BY <1>3, <1>5 DEF Request, Message
  <2>2. back' \in Seq(Message) /\ SameBack
    BY <1>5, <2>1, BackAppend DEF ListTypeOK, SameBack
  <2>4. items' \in [Calls -> Nat] /\ UNCHANGED items
    BY <1>5 DEF ListTypeOK
  <2>. QED  BY <1>3, <1>4, <2>2, <2>4 DEF Passed
<1>6. CASE UNCHANGED <<back, items>>
  <2>1. SameBack
    BY <1>6, BackStays DEF SameBack
  <2>2. back' \in Seq(Message) /\ items' \in [Calls -> Nat] /\ UNCHANGED items
    BY <1>6 DEF ListTypeOK
  <2>. QED  BY <1>3, <1>4, <1>6, <2>1, <2>2 DEF Passed
<1>7. ASSUME msg.cmd = "List", NEW n \in Lengths,
             items' = [items EXCEPT ![msg.token] = n],
             back' = back \o [i \in 1..n |-> [cmd |-> "Item", token |-> msg.token]]
                          \o <<[cmd |-> "Ack", token |-> msg.token]>>
      PROVE  /\ back' \in Seq(Message) /\ items' \in [Calls -> Nat]
             /\ \E t \in Calls : Served(t, n)
  <2>1. n \in Nat /\ msg.token \in Nat /\ ListAt(1, msg.token)
    BY <1>3, <1>7, Constants DEF Request
  <2>2. msg.token \in Calls
    BY <2>1 DEF Bounds, Given
  <2>3. /\ back' \in Seq(Message)
        /\ \A i, k : ItemAt(i, k)' <=> ItemAt(i, k) \/ (k = msg.token /\ i \in (Len(back) + 1)..(Len(back) + n))
        /\ \A i, k : AckAt(i, k)' <=> AckAt(i, k) \/ (k = msg.token /\ i = Len(back) + n + 1)
    BY <1>7, <2>1, BackList DEF ListTypeOK
  <2>4. items' \in [Calls -> Nat]
    BY <1>7, <2>1 DEF ListTypeOK
  <2>5. Served(msg.token, n)
    BY <1>3, <1>4, <1>7, <2>1, <2>3 DEF Served
  <2>. QED  BY <2>2, <2>3, <2>4, <2>5
<1>8. msg.cmd \in {"Connect", "Disconnect", "List"}
  BY <1>3 DEF Request
<1>9. CASE msg.cmd = "Connect"
  BY <1>2, <1>3, <1>5, <1>9 DEF Serve
<1>10. CASE msg.cmd = "Disconnect"
  <2>1. UNCHANGED <<back, items>>
    BY <1>2, <1>10 DEF Serve
  <2>. QED  BY <1>3, <1>6, <2>1
<1>11. CASE msg.cmd = "List"
  <2>1. \/ UNCHANGED <<back, items>>
        \/ \E n \in Lengths :
              /\ items' = [items EXCEPT ![msg.token] = n]
              /\ back' = back \o [i \in 1..n |-> [cmd |-> "Item", token |-> msg.token]]
                              \o <<[cmd |-> "Ack", token |-> msg.token]>>
    BY <1>2, <1>11 DEF Serve
  <2>. QED  BY <1>3, <1>6, <1>7, <1>11, <2>1, Constants
<1>. QED  BY <1>8, <1>9, <1>10, <1>11

LEMMA ReceivingIs ==
  ASSUME ListTypeOK, Bounds, Receive
  PROVE  back' \in Seq(Message) /\ Received
<1>1. back # <<>> /\ back' = Tail(back) /\ UNCHANGED <<wire, items>>
  BY DEF Receive, history
<1>2. PICK msg : msg = Head(back)
  OBVIOUS
<1>3. /\ back' \in Seq(Message) /\ msg \in Message /\ NextBack
      /\ \A k : AckAt(1, k) <=> msg.cmd = "Ack" /\ msg.token = k
  BY <1>1, <1>2, BackTail DEF ListTypeOK, NextBack
<1>4. SameWire
  BY <1>1, WireStays DEF SameWire
<1>5. \A k : Acked(k)' => Acked(k) \/ AckAt(1, k)
  <2>1. CASE UNCHANGED reponses
    BY <2>1 DEF Acked
  <2>2. CASE msg.cmd = "Ack" /\ msg.token \in DOMAIN reponses /\ reponses' = [reponses EXCEPT ![msg.token] = "Ack"]
    BY <1>3, <2>2 DEF Acked
  <2>. QED  BY <1>2, <2>1, <2>2 DEF Receive
<1>. QED  BY <1>1, <1>3, <1>4, <1>5 DEF Received

\* A step which sends no list, and neither serves nor receives anything
LEMMA QuietIs ==
  ASSUME ListTypeOK, Bounds,
         \/ \E t \in Threads, type \in Types : CheckPending(t, type)
         \/ \E k \in Calls : WaitListRequestEnd(k)
         \/ Lapse \/ ConnectServer \/ AwaitServer \/ ResetPending \/ DisconnectServer
  PROVE  Quiet /\ wire' \in Seq(Request) /\ UNCHANGED <<back, nextCmdToken>>
<1>1. UNCHANGED <<back, items, nextCmdToken>>
  BY DEF CheckPending, WaitListRequestEnd, StartWaiting, Check, Callback, EndWaiting, Lapse, ConnectServer,
         AwaitServer, ResetPending, DisconnectServer, history
<1>2. SameBack
  BY <1>1, BackStays DEF SameBack
<1>3. wire' \in Seq(Request) /\ SameWire
  <2>1. CASE UNCHANGED wire
    BY <2>1, WireStays DEF SameWire, ListTypeOK
  <2>2. ASSUME NEW msg \in Request, msg.cmd # "List", wire' = Append(wire, msg)
        PROVE  wire' \in Seq(Request) /\ SameWire
    BY <2>2, WireAppend DEF SameWire, ListTypeOK
  <2>3. \A cmd \in {"Connect", "Disconnect"} :
          [cmd |-> cmd, token |-> 0] \in Request /\ [cmd |-> cmd, token |-> 0].cmd # "List"
    BY DEF Request
  <2>4. \/ UNCHANGED wire
        \/ wire' = Append(wire, [cmd |-> "Connect", token |-> 0])
        \/ wire' = Append(wire, [cmd |-> "Disconnect", token |-> 0])
    BY DEF CheckPending, WaitListRequestEnd, StartWaiting, Check, Callback, EndWaiting, Lapse, ConnectServer,
           AwaitServer, ResetPending, DisconnectServer
  <2>. QED  BY <2>1, <2>2, <2>3, <2>4
<1>4. NoAnswer
  <2>1. CASE UNCHANGED reponses
    BY <2>1 DEF NoAnswer, Acked
  <2>2. CASE reponses' = [k \in {} |-> "None"]
    BY <2>2 DEF NoAnswer, Acked
  <2>3. CASE \E k \in Calls : reponses' = Without(reponses, waiter[k].token)
    BY <2>3 DEF NoAnswer, Acked, Without
  <2>4. \/ UNCHANGED reponses
        \/ reponses' = [k \in {} |-> "None"]
        \/ \E k \in Calls : reponses' = Without(reponses, waiter[k].token)
    BY DEF CheckPending, WaitListRequestEnd, StartWaiting, Check, Callback, EndWaiting, Lapse, ConnectServer,
           AwaitServer, ResetPending, DisconnectServer
  <2>. QED  BY <2>1, <2>2, <2>3, <2>4
<1>. QED  BY <1>1, <1>2, <1>3, <1>4 DEF Quiet

LEMMA Kinds ==
  ASSUME ListTypeOK, Bounds, Next
  PROVE  /\ wire' \in Seq(Request) /\ back' \in Seq(Message)
         /\ nextCmdToken' \in 1..(MaxLists + 1) /\ items' \in [Calls -> Nat]
         /\ \A k : Given(k) => Given(k)'
         /\ \/ Quiet \/ Passed \/ Received
            \/ \E n \in Calls : Sent(n) /\ ~Given(n) /\ Given(n)'
            \/ \E t \in Calls, n \in Nat : Served(t, n)
<1>1. ASSUME NEW t \in Threads, StartList(t)
      PROVE  /\ wire' \in Seq(Request) /\ back' \in Seq(Message)
             /\ nextCmdToken' \in 1..(MaxLists + 1) /\ items' \in [Calls -> Nat]
             /\ \A k : Given(k) => Given(k)'
             /\ Quiet \/ \E n \in Calls : Sent(n) /\ ~Given(n) /\ Given(n)'
  <2>1. UNCHANGED <<back, items>>
    BY <1>1 DEF StartList
  <2>2. PICK n \in Calls :
           /\ n = nextCmdToken /\ nextCmdToken' = n + 1 /\ nextCmdToken' \in 1..(MaxLists + 1)
           /\ ~Given(n) /\ \A k : Given(k)' <=> Given(k) \/ k = n
           /\ \/ Sent(n) /\ wire' \in Seq(Request)
              \/ Quiet /\ UNCHANGED <<wire, reponses, waiter>>
    BY <1>1, SendingIs
  <2>3. \A k : Given(k) => Given(k)'
    BY <2>2
  <2>4. Given(n)'
    BY <2>2
  <2>. QED  BY <2>1, <2>2, <2>3, <2>4 DEF ListTypeOK
<1>2. CASE \/ \E t \in Threads, type \in Types : CheckPending(t, type)
           \/ \E k \in Calls : WaitListRequestEnd(k)
           \/ Lapse \/ ConnectServer \/ AwaitServer \/ ResetPending \/ DisconnectServer
  <2>1. Quiet /\ wire' \in Seq(Request) /\ UNCHANGED <<back, nextCmdToken>>
    BY <1>2, QuietIs
  <2>. QED  BY <2>1 DEF ListTypeOK, Given, Quiet
<1>3. CASE Serve
  <2>1. UNCHANGED nextCmdToken
    BY <1>3 DEF Serve
  <2>. QED  BY <1>3, <2>1, ServingIs DEF ListTypeOK, Given
<1>4. CASE Receive
  <2>1. UNCHANGED <<wire, items, nextCmdToken>>
    BY <1>4 DEF Receive, history
  <2>. QED  BY <1>4, <2>1, ReceivingIs DEF ListTypeOK, Given
<1>. QED  BY <1>1, <1>2, <1>3, <1>4 DEF Next

\* Nothing comes any more for a list for which nothing is under way.
LEMMA StaysOver ==
  ASSUME ListTypeOK, Bounds, Next, NEW k, Given(k), Over(k)
  PROVE  Over(k)' /\ items'[k] = items[k]
<1>1. ASSUME NEW n \in Calls, Sent(n), ~Given(n)
      PROVE  Over(k)' /\ items'[k] = items[k]
  BY <1>1 DEF Sent, SameBack, Over
<1>2. ASSUME NEW t \in Calls, NEW n \in Nat, Served(t, n)
      PROVE  Over(k)' /\ items'[k] = items[k]
  <2>1. t # k
    BY <1>2 DEF Served, Over
  <2>. QED  BY <1>2, <2>1 DEF Served, NextWire, Over, ListTypeOK, Given
<1>3. CASE Quiet
  BY <1>3 DEF Quiet, SameWire, SameBack, Over
<1>4. CASE Passed
  BY <1>4 DEF Passed, NextWire, SameBack, Over
<1>5. CASE Received
  BY <1>5 DEF Received, SameWire, NextBack, Over
<1>. QED  BY <1>1, <1>2, <1>3, <1>4, <1>5, Kinds

LEMMA MessagesStep ==
  ASSUME ListTypeOK, Bounds, Messages, Next
  PROVE  Messages'
<1>1. ASSUME NEW n \in Calls, Sent(n), ~Given(n)
      PROVE  Messages'
  <2>0. \A i : ~ListAt(i, n) /\ ~ItemAt(i, n) /\ ~AckAt(i, n)
    BY <1>1 DEF Bounds
  <2>1. \A i, k : /\ ListAt(i, k)' => ListAt(i, k) \/ (i = Len(wire) + 1 /\ k = n)
                  /\ (ItemAt(i, k)' <=> ItemAt(i, k)) /\ (AckAt(i, k)' <=> AckAt(i, k))
                  /\ (Acked(k)' => Acked(k)) /\ ~Acked(n)'
    BY <1>1 DEF Sent, SameBack, NoAnswer
  <2>2. \A i, j, k : ListAt(i, k)' /\ ListAt(j, k)' => i = j
    BY <2>0, <2>1 DEF Messages
  <2>3. \A i, j, k : ListAt(i, k)' => ~ItemAt(j, k)' /\ ~AckAt(j, k)'
    BY <2>0, <2>1 DEF Messages
  <2>4. \A i, k : ListAt(i, k)' => ~Acked(k)'
    BY <2>1 DEF Messages
  <2>5. \A a, j, k : AckAt(a, k)' /\ (ItemAt(j, k)' \/ AckAt(j, k)') => j <= a
    BY <2>1 DEF Messages
  <2>6. ASSUME NEW k, Acked(k)'
        PROVE  Over(k)'
    <3>1. k # n /\ Over(k)
      BY <2>1, <2>6 DEF Messages
    <3>. QED  BY <2>1, <3>1 DEF Over
  <2>. QED  BY <2>2, <2>3, <2>4, <2>5, <2>6 DEF Messages
<1>2. ASSUME NEW t \in Calls, NEW n \in Nat, Served(t, n)
      PROVE  Messages'
  <2>0. ListAt(1, t) /\ Len(back) \in Nat /\ ~Acked(t) /\ \A j : ~ItemAt(j, t) /\ ~AckAt(j, t)
    <3>1. ListAt(1, t)
      BY <1>2 DEF Served
    <3>2. ~Acked(t) /\ \A j : ~ItemAt(j, t) /\ ~AckAt(j, t)
      BY <3>1 DEF Messages
    <3>3. Len(back) \in Nat
      BY DEF ListTypeOK
    <3>. QED  BY <3>1, <3>2, <3>3
  <2>1. \A i, k : /\ ListAt(i, k)' => i \in Nat \ {0} /\ ListAt(i + 1, k)
                  /\ ItemAt(i, k)' => ItemAt(i, k) \/ (k = t /\ i \in (Len(back) + 1)..(Len(back) + n))
                  /\ AckAt(i, k)' => AckAt(i, k) \/ (k = t /\ i = Len(back) + n + 1)
                  /\ Acked(k)' => Acked(k)
    BY <1>2 DEF Served, NextWire, NoAnswer
  <2>2. \A i : ~ListAt(i, t)'
    <3>1. ASSUME NEW i, ListAt(i, t)'
          PROVE  FALSE
      <4>1. i \in Nat \ {0} /\ i + 1 = 1
        BY <2>0, <2>1, <3>1 DEF Messages
      <4>. QED  BY <4>1
    <3>. QED  BY <3>1
  <2>3. \A i, j, k : ListAt(i, k)' /\ ListAt(j, k)' => i = j
    <3>1. ASSUME NEW i, NEW j, NEW k, ListAt(i, k)', ListAt(j, k)'
          PROVE  i = j
      <4>1. i \in Nat /\ j \in Nat /\ i + 1 = j + 1
        BY <2>1, <3>1 DEF Messages
      <4>. QED  BY <4>1
    <3>. QED  BY <3>1
  <2>4. \A i, j, k : ListAt(i, k)' => ~ItemAt(j, k)' /\ ~AckAt(j, k)'
    BY <2>1, <2>2 DEF Messages
  <2>5. \A i, k : ListAt(i, k)' => ~Acked(k)'
    BY <2>1 DEF Messages
  <2>6. \A a, j, k : AckAt(a, k)' /\ (ItemAt(j, k)' \/ AckAt(j, k)') => j <= a
    <3>1. ASSUME NEW a, NEW j, AckAt(a, t)', ItemAt(j, t)' \/ AckAt(j, t)'
          PROVE  j <= a
      <4>1. a = Len(back) + n + 1 /\ (j \in (Len(back) + 1)..(Len(back) + n) \/ j = Len(back) + n + 1)
        BY <2>0, <2>1, <3>1
      <4>. QED  BY <2>0, <4>1
    <3>2. ASSUME NEW a, NEW j, NEW k, k # t, AckAt(a, k)', ItemAt(j, k)' \/ AckAt(j, k)'
          PROVE  j <= a
      BY <2>1, <3>2 DEF Messages
    <3>. QED  BY <3>1, <3>2
  <2>7. ASSUME NEW k, Acked(k)'
        PROVE  Over(k)'
    <3>1. k # t /\ Over(k)
      BY <2>0, <2>1, <2>7 DEF Messages
    <3>. QED  BY <2>1, <3>1 DEF Over
  <2>. QED  BY <2>3, <2>4, <2>5, <2>6, <2>7 DEF Messages
<1>3. CASE Quiet
  <2>1. \A i, k : /\ (ListAt(i, k)' <=> ListAt(i, k))
                  /\ (ItemAt(i, k)' <=> ItemAt(i, k)) /\ (AckAt(i, k)' <=> AckAt(i, k))
                  /\ (Acked(k)' => Acked(k))
    BY <1>3 DEF Quiet, SameWire, SameBack, NoAnswer
  <2>2. \A k : Over(k) => Over(k)'
    BY <2>1 DEF Over
  <2>. QED  BY <2>1, <2>2 DEF Messages
<1>4. CASE Passed
  <2>1. \A i, k : /\ (ListAt(i, k)' => i \in Nat \ {0} /\ ListAt(i + 1, k))
                  /\ (ItemAt(i, k)' <=> ItemAt(i, k)) /\ (AckAt(i, k)' <=> AckAt(i, k))
                  /\ (Acked(k)' => Acked(k))
    BY <1>4 DEF Passed, NextWire, SameBack, NoAnswer
  <2>2. \A k : Over(k) => Over(k)'
    BY <2>1 DEF Over
  <2>3. \A i, j, k : ListAt(i, k)' /\ ListAt(j, k)' => i = j
    <3>1. ASSUME NEW i, NEW j, NEW k, ListAt(i, k)', ListAt(j, k)'
          PROVE  i = j
      <4>1. i \in Nat /\ j \in Nat /\ i + 1 = j + 1
        BY <2>1, <3>1 DEF Messages
      <4>. QED  BY <4>1
    <3>. QED  BY <3>1
  <2>4. \A i, j, k : ListAt(i, k)' => ~ItemAt(j, k)' /\ ~AckAt(j, k)' /\ ~Acked(k)'
    BY <2>1 DEF Messages
  <2>. QED  BY <2>1, <2>2, <2>3, <2>4 DEF Messages
<1>5. CASE Received
  <2>1. \A i, k : /\ (ListAt(i, k)' <=> ListAt(i, k))
                  /\ (ItemAt(i, k)' => i \in Nat \ {0} /\ ItemAt(i + 1, k))
                  /\ (AckAt(i, k)' => i \in Nat \ {0} /\ AckAt(i + 1, k))
                  /\ (Acked(k)' => Acked(k) \/ AckAt(1, k))
    BY <1>5 DEF Received, SameWire, NextBack
  <2>2. \A i, j, k : ListAt(i, k)' => ~ItemAt(j, k)' /\ ~AckAt(j, k)' /\ ~Acked(k)'
    <3>1. ASSUME NEW i, NEW k, ListAt(i, k)'
          PROVE  ~Acked(k)' /\ \A j : ~ItemAt(j, k)' /\ ~AckAt(j, k)'
      <4>1. ListAt(i, k)
        BY <2>1, <3>1
      <4>2. ~Acked(k) /\ \A j : ~ItemAt(j, k) /\ ~AckAt(j, k)
        BY <4>1 DEF Messages
      <4>. QED  BY <2>1, <4>2
    <3>. QED  BY <3>1
  <2>3. \A a, j, k : AckAt(a, k)' /\ (ItemAt(j, k)' \/ AckAt(j, k)') => j <= a
    <3>1. ASSUME NEW a, NEW j, NEW k, AckAt(a, k)', ItemAt(j, k)' \/ AckAt(j, k)'
          PROVE  j <= a
      <4>1. a \in Nat /\ j \in Nat /\ j + 1 <= a + 1
        BY <2>1, <3>1 DEF Messages
      <4>. QED  BY <4>1
    <3>. QED  BY <3>1
  <2>4. ASSUME NEW k, Acked(k)'
        PROVE  Over(k)'
    <3>1. CASE Acked(k)
      BY <2>1, <3>1 DEF Messages, Over
    <3>2. CASE AckAt(1, k)
      <4>1. \A j : ItemAt(j, k) \/ AckAt(j, k) => j <= 1
        BY <3>2 DEF Messages
      <4>2. \A j : ~ListAt(j, k)
        BY <3>2 DEF Messages
      <4>3. ASSUME NEW i, ItemAt(i, k)' \/ AckAt(i, k)'
            PROVE  FALSE
        <5>1. i \in Nat \ {0} /\ i + 1 <= 1
          BY <2>1, <4>1, <4>3
        <5>. QED  BY <5>1
      <4>. QED  BY <2>1, <4>2, <4>3 DEF Over
    <3>. QED  BY <2>1, <2>4, <3>1, <3>2
  <2>5. \A i, j, k : ListAt(i, k)' /\ ListAt(j, k)' => i = j
    BY <2>1 DEF Messages
  <2>. QED  BY <2>2, <2>3, <2>4, <2>5 DEF Messages
<1>. QED  BY <1>1, <1>2, <1>3, <1>4, <1>5, Kinds

--------------------------------------------------------------------------------
\* Types and bounds

\* The thread of one call moves.
LEMMA MoveIs ==
  ASSUME ListTypeOK, NEW k \in Calls, NEW w, Move(k, w)
  PROVE  /\ waiter'[k] = w /\ \A j \in Calls : j # k => waiter'[j] = waiter[j]
         /\ w \in Waiter => waiter' \in [Calls -> Waiter]
BY DEF ListTypeOK, Move

LEMMA WokenIs ==
  ASSUME ListTypeOK, waiter' = waiter \/ waiter' = Woken
  PROVE  /\ waiter' \in [Calls -> Waiter]
         /\ \A k \in Calls : /\ waiter'[k].type = waiter[k].type /\ waiter'[k].token = waiter[k].token
                             /\ waiter'[k].hr = waiter[k].hr
                             /\ waiter'[k].at = waiter[k].at \/ (waiter[k].at = "sleep" /\ waiter'[k].at = "check")
<1>1. CASE waiter' = waiter
  BY <1>1 DEF ListTypeOK
<1>2. CASE waiter' = Woken
  <2>1. ASSUME NEW k \in Calls, waiter[k].at = "sleep"
        PROVE  [waiter[k] EXCEPT !.at = "check"] \in Waiter
    BY DEF ListTypeOK, Waiter, Places
  <2>2. waiter' = [k \in Calls |-> IF waiter[k].at = "sleep" THEN [waiter[k] EXCEPT !.at = "check"] ELSE waiter[k]]
    BY <1>2 DEF Woken
  <2>3. waiter' \in [Calls -> Waiter]
    BY <2>1, <2>2 DEF ListTypeOK
  <2>4. ASSUME NEW k \in Calls
        PROVE  /\ waiter'[k].type = waiter[k].type /\ waiter'[k].token = waiter[k].token
               /\ waiter'[k].hr = waiter[k].hr
               /\ waiter'[k].at = waiter[k].at \/ (waiter[k].at = "sleep" /\ waiter'[k].at = "check")
    <3>1. waiter[k] \in Waiter
      BY DEF ListTypeOK
    <3>2. CASE waiter[k].at = "sleep"
      BY <2>2, <3>1, <3>2 DEF Waiter
    <3>3. CASE waiter[k].at # "sleep"
      BY <2>2, <3>3
    <3>. QED  BY <3>2, <3>3
  <2>. QED  BY <2>3, <2>4
<1>. QED  BY <1>1, <1>2

\* What a thread that waits may do, as the record it becomes
LEMMA ThreadIs ==
  ASSUME ListTypeOK, NEW k \in Calls, WaitListRequestEnd(k)
  PROVE  /\ waiter[k].at \in {"start", "check", "callback", "reset"}
         /\ waiter' \in [Calls -> Waiter]
         /\ \A j \in Calls : j # k => waiter'[j] = waiter[j]
         /\ waiter'[k].type = waiter[k].type
         /\ waiter'[k].at \in {"check", "sleep", "callback", "reset", "done"}
         /\ waiter'[k].at = "done" <=> waiter[k].at = "reset"
         /\ UNCHANGED <<inTime, caller, connVars, wire, back, known, nextCmdToken, items, late, raced>>
<1>0. waiter[k] \in Waiter /\ token \in Nat
  BY DEF ListTypeOK
<1>1. ASSUME NEW w, Move(k, w), w \in Waiter, w.type = waiter[k].type,
             w.at \in {"check", "sleep", "callback", "reset", "done"},
             w.at = "done" <=> waiter[k].at = "reset"
      PROVE  /\ waiter' \in [Calls -> Waiter]
             /\ \A j \in Calls : j # k => waiter'[j] = waiter[j]
             /\ waiter'[k].type = waiter[k].type
             /\ waiter'[k].at \in {"check", "sleep", "callback", "reset", "done"}
             /\ waiter'[k].at = "done" <=> waiter[k].at = "reset"
  BY <1>1, MoveIs
<1>2. CASE StartWaiting(k)
  <2>1. PICK w : w = IF token \in DOMAIN reponses THEN [waiter[k] EXCEPT !.at = "check", !.token = token]
                                                  ELSE [waiter[k] EXCEPT !.at = "callback", !.hr = "E_FAIL"]
    OBVIOUS
  <2>2. w \in Waiter /\ w.type = waiter[k].type /\ w.at \in {"check", "callback"}
    BY <1>0, <2>1 DEF Waiter, Places, Results
  <2>3. Move(k, w) /\ waiter[k].at = "start"
    BY <1>2, <2>1 DEF StartWaiting
  <2>. QED  BY <1>1, <1>2, <2>2, <2>3 DEF StartWaiting, history
<1>3. CASE Check(k)
  <2>1. \A hr \in {"S_OK", "E_FAIL"} : LET w == [waiter[k] EXCEPT !.at = "callback", !.hr = hr] IN
          w \in Waiter /\ w.type = waiter[k].type /\ w.at = "callback"
    BY <1>0 DEF Waiter, Places, Results
  <2>2. LET w == [waiter[k] EXCEPT !.at = "sleep"] IN w \in Waiter /\ w.type = waiter[k].type /\ w.at = "sleep"
    BY <1>0 DEF Waiter, Places, Results
  <2>3. waiter[k].at = "check" /\ \E w : Move(k, w) /\ w \in Waiter /\ w.type = waiter[k].type /\ w.at \in {"callback", "sleep"}
    BY <1>3, <2>1, <2>2 DEF Check
  <2>. QED  BY <1>1, <1>3, <2>3 DEF Check, history
<1>4. CASE Callback(k)
  <2>1. LET w == [waiter[k] EXCEPT !.at = "reset"] IN w \in Waiter /\ w.type = waiter[k].type /\ w.at = "reset"
    BY <1>0 DEF Waiter, Places, Results
  <2>. QED  BY <1>1, <1>4, <2>1 DEF Callback
<1>5. CASE EndWaiting(k)
  <2>1. LET w == [waiter[k] EXCEPT !.at = "done"] IN w \in Waiter /\ w.type = waiter[k].type /\ w.at = "done"
    BY <1>0 DEF Waiter, Places, Results
  <2>. QED  BY <1>1, <1>5, <2>1 DEF EndWaiting, history
<1>. QED  BY <1>2, <1>3, <1>4, <1>5 DEF WaitListRequestEnd

LEMMA TypeStep ==
  ASSUME ListTypeOK, Bounds, Next
  PROVE  ListTypeOK'
<1>0. /\ wire' \in Seq(Request) /\ back' \in Seq(Message)
      /\ nextCmdToken' \in 1..(MaxLists + 1) /\ items' \in [Calls -> Nat]
  BY Kinds
<1>1. ASSUME NEW t \in Threads, NEW type \in Types, CheckPending(t, type)
      PROVE  ListTypeOK'
  BY <1>0, <1>1 DEF CheckPending, ListTypeOK, listVars, connVars, history
<1>2. ASSUME NEW t \in Threads, StartList(t)
      PROVE  ListTypeOK'
  <2>1. PICK n \in Calls :
           /\ n = nextCmdToken
           /\ \/ /\ DOMAIN reponses' = DOMAIN reponses \cup {n}
                 /\ \A k \in DOMAIN reponses : reponses'[k] = reponses[k]
                 /\ reponses'[n] = "None"
                 /\ waiter' = [waiter EXCEPT ![n] = [NoWaiter EXCEPT !.at = "start", !.type = caller[t]]]
              \/ UNCHANGED <<reponses, waiter>>
    BY <1>2, SendingIs
  <2>2. caller[t] \in Types \cup {None}
    BY DEF ListTypeOK
  <2>3. [NoWaiter EXCEPT !.at = "start", !.type = caller[t]] \in Waiter
    BY <2>2 DEF NoWaiter, Waiter, Places, Results
  <2>4. waiter' \in [Calls -> Waiter]
    BY <2>1, <2>3 DEF ListTypeOK
  <2>5. \A k \in DOMAIN reponses' : reponses'[k] \in {"None", "Ack"}
    BY <2>1 DEF ListTypeOK
  <2>6. caller' \in [Threads -> Types \cup {None}] /\ listType' \in Types \cup {None}
    BY <1>2, <2>2 DEF StartList, ListTypeOK
  <2>7. token' \in Nat /\ raced' \subseteq Calls
    BY <1>2, <2>1 DEF StartList, ListTypeOK, Live, Calls
  <2>8. UNCHANGED <<result, status, delivered>>
    BY <1>2 DEF StartList, connVars
  <2>. QED  BY <1>0, <2>4, <2>5, <2>6, <2>7, <2>8 DEF ListTypeOK
<1>3. ASSUME NEW k \in Calls, WaitListRequestEnd(k)
      PROVE  ListTypeOK'
  <2>1. waiter' \in [Calls -> Waiter] /\ UNCHANGED <<caller, status, raced>>
    BY <1>3, ThreadIs DEF connVars
  <2>2. \A j \in DOMAIN reponses' : reponses'[j] \in {"None", "Ack"}
    BY <1>3 DEF WaitListRequestEnd, StartWaiting, Check, Callback, EndWaiting, Without, ListTypeOK
  <2>3. listType' \in Types \cup {None} /\ token' \in Nat /\ result' \in Seq(Nat)
    <3>1. UNCHANGED listVars \/ (listType' = None /\ result' = <<>> /\ UNCHANGED token)
      BY <1>3 DEF WaitListRequestEnd, StartWaiting, Check, Callback, EndWaiting, Reset, WhileCalling, listVars
    <3>2. <<>> \in Seq(Nat)
      OBVIOUS
    <3>. QED  BY <3>1, <3>2 DEF ListTypeOK, listVars
  <2>4. delivered' \in [Calls -> [hr: Results, type: Types \cup {None}, items: Seq(Nat)]]
    <3>1. UNCHANGED delivered \/ delivered' = [delivered EXCEPT ![k] = [hr |-> waiter[k].hr, type |-> listType, items |-> result]]
      BY <1>3 DEF WaitListRequestEnd, StartWaiting, Check, Callback, EndWaiting, history
    <3>2. [hr |-> waiter[k].hr, type |-> listType, items |-> result] \in [hr: Results, type: Types \cup {None}, items: Seq(Nat)]
      BY DEF ListTypeOK, Waiter
    <3>. QED  BY <3>1, <3>2 DEF ListTypeOK
  <2>. QED  BY <1>0, <2>1, <2>2, <2>3, <2>4 DEF ListTypeOK
<1>4. CASE Lapse
  BY <1>0, <1>4 DEF Lapse, ListTypeOK, listVars, connVars, history
<1>5. CASE Serve
  BY <1>0, <1>5 DEF Serve, ListTypeOK, listVars, connVars
<1>6. CASE Receive
  <2>1. UNCHANGED <<listType, token, caller, status, raced, delivered>>
    BY <1>6 DEF Receive, history
  <2>2. waiter' = waiter \/ waiter' = Woken
    BY <1>6 DEF Receive
  <2>3. result' = result \/ result' = Append(result, Head(back).token)
    BY <1>6 DEF Receive, ReceiveItem
  <2>4. Head(back).token \in Nat
    BY <1>6, BackTail DEF Receive, ListTypeOK, Message
  <2>8. \A s \in Seq(Nat), x \in Nat : Append(s, x) \in Seq(Nat)
    OBVIOUS
  <2>9. result \in Seq(Nat)
    BY DEF ListTypeOK
  <2>5. result' \in Seq(Nat)
    BY <2>3, <2>4, <2>8, <2>9
  <2>6. reponses' = reponses \/ reponses' = [reponses EXCEPT ![Head(back).token] = "Ack"]
    BY <1>6 DEF Receive
  <2>7. \A j \in DOMAIN reponses' : reponses'[j] \in {"None", "Ack"}
    BY <2>6 DEF ListTypeOK
  <2>. QED  BY <1>0, <2>1, <2>2, <2>5, <2>7, WokenIs DEF ListTypeOK
<1>7. CASE ConnectServer
  BY <1>0, <1>7 DEF ConnectServer, ListTypeOK, listVars, history
<1>8. CASE AwaitServer
  BY <1>0, <1>8 DEF AwaitServer, ListTypeOK, listVars, history
<1>9. CASE ResetPending
  BY <1>0, <1>9 DEF ResetPending, ClearPending, Reset, ListTypeOK, Live
<1>10. CASE DisconnectServer
  BY <1>0, <1>10 DEF DisconnectServer, ListTypeOK, listVars, history
<1>. QED  BY <1>1, <1>2, <1>3, <1>4, <1>5, <1>6, <1>7, <1>8, <1>9, <1>10 DEF Next

LEMMA BoundsStep ==
  ASSUME ListTypeOK, Bounds, Next
  PROVE  Bounds'
<1>1. \A k : Given(k) => Given(k)'
  BY Kinds
<1>2. \A i, k : ListAt(i, k)' \/ ItemAt(i, k)' \/ AckAt(i, k)' => Given(k)'
  <2>1. ASSUME NEW n \in Calls, Sent(n), Given(n)'
        PROVE  \A i, k : ListAt(i, k)' \/ ItemAt(i, k)' \/ AckAt(i, k)' => Given(k) \/ k = n
    BY <2>1 DEF Sent, SameBack, Bounds
  <2>2. ASSUME NEW t \in Calls, NEW n \in Nat, Served(t, n)
        PROVE  \A i, k : ListAt(i, k)' \/ ItemAt(i, k)' \/ AckAt(i, k)' => Given(k)
    BY <2>2 DEF Served, NextWire, Bounds
  <2>3. ASSUME Quiet \/ Passed \/ Received
        PROVE  \A i, k : ListAt(i, k)' \/ ItemAt(i, k)' \/ AckAt(i, k)' => Given(k)
    BY <2>3 DEF Quiet, Passed, Received, SameWire, SameBack, NextWire, NextBack, Bounds
  <2>. QED  BY <1>1, <2>1, <2>2, <2>3, Kinds
<1>3. ASSUME NEW t \in Threads, StartList(t)
      PROVE  Bounds'
  <2>1. UNCHANGED <<status, serverConnected, delivered>>
    BY <1>3 DEF StartList, connVars
  <2>2. PICK n \in Calls :
           /\ ~Given(n) /\ \A k : Given(k)' <=> Given(k) \/ k = n
           /\ \/ /\ DOMAIN reponses' = DOMAIN reponses \cup {n}
                 /\ waiter' = [waiter EXCEPT ![n] = [NoWaiter EXCEPT !.at = "start", !.type = caller[t]]]
              \/ UNCHANGED <<reponses, waiter>>
    BY <1>3, SendingIs
  <2>3. \A k \in DOMAIN reponses' : Given(k)'
    BY <2>2 DEF Bounds
  <2>4. \A k \in Calls : ~Given(k)' => waiter'[k] = waiter[k] /\ ~Given(k)
    BY <2>2 DEF ListTypeOK
  <2>. QED  BY <1>2, <2>1, <2>3, <2>4 DEF Bounds
<1>4. ASSUME NEW j \in Calls, WaitListRequestEnd(j)
      PROVE  Bounds'
  <2>1. /\ waiter[j].at # "none" /\ UNCHANGED <<connVars, nextCmdToken>>
        /\ \A k \in Calls : k # j => waiter'[k] = waiter[k]
    BY <1>4, ThreadIs
  <2>2. Given(j)
    BY <2>1 DEF Bounds
  <2>3. DOMAIN reponses' \subseteq DOMAIN reponses
    BY <1>4 DEF WaitListRequestEnd, StartWaiting, Check, Callback, EndWaiting, Without
  <2>4. \A k \in Calls : k # j => delivered'[k] = delivered[k]
    BY <1>4 DEF WaitListRequestEnd, StartWaiting, Check, Callback, EndWaiting, history, ListTypeOK
  <2>5. \A k \in Calls : ~Given(k)' => waiter'[k].at = "none" /\ delivered'[k].hr = "None"
    BY <1>1, <2>1, <2>2, <2>4 DEF Bounds
  <2>. QED  BY <1>1, <1>2, <2>1, <2>3, <2>5 DEF Bounds, connVars
<1>5. CASE Receive
  <2>1. UNCHANGED <<status, delivered>> /\ DOMAIN reponses' = DOMAIN reponses
    BY <1>5 DEF Receive, history
  <2>2. waiter' = waiter \/ waiter' = Woken
    BY <1>5 DEF Receive
  <2>3. \A k \in Calls : waiter[k].at = "none" => waiter'[k].at = "none"
    BY <2>2, WokenIs
  <2>4. UNCHANGED serverConnected \/ serverConnected' = TRUE
    BY <1>5, Zenon DEF Receive
  <2>5. status' = "Connected" => serverConnected'
    BY <2>1, <2>4 DEF Bounds
  <2>. QED  BY <1>1, <1>2, <2>1, <2>3, <2>5 DEF Bounds
<1>6. ASSUME UNCHANGED <<reponses, waiter, delivered>>, status' = "Connected" => serverConnected'
      PROVE  Bounds'
  BY <1>1, <1>2, <1>6 DEF Bounds
<1>7. CASE (\E t \in Threads, type \in Types : CheckPending(t, type)) \/ Lapse \/ Serve \/ ResetPending
  BY <1>6, <1>7 DEF CheckPending, Lapse, Serve, ResetPending, connVars, history, Bounds
<1>8. CASE ConnectServer
  BY <1>6, <1>8 DEF ConnectServer, history
<1>9. CASE AwaitServer
  BY <1>6, <1>9 DEF AwaitServer, history
<1>10. CASE DisconnectServer
  BY <1>1, <1>2, <1>10 DEF DisconnectServer, Bounds, history
<1>. QED  BY <1>3, <1>4, <1>5, <1>7, <1>8, <1>9, <1>10 DEF Next

--------------------------------------------------------------------------------
\* One list at a time

\* The calls that live change with list() and the end of a thread only.
LEMMA LiveStays ==
  ASSUME ListTypeOK,
         \/ \E t \in Threads, type \in Types : CheckPending(t, type)
         \/ Lapse \/ Serve \/ Receive \/ ConnectServer \/ AwaitServer \/ ResetPending \/ DisconnectServer
  PROVE  Live' = Live /\ \A k \in Calls : waiter'[k].type = waiter[k].type
<1>1. waiter' = waiter \/ waiter' = Woken
  BY DEF CheckPending, Lapse, Serve, Receive, ConnectServer, AwaitServer, ResetPending, DisconnectServer
<1>2. \A k \in Calls : waiter'[k].at \in {"none", "done"} <=> waiter[k].at \in {"none", "done"}
  BY <1>1, WokenIs
<1>. QED  BY <1>1, <1>2, WokenIs DEF Live

\* A call that is not raced starts when no other one lives.
LEMMA StartsAlone ==
  ASSUME ListTypeOK, Bounds, OneList, EmptyResult, NEW t \in Threads, StartList(t)
  PROVE  \E n \in Calls :
           /\ n = nextCmdToken /\ token' = n /\ ~Given(n)
           /\ listType' = caller[t] /\ caller[t] # None
           /\ \/ UNCHANGED waiter /\ Live' = Live
              \/ /\ status = "Connected" /\ Sent(n) /\ ~Acked(n)'
                 /\ waiter'[n] = [NoWaiter EXCEPT !.at = "start", !.type = caller[t]]
                 /\ \A k \in Calls : k # n => waiter'[k] = waiter[k]
                 /\ Live' = Live \cup {n}
           /\ \/ Live \cup {n} \subseteq raced'
              \/ listType = None /\ Live = {} /\ raced' = raced /\ (status = "Connected" => result = <<>>)
<1>1. PICK n \in Calls :
           /\ n = nextCmdToken /\ ~Given(n)
           /\ \/ /\ status = "Connected" /\ Sent(n)
                 /\ waiter' = [waiter EXCEPT ![n] = [NoWaiter EXCEPT !.at = "start", !.type = caller[t]]]
              \/ UNCHANGED waiter
  BY SendingIs
<1>2. /\ token' = n /\ listType' = caller[t] /\ caller[t] # None
      /\ \/ raced' = raced \cup Live \cup {n}
         \/ listType = None /\ ~fresh /\ ~late /\ Live \cap raced = {} /\ raced' = raced
  BY <1>1 DEF StartList
<1>3. ASSUME listType = None, ~fresh, ~late, Live \cap raced = {}
      PROVE  Live = {} /\ (status = "Connected" => result = <<>>)
  <2>1. Live = {}
    BY <1>3 DEF OneList
  <2>. QED  BY <1>3, <2>1 DEF EmptyResult, InPeace
<1>4. waiter[n].at = "none"
  BY <1>1 DEF Bounds
<1>5. ASSUME waiter' = [waiter EXCEPT ![n] = [NoWaiter EXCEPT !.at = "start", !.type = caller[t]]]
      PROVE  /\ waiter'[n] = [NoWaiter EXCEPT !.at = "start", !.type = caller[t]]
             /\ \A k \in Calls : k # n => waiter'[k] = waiter[k]
             /\ Live' = Live \cup {n}
  <2>1. /\ waiter'[n] = [NoWaiter EXCEPT !.at = "start", !.type = caller[t]]
        /\ \A k \in Calls : k # n => waiter'[k] = waiter[k]
    BY <1>5 DEF ListTypeOK
  <2>2. waiter'[n].at = "start"
    BY <2>1 DEF NoWaiter
  <2>. QED  BY <2>1, <2>2 DEF Live
<1>6. UNCHANGED waiter => Live' = Live
  BY DEF Live
<1>7. Sent(n) => ~Acked(n)'
  BY DEF Sent
<1>. QED  BY <1>1, <1>2, <1>3, <1>5, <1>6, <1>7

LEMMA OneListStep ==
  ASSUME ListTypeOK, Bounds, OneList, EmptyResult, Next
  PROVE  OneList'
<1>1. ASSUME NEW t \in Threads, StartList(t)
      PROVE  OneList'
  <2>1. PICK n \in Calls :
           /\ token' = n /\ ~Given(n) /\ listType' = caller[t] /\ caller[t] # None
           /\ \/ UNCHANGED waiter /\ Live' = Live
              \/ /\ waiter'[n] = [NoWaiter EXCEPT !.at = "start", !.type = caller[t]]
                 /\ Live' = Live \cup {n}
           /\ \/ Live \cup {n} \subseteq raced'
              \/ Live = {} /\ raced' = raced
    BY <1>1, StartsAlone
  <2>2. CASE Live \cup {n} \subseteq raced'
    BY <2>1, <2>2 DEF OneList
  <2>3. CASE Live = {}
    <3>1. [NoWaiter EXCEPT !.at = "start", !.type = caller[t]].type = caller[t]
      BY DEF NoWaiter
    <3>. QED  BY <2>1, <2>3, <3>1 DEF OneList
  <2>. QED  BY <2>1, <2>2, <2>3
<1>2. ASSUME NEW j \in Calls, WaitListRequestEnd(j)
      PROVE  OneList'
  <2>1. /\ waiter[j].at \in {"start", "check", "callback", "reset"}
        /\ \A k \in Calls : k # j => waiter'[k] = waiter[k]
        /\ waiter'[j].type = waiter[j].type
        /\ waiter'[j].at \in {"check", "sleep", "callback", "reset", "done"}
        /\ waiter'[j].at = "done" <=> waiter[j].at = "reset"
        /\ UNCHANGED raced
    BY <1>2, ThreadIs
  <2>2. j \in Live
    BY <2>1 DEF Live
  <2>3. CASE waiter[j].at = "reset"
    <3>1. Live' = Live \ {j}
      BY <2>1, <2>3 DEF Live
    <3>2. \A k \in Live \ raced : k = j
      BY <2>2 DEF OneList
    <3>. QED  BY <2>1, <3>1, <3>2 DEF OneList
  <2>4. CASE waiter[j].at # "reset"
    <3>1. Live' = Live
      BY <2>1, <2>4 DEF Live
    <3>2. UNCHANGED <<listType, token>>
      BY <1>2, <2>4 DEF WaitListRequestEnd, StartWaiting, Check, Callback, EndWaiting, WhileCalling, listVars
    <3>3. \A k \in Calls : waiter'[k].type = waiter[k].type
      BY <2>1
    <3>. QED  BY <2>1, <3>1, <3>2, <3>3 DEF OneList, Live
  <2>. QED  BY <2>3, <2>4
<1>3. CASE ResetPending
  <2>1. raced' = raced \cup Live /\ Live' = Live
    BY <1>3, LiveStays DEF ResetPending
  <2>. QED  BY <2>1 DEF OneList
<1>4. CASE \/ \E t \in Threads, type \in Types : CheckPending(t, type)
           \/ Lapse \/ Serve \/ Receive \/ ConnectServer \/ AwaitServer \/ DisconnectServer
  <2>1. UNCHANGED <<listType, token, raced>>
    BY <1>4 DEF CheckPending, Lapse, Serve, Receive, ConnectServer, AwaitServer, DisconnectServer, listVars
  <2>2. Live' = Live /\ \A k \in Calls : waiter'[k].type = waiter[k].type
    BY <1>4, LiveStays
  <2>. QED  BY <2>1, <2>2 DEF OneList, Live
<1>. QED  BY <1>1, <1>2, <1>3, <1>4 DEF Next

--------------------------------------------------------------------------------
\* Items that come in on a connection are waited for

LEMMA UnderWayIs ==
  ASSUME ListTypeOK, NEW k, \E i : ListAt(i, k) \/ ItemAt(i, k)
  PROVE  UnderWay(k)
<1>1. ASSUME NEW i, ListAt(i, k)
      PROVE  [cmd |-> "List", token |-> k] \in Range(wire)
  <2>1. i \in DOMAIN wire /\ wire[i] \in Request
    BY <1>1 DEF ListAt, ListTypeOK
  <2>2. wire[i] = [cmd |-> "List", token |-> k]
    BY <1>1, <2>1 DEF ListAt, Request
  <2>. QED  BY <2>1, <2>2 DEF Range
<1>2. ASSUME NEW i, ItemAt(i, k)
      PROVE  [cmd |-> "Item", token |-> k] \in Range(back)
  <2>1. i \in DOMAIN back /\ back[i] \in Message
    BY <1>2 DEF ItemAt, ListTypeOK
  <2>2. back[i] = [cmd |-> "Item", token |-> k]
    BY <1>2, <2>1 DEF ItemAt, Message
  <2>. QED  BY <2>1, <2>2 DEF Range
<1>. QED  BY <1>1, <1>2 DEF UnderWay

\* A thread waiting for what is under way keeps waiting.
LEMMA AwaitedStep ==
  ASSUME ListTypeOK, Bounds, Messages, OneList, EmptyResult, Awaited, Next
  PROVE  Awaited'
<1>1. ASSUME NEW t \in Threads, StartList(t)
      PROVE  Awaited'
  <2>1. PICK n \in Calls :
           /\ n = nextCmdToken /\ ~Given(n)
           /\ \/ /\ Sent(n) /\ n \in DOMAIN reponses' /\ reponses'[n] = "None"
                 /\ waiter' = [waiter EXCEPT ![n] = [NoWaiter EXCEPT !.at = "start", !.type = caller[t]]]
              \/ Quiet
    BY <1>1, SendingIs
  <2>2. token' = n
    BY <1>1, <2>1 DEF StartList
  <2>3. CASE Quiet
    <3>1. \A i : ~ListAt(i, n) /\ ~ItemAt(i, n)
      BY <2>1 DEF Bounds
    <3>2. \A i : ~ListAt(i, n)' /\ ~ItemAt(i, n)'
      BY <2>3, <3>1 DEF Quiet, SameWire, SameBack
    <3>. QED  BY <2>2, <3>2 DEF Awaited
  <2>4. CASE /\ n \in DOMAIN reponses' /\ reponses'[n] = "None"
             /\ waiter' = [waiter EXCEPT ![n] = [NoWaiter EXCEPT !.at = "start", !.type = caller[t]]]
    <3>1. waiter'[n].at = "start"
      BY <2>4 DEF ListTypeOK, NoWaiter
    <3>. QED  BY <2>2, <2>4, <3>1 DEF Awaited
  <2>. QED  BY <2>1, <2>3, <2>4
<1>3. ASSUME NEW j \in Calls, WaitListRequestEnd(j)
      PROVE  Awaited'
  <2>1. UNCHANGED <<status, fresh, late, wire, back, token>>
    BY <1>3, ThreadIs DEF WaitListRequestEnd, StartWaiting, Check, Callback, EndWaiting, listVars, connVars,
                          Reset, WhileCalling
  <2>2. \A i, k : (ListAt(i, k)' <=> ListAt(i, k)) /\ (ItemAt(i, k)' <=> ItemAt(i, k))
    BY <2>1, WireStays, BackStays
  <2>3. ASSUME InPeace', \E i : ListAt(i, token) \/ ItemAt(i, token)
        PROVE  /\ token \in DOMAIN reponses' /\ reponses'[token] = "None"
               /\ waiter'[token].at \in {"start", "check", "sleep"}
               /\ waiter'[token].at # "start" => waiter'[token].token = token
    <3>1. status = "Connected" /\ InPeace
      BY <2>1, <2>3 DEF InPeace
    <3>2. /\ token \in DOMAIN reponses /\ reponses[token] = "None"
          /\ waiter[token].at \in {"start", "check", "sleep"}
          /\ waiter[token].at # "start" => waiter[token].token = token
      BY <2>3, <3>1 DEF Awaited
    <3>3. serverConnected /\ token \in Calls
      BY <3>1, <3>2 DEF Bounds, Given
    <3>4. waiter[j] \in Waiter /\ waiter[token] \in Waiter
      BY <3>3 DEF ListTypeOK
    <3>5. CASE StartWaiting(j)
      <4>1. CASE j = token
        <5>1. PICK w : w = [waiter[j] EXCEPT !.at = "check", !.token = token]
          OBVIOUS
        <5>2. w.at = "check" /\ w.token = token
          BY <3>4, <5>1 DEF Waiter
        <5>3. Move(j, w) /\ UNCHANGED reponses
          BY <3>2, <3>5, <5>1 DEF StartWaiting
        <5>4. waiter'[j] = w
          BY <5>3, MoveIs
        <5>. QED  BY <3>2, <4>1, <5>2, <5>3, <5>4
      <4>2. CASE j # token
        <5>1. waiter'[token] = waiter[token] /\ UNCHANGED reponses
          BY <1>3, <3>3, <3>5, <4>2, ThreadIs DEF StartWaiting
        <5>. QED  BY <3>2, <5>1
      <4>. QED  BY <4>1, <4>2
    <3>6. CASE Check(j)
      <4>1. CASE waiter[j].token = token
        <5>1. ~StopWaiting(j)
          BY <3>2, <3>3, <4>1 DEF StopWaiting, Answer
        <5>2. PICK w : w = [waiter[j] EXCEPT !.at = "sleep"]
          OBVIOUS
        <5>3. w.at = "sleep" /\ w.token = waiter[j].token
          BY <3>4, <5>2 DEF Waiter
        <5>4. Move(j, w) /\ UNCHANGED reponses
          BY <3>6, <5>1, <5>2 DEF Check
        <5>5. waiter'[j] = w /\ \A k \in Calls : k # j => waiter'[k] = waiter[k]
          BY <5>4, MoveIs
        <5>. QED  BY <3>2, <3>3, <4>1, <5>3, <5>4, <5>5
      <4>2. CASE waiter[j].token # token
        <5>1. j # token
          BY <3>2, <3>6, <4>2 DEF Check
        <5>2. waiter'[token] = waiter[token]
          BY <1>3, <3>3, <5>1, ThreadIs
        <5>3. reponses' = reponses \/ reponses' = Without(reponses, waiter[j].token)
          BY <3>6 DEF Check
        <5>4. token \in DOMAIN reponses' /\ reponses'[token] = reponses[token]
          BY <3>2, <4>2, <5>3 DEF Without
        <5>. QED  BY <3>2, <5>2, <5>4
      <4>. QED  BY <4>1, <4>2
    <3>7. CASE Callback(j) \/ EndWaiting(j)
      <4>1. j # token /\ UNCHANGED reponses
        BY <3>2, <3>7 DEF Callback, EndWaiting
      <4>2. waiter'[token] = waiter[token]
        BY <1>3, <3>3, <4>1, ThreadIs
      <4>. QED  BY <3>2, <4>1, <4>2
    <3>. QED  BY <1>3, <3>5, <3>6, <3>7 DEF WaitListRequestEnd
  <2>. QED  BY <2>1, <2>2, <2>3 DEF Awaited
<1>4. CASE Serve
  <2>1. UNCHANGED <<listVars, connVars, reponses, waiter, late>>
    BY <1>4 DEF Serve
  <2>2. InPeace' <=> InPeace
    BY <2>1 DEF InPeace, connVars
  <2>3. ASSUME NEW k, NEW i, ListAt(i, k)' \/ ItemAt(i, k)'
        PROVE  \E a : ListAt(a, k) \/ ItemAt(a, k)
    <3>1. CASE Passed
      BY <2>3, <3>1 DEF Passed, NextWire, SameBack
    <3>2. ASSUME NEW s \in Calls, NEW n \in Nat, Served(s, n)
          PROVE  \E a : ListAt(a, k) \/ ItemAt(a, k)
      BY <2>3, <3>2 DEF Served, NextWire
    <3>. QED  BY <1>4, <3>1, <3>2, ServingIs
  <2>. QED  BY <2>1, <2>2, <2>3 DEF Awaited, listVars
<1>5. CASE Receive
  <2>1. UNCHANGED <<token, status, fresh, late>>
    BY <1>5 DEF Receive, history
  <2>2. waiter' = waiter \/ waiter' = Woken
    BY <1>5 DEF Receive
  <2>3. Received
    BY <1>5, ReceivingIs
  <2>5. ASSUME NEW k, InPeace', k = token, NEW i, ListAt(i, k)' \/ ItemAt(i, k)'
        PROVE  /\ k \in DOMAIN reponses' /\ reponses'[k] = "None"
               /\ waiter'[k].at \in {"start", "check", "sleep"}
               /\ waiter'[k].at # "start" => waiter'[k].token = k
    <3>1. InPeace
      BY <2>1, <2>5 DEF InPeace
    <3>2. ListAt(i, k) \/ (i \in Nat \ {0} /\ ItemAt(i + 1, k))
      BY <2>3, <2>5 DEF Received, SameWire, NextBack
    <3>3. /\ k \in DOMAIN reponses /\ reponses[k] = "None"
          /\ waiter[k].at \in {"start", "check", "sleep"}
          /\ waiter[k].at # "start" => waiter[k].token = k
      BY <2>5, <3>1, <3>2 DEF Awaited
    <3>4. k \in Calls
      BY <3>3 DEF Bounds, Given
    <3>5. ~AckAt(1, k)
      <4>1. CASE ListAt(i, k)
        BY <4>1 DEF Messages
      <4>2. CASE i \in Nat \ {0} /\ ItemAt(i + 1, k)
        <5>1. AckAt(1, k) => i + 1 <= 1
          BY <4>2 DEF Messages
        <5>2. ~(i + 1 <= 1)
          BY <4>2
        <5>. QED  BY <5>1, <5>2
      <4>. QED  BY <3>2, <4>1, <4>2
    <3>6. k \in DOMAIN reponses' /\ reponses'[k] = "None"
      <4>1. CASE reponses' = reponses
        BY <3>3, <4>1
      <4>2. CASE reponses' # reponses
        <5>1. /\ Head(back).cmd = "Ack" /\ reponses' = [reponses EXCEPT ![Head(back).token] = "Ack"]
          BY <1>5, <4>2 DEF Receive
        <5>2. AckAt(1, Head(back).token)
          BY <1>5, <5>1, BackTail DEF Receive, ListTypeOK
        <5>3. k # Head(back).token
          BY <3>5, <5>2
        <5>. QED  BY <3>3, <5>1, <5>3
      <4>. QED  BY <4>1, <4>2
    <3>. QED  BY <2>2, <3>3, <3>4, <3>6, WokenIs
  <2>. QED  BY <2>1, <2>5 DEF Awaited
<1>6. CASE ConnectServer
  BY <1>6 DEF ConnectServer, Awaited, InPeace
<1>7. CASE AwaitServer
  <2>1. InPeace' => FALSE
    BY <1>7 DEF AwaitServer, InPeace
  <2>. QED  BY <2>1 DEF Awaited
<1>8. CASE DisconnectServer
  BY <1>8 DEF DisconnectServer, Awaited, InPeace
<1>9. CASE ResetPending
  <2>1. UNCHANGED <<token, wire, back>> /\ late' = UnderWay(token)
    BY <1>9 DEF ResetPending, ClearPending, Reset
  <2>2. \A i, k : (ListAt(i, k)' <=> ListAt(i, k)) /\ (ItemAt(i, k)' <=> ItemAt(i, k))
    BY <2>1, WireStays, BackStays
  <2>3. ASSUME NEW i, ListAt(i, token) \/ ItemAt(i, token)
        PROVE  late'
    <3>1. UnderWay(token)
      BY <2>3, UnderWayIs
    <3>. QED  BY <2>1, <3>1, Zenon
  <2>. QED  BY <2>1, <2>2, <2>3 DEF Awaited, InPeace
<1>10. CASE (\E t \in Threads, type \in Types : CheckPending(t, type)) \/ Lapse
  <2>1. UNCHANGED <<listVars, connVars, reponses, waiter, late, wire, back>>
    BY <1>10 DEF CheckPending, Lapse, history
  <2>2. \A i, k : (ListAt(i, k)' <=> ListAt(i, k)) /\ (ItemAt(i, k)' <=> ItemAt(i, k))
    BY <2>1, WireStays, BackStays
  <2>. QED  BY <2>1, <2>2 DEF Awaited, InPeace, listVars, connVars
<1>. QED  BY <1>1, <1>3, <1>4, <1>5, <1>6, <1>7, <1>8, <1>9, <1>10 DEF Next

LEMMA EmptyResultStep ==
  ASSUME ListTypeOK, Bounds, Awaited, EmptyResult, Next
  PROVE  EmptyResult'
<1>1. ASSUME NEW t \in Threads, StartList(t)
      PROVE  EmptyResult'
  BY <1>1 DEF StartList, EmptyResult
<1>2. ASSUME NEW j \in Calls, WaitListRequestEnd(j)
      PROVE  EmptyResult'
  <2>1. CASE EndWaiting(j)
    BY <2>1 DEF EndWaiting, Reset, EmptyResult
  <2>2. CASE ~EndWaiting(j)
    <3>1. waiter[j].at # "reset"
      BY <1>2, <2>2 DEF WaitListRequestEnd, StartWaiting, Check, Callback
    <3>2. waiter'[j].at \notin {"none", "done"}
      BY <1>2, <3>1, ThreadIs
    <3>3. j \in Live'
      BY <3>2 DEF Live
    <3>. QED  BY <3>3 DEF EmptyResult
  <2>. QED  BY <2>1, <2>2
<1>3. CASE Receive
  <2>1. UNCHANGED <<token, listType, status, fresh, late>> /\ Live' = Live
    BY <1>3, LiveStays DEF Receive, history
  <2>2. CASE UNCHANGED result
    BY <2>1, <2>2 DEF EmptyResult, InPeace
  <2>3. CASE Head(back).cmd = "Item" /\ Head(back).token = token
    <3>1. ItemAt(1, token)
      BY <1>3, <2>3, BackTail DEF Receive, ListTypeOK
    <3>2. InPeace => waiter[token].at \in {"start", "check", "sleep"} /\ Given(token)
      BY <3>1 DEF Awaited, Bounds
    <3>3. InPeace => Live # {}
      BY <3>2 DEF Live, Given
    <3>. QED  BY <2>1, <3>3 DEF EmptyResult, InPeace
  <2>. QED  BY <1>3, <2>2, <2>3 DEF Receive, ReceiveItem
<1>4. CASE ResetPending
  BY <1>4 DEF ResetPending, ClearPending, Reset, EmptyResult
<1>5. CASE ConnectServer
  BY <1>5 DEF ConnectServer, EmptyResult, InPeace
<1>6. CASE AwaitServer
  <2>1. InPeace' => FALSE
    BY <1>6 DEF AwaitServer, InPeace
  <2>. QED  BY <2>1 DEF EmptyResult
<1>7. CASE DisconnectServer
  BY <1>7 DEF DisconnectServer, EmptyResult, InPeace
<1>8. CASE (\E t \in Threads, type \in Types : CheckPending(t, type)) \/ Lapse \/ Serve
  <2>1. UNCHANGED <<listVars, connVars, late>>
    BY <1>8 DEF CheckPending, Lapse, Serve, history
  <2>2. Live' = Live
    BY <1>8, LiveStays
  <2>. QED  BY <2>1, <2>2 DEF EmptyResult, InPeace, listVars, connVars
<1>. QED  BY <1>1, <1>2, <1>3, <1>4, <1>5, <1>6, <1>7, <1>8 DEF Next

--------------------------------------------------------------------------------
\* The result of the list that is gathered

LEMMA GathersStays ==
  ASSUME NEW k \in Calls, Gathers(k), UNCHANGED result, items'[k] = items[k],
         \A i : ListAt(i, k)' => \E j : ListAt(j, k),
         \A i : (ItemAt(i, k)' <=> ItemAt(i, k)) /\ (AckAt(i, k)' <=> AckAt(i, k)),
         waiter'[k].at \in {"check", "sleep"} => waiter'[k].token = k,
         Acked(k)' \/ waiter'[k].hr = "S_OK" => Acked(k) \/ waiter[k].hr = "S_OK"
  PROVE  Gathers(k)'
<1>1. (\E i : ListAt(i, k)') => result' = <<>>
  BY DEF Gathers
<1>2. \A a : AckAt(a, k)' => \E m \in 0..items'[k] : Rest(k, a, m)'
  <2>1. ASSUME NEW a, AckAt(a, k)'
        PROVE  \E m \in 0..items'[k] : Rest(k, a, m)'
    <3>1. PICK m \in 0..items[k] : Rest(k, a, m)
      BY <2>1 DEF Gathers
    <3>2. Rest(k, a, m)'
      BY <3>1 DEF Rest
    <3>. QED  BY <3>1, <3>2
  <2>. QED  BY <2>1
<1>3. Acked(k)' \/ waiter'[k].hr = "S_OK" => Over(k)' /\ result' = [i \in 1..items'[k] |-> k]
  BY DEF Gathers, Over
<1>. QED  BY <1>1, <1>2, <1>3 DEF Gathers

\* A list that is served while its result is empty
LEMMA GathersServed ==
  ASSUME ListTypeOK, Messages, NEW k \in Calls, Gathers(k), UNCHANGED <<result, waiter>>, NEW n \in Nat, Served(k, n)
  PROVE  Gathers(k)'
<1>1. ListAt(1, k) /\ Len(back) \in Nat
  BY DEF Served, ListTypeOK
<1>2. result' = <<>> /\ ~Acked(k) /\ waiter[k].hr # "S_OK" /\ \A j : ~ItemAt(j, k) /\ ~AckAt(j, k)
  <2>1. result = <<>> /\ (waiter[k].hr = "S_OK" => Over(k))
    BY <1>1 DEF Gathers
  <2>2. ~Acked(k) /\ \A j : ~ItemAt(j, k) /\ ~AckAt(j, k)
    BY <1>1 DEF Messages
  <2>. QED  BY <1>1, <2>1, <2>2 DEF Over
<1>3. /\ \A i : ItemAt(i, k)' <=> i \in (Len(back) + 1)..(Len(back) + n)
      /\ \A i : AckAt(i, k)' => i = Len(back) + n + 1
      /\ ~Acked(k)' /\ items'[k] = n
  BY <1>2 DEF Served, NoAnswer, ListTypeOK
<1>4. ASSUME NEW a, AckAt(a, k)'
      PROVE  \E m \in 0..items'[k] : Rest(k, a, m)'
  <2>1. a = Len(back) + n + 1
    BY <1>3, <1>4
  <2>2. n < a /\ \A i \in Int : ItemAt(i, k)' <=> i \in (a - n)..(a - 1)
    BY <1>1, <1>3, <2>1
  <2>3. result' = [i \in 1..(items'[k] - n) |-> k]
    BY <1>2, <1>3
  <2>4. Rest(k, a, n)'
    BY <2>2, <2>3 DEF Rest
  <2>. QED  BY <1>3, <2>4
<1>5. waiter'[k].at \in {"check", "sleep"} => waiter'[k].token = k
  BY DEF Gathers
<1>. QED  BY <1>2, <1>3, <1>4, <1>5 DEF Gathers

\* An item or an end that is received, or something else
LEMMA GathersReceived ==
  ASSUME ListTypeOK, Bounds, Messages, NEW k \in Calls, Gathers(k), token = k, Receive
  PROVE  Gathers(k)'
<1>1. Received /\ (waiter' = waiter \/ waiter' = Woken)
  BY ReceivingIs DEF Receive
<1>2. /\ waiter'[k].hr = waiter[k].hr
      /\ waiter'[k].at \in {"check", "sleep"} => waiter'[k].token = k
  BY <1>1, WokenIs DEF Gathers
<1>3. /\ \A i : ListAt(i, k)' <=> ListAt(i, k)
      /\ \A i : ItemAt(i, k)' <=> i \in Nat \ {0} /\ ItemAt(i + 1, k)
      /\ \A i : AckAt(i, k)'  <=> i \in Nat \ {0} /\ AckAt(i + 1, k)
      /\ Acked(k)' => Acked(k) \/ AckAt(1, k)
      /\ UNCHANGED items
  BY <1>1 DEF Received, SameWire, NextBack
<1>4. items[k] \in Nat
  BY DEF ListTypeOK
<1>5. /\ ItemAt(1, k) => result' = Append(result, k)
      /\ ~ItemAt(1, k) => result' = result
  <2>1. back \in Seq(Message) /\ back # <<>> /\ back' = Tail(back)
    BY DEF Receive, ListTypeOK
  <2>2. \A t : ItemAt(1, t) <=> Head(back).cmd = "Item" /\ Head(back).token = t
    BY <2>1, BackTail
  <2>. QED  BY <2>2 DEF Receive, ReceiveItem
<1>6. ASSUME ItemAt(1, k)
      PROVE  Gathers(k)'
  <2>1. (\A i : ~ListAt(i, k)) /\ ~AckAt(1, k) /\ ~Acked(k) /\ waiter[k].hr # "S_OK"
    <3>1. ~Over(k)
      BY <1>6 DEF Over
    <3>2. ~Acked(k) /\ waiter[k].hr # "S_OK"
      BY <3>1 DEF Gathers
    <3>3. ~AckAt(1, k)
      BY <1>6 DEF ItemAt, AckAt
    <3>4. \A i : ~ListAt(i, k)
      BY <1>6 DEF Messages
    <3>. QED  BY <3>2, <3>3, <3>4
  <2>2. ASSUME NEW a, AckAt(a, k)'
        PROVE  \E m \in 0..items'[k] : Rest(k, a, m)'
    <3>0. PICK b : b = a + 1
      OBVIOUS
    <3>1. a \in Nat \ {0} /\ AckAt(b, k) /\ b = a + 1
      BY <1>3, <2>2, <3>0
    <3>2. PICK m \in 0..items[k] : Rest(k, b, m)
      BY <3>1 DEF Gathers
    <3>3. /\ m < b /\ result = [i \in 1..(items[k] - m) |-> k]
          /\ \A i \in Int : ItemAt(i, k) <=> i \in (b - m)..(b - 1)
      BY <3>2 DEF Rest
    <3>4. m = a
      <4>1. m \in Nat /\ 1 \in (b - m)..(b - 1)
        BY <1>4, <1>6, <3>1, <3>2, <3>3
      <4>. QED  BY <3>1, <3>3, <4>1
    <3>5. m - 1 \in 0..items[k] /\ m - 1 < a
      BY <1>4, <3>1, <3>2, <3>4
    <3>6. \A i \in Int : ItemAt(i, k)' <=> i \in (a - (m - 1))..(a - 1)
      <4>1. ASSUME NEW i \in Int
            PROVE  ItemAt(i, k)' <=> i \in (a - (m - 1))..(a - 1)
        <5>1. ItemAt(i + 1, k) <=> i + 1 \in (b - m)..(b - 1)
          BY <3>3
        <5>2. ItemAt(i, k)' <=> i \in Nat \ {0} /\ ItemAt(i + 1, k)
          BY <1>3
        <5>. QED  BY <3>1, <3>4, <5>1, <5>2
      <4>. QED  BY <4>1
    <3>7. result' = [i \in 1..(items'[k] - (m - 1)) |-> k]
      <4>1. PICK r : r = items[k] - m /\ r \in Nat
        BY <1>4, <3>2
      <4>2. result = [i \in 1..r |-> k] /\ result' = Append(result, k) /\ items'[k] - (m - 1) = r + 1
        BY <1>3, <1>4, <1>5, <1>6, <3>1, <3>3, <3>4, <4>1
      <4>3. Append([i \in 1..r |-> k], k) = [i \in 1..(r + 1) |-> k]
        BY <4>1
      <4>. QED  BY <4>2, <4>3
    <3>8. Rest(k, a, m - 1)'
      BY <3>5, <3>6, <3>7 DEF Rest
    <3>. QED  BY <1>3, <3>5, <3>8
  <2>. QED  BY <1>2, <1>3, <2>1, <2>2 DEF Gathers
<1>7. ASSUME AckAt(1, k)
      PROVE  Gathers(k)'
  <2>1. \A i : ~ListAt(i, k)'
    BY <1>3, <1>7 DEF Messages
  <2>2. \A i : ~ItemAt(i, k)' /\ ~AckAt(i, k)'
    <3>1. ASSUME NEW i, ItemAt(i, k)' \/ AckAt(i, k)'
          PROVE  FALSE
      <4>1. i \in Nat \ {0} /\ i + 1 <= 1
        BY <1>3, <1>7, <3>1 DEF Messages
      <4>. QED  BY <4>1
    <3>. QED  BY <3>1
  <2>3. Over(k)'
    BY <2>1, <2>2 DEF Over
  <2>4. result' = [i \in 1..items'[k] |-> k]
    <3>1. PICK m \in 0..items[k] : m < 1 /\ result = [i \in 1..(items[k] - m) |-> k]
      BY <1>7 DEF Gathers, Rest
    <3>2. m = 0
      BY <1>4, <3>1
    <3>3. ~ItemAt(1, k)
      BY <1>7 DEF ItemAt, AckAt
    <3>. QED  BY <1>3, <1>4, <1>5, <3>1, <3>2, <3>3
  <2>. QED  BY <1>2, <2>1, <2>2, <2>3, <2>4 DEF Gathers
<1>8. ASSUME ~ItemAt(1, k), ~AckAt(1, k)
      PROVE  Gathers(k)'
  <2>1. UNCHANGED result
    BY <1>5, <1>8
  <2>2. ASSUME NEW a, AckAt(a, k)'
        PROVE  \E m \in 0..items'[k] : Rest(k, a, m)'
    <3>0. PICK b : b = a + 1
      OBVIOUS
    <3>1. a \in Nat \ {0} /\ AckAt(b, k) /\ b = a + 1
      BY <1>3, <2>2, <3>0
    <3>2. PICK m \in 0..items[k] : Rest(k, b, m)
      BY <3>1 DEF Gathers
    <3>3. /\ m < b /\ result = [i \in 1..(items[k] - m) |-> k]
          /\ \A i \in Int : ItemAt(i, k) <=> i \in (b - m)..(b - 1)
      BY <3>2 DEF Rest
    <3>4. m < a
      <4>1. m \in Nat /\ ~(1 \in (b - m)..(b - 1))
        BY <1>4, <1>8, <3>1, <3>2, <3>3
      <4>. QED  BY <3>1, <3>3, <4>1
    <3>5. \A i \in Int : ItemAt(i, k)' <=> i \in (a - m)..(a - 1)
      <4>1. ASSUME NEW i \in Int
            PROVE  ItemAt(i, k)' <=> i \in (a - m)..(a - 1)
        <5>1. ItemAt(i + 1, k) <=> i + 1 \in (b - m)..(b - 1)
          BY <3>3
        <5>2. ItemAt(i, k)' <=> i \in Nat \ {0} /\ ItemAt(i + 1, k)
          BY <1>3
        <5>3. m \in Nat
          BY <1>4, <3>2
        <5>. QED  BY <3>1, <3>4, <5>1, <5>2, <5>3
      <4>. QED  BY <4>1
    <3>6. Rest(k, a, m)'
      BY <1>3, <2>1, <3>3, <3>4, <3>5 DEF Rest
    <3>. QED  BY <1>3, <3>2, <3>6
  <2>3. (\E i : ListAt(i, k)') => result' = <<>>
    BY <1>3, <2>1 DEF Gathers
  <2>4. Acked(k)' \/ waiter'[k].hr = "S_OK" => Over(k)' /\ result' = [i \in 1..items'[k] |-> k]
    <3>1. ASSUME Acked(k)' \/ waiter'[k].hr = "S_OK"
          PROVE  Over(k)' /\ result' = [i \in 1..items'[k] |-> k]
      <4>1. Over(k) /\ result = [i \in 1..items[k] |-> k]
        BY <1>2, <1>3, <1>8, <3>1 DEF Gathers
      <4>. QED  BY <1>3, <2>1, <4>1 DEF Over
    <3>. QED  BY <3>1
  <2>. QED  BY <1>2, <2>2, <2>3, <2>4 DEF Gathers
<1>. QED  BY <1>6, <1>7, <1>8
LEMMA GatheringStep ==
  ASSUME ListTypeOK, Bounds, Messages, OneList, EmptyResult, Gathering, Next
  PROVE  Gathering'
<1>1. ASSUME NEW t \in Threads, StartList(t)
      PROVE  Gathering'
  <2>1. PICK n \in Calls :
           /\ n = nextCmdToken /\ ~Given(n)
           /\ \/ Live' = Live
              \/ /\ status = "Connected" /\ Sent(n) /\ ~Acked(n)'
                 /\ waiter'[n] = [NoWaiter EXCEPT !.at = "start", !.type = caller[t]]
                 /\ Live' = Live \cup {n}
           /\ \/ Live \cup {n} \subseteq raced'
              \/ Live = {} /\ (status = "Connected" => result = <<>>)
    BY <1>1, StartsAlone
  <2>2. CASE Live' \subseteq raced'
    BY <2>2 DEF Gathering
  <2>3. CASE Live' = {}
    BY <2>3 DEF Gathering
  <2>4. CASE /\ Live' = {n} /\ Sent(n) /\ ~Acked(n)' /\ result = <<>>
             /\ waiter'[n] = [NoWaiter EXCEPT !.at = "start", !.type = caller[t]]
    <3>1. waiter'[n].at = "start" /\ waiter'[n].hr = "None"
      BY <2>4 DEF NoWaiter
    <3>2. \A i : ~AckAt(i, n)'
      BY <2>1, <2>4 DEF Sent, SameBack, Bounds
    <3>3. result' = <<>>
      BY <1>1, <2>4 DEF StartList
    <3>4. Gathers(n)'
      BY <2>4, <3>1, <3>2, <3>3 DEF Gathers
    <3>. QED  BY <2>4, <3>4 DEF Gathering
  <2>. QED  BY <2>1, <2>2, <2>3, <2>4
<1>2. ASSUME NEW j \in Calls, WaitListRequestEnd(j)
      PROVE  Gathering'
  <2>1. Quiet /\ UNCHANGED raced
    BY <1>2, QuietIs, ThreadIs
  <2>2. /\ waiter[j].at \in {"start", "check", "callback", "reset"}
        /\ \A k \in Calls : k # j => waiter'[k] = waiter[k]
        /\ waiter'[j].at = "done" <=> waiter[j].at = "reset"
        /\ waiter[j] \in Waiter
    BY <1>2, ThreadIs DEF ListTypeOK
  <2>3. ASSUME NEW k \in Live', k \notin raced'
        PROVE  Gathers(k)'
    <3>1. k \in Live \ raced /\ j \in Live /\ k \in Calls
      BY <2>1, <2>2, <2>3 DEF Live
    <3>2. j = k /\ token = k /\ Gathers(k)
      BY <3>1 DEF OneList, Gathering
    <3>3. ~EndWaiting(k)
      BY <2>2, <2>3, <3>2 DEF EndWaiting, Live
    <3>4. UNCHANGED result
      BY <1>2, <3>2, <3>3 DEF WaitListRequestEnd, StartWaiting, Check, Callback, WhileCalling, listVars
    <3>5. waiter'[k].at \in {"check", "sleep"} => waiter'[k].token = k
      <4>1. CASE StartWaiting(k)
        <5>1. PICK w : w = IF token \in DOMAIN reponses THEN [waiter[k] EXCEPT !.at = "check", !.token = token]
                                                        ELSE [waiter[k] EXCEPT !.at = "callback", !.hr = "E_FAIL"]
          OBVIOUS
        <5>2. w.at = "check" => w.token = k
          BY <2>2, <3>2, <5>1 DEF Waiter
        <5>3. w.at # "sleep"
          BY <2>2, <3>2, <5>1 DEF Waiter
        <5>4. waiter'[k] = w
          BY <3>1, <4>1, <5>1, MoveIs DEF StartWaiting
        <5>. QED  BY <5>2, <5>3, <5>4
      <4>2. CASE Check(k)
        <5>1. waiter[k].token = k
          BY <3>2, <4>2 DEF Check, Gathers
        <5>2. \A hr : [waiter[k] EXCEPT !.at = "callback", !.hr = hr].token = waiter[k].token
          BY <2>2, <3>2 DEF Waiter
        <5>3. [waiter[k] EXCEPT !.at = "sleep"].token = waiter[k].token
          BY <2>2, <3>2 DEF Waiter
        <5>4. \E w : Move(k, w) /\ w.token = waiter[k].token
          BY <4>2, <5>2, <5>3 DEF Check
        <5>. QED  BY <3>1, <5>1, <5>4, MoveIs
      <4>3. CASE Callback(k)
        <5>1. [waiter[k] EXCEPT !.at = "reset"].at = "reset"
          BY <2>2, <3>2 DEF Waiter
        <5>2. waiter'[k].at = "reset"
          BY <3>1, <4>3, <5>1, MoveIs DEF Callback
        <5>. QED  BY <5>2
      <4>. QED  BY <1>2, <3>2, <3>3, <4>1, <4>2, <4>3 DEF WaitListRequestEnd
    <3>6. waiter'[k].hr = "S_OK" => Acked(k) \/ waiter[k].hr = "S_OK"
      <4>1. CASE StartWaiting(k)
        <5>1. PICK w : w = IF token \in DOMAIN reponses THEN [waiter[k] EXCEPT !.at = "check", !.token = token]
                                                        ELSE [waiter[k] EXCEPT !.at = "callback", !.hr = "E_FAIL"]
          OBVIOUS
        <5>2. w.hr \in {waiter[k].hr, "E_FAIL"}
          BY <2>2, <3>2, <5>1 DEF Waiter
        <5>3. waiter'[k] = w
          BY <3>1, <4>1, <5>1, MoveIs DEF StartWaiting
        <5>. QED  BY <5>2, <5>3
      <4>2. CASE Check(k)
        <5>1. waiter[k].token = k
          BY <3>2, <4>2 DEF Check, Gathers
        <5>2. Answer(k) = "Ack" => Acked(k)
          BY <5>1 DEF Answer, Acked
        <5>3. \A hr : [waiter[k] EXCEPT !.at = "callback", !.hr = hr].hr = hr
          BY <2>2, <3>2 DEF Waiter
        <5>4. [waiter[k] EXCEPT !.at = "sleep"].hr = waiter[k].hr
          BY <2>2, <3>2 DEF Waiter
        <5>5. \/ Move(k, [waiter[k] EXCEPT !.at = "sleep"])
              \/ Move(k, [waiter[k] EXCEPT !.at = "callback", !.hr = IF Answer(k) = "Ack" THEN "S_OK" ELSE "E_FAIL"])
          BY <4>2 DEF Check
        <5>6. CASE Move(k, [waiter[k] EXCEPT !.at = "sleep"])
          BY <3>1, <5>4, <5>6, MoveIs
        <5>7. CASE Move(k, [waiter[k] EXCEPT !.at = "callback",
                                             !.hr = IF Answer(k) = "Ack" THEN "S_OK" ELSE "E_FAIL"])
          <6>1. PICK hr : hr = IF Answer(k) = "Ack" THEN "S_OK" ELSE "E_FAIL"
            OBVIOUS
          <6>2. PICK w : w = [waiter[k] EXCEPT !.at = "callback", !.hr = hr]
            OBVIOUS
          <6>3. Move(k, w) /\ w.hr = hr
            BY <5>3, <5>7, <6>1, <6>2
          <6>4. waiter'[k] = w
            BY <3>1, <6>3, MoveIs
          <6>. QED  BY <5>2, <6>1, <6>3, <6>4
        <5>. QED  BY <5>5, <5>6, <5>7
      <4>3. CASE Callback(k)
        <5>1. [waiter[k] EXCEPT !.at = "reset"].hr = waiter[k].hr
          BY <2>2, <3>2 DEF Waiter
        <5>. QED  BY <3>1, <4>3, <5>1, MoveIs DEF Callback
      <4>. QED  BY <1>2, <3>2, <3>3, <4>1, <4>2, <4>3 DEF WaitListRequestEnd
    <3>7. Acked(k)' => Acked(k)
      BY <2>1 DEF Quiet, NoAnswer
    <3>. QED  BY <2>1, <3>1, <3>2, <3>4, <3>5, <3>6, <3>7, GathersStays DEF Quiet, SameWire, SameBack
  <2>. QED  BY <2>3 DEF Gathering
<1>3. CASE \/ \E t \in Threads, type \in Types : CheckPending(t, type)
           \/ Lapse \/ ConnectServer \/ AwaitServer \/ DisconnectServer
  <2>1. UNCHANGED <<result, waiter, raced>> /\ Live' = Live
    BY <1>3, LiveStays DEF CheckPending, Lapse, ConnectServer, AwaitServer, DisconnectServer, listVars
  <2>2. Quiet
    BY <1>3, QuietIs
  <2>3. ASSUME NEW k \in Live \ raced
        PROVE  Gathers(k)'
    <3>1. k \in Calls /\ Gathers(k)
      BY DEF Gathering, Live
    <3>2. Acked(k)' => Acked(k)
      BY <2>2 DEF Quiet, NoAnswer
    <3>3. waiter'[k].at \in {"check", "sleep"} => waiter'[k].token = k
      BY <2>1, <3>1 DEF Gathers
    <3>. QED  BY <2>1, <2>2, <3>1, <3>2, <3>3, GathersStays DEF Quiet, SameWire, SameBack
  <2>. QED  BY <2>1, <2>3 DEF Gathering
<1>4. CASE Serve
  <2>1. UNCHANGED <<result, waiter, raced>> /\ Live' = Live
    BY <1>4, LiveStays DEF Serve, listVars
  <2>2. ASSUME NEW k \in Live \ raced
        PROVE  Gathers(k)'
    <3>1. k \in Calls /\ Gathers(k)
      BY DEF Gathering, Live
    <3>2. waiter'[k].at \in {"check", "sleep"} => waiter'[k].token = k
      BY <2>1, <3>1 DEF Gathers
    <3>3. CASE Passed
      <4>1. Acked(k)' => Acked(k)
        BY <3>3 DEF Passed, NoAnswer
      <4>. QED  BY <2>1, <3>1, <3>2, <3>3, <4>1, GathersStays DEF Passed, NextWire, SameBack
    <3>4. ASSUME NEW s \in Calls, NEW n \in Nat, Served(s, n)
          PROVE  Gathers(k)'
      <4>1. CASE s = k
        BY <2>1, <3>1, <3>4, <4>1, GathersServed
      <4>2. CASE s # k
        <5>1. Acked(k)' => Acked(k)
          BY <3>4 DEF Served, NoAnswer
        <5>2. /\ items'[k] = items[k]
              /\ \A i : ListAt(i, k)' => \E j : ListAt(j, k)
              /\ \A i : (ItemAt(i, k)' <=> ItemAt(i, k)) /\ (AckAt(i, k)' <=> AckAt(i, k))
          BY <3>1, <3>4, <4>2 DEF Served, NextWire, ListTypeOK
        <5>. QED  BY <2>1, <3>1, <3>2, <5>1, <5>2, GathersStays
      <4>. QED  BY <4>1, <4>2
    <3>. QED  BY <1>4, <3>3, <3>4, ServingIs
  <2>. QED  BY <2>1, <2>2 DEF Gathering
<1>5. CASE Receive
  <2>1. UNCHANGED raced /\ Live' = Live
    BY <1>5, LiveStays DEF Receive
  <2>2. ASSUME NEW k \in Live \ raced
        PROVE  Gathers(k)'
    <3>1. k \in Calls /\ Gathers(k) /\ token = k
      BY DEF Gathering, Live, OneList
    <3>. QED  BY <1>5, <3>1, GathersReceived
  <2>. QED  BY <2>1, <2>2 DEF Gathering
<1>6. CASE ResetPending
  <2>1. raced' = raced \cup Live /\ Live' = Live
    BY <1>6, LiveStays DEF ResetPending
  <2>. QED  BY <2>1 DEF Gathering
<1>. QED  BY <1>1, <1>2, <1>3, <1>4, <1>5, <1>6 DEF Next

--------------------------------------------------------------------------------
\* What the callback got

LEMMA DeliveredStep ==
  ASSUME ListTypeOK, Bounds, Messages, OneList, EmptyResult, Gathering, Delivered, Next
  PROVE  Delivered'
<1>1. raced \subseteq raced'
  BY DEF Next, CheckPending, StartList, WaitListRequestEnd, StartWaiting, Check, Callback, EndWaiting, Lapse,
         Serve, Receive, ConnectServer, AwaitServer, ResetPending, DisconnectServer
<1>2. ASSUME NEW k \in Calls, k \notin raced, delivered[k].hr = "S_OK",
             delivered'[k] = delivered[k], waiter'[k].type = waiter[k].type
      PROVE  /\ Over(k)'
             /\ delivered'[k].type = waiter'[k].type
             /\ delivered'[k].items = [i \in 1..items'[k] |-> k]
  <2>1. /\ Over(k) /\ delivered[k].type = waiter[k].type
        /\ delivered[k].items = [i \in 1..items[k] |-> k]
    BY <1>2 DEF Delivered
  <2>2. Given(k)
    BY <1>2 DEF Bounds
  <2>3. Over(k)' /\ items'[k] = items[k]
    BY <2>1, <2>2, StaysOver
  <2>. QED  BY <1>2, <2>1, <2>3
<1>3. ASSUME UNCHANGED delivered,
             \A k \in Calls : delivered[k].hr = "S_OK" => waiter'[k].type = waiter[k].type
      PROVE  Delivered'
  BY <1>1, <1>2, <1>3 DEF Delivered
<1>4. ASSUME NEW t \in Threads, StartList(t)
      PROVE  Delivered'
  <2>1. UNCHANGED delivered
    BY <1>4 DEF StartList
  <2>2. PICK n \in Calls :
           /\ ~Given(n)
           /\ UNCHANGED waiter \/ \A k \in Calls : k # n => waiter'[k] = waiter[k]
    BY <1>4, StartsAlone
  <2>3. \A k \in Calls : delivered[k].hr = "S_OK" => waiter'[k].type = waiter[k].type
    BY <2>2 DEF Bounds
  <2>. QED  BY <1>3, <2>1, <2>3
<1>5. ASSUME NEW j \in Calls, WaitListRequestEnd(j)
      PROVE  Delivered'
  <2>1. /\ \A k \in Calls : waiter'[k].type = waiter[k].type
        /\ UNCHANGED <<wire, back, items, raced>>
    BY <1>5, ThreadIs
  <2>2. CASE Callback(j)
    <3>1. PICK d : d = [hr |-> waiter[j].hr, type |-> listType, items |-> result]
      OBVIOUS
    <3>2. d.hr = waiter[j].hr /\ d.type = listType /\ d.items = result
      BY <3>1
    <3>3. delivered'[j] = d /\ \A k \in Calls : k # j => delivered'[k] = delivered[k]
      BY <2>2, <3>1 DEF Callback, ListTypeOK
    <3>4. ASSUME j \notin raced', waiter[j].hr = "S_OK"
          PROVE  /\ Over(j)'
                 /\ delivered'[j].type = waiter'[j].type
                 /\ delivered'[j].items = [i \in 1..items'[j] |-> j]
      <4>1. j \in Live \ raced
        BY <1>1, <2>2, <3>4 DEF Callback, Live
      <4>2. listType = waiter[j].type /\ Gathers(j)
        BY <4>1 DEF OneList, Gathering
      <4>3. Over(j) /\ result = [i \in 1..items[j] |-> j]
        BY <3>4, <4>2 DEF Gathers
      <4>4. Over(j)'
        BY <2>1, <4>3, WireStays, BackStays DEF Over
      <4>. QED  BY <2>1, <3>2, <3>3, <4>2, <4>3, <4>4
    <3>5. ASSUME NEW k \in Calls, k \notin raced', delivered'[k].hr = "S_OK"
          PROVE  /\ Over(k)'
                 /\ delivered'[k].type = waiter'[k].type
                 /\ delivered'[k].items = [i \in 1..items'[k] |-> k]
      <4>1. CASE k = j
        BY <3>2, <3>3, <3>4, <3>5, <4>1
      <4>2. CASE k # j
        BY <1>1, <1>2, <2>1, <3>3, <3>5, <4>2
      <4>. QED  BY <4>1, <4>2
    <3>. QED  BY <3>5 DEF Delivered
  <2>3. CASE UNCHANGED delivered
    BY <1>3, <2>1, <2>3
  <2>. QED  BY <1>5, <2>2, <2>3 DEF WaitListRequestEnd, StartWaiting, Check, EndWaiting, history
<1>6. CASE \/ \E t \in Threads, type \in Types : CheckPending(t, type)
           \/ Lapse \/ Serve \/ Receive \/ ConnectServer \/ AwaitServer \/ ResetPending \/ DisconnectServer
  <2>1. UNCHANGED delivered
    BY <1>6 DEF CheckPending, Lapse, Serve, Receive, ConnectServer, AwaitServer, ResetPending,
                DisconnectServer, history
  <2>. QED  BY <1>3, <1>6, <2>1, LiveStays
<1>. QED  BY <1>4, <1>5, <1>6 DEF Next
--------------------------------------------------------------------------------
\* The invariant

LEMMA InitInvariant ==
  ASSUME Init
  PROVE  LInv
<1>1. wire = <<>> /\ back = <<>> /\ reponses = [k \in {} |-> "None"]
  BY DEF Init
<1>2. DOMAIN reponses = {} /\ Len(wire) = 0 /\ Len(back) = 0
  BY <1>1
<1>3. \A i, k : ~ListAt(i, k) /\ ~ItemAt(i, k) /\ ~AckAt(i, k) /\ ~Acked(k)
  BY <1>2 DEF ListAt, ItemAt, AckAt, Acked
<1>4. /\ NoWaiter \in Waiter /\ NoWaiter.at = "none"
      /\ Nothing \in [hr: Results, type: Types \cup {None}, items: Seq(Nat)] /\ Nothing.hr = "None"
  BY DEF NoWaiter, Nothing, Waiter, Places, Results
<1>5. /\ \A k \in Calls : waiter[k] = NoWaiter /\ delivered[k] = Nothing
      /\ Live = {}
  BY <1>4 DEF Init, Live
<1>6. ListTypeOK
  <2>1. waiter \in [Calls -> Waiter]
    BY <1>4 DEF Init
  <2>2. delivered \in [Calls -> [hr: Results, type: Types \cup {None}, items: Seq(Nat)]]
    BY <1>4 DEF Init
  <2>3. nextCmdToken \in 1..(MaxLists + 1) /\ items \in [Calls -> Nat] /\ raced \subseteq Calls
    BY Constants DEF Init
  <2>4. listType \in Types \cup {None} /\ token \in Nat /\ result \in Seq(Nat)
    BY DEF Init
  <2>5. caller \in [Threads -> Types \cup {None}] /\ status \in {"SimConnected", "Connecting", "Connected"}
    BY DEF Init
  <2>. QED  BY <1>1, <1>2, <2>1, <2>2, <2>3, <2>4, <2>5 DEF ListTypeOK
<1>7. Bounds
  BY <1>2, <1>3, <1>4, <1>5 DEF Bounds, Init
<1>8. Messages
  BY <1>3 DEF Messages
<1>9. OneList /\ Gathering
  BY <1>5 DEF OneList, Gathering
<1>10. Awaited /\ EmptyResult
  BY <1>3 DEF Awaited, EmptyResult, Init
<1>11. Delivered
  BY <1>4, <1>5 DEF Delivered
<1>. QED  BY <1>6, <1>7, <1>8, <1>9, <1>10, <1>11 DEF LInv

LEMMA InvariantStays ==
  ASSUME LInv, UNCHANGED vars
  PROVE  LInv'
<1>1. UNCHANGED <<listType, token, result, caller, reponses, waiter, status, serverConnected, fresh>>
  BY DEF vars, listVars, connVars
<1>2. UNCHANGED <<wire, back, nextCmdToken, items, delivered, late, raced>>
  BY DEF vars, history
<1>3. /\ \A i, k : ListAt(i, k)' <=> ListAt(i, k)
      /\ \A i, k : (ItemAt(i, k)' <=> ItemAt(i, k)) /\ (AckAt(i, k)' <=> AckAt(i, k))
      /\ \A k : (Acked(k)' <=> Acked(k)) /\ (Given(k)' <=> Given(k))
  BY <1>1, <1>2, WireStays, BackStays DEF Acked, Given
<1>4. \A k : Over(k)' <=> Over(k)
  BY <1>3 DEF Over
<1>5. Live' = Live /\ (InPeace' <=> InPeace)
  BY <1>1, <1>2 DEF Live, InPeace
<1>6. ListTypeOK'
  BY <1>1, <1>2 DEF LInv, ListTypeOK
<1>7. Bounds' /\ Messages'
  <2>1. Bounds'
    BY <1>1, <1>2, <1>3 DEF LInv, Bounds
  <2>2. Messages'
    BY <1>3, <1>4 DEF LInv, Messages
  <2>. QED  BY <2>1, <2>2
<1>8. OneList' /\ Awaited' /\ EmptyResult'
  <2>1. OneList'
    BY <1>1, <1>2, <1>5 DEF LInv, OneList
  <2>2. Awaited'
    BY <1>1, <1>3, <1>5 DEF LInv, Awaited
  <2>3. EmptyResult'
    BY <1>1, <1>5 DEF LInv, EmptyResult
  <2>. QED  BY <2>1, <2>2, <2>3
<1>9. Gathering'
  <2>1. ASSUME NEW k \in Live \ raced
        PROVE  Gathers(k)'
    <3>1. k \in Calls /\ Gathers(k)
      BY DEF LInv, Gathering, Live
    <3>2. waiter'[k].at \in {"check", "sleep"} => waiter'[k].token = k
      BY <1>1, <3>1 DEF Gathers
    <3>. QED  BY <1>1, <1>2, <1>3, <3>1, <3>2, GathersStays
  <2>. QED  BY <1>2, <1>5, <2>1 DEF Gathering
<1>10. Delivered'
  BY <1>1, <1>2, <1>4 DEF LInv, Delivered
<1>. QED  BY <1>6, <1>7, <1>8, <1>9, <1>10 DEF LInv

LEMMA ListInvariant == Spec => []LInv
<1>1. Init => LInv
  BY InitInvariant
<1>2. LInv /\ Next => LInv'
  <2>1. ASSUME LInv, Next
        PROVE  LInv'
    <3>1. /\ ListTypeOK /\ Bounds /\ Messages /\ OneList /\ Awaited /\ EmptyResult /\ Gathering /\ Delivered
      BY <2>1 DEF LInv
    <3>2. ListTypeOK' /\ Bounds' /\ Messages' /\ OneList'
      BY <2>1, <3>1, TypeStep, BoundsStep, MessagesStep, OneListStep
    <3>3. Awaited' /\ EmptyResult'
      BY <2>1, <3>1, AwaitedStep, EmptyResultStep
    <3>4. Gathering' /\ Delivered'
      BY <2>1, <3>1, GatheringStep, DeliveredStep
    <3>. QED  BY <3>2, <3>3, <3>4 DEF LInv
  <2>. QED  BY <2>1
<1>3. LInv /\ UNCHANGED vars => LInv'
  BY InvariantStays
<1>. QED  BY <1>1, <1>2, <1>3, PTL DEF Spec

--------------------------------------------------------------------------------
\* Of the calls of list() that no other call and no connectServer() raced, one at most has a thread between
\* list() and the end of its callback (WASimClient.h:508), for any number of threads, calls and connections.
THEOREM ListsAreOneAtATime == Spec => []OneListAtATime
<1>1. LInv => OneListAtATime
  BY DEF LInv, OneList, OneListAtATime
<1>. QED  BY <1>1, ListInvariant, PTL

\* The callback of such a list gets S_OK only with the type that was asked for and every item the server
\* sent for it, in order, and no item of another list: the filter on the token (WASimClient.cpp:1473),
\* the reset after each list and the order of the messages together see to it.
THEOREM SuccessfulListsAreComplete == Spec => []SuccessIsComplete
<1>1. LInv => SuccessIsComplete
  BY DEF LInv, Delivered, SuccessIsComplete
<1>. QED  BY <1>1, ListInvariant, PTL

================================================================================
