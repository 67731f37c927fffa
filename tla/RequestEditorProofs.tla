-------------------------- MODULE RequestEditorProofs --------------------------
(***************************************************************************)
(* Theorems about the data requests of WASimUI, for every number of rows,  *)
(* requests, values and events in the queues, and every file.              *)
(*                                                                         *)
(* Rows are added and removed by folds, which are recursions over finite   *)
(* sets: SetRecursion says that such a recursion has a solution, and       *)
(* SubsetInduction shows of the solution what AddedRows and RemovedRows    *)
(* state.  LoadedRows and ImportedRows are about what files add.  The two  *)
(* invariants follow, TableInv about the table, the client and values on   *)
(* their way, SignalInv about client events and the button "Update"; then  *)
(* what each step does to them, and the theorems.                          *)
(***************************************************************************)
EXTENDS RequestEditor, FiniteSetTheorems, SequenceTheorems, WellFoundedInduction, TLAPS

--------------------------------------------------------------------------------
\* Folds over finite sets

\* A set of subsets of a finite set has one that is minimal; proofs by induction over subsets use it.
LEMMA MinimalSubset ==
  ASSUME NEW S, IsFiniteSet(S), NEW F \in SUBSET (SUBSET S), F # {}
  PROVE  \E T \in F : \A U \in F : U \subseteq T => U = T
<1>1. IsWellFoundedOn(StrictSubsetOrdering(S), SUBSET S)
  BY FS_StrictSubsetOrderingWellFounded, FS_FiniteSubsetsOfFinite
<1>2. PICK T \in F : \A U \in F : ~(<<U, T>> \in StrictSubsetOrdering(S))
  BY <1>1, WFMin
<1>3. ASSUME NEW U \in F, U \subseteq T, U # T
      PROVE  FALSE
  BY <1>2, <1>3 DEF StrictSubsetOrdering
<1>. QED  BY <1>2, <1>3

\* What holds of the empty set, and of each set because it holds of the set without one of its
\* members, holds of all subsets of a finite set.  G is the set of those of which it holds.
LEMMA SubsetInduction ==
  ASSUME NEW S, IsFiniteSet(S), NEW G,
         {} \in G,
         \A T \in SUBSET S : T # {} => \E x \in T : T \ {x} \in G => T \in G
  PROVE  SUBSET S \subseteq G
<1> DEFINE F == (SUBSET S) \ G
<1>1. SUFFICES ASSUME F # {}
               PROVE  FALSE
  OBVIOUS
<1>2. PICK T \in F : \A U \in F : U \subseteq T => U = T
  <2>1. F \in SUBSET (SUBSET S)
    OBVIOUS
  <2>. HIDE DEF F
  <2>. QED  BY <1>1, <2>1, MinimalSubset
<1>3. T \in SUBSET S /\ T # {} /\ T \notin G
  BY <1>2
<1>4. PICK x \in T : T \ {x} \in G => T \in G
  BY <1>3
<1>5. T \ {x} \in G
  BY <1>2, <1>3, <1>4
<1>. QED  BY <1>3, <1>4, <1>5

\* g is a solution of a recursion over the subsets of S, from the value b of the empty set.
Solves(g, S, b, pick, step) ==
    \A T \in SUBSET S : g[T] = IF T = {} THEN b ELSE step[<<pick[T], g[T \ {pick[T]}]>>]

\* A recursion which takes one member after the other from a finite set has a solution.  Pick says
\* which member it takes of a set, step what it does with it and with the value for the others.
LEMMA SetRecursion ==
  ASSUME NEW S, IsFiniteSet(S), NEW V, NEW b \in V,
         NEW pick, \A T \in SUBSET S : T # {} => pick[T] \in T,
         NEW step \in [S \X V -> V]
  PROVE  \E g \in [SUBSET S -> V] : Solves(g, S, b, pick, step)
<1> DEFINE P == (SUBSET S) \X V
           Less(T) == T \ {pick[T]}
           Closed(Q) == /\ <<{}, b>> \in Q
                        /\ \A T \in SUBSET S, v \in V :
                             T # {} /\ <<Less(T), v>> \in Q => <<T, step[<<pick[T], v>>]>> \in Q
           R == {p \in P : \A Q \in SUBSET P : Closed(Q) => p \in Q}
<1>1. ASSUME NEW T \in SUBSET S, T # {}
      PROVE  pick[T] \in T /\ Less(T) \in SUBSET S /\ \A v \in V : step[<<pick[T], v>>] \in V
  BY <1>1
<1>2. Closed(R)
  <2>1. <<{}, b>> \in R
    <3>1. <<{}, b>> \in P
      OBVIOUS
    <3>2. ASSUME NEW Q \in SUBSET P, Closed(Q)
          PROVE  <<{}, b>> \in Q
      BY <3>2
    <3> HIDE DEF P, Closed
    <3>. QED  BY <3>1, <3>2
  <2>2. ASSUME NEW T \in SUBSET S, NEW v \in V, T # {}, <<Less(T), v>> \in R
        PROVE  <<T, step[<<pick[T], v>>]>> \in R
    <3>1. <<T, step[<<pick[T], v>>]>> \in P
      <4>1. step[<<pick[T], v>>] \in V
        BY <1>1, <2>2
      <4>. QED  BY <4>1
    <3>2. ASSUME NEW Q \in SUBSET P, Closed(Q)
          PROVE  <<T, step[<<pick[T], v>>]>> \in Q
      BY <2>2, <3>2
    <3> HIDE DEF P, Closed
    <3>. QED  BY <3>1, <3>2
  <2>. QED  BY <2>1, <2>2
<1>3. R \in SUBSET P /\ \A Q \in SUBSET P : Closed(Q) => R \subseteq Q
  OBVIOUS
<1> HIDE DEF R
<1>4. \A T \in SUBSET S : \E v \in V : <<T, v>> \in R
  <2> DEFINE G == {T \in SUBSET S : \E v \in V : <<T, v>> \in R}
  <2>1. {} \in G
    BY <1>2
  <2>2. ASSUME NEW T \in SUBSET S, T # {}
        PROVE  \E x \in T : T \ {x} \in G => T \in G
    <3>1. pick[T] \in T /\ Less(T) \in SUBSET S
      BY <1>1, <2>2
    <3>2. ASSUME Less(T) \in G
          PROVE  T \in G
      <4>1. PICK v \in V : <<Less(T), v>> \in R
        BY <3>2
      <4>2. step[<<pick[T], v>>] \in V
        BY <1>1, <2>2
      <4>. QED  BY <1>2, <2>2, <4>1, <4>2
    <3> HIDE DEF G
    <3>. QED  BY <3>1, <3>2
  <2>3. SUBSET S \subseteq G
    <3> HIDE DEF G
    <3>. QED  BY <2>1, <2>2, SubsetInduction
  <2>. QED  BY <2>3
<1>5. \A T \in SUBSET S : \A v, w \in V : <<T, v>> \in R /\ <<T, w>> \in R => v = w
  <2> DEFINE G == {T \in SUBSET S : \A v, w \in V : <<T, v>> \in R /\ <<T, w>> \in R => v = w}
  <2>1. {} \in G
    <3>1. ASSUME NEW w \in V, w # b, <<{}, w>> \in R
          PROVE  FALSE
      <4>1. Closed(R \ {<<{}, w>>})
        BY <1>2, <3>1
      <4>. QED  BY <1>3, <3>1, <4>1
    <3>. QED  BY <3>1
  <2>2. ASSUME NEW T \in SUBSET S, T # {}, Less(T) \in G
        PROVE  T \in G
    <3>1. PICK u \in V : <<Less(T), u>> \in R
      BY <1>1, <1>4, <2>2
    <3>2. ASSUME NEW w \in V, w # step[<<pick[T], u>>], <<T, w>> \in R
          PROVE  FALSE
      <4>1. \A v \in V : <<Less(T), v>> \in R => v = u
        BY <2>2, <3>1
      <4>2. Closed(R \ {<<T, w>>})
        BY <1>2, <2>2, <3>2, <4>1
      <4>. QED  BY <1>3, <3>2, <4>2
    <3>. QED  BY <3>2
  <2>3. SUBSET S \subseteq G
    <3>1. \A T \in SUBSET S : T # {} => \E x \in T : T \ {x} \in G => T \in G
      BY <1>1, <2>2
    <3> HIDE DEF G
    <3>. QED  BY <2>1, <3>1, SubsetInduction
  <2>. QED  BY <2>3
<1> DEFINE g == [T \in SUBSET S |-> CHOOSE v \in V : <<T, v>> \in R]
<1>6. \A T \in SUBSET S : g[T] \in V /\ <<T, g[T]>> \in R
  BY <1>4
<1>7. ASSUME NEW T \in SUBSET S
      PROVE  g[T] = IF T = {} THEN b ELSE step[<<pick[T], g[T \ {pick[T]}]>>]
  <2>1. CASE T = {}
    BY <1>2, <1>5, <1>6, <2>1
  <2>2. CASE T # {}
    <3>1. Less(T) \in SUBSET S /\ step[<<pick[T], g[Less(T)]>>] \in V
      BY <1>1, <1>6, <2>2
    <3>2. <<T, step[<<pick[T], g[Less(T)]>>]>> \in R
      BY <1>2, <1>6, <2>2, <3>1
    <3>. QED  BY <1>5, <1>6, <2>2, <3>1, <3>2
  <2>. QED  BY <2>1, <2>2
<1>8. g \in [SUBSET S -> V]
  BY <1>6
<1>9. Solves(g, S, b, pick, step)
  BY <1>7 DEF Solves
<1>. QED  BY <1>8, <1>9

\* A finite set of numbers has a greatest and a least.
LEMMA Extremes ==
  ASSUME NEW n \in Nat, NEW T \in SUBSET (1..n), T # {}
  PROVE  /\ Max(T) \in T /\ \A y \in T : y <= Max(T)
         /\ Min(T) \in T /\ \A y \in T : Min(T) <= y
<1> DEFINE G == {U \in SUBSET (1..n) : U # {} => /\ \E x \in U : \A y \in U : x >= y
                                                 /\ \E x \in U : \A y \in U : x <= y}
<1>1. IsFiniteSet(1..n)
  BY FS_Interval
<1>2. {} \in G
  OBVIOUS
<1>3. ASSUME NEW U \in SUBSET (1..n), NEW x \in U, U \ {x} \in G
      PROVE  U \in G
  <2>1. CASE U \ {x} = {}
    <3>1. U = {x}
      BY <2>1
    <3>2. x >= x /\ x <= x
      OBVIOUS
    <3>. QED  BY <3>1, <3>2
  <2>2. CASE U \ {x} # {}
    <3>1. PICK a \in U \ {x} : \A y \in U \ {x} : a >= y
      BY <1>3, <2>2
    <3>2. PICK b \in U \ {x} : \A y \in U \ {x} : b <= y
      BY <1>3, <2>2
    <3>3. x \in Nat /\ a \in Nat /\ b \in Nat /\ U \subseteq Nat
      OBVIOUS
    <3>4. \E z \in U : \A y \in U : z >= y
      <4>1. CASE x >= a
        BY <3>1, <3>3, <4>1
      <4>2. CASE a >= x
        BY <3>1, <3>3, <4>2
      <4>. QED  BY <3>3, <4>1, <4>2
    <3>5. \E z \in U : \A y \in U : z <= y
      <4>1. CASE x <= b
        BY <3>2, <3>3, <4>1
      <4>2. CASE b <= x
        BY <3>2, <3>3, <4>2
      <4>. QED  BY <3>3, <4>1, <4>2
    <3>. QED  BY <3>4, <3>5
  <2>. QED  BY <2>1, <2>2
<1>4. T \in G
  <2> HIDE DEF G
  <2>1. \A U \in SUBSET (1..n) : U # {} => \E x \in U : U \ {x} \in G => U \in G
    BY <1>3
  <2>2. PICK S : S = 1..n
    OBVIOUS
  <2>3. IsFiniteSet(S) /\ \A U \in SUBSET S : U # {} => \E x \in U : U \ {x} \in G => U \in G
    BY ONLY <1>1, <2>1, <2>2
  <2>4. SUBSET S \subseteq G
    BY ONLY <1>2, <2>3, SubsetInduction
  <2>. QED  BY <2>2, <2>4
<1>5. PICK a \in T : \A y \in T : a >= y
  BY <1>4
<1>6. PICK b \in T : \A y \in T : b <= y
  BY <1>4
<1>7. Max(T) \in T /\ \A y \in T : Max(T) >= y
  BY <1>5 DEF Max
<1>8. Min(T) \in T /\ \A y \in T : Min(T) <= y
  BY <1>6 DEF Min
<1>. QED  BY <1>7, <1>8

--------------------------------------------------------------------------------
\* The table

\* A row whose value, if it shows one, is its own request's.  Requests are numbered like their ids.
OwnRow == {r \in [id: Nat, size: Sizes, key: Keys \cup {None}, made: Nat, shown: Nat \cup {None}] :
              r.made = r.id /\ r.shown \in {None, r.id}}

Table == {rs \in Seq(OwnRow) : \A i, j \in DOMAIN rs : rs[i].id = rs[j].id => i = j}

\* The table has one row more, or another one in the place of one.
LEMMA AddedRow ==
  ASSUME NEW rs \in Table, NEW r \in OwnRow
  PROVE  /\ AddRequest(rs, r) \in Table
         /\ Ids(AddRequest(rs, r)) = Ids(rs) \cup {r.id}
         /\ \A i \in DOMAIN AddRequest(rs, r) :
              LET row == AddRequest(rs, r)[i]
              IN  IF row.id = r.id THEN row.size = r.size ELSE \E j \in DOMAIN rs : rs[j] = row
<1>1. /\ rs \in Seq(OwnRow) /\ DOMAIN rs = 1..Len(rs) /\ Len(rs) \in Nat
      /\ \A i \in DOMAIN rs : rs[i] \in OwnRow
      /\ \A i, j \in DOMAIN rs : rs[i].id = rs[j].id => i = j
  BY DEF Table
<1>2. CASE FindRequestRow(rs, r.id) = {}
  <2>1. \A i \in DOMAIN rs : rs[i].id # r.id
    BY <1>2 DEF FindRequestRow
  <2>2. PICK a : a = Append(rs, r)
    OBVIOUS
  <2>3. /\ a \in Seq(OwnRow) /\ DOMAIN a = DOMAIN rs \cup {Len(rs) + 1}
        /\ a[Len(rs) + 1] = r /\ \A i \in DOMAIN rs : a[i] = rs[i] /\ i # Len(rs) + 1
    BY <1>1, <2>2
  <2>4. a \in Table
    BY <1>1, <2>1, <2>3 DEF Table
  <2>5. Ids(a) = Ids(rs) \cup {r.id}
    BY <2>3 DEF Ids
  <2>6. \A i \in DOMAIN a : IF a[i].id = r.id THEN a[i].size = r.size ELSE \E j \in DOMAIN rs : rs[j] = a[i]
    BY <2>1, <2>3
  <2>. QED  BY <1>2, <2>2, <2>4, <2>5, <2>6 DEF AddRequest
<1>3. CASE FindRequestRow(rs, r.id) # {}
  <2>1. PICK k \in DOMAIN rs : rs[k].id = r.id
    BY <1>3 DEF FindRequestRow
  <2>2. PICK a : a = [i \in DOMAIN rs |-> IF rs[i].id = r.id THEN [r EXCEPT !.shown = rs[i].shown] ELSE rs[i]]
    OBVIOUS
  <2>3. DOMAIN a = DOMAIN rs /\ \A i \in DOMAIN rs : a[i].id = rs[i].id
    BY <2>2 DEF OwnRow
  <2>4. \A i \in DOMAIN rs : a[i] \in OwnRow
    BY <1>1, <2>2 DEF OwnRow
  <2>5. a \in Seq(OwnRow)
    <3>1. a \in [1..Len(rs) -> OwnRow]
      BY <1>1, <2>2, <2>4
    <3>. QED  BY <1>1, <3>1
  <2>6. a \in Table
    BY <1>1, <2>3, <2>5 DEF Table
  <2>7. Ids(a) = Ids(rs) \cup {r.id}
    BY <2>1, <2>3 DEF Ids
  <2>8. \A i \in DOMAIN a : IF a[i].id = r.id THEN a[i].size = r.size ELSE \E j \in DOMAIN rs : rs[j] = a[i]
    BY <2>2, <2>3 DEF OwnRow
  <2>. QED  BY <1>3, <2>2, <2>6, <2>7, <2>8 DEF AddRequest
<1>. QED  BY <1>2, <1>3

\* The recursion by which FoldLeft adds rows.
Adding(base, added, f) ==
    [T \in SUBSET DOMAIN added |-> IF T = {} THEN base ELSE AddRequest(f[T \ {Max(T)}], added[Max(T)])]

\* Adding rows one after the other is defined for all of them, and for every part.
LEMMA AddingDefined ==
  ASSUME NEW base \in Table, NEW added \in Seq(OwnRow)
  PROVE  \E f : /\ FoldLeft(AddRequest, base, added) = f[DOMAIN added]
                /\ f[{}] = base
                /\ \A T \in SUBSET DOMAIN added : T # {} =>
                     f[T] = AddRequest(f[T \ {Max(T)}], added[Max(T)])
<1> DEFINE f == CHOOSE h : h = Adding(base, added, h)
<1>1. FoldLeft(AddRequest, base, added) = f[DOMAIN added]
  BY Zenon DEF FoldLeft, MapThenFoldSet, Adding
<1>2. DOMAIN added = 1..Len(added) /\ Len(added) \in Nat /\ \A k \in DOMAIN added : added[k] \in OwnRow
  OBVIOUS
<1>3. PICK S : S = DOMAIN added
  OBVIOUS
<1>4. IsFiniteSet(S)
  <2>1. IsFiniteSet(1..Len(added))
    BY <1>2, FS_Interval
  <2>. QED  BY <1>2, <1>3, <2>1
<1>5. \A T \in SUBSET S : T # {} => Max(T) \in T
  <2>1. ASSUME NEW T \in SUBSET (1..Len(added)), T # {}
        PROVE  Max(T) \in T
    BY <1>2, <2>1, Extremes
  <2>. QED  BY <1>2, <1>3, <2>1
<1>6. PICK pick : pick = [T \in SUBSET S |-> Max(T)]
  OBVIOUS
<1>7. PICK step : step = [p \in S \X Table |-> AddRequest(p[2], added[p[1]])]
  OBVIOUS
<1>8. step \in [S \X Table -> Table] /\ \A k \in S, rs \in Table : step[<<k, rs>>] = AddRequest(rs, added[k])
  <2>1. \A k \in S, rs \in Table : AddRequest(rs, added[k]) \in Table
    BY <1>2, <1>3, AddedRow
  <2>. QED  BY <1>7, <2>1
<1>9. PICK g \in [SUBSET S -> Table] : Solves(g, S, base, pick, step)
  <2>1. \A T \in SUBSET S : T # {} => pick[T] \in T
    BY <1>5, <1>6
  <2>. QED  BY <1>4, <1>8, <2>1, SetRecursion, Zenon
<1>10. ASSUME NEW T \in SUBSET S
       PROVE  g[T] = IF T = {} THEN base ELSE AddRequest(g[T \ {Max(T)}], added[Max(T)])
  <2>1. CASE T = {}
    BY <1>9, <2>1 DEF Solves
  <2>2. CASE T # {}
    <3>1. pick[T] = Max(T) /\ Max(T) \in S /\ T \ {Max(T)} \in SUBSET S
      BY <1>5, <1>6, <2>2
    <3>. QED  BY <1>8, <1>9, <2>2, <3>1 DEF Solves
  <2>. QED  BY <2>1, <2>2
<1>11. g = Adding(base, added, g)
  <2>1. g = [T \in SUBSET S |-> IF T = {} THEN base ELSE AddRequest(g[T \ {Max(T)}], added[Max(T)])]
    BY <1>10
  <2>. QED  BY <1>3, <2>1 DEF Adding
<1>12. f = Adding(base, added, f)
  BY <1>11, Zenon
<1>. HIDE DEF f
<1>13. \A T \in SUBSET DOMAIN added : f[T] = IF T = {} THEN base ELSE AddRequest(f[T \ {Max(T)}], added[Max(T)])
  <2>1. PICK h : h = f
    OBVIOUS
  <2>2. h = Adding(base, added, h)
    BY <1>12, <2>1
  <2>3. \A T \in SUBSET DOMAIN added : h[T] = Adding(base, added, h)[T]
    BY <2>2
  <2>4. \A T \in SUBSET DOMAIN added : h[T] = IF T = {} THEN base ELSE AddRequest(h[T \ {Max(T)}], added[Max(T)])
    BY <2>3 DEF Adding
  <2>. QED  BY <2>1, <2>4
<1>14. f[{}] = base
  BY <1>13
<1>. QED  BY <1>1, <1>13, <1>14

\* Rows with ids of their own are added: the table has them, and its other rows as they were.
LEMMA AddedRows ==
  ASSUME NEW base \in Table, NEW added \in Table
  PROVE  LET all == FoldLeft(AddRequest, base, added)
         IN  /\ all \in Table
             /\ Ids(all) = Ids(base) \cup Ids(added)
             /\ \A i \in DOMAIN all :
                  \/ \E k \in DOMAIN added : all[i].id = added[k].id /\ all[i].size = added[k].size
                  \/ all[i].id \notin Ids(added) /\ \E j \in DOMAIN base : base[j] = all[i]
<1>1. /\ added \in Seq(OwnRow) /\ DOMAIN added = 1..Len(added) /\ Len(added) \in Nat
      /\ \A k \in DOMAIN added : added[k] \in OwnRow
      /\ \A k, m \in DOMAIN added : added[k].id = added[m].id => k = m
  BY DEF Table
<1>2. PICK f : /\ FoldLeft(AddRequest, base, added) = f[DOMAIN added]
               /\ f[{}] = base
               /\ \A T \in SUBSET DOMAIN added : T # {} =>
                    f[T] = AddRequest(f[T \ {Max(T)}], added[Max(T)])
  <2>1. added \in Seq(OwnRow)
    BY <1>1
  <2>. QED  BY <2>1, AddingDefined, Zenon
<1>3. PICK S : S = DOMAIN added
  OBVIOUS
<1> DEFINE OfAdded(T, row) == \E k \in T : row.id = added[k].id /\ row.size = added[k].size
           OfBase(T, row) == (\A k \in T : row.id # added[k].id) /\ \E j \in DOMAIN base : base[j] = row
           G == {T \in SUBSET S : /\ f[T] \in Table
                                  /\ Ids(f[T]) = Ids(base) \cup {added[k].id : k \in T}
                                  /\ \A i \in DOMAIN f[T] : OfAdded(T, f[T][i]) \/ OfBase(T, f[T][i])}
<1>4. {} \in G
  BY <1>2
<1>5. ASSUME NEW T \in SUBSET S, T # {}, T \ {Max(T)} \in G
      PROVE  T \in G
  <2>1. PICK m : m = Max(T)
    OBVIOUS
  <2>2. m \in T /\ m \in S /\ added[m] \in OwnRow
    <3>1. Max(T) \in T
      BY <1>1, <1>3, <1>5, Extremes
    <3>. QED  BY <1>1, <1>3, <2>1, <3>1
  <2>3. PICK L : L = f[T \ {m}]
    OBVIOUS
  <2>4. PICK x : x = added[m]
    OBVIOUS
  <2>5. PICK a : a = AddRequest(L, x)
    OBVIOUS
  <2>6. /\ L \in Table /\ Ids(L) = Ids(base) \cup {added[k].id : k \in T \ {m}}
        /\ \A i \in DOMAIN L : OfAdded(T \ {m}, L[i]) \/ OfBase(T \ {m}, L[i])
    BY <1>5, <2>1, <2>3
  <2>7. /\ a \in Table /\ Ids(a) = Ids(L) \cup {x.id}
        /\ \A i \in DOMAIN a : IF a[i].id = x.id THEN a[i].size = x.size ELSE \E j \in DOMAIN L : L[j] = a[i]
    BY <2>2, <2>4, <2>5, <2>6, AddedRow
  <2>8. f[T] = a
    BY <1>2, <1>3, <1>5, <2>1, <2>3, <2>4, <2>5
  <2>9. Ids(a) = Ids(base) \cup {added[k].id : k \in T}
    BY <2>2, <2>4, <2>6, <2>7
  <2>10. ASSUME NEW i \in DOMAIN a
         PROVE  OfAdded(T, a[i]) \/ OfBase(T, a[i])
    <3>1. CASE a[i].id = x.id
      BY <2>2, <2>4, <2>7, <3>1
    <3>2. CASE a[i].id # x.id
      <4>1. PICK j \in DOMAIN L : L[j] = a[i]
        BY <2>7, <3>2
      <4>2. CASE OfAdded(T \ {m}, L[j])
        BY <4>1, <4>2
      <4>3. CASE OfBase(T \ {m}, L[j])
        BY <2>4, <3>2, <4>1, <4>3
      <4>. QED  BY <2>6, <4>2, <4>3
    <3>. QED  BY <3>1, <3>2
  <2>. QED  BY <2>7, <2>8, <2>9, <2>10
<1>6. S \in G
  <2> HIDE DEF G
  <2>1. IsFiniteSet(S)
    <3>1. IsFiniteSet(1..Len(added))
      BY <1>1, FS_Interval
    <3>. QED  BY <1>1, <1>3, <3>1
  <2>2. ASSUME NEW T \in SUBSET S, T # {}
        PROVE  Max(T) \in T
    <3>1. T \in SUBSET (1..Len(added))
      BY <1>1, <1>3
    <3>. QED  BY <1>1, <2>2, <3>1, Extremes
  <2>3. \A T \in SUBSET S : T # {} => \E x \in T : T \ {x} \in G => T \in G
    BY <1>5, <2>2
  <2>4. SUBSET S \subseteq G
    BY <1>4, <2>1, <2>3, SubsetInduction
  <2>. QED  BY <2>4
<1>7. PICK all : all = FoldLeft(AddRequest, base, added)
  OBVIOUS
<1>8. /\ all \in Table /\ Ids(all) = Ids(base) \cup {added[k].id : k \in S}
      /\ \A i \in DOMAIN all : OfAdded(S, all[i]) \/ OfBase(S, all[i])
  BY <1>2, <1>3, <1>6, <1>7
<1>9. Ids(added) = {added[k].id : k \in S}
  BY <1>3 DEF Ids
<1>. QED  BY <1>3, <1>7, <1>8, <1>9

\* What a sequence holds without one of its elements.
LEMMA RemovedOne ==
  ASSUME NEW X, NEW s \in Seq(X), NEW m \in DOMAIN s
  PROVE  /\ RemoveAt(s, m) \in Seq(X) /\ DOMAIN RemoveAt(s, m) = 1..(Len(s) - 1)
         /\ \A i \in 1..(Len(s) - 1) : RemoveAt(s, m)[i] = IF i < m THEN s[i] ELSE s[i + 1]
<1>1. DOMAIN s = 1..Len(s) /\ Len(s) \in Nat /\ m \in Nat /\ 1 <= m /\ m <= Len(s)
  OBVIOUS
<1>2. PICK a : a = SubSeq(s, 1, m - 1)
  OBVIOUS
<1>3. PICK b : b = SubSeq(s, m + 1, Len(s))
  OBVIOUS
<1>4. a \in Seq(X) /\ Len(a) = m - 1 /\ \A i \in 1..(m - 1) : a[i] = s[i]
  BY <1>1, <1>2
<1>5. b \in Seq(X) /\ Len(b) = Len(s) - m /\ \A i \in 1..(Len(s) - m) : b[i] = s[m + i]
  BY <1>1, <1>3
<1>6. PICK c : c = a \o b
  OBVIOUS
<1>7. c \in Seq(X) /\ Len(c) = Len(s) - 1
  <2>1. c \in Seq(X) /\ Len(c) = Len(a) + Len(b)
    <3>1. a \in Seq(X) /\ b \in Seq(X)
      BY <1>4, <1>5
    <3>. QED  BY ONLY <1>6, <3>1, ConcatProperties
  <2>. QED  BY ONLY <1>1, <1>4, <1>5, <2>1
<1>8. ASSUME NEW i \in 1..(Len(s) - 1)
      PROVE  c[i] = IF i < m THEN s[i] ELSE s[i + 1]
  <2>1. CASE i < m
    BY <1>1, <1>4, <1>5, <1>6, <2>1
  <2>2. CASE ~(i < m)
    <3>1. PICK k : k = i - (m - 1)
      OBVIOUS
    <3>2. k \in 1..(Len(s) - m) /\ m + k = i + 1
      BY <1>1, <2>2, <3>1
    <3>3. c[i] = b[k]
      <4>1. i \in (Len(a) + 1)..(Len(a) + Len(b)) /\ k = i - Len(a)
        BY ONLY <1>1, <1>4, <1>5, <2>2, <3>1, i \in 1..(Len(s) - 1)
      <4>2. a \in Seq(X) /\ b \in Seq(X)
        BY <1>4, <1>5
      <4>. QED  BY ONLY <1>6, <4>1, <4>2, ConcatProperties
    <3>. QED  BY <1>5, <2>2, <3>2, <3>3
  <2>. QED  BY <2>1, <2>2
<1>9. c = RemoveAt(s, m)
  BY <1>2, <1>3, <1>6 DEF RemoveAt
<1>10. DOMAIN c = 1..(Len(s) - 1)
  BY <1>7
<1>. QED  BY <1>7, <1>8, <1>9, <1>10

\* L is what is left of rs without the rows at T; those before T are where they were.
Left(L, rs, T) ==
    /\ L \in Table
    /\ \A i \in DOMAIN L : \E j \in DOMAIN rs \ T : L[i] = rs[j]
    /\ \A j \in DOMAIN rs \ T : \E i \in DOMAIN L : L[i] = rs[j]
    /\ \A j \in DOMAIN rs : (\A t \in T : j < t) => j \in DOMAIN L /\ L[j] = rs[j]

\* Of rows removed from the last to the first, each is where it was when it is removed.
LEMMA LeftOne ==
  ASSUME NEW rs \in Table, NEW T, T \subseteq DOMAIN rs, NEW m \in T, \A t \in T : m <= t,
         NEW L, Left(L, rs, T \ {m})
  PROVE  m \in DOMAIN L /\ Left(RemoveAt(L, m), rs, T)
<1>1. /\ rs \in Seq(OwnRow) /\ DOMAIN rs = 1..Len(rs) /\ Len(rs) \in Nat
      /\ \A i, j \in DOMAIN rs : rs[i].id = rs[j].id => i = j
      /\ L \in Seq(OwnRow) /\ DOMAIN L = 1..Len(L) /\ Len(L) \in Nat
      /\ \A i, j \in DOMAIN L : L[i].id = L[j].id => i = j
  BY DEF Left, Table
<1>2. m \in DOMAIN L /\ L[m] = rs[m] /\ m \in DOMAIN rs
  BY <1>1 DEF Left
<1>3. PICK a : a = RemoveAt(L, m)
  OBVIOUS
<1>4. /\ a \in Seq(OwnRow) /\ DOMAIN a = 1..(Len(L) - 1)
      /\ \A i \in 1..(Len(L) - 1) : a[i] = IF i < m THEN L[i] ELSE L[i + 1]
  BY <1>1, <1>2, <1>3, RemovedOne
<1>5. PICK from : from = [i \in DOMAIN a |-> IF i < m THEN i ELSE i + 1]
  OBVIOUS
<1>6. \A i \in DOMAIN a : from[i] \in DOMAIN L /\ from[i] # m /\ a[i] = L[from[i]]
  BY <1>1, <1>2, <1>4, <1>5
<1>7. \A i, j \in DOMAIN a : from[i] = from[j] => i = j
  BY <1>1, <1>2, <1>4, <1>5
<1>8. a \in Table
  BY <1>1, <1>4, <1>6, <1>7 DEF Table
<1>9. ASSUME NEW i \in DOMAIN a
      PROVE  \E j \in DOMAIN rs \ T : a[i] = rs[j]
  <2>1. PICK j \in DOMAIN rs \ (T \ {m}) : L[from[i]] = rs[j]
    BY <1>6 DEF Left
  <2>2. j # m
    BY <1>1, <1>2, <1>6, <2>1
  <2>. QED  BY <1>6, <2>1, <2>2
<1>10. ASSUME NEW j \in DOMAIN rs \ T
       PROVE  \E i \in DOMAIN a : a[i] = rs[j]
  <2>1. PICK k \in DOMAIN L : L[k] = rs[j]
    BY DEF Left
  <2>2. k # m
    BY <1>1, <1>2, <2>1
  <2>3. PICK i : i = IF k < m THEN k ELSE k - 1
    OBVIOUS
  <2>4. i \in DOMAIN a /\ a[i] = L[k]
    BY <1>1, <1>2, <1>4, <2>2, <2>3
  <2>. QED  BY <2>1, <2>4
<1>11. ASSUME NEW j \in DOMAIN rs, \A t \in T : j < t
       PROVE  j \in DOMAIN a /\ a[j] = rs[j]
  <2>1. j < m /\ j \in DOMAIN L /\ L[j] = rs[j]
    BY <1>11 DEF Left
  <2>. QED  BY <1>1, <1>2, <1>4, <2>1
<1>. QED  BY <1>2, <1>3, <1>8, <1>9, <1>10, <1>11 DEF Left

\* Hence what is left when all are removed.  Solutions of the recursion are spoken of only where they
\* remove a row that is there.
LEMMA LeftAll ==
  ASSUME NEW rs \in Table, NEW I, I \subseteq DOMAIN rs, NEW f, f[{}] = rs,
         \A T \in SUBSET I : T # {} /\ Min(T) \in DOMAIN f[T \ {Min(T)}] =>
            f[T] = RemoveAt(f[T \ {Min(T)}], Min(T))
  PROVE  \A T \in SUBSET I : Left(f[T], rs, T)
<1> DEFINE G == {T \in SUBSET I : Left(f[T], rs, T)}
<1>1. rs \in Seq(OwnRow) /\ DOMAIN rs = 1..Len(rs) /\ Len(rs) \in Nat
  BY DEF Table
<1>2. {} \in G
  BY DEF Left
<1>3. ASSUME NEW T \in SUBSET I, T # {}
      PROVE  Min(T) \in T /\ \A t \in T : Min(T) <= t
  <2>1. T \in SUBSET (1..Len(rs))
    BY <1>1
  <2>. QED  BY <1>1, <1>3, <2>1, Extremes
<1>4. ASSUME NEW T \in SUBSET I, T # {}, T \ {Min(T)} \in G
      PROVE  T \in G
  <2>1. PICK m : m = Min(T)
    OBVIOUS
  <2>2. PICK L : L = f[T \ {m}]
    OBVIOUS
  <2>3. m \in T /\ (\A t \in T : m <= t) /\ T \subseteq DOMAIN rs /\ Left(L, rs, T \ {m})
    BY <1>3, <1>4, <2>1, <2>2
  <2>4. m \in DOMAIN L /\ Left(RemoveAt(L, m), rs, T)
    BY <2>3, LeftOne
  <2>5. f[T] = RemoveAt(L, m)
    BY <1>4, <2>1, <2>2, <2>4
  <2>. QED  BY <2>4, <2>5
<1>5. IsFiniteSet(I)
  <2>1. IsFiniteSet(1..Len(rs))
    BY <1>1, FS_Interval
  <2>. QED  BY <1>1, <2>1, FS_Subset
<1>6. SUBSET I \subseteq G
  <2>1. \A T \in SUBSET I : T # {} => \E x \in T : T \ {x} \in G => T \in G
    BY <1>3, <1>4
  <2> HIDE DEF G
  <2>. QED  BY <1>2, <1>5, <2>1, SubsetInduction
<1>. QED  BY <1>6

\* The recursion by which rows are removed.
Removing(rs, I, f) ==
    [T \in SUBSET I |-> IF T = {} THEN rs ELSE RemoveAt(f[T \ {Min(T)}], Min(T))]

\* Removing the rows one after the other is defined.
LEMMA RemovingDefined ==
  ASSUME NEW rs \in Table, NEW I, I \subseteq DOMAIN rs
  PROVE  \E f : f = Removing(rs, I, f)
<1>1. rs \in Seq(OwnRow) /\ DOMAIN rs = 1..Len(rs) /\ Len(rs) \in Nat
  BY DEF Table
<1>2. IsFiniteSet(I)
  <2>1. IsFiniteSet(1..Len(rs))
    BY <1>1, FS_Interval
  <2>. QED  BY <1>1, <2>1, FS_Subset
<1>3. \A T \in SUBSET I : T # {} => Min(T) \in T
  <2>1. ASSUME NEW T \in SUBSET (1..Len(rs)), T # {}
        PROVE  Min(T) \in T
    BY <1>1, <2>1, Extremes
  <2>. QED  BY <1>1, <2>1
<1>4. PICK pick : pick = [T \in SUBSET I |-> Min(T)]
  OBVIOUS
<1>5. PICK V : V = Seq(OwnRow)
  OBVIOUS
<1>6. PICK step : step = [p \in I \X V |-> IF p[1] \in DOMAIN p[2] THEN RemoveAt(p[2], p[1]) ELSE p[2]]
  OBVIOUS
<1>7. /\ step \in [I \X V -> V]
      /\ \A k \in I, v \in V : k \in DOMAIN v => step[<<k, v>>] = RemoveAt(v, k)
  <2>1. \A v \in V : \A k \in DOMAIN v : RemoveAt(v, k) \in V
    BY <1>5, RemovedOne
  <2>. QED  BY <1>6, <2>1
<1>8. PICK g \in [SUBSET I -> V] : Solves(g, I, rs, pick, step)
  <2>1. \A T \in SUBSET I : T # {} => pick[T] \in T
    BY <1>3, <1>4
  <2>2. rs \in V
    BY <1>1, <1>5
  <2>. QED  BY <1>2, <1>7, <2>1, <2>2, SetRecursion, Zenon
<1>9. g[{}] = rs
  BY <1>8 DEF Solves
<1>10. ASSUME NEW T \in SUBSET I, T # {}, Min(T) \in DOMAIN g[T \ {Min(T)}]
       PROVE  g[T] = RemoveAt(g[T \ {Min(T)}], Min(T))
  <2>1. pick[T] = Min(T) /\ Min(T) \in I /\ g[T \ {Min(T)}] \in V
    BY <1>3, <1>4, <1>8, <1>10
  <2>2. g[T] = step[<<Min(T), g[T \ {Min(T)}]>>]
    BY <1>8, <1>10, <2>1 DEF Solves
  <2>. QED  BY <1>7, <1>10, <2>1, <2>2
<1>11. \A T \in SUBSET I : Left(g[T], rs, T)
  BY <1>9, <1>10, LeftAll
<1>12. ASSUME NEW T \in SUBSET I, T # {}
       PROVE  Min(T) \in DOMAIN g[T \ {Min(T)}]
  <2>1. T \in SUBSET (1..Len(rs))
    BY <1>1
  <2>2. Min(T) \in T /\ \A t \in T : Min(T) <= t
    BY <1>1, <1>12, <2>1, Extremes
  <2>3. T \ {Min(T)} \in SUBSET I
    OBVIOUS
  <2>4. Left(g[T \ {Min(T)}], rs, T \ {Min(T)})
    BY <1>11, <2>3
  <2>5. T \subseteq DOMAIN rs
    OBVIOUS
  <2>. QED  BY <2>2, <2>4, <2>5, LeftOne
<1>13. g = Removing(rs, I, g)
  <2>1. g = [T \in SUBSET I |-> IF T = {} THEN rs ELSE RemoveAt(g[T \ {Min(T)}], Min(T))]
    BY <1>9, <1>10, <1>12
  <2>. QED  BY <2>1 DEF Removing
<1>. QED  BY <1>13

\* The rows with certain ids are removed, and all others stay.
LEMMA RemovedRows ==
  ASSUME NEW rs \in Table, NEW ids
  PROVE  LET left == RowsWithout(rs, {i \in DOMAIN rs : rs[i].id \in ids})
         IN  /\ left \in Table
             /\ Ids(left) = Ids(rs) \ ids
             /\ \A i \in DOMAIN left : \E j \in DOMAIN rs : rs[j] = left[i]
<1>1. PICK I : I = {i \in DOMAIN rs : rs[i].id \in ids}
  OBVIOUS
<1> DEFINE f == CHOOSE h : h = Removing(rs, I, h)
<1>2. RowsWithout(rs, I) = f[I]
  BY Zenon DEF RowsWithout, MapThenFoldSet, Removing
<1>3. f = Removing(rs, I, f)
  <2>1. \E h : h = Removing(rs, I, h)
    BY <1>1, RemovingDefined
  <2>. QED  BY <2>1, Zenon
<1>. HIDE DEF f
<1>4. PICK h : h = f
  OBVIOUS
<1>5. \A T \in SUBSET I : h[T] = IF T = {} THEN rs ELSE RemoveAt(h[T \ {Min(T)}], Min(T))
  <2>1. h = Removing(rs, I, h)
    BY <1>3, <1>4
  <2>2. \A T \in SUBSET I : h[T] = Removing(rs, I, h)[T]
    BY <2>1
  <2>. QED  BY <2>2 DEF Removing
<1>6. Left(h[I], rs, I)
  <2>1. h[{}] = rs
    BY <1>5
  <2>2. I \subseteq DOMAIN rs /\ I \in SUBSET I
    BY <1>1
  <2>. QED  BY <1>5, <2>1, <2>2, LeftAll
<1>7. PICK left : left = RowsWithout(rs, I)
  OBVIOUS
<1>8. Left(left, rs, I)
  BY <1>2, <1>4, <1>6, <1>7
<1>9. Ids(left) = Ids(rs) \ ids
  <2>1. \A i \in DOMAIN left : \E j \in DOMAIN rs : left[i] = rs[j] /\ rs[j].id \notin ids
    BY <1>1, <1>8 DEF Left
  <2>2. \A j \in DOMAIN rs : rs[j].id \notin ids => \E i \in DOMAIN left : left[i] = rs[j]
    BY <1>1, <1>8 DEF Left
  <2>. QED  BY <2>1, <2>2 DEF Ids
<1>10. left \in Table /\ \A i \in DOMAIN left : \E j \in DOMAIN rs : rs[j] = left[i]
  BY <1>8 DEF Left
<1>. QED  BY <1>1, <1>7, <1>9, <1>10

--------------------------------------------------------------------------------
\* The invariants

\* Requests are numbered like their ids, which are given out once; hence a value on its way, or one that
\* is shown, tells by its number whose it is.
TableInv ==
    /\ rows \in Table
    /\ nextId \in Nat /\ made = nextId
    /\ \A id \in Ids(rows) : id < nextId
    /\ \A id \in DOMAIN client : client[id].made = id
    /\ results \in Seq({v \in [id: Nat, made: Nat] : v.made = v.id})
    /\ ShownIsHeld

\* Each event in the queue says something new, the last one what is the case.
SignalInv ==
    /\ connected \in BOOLEAN /\ known \in BOOLEAN /\ events \in Seq(BOOLEAN)
    /\ events = <<>> => known = connected
    /\ events # <<>> => /\ events[1] # known
                        /\ events[Len(events)] = connected
                        /\ \A i \in 1..(Len(events) - 1) : events[i + 1] # events[i]
    /\ ButtonsFollow

--------------------------------------------------------------------------------
\* Files

\* The rows of a file, and how the ids of those which are new follow those given out before.
Follows(base, added) ==
    /\ base \in Table /\ added \in Table /\ \A id \in Ids(base) : id < nextId
    /\ IsFiniteSet(Ids(added) \ Ids(base))
    /\ \A id \in Ids(added) : id < nextId + Cardinality(Ids(added) \ Ids(base))

\* What the table holds when a file is read.
LEMMA BaseRows ==
  ASSUME TableInv, NEW replace \in BOOLEAN
  PROVE  /\ Base(replace) \in Table
         /\ Ids(Base(replace)) = IF replace THEN {} ELSE Ids(rows)
         /\ \A id \in Ids(Base(replace)) : id \in Nat /\ id < nextId
<1>1. rows \in Table /\ \A id \in Ids(rows) : id < nextId
  BY DEF TableInv
<1>2. \A i \in DOMAIN rows : rows[i].id \in Nat
  BY <1>1 DEF Table, OwnRow
<1>3. << >> \in Table /\ Ids(<< >>) = {}
  BY DEF Table, Ids
<1>. QED  BY <1>1, <1>2, <1>3 DEF Base, Ids

\* A new row is in order.
LEMMA RowType ==
  ASSUME NEW id \in Nat, NEW size \in Sizes, NEW key \in Keys \cup {None}
  PROVE  Row(id, size, key, id) \in OwnRow /\ Row(id, size, key, id).id = id
  BY DEF Row, OwnRow

\* All rows of a native file are new.
LEMMA LoadedRows ==
  ASSUME TableInv, NEW replace \in BOOLEAN, NEW n \in Nat, NEW sizes \in [1..n -> Sizes]
  PROVE  Follows(Base(replace), Loaded(Base(replace), sizes))
<1>1. nextId \in Nat /\ made = nextId
  BY DEF TableInv
<1>2. PICK base : base = Base(replace)
  OBVIOUS
<1>3. base \in Table /\ \A id \in Ids(base) : id \in Nat /\ id < nextId
  BY <1>2, BaseRows
<1>4. PICK added : added = Loaded(base, sizes)
  OBVIOUS
<1>5. added = [k \in 1..n |-> Row(nextId + k - 1, sizes[k], None, nextId + k - 1)]
  BY <1>1, <1>4 DEF Loaded, FreshId
<1>6. ASSUME NEW k \in 1..n
      PROVE  added[k] \in OwnRow /\ added[k].id = nextId + k - 1
  <2>1. nextId + k - 1 \in Nat /\ sizes[k] \in Sizes
    BY <1>1
  <2>. QED  BY <1>5, <2>1, RowType
<1>7. added \in Table
  <2>1. added \in [1..n -> OwnRow]
    BY <1>5, <1>6
  <2>2. added \in Seq(OwnRow)
    BY <2>1
  <2>3. \A i, j \in DOMAIN added : added[i].id = added[j].id => i = j
    BY <1>1, <1>6, <2>1
  <2>. QED  BY <2>2, <2>3 DEF Table
<1>8. Ids(added) = nextId..(nextId + n - 1)
  <2>1. DOMAIN added = 1..n
    BY <1>5
  <2>2. ASSUME NEW id \in nextId..(nextId + n - 1)
        PROVE  id \in Ids(added)
    <3>1. PICK k : k = id - nextId + 1
      OBVIOUS
    <3>2. k \in 1..n /\ nextId + k - 1 = id
      BY <1>1, <3>1
    <3>3. added[k].id = id
      BY <1>6, <3>2
    <3>. QED  BY <2>1, <3>2, <3>3 DEF Ids
  <2>3. ASSUME NEW k \in 1..n
        PROVE  added[k].id \in nextId..(nextId + n - 1)
    BY <1>1, <1>6
  <2>. QED  BY <2>1, <2>2, <2>3 DEF Ids
<1>9. Ids(added) \ Ids(base) = nextId..(nextId + n - 1)
  BY <1>1, <1>3, <1>8
<1>10. IsFiniteSet(nextId..(nextId + n - 1)) /\ Cardinality(nextId..(nextId + n - 1)) = n
  <2>1. PICK b : b = nextId + n - 1
    OBVIOUS
  <2>2. b \in Int /\ nextId \in Int /\ nextId <= b + 1 /\ b - nextId + 1 = n
    BY <1>1, <2>1
  <2>3. IsFiniteSet(nextId..b) /\ Cardinality(nextId..b) = IF nextId > b THEN 0 ELSE b - nextId + 1
    BY <2>2, FS_Interval
  <2>. QED  BY <1>1, <2>1, <2>2, <2>3
<1>11. \A id \in Ids(added) : id < nextId + n
  BY <1>1, <1>8
<1>12. Follows(base, added)
  BY <1>3, <1>7, <1>9, <1>10, <1>11 DEF Follows
<1>. QED  BY <1>2, <1>4, <1>12

\* The groups which are read are the first ones, and all complete.
LEMMA CompleteGroups ==
  ASSUME NEW groups \in Seq([key: Keys, size: Sizes \cup {None}])
  PROVE  \E n \in Nat : /\ Complete(groups) \in [1..n -> [key: Keys, size: Sizes]]
                        /\ \A k \in 1..n : k \in DOMAIN groups /\ Complete(groups)[k] = groups[k]
<1>1. DOMAIN groups = 1..Len(groups) /\ Len(groups) \in Nat
      /\ \A k \in DOMAIN groups : groups[k] \in [key: Keys, size: Sizes \cup {None}]
  <2>1. PICK X : X = [key: Keys, size: Sizes \cup {None}]
    OBVIOUS
  <2>2. groups \in Seq(X)
    BY <2>1
  <2>3. DOMAIN groups = 1..Len(groups) /\ Len(groups) \in Nat /\ \A k \in DOMAIN groups : groups[k] \in X
    BY ONLY <2>2
  <2>. QED  BY <2>1, <2>3
<1>2. PICK bad : bad = {k \in DOMAIN groups : groups[k].size = None}
  OBVIOUS
<1>3. PICK n : n = IF bad = {} THEN Len(groups) ELSE Min(bad) - 1
  OBVIOUS
<1>4. bad \in SUBSET (1..Len(groups))
  BY <1>1, <1>2
<1>5. n \in Nat /\ n <= Len(groups) /\ \A k \in 1..n : k \in DOMAIN groups /\ k \notin bad
  <2>1. CASE bad = {}
    BY <1>1, <1>3, <2>1
  <2>2. CASE bad # {}
    <3>1. Min(bad) \in 1..Len(groups) /\ \A k \in bad : Min(bad) <= k
      BY <1>1, <1>4, <2>2, Extremes
    <3>2. n = Min(bad) - 1
      BY <1>3, <2>2
    <3>. QED  BY <1>1, <3>1, <3>2
  <2>. QED  BY <2>1, <2>2
<1>6. PICK c : c = SubSeq(groups, 1, n)
  OBVIOUS
<1>7. c = Complete(groups)
  BY <1>2, <1>3, <1>6 DEF Complete
<1>8. c = [k \in 1..n |-> groups[k]]
  BY <1>1, <1>5, <1>6
<1>9. \A k \in 1..n : groups[k] \in [key: Keys, size: Sizes]
  BY <1>1, <1>2, <1>5
<1>10. c \in [1..n -> [key: Keys, size: Sizes]]
  BY <1>8, <1>9
<1>. QED  BY <1>5, <1>7, <1>8, <1>10
\* Members of a set of numbers, counted from the least: greater ones have more members before them.
LEMMA Ranks ==
  ASSUME NEW n \in Nat, NEW N \in SUBSET (1..n)
  PROVE  LET Before(k) == Cardinality({j \in 1..(k - 1) : j \in N})
         IN  /\ IsFiniteSet(N) /\ Cardinality(N) \in Nat
             /\ \A k \in N : Before(k) \in Nat /\ Before(k) < Cardinality(N)
             /\ \A k, m \in N : k < m => Before(k) < Before(m)
<1> DEFINE P(k) == {j \in 1..(k - 1) : j \in N}
<1>1. IsFiniteSet(N)
  <2>1. IsFiniteSet(1..n)
    BY FS_Interval
  <2>. QED  BY <2>1, FS_Subset
<1>2. Cardinality(N) \in Nat
  BY <1>1, FS_CardinalityType
<1>3. ASSUME NEW k \in N, NEW U \in SUBSET N, k \in U, P(k) \subseteq U
      PROVE  Cardinality(P(k)) \in Nat /\ Cardinality(P(k)) < Cardinality(U)
  <2>1. IsFiniteSet(U)
    BY <1>1, FS_Subset
  <2>2. k \notin P(k)
    OBVIOUS
  <2> HIDE DEF P
  <2>3. IsFiniteSet(P(k)) /\ Cardinality(P(k)) <= Cardinality(U)
        /\ (Cardinality(P(k)) = Cardinality(U) => U = P(k))
    BY <1>3, <2>1, FS_Subset
  <2>4. Cardinality(P(k)) \in Nat /\ Cardinality(U) \in Nat
    BY <2>1, <2>3, FS_CardinalityType
  <2>. QED  BY <1>3, <2>2, <2>3, <2>4
<1>4. ASSUME NEW k \in N
      PROVE  Cardinality(P(k)) \in Nat /\ Cardinality(P(k)) < Cardinality(N)
  <2>1. P(k) \subseteq N
    OBVIOUS
  <2> HIDE DEF P
  <2>. QED  BY <1>3, <2>1
<1>5. ASSUME NEW k \in N, NEW m \in N, k < m
      PROVE  Cardinality(P(k)) < Cardinality(P(m))
  <2>1. k \in P(m) /\ P(k) \subseteq P(m) /\ P(m) \in SUBSET N
    BY <1>5
  <2> HIDE DEF P
  <2>. QED  BY <1>3, <2>1
<1>. QED  BY <1>1, <1>2, <1>4, <1>5

\* The rows of an export file of the plugin: some are of the table, whose rows they take, others new.
LEMMA ImportedRows ==
  ASSUME TableInv, NEW replace \in BOOLEAN,
         NEW groups \in Seq([key: Keys, size: Sizes \cup {None}]),
         \A k, m \in DOMAIN groups : groups[k].key = groups[m].key => k = m
  PROVE  Follows(Base(replace), Imported(Base(replace), groups))
<1>1. nextId \in Nat /\ made = nextId
  BY DEF TableInv
<1>2. PICK base : base = Base(replace)
  OBVIOUS
<1>3. base \in Table /\ \A id \in Ids(base) : id \in Nat /\ id < nextId
  BY <1>2, BaseRows
<1>4. PICK c : c = Complete(groups)
  OBVIOUS
<1>5. PICK n \in Nat : /\ c \in [1..n -> [key: Keys, size: Sizes]]
                       /\ \A k \in 1..n : k \in DOMAIN groups /\ c[k] = groups[k]
  BY <1>4, CompleteGroups, Zenon
<1>6. \A k, m \in 1..n : c[k].key = c[m].key => k = m
  BY <1>5
<1>7. PICK N : N = {k \in 1..n : FindKey(base, c[k].key) = {}}
  OBVIOUS
<1>8. PICK rank : rank = [k \in 1..n |-> Cardinality({j \in 1..(k - 1) : j \in N})]
  OBVIOUS
<1>9. /\ IsFiniteSet(N) /\ Cardinality(N) \in Nat
      /\ \A k \in N : rank[k] \in Nat /\ rank[k] < Cardinality(N)
      /\ \A k, m \in N : k < m => rank[k] < rank[m]
  <2>1. N \in SUBSET (1..n)
    BY <1>7
  <2>. QED  BY <1>8, <2>1, Ranks
<1>10. PICK old : old = [k \in 1..n |-> CHOOSE i \in FindKey(base, c[k].key) : TRUE]
  OBVIOUS
<1>11. PICK added : added = Imported(base, groups)
  OBVIOUS
<1>12. added = [k \in 1..n |-> IF k \in N THEN Row(nextId + rank[k], c[k].size, c[k].key, nextId + rank[k])
                               ELSE [base[old[k]] EXCEPT !.size = c[k].size]]
  <2> DEFINE IsNew(k) == FindKey(base, c[k].key) = {}
             Before(k) == Cardinality({j \in 1..(k - 1) : IsNew(j)})
             Old(k) == CHOOSE i \in FindKey(base, c[k].key) : TRUE
  <2>1. added = [k \in 1..n |-> IF IsNew(k) THEN Row(nextId + Before(k), c[k].size, c[k].key, nextId + Before(k))
                                ELSE [base[Old(k)] EXCEPT !.size = c[k].size]]
    BY <1>1, <1>4, <1>5, <1>11 DEF Imported, FreshId
  <2>2. ASSUME NEW k \in 1..n
        PROVE  Before(k) = rank[k]
    <3>1. {j \in 1..(k - 1) : IsNew(j)} = {j \in 1..(k - 1) : j \in N}
      BY <1>7
    <3>. QED  BY <1>8, <3>1
  <2>3. \A k \in 1..n : (k \in N <=> IsNew(k)) /\ Old(k) = old[k]
    BY <1>7, <1>10
  <2> HIDE DEF IsNew, Before, Old
  <2>. QED  BY <2>1, <2>2, <2>3
<1>13. ASSUME NEW k \in (1..n) \ N
       PROVE  old[k] \in DOMAIN base /\ base[old[k]].key = c[k].key /\ base[old[k]] \in OwnRow
  <2>1. FindKey(base, c[k].key) # {}
    BY <1>7
  <2>2. old[k] \in FindKey(base, c[k].key)
    BY <1>10, <2>1
  <2>3. old[k] \in DOMAIN base /\ base[old[k]].key = c[k].key
    BY <2>2 DEF FindKey
  <2>. QED  BY <1>3, <2>3 DEF Table
<1>14. ASSUME NEW k \in 1..n
       PROVE  /\ added[k] \in OwnRow
              /\ k \in N => added[k].id = nextId + rank[k]
              /\ k \notin N => added[k].id = base[old[k]].id
  <2>1. c[k].size \in Sizes /\ c[k].key \in Keys
    BY <1>5
  <2>2. CASE k \in N
    <3>1. nextId + rank[k] \in Nat
      BY <1>1, <1>9, <2>2
    <3>. QED  BY <1>12, <2>1, <2>2, <3>1, RowType
  <2>3. CASE k \notin N
    <3>1. base[old[k]] \in OwnRow
      BY <1>13, <2>3
    <3>. QED  BY <1>12, <2>1, <2>3, <3>1 DEF OwnRow
  <2>. QED  BY <2>2, <2>3
<1>15. \A k \in (1..n) \ N : added[k].id \in Ids(base)
  BY <1>13, <1>14 DEF Ids
<1>16. \A k \in N : added[k].id \in Nat /\ added[k].id >= nextId /\ added[k].id \notin Ids(base)
                    /\ added[k].id < nextId + Cardinality(N)
  <2>1. ASSUME NEW k \in N
        PROVE  added[k].id = nextId + rank[k] /\ rank[k] \in Nat /\ rank[k] < Cardinality(N)
    BY <1>7, <1>9, <1>14
  <2>2. ASSUME NEW k \in N
        PROVE  /\ added[k].id \in Nat /\ added[k].id >= nextId
               /\ added[k].id < nextId + Cardinality(N)
    BY ONLY <1>1, <1>9, <2>1
  <2>. QED  BY <1>1, <1>3, <2>2
<1>17. ASSUME NEW k \in 1..n, NEW m \in 1..n, added[k].id = added[m].id
       PROVE  k = m
  <2>1. CASE k \in N /\ m \in N
    <3>1. rank[k] = rank[m]
      BY <1>1, <1>9, <1>14, <1>17, <2>1
    <3>. QED  BY <1>9, <2>1, <3>1
  <2>2. CASE k \notin N /\ m \notin N
    <3>1. base[old[k]].id = base[old[m]].id /\ old[k] \in DOMAIN base /\ old[m] \in DOMAIN base
      BY <1>13, <1>14, <1>17, <2>2
    <3>2. old[k] = old[m]
      BY <1>3, <3>1 DEF Table
    <3>3. c[k].key = c[m].key
      BY <1>13, <2>2, <3>2
    <3>. QED  BY <1>6, <3>3
  <2>3. CASE (k \in N) # (m \in N)
    BY <1>15, <1>16, <1>17, <2>3
  <2>. QED  BY <2>1, <2>2, <2>3
<1>18. DOMAIN added = 1..n
  BY <1>12
<1>19. added \in Table
  <2>1. added \in [1..n -> OwnRow]
    BY <1>12, <1>14
  <2>2. added \in Seq(OwnRow)
    BY <2>1
  <2>. QED  BY <1>17, <1>18, <2>2 DEF Table
<1>20. PICK fresh : fresh = Ids(added) \ Ids(base)
  OBVIOUS
<1>21. PICK idOf : idOf = [k \in N |-> added[k].id]
  OBVIOUS
<1>22. \A k \in N : k \in 1..n /\ idOf[k] = added[k].id /\ idOf[k] \in fresh
  BY <1>7, <1>16, <1>18, <1>20, <1>21 DEF Ids
<1>23. idOf \in [N -> fresh]
  BY <1>21, <1>22
<1>24. idOf \in Surjection(N, fresh)
  <2>1. ASSUME NEW id \in fresh
        PROVE  \E k \in N : idOf[k] = id
    <3>1. PICK k \in 1..n : added[k].id = id
      BY <1>18, <1>20 DEF Ids
    <3>2. k \in N
      BY <1>15, <1>20, <3>1
    <3>. QED  BY <1>22, <3>1, <3>2
  <2>. QED  BY <1>23, <2>1 DEF Surjection
<1>25. idOf \in Injection(N, fresh)
  <2>1. \A k, m \in N : idOf[k] = idOf[m] => k = m
    BY <1>17, <1>22
  <2>. QED  BY <1>23, <2>1 DEF Injection, IsInjective
<1>26. IsFiniteSet(fresh) /\ Cardinality(fresh) = Cardinality(N)
  BY <1>9, <1>24, <1>25, FS_Surjection
<1>27. ASSUME NEW id \in Ids(added)
       PROVE  id < nextId + Cardinality(N)
  <2>1. PICK k \in 1..n : id = added[k].id
    BY <1>18 DEF Ids
  <2>2. CASE k \in N
    BY <1>16, <2>1, <2>2
  <2>3. CASE k \notin N
    <3>1. id \in Nat /\ id < nextId
      BY <1>3, <1>15, <2>1, <2>3
    <3>. QED  BY <1>1, <1>9, <3>1
  <2>. QED  BY <2>2, <2>3
<1>28. Follows(base, added)
  BY <1>3, <1>19, <1>20, <1>26, <1>27 DEF Follows
<1>. QED  BY <1>2, <1>11, <1>28
--------------------------------------------------------------------------------
\* What the client holds

\* The client holds nothing but what the table shows, and that, except for what it has refused.
Held(rs, held, ref) ==
    /\ DOMAIN held \subseteq Ids(rs)
    /\ \A i \in DOMAIN rs : rs[i].id \notin ref =>
            /\ rs[i].id \in DOMAIN held
            /\ held[rs[i].id].size = rs[i].size

Numbered(held) == \A id \in DOMAIN held : held[id].made = id

\* What Save() makes of what was held.
Saved(held, rs, kept) ==
    [i \in DOMAIN held \cup kept |->
        IF i \in kept THEN LET r == CHOOSE r \in rs : r.id = i IN [size |-> r.size, made |-> r.made]
        ELSE held[i]]

\* Rows to be saved, their ids, and the ids of those that are stored.
SavedTogether(R, ids, kept) ==
    /\ R \subseteq OwnRow /\ \A r, s \in R : r.id = s.id => r = s
    /\ \A r \in R : r.id \in ids
    /\ \A id \in ids : \E r \in R : r.id = id
    /\ kept \subseteq ids

\* c holds what is stored of R, and all that was held besides.
SavedAs(c, held, R, kept) ==
    /\ DOMAIN c = DOMAIN held \cup kept
    /\ \A r \in R : r.id \in kept => c[r.id].size = r.size /\ c[r.id].made = r.id
    /\ \A id \in DOMAIN held \ kept : c[id] = held[id]

\* A save stores just the rows it is to store.
LEMMA SavedRows ==
  ASSUME NEW R, NEW ids, NEW kept, SavedTogether(R, ids, kept), NEW held
  PROVE  SavedAs(Saved(held, R, kept), held, R, kept)
<1> DEFINE RowOf(id) == CHOOSE r \in R : r.id = id
<1>1. PICK c : c = Saved(held, R, kept)
  OBVIOUS
<1>2. c = [id \in DOMAIN held \cup kept |->
             IF id \in kept THEN [size |-> RowOf(id).size, made |-> RowOf(id).made] ELSE held[id]]
  BY <1>1 DEF Saved
<1>3. \A r \in R : RowOf(r.id) = r /\ r.made = r.id
  BY DEF OwnRow, SavedTogether
<1>4. DOMAIN c = DOMAIN held \cup kept /\ \A id \in DOMAIN held \ kept : c[id] = held[id]
  BY <1>2
<1> HIDE DEF RowOf
<1>5. \A r \in R : r.id \in kept => c[r.id].size = r.size /\ c[r.id].made = r.id
  BY <1>2, <1>3
<1>. QED  BY <1>1, <1>4, <1>5 DEF SavedAs

\* The table "all" shows the rows R, and of the table "base" those with other ids.
Shows(all, base, R, ids) ==
    /\ all \in Table /\ base \in Table
    /\ Ids(all) = Ids(base) \cup ids
    /\ \A i \in DOMAIN all :
         \/ \E r \in R : all[i].id = r.id /\ all[i].size = r.size
         \/ all[i].id \notin ids /\ \E j \in DOMAIN base : base[j] = all[i]

\* Rows which are shown and saved are held, or refused, and all others stay as they were.
LEMMA StoredRows ==
  ASSUME NEW base, NEW all, NEW R, NEW ids, Shows(all, base, R, ids),
         NEW held, NEW ref, Held(base, held, ref), Numbered(held),
         NEW kept, SavedTogether(R, ids, kept)
  PROVE  LET c == Saved(held, R, kept)
         IN  Held(all, c, (ref \cup ids) \ kept) /\ Numbered(c)
<1>1. PICK c : c = Saved(held, R, kept)
  OBVIOUS
<1>2. SavedAs(c, held, R, kept)
  BY <1>1, SavedRows
<1>3. Numbered(c)
  <2>1. ASSUME NEW id \in kept
        PROVE  c[id].made = id
    <3>1. PICK r \in R : r.id = id
      BY DEF SavedTogether
    <3>. QED  BY <1>2, <3>1 DEF SavedAs
  <2>. QED  BY <1>2, <2>1 DEF Numbered, SavedAs
<1>4. DOMAIN c \subseteq Ids(all)
  BY <1>2 DEF Held, SavedAs, SavedTogether, Shows
<1>5. ASSUME NEW i \in DOMAIN all, all[i].id \notin (ref \cup ids) \ kept
      PROVE  all[i].id \in DOMAIN c /\ c[all[i].id].size = all[i].size
  <2>1. CASE \E r \in R : all[i].id = r.id /\ all[i].size = r.size
    <3>1. PICK r \in R : all[i].id = r.id /\ all[i].size = r.size
      BY <2>1
    <3>2. r.id \in kept
      BY <1>5, <3>1 DEF SavedTogether
    <3>. QED  BY <1>2, <3>1, <3>2 DEF SavedAs
  <2>2. CASE all[i].id \notin ids /\ \E j \in DOMAIN base : base[j] = all[i]
    <3>1. PICK j \in DOMAIN base : base[j] = all[i]
      BY <2>2
    <3>2. base[j].id \notin ref /\ base[j].id \notin kept
      BY <1>5, <2>2, <3>1 DEF SavedTogether
    <3>. QED  BY <1>2, <3>1, <3>2 DEF Held, SavedAs
  <2>. QED  BY <2>1, <2>2 DEF Shows
<1>. QED  BY <1>1, <1>3, <1>4, <1>5 DEF Held

--------------------------------------------------------------------------------
\* What each step does to the table

\* What FormIsNotRemoved says of a step.
FormStep == form' # New => form' \in Ids(rows') \/ form' >= nextId \/ (form' = form /\ form \notin Ids(rows))

\* The parts of the invariant by which the client and the table are related.
LEMMA TableParts ==
  /\ TableInv => Held(rows, client, refused) /\ Numbered(client)
  /\ \A id \in Ids(rows) : TableInv => id \in Nat
<1>1. TableInv => Held(rows, client, refused) /\ Numbered(client)
  BY DEF TableInv, ShownIsHeld, Held, Numbered
<1>2. \A id \in Ids(rows) : TableInv => id \in Nat
  BY DEF TableInv, Table, OwnRow, Ids
<1>. QED  BY <1>1, <1>2

\* From its parts after a step, and the ids which the table has then.
LEMMA TableFrom ==
  ASSUME rows' \in Table, nextId' \in Nat, made' = nextId',
         \A id \in Ids(rows') : id < nextId',
         Held(rows', client', refused'), Numbered(client'),
         results' \in Seq({v \in [id: Nat, made: Nat] : v.made = v.id})
  PROVE  TableInv'
<1>1. ShownIsHeld'
  BY DEF ShownIsHeld, Held, Ids
<1>2. \A id \in DOMAIN client' : client'[id].made = id
  BY DEF Numbered
<1>3. (\A id \in Ids(rows) : id < nextId)'
  BY DEF Ids
<1>4. results' \in Seq({v \in [id: Nat, made: Nat] : v.made = v.id})
  OBVIOUS
<1>5. rows' \in Table
  OBVIOUS
<1>. QED  BY <1>1, <1>2, <1>3, <1>4, <1>5 DEF TableInv

\* The form is saved.
LEMMA FormSaved ==
  ASSUME TableInv, NEW update \in BOOLEAN, HandleRequestForm(update)
  PROVE  TableInv' /\ FormStep
<1>1. /\ rows \in Table /\ nextId \in Nat /\ made = nextId
      /\ \A id \in Ids(rows) : id \in Nat /\ id < nextId
      /\ Held(rows, client, refused) /\ Numbered(client)
      /\ results \in Seq({v \in [id: Nat, made: Nat] : v.made = v.id})
  BY TableParts DEF TableInv
<1> DEFINE isNew == Edited(update) = {}
           old == rows[CHOOSE i \in Edited(update) : TRUE]
           R(size) == IF isNew THEN Row(FreshId(nextId, rows), size, None, made) ELSE [old EXCEPT !.size = size]
           K(size, stored) == IF stored THEN {R(size).id} ELSE {}
<1>2. \E size \in Sizes, ok \in BOOLEAN, stored \in BOOLEAN :
         /\ ok => stored
         /\ isNew \/ ~connected => (stored => ok)
         /\ Save(client, {R(size)}, K(size, stored))
         /\ form' = R(size).id
         /\ IF ShowsRow(isNew, ok)
            THEN /\ rows' = AddRequest(rows, R(size))
                 /\ Select({R(size).id})
                 /\ refused' = (refused \cup {R(size).id}) \ K(size, stored)
            ELSE UNCHANGED <<rows, selected, canUpdate, refused>>
  BY DEF HandleRequestForm
<1>3. /\ nextId' = IF isNew THEN nextId + 1 ELSE nextId
      /\ made' = IF isNew THEN made + 1 ELSE made
      /\ results' = results
  BY DEF HandleRequestForm
<1>4. PICK size \in Sizes, ok \in BOOLEAN, stored \in BOOLEAN :
         /\ ok => stored
         /\ isNew => (stored => ok)
         /\ Save(client, {R(size)}, K(size, stored))
         /\ form' = R(size).id
         /\ IF ShowsRow(isNew, ok)
            THEN /\ rows' = AddRequest(rows, R(size))
                 /\ refused' = (refused \cup {R(size).id}) \ K(size, stored)
            ELSE rows' = rows /\ refused' = refused
  <2> HIDE DEF isNew, old, R, K
  <2>. QED  BY <1>2
<1>5. PICK r, kept, all, c : r = R(size) /\ kept = K(size, stored) /\ all = AddRequest(rows, r) /\ c = client'
  OBVIOUS
<1>6. /\ c = Saved(client, {r}, kept)
      /\ form' = r.id
      /\ IF ShowsRow(isNew, ok) THEN rows' = all /\ refused' = (refused \cup {r.id}) \ kept
         ELSE rows' = rows /\ refused' = refused
  <2> HIDE DEF isNew, old, R, K
  <2>. QED  BY <1>4, <1>5, Zenon DEF Save, Saved
<1>7. PICK new \in BOOLEAN : new <=> isNew
  OBVIOUS
<1>8. r \in OwnRow /\ (IF new THEN r.id = nextId ELSE r.id \in Ids(rows))
  <2>1. CASE new
    <3>1. r = Row(nextId, size, None, nextId)
      BY <1>1, <1>5, <1>7, <2>1 DEF FreshId
    <3>. QED  BY <1>1, <2>1, <3>1, RowType
  <2>2. CASE ~new
    <3>1. PICK i \in DOMAIN rows : old = rows[i]
      BY <1>7, <2>2 DEF Edited, FindRequestRow
    <3>2. rows[i] \in OwnRow
      BY <1>1 DEF Table
    <3>3. r = [rows[i] EXCEPT !.size = size]
      BY <1>5, <1>7, <2>2, <3>1
    <3>. QED  BY <2>2, <3>2, <3>3 DEF OwnRow, Ids
  <2>. QED  BY <2>1, <2>2
<1>9. kept \subseteq {r.id} /\ (stored \/ kept = {})
  BY <1>5
<1>10. /\ nextId' = IF new THEN nextId + 1 ELSE nextId
       /\ made' = nextId'
       /\ (rows' = all /\ refused' = (refused \cup {r.id}) \ kept)
          \/ (rows' = rows /\ refused' = refused /\ kept = {} /\ new)
  <2> HIDE DEF isNew, R, K
  <2>. QED  BY <1>1, <1>3, <1>4, <1>6, <1>7, <1>9 DEF ShowsRow
<1> HIDE DEF isNew, old, R, K
<1>11. CASE rows' = all /\ refused' = (refused \cup {r.id}) \ kept
  <2>1. /\ all \in Table
        /\ Ids(all) = Ids(rows) \cup {r.id}
        /\ \A i \in DOMAIN all :
             IF all[i].id = r.id THEN all[i].size = r.size ELSE \E j \in DOMAIN rows : rows[j] = all[i]
    BY <1>1, <1>5, <1>8, AddedRow
  <2>2. Held(all, c, (refused \cup {r.id}) \ kept) /\ Numbered(c)
    <3>1. PICK RR, ids : RR = {r} /\ ids = {r.id}
      OBVIOUS
    <3>2. SavedTogether(RR, ids, kept)
      BY <1>8, <1>9, <3>1 DEF SavedTogether
    <3>3. Shows(all, rows, RR, ids)
      BY <1>1, <2>1, <3>1 DEF Shows
    <3>4. c = Saved(client, RR, kept)
      BY <1>6, <3>1
    <3>5. Held(all, c, (refused \cup ids) \ kept) /\ Numbered(c)
      BY <1>1, <3>2, <3>3, <3>4, StoredRows
    <3>. QED  BY <3>1, <3>5
  <2>3. \A id \in Ids(all) : id < nextId'
    <3>1. ASSUME NEW id \in Ids(all)
          PROVE  id < nextId'
      <4>1. CASE new
        <5>1. id = nextId \/ (id \in Nat /\ id < nextId)
          BY <1>1, <1>8, <2>1, <4>1
        <5>2. nextId' = nextId + 1
          BY <1>10, <4>1
        <5>. QED  BY ONLY <1>1, <5>1, <5>2
      <4>2. CASE ~new
        BY <1>1, <1>8, <1>10, <2>1, <4>2
      <4>. QED  BY <4>1, <4>2
    <3>. QED  BY <3>1
  <2>4. TableInv'
    BY <1>1, <1>3, <1>5, <1>10, <1>11, <2>1, <2>2, <2>3, TableFrom
  <2>5. FormStep
    BY <1>6, <1>11, <2>1 DEF FormStep, Ids
  <2>. QED  BY <2>4, <2>5
<1>12. CASE rows' = rows /\ refused' = refused /\ kept = {} /\ new
  <2>1. DOMAIN c = DOMAIN client /\ \A id \in DOMAIN client : c[id] = client[id]
    BY <1>6, <1>12 DEF Saved
  <2>2. TableInv'
    BY <1>1, <1>3, <1>5, <1>10, <1>12, <2>1, TableFrom DEF Held, Numbered
  <2>3. form' >= nextId
    BY <1>1, <1>6, <1>8, <1>12
  <2>. QED  BY <2>2, <2>3 DEF FormStep
<1>. QED  BY <1>10, <1>11, <1>12
\* The rows of a file are added, to what is left of the table.
LEMMA FileLoaded ==
  ASSUME TableInv, NEW replace \in BOOLEAN, NEW added, Follows(Base(replace), added),
         LoadRequests(replace, added)
  PROVE  TableInv' /\ FormStep
<1>1. /\ rows \in Table /\ nextId \in Nat /\ made = nextId
      /\ \A id \in Ids(rows) : id \in Nat /\ id < nextId
      /\ Held(rows, client, refused) /\ Numbered(client)
      /\ results \in Seq({v \in [id: Nat, made: Nat] : v.made = v.id})
  BY TableParts DEF TableInv
<1>2. PICK base, ids, gone, n, all, held, c :
         /\ base = Base(replace) /\ ids = Ids(added) /\ gone = Ids(rows) \ Ids(base)
         /\ n = Cardinality(ids \ Ids(base))
         /\ all = FoldLeft(AddRequest, base, added)
         /\ held = ClientWithout(client, gone)
         /\ c = client'
  OBVIOUS
<1>3. /\ rows' = all
      /\ nextId' = nextId + n
      /\ made' = made + n
      /\ form' = FormWithout(form, gone)
      /\ results' = results
      /\ \E kept \in SUBSET ids : /\ Save(held, ToSet(added), kept)
                                  /\ refused' = ((refused \ gone) \cup ids) \ kept
  BY <1>2, Zenon DEF LoadRequests
<1>4. PICK kept \in SUBSET ids :
        c = Saved(held, ToSet(added), kept) /\ refused' = ((refused \ gone) \cup ids) \ kept
  BY <1>2, <1>3, Zenon DEF Save, Saved
<1>5. /\ base \in Table /\ added \in Table
      /\ \A id \in Ids(base) : id \in Nat /\ id < nextId
      /\ n \in Nat /\ \A id \in ids : id \in Nat /\ id < nextId + n
  <2>1. base \in Table /\ added \in Table /\ n \in Nat
        /\ (\A id \in Ids(base) : id < nextId) /\ \A id \in ids : id < nextId + n
    BY <1>2, FS_CardinalityType DEF Follows
  <2>2. (\A id \in Ids(base) : id \in Nat) /\ \A id \in ids : id \in Nat
    BY <1>2, <2>1 DEF Table, OwnRow, Ids
  <2>. QED  BY <2>1, <2>2
<1>6. PICK R : R = ToSet(added)
  OBVIOUS
<1>7. \A r : r \in R <=> \E k \in DOMAIN added : added[k] = r
  BY <1>6 DEF ToSet
<1>8. /\ all \in Table
      /\ Ids(all) = Ids(base) \cup ids
      /\ \A i \in DOMAIN all :
           \/ \E k \in DOMAIN added : all[i].id = added[k].id /\ all[i].size = added[k].size
           \/ all[i].id \notin ids /\ \E j \in DOMAIN base : base[j] = all[i]
  BY <1>2, <1>5, AddedRows
<1>9. Shows(all, base, R, ids)
  <2>1. ASSUME NEW i \in DOMAIN all
        PROVE  \/ \E r \in R : all[i].id = r.id /\ all[i].size = r.size
               \/ all[i].id \notin ids /\ \E j \in DOMAIN base : base[j] = all[i]
    BY <1>7, <1>8
  <2>. QED  BY <1>5, <1>8, <2>1 DEF Shows
<1>10. SavedTogether(R, ids, kept)
  BY <1>2, <1>5, <1>7 DEF SavedTogether, Table, Ids
<1>11. Held(base, held, refused \ gone) /\ Numbered(held)
  <2>1. DOMAIN held = DOMAIN client \ gone /\ \A id \in DOMAIN held : held[id] = client[id]
    BY <1>2 DEF ClientWithout
  <2>2. DOMAIN held \subseteq Ids(base)
    BY <1>1, <1>2, <2>1 DEF Held
  <2>3. ASSUME NEW i \in DOMAIN base, base[i].id \notin refused \ gone
        PROVE  base[i].id \in DOMAIN held /\ held[base[i].id].size = base[i].size
    <3>1. base[i].id \in Ids(base) /\ base[i].id \notin gone
      BY <1>2 DEF Ids
    <3>2. base = rows
      BY <1>2 DEF Base
    <3>. QED  BY <1>1, <2>1, <2>3, <3>1, <3>2 DEF Held
  <2>. QED  BY <1>1, <2>1, <2>2, <2>3 DEF Held, Numbered
<1>12. Held(all, c, ((refused \ gone) \cup ids) \ kept) /\ Numbered(c)
  <2>1. c = Saved(held, R, kept)
    BY <1>4, <1>6
  <2>. QED  BY <1>9, <1>10, <1>11, <2>1, StoredRows
<1>13. \A id \in Ids(all) : id < nextId'
  BY <1>1, <1>3, <1>5, <1>8
<1>14. TableInv'
  <2>1. nextId' \in Nat /\ made' = nextId'
    BY <1>1, <1>3, <1>5
  <2>2. rows' = all /\ Held(rows', client', refused') /\ Numbered(client') /\ results' = results
    BY <1>2, <1>3, <1>4, <1>12
  <2>3. rows' \in Table /\ \A id \in Ids(rows') : id < nextId'
    BY <1>8, <1>13, <2>2
  <2>. QED  BY <1>1, <2>1, <2>2, <2>3, TableFrom
<1>15. Ids(rows') = Ids(base) \cup ids
  BY <1>3, <1>8
<1>16. FormStep
  BY <1>2, <1>3, <1>15 DEF FormStep, FormWithout
<1>. QED  BY <1>14, <1>16

\* A native file is loaded.
LEMMA NativeLoaded ==
  ASSUME TableInv, EditorAssumption, LoadNative
  PROVE  TableInv' /\ FormStep
<1>1. PICK replace \in BOOLEAN, n \in 0..MaxRows :
        \E sizes \in [1..n -> Sizes] : LoadRequests(replace, Loaded(Base(replace), sizes))
  BY DEF LoadNative
<1>2. PICK sizes \in [1..n -> Sizes] : LoadRequests(replace, Loaded(Base(replace), sizes))
  BY <1>1
<1>3. n \in Nat
  OBVIOUS
<1>4. Follows(Base(replace), Loaded(Base(replace), sizes))
  BY <1>3, LoadedRows
<1>. QED  BY <1>2, <1>4, FileLoaded

\* An export file of the plugin is loaded.
LEMMA PluginLoaded ==
  ASSUME TableInv, LoadPlugin
  PROVE  TableInv' /\ FormStep
<1>1. PICK replace \in BOOLEAN, groups \in PluginFiles : LoadRequests(replace, Imported(Base(replace), groups))
  BY Zenon DEF LoadPlugin
<1>2. PICK n \in 1..MaxRows : /\ groups \in [1..n -> [key: Keys, size: Sizes \cup {None}]]
                              /\ \A j, k \in 1..n : groups[j].key = groups[k].key => j = k
  BY DEF PluginFiles
<1>3. groups \in Seq([key: Keys, size: Sizes \cup {None}])
  <2>1. PICK X : X = [key: Keys, size: Sizes \cup {None}]
    OBVIOUS
  <2>2. groups \in [1..n -> X] /\ n \in Nat
    BY <1>2, <2>1
  <2>3. groups \in Seq(X)
    BY <2>2
  <2>. QED  BY <2>1, <2>3
<1>4. \A k, m \in DOMAIN groups : groups[k].key = groups[m].key => k = m
  BY <1>2
<1>5. Follows(Base(replace), Imported(Base(replace), groups))
  BY <1>3, <1>4, ImportedRows
<1>. QED  BY <1>1, <1>5, FileLoaded

\* The selected rows are removed.
LEMMA RowsRemoved ==
  ASSUME TableInv, RemoveSelectedRequests
  PROVE  TableInv' /\ FormStep
<1>1. /\ rows \in Table /\ nextId \in Nat /\ made = nextId
      /\ \A id \in Ids(rows) : id \in Nat /\ id < nextId
      /\ Held(rows, client, refused) /\ Numbered(client)
      /\ results \in Seq({v \in [id: Nat, made: Nat] : v.made = v.id})
  BY TableParts DEF TableInv
<1>2. /\ client' = ClientWithout(client, selected)
      /\ rows' = RowsWithout(rows, {i \in DOMAIN rows : rows[i].id \in selected})
      /\ form' = FormWithout(form, selected)
      /\ refused' = refused \ selected
      /\ nextId' = nextId /\ made' = made /\ results' = results
  BY DEF RemoveSelectedRequests
<1>3. PICK sel, left, c : /\ sel = selected /\ c = client'
                          /\ left = RowsWithout(rows, {i \in DOMAIN rows : rows[i].id \in sel})
  OBVIOUS
<1>4. /\ left \in Table
      /\ Ids(left) = Ids(rows) \ sel
      /\ \A i \in DOMAIN left : \E j \in DOMAIN rows : rows[j] = left[i]
  <2>1. LET l == RowsWithout(rows, {i \in DOMAIN rows : rows[i].id \in sel})
        IN  l \in Table /\ Ids(l) = Ids(rows) \ sel /\ \A i \in DOMAIN l : \E j \in DOMAIN rows : rows[j] = l[i]
    BY <1>1, RemovedRows, Zenon
  <2>. QED  BY <1>3, <2>1
<1>5. DOMAIN c = DOMAIN client \ sel /\ \A id \in DOMAIN c : c[id] = client[id]
  BY <1>2, <1>3 DEF ClientWithout
<1>6. Held(left, c, refused \ sel) /\ Numbered(c)
  <2>1. DOMAIN c \subseteq Ids(left) /\ Numbered(c)
    BY <1>1, <1>4, <1>5 DEF Held, Numbered
  <2>2. ASSUME NEW i \in DOMAIN left, left[i].id \notin refused \ sel
        PROVE  left[i].id \in DOMAIN c /\ c[left[i].id].size = left[i].size
    <3>1. left[i].id \notin sel
      BY <1>4 DEF Ids
    <3>2. PICK j \in DOMAIN rows : rows[j] = left[i]
      BY <1>4
    <3>. QED  BY <1>1, <1>5, <2>2, <3>1, <3>2 DEF Held
  <2>. QED  BY <2>1, <2>2 DEF Held
<1>7. rows' = left /\ Ids(rows') = Ids(rows) \ selected
  BY <1>2, <1>3, <1>4
<1>8. TableInv'
  <2>1. nextId' \in Nat /\ made' = nextId' /\ rows' \in Table /\ \A id \in Ids(rows') : id < nextId'
    BY <1>1, <1>2, <1>4, <1>7
  <2>2. Held(rows', client', refused') /\ Numbered(client')
    BY <1>2, <1>3, <1>6, <1>7
  <2>. QED  BY <1>1, <1>2, <2>1, <2>2, TableFrom
<1>9. FormStep
  BY <1>2, <1>7 DEF FormStep, FormWithout
<1>. QED  BY <1>8, <1>9

\* A value is on its way.
LEMMA ValueSent ==
  ASSUME TableInv, DataResultReady
  PROVE  TableInv' /\ FormStep
<1>1. PICK i \in DOMAIN client : results' = Append(results, [id |-> i, made |-> client[i].made])
  BY DEF DataResultReady
<1>2. UNCHANGED <<rows, nextId, form, client, made, refused>>
  BY DEF DataResultReady, requestVars
<1>3. i \in Nat /\ client[i].made = i
  BY TableParts DEF TableInv, Held
<1>4. results' \in Seq({v \in [id: Nat, made: Nat] : v.made = v.id})
  <2>1. PICK X : X = {v \in [id: Nat, made: Nat] : v.made = v.id}
    OBVIOUS
  <2>2. results \in Seq(X) /\ [id |-> i, made |-> client[i].made] \in X
    BY <1>3, <2>1 DEF TableInv
  <2>. QED  BY <1>1, <2>1, <2>2
<1>5. TableInv'
  BY <1>2, <1>4 DEF TableInv, ShownIsHeld, Ids
<1>6. FormStep
  BY <1>2 DEF FormStep, Ids
<1>. QED  BY <1>5, <1>6

\* A value is shown.
LEMMA ValueShown ==
  ASSUME TableInv, SetRequestValue
  PROVE  TableInv' /\ FormStep
<1>1. /\ rows \in Table /\ nextId \in Nat /\ made = nextId
      /\ \A id \in Ids(rows) : id \in Nat /\ id < nextId
      /\ Held(rows, client, refused) /\ Numbered(client)
  BY TableParts DEF TableInv
<1>2. PICK res : res = Head(results)
  OBVIOUS
<1>3. res.id \in Nat /\ res.made = res.id /\ results' \in Seq({v \in [id: Nat, made: Nat] : v.made = v.id})
  <2>1. PICK X : X = {v \in [id: Nat, made: Nat] : v.made = v.id}
    OBVIOUS
  <2>2. results \in Seq(X) /\ results # <<>> /\ results' = Tail(results)
    BY <2>1 DEF TableInv, SetRequestValue
  <2>3. res \in X /\ results' \in Seq(X)
    BY <1>2, <2>2
  <2>. QED  BY <2>1, <2>3
<1>4. UNCHANGED <<nextId, form, client, made, refused>>
  BY DEF SetRequestValue
<1>5. PICK all : all = [i \in DOMAIN rows |->
                          IF rows[i].id = res.id THEN [rows[i] EXCEPT !.shown = res.made] ELSE rows[i]]
  OBVIOUS
<1>6. rows' = all
  BY <1>2, <1>5 DEF SetRequestValue
<1>7. DOMAIN rows = 1..Len(rows) /\ Len(rows) \in Nat /\ \A i \in DOMAIN rows : rows[i] \in OwnRow
  BY <1>1 DEF Table
<1>8. DOMAIN all = DOMAIN rows
      /\ \A i \in DOMAIN rows : all[i] \in OwnRow /\ all[i].id = rows[i].id /\ all[i].size = rows[i].size
  BY <1>3, <1>5, <1>7 DEF OwnRow
<1>9. all \in Table
  <2>1. all \in [1..Len(rows) -> OwnRow]
    BY <1>5, <1>7, <1>8
  <2>2. all \in Seq(OwnRow)
    BY <1>7, <2>1
  <2>. QED  BY <1>1, <1>8, <2>2 DEF Table
<1>10. Ids(all) = Ids(rows)
  BY <1>8 DEF Ids
<1>11. Held(all, client, refused)
  BY <1>1, <1>8, <1>10 DEF Held
<1>12. TableInv'
  <2>1. nextId' \in Nat /\ made' = nextId' /\ rows' \in Table /\ \A id \in Ids(rows') : id < nextId'
    BY <1>1, <1>4, <1>6, <1>9, <1>10
  <2>2. Held(rows', client', refused') /\ Numbered(client')
    BY <1>1, <1>4, <1>6, <1>11
  <2>. QED  BY <1>3, <2>1, <2>2, TableFrom
<1>13. Ids(rows') = Ids(rows)
  BY <1>6, <1>10
<1>14. FormStep
  BY <1>4, <1>13 DEF FormStep
<1>. QED  BY <1>12, <1>14

\* The table does not depend on the selection and the events.
LEMMA TableUntouched ==
  ASSUME TableInv, UNCHANGED <<rows, nextId, client, results, made, refused>>
  PROVE  TableInv'
BY DEF TableInv, ShownIsHeld, Ids

\* No step breaks the table, or leaves a removed request in the form.
LEMMA TableStep ==
  ASSUME EditorAssumption, TableInv, [Next]_vars
  PROVE  TableInv' /\ [FormStep]_vars
<1>1. CASE UNCHANGED vars
  BY <1>1, TableUntouched DEF vars, requestVars
<1>2. CASE HandleRequestForm(TRUE) \/ HandleRequestForm(FALSE)
  BY <1>2, FormSaved
<1>3. CASE PopulateRequestForm
  <2>1. UNCHANGED <<rows, nextId, client, results, made, refused>> /\ form' \in Ids(rows)
    BY <1>3 DEF PopulateRequestForm
  <2>2. FormStep
    BY <2>1 DEF FormStep, Ids
  <2>. QED  BY <2>1, <2>2, TableUntouched
<1>4. CASE ClearRequestForm
  <2>1. UNCHANGED <<rows, nextId, client, results, made, refused>> /\ form' = New
    BY <1>4 DEF ClearRequestForm
  <2>. QED  BY <2>1, TableUntouched DEF FormStep
<1>5. CASE SelectRows \/ ClientEvent \/ OnClientEvent
  <2>1. UNCHANGED <<rows, nextId, form, client, results, made, refused>>
    BY <1>5 DEF SelectRows, ClientEvent, OnClientEvent, requestVars
  <2>2. FormStep
    BY <2>1 DEF FormStep, Ids
  <2>. QED  BY <2>1, <2>2, TableUntouched
<1>6. CASE RemoveSelectedRequests
  BY <1>6, RowsRemoved
<1>7. CASE LoadNative \/ LoadPlugin
  BY <1>7, NativeLoaded, PluginLoaded
<1>8. CASE DataResultReady \/ SetRequestValue
  BY <1>8, ValueSent, ValueShown
<1>. QED  BY <1>1, <1>2, <1>3, <1>4, <1>5, <1>6, <1>7, <1>8 DEF Next

--------------------------------------------------------------------------------
\* What each step does to the button

\* A change of the selection sets the button from the facts.
LEMMA Selected ==
  ASSUME SignalInv, UNCHANGED signalVars,
         (\E sel : Select(sel)) \/ UNCHANGED <<selected, canUpdate>>
  PROVE  SignalInv'
<1>1. UNCHANGED <<connected, events, known>>
  BY DEF signalVars
<1>2. ButtonsFollow'
  BY <1>1, Zenon DEF SignalInv, ButtonsFollow, Select, ToggleButtons
<1>. QED  BY <1>1, <1>2 DEF SignalInv
\* A connection or disconnection queues an event that says something new.
LEMMA EventQueued ==
  ASSUME SignalInv, ClientEvent
  PROVE  SignalInv'
<1>1. PICK e : e = ~connected
  OBVIOUS
<1>2. e \in BOOLEAN /\ connected' = e /\ events' = Append(events, e) /\ known' = known
  BY <1>1, Zenon DEF ClientEvent, requestVars
<1>3. events \in Seq(BOOLEAN) /\ e # connected
  BY <1>1, Zenon DEF SignalInv
<1>4. PICK n : n = Len(events)
  OBVIOUS
<1>5. /\ n \in Nat /\ Len(events') = n + 1 /\ events' \in Seq(BOOLEAN) /\ events' # <<>>
      /\ events'[n + 1] = e /\ \A i \in 1..n : events'[i] = events[i]
  BY <1>2, <1>3, <1>4
<1>6. CASE events = <<>>
  <2>1. n = 0 /\ known = connected
    BY <1>4, <1>6 DEF SignalInv
  <2>2. events'[1] # known' /\ events'[Len(events')] = connected'
    BY <1>2, <1>3, <1>5, <2>1
  <2>3. \A i \in 1..(Len(events') - 1) : events'[i + 1] # events'[i]
    BY <1>5, <2>1
  <2>. QED  BY <1>2, <1>5, <2>2, <2>3 DEF SignalInv, ButtonsFollow
<1>7. CASE events # <<>>
  <2>1. n # 0 /\ n >= 1
    BY <1>3, <1>4, <1>5, <1>7
  <2>2. events[1] # known /\ events[n] = connected /\ \A i \in 1..(n - 1) : events[i + 1] # events[i]
    BY <1>4, <1>7 DEF SignalInv
  <2>3. events'[1] # known' /\ events'[Len(events')] = connected'
    BY <1>2, <1>5, <2>1, <2>2
  <2>4. \A i \in 1..(Len(events') - 1) : events'[i + 1] # events'[i]
    <3>1. ASSUME NEW i \in 1..n
          PROVE  events'[i + 1] # events'[i]
      <4>1. CASE i = n
        BY <1>3, <1>5, <2>1, <2>2, <4>1
      <4>2. CASE i # n
        <5>1. i \in 1..(n - 1) /\ i + 1 \in 1..n
          BY <1>5, <4>2
        <5>. QED  BY <1>5, <2>2, <5>1
      <4>. QED  BY <4>1, <4>2
    <3>. QED  BY <1>5, <3>1
  <2>. QED  BY <1>2, <1>5, <2>3, <2>4 DEF SignalInv, ButtonsFollow
<1>. QED  BY <1>6, <1>7

\* An event is handled.  It says something new, so that the button is set.
LEMMA EventHandled ==
  ASSUME SignalInv, OnClientEvent
  PROVE  SignalInv'
<1>1. /\ events # <<>> /\ events \in Seq(BOOLEAN) /\ connected \in BOOLEAN
      /\ events[1] # known /\ events[Len(events)] = connected
      /\ \A i \in 1..(Len(events) - 1) : events[i + 1] # events[i]
  BY DEF SignalInv, OnClientEvent
<1>2. /\ events' = Tail(events) /\ known' = Head(events) /\ connected' = connected /\ selected' = selected
      /\ Changed(known, Head(events)) => ToggleButtons(selected, connected)
  BY Zenon DEF OnClientEvent
<1>3. PICK n : n = Len(events)
  OBVIOUS
<1>4. Head(events) = events[1] /\ n \in Nat /\ n >= 1
      /\ events' \in Seq(BOOLEAN) /\ Len(events') = n - 1 /\ \A i \in 1..(n - 1) : events'[i] = events[i + 1]
  BY <1>1, <1>2, <1>3
<1>5. known' = events[1] /\ known' \in BOOLEAN
  BY <1>1, <1>2, <1>3, <1>4
<1>6. canUpdate' = (selected' # {} /\ connected')
  <2>1. Changed(known, Head(events))
    BY <1>1, <1>4 DEF Changed
  <2>. QED  BY <1>2, <2>1, Zenon DEF ToggleButtons
<1>7. events' = <<>> => known' = connected'
  <2>1. ASSUME events' = <<>>
        PROVE  n = 1
    BY <1>4, <2>1
  <2>. QED  BY <1>1, <1>2, <1>3, <1>5, <2>1
<1>8. ASSUME events' # <<>>
      PROVE  /\ events'[1] # known' /\ events'[Len(events')] = connected'
             /\ \A i \in 1..(Len(events') - 1) : events'[i + 1] # events'[i]
  <2>1. n >= 2
    BY <1>4, <1>8
  <2>2. events'[1] # known'
    BY <1>1, <1>3, <1>4, <1>5, <2>1
  <2>3. events'[Len(events')] = connected'
    BY <1>1, <1>2, <1>3, <1>4, <2>1
  <2>4. \A i \in 1..(Len(events') - 1) : events'[i + 1] # events'[i]
    BY <1>1, <1>3, <1>4, <2>1
  <2>. QED  BY <2>2, <2>3, <2>4
<1>9. ButtonsFollow'
  BY <1>6, Zenon DEF ButtonsFollow
<1>. QED  BY <1>1, <1>2, <1>4, <1>5, <1>7, <1>8, <1>9 DEF SignalInv

\* No step breaks the order of the events or leaves the button wrong for good.
LEMMA SignalStep ==
  ASSUME SignalInv, [Next]_vars
  PROVE  SignalInv'
<1>1. CASE UNCHANGED vars
  BY <1>1, Selected DEF vars
<1>2. CASE HandleRequestForm(TRUE) \/ HandleRequestForm(FALSE)
  <2>1. PICK update \in BOOLEAN : HandleRequestForm(update)
    BY <1>2
  <2>2. UNCHANGED signalVars /\ ((\E sel : Select(sel)) \/ UNCHANGED <<selected, canUpdate>>)
    BY <2>1, Zenon DEF HandleRequestForm
  <2>. QED  BY <2>2, Selected
<1>3. CASE PopulateRequestForm \/ SelectRows \/ RemoveSelectedRequests
  <2>1. UNCHANGED signalVars /\ \E sel : Select(sel)
    BY <1>3, Zenon DEF PopulateRequestForm, SelectRows, RemoveSelectedRequests
  <2>. QED  BY <2>1, Selected
<1>4. CASE LoadNative \/ LoadPlugin
  <2>1. PICK replace, added : LoadRequests(replace, added)
    BY <1>4, Zenon DEF LoadNative, LoadPlugin
  <2>2. UNCHANGED signalVars /\ \E sel : Select(sel)
    BY <2>1, Zenon DEF LoadRequests
  <2>. QED  BY <2>2, Selected
<1>5. CASE ClearRequestForm \/ DataResultReady \/ SetRequestValue
  <2>1. UNCHANGED signalVars /\ UNCHANGED <<selected, canUpdate>>
    BY <1>5 DEF ClearRequestForm, DataResultReady, SetRequestValue
  <2>. QED  BY <2>1, Selected
<1>6. CASE ClientEvent
  BY <1>6, EventQueued
<1>7. CASE OnClientEvent
  BY <1>7, EventHandled
<1>. QED  BY <1>1, <1>2, <1>3, <1>4, <1>5, <1>6, <1>7 DEF Next

--------------------------------------------------------------------------------
\* Theorems

\* Ids are given out once and requests are numbered like them, in the table, in the client and in the
\* values on their way; and the client and the table agree.
THEOREM TableHolds == Spec => []TableInv
<1>1. Init => TableInv
  BY DEF Init, TableInv, Table, Ids, ShownIsHeld
<1>2. TableInv /\ [Next]_vars => TableInv'
  BY EditorAssumption, TableStep
<1>. QED  BY <1>1, <1>2, PTL DEF Spec

\* The events in the queue alternate, the last one being what is the case.
THEOREM SignalsHold == Spec => []SignalInv
<1>1. Init => SignalInv
  <2>1. Init => ButtonsFollow
    BY Zenon DEF Init, ButtonsFollow
  <2>2. Init => events \in Seq(BOOLEAN) /\ events = <<>> /\ connected = FALSE /\ known = FALSE
    BY DEF Init
  <2>. QED  BY <2>1, <2>2 DEF SignalInv
<1>2. SignalInv /\ [Next]_vars => SignalInv'
  BY SignalStep
<1>. QED  BY <1>1, <1>2, PTL DEF Spec

\* A row shows values of its own request only, whatever values were in the queue while rows came and
\* went: an id, once removed, is not given to another request (nextRequestId()).
THEOREM ValuesAreRowsOwn == Spec => []ValueIsRowsOwn
<1>1. TableInv => ValueIsRowsOwn
  <2>1. ASSUME TableInv, NEW i \in DOMAIN rows
        PROVE  rows[i].shown \in {None, rows[i].made}
    <3>1. rows[i] \in OwnRow
      BY <2>1 DEF TableInv, Table
    <3>. QED  BY <3>1 DEF OwnRow
  <2>. QED  BY <2>1 DEF ValueIsRowsOwn
<1>. QED  BY <1>1, TableHolds, PTL

\* The client holds what the table shows and nothing else, except for what it refused to save.
THEOREM ShownRowsAreHeld == Spec => []ShownIsHeld
<1>1. TableInv => ShownIsHeld
  BY DEF TableInv
<1>. QED  BY <1>1, TableHolds, PTL

\* Once the events are handled, the button "Update" is right.
THEOREM ButtonsFollowAlways == Spec => []ButtonsFollow
<1>1. SignalInv => ButtonsFollow
  BY DEF SignalInv
<1>. QED  BY <1>1, SignalsHold, PTL

\* The form never keeps a request whose row is removed.
THEOREM FormLetsGo == Spec => FormIsNotRemoved
<1>1. TableInv /\ [Next]_vars => [FormStep]_vars
  BY EditorAssumption, TableStep
<1>2. Spec => [][FormStep]_vars
  BY <1>1, TableHolds, PTL DEF Spec
<1>. QED  BY <1>2 DEF FormIsNotRemoved, FormStep

================================================================================
