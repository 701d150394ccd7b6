-------------------------- MODULE InventorySumProofs --------------------------
(***************************************************************************)
(* The aggregates of the inventory service are sums of its rows, for any   *)
(* number of sessions, dimensions, keys, reservations and transfers: what  *)
(* a rebuild reads is what the commands have written (AggregatesAreSums),  *)
(* and goods on the road are neither lost nor doubled                      *)
(* (TransfersConserveStock).                                               *)
(*                                                                         *)
(* A sum over a finite set is taken by a fold, which adds the elements in  *)
(* an order of its own choosing.  The first part shows that the order does *)
(* not matter: what can be obtained by adding up the elements of a set in  *)
(* some order (Totals) is one number, since any element can be taken to    *)
(* have come last.                                                         *)
(***************************************************************************)
EXTENDS InventoryBookProofs, FiniteSetTheorems

\* Every collection of subsets of a finite set has a smallest among its members.
LEMMA Smallest ==
  ASSUME NEW S, IsFiniteSet(S), NEW T, T \subseteq SUBSET S, T # {}
  PROVE  \E s \in T : \A u \in T : u \subseteq s => u = s
<1>1. T \subseteq FiniteSubsetsOf(S)
  BY FS_Subset DEF FiniteSubsetsOf
<1>2. PICK s \in T : \A u \in T : <<u, s>> \notin StrictSubsetOrdering(S)
  BY <1>1, WFMin, FS_StrictSubsetOrderingWellFounded, Zenon
<1> QED BY <1>2 DEF StrictSubsetOrdering

Ints(f, S) == \A x \in S : f[x] \in Int

\* R holds 0 for the empty set and, with n for a set, n + f[x] for the set with x added.
Adds(f, S, R) ==
  /\ <<{}, 0>> \in R
  /\ \A s \in SUBSET S, n \in Int, x \in S :
       x \notin s /\ <<s, n>> \in R => <<s \cup {x}, n + f[x]>> \in R

\* What can be obtained for a subset by adding up its elements in some order.
Totals(f, S) ==
  {a \in (SUBSET S) \X Int : \A R \in SUBSET ((SUBSET S) \X Int) : Adds(f, S, R) => a \in R}

LEMMA TotalsAdd == ASSUME NEW f, NEW S, Ints(f, S) PROVE Adds(f, S, Totals(f, S))
<1>1. <<{}, 0>> \in Totals(f, S)
  BY DEF Totals, Adds
<1>2. ASSUME NEW s \in SUBSET S, NEW n \in Int, NEW x \in S, x \notin s, <<s, n>> \in Totals(f, S)
      PROVE  <<s \cup {x}, n + f[x]>> \in Totals(f, S)
  <2>1. <<s \cup {x}, n + f[x]>> \in (SUBSET S) \X Int
    BY DEF Ints
  <2>2. ASSUME NEW R \in SUBSET ((SUBSET S) \X Int), Adds(f, S, R) PROVE <<s \cup {x}, n + f[x]>> \in R
    <3>1. <<s, n>> \in R
      BY <1>2, <2>2 DEF Totals
    <3> QED BY <1>2, <2>2, <3>1 DEF Adds
  <2> QED BY <2>1, <2>2 DEF Totals
<1> QED BY <1>1, <1>2 DEF Adds

LEMMA TotalsGrow ==
  ASSUME NEW f, NEW S, Ints(f, S), NEW s \in SUBSET S, NEW n \in Int, <<s, n>> \in Totals(f, S),
         NEW x \in S, x \notin s
  PROVE  <<s \cup {x}, n + f[x]>> \in Totals(f, S)
BY TotalsAdd DEF Adds

LEMMA TotalsLeast ==
  ASSUME NEW f, NEW S, NEW R \in SUBSET ((SUBSET S) \X Int), Adds(f, S, R)
  PROVE  Totals(f, S) \subseteq R
BY DEF Totals

LEMMA TotalOfNothing ==
  ASSUME NEW f, NEW S, Ints(f, S), NEW n \in Int, <<{}, n>> \in Totals(f, S)
  PROVE  n = 0
<1> DEFINE R == {a \in (SUBSET S) \X Int : a[1] = {} => a[2] = 0}
<1>1. Adds(f, S, R)
  BY DEF Adds, Ints
<1>2. <<{}, n>> \in R
  BY <1>1, TotalsLeast
<1> QED BY <1>2

\* Whatever the order was, an element can be taken to have been added last.
LEMMA TotalsRemove ==
  ASSUME NEW f, NEW S, Ints(f, S), NEW s \in SUBSET S, NEW n \in Int, <<s, n>> \in Totals(f, S), NEW x \in s
  PROVE  <<s \ {x}, n - f[x]>> \in Totals(f, S)
<1> DEFINE U == Totals(f, S)
           R == {a \in (SUBSET S) \X Int : a \in U /\ \A z \in a[1] : <<a[1] \ {z}, a[2] - f[z]>> \in U}
<1>0. Adds(f, S, U)
  BY TotalsAdd
<1> HIDE DEF U
<1>1. <<{}, 0>> \in R
  BY <1>0 DEF Adds
<1>2. ASSUME NEW t \in SUBSET S, NEW m \in Int, NEW y \in S, y \notin t, <<t, m>> \in R
      PROVE  <<t \cup {y}, m + f[y]>> \in R
  <2>0. f[y] \in Int /\ m + f[y] \in Int /\ <<t, m>> \in U
    BY <1>2 DEF Ints
  <2>1. <<t, m>> \in U /\ <<t \cup {y}, m + f[y]>> \in U /\ m + f[y] \in Int /\ f[y] \in Int
    BY <1>2, <2>0, TotalsGrow DEF U
  <2>2. ASSUME NEW z \in t \cup {y} PROVE <<(t \cup {y}) \ {z}, (m + f[y]) - f[z]>> \in U
    <3>1. CASE z = y
      <4>1. (t \cup {y}) \ {z} = t /\ (m + f[y]) - f[z] = m
        BY <1>2, <2>1, <3>1
      <4> QED BY <2>1, <4>1
    <3>2. CASE z # y
      <4>1. z \in t /\ f[z] \in Int /\ <<t \ {z}, m - f[z]>> \in U
        BY <1>2, <2>2, <3>2 DEF Ints
      <4>2. <<(t \ {z}) \cup {y}, (m - f[z]) + f[y]>> \in U
        <5>1. t \ {z} \in SUBSET S /\ m - f[z] \in Int /\ y \notin t \ {z}
          BY <1>2, <4>1
        <5> QED BY <4>1, <5>1, TotalsGrow DEF U
      <4>3. (t \ {z}) \cup {y} = (t \cup {y}) \ {z} /\ (m - f[z]) + f[y] = (m + f[y]) - f[z]
        BY <2>1, <3>2, <4>1
      <4> QED BY <4>2, <4>3
    <3> QED BY <3>1, <3>2
  <2> QED BY <2>1, <2>2
<1>3. Adds(f, S, R)
  BY <1>1, <1>2 DEF Adds
<1>4. <<s, n>> \in R
  BY <1>3, TotalsLeast DEF U
<1> QED BY <1>4 DEF U

\* So there is one total for each set, and a finite set has one.
LEMMA TotalIsUnique ==
  ASSUME NEW f, NEW S, Ints(f, S), NEW s \in SUBSET S, NEW n \in Int, NEW k \in Int,
         <<s, n>> \in Totals(f, S), <<s, k>> \in Totals(f, S)
  PROVE  n = k
<1> DEFINE U == Totals(f, S)
           R == {a \in (SUBSET S) \X Int : \A i \in Int : <<a[1], i>> \in U => a[2] = i}
<1>1. <<{}, 0>> \in R
  BY TotalOfNothing
<1>2. ASSUME NEW t \in SUBSET S, NEW m \in Int, NEW y \in S, y \notin t, <<t, m>> \in R
      PROVE  <<t \cup {y}, m + f[y]>> \in R
  <2>1. f[y] \in Int
    BY DEF Ints
  <2>2. ASSUME NEW i \in Int, <<t \cup {y}, i>> \in U PROVE m + f[y] = i
    <3>1. <<(t \cup {y}) \ {y}, i - f[y]>> \in U
      BY <2>2, TotalsRemove
    <3>2. (t \cup {y}) \ {y} = t
      BY <1>2
    <3>3. m = i - f[y]
      BY <1>2, <2>1, <3>1, <3>2
    <3> QED BY <2>1, <3>3
  <2> QED BY <2>1, <2>2
<1>3. Adds(f, S, R)
  BY <1>1, <1>2 DEF Adds
<1>4. <<s, n>> \in R
  BY <1>3, TotalsLeast
<1> QED BY <1>4

LEMMA TotalExists ==
  ASSUME NEW f, NEW S, IsFiniteSet(S), Ints(f, S), NEW s \in SUBSET S
  PROVE  \E n \in Int : <<s, n>> \in Totals(f, S)
<1> DEFINE T == {t \in SUBSET S : \A n \in Int : <<t, n>> \notin Totals(f, S)}
<1>1. SUFFICES ASSUME T # {} PROVE FALSE
  OBVIOUS
<1>2. PICK t \in T : \A u \in T : u \subseteq t => u = t
  <2>1. T \subseteq SUBSET S
    OBVIOUS
  <2> HIDE DEF T
  <2> QED BY <1>1, <2>1, Smallest
<1>3. t # {}
  BY TotalsAdd DEF Adds
<1>4. PICK x \in t : TRUE
  BY <1>3
<1>5. t \ {x} \in SUBSET S /\ t \ {x} \notin T
  BY <1>2, <1>4
<1>6. PICK n \in Int : <<t \ {x}, n>> \in Totals(f, S)
  BY <1>5
<1>7. <<(t \ {x}) \cup {x}, n + f[x]>> \in Totals(f, S) /\ n + f[x] \in Int
  BY <1>4, <1>6, TotalsAdd DEF Adds, Ints
<1>8. (t \ {x}) \cup {x} = t
  BY <1>4
<1> QED BY <1>7, <1>8

\* The sum of the community modules is that total.
LEMMA SumIs ==
  ASSUME NEW f, NEW S, IsFiniteSet(S), Ints(f, S), NEW s \in SUBSET S, NEW n \in Int, <<s, n>> \in Totals(f, S)
  PROVE  SumFunctionOnSet(f, s) = n
<1> DEFINE Picked(t) == CHOOSE x \in t : TRUE
           Of(t) == CHOOSE m \in Int : <<t, m>> \in Totals(f, S)
           Folds(h) == h = [t \in SUBSET s |-> IF t = {} THEN 0 ELSE f[Picked(t)] + h[t \ {Picked(t)}]]
           iter == CHOOSE h : Folds(h)
           g == [t \in SUBSET s |-> Of(t)]
<1>1. SumFunctionOnSet(f, s) = iter[s]
  BY DEF SumFunctionOnSet, FoldFunctionOnSet, MapThenFoldSet
<1>2. ASSUME NEW t \in SUBSET S PROVE Of(t) \in Int /\ <<t, Of(t)>> \in Totals(f, S)
  BY TotalExists
<1>3. ASSUME NEW t \in SUBSET s PROVE g[t] = IF t = {} THEN 0 ELSE f[Picked(t)] + g[t \ {Picked(t)}]
  <2>1. CASE t = {}
    BY <1>2, <2>1, TotalOfNothing
  <2>2. CASE t # {}
    <3> DEFINE x == Picked(t)
    <3>1. x \in t
      BY <2>2
    <3> HIDE DEF x
    <3>2. f[x] \in Int /\ t \ {x} \in SUBSET S /\ t \ {x} \in SUBSET s
      BY <3>1 DEF Ints
    <3> HIDE DEF Of
    <3>3. <<t \ {x}, Of(t) - f[x]>> \in Totals(f, S) /\ Of(t) - f[x] \in Int
      <4>1. t \in SUBSET S /\ Of(t) \in Int /\ <<t, Of(t)>> \in Totals(f, S)
        BY <1>2
      <4>2. Of(t) - f[x] \in Int
        BY <3>2, <4>1
      <4> QED BY <3>1, <4>1, <4>2, TotalsRemove
    <3>4. Of(t \ {x}) = Of(t) - f[x]
      BY <1>2, <3>2, <3>3, TotalIsUnique
    <3>5. g[t] = Of(t) /\ g[t \ {x}] = Of(t \ {x})
      BY <3>2
    <3>6. Of(t) \in Int
      BY <1>2
    <3>7. g[t] = f[x] + g[t \ {x}]
      BY <3>2, <3>4, <3>5, <3>6
    <3> QED BY <2>2, <3>7 DEF x
  <2> QED BY <2>1, <2>2
<1> HIDE DEF Of
<1>4. Folds(g)
  BY <1>3
<1> HIDE DEF g
<1>5. Folds(iter)
  BY <1>4
<1> HIDE DEF iter
<1>6. ASSUME NEW t \in SUBSET s PROVE iter[t] = IF t = {} THEN 0 ELSE f[Picked(t)] + iter[t \ {Picked(t)}]
  BY <1>5
<1> DEFINE T == {t \in SUBSET s : iter[t] # g[t]}
<1>7. T = {}
  <2>1. SUFFICES ASSUME T # {} PROVE FALSE
    OBVIOUS
  <2>2. PICK t \in T : \A u \in T : u \subseteq t => u = t
    <3>1. T \subseteq SUBSET s /\ IsFiniteSet(s)
      BY FS_Subset
    <3> HIDE DEF T
    <3> QED BY <2>1, <3>1, Smallest
  <2>3. t # {}
    BY <1>3, <1>6
  <2>4. Picked(t) \in t
    BY <2>3
  <2>5. t \ {Picked(t)} \in SUBSET s /\ t \ {Picked(t)} \notin T
    BY <2>2, <2>4
  <2>6. iter[t \ {Picked(t)}] = g[t \ {Picked(t)}]
    BY <2>5
  <2> QED BY <1>3, <1>6, <2>3, <2>6
<1>8. iter[s] = Of(s)
  BY <1>7 DEF g
<1> QED BY <1>1, <1>2, <1>8, TotalIsUnique

-----------------------------------------------------------------------------
(***************************************************************************)
(* What the proofs use of a sum.                                           *)
(***************************************************************************)
LEMMA SumOfNothing == ASSUME NEW f PROVE SumFunctionOnSet(f, {}) = 0
<1>1. Ints(f, {}) /\ IsFiniteSet({})
  BY FS_EmptySet DEF Ints
<1>2. <<{}, 0>> \in Totals(f, {})
  BY <1>1, TotalsAdd DEF Adds
<1> QED BY <1>1, <1>2, SumIs

LEMMA SumIsInt == ASSUME NEW f, NEW S, IsFiniteSet(S), Ints(f, S) PROVE SumFunctionOnSet(f, S) \in Int
<1>1. PICK n \in Int : <<S, n>> \in Totals(f, S)
  BY TotalExists
<1> QED BY <1>1, SumIs

LEMMA SumWith ==
  ASSUME NEW f, NEW S, IsFiniteSet(S), NEW x, x \notin S, Ints(f, S), f[x] \in Int
  PROVE  SumFunctionOnSet(f, S \cup {x}) = SumFunctionOnSet(f, S) + f[x]
<1> DEFINE U == S \cup {x}
<1>1. IsFiniteSet(U) /\ Ints(f, U) /\ S \in SUBSET U /\ x \in U
  BY FS_AddElement DEF Ints
<1> HIDE DEF U
<1>2. PICK n \in Int : <<S, n>> \in Totals(f, U)
  BY <1>1, TotalExists
<1>3. <<S \cup {x}, n + f[x]>> \in Totals(f, U)
  BY <1>1, <1>2, TotalsGrow
<1>4. n + f[x] \in Int /\ S \cup {x} \in SUBSET U
  BY <1>1
<1>5. SumFunctionOnSet(f, S) = n
  BY <1>1, <1>2, SumIs
<1>6. SumFunctionOnSet(f, S \cup {x}) = n + f[x]
  BY <1>1, <1>3, <1>4, SumIs
<1> QED BY <1>5, <1>6

LEMMA SumsAgree ==
  ASSUME NEW f, NEW g, NEW S, IsFiniteSet(S), Ints(f, S), \A x \in S : g[x] = f[x]
  PROVE  SumFunctionOnSet(g, S) = SumFunctionOnSet(f, S)
<1> DEFINE T == {t \in SUBSET S : SumFunctionOnSet(g, t) # SumFunctionOnSet(f, t)}
<1>1. SUFFICES ASSUME T # {} PROVE FALSE
  OBVIOUS
<1>2. PICK t \in T : \A u \in T : u \subseteq t => u = t
  <2>1. T \subseteq SUBSET S
    OBVIOUS
  <2> HIDE DEF T
  <2> QED BY <1>1, <2>1, Smallest
<1>3. t # {}
  BY SumOfNothing
<1>4. PICK x \in t : TRUE
  BY <1>3
<1> DEFINE u == t \ {x}
<1>5. u \in SUBSET S /\ u \notin T /\ x \notin u /\ u \cup {x} = t /\ x \in S
  BY <1>2, <1>4
<1>6. SumFunctionOnSet(g, u) = SumFunctionOnSet(f, u)
  BY <1>5
<1>7. IsFiniteSet(u) /\ Ints(f, u) /\ Ints(g, u) /\ f[x] \in Int /\ g[x] = f[x]
  BY <1>5, FS_Subset DEF Ints
<1> HIDE DEF u
<1>8. SumFunctionOnSet(g, u \cup {x}) = SumFunctionOnSet(f, u \cup {x})
  BY <1>5, <1>6, <1>7, SumWith
<1> QED BY <1>5, <1>8

\* One row more, one row less, one row rewritten, none.
LEMMA SumGains ==
  ASSUME NEW f, NEW g, NEW S, IsFiniteSet(S), Ints(f, S), NEW x, x \notin S, NEW T, T = S \cup {x},
         \A y \in S : g[y] = f[y], g[x] \in Int
  PROVE  SumFunctionOnSet(g, T) = SumFunctionOnSet(f, S) + g[x]
<1>1. Ints(g, S)
  BY DEF Ints
<1>2. SumFunctionOnSet(g, S) = SumFunctionOnSet(f, S)
  BY SumsAgree
<1> QED BY <1>1, <1>2, SumWith

LEMMA SumLoses ==
  ASSUME NEW f, NEW g, NEW S, IsFiniteSet(S), Ints(f, S), NEW x \in S, NEW T, T = S \ {x},
         \A y \in T : g[y] = f[y]
  PROVE  SumFunctionOnSet(g, T) = SumFunctionOnSet(f, S) - f[x]
<1>1. IsFiniteSet(T) /\ Ints(f, T) /\ Ints(g, T) /\ x \notin T /\ S = T \cup {x} /\ f[x] \in Int
  BY FS_Subset DEF Ints
<1>2. SumFunctionOnSet(f, S) = SumFunctionOnSet(f, T) + f[x]
  BY <1>1, SumWith
<1>3. SumFunctionOnSet(g, T) = SumFunctionOnSet(f, T) /\ SumFunctionOnSet(f, T) \in Int
  BY <1>1, SumsAgree, SumIsInt
<1> QED BY <1>1, <1>2, <1>3

LEMMA SumChanges ==
  ASSUME NEW f, NEW g, NEW S, IsFiniteSet(S), Ints(f, S), NEW x \in S, \A y \in S \ {x} : g[y] = f[y], g[x] \in Int
  PROVE  SumFunctionOnSet(g, S) = (SumFunctionOnSet(f, S) - f[x]) + g[x]
<1> DEFINE T == S \ {x}
<1>1. IsFiniteSet(T) /\ Ints(g, T) /\ x \notin T /\ S = T \cup {x}
  BY FS_Subset DEF Ints
<1>2. SumFunctionOnSet(g, T) = SumFunctionOnSet(f, S) - f[x]
  BY SumLoses
<1> HIDE DEF T
<1>3. SumFunctionOnSet(g, S) = SumFunctionOnSet(g, T) + g[x]
  BY <1>1, SumWith
<1> QED BY <1>2, <1>3
-----------------------------------------------------------------------------
(***************************************************************************)
(* The movement rows.                                                      *)
(***************************************************************************)
ActiveResv == {r \in Resv : resv[r].status = "active"}
MovingXfer == {x \in Xfer : xfer[x].status = "in_transit"}

\* What is added up is finite, however many keys there are: rows are written one commit
\* at a time.
Finite == IsFiniteSet(movements) /\ IsFiniteSet(ActiveResv) /\ IsFiniteSet(MovingXfer)

Sums == Finite /\ AggregatesAreSums /\ TransfersConserveStock

\* A command posts at most one row to a bucket of a dimension, and only to the dimensions
\* whose balance it writes.
LEMMA PostsApart ==
  ASSUME NEW p \in Session, cmd[p] \in Command
  PROVE  /\ IsFiniteSet(Posts(p))
         /\ \A m, n \in Posts(p) : m.dim = n.dim /\ m.bucket = n.bucket => m = n
         /\ \A m \in Posts(p) : m.dim \in Touched(p)
<1> DEFINE c == cmd[p]
           t == row[p]
<1>1. CASE c.op \in {"move", "receipt", "return", "consume"}
  <2>1. PICK b, n : Posts(p) = {Movement(OwnId(c.key), c.dim, b, n)}
    BY <1>1 DEF Posts
  <2>2. Touched(p) = {c.dim}
    BY <1>1 DEF Touched, DimsOf
  <2>3. IsFiniteSet(Posts(p))
    BY <2>1, FS_Singleton
  <2>4. \A m \in Posts(p) : m = Movement(OwnId(c.key), c.dim, b, n) /\ m.dim = c.dim
    BY <2>1 DEF Movement
  <2> QED BY <2>2, <2>3, <2>4
<1>2. CASE c.op \in {"dispatch", "receive"}
  <2>1. PICK m, n : Posts(p) = {m, n} /\ m.bucket # n.bucket /\ m.dim \in Touched(p) /\ n.dim \in Touched(p)
    <3>1. CASE c.op = "dispatch"
      <4>1. PICK m, n : /\ m = Movement(LegId(c.key, "source-debit"), t.src, "physical", -t.qty)
                        /\ n = Movement(LegId(c.key, "transit-credit"), t.dst, "in_transit", t.qty)
        OBVIOUS
      <4>2. Posts(p) = {m, n}
        BY <3>1, <4>1 DEF Posts
      <4>3. Touched(p) = {t.src, t.dst}
        BY <3>1 DEF Touched, DimsOf
      <4> QED BY <4>1, <4>2, <4>3 DEF Movement
    <3>2. CASE c.op = "receive"
      <4>1. PICK m, n : /\ m = Movement(LegId(c.key, "transit-debit"), t.dst, "in_transit", -t.qty)
                        /\ n = Movement(LegId(c.key, "destination-credit"), t.dst, "physical", t.qty)
        OBVIOUS
      <4>2. Posts(p) = {m, n}
        BY <3>2, <4>1 DEF Posts
      <4>3. Touched(p) = {t.dst}
        BY <3>2 DEF Touched, DimsOf
      <4> QED BY <4>1, <4>2, <4>3 DEF Movement
    <3> QED BY <1>2, <3>1, <3>2
  <2>2. IsFiniteSet({m} \cup {n}) /\ {m} \cup {n} = {m, n}
    BY FS_Singleton, FS_Union
  <2> QED BY <2>1, <2>2
<1>3. CASE c.op \notin {"move", "receipt", "return", "consume", "dispatch", "receive"}
  <2>1. Posts(p) = {}
    BY <1>3 DEF Posts
  <2> QED BY <2>1, FS_EmptySet
<1> QED BY <1>1, <1>2, <1>3

\* A commit leaves the rows that are there, and adds rows that were not.
LEMMA RowsAdded ==
  ASSUME IInv, NEW p \in Session, Commit(p)
  PROVE  /\ cmd[p] \in Command
         /\ movements' = movements \cup Posts(p) /\ Posts(p) \cap movements = {}
         /\ \A m \in movements : m.delta \in Int /\ Deltas[m] = m.delta /\ Deltas'[m] = m.delta
         /\ \A m \in Posts(p) : m.delta \in Int /\ m.bucket \in Bucket /\ Deltas'[m] = m.delta
<1>1. cmd[p] \in Command /\ \A m \in Posts(p) : m.delta \in Int /\ m.bucket \in Bucket
  BY Committed, PostsType DEF IInv, MovementRow
<1>2. movements' = movements \cup Posts(p) /\ Posts(p) \cap movements = {}
  BY DEF Commit, Collides, Posted
<1>3. \A m \in movements : m.delta \in Int
  BY DEF IInv, TypeOK, MovementRow
<1> QED BY <1>1, <1>2, <1>3 DEF Deltas

\* So a sum over some of the rows grows by the row that is new among them.
LEMMA SelectionGrows ==
  ASSUME IInv, IsFiniteSet(movements), NEW p \in Session, Commit(p), NEW S, S \subseteq movements
  PROVE  /\ SumFunctionOnSet(Deltas, S) \in Int
         /\ SumFunctionOnSet(Deltas', S) = SumFunctionOnSet(Deltas, S)
         /\ \A m \in Posts(p) : SumFunctionOnSet(Deltas', S \cup {m}) = SumFunctionOnSet(Deltas, S) + m.delta
         /\ \A m, n \in Posts(p) : m # n =>
              SumFunctionOnSet(Deltas', S \cup {m, n}) = (SumFunctionOnSet(Deltas, S) + m.delta) + n.delta
<1>1. IsFiniteSet(S) /\ Ints(Deltas, S) /\ Ints(Deltas', S) /\ \A m \in S : Deltas'[m] = Deltas[m]
  BY RowsAdded, FS_Subset DEF Ints
<1>2. SumFunctionOnSet(Deltas, S) \in Int
  BY <1>1, SumIsInt
<1>3. SumFunctionOnSet(Deltas', S) = SumFunctionOnSet(Deltas, S)
  BY <1>1, SumsAgree
<1>4. ASSUME NEW m \in Posts(p)
      PROVE  SumFunctionOnSet(Deltas', S \cup {m}) = SumFunctionOnSet(Deltas, S) + m.delta
  <2>1. m \notin S /\ Deltas'[m] = m.delta /\ m.delta \in Int
    BY RowsAdded
  <2> QED BY <1>1, <1>3, <2>1, SumWith
<1>5. ASSUME NEW m \in Posts(p), NEW n \in Posts(p), m # n
      PROVE  SumFunctionOnSet(Deltas', S \cup {m, n}) = (SumFunctionOnSet(Deltas, S) + m.delta) + n.delta
  <2> DEFINE T == S \cup {m}
  <2>1. n \notin T /\ Deltas'[n] = n.delta /\ n.delta \in Int /\ Deltas'[m] = m.delta /\ m.delta \in Int
    BY <1>5, RowsAdded
  <2>2. IsFiniteSet(T) /\ Ints(Deltas', T) /\ T \cup {n} = S \cup {m, n}
    BY <1>1, <2>1, FS_AddElement DEF Ints
  <2>3. SumFunctionOnSet(Deltas', T) = SumFunctionOnSet(Deltas, S) + m.delta
    BY <1>4
  <2> HIDE DEF T
  <2>4. SumFunctionOnSet(Deltas', T \cup {n}) = SumFunctionOnSet(Deltas', T) + Deltas'[n]
    BY <2>1, <2>2, SumWith
  <2> QED BY <2>1, <2>2, <2>3, <2>4
<1> QED BY <1>2, <1>3, <1>4, <1>5

\* Each column of the ledger moves by the row posted to it.
LEMMA LedgerStep ==
  ASSUME IInv, Sums, NEW p \in Session, Commit(p), NEW d \in Dim, NEW b \in Bucket
  PROVE  ledger'[d][b] = SumFunctionOnSet(Deltas', RowsOf(d, b)')
<1>1. b \in Column /\ b # "reserved" /\ RowsOf(d, b) \subseteq movements /\ IsFiniteSet(movements)
  BY DEF Bucket, Column, RowsOf, Sums, Finite
<1>2. ledger'[d][b] = ledger[d][b] + Change(p, d, b)
  BY <1>1 DEF Commit
<1>3. ledger[d][b] = SumFunctionOnSet(Deltas, RowsOf(d, b)) /\ ledger[d][b] \in Int
  BY <1>1 DEF Sums, AggregatesAreSums, IInv, TypeOK, Balance
<1>4. movements' = movements \cup Posts(p) /\ cmd[p] \in Command
  BY RowsAdded
<1>5. CASE \E m \in Posts(p) : m.dim = d /\ m.bucket = b
  <2>1. PICK m \in Posts(p) : m.dim = d /\ m.bucket = b
    BY <1>5
  <2>2. \A n \in Posts(p) : n.dim = d /\ n.bucket = b => n = m
    BY <1>4, <2>1, PostsApart
  <2>3. Change(p, d, b) = m.delta
    BY <1>1, <1>4, <2>1, <2>2, PostsApart, ColumnPosted
  <2>4. RowsOf(d, b)' = RowsOf(d, b) \cup {m}
    BY <1>4, <2>1, <2>2 DEF RowsOf
  <2> QED BY <1>1, <1>2, <1>3, <2>3, <2>4, SelectionGrows
<1>6. CASE ~\E m \in Posts(p) : m.dim = d /\ m.bucket = b
  <2>1. Change(p, d, b) = 0
    BY <1>1, <1>6, ColumnKept
  <2>2. RowsOf(d, b)' = RowsOf(d, b)
    BY <1>4, <1>6 DEF RowsOf
  <2> QED BY <1>1, <1>2, <1>3, <2>1, <2>2, SelectionGrows
<1> QED BY <1>5, <1>6
-----------------------------------------------------------------------------
(***************************************************************************)
(* The transfers and their legs.                                           *)
(***************************************************************************)
LEMMA RoadTypes ==
  ASSUME IInv, Sums, NEW d \in Dim
  PROVE  /\ IsFiniteSet(movements) /\ Legs \cap RowsOf(d, "in_transit") \subseteq movements /\ Legs \subseteq movements
         /\ IsFiniteSet(OnTheRoad(d)) /\ Ints(Quantities, OnTheRoad(d))
         /\ \A x \in Xfer : Quantities[x] = xfer[x].qty /\ Quantities'[x] = xfer'[x].qty
         /\ SumFunctionOnSet(Deltas, Legs \cap RowsOf(d, "in_transit")) = SumFunctionOnSet(Quantities, OnTheRoad(d))
         /\ SumFunctionOnSet(Deltas, Legs) = 0
<1>1. IsFiniteSet(OnTheRoad(d))
  <2>1. OnTheRoad(d) \subseteq MovingXfer /\ IsFiniteSet(MovingXfer)
    BY DEF OnTheRoad, MovingXfer, Sums, Finite
  <2> QED BY <2>1, FS_Subset
<1>2. Ints(Quantities, OnTheRoad(d))
  BY DEF Ints, Quantities, OnTheRoad, IInv, TypeOK, XferRow
<1> QED BY <1>1, <1>2 DEF Legs, RowsOf, Quantities, Sums, Finite, TransfersConserveStock

\* Only a dispatch and a receipt of goods post legs, and only they move a transfer onto
\* the road or off it.
LEMMA NoLegs ==
  ASSUME NEW p \in Session, cmd[p] \in Command, cmd[p].op \notin {"dispatch", "receive"}
  PROVE  \A m \in Posts(p) : ~IsLeg(m)
<1>1. CASE cmd[p].op \in {"move", "receipt", "return", "consume"}
  <2>1. PICK d, b, n : Posts(p) = {Movement(OwnId(cmd[p].key), d, b, n)}
    BY <1>1 DEF Posts
  <2>2. \A m \in Posts(p) : m.id = OwnId(cmd[p].key)
    BY <2>1 DEF Movement
  <2> QED BY <2>2 DEF IsLeg, OwnId
<1>2. CASE cmd[p].op \notin {"move", "receipt", "return", "consume"}
  <2>1. Posts(p) = {}
    BY <1>2 DEF Posts
  <2> QED BY <2>1
<1> QED BY <1>1, <1>2

LEMMA RoadKept ==
  ASSUME IInv, Admissions, NEW p \in Session, Commit(p), cmd[p].op \notin {"dispatch", "receive"}, NEW x \in Xfer,
         xfer[x].status = "in_transit" \/ xfer'[x].status = "in_transit"
  PROVE  xfer'[x] = xfer[x]
<1>1. cmd[p] \in Command /\ xfer' = TransferAfter(p) /\ xfer \in [Xfer -> XferRow]
  BY Committed DEF IInv, TypeOK
<1>2. pc[p] \in Working /\ TransferKept(p) /\ Entitled(p)
  BY Committed DEF SessionOK, Admissions
<1>3. CASE cmd[p].op = "create_transfer"
  <2>1. xfer[cmd[p].xfer].status = "absent"
    BY <1>2, <1>3 DEF TransferKept
  <2>2. xfer' = [xfer EXCEPT ![cmd[p].xfer] = [status |-> "draft", src |-> cmd[p].src, dst |-> cmd[p].dst,
                                               qty |-> cmd[p].qty, version |-> 1, keys |-> {}]]
    BY <1>1, <1>3 DEF TransferAfter
  <2> QED BY <1>1, <2>1, <2>2
<1>4. CASE cmd[p].op = "cancel"
  <2>1. xfer[cmd[p].xfer].status = "draft"
    BY <1>2, <1>4 DEF TransferKept, Entitled, ShiftOp, FromStatus
  <2>2. xfer' = [xfer EXCEPT ![cmd[p].xfer].status = "cancelled", ![cmd[p].xfer].version = row[p].version + 1,
                             ![cmd[p].xfer].keys = @ \cup {cmd[p].key}]
    BY <1>1, <1>4 DEF TransferAfter, ToStatus
  <2>3. x = cmd[p].xfer => xfer'[x].status = "cancelled"
    BY <1>1, <2>2 DEF XferRow
  <2>4. x # cmd[p].xfer => xfer'[x] = xfer[x]
    BY <1>1, <2>2
  <2> QED BY <2>1, <2>3, <2>4
<1>5. CASE cmd[p].op \notin {"create_transfer", "cancel"}
  BY <1>1, <1>5 DEF TransferAfter
<1> QED BY <1>3, <1>4, <1>5

LEMMA RoadStands ==
  ASSUME IInv, Admissions, Sums, NEW p \in Session, Commit(p), cmd[p].op \notin {"dispatch", "receive"}
  PROVE  TransfersConserveStock' /\ IsFiniteSet(MovingXfer)'
<1>1. movements' = movements \cup Posts(p) /\ \A m \in Posts(p) : ~IsLeg(m)
  BY RowsAdded, NoLegs
<1>2. Legs' = Legs /\ \A d \in Dim : (Legs \cap RowsOf(d, "in_transit"))' = Legs \cap RowsOf(d, "in_transit")
  BY <1>1 DEF Legs, RowsOf, IsLeg
<1>3. ASSUME NEW d \in Dim
      PROVE  SumFunctionOnSet(Quantities', OnTheRoad(d)') = SumFunctionOnSet(Quantities, OnTheRoad(d))
  <2>1. OnTheRoad(d)' = OnTheRoad(d)
    BY RoadKept DEF OnTheRoad
  <2>2. \A x \in OnTheRoad(d) : Quantities'[x] = Quantities[x]
    BY RoadKept, RoadTypes DEF OnTheRoad
  <2>3. IsFiniteSet(OnTheRoad(d)) /\ Ints(Quantities, OnTheRoad(d))
    BY RoadTypes
  <2>4. SumFunctionOnSet(Quantities', OnTheRoad(d)) = SumFunctionOnSet(Quantities, OnTheRoad(d))
    BY <2>2, <2>3, SumsAgree
  <2> QED BY <2>1, <2>4
<1>4. MovingXfer' = MovingXfer
  BY RoadKept DEF MovingXfer
<1>5. ASSUME NEW d \in Dim
      PROVE  SumFunctionOnSet(Deltas', (Legs \cap RowsOf(d, "in_transit"))') = SumFunctionOnSet(Quantities', OnTheRoad(d)')
  BY <1>2, <1>3, RoadTypes, SelectionGrows
<1>6. SumFunctionOnSet(Deltas', Legs') = 0
  BY <1>2, RoadTypes, SelectionGrows, ConstantTypes
<1> QED BY <1>4, <1>5, <1>6 DEF TransfersConserveStock, Sums, Finite

\* A dispatch and a receipt post two legs that cancel out, and the one of them that is in
\* transit is the transfer's.
LEMMA TransferMoved ==
  ASSUME NEW p \in Session, NEW x \in Xfer, NEW s, NEW d, NEW k, Shift(p, x, s, d, k)
  PROVE  /\ xfer[x].status = FromStatus(cmd[p].op) /\ xfer[x].dst = d /\ xfer[x].qty = k
         /\ xfer'[x].status = ToStatus[cmd[p].op] /\ xfer'[x].dst = d /\ xfer'[x].qty = k
         /\ \A y \in Xfer : y # x =>
              xfer'[y].status = xfer[y].status /\ xfer'[y].dst = xfer[y].dst /\ xfer'[y].qty = xfer[y].qty
<1>1. \A y \in Xfer : Routes[y] = Route(y) /\ Routes'[y] = Route(y)'
  BY DEF Routes
<1>2. Routes[x] = [status |-> FromStatus(cmd[p].op), src |-> s, dst |-> d, qty |-> k]
  BY DEF Shift
<1>3. \A y \in Xfer : y # x => Routes'[y] = Routes[y]
  BY DEF Shift, Routes
<1>4. Routes'[x] = [status |-> ToStatus[cmd[p].op], src |-> s, dst |-> d, qty |-> k]
  <2>1. PICK u, v : u = FromStatus(cmd[p].op) /\ v = ToStatus[cmd[p].op]
    OBVIOUS
  <2>2. Routes'[x] = [Routes[x] EXCEPT !.status = v]
    BY <2>1 DEF Shift, Routes
  <2>3. [[status |-> u, src |-> s, dst |-> d, qty |-> k] EXCEPT !.status = v] = [status |-> v, src |-> s, dst |-> d, qty |-> k]
    OBVIOUS
  <2> QED BY <1>2, <2>1, <2>2, <2>3
<1>5. xfer[x].status = FromStatus(cmd[p].op) /\ xfer[x].dst = d /\ xfer[x].qty = k
  <2>1. Route(x).status = FromStatus(cmd[p].op) /\ Route(x).dst = d /\ Route(x).qty = k
    BY <1>1, <1>2
  <2> QED BY <2>1 DEF Route
<1>6. xfer'[x].status = ToStatus[cmd[p].op] /\ xfer'[x].dst = d /\ xfer'[x].qty = k
  <2>1. Routes'[x].status = ToStatus[cmd[p].op] /\ Routes'[x].dst = d /\ Routes'[x].qty = k
    BY <1>4
  <2>2. Routes'[x].status = xfer'[x].status /\ Routes'[x].dst = xfer'[x].dst /\ Routes'[x].qty = xfer'[x].qty
    BY DEF Routes, Route
  <2> QED BY <2>1, <2>2
<1>7. ASSUME NEW y \in Xfer, y # x
      PROVE  xfer'[y].status = xfer[y].status /\ xfer'[y].dst = xfer[y].dst /\ xfer'[y].qty = xfer[y].qty
  <2>1. Routes'[y] = Routes[y]
    BY <1>3, <1>7
  <2>2. Routes[y].status = xfer[y].status /\ Routes[y].dst = xfer[y].dst /\ Routes[y].qty = xfer[y].qty
    BY DEF Routes, Route
  <2>3. Routes'[y].status = xfer'[y].status /\ Routes'[y].dst = xfer'[y].dst /\ Routes'[y].qty = xfer'[y].qty
    BY DEF Routes, Route
  <2> QED BY <2>1, <2>2, <2>3
<1> QED BY <1>5, <1>6, <1>7

LEMMA RoadDispatched ==
  ASSUME IInv, Admissions, Sums, NEW p \in Session, Commit(p), cmd[p].op = "dispatch"
  PROVE  TransfersConserveStock' /\ IsFiniteSet(MovingXfer)'
<1>1. PICK x \in Xfer, s \in Dim, d \in Dim, k \in Nat : Shift(p, x, s, d, k)
  BY Shifted DEF ShiftOp
<1>2. /\ xfer[x].status = "draft" /\ xfer'[x].status = "in_transit" /\ xfer'[x].dst = d /\ xfer'[x].qty = k
      /\ \A y \in Xfer : y # x =>
           xfer'[y].status = xfer[y].status /\ xfer'[y].dst = xfer[y].dst /\ xfer'[y].qty = xfer[y].qty
  <2>1. FromStatus(cmd[p].op) = "draft" /\ ToStatus[cmd[p].op] = "in_transit"
    BY DEF FromStatus, ToStatus
  <2> QED BY <1>1, <2>1, TransferMoved
<1>3. PICK m, n : /\ m = Movement(LegId(cmd[p].key, "source-debit"), s, "physical", -k)
                  /\ n = Movement(LegId(cmd[p].key, "transit-credit"), d, "in_transit", k)
  OBVIOUS
<1>4. /\ Posts(p) = {m, n} /\ m # n /\ IsLeg(m) /\ IsLeg(n) /\ m.delta = -k /\ n.delta = k
      /\ m.bucket = "physical" /\ n.bucket = "in_transit" /\ n.dim = d
  <2>1. row[p].src = s /\ row[p].dst = d /\ row[p].qty = k
    BY <1>1 DEF Shift
  <2>2. Posts(p) = {m, n}
    BY <1>3, <2>1 DEF Posts
  <2> QED BY <1>3, <2>2 DEF Movement, LegId, IsLeg
<1>5. movements' = movements \cup {m, n}
  BY <1>4, RowsAdded
<1>6. SumFunctionOnSet(Deltas', Legs') = 0
  <2>1. Legs' = Legs \cup {m, n}
    BY <1>4, <1>5 DEF Legs, IsLeg
  <2>2. SumFunctionOnSet(Deltas, Legs) = 0 /\ Legs \subseteq movements /\ IsFiniteSet(movements)
    BY <1>1, RoadTypes
  <2>3. SumFunctionOnSet(Deltas', Legs \cup {m, n}) = (SumFunctionOnSet(Deltas, Legs) + m.delta) + n.delta
    BY <1>4, <2>2, SelectionGrows
  <2> QED BY <1>4, <2>1, <2>2, <2>3
<1>7. ASSUME NEW e \in Dim
      PROVE  SumFunctionOnSet(Deltas', (Legs \cap RowsOf(e, "in_transit"))') = SumFunctionOnSet(Quantities', OnTheRoad(e)')
  <2> DEFINE S == Legs \cap RowsOf(e, "in_transit")
  <2>1. /\ IsFiniteSet(movements) /\ S \subseteq movements
        /\ IsFiniteSet(OnTheRoad(e)) /\ Ints(Quantities, OnTheRoad(e))
        /\ \A y \in Xfer : Quantities[y] = xfer[y].qty /\ Quantities'[y] = xfer'[y].qty
        /\ SumFunctionOnSet(Deltas, S) = SumFunctionOnSet(Quantities, OnTheRoad(e))
    BY RoadTypes
  <2>2. \A y \in OnTheRoad(e) : y # x /\ Quantities'[y] = Quantities[y]
    BY <1>2, <2>1 DEF OnTheRoad
  <2>3. CASE e = d
    <3>1. S' = S \cup {n}
      BY <1>4, <1>5, <2>3 DEF Legs, IsLeg, RowsOf
    <3>2. OnTheRoad(e)' = OnTheRoad(e) \cup {x} /\ x \notin OnTheRoad(e)
      BY <1>2, <2>3 DEF OnTheRoad
    <3> HIDE DEF S
    <3>3. SumFunctionOnSet(Deltas', S \cup {n}) = SumFunctionOnSet(Deltas, S) + k
      BY <1>4, <2>1, SelectionGrows
    <3>4. SumFunctionOnSet(Quantities', OnTheRoad(e) \cup {x}) = SumFunctionOnSet(Quantities, OnTheRoad(e)) + k
      <4>1. Quantities'[x] = k /\ k \in Int
        BY <1>2, <2>1
      <4> QED BY <2>1, <2>2, <3>2, <4>1, SumGains
    <3> QED BY <2>1, <3>1, <3>2, <3>3, <3>4 DEF S
  <2>4. CASE e # d
    <3>1. S' = S
      BY <1>4, <1>5, <2>4 DEF Legs, IsLeg, RowsOf
    <3>2. OnTheRoad(e)' = OnTheRoad(e)
      BY <1>2, <2>4 DEF OnTheRoad
    <3> HIDE DEF S
    <3>3. SumFunctionOnSet(Deltas', S) = SumFunctionOnSet(Deltas, S)
      BY <2>1, SelectionGrows
    <3>4. SumFunctionOnSet(Quantities', OnTheRoad(e)) = SumFunctionOnSet(Quantities, OnTheRoad(e))
      BY <2>1, <2>2, SumsAgree
    <3> QED BY <2>1, <3>1, <3>2, <3>3, <3>4 DEF S
  <2> QED BY <2>3, <2>4
<1>8. IsFiniteSet(MovingXfer)'
  <2>1. MovingXfer' = MovingXfer \cup {x} /\ IsFiniteSet(MovingXfer)
    BY <1>2 DEF MovingXfer, Sums, Finite
  <2> QED BY <2>1, FS_AddElement
<1> QED BY <1>6, <1>7, <1>8 DEF TransfersConserveStock

LEMMA RoadArrived ==
  ASSUME IInv, Admissions, Sums, NEW p \in Session, Commit(p), cmd[p].op = "receive"
  PROVE  TransfersConserveStock' /\ IsFiniteSet(MovingXfer)'
<1>1. PICK x \in Xfer, s \in Dim, d \in Dim, k \in Nat : Shift(p, x, s, d, k)
  BY Shifted DEF ShiftOp
<1>2. /\ xfer[x].status = "in_transit" /\ xfer[x].dst = d /\ xfer[x].qty = k /\ xfer'[x].status = "received"
      /\ \A y \in Xfer : y # x =>
           xfer'[y].status = xfer[y].status /\ xfer'[y].dst = xfer[y].dst /\ xfer'[y].qty = xfer[y].qty
  <2>1. FromStatus(cmd[p].op) = "in_transit" /\ ToStatus[cmd[p].op] = "received"
    BY DEF FromStatus, ToStatus
  <2> QED BY <1>1, <2>1, TransferMoved
<1>3. PICK m, n : /\ m = Movement(LegId(cmd[p].key, "transit-debit"), d, "in_transit", -k)
                  /\ n = Movement(LegId(cmd[p].key, "destination-credit"), d, "physical", k)
  OBVIOUS
<1>4. /\ Posts(p) = {m, n} /\ m # n /\ IsLeg(m) /\ IsLeg(n) /\ m.delta = -k /\ n.delta = k
      /\ m.bucket = "in_transit" /\ n.bucket = "physical" /\ m.dim = d
  <2>1. row[p].dst = d /\ row[p].qty = k
    BY <1>1 DEF Shift
  <2>2. Posts(p) = {m, n}
    BY <1>3, <2>1 DEF Posts
  <2> QED BY <1>3, <2>2 DEF Movement, LegId, IsLeg
<1>5. movements' = movements \cup {m, n}
  BY <1>4, RowsAdded
<1>6. SumFunctionOnSet(Deltas', Legs') = 0
  <2>1. Legs' = Legs \cup {m, n}
    BY <1>4, <1>5 DEF Legs, IsLeg
  <2>2. SumFunctionOnSet(Deltas, Legs) = 0 /\ Legs \subseteq movements /\ IsFiniteSet(movements)
    BY <1>1, RoadTypes
  <2>3. SumFunctionOnSet(Deltas', Legs \cup {m, n}) = (SumFunctionOnSet(Deltas, Legs) + m.delta) + n.delta
    BY <1>4, <2>2, SelectionGrows
  <2> QED BY <1>4, <2>1, <2>2, <2>3
<1>7. ASSUME NEW e \in Dim
      PROVE  SumFunctionOnSet(Deltas', (Legs \cap RowsOf(e, "in_transit"))') = SumFunctionOnSet(Quantities', OnTheRoad(e)')
  <2> DEFINE S == Legs \cap RowsOf(e, "in_transit")
  <2>1. /\ IsFiniteSet(movements) /\ S \subseteq movements
        /\ IsFiniteSet(OnTheRoad(e)) /\ Ints(Quantities, OnTheRoad(e))
        /\ \A y \in Xfer : Quantities[y] = xfer[y].qty /\ Quantities'[y] = xfer'[y].qty
        /\ SumFunctionOnSet(Deltas, S) = SumFunctionOnSet(Quantities, OnTheRoad(e))
    BY RoadTypes
  <2>2. \A y \in OnTheRoad(e) : y # x => Quantities'[y] = Quantities[y]
    BY <1>2, <2>1 DEF OnTheRoad
  <2>3. CASE e = d
    <3>1. S' = S \cup {m}
      BY <1>4, <1>5, <2>3 DEF Legs, IsLeg, RowsOf
    <3>2. OnTheRoad(e)' = OnTheRoad(e) \ {x} /\ x \in OnTheRoad(e)
      BY <1>2, <2>3 DEF OnTheRoad
    <3> HIDE DEF S
    <3>3. SumFunctionOnSet(Deltas', S \cup {m}) = SumFunctionOnSet(Deltas, S) + (-k) /\ SumFunctionOnSet(Deltas, S) \in Int
      BY <1>4, <2>1, SelectionGrows
    <3>4. SumFunctionOnSet(Quantities', OnTheRoad(e) \ {x}) = SumFunctionOnSet(Quantities, OnTheRoad(e)) - k
      <4>1. Quantities[x] = k
        BY <1>2, <2>1
      <4> QED BY <2>1, <2>2, <3>2, <4>1, SumLoses
    <3> QED BY <2>1, <3>1, <3>2, <3>3, <3>4 DEF S
  <2>4. CASE e # d
    <3>1. S' = S
      BY <1>4, <1>5, <2>4 DEF Legs, IsLeg, RowsOf
    <3>2. OnTheRoad(e)' = OnTheRoad(e) /\ x \notin OnTheRoad(e)
      BY <1>2, <2>4 DEF OnTheRoad
    <3> HIDE DEF S
    <3>3. SumFunctionOnSet(Deltas', S) = SumFunctionOnSet(Deltas, S)
      BY <2>1, SelectionGrows
    <3>4. SumFunctionOnSet(Quantities', OnTheRoad(e)) = SumFunctionOnSet(Quantities, OnTheRoad(e))
      BY <2>1, <2>2, <3>2, SumsAgree
    <3> QED BY <2>1, <3>1, <3>2, <3>3, <3>4 DEF S
  <2> QED BY <2>3, <2>4
<1>8. IsFiniteSet(MovingXfer)'
  <2>1. MovingXfer' \subseteq MovingXfer /\ IsFiniteSet(MovingXfer)
    BY <1>2 DEF MovingXfer, Sums, Finite
  <2> QED BY <2>1, FS_Subset
<1> QED BY <1>6, <1>7, <1>8 DEF TransfersConserveStock
-----------------------------------------------------------------------------
(***************************************************************************)
(* The reservations.                                                       *)
(***************************************************************************)
\* A command that draws on a reservation or ends it gives back what it takes from it.
LEMMA ReservationDrawn ==
  ASSUME IInv, Admissions, NEW p \in Session, Commit(p), cmd[p].op = "release" \/ Reserved(cmd[p])
  PROVE  /\ cmd[p].res \in Resv /\ resv[cmd[p].res].status = "active"
         /\ Touched(p) = {resv[cmd[p].res].dim} /\ resv'[cmd[p].res].dim = resv[cmd[p].res].dim
         /\ \A r \in Resv : r # cmd[p].res => resv'[r] = resv[r]
         /\ IF resv'[cmd[p].res].status = "active"
            THEN HeldChange(p) = Left(resv'[cmd[p].res]) - Left(resv[cmd[p].res])
            ELSE HeldChange(p) = -Left(resv[cmd[p].res])
<1>1. PICK r \in Resv : r = cmd[p].res
  BY Committed, CommandFields DEF Reserved
<1>2. /\ row[p] = resv[r] /\ resv[r].status = "active" /\ (Reserved(cmd[p]) => resv[r].dim = cmd[p].dim)
      /\ resv \in [Resv -> ResvRow] /\ resv[r] \in ResvRow /\ resv' = ReservationAfter(p) /\ cmd[p] \in Command
  BY <1>1, Committed DEF SessionOK, ReservationKept, Admissions, Entitled, IInv, TypeOK
<1>3. CASE cmd[p].op = "release"
  <2>1. cmd[p].outcome # "active"
    BY <1>2, <1>3, CommandFields DEF Outcome
  <2>2. /\ \A q \in Resv : q # r => resv'[q] = resv[q]
        /\ resv'[r] = [resv[r] EXCEPT !.status = cmd[p].outcome, !.version = row[p].version + 1, !.keys = @ \cup {cmd[p].key}]
    BY <1>1, <1>2, <1>3 DEF ReservationAfter, Reserved
  <2>3. resv'[r].status = cmd[p].outcome /\ resv'[r].dim = resv[r].dim
    BY <1>2, <2>2 DEF ResvRow
  <2>4. HeldChange(p) = -Left(resv[r])
    BY <1>2, <1>3 DEF HeldChange, Reserved
  <2>5. Touched(p) = {resv[r].dim}
    BY <1>2, <1>3 DEF Touched, DimsOf
  <2> QED BY <1>1, <1>2, <2>1, <2>2, <2>3, <2>4, <2>5
<1>4. CASE Reserved(cmd[p])
  <2>1. cmd[p].qty \in Nat
    BY <1>2, <1>4, CommandFields DEF Reserved
  <2>2. /\ \A q \in Resv : q # r => resv'[q] = resv[q]
        /\ resv'[r] = [resv[r] EXCEPT !.status = IF Left(row[p]) = cmd[p].qty THEN "fulfilled" ELSE "active",
                         !.used = @ + cmd[p].qty, !.version = row[p].version + 1, !.keys = @ \cup {cmd[p].key}]
    BY <1>1, <1>2, <1>4 DEF ReservationAfter, Reserved
  <2>3. /\ resv'[r].status = IF Left(resv[r]) = cmd[p].qty THEN "fulfilled" ELSE "active"
        /\ resv'[r].dim = resv[r].dim /\ resv'[r].qty = resv[r].qty /\ resv'[r].used = resv[r].used + cmd[p].qty
    BY <1>2, <2>2 DEF ResvRow
  <2>4. HeldChange(p) = -cmd[p].qty
    BY <1>4 DEF HeldChange, Reserved
  <2>5. Touched(p) = {resv[r].dim}
    BY <1>2, <1>4 DEF Touched, DimsOf, Reserved
  <2>6. CASE Left(resv[r]) = cmd[p].qty
    BY <1>1, <1>2, <2>2, <2>3, <2>4, <2>5, <2>6
  <2>7. CASE Left(resv[r]) # cmd[p].qty
    <3>1. resv'[r].status = "active" /\ resv[r].qty \in Int /\ resv[r].used \in Int
      BY <1>2, <2>3, <2>7 DEF ResvRow
    <3>2. Left(resv'[r]) = Left(resv[r]) - cmd[p].qty
      BY <1>2, <2>1, <2>3, <3>1 DEF Left
    <3>3. Left(resv[r]) \in Int
      BY <3>1 DEF Left
    <3> QED BY <1>1, <1>2, <2>1, <2>2, <2>3, <2>4, <2>5, <3>1, <3>2, <3>3
  <2> QED BY <2>6, <2>7
<1> QED BY <1>3, <1>4

\* What is reserved in a dimension moves with the reservations of that dimension.
LEMMA ClaimsStep ==
  ASSUME IInv, Admissions, Sums, NEW p \in Session, Commit(p), NEW d \in Dim
  PROVE  claims'[d] = SumFunctionOnSet(Outstanding', ActiveOf(d)')
<1> DEFINE S == ActiveOf(d)
           c == cmd[p]
<1>1. claims'[d] = claims[d] + Change(p, d, "reserved") /\ Change(p, d, "reserved") = IF d \in Touched(p) THEN HeldChange(p) ELSE 0
  BY DEF Commit, Change
<1>2. IsFiniteSet(S)
  <2>1. S \subseteq ActiveResv /\ IsFiniteSet(ActiveResv)
    BY DEF ActiveOf, ActiveResv, Sums, Finite
  <2> QED BY <2>1, FS_Subset
<1>3. /\ resv \in [Resv -> ResvRow] /\ \A r \in Resv : Left(resv[r]) \in Int
      /\ \A r \in Resv : Outstanding[r] = Left(resv[r]) /\ Outstanding'[r] = Left(resv'[r])
  BY DEF Outstanding, IInv, TypeOK, ResvRow, Left
<1>4. Ints(Outstanding, S) /\ S \subseteq Resv
  BY <1>3 DEF Ints, ActiveOf
<1>5. claims[d] = SumFunctionOnSet(Outstanding, S) /\ claims[d] \in Int
  BY DEF Sums, AggregatesAreSums, IInv, TypeOK
<1>6. CASE c.op = "reserve"
  <2>1. PICK r \in Resv, k \in Nat : r = c.res /\ k = c.qty
    BY <1>6, Committed, CommandFields
  <2>2. resv[r].status = "absent" /\ resv' = ReservationAfter(p)
    BY <1>6, <2>1, Committed DEF SessionOK, ReservationKept
  <2>3. /\ resv'[r] = [status |-> "active", dim |-> c.dim, qty |-> k, used |-> 0, version |-> 1, keys |-> {}]
        /\ \A q \in Resv : q # r => resv'[q] = resv[q]
    BY <1>3, <1>6, <2>1, <2>2 DEF ReservationAfter, Reserved
  <2>4. resv'[r].status = "active" /\ resv'[r].dim = c.dim /\ Left(resv'[r]) = k
    BY <2>3 DEF Left
  <2>5. Touched(p) = {c.dim} /\ HeldChange(p) = k
    <3>1. HeldChange(p) = IF c.op = "reserve" THEN c.qty ELSE -Left(row[p])
      BY <1>6 DEF HeldChange, Reserved
    <3>2. Touched(p) = {c.dim}
      BY <1>6 DEF Touched, DimsOf
    <3> QED BY <1>6, <2>1, <3>1, <3>2
  <2>6. r \notin S /\ \A q \in S : Outstanding'[q] = Outstanding[q]
    BY <1>3, <2>2, <2>3 DEF ActiveOf
  <2>7. CASE d = c.dim
    <3>1. ActiveOf(d)' = S \cup {r}
      BY <2>2, <2>3, <2>4, <2>7 DEF ActiveOf
    <3>2. Outstanding'[r] = k /\ k \in Int
      BY <1>3, <2>4
    <3> HIDE DEF S
    <3>3. SumFunctionOnSet(Outstanding', S \cup {r}) = SumFunctionOnSet(Outstanding, S) + k
      BY <1>2, <1>4, <2>6, <3>2, SumGains
    <3> QED BY <1>1, <1>5, <2>5, <2>7, <3>1, <3>3
  <2>8. CASE d # c.dim
    <3>1. ActiveOf(d)' = S
      BY <2>2, <2>3, <2>4, <2>8 DEF ActiveOf
    <3> HIDE DEF S
    <3>2. SumFunctionOnSet(Outstanding', S) = SumFunctionOnSet(Outstanding, S)
      BY <1>2, <1>4, <2>6, SumsAgree
    <3> QED BY <1>1, <1>5, <2>5, <2>8, <3>1, <3>2
  <2> QED BY <2>7, <2>8
<1>7. CASE c.op = "release" \/ Reserved(c)
  <2>1. PICK r \in Resv : r = c.res
    BY <1>7, ReservationDrawn
  <2>2. /\ resv[r].status = "active" /\ Touched(p) = {resv[r].dim} /\ resv'[r].dim = resv[r].dim
        /\ \A q \in Resv : q # r => resv'[q] = resv[q]
        /\ resv'[r].status = "active" => HeldChange(p) = Left(resv'[r]) - Left(resv[r])
        /\ resv'[r].status # "active" => HeldChange(p) = -Left(resv[r])
    BY <1>7, <2>1, ReservationDrawn
  <2>3. \A q \in S : q # r => Outstanding'[q] = Outstanding[q]
    BY <1>3, <1>4, <2>2
  <2>4. Left(resv'[r]) \in Int
    <3>1. TypeOK'
      BY CommitStep DEF IInv
    <3> QED BY <3>1 DEF TypeOK, ResvRow, Left
  <2>5. CASE d = resv[r].dim /\ resv'[r].status = "active"
    <3>1. ActiveOf(d)' = S /\ r \in S
      BY <2>2, <2>5 DEF ActiveOf
    <3> HIDE DEF S
    <3>2. SumFunctionOnSet(Outstanding', S) = (SumFunctionOnSet(Outstanding, S) - Outstanding[r]) + Outstanding'[r]
      <4>1. Outstanding'[r] \in Int
        BY <1>3, <2>4
      <4> QED BY <1>2, <1>4, <2>3, <3>1, <4>1, SumChanges
    <3> QED BY <1>1, <1>3, <1>5, <2>2, <2>4, <2>5, <3>1, <3>2
  <2>6. CASE d = resv[r].dim /\ resv'[r].status # "active"
    <3>1. ActiveOf(d)' = S \ {r} /\ r \in S
      BY <2>2, <2>6 DEF ActiveOf
    <3> HIDE DEF S
    <3>2. SumFunctionOnSet(Outstanding', S \ {r}) = SumFunctionOnSet(Outstanding, S) - Outstanding[r]
      BY <1>2, <1>4, <2>3, <3>1, SumLoses
    <3> QED BY <1>1, <1>3, <1>5, <2>2, <2>6, <3>1, <3>2
  <2>7. CASE d # resv[r].dim
    <3>1. ActiveOf(d)' = S /\ r \notin S
      BY <2>2, <2>7 DEF ActiveOf
    <3> HIDE DEF S
    <3>2. SumFunctionOnSet(Outstanding', S) = SumFunctionOnSet(Outstanding, S)
      BY <1>2, <1>4, <2>3, <3>1, SumsAgree
    <3> QED BY <1>1, <1>5, <2>2, <2>7, <3>1, <3>2
  <2> QED BY <2>5, <2>6, <2>7
<1>8. CASE c.op \notin {"reserve", "release"} /\ ~Reserved(c)
  <2>1. HeldChange(p) = 0 /\ ReservationAfter(p) = resv
    BY <1>8 DEF HeldChange, ReservationAfter
  <2>2. resv' = resv
    BY <2>1, Committed
  <2>3. ActiveOf(d)' = S /\ Outstanding' = Outstanding
    BY <2>2 DEF ActiveOf, Outstanding
  <2> QED BY <1>1, <1>5, <2>1, <2>3
<1> QED BY <1>6, <1>7, <1>8

LEMMA ActiveFinite ==
  ASSUME IInv, Admissions, Sums, NEW p \in Session, Commit(p)
  PROVE  IsFiniteSet(ActiveResv)'
<1>1. resv' = ReservationAfter(p) /\ resv \in [Resv -> ResvRow]
  BY Committed DEF IInv, TypeOK
<1>2. PICK u : \A r \in Resv : r # u => resv'[r] = resv[r]
  <2>1. CASE cmd[p].op = "reserve"
    BY <1>1, <2>1 DEF ReservationAfter
  <2>2. CASE cmd[p].op = "release" \/ Reserved(cmd[p])
    BY <2>2, ReservationDrawn
  <2>3. CASE cmd[p].op \notin {"reserve", "release"} /\ ~Reserved(cmd[p])
    BY <1>1, <2>3 DEF ReservationAfter
  <2> QED BY <2>1, <2>2, <2>3
<1>3. ActiveResv' \subseteq ActiveResv \cup {u} /\ IsFiniteSet(ActiveResv)
  BY <1>2 DEF ActiveResv, Sums, Finite
<1> QED BY <1>3, FS_AddElement, FS_Subset
-----------------------------------------------------------------------------
(***************************************************************************)
(* The theorems.                                                           *)
(***************************************************************************)
LEMMA SumsCommit == ASSUME IInv, Admissions, Sums, NEW p \in Session, Commit(p) PROVE Sums'
<1>1. IsFiniteSet(movements)'
  <2>1. movements' = movements \cup Posts(p) /\ IsFiniteSet(movements) /\ IsFiniteSet(Posts(p))
    BY RowsAdded, PostsApart DEF Sums, Finite
  <2> QED BY <2>1, FS_Union
<1>2. AggregatesAreSums'
  BY LedgerStep, ClaimsStep DEF AggregatesAreSums
<1>3. TransfersConserveStock' /\ IsFiniteSet(MovingXfer)'
  BY RoadStands, RoadDispatched, RoadArrived
<1> QED BY <1>1, <1>2, <1>3, ActiveFinite DEF Sums, Finite

LEMMA SumsUntouched == ASSUME Sums, UNCHANGED <<movements, ledger, resv, claims, xfer>> PROVE Sums'
<1>1. /\ \A d \in Dim : ActiveOf(d)' = ActiveOf(d) /\ OnTheRoad(d)' = OnTheRoad(d)
      /\ \A d \in Dim, b \in Bucket : RowsOf(d, b)' = RowsOf(d, b)
      /\ Legs' = Legs /\ ActiveResv' = ActiveResv /\ MovingXfer' = MovingXfer
      /\ Deltas' = Deltas /\ Outstanding' = Outstanding /\ Quantities' = Quantities
  BY DEF ActiveOf, OnTheRoad, RowsOf, Legs, IsLeg, ActiveResv, MovingXfer, Deltas, Outstanding, Left, Quantities
<1> QED BY <1>1 DEF Sums, Finite, AggregatesAreSums, TransfersConserveStock, Bucket

LEMMA SumsStep == ASSUME IInv, Admissions, Sums, [Next]_vars PROVE Sums'
<1>1. CASE ~\E p \in Session : Commit(p)
  <2>1. UNCHANGED <<movements, ledger, resv, claims, xfer>>
    BY <1>1 DEF Next, vars, db, session, Begin, Acquire, Run, Replay, RefuseRow, Admit, DrawReservation, RefuseReservation,
         Share, LockDimension, ReadBalance, RefuseBalance, ReadMovements, ReadClaims, Collide, CommitRebuild, Abort, SetStatus
  <2> QED BY <2>1, SumsUntouched
<1> QED BY <1>1, SumsCommit

LEMMA SumsAtFirst == ASSUME Init PROVE Sums
<1>1. movements = {} /\ ActiveResv = {} /\ MovingXfer = {} /\ Legs = {}
      /\ \A d \in Dim : ActiveOf(d) = {} /\ OnTheRoad(d) = {} /\ \A b \in Bucket : RowsOf(d, b) = {}
  BY DEF Init, ActiveResv, MovingXfer, Legs, ActiveOf, OnTheRoad, RowsOf
<1>2. \A d \in Dim : claims[d] = 0 /\ \A b \in Bucket : ledger[d][b] = 0
  BY DEF Init, Empty, Column
<1> QED BY <1>1, <1>2, SumOfNothing, FS_EmptySet DEF Sums, Finite, AggregatesAreSums, TransfersConserveStock

LEMMA SumsStand == Spec => []Sums
<1>1. Init => Sums
  BY SumsAtFirst
<1>2. IInv /\ Admissions /\ Sums /\ [Next]_vars => Sums'
  BY SumsStep
<1> QED BY <1>1, <1>2, AdmissionsStand, PTL DEF Spec

\* The aggregates are always the sums of their rows: what a rebuild adds up is what the
\* commands have written, whatever ran beside one another.
THEOREM AggregatesNeverDrift == Spec => []AggregatesAreSums
<1>1. Sums => AggregatesAreSums
  BY DEF Sums
<1> QED BY <1>1, SumsStand, PTL

\* Goods on the road are neither lost nor doubled: the transfer legs in transit are the
\* dispatched and not yet received transfers, and all legs together cancel out.
THEOREM StockIsConserved == Spec => []TransfersConserveStock
<1>1. Sums => TransfersConserveStock
  BY DEF Sums
<1> QED BY <1>1, SumsStand, PTL

\* The projection rule of ADR-006 in full: a balance row is at all times the sum of the
\* movement rows of its dimension, bucket by bucket, and what its active reservations
\* still hold, although no command but a rebuild ever adds these rows up.
THEOREM BalanceIsSumOfRows ==
  Spec => [](\A d \in Dim :
               /\ \A b \in Bucket : balance[d][b] = SumFunctionOnSet(Deltas, RowsOf(d, b))
               /\ balance[d]["reserved"] = SumFunctionOnSet(Outstanding, ActiveOf(d)))
<1>1. IInv /\ Sums =>
        \A d \in Dim :
          /\ \A b \in Bucket : balance[d][b] = SumFunctionOnSet(Deltas, RowsOf(d, b))
          /\ balance[d]["reserved"] = SumFunctionOnSet(Outstanding, ActiveOf(d))
  <2> SUFFICES ASSUME IInv, Sums, NEW d \in Dim
               PROVE  /\ \A b \in Bucket : balance[d][b] = SumFunctionOnSet(Deltas, RowsOf(d, b))
                      /\ balance[d]["reserved"] = SumFunctionOnSet(Outstanding, ActiveOf(d))
    OBVIOUS
  <2>1. ledger[d] \in [Column -> Int] /\ balance[d] = [ledger[d] EXCEPT !["reserved"] = claims[d]]
    BY DEF IInv, TypeOK, Balance, BalanceIsEvidence
  <2>2. balance[d]["reserved"] = claims[d] /\ \A b \in Bucket : balance[d][b] = ledger[d][b]
    BY <2>1 DEF Column, Bucket
  <2> QED BY <2>2 DEF Sums, AggregatesAreSums
<1> QED BY <1>1, Invariance, SumsStand, PTL
=============================================================================
