------------------------- MODULE HousekeepingProofs -------------------------
(***************************************************************************)
(* What holds of the background jobs for every number of lists, users, subs,   *)
(* posts, workers and failures.  A top list is wrong only after two workers    *)
(* did it at the same time, or while one is half-way through it or has failed  *)
(* there; the total of a template is the sum of its votes; a sub is asked      *)
(* about only once it has a row; the monitor has a post in one place.  The     *)
(* parts share no variable: each has an invariant of its own.                 *)
(***************************************************************************)
EXTENDS Housekeeping, SequenceTheorems, FiniteSetTheorems, WellFoundedInduction, TLAPS

-----------------------------------------------------------------------------
\* The top lists.

HalfOK == \A w \in StatWorkers : at[w].half => Busy(w)

\* One worker at a time, unless the list is marked as a clash.
AloneOK ==
    \A u \in Units \ clash : \A v, w \in StatWorkers : On(v, u) /\ On(w, u) => v = w

\* What a worker has still to insert is not there.
OnceOK ==
    \A u \in Units \ clash : \A k \in Keys :
        /\ rows[u][k] <= 1
        /\ \A w \in StatWorkers : On(w, u) /\ k \in at[w].todo => rows[u][k] = 0

\* What is not there is still to be inserted, or lost.
MissingOK ==
    \A u \in Units : \A k \in Keys :
        rows[u][k] = 0 => \/ u \in lost
                          \/ \E w \in StatWorkers : On(w, u) /\ k \in at[w].todo

CountInv == StatTypeOK /\ HalfOK /\ AloneOK /\ OnceOK /\ MissingOK

LEMMA RangeType ==
    ASSUME NEW table, NEW ranges \in Seq(Nat)
    PROVE  DOMAIN ByTypeAndRange(table, ranges) = 1..(Len(PostTypes) * Len(ranges))
  BY DEF ByTypeAndRange

\* The lists of a task are lists of the site.
LEMMA ListsType ==
    ASSUME NEW task \in Tasks
    PROVE  Lists(task) \in Seq(Units)
<1>1. PICK table, ranges :
        ranges \in Seq(Nat) /\ Lists(task) = ByTypeAndRange(table, ranges)
  <2>1. <<1>> \in Seq(Nat) /\ DayRanges \in Seq(Nat)
    BY StatisticsAssumption
  <2>2. CASE task = "reposts"
    BY <2>1, <2>2 DEF Lists
  <2>3. CASE task = "reposters"
    BY <2>1, <2>3 DEF Lists
  <2>4. CASE task = "daily"
    BY <2>1, <2>4 DEF Lists
  <2> QED
    BY <2>2, <2>3, <2>4 DEF Tasks
<1>2. DOMAIN Lists(task) = 1..(Len(PostTypes) * Len(ranges))
  BY <1>1, RangeType
<1>3. Len(PostTypes) * Len(ranges) \in Nat
  <2>1. Len(PostTypes) \in Nat /\ Len(ranges) \in Nat
    BY StatisticsAssumption
  <2> QED
    BY <2>1
<1>4. \A i \in DOMAIN Lists(task) : Lists(task)[i] \in Units
  BY DEF Units
<1>5. Lists(task) = [i \in DOMAIN Lists(task) |-> Lists(task)[i]]
  BY <1>1 DEF ByTypeAndRange
<1>6. Lists(task) \in [1..(Len(PostTypes) * Len(ranges)) -> Units]
  BY <1>2, <1>4, <1>5
<1> QED
  BY <1>3, <1>6, SeqDef

\* The list a busy worker is at.
LEMMA UnitType ==
    ASSUME StatTypeOK, NEW w \in StatWorkers, Busy(w)
    PROVE  Unit(w) \in Units /\ Tail(at[w].left) \in Seq(Units)
  BY DEF StatTypeOK, Busy, Unit

LEMMA StartTaskOK ==
    ASSUME CountInv, NEW w \in StatWorkers, NEW task \in Tasks, StartTask(w, task)
    PROVE  CountInv'
<1> USE DEF CountInv
<1>1. /\ rows' = rows /\ clash' = clash /\ lost' = lost
      /\ at' = [at EXCEPT ![w] = [Free EXCEPT !.left = Lists(task)]]
      /\ started' = started + 1 /\ statFaults' = statFaults
  BY DEF StartTask
<1>2. StatTypeOK'
  <2>1. [Free EXCEPT !.left = Lists(task)] \in [left : Seq(Units), todo : SUBSET Keys, half : BOOLEAN]
    BY ListsType DEF Free
  <2>2. at' \in [StatWorkers -> [left : Seq(Units), todo : SUBSET Keys, half : BOOLEAN]]
    BY <1>1, <2>1 DEF StatTypeOK
  <2>3. started' \in Nat
    BY <1>1 DEF StatTypeOK
  <2> QED
    BY <1>1, <2>2, <2>3 DEF StatTypeOK
<1>3. \A v \in StatWorkers : v # w => at'[v] = at[v]
  BY <1>1 DEF StatTypeOK
<1>4. at'[w].half = FALSE
  BY <1>1 DEF StatTypeOK, Free
<1>5. ~ at[w].half
  BY DEF StartTask, HalfOK
<1>6. \A v \in StatWorkers : \A u : On(v, u)' <=> On(v, u)
  BY <1>3, <1>4, <1>5 DEF On, Busy, Unit
<1>7. \A v \in StatWorkers : \A u : On(v, u) => at'[v].todo = at[v].todo
  BY <1>3, <1>5 DEF On
<1>8. HalfOK'
  BY <1>3, <1>4 DEF HalfOK, Busy
<1>9. AloneOK' /\ OnceOK' /\ MissingOK'
  BY <1>1, <1>6, <1>7 DEF AloneOK, OnceOK, MissingOK
<1> QED
  BY <1>2, <1>8, <1>9

LEMMA DeleteListOK ==
    ASSUME CountInv, NEW w \in StatWorkers, DeleteList(w)
    PROVE  CountInv'
<1> USE DEF CountInv
<1>0. PICK u0 : u0 = Unit(w)
  OBVIOUS
<1>1. /\ Busy(w) /\ ~ at[w].half
      /\ rows' = [rows EXCEPT ![u0] = [k \in Keys |-> 0]]
      /\ at' = [at EXCEPT ![w].half = TRUE, ![w].todo = Keys]
      /\ clash' = IF \E v \in StatWorkers \ {w} : On(v, u0) THEN clash \cup {u0}
                  ELSE clash \ {u0}
      /\ lost' = lost \ {u0}
      /\ started' = started /\ statFaults' = statFaults
  BY <1>0 DEF DeleteList, DeleteRows
<1>2. u0 \in Units
  BY <1>0, <1>1, UnitType
<1>3. StatTypeOK'
  BY <1>1, <1>2 DEF StatTypeOK
<1>4. /\ at'[w].half /\ at'[w].todo = Keys /\ at'[w].left = at[w].left
      /\ \A v \in StatWorkers : v # w => at'[v] = at[v]
  BY <1>1 DEF StatTypeOK
<1>5. \A u : ~ On(w, u) /\ (On(w, u)' <=> u = u0)
  BY <1>0, <1>1, <1>4 DEF On, Busy, Unit
<1>6. \A v \in StatWorkers : v # w => \A u : On(v, u)' <=> On(v, u)
  BY <1>4 DEF On, Busy, Unit
<1>7. HalfOK'
  BY <1>1, <1>4 DEF HalfOK, Busy
<1>8. u0 \notin clash' => \A v \in StatWorkers : On(v, u0)' => v = w
  BY <1>1, <1>6
<1>9. \A u \in Units : u # u0 => /\ u \in clash' <=> u \in clash
                                 /\ u \in lost' <=> u \in lost
                                 /\ rows'[u] = rows[u]
  BY <1>1 DEF StatTypeOK
<1>10. \A k \in Keys : rows'[u0][k] = 0
  BY <1>1, <1>2 DEF StatTypeOK
<1>11. AloneOK'
  BY <1>5, <1>6, <1>8, <1>9 DEF AloneOK
<1>12. OnceOK'
  <2>1. ASSUME NEW u \in Units \ clash', NEW k \in Keys
        PROVE  /\ rows'[u][k] <= 1
               /\ \A v \in StatWorkers : On(v, u)' /\ k \in at'[v].todo => rows'[u][k] = 0
    <3>1. CASE u = u0
      BY <3>1, <1>10
    <3>2. CASE u # u0
      BY <3>2, <1>4, <1>5, <1>6, <1>9 DEF OnceOK
    <3> QED
      BY <3>1, <3>2
  <2> QED
    BY <2>1 DEF OnceOK
<1>13. MissingOK'
  <2>1. ASSUME NEW u \in Units, NEW k \in Keys, rows'[u][k] = 0
        PROVE  u \in lost' \/ \E v \in StatWorkers : On(v, u)' /\ k \in at'[v].todo
    <3>1. CASE u = u0
      BY <3>1, <1>4, <1>5
    <3>2. CASE u # u0
      BY <2>1, <3>2, <1>4, <1>5, <1>6, <1>9 DEF MissingOK
    <3> QED
      BY <3>1, <3>2
  <2> QED
    BY <2>1 DEF MissingOK
<1> QED
  BY <1>3, <1>7, <1>11, <1>12, <1>13

LEMMA InsertCountsOK ==
    ASSUME CountInv, NEW w \in StatWorkers, InsertCounts(w)
    PROVE  CountInv'
<1> USE DEF CountInv
<1>0. PICK u0 : u0 = Unit(w)
  OBVIOUS
<1>1. PICK new \in SUBSET at[w].todo :
        /\ rows' = [rows EXCEPT ![u0] = [k \in Keys |-> @[k] + (IF k \in new THEN 1 ELSE 0)]]
        /\ at' = [at EXCEPT ![w].todo = @ \ new]
  BY <1>0 DEF InsertCounts
<1>2. /\ Busy(w) /\ at[w].half
      /\ clash' = clash /\ lost' = lost /\ started' = started /\ statFaults' = statFaults
  BY DEF InsertCounts
<1>3. u0 \in Units
  BY <1>0, <1>2, UnitType
<1>4. /\ rows'[u0] = [k \in Keys |-> rows[u0][k] + (IF k \in new THEN 1 ELSE 0)]
      /\ \A u \in Units : u # u0 => rows'[u] = rows[u]
      /\ DOMAIN rows' = Units
  BY <1>1, <1>3 DEF StatTypeOK
<1>5. \A u \in Units : rows'[u] \in [Keys -> Nat]
  <2>1. ASSUME NEW k \in Keys
        PROVE  rows[u0][k] + (IF k \in new THEN 1 ELSE 0) \in Nat
    <3>1. rows[u0][k] \in Nat
      BY <1>3 DEF StatTypeOK
    <3> QED
      BY <3>1
  <2>2. rows'[u0] \in [Keys -> Nat]
    BY <1>4, <2>1
  <2>3. \A u \in Units : u # u0 => rows'[u] \in [Keys -> Nat]
    BY <1>4 DEF StatTypeOK
  <2> QED
    BY <2>2, <2>3
<1>6. /\ at'[w].todo = at[w].todo \ new /\ at'[w].half = at[w].half /\ at'[w].left = at[w].left
      /\ \A v \in StatWorkers : v # w => at'[v] = at[v]
  BY <1>1 DEF StatTypeOK
<1>7. StatTypeOK'
  <2>1. rows' \in [Units -> [Keys -> Nat]]
    BY <1>1, <1>4, <1>5 DEF StatTypeOK
  <2>2. at' \in [StatWorkers -> [left : Seq(Units), todo : SUBSET Keys, half : BOOLEAN]]
    BY <1>1 DEF StatTypeOK
  <2> QED
    BY <1>2, <2>1, <2>2 DEF StatTypeOK
<1>8. \A v \in StatWorkers : \A u : On(v, u)' <=> On(v, u)
  BY <1>6 DEF On, Busy, Unit
<1>9. On(w, u0) /\ \A u : On(w, u) => u = u0
  BY <1>0, <1>2 DEF On
<1>10. HalfOK' /\ AloneOK'
  BY <1>2, <1>6, <1>8 DEF HalfOK, AloneOK, Busy
<1>11. OnceOK'
  <2>1. ASSUME NEW u \in Units \ clash, NEW k \in Keys
        PROVE  /\ rows'[u][k] <= 1
               /\ \A v \in StatWorkers : On(v, u)' /\ k \in at'[v].todo => rows'[u][k] = 0
    <3>1. CASE u # u0
      BY <3>1, <1>4, <1>6, <1>8, <1>9 DEF OnceOK
    <3>2. CASE u = u0 /\ k \in new
      <4>1. rows[u0][k] = 0
        BY <3>2, <1>9 DEF OnceOK
      <4>2. rows'[u0][k] = 1
        BY <4>1, <3>2, <1>4
      <4>3. \A v \in StatWorkers : On(v, u0)' => v = w
        BY <3>2, <1>8, <1>9 DEF AloneOK
      <4> QED
        BY <4>2, <4>3, <3>2, <1>6
    <3>3. CASE u = u0 /\ k \notin new
      <4>1. rows'[u0][k] = rows[u0][k]
        BY <3>3, <1>3, <1>4 DEF StatTypeOK
      <4> QED
        BY <4>1, <3>3, <1>6, <1>8 DEF OnceOK
    <3> QED
      BY <3>1, <3>2, <3>3
  <2> QED
    BY <2>1, <1>2 DEF OnceOK
<1>12. MissingOK'
  <2>1. ASSUME NEW u \in Units, NEW k \in Keys, rows'[u][k] = 0
        PROVE  u \in lost \/ \E v \in StatWorkers : On(v, u)' /\ k \in at'[v].todo
    <3>1. CASE u # u0
      <4>1. rows[u][k] = 0
        BY <2>1, <3>1, <1>4
      <4> QED
        BY <4>1, <3>1, <1>6, <1>8, <1>9 DEF MissingOK
    <3>2. CASE u = u0
      <4>1. rows[u0][k] \in Nat
        BY <1>3 DEF StatTypeOK
      <4>2. k \notin new /\ rows[u0][k] = 0
        BY <2>1, <3>2, <4>1, <1>4
      <4> QED
        BY <4>2, <3>2, <1>6, <1>8 DEF MissingOK
    <3> QED
      BY <3>1, <3>2
  <2> QED
    BY <2>1, <1>2 DEF MissingOK
<1> QED
  BY <1>7, <1>10, <1>11, <1>12

\* A worker that leaves its list, with nothing left to insert or as a loss.
LEMMA LeaveOK ==
    ASSUME CountInv, NEW w \in StatWorkers, Busy(w), NEW left \in Seq(Units),
           at' = [at EXCEPT ![w] = [Free EXCEPT !.left = left]],
           rows' = rows, clash' = clash, started' = started,
           lost' \in {lost, lost \cup {Unit(w)}},
           On(w, Unit(w)) => at[w].todo = {} \/ Unit(w) \in lost',
           statFaults' \in Nat
    PROVE  CountInv'
<1> USE DEF CountInv
<1>1. /\ at'[w].left = left /\ at'[w].todo = {} /\ at'[w].half = FALSE
      /\ \A v \in StatWorkers : v # w => at'[v] = at[v]
  BY DEF StatTypeOK, Free
<1>2. Unit(w) \in Units
  BY UnitType
<1>3. StatTypeOK'
  BY <1>2 DEF StatTypeOK, Free
<1>4. \A u : ~ On(w, u)'
  BY <1>1 DEF On
<1>5. \A v \in StatWorkers : v # w => \A u : On(v, u)' <=> On(v, u)
  BY <1>1 DEF On, Busy, Unit
<1>6. HalfOK' /\ AloneOK' /\ OnceOK'
  BY <1>1, <1>4, <1>5 DEF HalfOK, AloneOK, OnceOK, Busy
<1>7. MissingOK'
  <2>1. ASSUME NEW u \in Units, NEW k \in Keys, rows[u][k] = 0
        PROVE  u \in lost' \/ \E v \in StatWorkers : On(v, u)' /\ k \in at'[v].todo
    <3>1. u \in lost \/ \E v \in StatWorkers : On(v, u) /\ k \in at[v].todo
      BY <2>1 DEF MissingOK
    <3>2. On(w, u) /\ k \in at[w].todo => u \in lost'
      BY DEF On
    <3> QED
      BY <3>1, <3>2, <1>1, <1>5
  <2> QED
    BY <2>1 DEF MissingOK
<1> QED
  BY <1>3, <1>6, <1>7

LEMMA NextListOK ==
    ASSUME CountInv, NEW w \in StatWorkers, NextList(w)
    PROVE  CountInv'
<1>1. Busy(w) /\ at[w].todo = {} /\ statFaults' \in Nat
  BY DEF NextList, CountInv, StatTypeOK
<1>2. Tail(at[w].left) \in Seq(Units)
  BY <1>1, UnitType DEF CountInv
<1>3. /\ rows' = rows /\ clash' = clash /\ lost' = lost /\ started' = started
      /\ at' = [at EXCEPT ![w] = [Free EXCEPT !.left = Tail(at[w].left)]]
  BY DEF NextList
<1> QED
  BY <1>1, <1>2, <1>3, LeaveOK

LEMMA TaskFailsOK ==
    ASSUME CountInv, NEW w \in StatWorkers, TaskFails(w)
    PROVE  CountInv'
<1>1. Busy(w) /\ statFaults' \in Nat
  BY DEF TaskFails, CountInv, StatTypeOK
<1>2. Free = [Free EXCEPT !.left = <<>>] /\ <<>> \in Seq(Units)
  BY DEF Free
<1>3. at' = [at EXCEPT ![w] = [Free EXCEPT !.left = <<>>]]
  BY <1>2 DEF TaskFails
<1>4. /\ rows' = rows /\ clash' = clash /\ started' = started
      /\ lost' \in {lost, lost \cup {Unit(w)}}
      /\ On(w, Unit(w)) => Unit(w) \in lost'
  BY DEF TaskFails, On
<1> QED
  BY <1>1, <1>2, <1>3, <1>4, LeaveOK

\* The invariant of the top lists, whatever else the jobs do.
THEOREM CountInvariant == Spec => []CountInv
<1>1. Init => CountInv
  <2>1. Free \in [left : Seq(Units), todo : SUBSET Keys, half : BOOLEAN] /\ ~ Free.half
    BY DEF Free
  <2> QED
    BY <2>1 DEF Init, StatInit, CountInv, StatTypeOK, HalfOK, AloneOK, OnceOK, MissingOK, On
<1>2. CountInv /\ [Next]_vars => CountInv'
  <2> SUFFICES ASSUME CountInv, [Next]_vars
               PROVE  CountInv'
    OBVIOUS
  <2>1. CASE StatNext
    BY <2>1, StartTaskOK, DeleteListOK, InsertCountsOK, NextListOK, TaskFailsOK DEF StatNext
  <2>2. CASE UNCHANGED statVars
    BY <2>2 DEF CountInv, StatTypeOK, HalfOK, AloneOK, OnceOK, MissingOK, On, Busy, Unit, statVars
  <2> QED
    BY <2>1, <2>2 DEF Next, vars, UpdateStatistics, VoteOnMemes, SaveSubreddits, CheckForDeletions
<1> QED
  BY <1>1, <1>2, PTL DEF Spec

\* A list counts nobody twice unless two workers did it at once, and leaves nobody
\* out unless a worker is half-way through it or failed there.
THEOREM HousekeepingRowsAreCounted == Spec => []RowsAreCounted
<1>1. CountInv => RowsAreCounted
  <2>1. ASSUME CountInv, NEW u \in Units, NEW k \in Keys
        PROVE  /\ rows[u][k] > 1 => u \in clash
               /\ rows[u][k] = 0 => u \in lost \/ \E w \in StatWorkers : On(w, u)
    <3>1. rows[u][k] \in Nat
      BY <2>1 DEF CountInv, StatTypeOK
    <3> QED
      BY <2>1, <3>1 DEF CountInv, OnceOK, MissingOK
  <2> QED
    BY <2>1 DEF RowsAreCounted
<1> QED
  BY <1>1, CountInvariant, PTL
-----------------------------------------------------------------------------
\* Sums.  The library's sum is a function of the sets of indices that is defined
\* by recursion; the facts about it are proved by induction on their number.

Picked(t) == CHOOSE x \in t : TRUE
Sums(f, g) ==
    g = [t \in SUBSET DOMAIN f |-> IF t = {} THEN 0 ELSE f[Picked(t)] + g[t \ {Picked(t)}]]

LEMMA UpFromZero ==
    ASSUME NEW S, 0 \in S, \A n \in Nat : n \in S => n + 1 \in S
    PROVE  Nat \subseteq S
<1> DEFINE R == OpToRel(<, Nat)
           T == Nat \ S
<1>1. IsWellFoundedOn(R, Nat)
  BY NatLessThanWellFounded
<1>2. \A x, y \in Nat : <<y, x>> \in R <=> y < x
  BY DEF OpToRel
<1> HIDE DEF R
<1> SUFFICES ASSUME T # {}
             PROVE  FALSE
  OBVIOUS
<1>3. PICK n \in T : \A y \in T : ~ (<<y, n>> \in R)
  <2>1. T \subseteq Nat
    OBVIOUS
  <2> HIDE DEF T
  <2> QED
    BY <1>1, <2>1, WFMin
<1>4. n \in Nat /\ n # 0 /\ n - 1 \in Nat /\ n - 1 < n
  BY <1>3
<1>5. n - 1 \in S
  BY <1>2, <1>3, <1>4
<1> QED
  BY <1>3, <1>4, <1>5

LEMMA SumIsSums ==
    ASSUME NEW f
    PROVE  SumFunction(f) = (CHOOSE g : Sums(f, g))[DOMAIN f]
  BY DEF SumFunction, SumFunctionOnSet, FoldFunctionOnSet, MapThenFoldSet, Sums, Picked

LEMMA SmallerSet ==
    ASSUME NEW D, IsFiniteSet(D), NEW t \in SUBSET D, NEW x \in t, NEW n \in Nat,
           Cardinality(t) <= n + 1
    PROVE  Cardinality(t \ {x}) <= n
<1>1. IsFiniteSet(t)
  BY FS_Subset
<1>2. Cardinality(t) \in Nat /\ Cardinality(t \ {x}) = Cardinality(t) - 1
  BY <1>1, FS_CardinalityType, FS_RemoveElement
<1> QED
  BY <1>2

LEMMA SumsExists ==
    ASSUME NEW f, NEW D, f \in [D -> Int], IsFiniteSet(D)
    PROVE  \E g : Sums(f, g)
<1> DEFINE Step(g, t) == IF t = {} THEN 0 ELSE f[Picked(t)] + g[t \ {Picked(t)}]
           Upto(g, n) == \A t \in SUBSET D : Cardinality(t) <= n => g[t] = Step(g, t)
           S == {n \in Nat : \E g : Upto(g, n)}
<1>1. \A t \in SUBSET D : t # {} => Picked(t) \in t
  BY DEF Picked
<1>2. 0 \in S
  <2> DEFINE g == [t \in SUBSET D |-> 0]
  <2>1. ASSUME NEW t \in SUBSET D, Cardinality(t) <= 0
        PROVE  t = {}
    BY <2>1, FS_Subset, FS_CardinalityType, FS_EmptySet
  <2>2. Upto(g, 0)
    BY <2>1
  <2> QED
    BY <2>2
<1>3. ASSUME NEW n \in Nat, n \in S
      PROVE  n + 1 \in S
  <2>1. PICK g : Upto(g, n)
    BY <1>3
  <2> DEFINE h == [t \in SUBSET D |-> Step(g, t)]
  <2>2. ASSUME NEW t \in SUBSET D, Cardinality(t) <= n
        PROVE  h[t] = g[t]
    BY <2>1, <2>2
  <2>3. ASSUME NEW t \in SUBSET D, Cardinality(t) <= n + 1
        PROVE  h[t] = Step(h, t)
    <3>1. CASE t = {}
      BY <3>1
    <3>2. CASE t # {}
      <4>1. t \ {Picked(t)} \in SUBSET D /\ Cardinality(t \ {Picked(t)}) <= n
        BY <1>1, <2>3, <3>2, SmallerSet
      <4>2. h[t \ {Picked(t)}] = g[t \ {Picked(t)}]
        BY <2>2, <4>1
      <4> QED
        BY <3>2, <4>2
    <3> QED
      BY <3>1, <3>2
  <2> HIDE DEF h
  <2>4. Upto(h, n + 1)
    BY <2>3
  <2> HIDE DEF Upto
  <2> QED
    BY <2>4
<1>4. Cardinality(D) \in S
  <2> HIDE DEF S
  <2> QED
    BY <1>2, <1>3, UpFromZero, FS_CardinalityType
<1>5. PICK g : Upto(g, Cardinality(D))
  BY <1>4
<1> DEFINE h == [t \in SUBSET D |-> g[t]]
<1>6. \A t \in SUBSET D : g[t] = Step(g, t)
  BY <1>5, FS_Subset
<1>7. \A t \in SUBSET D : Step(h, t) = Step(g, t)
  BY <1>1
<1>8. h = [t \in SUBSET D |-> Step(h, t)]
  BY <1>6, <1>7
<1> HIDE DEF h
<1> QED
  BY <1>8 DEF Sums

\* Whichever summand is taken first.
Splits(f, D, g) ==
    /\ g[{}] = 0
    /\ \A t \in SUBSET D : g[t] \in Int /\ \A x \in t : g[t] = f[x] + g[t \ {x}]

LEMMA SumsFacts ==
    ASSUME NEW f, NEW D, f \in [D -> Int], IsFiniteSet(D), NEW g, Sums(f, g)
    PROVE  Splits(f, D, g)
<1> DEFINE Fine(t) == g[t] \in Int /\ \A x \in t : g[t] = f[x] + g[t \ {x}]
           S == {n \in Nat : \A t \in SUBSET D : Cardinality(t) <= n => Fine(t)}
<1>1. \A t \in SUBSET D : g[t] = IF t = {} THEN 0 ELSE f[Picked(t)] + g[t \ {Picked(t)}]
  BY DEF Sums
<1>2. \A t \in SUBSET D : t # {} => Picked(t) \in t
  BY DEF Picked
<1>3. g[{}] = 0
  BY <1>1
<1>4. 0 \in S
  <2>1. ASSUME NEW t \in SUBSET D, Cardinality(t) <= 0
        PROVE  t = {}
    BY <2>1, FS_Subset, FS_CardinalityType, FS_EmptySet
  <2>2. Fine({})
    BY <1>3
  <2> HIDE DEF Fine
  <2> QED
    BY <2>1, <2>2
<1>5. ASSUME NEW n \in Nat, n \in S
      PROVE  n + 1 \in S
  <2>1. \A t \in SUBSET D : Cardinality(t) <= n => Fine(t)
    BY <1>5
  <2> HIDE DEF S
  <2>2. ASSUME NEW t \in SUBSET D, Cardinality(t) <= n + 1
        PROVE  Fine(t)
    <3>1. CASE t = {}
      BY <1>3, <3>1
    <3>2. CASE t # {}
      <4> DEFINE p == Picked(t)
      <4>1. p \in t /\ g[t] = f[p] + g[t \ {p}]
        BY <1>1, <1>2, <3>2
      <4> HIDE DEF p
      <4>2. \A x \in t : t \ {x} \in SUBSET D /\ Fine(t \ {x})
        BY <2>1, <2>2, SmallerSet
      <4>3. f[p] \in Int /\ g[t \ {p}] \in Int
        BY <4>1, <4>2
      <4>4. ASSUME NEW x \in t, x # p
            PROVE  g[t] = f[x] + g[t \ {x}]
        <5> DEFINE r == (t \ {x}) \ {p}
        <5>1. (t \ {p}) \ {x} = r
          OBVIOUS
        <5>2. g[t \ {p}] = f[x] + g[(t \ {p}) \ {x}]
          BY <4>1, <4>2, <4>4
        <5>3. g[t \ {x}] = f[p] + g[(t \ {x}) \ {p}]
          BY <4>1, <4>2, <4>4
        <5>4. f[x] \in Int /\ g[(t \ {x}) \ {p}] \in Int
          <6>1. (t \ {x}) \ {p} \in SUBSET D /\ Cardinality((t \ {x}) \ {p}) <= n
            <7>1. Cardinality(t \ {x}) <= n /\ t \ {x} \in SUBSET D
              BY <2>2, SmallerSet
            <7>2. IsFiniteSet(t \ {x}) /\ p \in t \ {x}
              BY <4>1, <4>4, <7>1, FS_Subset
            <7>3. (t \ {x}) \ {p} \in SUBSET (t \ {x})
              OBVIOUS
            <7>4. /\ Cardinality((t \ {x}) \ {p}) <= Cardinality(t \ {x})
                  /\ Cardinality((t \ {x}) \ {p}) \in Nat /\ Cardinality(t \ {x}) \in Nat
              BY <7>2, <7>3, FS_Subset, FS_CardinalityType
            <7> QED
              BY <7>1, <7>3, <7>4
          <6> QED
            BY <2>1, <6>1
        <5> HIDE DEF r
        <5>5. g[t] = f[p] + (f[x] + g[r])
          BY <4>1, <5>1, <5>2
        <5>6. g[t \ {x}] = f[p] + g[r] /\ f[x] \in Int /\ g[r] \in Int
          BY <5>3, <5>4 DEF r
        <5> QED
          BY <4>3, <5>5, <5>6
      <4>5. g[t] \in Int
        BY <4>1, <4>3
      <4> QED
        BY <4>1, <4>4, <4>5
    <3> QED
      BY <3>1, <3>2
  <2> QED
    BY <2>2 DEF S
<1>6. Cardinality(D) \in S
  <2> HIDE DEF S
  <2> QED
    BY <1>4, <1>5, UpFromZero, FS_CardinalityType
<1>7. \A t \in SUBSET D : Fine(t)
  BY <1>6, FS_Subset
<1> QED
  BY <1>3, <1>7 DEF Splits

\* Two functions that agree have the same sum.
LEMMA SumsAgree ==
    ASSUME NEW f, NEW D, f \in [D -> Int], IsFiniteSet(D), NEW g, Sums(f, g),
           NEW e, NEW E, e \in [E -> Int], IsFiniteSet(E), NEW h, Sums(e, h),
           NEW T \in SUBSET (D \cap E), \A x \in T : f[x] = e[x]
    PROVE  g[T] = h[T]
<1> DEFINE S == {n \in Nat : \A t \in SUBSET T : Cardinality(t) <= n => g[t] = h[t]}
<1>0. T \in SUBSET D /\ T \in SUBSET E
  OBVIOUS
<1>1. IsFiniteSet(T)
  BY <1>0, FS_Subset
<1>2. /\ g[{}] = 0 /\ h[{}] = 0
      /\ \A t \in SUBSET T : \A x \in t : g[t] = f[x] + g[t \ {x}] /\ h[t] = e[x] + h[t \ {x}]
  <2>1. Splits(f, D, g) /\ Splits(e, E, h)
    BY SumsFacts
  <2> QED
    BY <1>0, <2>1 DEF Splits
<1>3. 0 \in S
  <2>1. ASSUME NEW t \in SUBSET T, Cardinality(t) <= 0
        PROVE  t = {}
    BY <1>1, <2>1, FS_Subset, FS_CardinalityType, FS_EmptySet
  <2> QED
    BY <1>2, <2>1
<1>4. ASSUME NEW n \in Nat, n \in S
      PROVE  n + 1 \in S
  <2>1. \A t \in SUBSET T : Cardinality(t) <= n => g[t] = h[t]
    BY <1>4
  <2>2. ASSUME NEW t \in SUBSET T, Cardinality(t) <= n + 1, t # {}
        PROVE  g[t] = h[t]
    <3>1. PICK x \in t : TRUE
      BY <2>2
    <3>2. t \ {x} \in SUBSET T /\ Cardinality(t \ {x}) <= n
      BY <1>1, <2>2, SmallerSet
    <3> QED
      BY <1>2, <2>1, <3>2
  <2>3. \A t \in SUBSET T : Cardinality(t) <= n + 1 => g[t] = h[t]
    BY <1>2, <2>2
  <2> QED
    BY <2>3
<1>5. Cardinality(T) \in S
  <2> HIDE DEF S
  <2> QED
    BY <1>1, <1>3, <1>4, UpFromZero, FS_CardinalityType
<1> QED
  BY <1>5, <1>1, FS_CardinalityType

\* What a sum is: some function of the sets of indices.
LEMMA SumWitness ==
    ASSUME NEW f, NEW D, f \in [D -> Int], IsFiniteSet(D)
    PROVE  \E g : Sums(f, g) /\ SumFunction(f) = g[D]
<1> DEFINE g == CHOOSE g : Sums(f, g)
<1>1. Sums(f, g)
  BY SumsExists
<1>2. SumFunction(f) = g[D]
  BY SumIsSums
<1> QED
  BY <1>1, <1>2

LEMMA SumType ==
    ASSUME NEW f, NEW D, f \in [D -> Int], IsFiniteSet(D)
    PROVE  SumFunction(f) \in Int
<1>1. PICK g : Sums(f, g) /\ SumFunction(f) = g[D]
  BY SumWitness
<1>2. Splits(f, D, g)
  BY <1>1, SumsFacts
<1> QED
  BY <1>1, <1>2 DEF Splits

LEMMA SumZero ==
    ASSUME NEW f, NEW D, f \in [D -> Int], IsFiniteSet(D), \A x \in D : f[x] = 0
    PROVE  SumFunction(f) = 0
<1>1. PICK g : Sums(f, g) /\ SumFunction(f) = g[D]
  BY SumWitness
<1> DEFINE h == [t \in SUBSET D |-> 0]
<1>2. \A t \in SUBSET D : t # {} => Picked(t) \in t
  BY DEF Picked
<1>3. Sums(f, h)
  BY <1>2 DEF Sums
<1> HIDE DEF h
<1>4. g[D] = h[D]
  BY <1>1, <1>3, SumsAgree
<1> QED
  BY <1>1, <1>4 DEF h

\* One summand that changes changes the sum by as much.
LEMMA SumChange ==
    ASSUME NEW D, IsFiniteSet(D), NEW f, f \in [D -> Int], NEW e, e \in [D -> Int],
           NEW x \in D, \A y \in D \ {x} : e[y] = f[y]
    PROVE  SumFunction(e) = SumFunction(f) + (e[x] - f[x])
<1>1. PICK g : Sums(f, g) /\ SumFunction(f) = g[D]
  BY SumWitness
<1>2. PICK h : Sums(e, h) /\ SumFunction(e) = h[D]
  BY SumWitness
<1>3. g[D] = f[x] + g[D \ {x}] /\ g[D \ {x}] \in Int
  <2>1. Splits(f, D, g)
    BY <1>1, SumsFacts
  <2> QED
    BY <2>1 DEF Splits
<1>4. h[D] = e[x] + h[D \ {x}]
  <2>1. Splits(e, D, h)
    BY <1>2, SumsFacts
  <2> QED
    BY <2>1 DEF Splits
<1>5. h[D \ {x}] = g[D \ {x}]
  BY <1>1, <1>2, SumsAgree
<1>6. f[x] \in Int /\ e[x] \in Int
  OBVIOUS
<1> QED
  BY <1>1, <1>2, <1>3, <1>4, <1>5, <1>6

LEMMA SumAppend ==
    ASSUME NEW s \in Seq(Int), NEW v \in Int
    PROVE  SumFunction(Append(s, v)) = SumFunction(s) + v
<1> DEFINE n == Len(s)
           a == Append(s, v)
<1>1. /\ n \in Nat /\ s \in [1..n -> Int] /\ a \in [1..(n + 1) -> Int]
      /\ a[n + 1] = v /\ \A i \in 1..n : a[i] = s[i]
  <2>1. n \in Nat /\ s \in [1..n -> Int]
    BY LenProperties
  <2>2. /\ a \in Seq(Int) /\ Len(a) = n + 1
        /\ a[n + 1] = v /\ \A i \in 1..n : a[i] = s[i]
    BY AppendProperties
  <2>3. a \in [1..Len(a) -> Int]
    BY <2>2, LenProperties
  <2> QED
    BY <2>1, <2>2, <2>3
<1>2. IsFiniteSet(1..n) /\ IsFiniteSet(1..(n + 1))
  BY <1>1, FS_Interval
<1> HIDE DEF n, a
<1>3. PICK g : Sums(s, g) /\ SumFunction(s) = g[1..n]
  BY <1>1, <1>2, SumWitness
<1>4. PICK h : Sums(a, h) /\ SumFunction(a) = h[1..(n + 1)]
  BY <1>1, <1>2, SumWitness
<1>5. (1..(n + 1)) \ {n + 1} = 1..n /\ n + 1 \in 1..(n + 1) /\ 1..n \subseteq 1..(n + 1)
  BY <1>1
<1>6. h[1..(n + 1)] = v + h[1..n]
  <2>1. Splits(a, 1..(n + 1), h)
    BY <1>1, <1>2, <1>4, SumsFacts
  <2>2. h[1..(n + 1)] = a[n + 1] + h[(1..(n + 1)) \ {n + 1}]
    BY <1>5, <2>1 DEF Splits
  <2> QED
    BY <1>1, <1>5, <2>2
<1>7. h[1..n] = g[1..n]
  BY <1>1, <1>2, <1>3, <1>4, <1>5, SumsAgree
<1>8. g[1..n] \in Int
  <2>1. Splits(s, 1..n, g)
    BY <1>1, <1>2, <1>3, SumsFacts
  <2> QED
    BY <2>1 DEF Splits
<1> QED
  BY <1>3, <1>4, <1>6, <1>7, <1>8 DEF a

LEMMA LeastFacts ==
    ASSUME NEW S \in SUBSET Nat, S # {}
    PROVE  Min(S) \in S /\ \A y \in S : Min(S) <= y
<1> DEFINE R == OpToRel(<, Nat)
<1>1. IsWellFoundedOn(R, Nat)
  BY NatLessThanWellFounded
<1>2. \A x, y \in Nat : <<y, x>> \in R <=> y < x
  BY DEF OpToRel
<1> HIDE DEF R
<1>3. PICK x \in S : \A y \in S : ~ (<<y, x>> \in R)
  BY <1>1, WFMin
<1>4. ASSUME NEW y \in S
      PROVE  x <= y
  <2>1. ~ (y < x)
    BY <1>2, <1>3
  <2> QED
    BY <2>1
<1> QED
  BY <1>4 DEF Min

-----------------------------------------------------------------------------
\* The votes on meme templates.

\* A request writes for a row it has read, whose id no later row has, and changes
\* a vote that is still there.
ReadOK ==
    \A r \in Requests : patch[r] # NoPatch =>
        /\ patch[r].id \in Ids \ unused /\ patch[r].user \in Users
        /\ patch[r].vote # patch[r].old
        /\ patch[r].id \in Present /\ patch[r].old # NoVote =>
             votes[patch[r].id][patch[r].user] # <<>>

CheckOK == DOMAIN check = {"left", "total", "seen"}

VoteInv == VoteTypeOK /\ ReadOK /\ CheckOK /\ VotesAddUp

LEMMA VoteSeq ==
    ASSUME NEW s \in Seq(Vote)
    PROVE  s \in Seq(Int) /\ s \in [1..Len(s) -> Int] /\ IsFiniteSet(1..Len(s))
<1>1. Len(s) \in Nat /\ s \in [1..Len(s) -> Vote]
  BY LenProperties
<1>2. s \in [1..Len(s) -> Int]
  BY <1>1 DEF Vote
<1>3. s \in Seq(Int)
  BY <1>1, <1>2, IsASeq
<1> QED
  BY <1>1, <1>2, <1>3, FS_Interval

LEMMA CountType ==
    ASSUME NEW s \in Seq(Vote)
    PROVE  Count(s) \in Int
  BY VoteSeq, SumType DEF Count

LEMMA CountAppend ==
    ASSUME NEW s \in Seq(Vote), NEW v \in Vote
    PROVE  Append(s, v) \in Seq(Vote) /\ Count(Append(s, v)) = Count(s) + v
<1>1. v \in Int /\ Append(s, v) \in Seq(Vote)
  BY AppendProperties DEF Vote
<1> QED
  BY <1>1, VoteSeq, SumAppend DEF Count

\* A vote that takes the place of the first.
LEMMA CountReplace ==
    ASSUME NEW s \in Seq(Vote), s # <<>>, NEW v \in Vote
    PROVE  /\ <<v>> \o Tail(s) \in Seq(Vote) /\ <<v>> \o Tail(s) # <<>>
           /\ Count(<<v>> \o Tail(s)) = Count(s) + (v - s[1])
<1> DEFINE e == <<v>> \o Tail(s)
           n == Len(s)
<1>1. n \in Nat \ {0} /\ s \in [1..n -> Vote]
  BY EmptySeq, LenProperties
<1>2. /\ Tail(s) \in Seq(Vote) /\ Len(Tail(s)) = n - 1
      /\ \A i \in 1..(n - 1) : Tail(s)[i] = s[i + 1]
  BY HeadTailProperties
<1>3. <<v>> \in Seq(Vote) /\ Len(<<v>>) = 1 /\ <<v>>[1] = v
  OBVIOUS
<1>4. /\ e \in Seq(Vote) /\ Len(e) = n /\ e[1] = v
      /\ \A i \in 2..n : e[i] = s[i]
  BY <1>1, <1>2, <1>3, ConcatProperties
<1>5. e \in [1..n -> Int] /\ s \in [1..n -> Int] /\ IsFiniteSet(1..n) /\ 1 \in 1..n
  <2>1. e \in [1..Len(e) -> Int]
    <3> HIDE DEF e
    <3> QED
      BY <1>4, VoteSeq
  <2>2. s \in [1..n -> Int] /\ IsFiniteSet(1..n)
    BY VoteSeq
  <2> QED
    BY <1>1, <1>4, <2>1, <2>2
<1>6. \A i \in (1..n) \ {1} : e[i] = s[i]
  BY <1>1, <1>4
<1> HIDE DEF e
<1>7. SumFunction(e) = SumFunction(s) + (e[1] - s[1])
  BY <1>5, <1>6, SumChange
<1>8. e # <<>>
  BY <1>1, <1>4, EmptySeq
<1> QED
  BY <1>4, <1>7, <1>8 DEF e, Count

LEMMA CastKeeps ==
    ASSUME NEW i, votes'[i] = votes[i]
    PROVE  Cast(i)' = Cast(i)
  BY DEF Cast

LEMMA UsersSum ==
    ASSUME NEW f \in [Users -> Int], NEW e \in [Users -> Int], NEW u \in Users,
           \A v \in Users \ {u} : e[v] = f[v]
    PROVE  SumFunction(e) = SumFunction(f) + (e[u] - f[u])
<1>1. IsFiniteSet(Users)
  BY MemeVotesAssumption
<1> QED
  BY <1>1, SumChange

\* One user's votes change, and the sum by as much.
LEMMA CountsChange ==
    ASSUME NEW a \in [Users -> Seq(Vote)], NEW b \in [Users -> Seq(Vote)], NEW u \in Users,
           \A v \in Users \ {u} : b[v] = a[v]
    PROVE  SumFunction([v \in Users |-> Count(b[v])])
             = SumFunction([v \in Users |-> Count(a[v])]) + (Count(b[u]) - Count(a[u]))
<1>1. PICK f : f = [v \in Users |-> Count(a[v])]
  OBVIOUS
<1>2. PICK e : e = [v \in Users |-> Count(b[v])]
  OBVIOUS
<1>3. f \in [Users -> Int] /\ e \in [Users -> Int]
  BY <1>1, <1>2, CountType
<1>4. \A v \in Users \ {u} : e[v] = f[v]
  BY <1>1, <1>2
<1>5. SumFunction(e) = SumFunction(f) + (e[u] - f[u])
  BY <1>3, <1>4, UsersSum, ZenonT(30)
<1> QED
  BY <1>1, <1>2, <1>5

LEMMA CastChanges ==
    ASSUME NEW i, votes[i] \in [Users -> Seq(Vote)], NEW u \in Users, NEW s \in Seq(Vote),
           votes'[i] = [votes[i] EXCEPT ![u] = s]
    PROVE  Cast(i)' = Cast(i) + (Count(s) - Count(votes[i][u]))
<1>1. PICK a \in [Users -> Seq(Vote)] : a = votes[i]
  OBVIOUS
<1>2. PICK b \in [Users -> Seq(Vote)] : b = votes'[i]
  OBVIOUS
<1>3. b[u] = s /\ \A v \in Users \ {u} : b[v] = a[v]
  BY <1>1, <1>2
<1>4. SumFunction([v \in Users |-> Count(b[v])])
        = SumFunction([v \in Users |-> Count(a[v])]) + (Count(b[u]) - Count(a[u]))
  BY <1>3, CountsChange, ZenonT(90)
<1> QED
  BY <1>1, <1>2, <1>3, <1>4 DEF Cast

\* The first vote on a template.
LEMMA FirstVote ==
    ASSUME NEW u \in Users
    PROVE  /\ [v \in Users |-> IF v = u THEN <<1>> ELSE <<>>] \in [Users -> Seq(Vote)]
           /\ SumFunction([v \in Users |-> Count((IF v = u THEN <<1>> ELSE <<>>))]) = 1
<1>1. PICK a : a = [v \in Users |-> <<>>]
  OBVIOUS
<1>2. PICK b : b = [v \in Users |-> IF v = u THEN <<1>> ELSE <<>>]
  OBVIOUS
<1>3. <<>> \in Seq(Vote) /\ <<1>> \in Seq(Vote) /\ 1 \in Vote
  BY DEF Vote
<1>4. a \in [Users -> Seq(Vote)] /\ b \in [Users -> Seq(Vote)]
  BY <1>1, <1>2, <1>3
<1>5. Count(<<>>) = 0
  <2>1. <<>> \in [{} -> Int] /\ IsFiniteSet({})
    BY FS_EmptySet
  <2>2. SumFunction(<<>>) = 0
    BY <2>1, SumZero
  <2> QED
    BY <2>2 DEF Count
<1>6. Count(<<1>>) = 1
  <2>1. Append(<<>>, 1) = <<1>>
    OBVIOUS
  <2>2. Count(Append(<<>>, 1)) = Count(<<>>) + 1
    BY <1>3, CountAppend
  <2> QED
    BY <1>5, <2>1, <2>2
<1>7. SumFunction([v \in Users |-> Count(a[v])]) = 0
  <2>1. PICK f : f = [v \in Users |-> Count(a[v])]
    OBVIOUS
  <2>2. f \in [Users -> Int] /\ \A v \in Users : f[v] = 0
    BY <1>1, <1>5, <2>1
  <2>3. IsFiniteSet(Users)
    BY MemeVotesAssumption
  <2>4. SumFunction(f) = 0
    BY <2>2, <2>3, SumZero
  <2> QED
    BY <2>1, <2>4
<1>8. \A v \in Users \ {u} : b[v] = a[v]
  BY <1>1, <1>2
<1>9. SumFunction([v \in Users |-> Count(b[v])])
        = SumFunction([v \in Users |-> Count(a[v])]) + (Count(b[u]) - Count(a[u]))
  BY <1>4, <1>8, CountsChange, ZenonT(90)
<1>10. a[u] = <<>> /\ b[u] = <<1>>
  BY <1>1, <1>2
<1>11. [v \in Users |-> Count(b[v])] = [v \in Users |-> Count((IF v = u THEN <<1>> ELSE <<>>))]
  BY <1>2
<1>12. [v \in Users |-> IF v = u THEN <<1>> ELSE <<>>] \in [Users -> Seq(Vote)]
  BY <1>2, <1>4
<1>13. Count(b[u]) - Count(a[u]) = 1
  BY <1>5, <1>6, <1>10
<1>14. SumFunction([v \in Users |-> Count(b[v])]) = 1
  BY <1>7, <1>9, <1>13
<1> QED
  BY <1>11, <1>12, <1>14

LEMMA SubmitOK ==
    ASSUME VoteInv, NEW u \in Users, Submit(u)
    PROVE  VoteInv'
<1> USE DEF VoteInv
<1>1. PICK new : new = Min(unused)
  OBVIOUS
<1>2. /\ unused # {} /\ moves' = moves + 1
      /\ unused' = unused \ {new}
      /\ total' = [i \in Present \cup {new} |-> IF i = new THEN 1 ELSE total[i]]
      /\ votes' = [i \in Present \cup {new} |->
                     IF i = new THEN [v \in Users |-> IF v = u THEN <<1>> ELSE <<>>] ELSE votes[i]]
      /\ patch' = patch /\ check' = check /\ disturbed' = disturbed
  BY <1>1 DEF Submit, SubmitTotal, Move
<1>3. new \in unused
  <2>1. unused \in SUBSET Nat
    BY MemeVotesAssumption DEF VoteTypeOK
  <2> QED
    BY <1>1, <1>2, <2>1, LeastFacts
<1>4. new \in Ids /\ new \notin Present /\ Present' = Present \cup {new}
  BY <1>2, <1>3 DEF VoteTypeOK, Present
<1>5. VoteTypeOK'
  <2>1. total' \in [Present' -> Int]
    BY <1>2, <1>4 DEF VoteTypeOK
  <2>2. votes' \in [Present' -> [Users -> Seq(Vote)]]
    <3>1. [v \in Users |-> IF v = u THEN <<1>> ELSE <<>>] \in [Users -> Seq(Vote)]
      BY FirstVote
    <3>2. \A i \in Present : votes[i] \in [Users -> Seq(Vote)]
      BY DEF VoteTypeOK
    <3> QED
      BY <1>2, <1>4, <3>1, <3>2
  <2>3. Present' \subseteq Ids \ unused' /\ unused' \subseteq Ids /\ moves' \in Nat
    BY <1>2, <1>4 DEF VoteTypeOK
  <2> QED
    BY <1>2, <2>1, <2>2, <2>3 DEF VoteTypeOK
<1>6. ReadOK'
  <2>1. ASSUME NEW r \in Requests, patch[r] # NoPatch
        PROVE  /\ patch[r].id \in Ids \ unused' /\ patch[r].user \in Users
               /\ patch[r].vote # patch[r].old
               /\ patch[r].id \in Present' /\ patch[r].old # NoVote =>
                    votes'[patch[r].id][patch[r].user] # <<>>
    <3>1. patch[r].id # new
      BY <1>3, <2>1 DEF ReadOK
    <3> QED
      BY <1>2, <1>4, <2>1, <3>1 DEF ReadOK
  <2> QED
    BY <1>2, <2>1 DEF ReadOK
<1>7. VotesAddUp'
  <2>1. ASSUME NEW i \in Present'
        PROVE  i \in disturbed' \/ total'[i] = Cast(i)'
    <3>1. CASE i = new
      <4>1. \A v \in Users : votes'[i][v] = IF v = u THEN <<1>> ELSE <<>>
        BY <1>2, <3>1
      <4>2. [v \in Users |-> Count(votes'[i][v])]
              = [v \in Users |-> Count((IF v = u THEN <<1>> ELSE <<>>))]
        BY <4>1
      <4>3. Cast(i)' = 1
        BY <4>2, FirstVote DEF Cast
      <4> QED
        BY <1>2, <3>1, <4>3
    <3>2. CASE i # new
      <4>1. i \in Present /\ votes'[i] = votes[i] /\ total'[i] = total[i]
        BY <1>2, <1>4, <2>1, <3>2
      <4>2. Cast(i)' = Cast(i)
        BY <4>1, CastKeeps
      <4> QED
        BY <1>2, <4>1, <4>2 DEF VotesAddUp
    <3> QED
      BY <3>1, <3>2
  <2> QED
    BY <2>1 DEF VotesAddUp
<1> QED
  BY <1>2, <1>5, <1>6, <1>7 DEF CheckOK

LEMMA ReadRowOK ==
    ASSUME VoteInv, NEW r \in Requests, ReadRow(r)
    PROVE  VoteInv'
<1> USE DEF VoteInv
<1> DEFINE cast(id, u) == IF votes[id][u] = <<>> THEN NoVote ELSE votes[id][u][1]
<1>0. PICK u \in Users, id \in Present, vote \in Vote :
        /\ cast(id, u) # vote
        /\ patch' = [patch EXCEPT ![r] = [user |-> u, id |-> id, total |-> total[id],
                                          old |-> cast(id, u), vote |-> vote]]
  BY DEF ReadRow
<1>1. PICK old :
        /\ old = IF votes[id][u] = <<>> THEN NoVote ELSE votes[id][u][1]
        /\ old # vote
        /\ patch' = [patch EXCEPT ![r] = [user |-> u, id |-> id, total |-> total[id],
                                          old |-> old, vote |-> vote]]
  BY <1>0
<1> HIDE DEF cast
<1>2. /\ moves' = moves + 1 /\ unused' = unused /\ total' = total /\ votes' = votes
      /\ check' = check /\ disturbed' = disturbed
  BY DEF ReadRow, Move
<1>3. votes[id][u] \in Seq(Vote) /\ total[id] \in Int /\ id \in Ids \ unused
  BY DEF VoteTypeOK
<1>4. old \in Vote \cup {NoVote}
  <2>1. votes[id][u] # <<>> => votes[id][u][1] \in Vote
    BY <1>3
  <2> QED
    BY <1>1, <2>1
<1>5. VoteTypeOK'
  <2>1. patch' \in [Requests -> {NoPatch} \cup [user : Users, id : Ids, total : Int,
                                                old : Vote \cup {NoVote}, vote : Vote]]
    BY <1>1, <1>3, <1>4 DEF VoteTypeOK
  <2>2. moves' \in Nat
    BY <1>2 DEF VoteTypeOK
  <2> QED
    BY <1>2, <2>1, <2>2 DEF VoteTypeOK, Present
<1>6. ReadOK'
  <2>1. /\ patch'[r].user = u /\ patch'[r].id = id /\ patch'[r].old = old
        /\ patch'[r].vote = vote
        /\ \A q \in Requests : q # r => patch'[q] = patch[q]
    BY <1>1 DEF VoteTypeOK
  <2>2. old # NoVote => votes[id][u] # <<>>
    BY <1>1
  <2> QED
    BY <1>1, <1>2, <1>3, <2>1, <2>2 DEF ReadOK, Present
<1>7. VotesAddUp' /\ CheckOK'
  BY <1>2 DEF VotesAddUp, Cast, Present, CheckOK
<1> QED
  BY <1>5, <1>6, <1>7

\* Rows that are removed, with their votes, leave the others as they were.
LEMMA WithoutOK ==
    ASSUME VoteInv, NEW gones, Present' = Present \ gones,
           total' = [i \in Present \ gones |-> total[i]],
           votes' = [i \in Present \ gones |-> votes[i]],
           patch' = patch, unused' = unused, disturbed' = disturbed
    PROVE  /\ Present' \subseteq Ids \ unused'
           /\ total' \in [Present' -> Int] /\ votes' \in [Present' -> [Users -> Seq(Vote)]]
           /\ ReadOK' /\ VotesAddUp'
<1> USE DEF VoteInv
<1>1. /\ Present' \subseteq Ids \ unused'
      /\ total' \in [Present' -> Int] /\ votes' \in [Present' -> [Users -> Seq(Vote)]]
  BY DEF VoteTypeOK
<1>2. ReadOK'
  BY DEF ReadOK
<1>3. VotesAddUp'
  <2>1. ASSUME NEW i \in Present'
        PROVE  i \in disturbed' \/ total'[i] = Cast(i)'
    <3>1. i \in Present /\ votes'[i] = votes[i] /\ total'[i] = total[i]
      BY <2>1
    <3>2. Cast(i)' = Cast(i)
      BY <3>1, CastKeeps
    <3> QED
      BY <3>1, <3>2 DEF VotesAddUp
  <2> QED
    BY <2>1 DEF VotesAddUp
<1> QED
  BY <1>1, <1>2, <1>3

LEMMA DeletePotentialOK ==
    ASSUME VoteInv, NEW id, DeletePotential(id)
    PROVE  VoteInv'
<1> USE DEF VoteInv
<1>1. /\ total' = [i \in Present \ {id} |-> total[i]]
      /\ votes' = [i \in Present \ {id} |-> votes[i]]
      /\ moves' = moves + 1 /\ unused' = unused /\ patch' = patch
      /\ check' = check /\ disturbed' = disturbed
  BY DEF DeletePotential, Without, Move
<1>2. Present' = Present \ {id}
  BY <1>1 DEF Present
<1>3. /\ Present' \subseteq Ids \ unused'
      /\ total' \in [Present' -> Int] /\ votes' \in [Present' -> [Users -> Seq(Vote)]]
      /\ ReadOK' /\ VotesAddUp'
  BY <1>1, <1>2, WithoutOK
<1>4. moves' \in Nat
  BY <1>1 DEF VoteTypeOK
<1> QED
  BY <1>1, <1>3, <1>4 DEF VoteTypeOK, CheckOK

LEMMA BeginCheckOK ==
    ASSUME VoteInv, BeginCheck
    PROVE  VoteInv'
<1> USE DEF VoteInv
<1>1. /\ moves' = moves + 1 /\ unused' = unused /\ total' = total /\ votes' = votes
      /\ patch' = patch /\ disturbed' = disturbed
  BY DEF BeginCheck, Move
<1>2. check'.left = Present /\ DOMAIN check' = {"left", "total", "seen"}
  BY DEF BeginCheck
<1>3. VoteTypeOK' /\ CheckOK'
  BY <1>1, <1>2 DEF VoteTypeOK, CheckOK, Present
<1>4. ReadOK' /\ VotesAddUp'
  BY <1>1 DEF ReadOK, VotesAddUp, Cast, Present
<1> QED
  BY <1>3, <1>4

LEMMA CheckVotesOK ==
    ASSUME VoteInv, CheckVotes
    PROVE  VoteInv'
<1> USE DEF VoteInv
<1>1. /\ unused' = unused /\ patch' = patch /\ disturbed' = disturbed /\ moves' = moves
      /\ \/ Without(Max(check.left))
         \/ total' = total /\ votes' = votes
      /\ \/ check' = Resting
         \/ \E seen : check' = [check EXCEPT !.left = check.left \ {Max(check.left)}, !.seen = seen]
  BY DEF CheckVotes
<1>2. check'.left \subseteq Ids /\ CheckOK'
  <2>1. Resting.left = {} /\ DOMAIN Resting = {"left", "total", "seen"}
    BY DEF Resting
  <2> QED
    BY <1>1, <2>1 DEF VoteTypeOK, CheckOK
<1>3. /\ Present' \subseteq Ids \ unused'
      /\ total' \in [Present' -> Int] /\ votes' \in [Present' -> [Users -> Seq(Vote)]]
      /\ ReadOK' /\ VotesAddUp'
  <2>1. CASE Without(Max(check.left))
    <3>1. Present' = Present \ {Max(check.left)}
      BY <2>1 DEF Present, Without
    <3> QED
      BY <1>1, <2>1, <3>1, WithoutOK DEF Without
  <2>2. CASE total' = total /\ votes' = votes
    BY <1>1, <2>2, ZenonT(30) DEF VoteTypeOK, ReadOK, VotesAddUp, Cast, Present
  <2> QED
    BY <1>1, <2>1, <2>2
<1> QED
  BY <1>1, <1>2, <1>3 DEF VoteTypeOK

\* The vote of one user that a request puts where it has read there was none, or
\* in the place of the one it has read.
LEMMA VoteWritten ==
    ASSUME VoteInv, NEW r \in Requests, patch[r] # NoPatch, patch[r].id \in Present
    PROVE  LET p == patch[r]
               s == votes[p.id][p.user]
               t == IF p.old = NoVote THEN Append(s, p.vote) ELSE <<p.vote>> \o Tail(s)
           IN  /\ p.user \in Users /\ s \in Seq(Vote) /\ t \in Seq(Vote) /\ t # <<>>
               /\ p.vote \in Vote /\ p.old \in Vote \cup {NoVote}
               /\ p.old = NoVote => Count(t) - Count(s) = p.vote
               /\ p.old # NoVote => Count(t) - Count(s) = p.vote - s[1]
<1> USE DEF VoteInv
<1> DEFINE p == patch[r]
           s == votes[p.id][p.user]
           t == IF p.old = NoVote THEN Append(s, p.vote) ELSE <<p.vote>> \o Tail(s)
<1>1. /\ p.user \in Users /\ p.vote \in Vote /\ p.old \in Vote \cup {NoVote}
      /\ s \in Seq(Vote)
      /\ p.old # NoVote => s # <<>>
  BY DEF VoteTypeOK, ReadOK
<1> HIDE DEF p, s
<1>2. Count(s) \in Int /\ p.vote \in Int
  BY <1>1, CountType DEF Vote
<1>3. CASE p.old = NoVote
  <2>1. t = Append(s, p.vote)
    BY <1>3
  <2>2. t \in Seq(Vote) /\ Count(t) = Count(s) + p.vote
    BY <1>1, <2>1, CountAppend
  <2>3. t # <<>>
    BY <1>1, <2>1, AppendProperties
  <2>4. Count(t) - Count(s) = p.vote
    BY <1>2, <2>2
  <2> HIDE DEF t
  <2>5. t \in Seq(Vote) /\ t # <<>> /\ Count(t) - Count(s) = p.vote
    BY <2>2, <2>3, <2>4
  <2> QED
    BY <1>1, <1>3, <2>5 DEF p, s, t
<1>4. CASE p.old # NoVote
  <2>1. t = <<p.vote>> \o Tail(s)
    BY <1>4
  <2>2. t \in Seq(Vote) /\ t # <<>> /\ Count(t) = Count(s) + (p.vote - s[1])
    BY <1>1, <1>4, <2>1, CountReplace
  <2>3. s[1] \in Int
    BY <1>1, <1>4 DEF Vote
  <2>4. Count(t) - Count(s) = p.vote - s[1]
    BY <1>2, <2>2, <2>3
  <2> HIDE DEF t
  <2>5. t \in Seq(Vote) /\ t # <<>> /\ Count(t) - Count(s) = p.vote - s[1]
    BY <2>2, <2>4
  <2> QED
    BY <1>1, <1>4, <2>5 DEF p, s, t
<1> QED
  BY <1>3, <1>4

LEMMA WriteVoteOK ==
    ASSUME VoteInv, NEW r \in Requests, WriteVote(r)
    PROVE  VoteInv'
<1> USE DEF VoteInv
<1>1. PICK p : p = patch[r]
  OBVIOUS
<1>2. /\ p # NoPatch /\ patch' = [patch EXCEPT ![r] = NoPatch]
      /\ unused' = unused /\ check' = check /\ moves' = moves
  BY <1>1 DEF WriteVote
<1>3. patch'[r] = NoPatch /\ \A q \in Requests : q # r => patch'[q] = patch[q]
  BY <1>2 DEF VoteTypeOK
<1>4. patch' \in [Requests -> {NoPatch} \cup [user : Users, id : Ids, total : Int,
                                              old : Vote \cup {NoVote}, vote : Vote]]
  BY <1>2 DEF VoteTypeOK
<1>5. CASE p.id \notin Present
  <2>1. total' = total /\ votes' = votes /\ disturbed' = disturbed
    BY <1>1, <1>5 DEF WriteVote
  <2> QED
    BY <1>2, <1>3, <1>4, <2>1 DEF VoteTypeOK, ReadOK, CheckOK, VotesAddUp, Cast, Present
<1>6. CASE p.id \in Present
  <2> DEFINE i0 == p.id
  <2>1. PICK t : t = IF p.old = NoVote THEN Append(votes[p.id][p.user], p.vote)
                     ELSE <<p.vote>> \o Tail(votes[p.id][p.user])
    OBVIOUS
  <2>2. /\ total' = IF p.vote = 0 THEN total ELSE [total EXCEPT ![p.id] = p.total + p.vote]
        /\ votes' = [votes EXCEPT ![p.id][p.user] = t]
        /\ disturbed' = IF Disturbs(p) THEN disturbed \cup {p.id} ELSE disturbed
    BY <1>1, <1>6, <2>1 DEF WriteVote
  <2>3. /\ p.user \in Users /\ votes[p.id][p.user] \in Seq(Vote) /\ t \in Seq(Vote) /\ t # <<>>
        /\ p.vote \in Vote /\ p.old \in Vote \cup {NoVote}
        /\ p.old = NoVote => Count(t) - Count(votes[p.id][p.user]) = p.vote
        /\ p.old # NoVote => Count(t) - Count(votes[p.id][p.user])
                               = p.vote - votes[p.id][p.user][1]
    BY <1>1, <1>2, <1>6, <2>1, VoteWritten
  <2>4. p.total \in Int /\ p.id \in Ids /\ total[p.id] \in Int /\ p.vote \in Int
    <3>1. p.vote \in Int
      BY <2>3 DEF Vote
    <3> QED
      BY <1>1, <1>2, <1>6, <3>1 DEF VoteTypeOK
  <2>5. /\ Present' = Present
        /\ votes[p.id] \in [Users -> Seq(Vote)]
        /\ votes'[p.id] = [votes[p.id] EXCEPT ![p.user] = t]
        /\ \A i \in Present : i # p.id => votes'[i] = votes[i] /\ total'[i] = total[i]
    BY <1>6, <2>2 DEF VoteTypeOK, Present
  <2>6. VoteTypeOK'
    <3>1. total' \in [Present' -> Int]
      BY <1>6, <2>2, <2>4, <2>5 DEF VoteTypeOK
    <3>2. votes' \in [Present' -> [Users -> Seq(Vote)]]
      BY <1>6, <2>2, <2>3, <2>5 DEF VoteTypeOK
    <3>3. disturbed' \subseteq Ids
      BY <2>2, <2>4 DEF VoteTypeOK
    <3> QED
      BY <1>2, <1>4, <2>5, <3>1, <3>2, <3>3 DEF VoteTypeOK
  <2>7. ReadOK'
    <3>1. ASSUME NEW i \in Present, NEW u \in Users, votes[i][u] # <<>>
          PROVE  votes'[i][u] # <<>>
      BY <1>6, <2>3, <2>5, <3>1
    <3> QED
      BY <1>2, <1>3, <2>5, <3>1 DEF ReadOK
  <2>8. VotesAddUp'
    <3>1. ASSUME NEW i \in Present
          PROVE  i \in disturbed' \/ total'[i] = Cast(i)'
      <4>1. CASE i # p.id
        <5>1. Cast(i)' = Cast(i)
          BY <2>5, <4>1, CastKeeps
        <5> QED
          BY <2>2, <2>5, <4>1, <5>1 DEF VotesAddUp
      <4>2. CASE Disturbs(p) /\ i = p.id
        BY <2>2, <4>2
      <4>3. CASE ~ Disturbs(p) /\ i = p.id /\ i \notin disturbed
        <5>1. total[p.id] = Cast(p.id)
          BY <4>3 DEF VotesAddUp
        <5>2. /\ p.old \notin {-1, 1}
              /\ p.vote = 0 \/ p.total = total[p.id]
              /\ p.old = NoVote \/ votes[p.id][p.user][1] = p.old
          BY <4>3 DEF Disturbs
        <5>3. total'[p.id] = total[p.id] + p.vote
          <6>1. CASE p.vote = 0
            <7>1. total'[p.id] = total[p.id]
              BY <2>2, <6>1
            <7> QED
              BY <2>4, <6>1, <7>1
          <6>2. CASE p.vote # 0
            BY <1>6, <2>2, <5>2, <6>2 DEF VoteTypeOK
          <6> QED
            BY <6>1, <6>2
        <5>4. Count(t) - Count(votes[p.id][p.user]) = p.vote
          <6>1. CASE p.old = NoVote
            BY <2>3, <6>1
          <6>2. CASE p.old # NoVote
            <7>1. p.old = 0
              BY <2>3, <5>2, <6>2 DEF Vote
            <7>2. votes[p.id][p.user][1] = 0
              BY <5>2, <6>2, <7>1
            <7> QED
              BY <2>3, <2>4, <6>2, <7>2
          <6> QED
            BY <6>1, <6>2
        <5>5. Cast(p.id)' = Cast(p.id) + (Count(t) - Count(votes[p.id][p.user]))
          BY <2>3, <2>5, CastChanges, ZenonT(90)
        <5> QED
          BY <4>3, <5>1, <5>3, <5>4, <5>5
      <4>4. CASE i \in disturbed
        BY <2>2, <4>4
      <4> QED
        BY <4>1, <4>2, <4>3, <4>4
    <3> QED
      BY <2>5, <3>1 DEF VotesAddUp
  <2> QED
    BY <1>2, <2>6, <2>7, <2>8 DEF CheckOK
<1> QED
  BY <1>5, <1>6

LEMMA VoteNextOK ==
    ASSUME VoteInv, VoteNext
    PROVE  VoteInv'
  BY SubmitOK, ReadRowOK, WriteVoteOK, DeletePotentialOK, BeginCheckOK, CheckVotesOK DEF VoteNext

\* The invariant of the votes, whatever else the jobs do.
THEOREM VoteInvariant == Spec => []VoteInv
<1>1. Init => VoteInv
  <2>1. Resting.left = {} /\ DOMAIN Resting = {"left", "total", "seen"}
    BY DEF Resting
  <2>2. DOMAIN <<>> = {}
    OBVIOUS
  <2> SUFFICES ASSUME VoteInit
               PROVE  VoteInv
    BY DEF Init
  <2>3. Present = {}
    BY <2>2 DEF VoteInit, Present
  <2>4. total \in [Present -> Int] /\ votes \in [Present -> [Users -> Seq(Vote)]]
    BY <2>3 DEF VoteInit
  <2> QED
    BY <2>1, <2>3, <2>4 DEF VoteInit, VoteInv, VoteTypeOK, ReadOK, CheckOK, VotesAddUp
<1>2. VoteInv /\ [Next]_vars => VoteInv'
  <2> SUFFICES ASSUME VoteInv, [Next]_vars
               PROVE  VoteInv'
    OBVIOUS
  <2>1. CASE VoteNext
    BY <2>1, VoteNextOK
  <2>2. CASE UNCHANGED voteVars
    BY <2>2 DEF VoteInv, VoteTypeOK, ReadOK, CheckOK, VotesAddUp, Cast, Present, voteVars
  <2> QED
    BY <2>1, <2>2 DEF Next, vars, UpdateStatistics, VoteOnMemes, SaveSubreddits, CheckForDeletions
<1> QED
  BY <1>1, <1>2, PTL DEF Spec

\* The total of a template that may still be decided is the sum of its votes, unless
\* a vote on it was changed or met another: on_post_potential,
\* on_patch_potential, on_delete_potential and the check that ends votes keep it.
THEOREM HousekeepingVotesAddUp == Spec => []VotesAddUp
  BY VoteInvariant, PTL DEF VoteInv
-----------------------------------------------------------------------------
\* The rows of the subreddits.

\* Only a sub with a row is, or is about to be, asked about.
AskedOK ==
    /\ \A w \in SubWorkers : does[w].step = "order" => does[w].sub \in subRows
    /\ \A s \in Subs, n \in 0..MaxTries : updates[s][n] > 0 => s \in subRows

Doings == {Off} \cup [step : {"insert", "order"}, sub : Subs]

SubInv == SubTypeOK /\ does \in [SubWorkers -> Doings] /\ AskedOK

\* A worker that has something to do.
LEMMA Doing ==
    ASSUME SubInv, NEW w \in SubWorkers, does[w].step \in {"insert", "order"}
    PROVE  does[w] \in [step : {"insert", "order"}, sub : Subs]
<1>1. Off.step = "off"
  BY DEF Off
<1> QED
  BY <1>1 DEF SubInv, Doings

\* What a worker does changes to nothing, or to a step for a sub.
LEMMA DoesOK ==
    ASSUME SubInv, NEW w \in SubWorkers, NEW do \in Doings, does' = [does EXCEPT ![w] = do],
           subRows \subseteq subRows', do.step = "order" => do.sub \in subRows'
    PROVE  /\ does' \in [SubWorkers -> Doings]
           /\ \A v \in SubWorkers : does'[v] = Off \/ does'[v] \in [step : {"insert", "order"}, sub : Subs]
           /\ \A v \in SubWorkers : does'[v].step = "order" => does'[v].sub \in subRows'
<1>1. does'[w] = do /\ \A v \in SubWorkers : v # w => does'[v] = does[v]
  BY DEF SubInv
<1>2. does' \in [SubWorkers -> Doings]
  BY DEF SubInv
<1>3. \A v \in SubWorkers : does'[v] = Off \/ does'[v] \in [step : {"insert", "order"}, sub : Subs]
  BY <1>2 DEF Doings
<1> QED
  BY <1>1, <1>2, <1>3 DEF SubInv, AskedOK

LEMMA IngestOrdersOK ==
    ASSUME SubInv, NEW s \in Subs, IngestOrders(s)
    PROVE  SubInv'
<1>1. saves' \in [Subs -> Nat] /\ ingested' \in Nat
  BY DEF IngestOrders, SubInv, SubTypeOK
<1> QED
  BY <1>1 DEF IngestOrders, SubInv, SubTypeOK, AskedOK

LEMMA LookUpSubOK ==
    ASSUME SubInv, NEW w \in SubWorkers, LookUpSub(w)
    PROVE  SubInv'
<1>1. PICK s \in Subs :
        /\ saves[s] > 0 /\ saves' = [saves EXCEPT ![s] = @ - 1]
        /\ does' = IF s \in subRows THEN does
                   ELSE [does EXCEPT ![w] = [step |-> "insert", sub |-> s]]
  BY DEF LookUpSub
<1>2. saves[s] \in Nat
  BY DEF SubInv, SubTypeOK
<1>3. saves[s] - 1 \in Nat
  BY <1>1, <1>2
<1>4. saves' \in [Subs -> Nat]
  BY <1>1, <1>3 DEF SubInv, SubTypeOK
<1>5. /\ updates' = updates /\ subRows' = subRows /\ subData' = subData
      /\ ingested' = ingested /\ bads' = bads /\ subFaults' = subFaults
  BY DEF LookUpSub
<1>6. /\ does' \in [SubWorkers -> Doings]
      /\ \A v \in SubWorkers : does'[v] = Off \/ does'[v] \in [step : {"insert", "order"}, sub : Subs]
      /\ \A v \in SubWorkers : does'[v].step = "order" => does'[v].sub \in subRows'
  <2>1. CASE s \in subRows
    BY <1>1, <1>5, <2>1 DEF SubInv, SubTypeOK, AskedOK
  <2>2. CASE s \notin subRows
    <3>1. [step |-> "insert", sub |-> s] \in Doings
      BY DEF Doings
    <3> QED
      BY <1>1, <1>5, <2>2, <3>1, DoesOK
  <2> QED
    BY <2>1, <2>2
<1> QED
  BY <1>4, <1>5, <1>6 DEF SubInv, SubTypeOK, AskedOK

\* A worker that does nothing more.
LEMMA StopsOK ==
    ASSUME SubInv, NEW w \in SubWorkers, does' = [does EXCEPT ![w] = Off],
           saves' = saves, updates' = updates, subRows' = subRows, subData' = subData,
           ingested' = ingested, bads' = bads, subFaults' \in Nat
    PROVE  SubInv'
<1>1. Off \in Doings /\ Off.step # "order"
  BY DEF Doings, Off
<1>2. /\ does' \in [SubWorkers -> Doings]
      /\ \A v \in SubWorkers : does'[v] = Off \/ does'[v] \in [step : {"insert", "order"}, sub : Subs]
      /\ \A v \in SubWorkers : does'[v].step = "order" => does'[v].sub \in subRows'
  BY <1>1, DoesOK
<1> QED
  BY <1>2 DEF SubInv, SubTypeOK, AskedOK

LEMMA SubFaultType ==
    ASSUME SubInv, SubFault \/ UNCHANGED subFaults
    PROVE  subFaults' \in Nat
  BY DEF SubInv, SubTypeOK, SubFault

LEMMA InsertSubOK ==
    ASSUME SubInv, NEW w \in SubWorkers, InsertSub(w)
    PROVE  SubInv'
<1>1. PICK s : s = does[w].sub
  OBVIOUS
<1>2. does[w] \in [step : {"insert", "order"}, sub : Subs] /\ s \in Subs
  BY <1>1, Doing DEF InsertSub
<1>3. /\ updates' = updates /\ saves' = saves /\ subData' = subData
      /\ ingested' = ingested /\ bads' = bads
  BY DEF InsertSub
<1>4. subFaults' \in Nat
  BY SubFaultType DEF InsertSub
<1>5. CASE does' = [does EXCEPT ![w] = Off] /\ subRows' = subRows
  BY <1>3, <1>4, <1>5, StopsOK
<1>6. CASE subRows' = subRows \cup {s} /\ does' = [does EXCEPT ![w].step = "order"]
  <2>1. PICK do : do = [does[w] EXCEPT !.step = "order"]
    OBVIOUS
  <2>2. do \in [step : {"insert", "order"}, sub : Subs] /\ do.sub = s
    BY <1>1, <1>2, <2>1
  <2>3. do \in Doings
    BY <2>2 DEF Doings
  <2>4. does' = [does EXCEPT ![w] = do]
    BY <1>6, <2>1
  <2>5. /\ does' \in [SubWorkers -> Doings]
        /\ \A v \in SubWorkers : does'[v] = Off \/ does'[v] \in [step : {"insert", "order"}, sub : Subs]
        /\ \A v \in SubWorkers : does'[v].step = "order" => does'[v].sub \in subRows'
    BY <1>6, <2>2, <2>3, <2>4, DoesOK
  <2> QED
    BY <1>2, <1>3, <1>4, <1>6, <2>5 DEF SubInv, SubTypeOK, AskedOK
<1> QED
  BY <1>1, <1>5, <1>6 DEF InsertSub

\* The numbers of updates of a sub with a row change.
LEMMA UpdatesOK ==
    ASSUME SubInv, NEW s \in subRows, NEW n \in 0..MaxTries, NEW m \in 0..MaxTries,
           NEW x \in Nat, NEW y \in Nat,
           updates' = [updates EXCEPT ![s][n] = x, ![s][m] = y]
    PROVE  /\ updates' \in [Subs -> [0..MaxTries -> Nat]]
           /\ \A r \in Subs, k \in 0..MaxTries : updates'[r][k] > 0 => r \in subRows
<1>1. s \in Subs /\ updates \in [Subs -> [0..MaxTries -> Nat]]
  BY DEF SubInv, SubTypeOK
<1>2. updates' \in [Subs -> [0..MaxTries -> Nat]]
  BY <1>1
<1>3. \A r \in Subs : r # s => updates'[r] = updates[r]
  BY <1>1
<1> QED
  BY <1>2, <1>3 DEF SubInv, AskedOK

LEMMA OrderUpdateOK ==
    ASSUME SubInv, NEW w \in SubWorkers, OrderUpdate(w)
    PROVE  SubInv'
<1>1. PICK s : s = does[w].sub
  OBVIOUS
<1>2. does[w] \in [step : {"insert", "order"}, sub : Subs] /\ s \in subRows /\ s \in Subs
  <2>1. does[w] \in [step : {"insert", "order"}, sub : Subs]
    BY Doing DEF OrderUpdate
  <2> QED
    BY <1>1, <2>1 DEF OrderUpdate, SubInv, AskedOK
<1>3. /\ does' = [does EXCEPT ![w] = Off] /\ subRows' = subRows /\ saves' = saves
      /\ subData' = subData /\ ingested' = ingested /\ bads' = bads
  BY DEF OrderUpdate
<1>4. subFaults' \in Nat
  BY SubFaultType DEF OrderUpdate
<1>5. CASE updates' = updates
  BY <1>3, <1>4, <1>5, StopsOK
<1>6. CASE updates' = [updates EXCEPT ![s][0] = @ + 1]
  <2>1. 0 \in 0..MaxTries
    BY SubredditsAssumption
  <2>2. updates[s][0] \in Nat
    BY <1>2, <2>1 DEF SubInv, SubTypeOK
  <2>3. PICK x \in Nat : x = updates[s][0] + 1
    BY <2>1, <2>2
  <2>4. updates' = [updates EXCEPT ![s][0] = x, ![s][0] = x]
    BY <1>6, <2>3
  <2>5. /\ updates' \in [Subs -> [0..MaxTries -> Nat]]
        /\ \A r \in Subs, n \in 0..MaxTries : updates'[r][n] > 0 => r \in subRows
    BY <1>2, <2>1, <2>4, UpdatesOK
  <2>6. Off \in Doings /\ Off.step # "order"
    BY DEF Doings, Off
  <2>7. /\ does' \in [SubWorkers -> Doings]
        /\ \A v \in SubWorkers : does'[v] = Off \/ does'[v] \in [step : {"insert", "order"}, sub : Subs]
        /\ \A v \in SubWorkers : does'[v].step = "order" => does'[v].sub \in subRows'
    BY <1>3, <2>6, DoesOK
  <2> QED
    BY <1>3, <1>4, <2>5, <2>7 DEF SubInv, SubTypeOK, AskedOK
<1> QED
  BY <1>1, <1>5, <1>6 DEF OrderUpdate

LEMMA UpdateSubOK ==
    ASSUME SubInv, NEW s \in Subs, NEW n \in 0..MaxTries, UpdateSub(s, n)
    PROVE  SubInv'
<1>1. updates[s][n] \in Nat /\ updates[s][n] > 0 /\ s \in subRows
  <2>1. updates[s][n] > 0
    BY DEF UpdateSub
  <2>2. updates[s] \in [0..MaxTries -> Nat]
    BY DEF SubInv, SubTypeOK
  <2>3. s \in subRows
    BY <2>1 DEF SubInv, AskedOK
  <2> QED
    BY <2>1, <2>2, <2>3
<1>2. /\ does' = does /\ subRows' = subRows /\ saves' = saves /\ ingested' = ingested
      /\ subData' \subseteq subRows
  BY <1>1 DEF UpdateSub, SubInv, SubTypeOK
<1>3. subFaults' \in Nat /\ bads' \in Nat
  BY SubFaultType DEF UpdateSub, SubInv, SubTypeOK, SubFault
<1>4. PICK x \in Nat : x = updates[s][n] - 1
  BY <1>1
<1>5. \E m \in 0..MaxTries, y \in Nat : updates' = [updates EXCEPT ![s][n] = x, ![s][m] = y]
  <2>1. CASE updates' = [updates EXCEPT ![s][n] = @ - 1]
    <3>1. updates' = [updates EXCEPT ![s][n] = x, ![s][n] = x]
      BY <1>4, <2>1
    <3> QED
      BY <3>1
  <2>2. CASE n # MaxTries /\ updates' = [updates EXCEPT ![s][n] = @ - 1, ![s][n + 1] = @ + 1]
    <3>1. n + 1 \in 0..MaxTries /\ n # n + 1
      BY <2>2, SubredditsAssumption
    <3>2. PICK m \in 0..MaxTries : m = n + 1
      BY <3>1
    <3>3. updates[s][m] \in Nat
      BY ZenonT(30) DEF SubInv, SubTypeOK
    <3>4. PICK y \in Nat : y = updates[s][m] + 1
      BY <3>3
    <3>5. updates' = [updates EXCEPT ![s][n] = x, ![s][m] = y]
      BY <1>4, <2>2, <3>1, <3>2, <3>4 DEF SubInv, SubTypeOK
    <3> QED
      BY <3>5
  <2> QED
    BY <2>1, <2>2 DEF UpdateSub, TryAgain
<1>6. /\ updates' \in [Subs -> [0..MaxTries -> Nat]]
      /\ \A r \in Subs, m \in 0..MaxTries : updates'[r][m] > 0 => r \in subRows
  BY <1>1, <1>5, UpdatesOK
<1> QED
  BY <1>2, <1>3, <1>6 DEF SubInv, SubTypeOK, AskedOK

LEMMA SubNextOK ==
    ASSUME SubInv, SubNext
    PROVE  SubInv'
<1>1. ASSUME NEW w \in SubWorkers, SubWorkerDies(w)
      PROVE  SubInv'
  BY <1>1, StopsOK, SubFaultType DEF SubWorkerDies
<1> QED
  BY <1>1, IngestOrdersOK, LookUpSubOK, InsertSubOK, OrderUpdateOK, UpdateSubOK
  DEF SubNext, SubWork

LEMMA SubInvInit ==
    ASSUME SubInit
    PROVE  SubInv
<1>1. Off.step = "off" /\ Off \in Doings
  BY DEF Off, Doings
<1>2. \A n \in 0..MaxTries : ~ (0 > 0)
  OBVIOUS
<1> QED
  BY <1>1, <1>2 DEF SubInit, SubInv, SubTypeOK, AskedOK
-----------------------------------------------------------------------------
\* The deleted post monitor.

\* A post of a batch is in one place, and a batch begins with nothing left over.
PlacesOK ==
    /\ asking \cap alive = {}
    /\ monitor = "batch" => asking \cup alive \cup dead = {}

DelInv == DelTypeOK /\ PlacesOK

LEMMA SomeSubsets ==
    ASSUME NEW S, NEW n, NEW T \in Some(S, n)
    PROVE  T \subseteq S
  BY DEF Some, kSubset

LEMMA ChunksSubsets ==
    ASSUME NEW S, NEW n, NEW P \in Chunks(S, n), NEW C \in P
    PROVE  C \subseteq S
  BY DEF Chunks

LEMMA DelCounts ==
    ASSUME DelInv
    PROVE  /\ DelFault \/ UNCHANGED delFaults => delFaults' \in Nat
           /\ Change \/ UNCHANGED changes => changes' \in Nat
  BY DEF DelInv, DelTypeOK, DelFault, Change

\* The monitor begins anew.
LEMMA RestartOK ==
    ASSUME DelInv, Restart, UNCHANGED World, orders' \subseteq orders,
           changes' \in Nat, delFaults' \in Nat
    PROVE  DelInv'
  BY DEF DelInv, DelTypeOK, PlacesOK, Restart, World

LEMMA WorldOK ==
    ASSUME DelInv, NEW p \in AllPosts, Vanish(p) \/ DayPasses(p)
    PROVE  DelInv'
<1>1. changes' \in Nat
  BY DelCounts DEF Vanish, DayPasses
<1>2. /\ UNCHANGED Round /\ UNCHANGED <<pool, delFaults>>
      /\ gone' \subseteq AllPosts /\ checked' \subseteq AllPosts /\ proxies' \in BOOLEAN
  BY DEF Vanish, DayPasses, DelInv, DelTypeOK
<1> QED
  BY <1>1, <1>2 DEF DelInv, DelTypeOK, PlacesOK, Round

LEMMA LoadOK ==
    ASSUME DelInv, Load
    PROVE  DelInv'
<1>1. rest' \subseteq AllPosts
  BY SomeSubsets DEF Load, Overdue
<1>2. /\ monitor = "load" /\ monitor' = "batch" /\ waitsFor' = {}
      /\ UNCHANGED World /\ UNCHANGED <<asking, alive, dead, orders, pool, changes, delFaults>>
  BY DEF Load
<1> QED
  BY <1>1, <1>2 DEF DelInv, DelTypeOK, PlacesOK, World

LEMMA TakeBatchOK ==
    ASSUME DelInv, TakeBatch
    PROVE  DelInv'
<1>1. /\ monitor = "batch" /\ UNCHANGED World /\ UNCHANGED <<orders, changes, delFaults>>
  BY DEF TakeBatch
<1>2. CASE Restart
  BY <1>1, <1>2, RestartOK DEF DelInv, DelTypeOK
<1>3. CASE \E B \in Some(rest, BatchSize) :
             /\ rest' = rest \ B /\ asking' = B
             /\ monitor' = "ask" /\ pool' = TRUE /\ UNCHANGED <<alive, dead, waitsFor>>
  <2>1. PICK B : /\ B \subseteq rest /\ rest' = rest \ B /\ asking' = B
                 /\ monitor' = "ask" /\ pool' = TRUE /\ UNCHANGED <<alive, dead, waitsFor>>
    BY <1>3, SomeSubsets
  <2>2. alive = {} /\ dead = {}
    BY <1>1 DEF DelInv, PlacesOK
  <2> QED
    BY <1>1, <2>1, <2>2 DEF DelInv, DelTypeOK, PlacesOK, World
<1> QED
  BY <1>2, <1>3 DEF TakeBatch

LEMMA FetchOK ==
    ASSUME DelInv, Fetch
    PROVE  DelInv'
<1>1. PICK C : /\ C \subseteq asking /\ asking' = asking \ C
               /\ \/ alive' = alive \cup StillThere(C) /\ dead' = dead \cup (C \ StillThere(C))
                  \/ UNCHANGED <<alive, dead>>
  BY SomeSubsets DEF Fetch
<1>2. /\ monitor = "ask" /\ UNCHANGED World
      /\ UNCHANGED <<rest, monitor, orders, waitsFor, pool, changes>>
  BY DEF Fetch
<1>3. delFaults' \in Nat
  BY DelCounts DEF Fetch
<1>4. StillThere(C) \subseteq C
  BY DEF StillThere
<1> QED
  BY <1>1, <1>2, <1>3, <1>4 DEF DelInv, DelTypeOK, PlacesOK, World

LEMMA OrderUpdatesOK ==
    ASSUME DelInv, OrderUpdates
    PROVE  DelInv'
<1> DEFINE tasks(P) == {<<"update", ids>> : ids \in P} \cup ({<<"delete", dead>>} \ {<<"delete", {}>>})
<1>0. PICK P \in Chunks(alive, UpdateSize) :
        orders' = orders \cup tasks(P) /\ waitsFor' = waitsFor \cup tasks(P)
  BY DEF OrderUpdates
<1>1. PICK new : /\ new = {<<"update", ids>> : ids \in P}
                             \cup ({<<"delete", dead>>} \ {<<"delete", {}>>})
                 /\ orders' = orders \cup new /\ waitsFor' = waitsFor \cup new
  BY <1>0
<1> HIDE DEF tasks
<1>2. new \subseteq {"update", "delete"} \X SUBSET AllPosts
  <2>1. alive \subseteq AllPosts /\ dead \subseteq AllPosts
    BY DEF DelInv, DelTypeOK
  <2>2. \A ids \in P : ids \in SUBSET AllPosts
    BY <2>1, ChunksSubsets
  <2> QED
    BY <1>1, <2>1, <2>2
<1>3. /\ monitor = "ask" /\ asking = {} /\ alive' = {} /\ dead' = {}
      /\ monitor' = IF rest = {} THEN "wait" ELSE "batch"
      /\ UNCHANGED World /\ UNCHANGED <<rest, asking, pool, changes, delFaults>>
  BY DEF OrderUpdates
<1>4. /\ orders' \subseteq {"update", "delete"} \X SUBSET AllPosts
      /\ waitsFor' \subseteq {"update", "delete", "failed"} \X SUBSET AllPosts
  BY <1>1, <1>2 DEF DelInv, DelTypeOK
<1> QED
  BY <1>3, <1>4 DEF DelInv, DelTypeOK, PlacesOK, World

LEMMA TaskWorkOK ==
    ASSUME DelInv, TaskWork
    PROVE  DelInv'
<1>1. PICK o \in orders :
        /\ orders' = orders \ {o}
        /\ \/ o[1] = "update" /\ (NoteTime(o[2]) \/ NoteTimeFails(o[2]))
           \/ o[1] = "delete" /\ BulkDelete(o[2])
           \/ WorkerDies
        /\ UNCHANGED <<gone, proxies, changes>>
  BY DEF TaskWork
<1>2. o[2] \subseteq AllPosts
  BY DEF DelInv, DelTypeOK
<1>3. delFaults' \in Nat /\ changes' \in Nat
  BY <1>1, DelCounts DEF NoteTime, NoteTimeFails, BulkDelete, WorkerDies
<1>4. <<"failed", o[2]>> \in {"update", "delete", "failed"} \X SUBSET AllPosts
  BY <1>2
<1>5. CASE /\ UNCHANGED <<rest, asking, alive, dead, monitor, pool>>
           /\ waitsFor' \subseteq waitsFor \cup {<<"failed", o[2]>>} /\ checked' \subseteq AllPosts
  BY <1>1, <1>3, <1>4, <1>5 DEF DelInv, DelTypeOK, PlacesOK
<1>6. checked \cup o[2] \subseteq AllPosts /\ checked \subseteq AllPosts
  BY <1>2 DEF DelInv, DelTypeOK
<1> QED
  BY <1>1, <1>5, <1>6 DEF NoteTime, NoteTimeFails, BulkDelete, WorkerDies

LEMMA DelNextOK ==
    ASSUME DelInv, DelNext
    PROVE  DelInv'
<1>1. CASE DropProxies \/ StoreProxies
  <2>1. changes' \in Nat
    BY <1>1, DelCounts DEF DropProxies, StoreProxies
  <2>2. /\ UNCHANGED <<gone, checked>> /\ UNCHANGED Round
        /\ UNCHANGED <<pool, delFaults>> /\ proxies' \in BOOLEAN
    BY <1>1 DEF DropProxies, StoreProxies
  <2> QED
    BY <2>1, <2>2 DEF DelInv, DelTypeOK, PlacesOK, Round
<1>2. CASE Finish
  BY <1>2 DEF Finish, DelInv, DelTypeOK, PlacesOK, World
<1>3. CASE MonitorDies
  <2>1. changes' \in Nat /\ delFaults' \in Nat
    BY <1>3, DelCounts DEF MonitorDies
  <2> QED
    BY <1>3, <2>1, RestartOK DEF MonitorDies
<1>4. CASE Raise
  <2>1. changes' \in Nat /\ delFaults' \in Nat
    BY <1>4 DEF Raise, DelInv, DelTypeOK
  <2> QED
    BY <1>4, <2>1, RestartOK DEF Raise
<1> QED
  BY <1>1, <1>2, <1>3, <1>4, WorldOK, LoadOK, TakeBatchOK, FetchOK, OrderUpdatesOK, TaskWorkOK
  DEF DelNext, MonitorWork

LEMMA DelInvInit ==
    ASSUME DelInit
    PROVE  DelInv
  BY DEF DelInit, DelInv, DelTypeOK, PlacesOK
-----------------------------------------------------------------------------
\* The invariant of the subreddits, whatever else the jobs do: nothing is asked of
\* the utility API for a sub that has no row.
THEOREM SubInvariant == Spec => []SubInv
<1>1. Init => SubInv
  BY SubInvInit DEF Init
<1>2. SubInv /\ [Next]_vars => SubInv'
  <2> SUFFICES ASSUME SubInv, [Next]_vars
               PROVE  SubInv'
    OBVIOUS
  <2>1. CASE SubNext
    BY <2>1, SubNextOK
  <2>2. CASE UNCHANGED subVars
    BY <2>2 DEF SubInv, SubTypeOK, AskedOK, subVars
  <2> QED
    BY <2>1, <2>2 DEF Next, vars, UpdateStatistics, VoteOnMemes, SaveSubreddits, CheckForDeletions
<1> QED
  BY <1>1, <1>2, PTL DEF Spec

\* The invariant of the monitor, whatever else the jobs do: no post found to be still
\* there is among those to be deleted, and a batch begins with nothing left over.
THEOREM DelInvariant == Spec => []DelInv
<1>1. Init => DelInv
  BY DelInvInit DEF Init
<1>2. DelInv /\ [Next]_vars => DelInv'
  <2> SUFFICES ASSUME DelInv, [Next]_vars
               PROVE  DelInv'
    OBVIOUS
  <2>1. CASE DelNext
    BY <2>1, DelNextOK
  <2>2. CASE UNCHANGED delVars
    BY <2>2 DEF DelInv, DelTypeOK, PlacesOK, delVars
  <2> QED
    BY <2>1, <2>2 DEF Next, vars, UpdateStatistics, VoteOnMemes, SaveSubreddits, CheckForDeletions
<1> QED
  BY <1>1, <1>2, PTL DEF Spec

PartOK == part \in {"statistics", "votes", "subreddits", "deletions"}

LEMMA PartInvariant == Spec => []PartOK
<1>1. Init => PartOK
  BY DEF Init, PartOK
<1>2. PartOK /\ [Next]_vars => PartOK'
  BY DEF PartOK, Next, vars, UpdateStatistics, VoteOnMemes, SaveSubreddits, CheckForDeletions
<1> QED
  BY <1>1, <1>2, PTL DEF Spec

\* Every part keeps the types of its state; in it: a row of the site's votes goes
\* with its votes, and a post of the monitor is either still there or to be deleted.
THEOREM HousekeepingTypeOK == Spec => []TypeOK
<1>1. CountInv /\ VoteInv /\ SubInv /\ DelInv /\ PartOK => TypeOK
  BY DEF CountInv, VoteInv, SubInv, DelInv, PartOK, TypeOK
<1> QED
  BY <1>1, CountInvariant, VoteInvariant, SubInvariant, DelInvariant, PartInvariant, PTL
=============================================================================
