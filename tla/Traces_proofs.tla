---------------------------- MODULE Traces_proofs ----------------------------
(***************************************************************************)
(* Proofs about frames and grids.                                          *)
(*                                                                         *)
(* The rows the host yields while the trace grows, and those of a trace    *)
(* cut short, are the oracle's of the finished trace, for every trace,     *)
(* chip, cadence and spacing of the host's calls.  A grid is said without  *)
(* its folds: row f holds, of each register, the last write of a frame up  *)
(* to f.  The frames of the raises go up, so that what comes after the     *)
(* writes of a frame changes no row before it, and the rows a host has     *)
(* yielded are those of the raises it has passed.                          *)
(*                                                                         *)
(* What is said of two grids is true of their cells, for all grids.  A     *)
(* scan has an entry of each lead, and its verdict is of one that no other *)
(* is later than.  The fold over rows and registers lists the cells that   *)
(* differ in their order, and the fold over these makes the runs longer by *)
(* a frame at a time.                                                      *)
(*                                                                         *)
(* A player's log is its registers, then in every frame those that change, *)
(* at clocks nearer to that frame's call than to any other.  So the last   *)
(* write of a register before a row is filled is of the last frame that    *)
(* changed it.                                                             *)
(***************************************************************************)
EXTENDS Traces, FiniteSetTheorems, SequenceTheorems, WellFoundedInduction, TLAPS

(* Induction, as sets.                                                     *)
LEMMA Induction ==
    ASSUME NEW S \in SUBSET Nat, 0 \in S, \A n \in S : n + 1 \in S
    PROVE  \A n \in Nat : n \in S
<1> SUFFICES ASSUME Nat \ S # {} PROVE FALSE
  OBVIOUS
<1> DEFINE less == OpToRel(<, Nat)
<1>1. \E n \in Nat \ S : \A k \in Nat \ S : <<k, n>> \notin less
  <2>1. IsWellFoundedOn(less, Nat)
    BY NatLessThanWellFounded, Zenon
  <2> HIDE DEF less
  <2> QED
    BY <2>1, WFMin
<1>2. PICK n \in Nat \ S : \A k \in Nat \ S : ~(k < n)
  BY <1>1 DEF OpToRel
<1> QED
  BY <1>2

-----------------------------------------------------------------------------
(* The folds.  FoldLeft recurs through the subsets of the indices, by the  *)
(* largest of each; what it comes to are the values after each element.    *)

LEMMA MaxTop ==
    ASSUME NEW n \in Nat, NEW S \in SUBSET (1..n), n \in S
    PROVE  Max(S) = n
<1>1. \A y \in S : y \in Int /\ n >= y
  OBVIOUS
<1>2. Max(S) \in S /\ \A y \in S : Max(S) >= y
  BY <1>1 DEF Max
<1>3. Max(S) \in Int /\ Max(S) >= n /\ n >= Max(S)
  BY <1>1, <1>2
<1> QED
  BY <1>3

LEMMA MaxAll ==
    ASSUME NEW n \in Nat, n # 0
    PROVE  Max(1..n) = n /\ (1..n) \ {n} = 1..(n - 1)
<1>1. Max(1..n) = n
  BY MaxTop
<1> QED
  BY <1>1

Raising(source, r) == r.chip = Irq /\ r.value = source
RaiseStep(source, cycles, r) == IF Raising(source, r) THEN Append(cycles, r.cycle) ELSE cycles
RaiseRun(h, source, rows, n) ==
    h = [k \in 0..n |-> IF k = 0 THEN <<>> ELSE RaiseStep(source, h[k - 1], rows[k])]
RaiseFold(f, source, rows, n) ==
    f = [S \in SUBSET (1..n) |->
            IF S = {} THEN <<>> ELSE RaiseStep(source, f[S \ {Max(S)}], rows[Max(S)])]

LEMMA RaiseFolds ==
    ASSUME NEW source, NEW rows, NEW n \in Nat
    PROVE  \E f : RaiseFold(f, source, rows, n)
<1> DEFINE N == {k \in Nat : \E f : RaiseFold(f, source, rows, k)}
<1>1. 0 \in N
  <2>1. RaiseFold([S \in SUBSET (1..0) |-> <<>>], source, rows, 0)
    BY DEF RaiseFold
  <2> QED
    BY <2>1
<1>2. ASSUME NEW k \in N PROVE k + 1 \in N
  <2>1. PICK f : RaiseFold(f, source, rows, k)
    OBVIOUS
  <2> DEFINE Body(g, S) == IF S = {} THEN <<>> ELSE RaiseStep(source, g[S \ {Max(S)}], rows[Max(S)])
             h == [S \in SUBSET (1..(k + 1)) |-> IF k + 1 \in S THEN Body(f, S) ELSE f[S]]
  <2>2. ASSUME NEW S \in SUBSET (1..(k + 1)) PROVE h[S] = Body(h, S)
    <3>1. CASE k + 1 \in S
      <4>1. Max(S) = k + 1
        BY <3>1, MaxTop
      <4>2. S \ {k + 1} \in SUBSET (1..(k + 1)) /\ k + 1 \notin S \ {k + 1}
        OBVIOUS
      <4>3. h[S \ {Max(S)}] = f[S \ {Max(S)}]
        BY <4>1, <4>2
      <4> QED
        BY <3>1, <4>3
    <3>2. CASE k + 1 \notin S
      <4>1. S \in SUBSET (1..k)
        BY <3>2
      <4>2. S \ {Max(S)} \in SUBSET (1..(k + 1)) /\ k + 1 \notin S \ {Max(S)}
        BY <3>2
      <4>3. h[S \ {Max(S)}] = f[S \ {Max(S)}]
        BY <4>2
      <4>4. f[S] = Body(f, S)
        BY <2>1, <4>1 DEF RaiseFold
      <4> QED
        BY <3>2, <4>3, <4>4
    <3> QED
      BY <3>1, <3>2
  <2>3. RaiseFold(h, source, rows, k + 1)
    BY <2>2 DEF RaiseFold
  <2> QED
    BY <2>3
<1> HIDE DEF N
<1>3. n \in N
  BY <1>1, <1>2, Induction DEF N
<1> QED
  BY <1>3 DEF N

(* The raises of the first k rows, for each k.                              *)
LEMMA RaiseRuns ==
    ASSUME NEW source, NEW rows, NEW n \in Nat, DOMAIN rows = 1..n
    PROVE  \E h : RaiseRun(h, source, rows, n) /\ raise_cycles(rows, source) = h[n]
<1> DEFINE it == CHOOSE f : RaiseFold(f, source, rows, n)
           h == [k \in 0..n |-> it[1..k]]
<1>1. RaiseFold(it, source, rows, n)
  BY RaiseFolds
<1>2. raise_cycles(rows, source) = it[1..n]
  BY DEF raise_cycles, FoldLeft, MapThenFoldSet, RaiseFold, RaiseStep, Raising
<1> HIDE DEF it
<1>3. ASSUME NEW k \in 0..n
      PROVE  h[k] = IF k = 0 THEN <<>> ELSE RaiseStep(source, h[k - 1], rows[k])
  <2>1. 1..k \in SUBSET (1..n)
    OBVIOUS
  <2>2. it[1..k] = IF 1..k = {} THEN <<>> ELSE RaiseStep(source, it[(1..k) \ {Max(1..k)}], rows[Max(1..k)])
    BY <1>1, <2>1 DEF RaiseFold
  <2>3. CASE k = 0
    BY <2>2, <2>3
  <2>4. CASE k # 0
    <3>1. k \in 1..k /\ k \in Nat /\ k - 1 \in 0..n
      BY <2>4
    <3>2. Max(1..k) = k /\ (1..k) \ {k} = 1..(k - 1)
      BY <2>4, <3>1, MaxAll
    <3> QED
      BY <2>2, <2>4, <3>1, <3>2
  <2> QED
    BY <2>3, <2>4
<1>4. RaiseRun(h, source, rows, n)
  BY <1>3 DEF RaiseRun
<1>5. h[n] = it[1..n]
  OBVIOUS
<1> HIDE DEF h
<1> QED
  BY <1>2, <1>4, <1>5

WriteRun(h, chip, base, rows, n) ==
    h = [k \in 0..n |-> IF k = 0 THEN base ELSE Wrote(chip, h[k - 1], rows[k])]
WriteFold(f, chip, base, rows, n) ==
    f = [S \in SUBSET (1..n) |->
            IF S = {} THEN base ELSE Wrote(chip, f[S \ {Max(S)}], rows[Max(S)])]

LEMMA WriteFolds ==
    ASSUME NEW chip, NEW base, NEW rows, NEW n \in Nat
    PROVE  \E f : WriteFold(f, chip, base, rows, n)
<1> DEFINE N == {k \in Nat : \E f : WriteFold(f, chip, base, rows, k)}
<1>1. 0 \in N
  <2>1. WriteFold([S \in SUBSET (1..0) |-> base], chip, base, rows, 0)
    BY DEF WriteFold
  <2> QED
    BY <2>1
<1>2. ASSUME NEW k \in N PROVE k + 1 \in N
  <2>1. PICK f : WriteFold(f, chip, base, rows, k)
    OBVIOUS
  <2> DEFINE Body(g, S) == IF S = {} THEN base ELSE Wrote(chip, g[S \ {Max(S)}], rows[Max(S)])
             h == [S \in SUBSET (1..(k + 1)) |-> IF k + 1 \in S THEN Body(f, S) ELSE f[S]]
  <2>2. ASSUME NEW S \in SUBSET (1..(k + 1)) PROVE h[S] = Body(h, S)
    <3>1. CASE k + 1 \in S
      <4>1. Max(S) = k + 1
        BY <3>1, MaxTop
      <4>2. S \ {k + 1} \in SUBSET (1..(k + 1)) /\ k + 1 \notin S \ {k + 1}
        OBVIOUS
      <4>3. h[S \ {Max(S)}] = f[S \ {Max(S)}]
        BY <4>1, <4>2
      <4> QED
        BY <3>1, <4>3
    <3>2. CASE k + 1 \notin S
      <4>1. S \in SUBSET (1..k)
        BY <3>2
      <4>2. S \ {Max(S)} \in SUBSET (1..(k + 1)) /\ k + 1 \notin S \ {Max(S)}
        BY <3>2
      <4>3. h[S \ {Max(S)}] = f[S \ {Max(S)}]
        BY <4>2
      <4>4. f[S] = Body(f, S)
        BY <2>1, <4>1 DEF WriteFold
      <4> QED
        BY <3>2, <4>3, <4>4
    <3> QED
      BY <3>1, <3>2
  <2>3. WriteFold(h, chip, base, rows, k + 1)
    BY <2>2 DEF WriteFold
  <2> QED
    BY <2>3
<1> HIDE DEF N
<1>3. n \in N
  BY <1>1, <1>2, Induction DEF N
<1> QED
  BY <1>3 DEF N

(* The registers after the first k rows.                                   *)
LEMMA WriteRuns ==
    ASSUME NEW chip, NEW base, NEW rows, NEW n \in Nat, DOMAIN rows = 1..n
    PROVE  \E h : WriteRun(h, chip, base, rows, n) /\ Applied(chip, base, rows) = h[n]
<1> DEFINE it == CHOOSE f : WriteFold(f, chip, base, rows, n)
           h == [k \in 0..n |-> it[1..k]]
<1>1. WriteFold(it, chip, base, rows, n)
  BY WriteFolds
<1>2. Applied(chip, base, rows) = it[1..n]
  BY DEF Applied, FoldLeft, MapThenFoldSet, WriteFold
<1> HIDE DEF it
<1>3. ASSUME NEW k \in 0..n
      PROVE  h[k] = IF k = 0 THEN base ELSE Wrote(chip, h[k - 1], rows[k])
  <2>1. 1..k \in SUBSET (1..n)
    OBVIOUS
  <2>2. it[1..k] = IF 1..k = {} THEN base ELSE Wrote(chip, it[(1..k) \ {Max(1..k)}], rows[Max(1..k)])
    BY <1>1, <2>1 DEF WriteFold
  <2>3. CASE k = 0
    BY <2>2, <2>3
  <2>4. CASE k # 0
    <3>1. k \in 1..k /\ k \in Nat /\ k - 1 \in 0..n
      BY <2>4
    <3>2. Max(1..k) = k /\ (1..k) \ {k} = 1..(k - 1)
      BY <2>4, <3>1, MaxAll
    <3> QED
      BY <2>2, <2>4, <3>1, <3>2
  <2> QED
    BY <2>3, <2>4
<1>4. WriteRun(h, chip, base, rows, n)
  BY <1>3 DEF WriteRun
<1>5. h[n] = it[1..n]
  OBVIOUS
<1> HIDE DEF h
<1> QED
  BY <1>2, <1>4, <1>5

NoRows == [rows |-> <<>>, row |-> Zero]
PutRun(h, framed, n) ==
    h = [k \in 0..n |-> IF k = 0 THEN NoRows ELSE Put(h[k - 1], framed[k])]
PutFold(f, framed, n) ==
    f = [S \in SUBSET (1..n) |->
            IF S = {} THEN NoRows ELSE Put(f[S \ {Max(S)}], framed[Max(S)])]

LEMMA PutFolds ==
    ASSUME NEW framed, NEW n \in Nat
    PROVE  \E f : PutFold(f, framed, n)
<1> DEFINE N == {k \in Nat : \E f : PutFold(f, framed, k)}
<1>1. 0 \in N
  <2>1. PutFold([S \in SUBSET (1..0) |-> NoRows], framed, 0)
    BY DEF PutFold
  <2> QED
    BY <2>1
<1>2. ASSUME NEW k \in N PROVE k + 1 \in N
  <2>1. PICK f : PutFold(f, framed, k)
    OBVIOUS
  <2> DEFINE Body(g, S) == IF S = {} THEN NoRows ELSE Put(g[S \ {Max(S)}], framed[Max(S)])
             h == [S \in SUBSET (1..(k + 1)) |-> IF k + 1 \in S THEN Body(f, S) ELSE f[S]]
  <2>2. ASSUME NEW S \in SUBSET (1..(k + 1)) PROVE h[S] = Body(h, S)
    <3>1. CASE k + 1 \in S
      <4>1. Max(S) = k + 1
        BY <3>1, MaxTop
      <4>2. S \ {k + 1} \in SUBSET (1..(k + 1)) /\ k + 1 \notin S \ {k + 1}
        OBVIOUS
      <4>3. h[S \ {Max(S)}] = f[S \ {Max(S)}]
        BY <4>1, <4>2
      <4> QED
        BY <3>1, <4>3
    <3>2. CASE k + 1 \notin S
      <4>1. S \in SUBSET (1..k)
        BY <3>2
      <4>2. S \ {Max(S)} \in SUBSET (1..(k + 1)) /\ k + 1 \notin S \ {Max(S)}
        BY <3>2
      <4>3. h[S \ {Max(S)}] = f[S \ {Max(S)}]
        BY <4>2
      <4>4. f[S] = Body(f, S)
        BY <2>1, <4>1 DEF PutFold
      <4> QED
        BY <3>2, <4>3, <4>4
    <3> QED
      BY <3>1, <3>2
  <2>3. PutFold(h, framed, k + 1)
    BY <2>2 DEF PutFold
  <2> QED
    BY <2>3
<1> HIDE DEF N
<1>3. n \in N
  BY <1>1, <1>2, Induction DEF N
<1> QED
  BY <1>3 DEF N

(* The rows, and the one being filled, after the first k writes.           *)
LEMMA PutRuns ==
    ASSUME NEW framed, NEW n \in Nat, DOMAIN framed = 1..n
    PROVE  \E h : PutRun(h, framed, n) /\ _frame_grid(framed) = Append(h[n].rows, h[n].row)
<1> DEFINE it == CHOOSE f : PutFold(f, framed, n)
           h == [k \in 0..n |-> it[1..k]]
<1>1. PutFold(it, framed, n)
  BY PutFolds
<1>2. _frame_grid(framed) = Append(it[1..n].rows, it[1..n].row)
  BY DEF _frame_grid, FoldLeft, MapThenFoldSet, PutFold, NoRows
<1> HIDE DEF it
<1>3. ASSUME NEW k \in 0..n
      PROVE  h[k] = IF k = 0 THEN NoRows ELSE Put(h[k - 1], framed[k])
  <2>1. 1..k \in SUBSET (1..n)
    OBVIOUS
  <2>2. it[1..k] = IF 1..k = {} THEN NoRows ELSE Put(it[(1..k) \ {Max(1..k)}], framed[Max(1..k)])
    BY <1>1, <2>1 DEF PutFold
  <2>3. CASE k = 0
    BY <2>2, <2>3
  <2>4. CASE k # 0
    <3>1. k \in 1..k /\ k \in Nat /\ k - 1 \in 0..n
      BY <2>4
    <3>2. Max(1..k) = k /\ (1..k) \ {k} = 1..(k - 1)
      BY <2>4, <3>1, MaxAll
    <3> QED
      BY <2>2, <2>4, <3>1, <3>2
  <2> QED
    BY <2>3, <2>4
<1>4. PutRun(h, framed, n)
  BY <1>3 DEF PutRun
<1>5. h[n] = it[1..n]
  OBVIOUS
<1> HIDE DEF h
<1> QED
  BY <1>2, <1>4, <1>5

-----------------------------------------------------------------------------
(* A trace, and what it raises.                                             *)

InOrder(rows, n) ==
    /\ DOMAIN rows = 1..n
    /\ \A j \in 1..n : rows[j].cycle \in Nat /\ \A i \in 1..j : rows[i].cycle <= rows[j].cycle

LEMMA RaiseSteps ==
    ASSUME NEW h, NEW source, NEW rows, NEW n \in Nat, RaiseRun(h, source, rows, n)
    PROVE  h[0] = <<>> /\ \A k \in 1..n : h[k] = RaiseStep(source, h[k - 1], rows[k])
<1>1. \A k \in 0..n : h[k] = IF k = 0 THEN <<>> ELSE RaiseStep(source, h[k - 1], rows[k])
  BY DEF RaiseRun
<1>2. 0 \in 0..n /\ \A k \in 1..n : k \in 0..n /\ k # 0
  OBVIOUS
<1> QED
  BY <1>1, <1>2

(* The rows of a part of a trace, after the first p.                        *)
PartOf(part, rows, p, c) == \A k \in 1..c : part[k] = rows[p + k]

(* The raises seen in a trace are those of a trace it begins.               *)
LEMMA RaisesBegin ==
    ASSUME NEW source, NEW rows, NEW n \in Nat, NEW h, RaiseRun(h, source, rows, n),
           NEW part, NEW c \in 0..n, NEW g, RaiseRun(g, source, part, c),
           PartOf(part, rows, 0, c)
    PROVE  \A k \in 0..c : g[k] = h[k]
<1> DEFINE N == {k \in Nat : k <= c => g[k] = h[k]}
<1>1. h[0] = <<>> /\ \A k \in 1..n : h[k] = RaiseStep(source, h[k - 1], rows[k])
  BY RaiseSteps
<1>2. g[0] = <<>> /\ \A k \in 1..c : g[k] = RaiseStep(source, g[k - 1], part[k])
  BY RaiseSteps
<1>3. 0 \in N
  BY <1>1, <1>2
<1>4. ASSUME NEW k \in N PROVE k + 1 \in N
  <2>1. SUFFICES ASSUME k + 1 <= c PROVE g[k + 1] = h[k + 1]
    OBVIOUS
  <2>2. /\ k + 1 \in 1..c /\ k + 1 \in 1..n /\ (k + 1) - 1 = k /\ 0 + (k + 1) = k + 1
        /\ g[k] = h[k]
    BY <2>1
  <2>3. part[k + 1] = rows[k + 1]
    BY <2>2 DEF PartOf
  <2> QED
    BY <1>1, <1>2, <2>2, <2>3
<1> HIDE DEF N
<1>5. \A k \in Nat : k \in N
  BY <1>3, <1>4, Induction DEF N
<1> QED
  BY <1>5 DEF N

LEMMA RaiseTypes ==
    ASSUME NEW source, NEW rows, NEW n \in Nat, InOrder(rows, n), NEW h, RaiseRun(h, source, rows, n)
    PROVE  \A k \in 0..n : h[k] \in Seq(Nat)
<1> DEFINE N == {k \in Nat : k <= n => h[k] \in Seq(Nat)}
<1>1. h[0] = <<>> /\ \A k \in 1..n : h[k] = RaiseStep(source, h[k - 1], rows[k])
  BY RaiseSteps
<1>2. 0 \in N
  <2>1. <<>> \in Seq(Nat)
    OBVIOUS
  <2> QED
    BY <1>1, <2>1
<1>3. ASSUME NEW k \in N PROVE k + 1 \in N
  <2>1. SUFFICES ASSUME k + 1 <= n PROVE h[k + 1] \in Seq(Nat)
    OBVIOUS
  <2>2. k + 1 \in 1..n /\ (k + 1) - 1 = k /\ h[k] \in Seq(Nat)
    BY <2>1
  <2>3. rows[k + 1].cycle \in Nat /\ h[k + 1] = RaiseStep(source, h[k], rows[k + 1])
    BY <1>1, <2>2 DEF InOrder
  <2> QED
    BY <2>2, <2>3 DEF RaiseStep
<1> HIDE DEF N
<1>4. \A k \in Nat : k \in N
  BY <1>2, <1>3, Induction DEF N
<1> QED
  BY <1>4 DEF N

(* Raises are only ever added.                                              *)
Begins(a, b) == Len(a) <= Len(b) /\ \A i \in 1..Len(a) : b[i] = a[i]

LEMMA RaisesGrow ==
    ASSUME NEW source, NEW rows, NEW n \in Nat, InOrder(rows, n), NEW h, RaiseRun(h, source, rows, n)
    PROVE  \A k \in 0..n : \A j \in 0..k : Begins(h[j], h[k])
<1> DEFINE N == {k \in Nat : k <= n => \A j \in 0..k : Begins(h[j], h[k])}
<1>1. h[0] = <<>> /\ \A k \in 1..n : h[k] = RaiseStep(source, h[k - 1], rows[k])
  BY RaiseSteps
<1>2. \A k \in 0..n : h[k] \in Seq(Nat)
  BY RaiseTypes
<1>3. 0 \in N
  <2>1. \A j \in 0..0 : j = 0
    OBVIOUS
  <2> QED
    BY <1>1, <2>1 DEF Begins
<1>4. ASSUME NEW k \in N PROVE k + 1 \in N
  <2>1. SUFFICES ASSUME k + 1 <= n, NEW j \in 0..(k + 1) PROVE Begins(h[j], h[k + 1])
    OBVIOUS
  <2>2. k \in 0..n /\ k + 1 \in 0..n /\ k + 1 \in 1..n /\ (k + 1) - 1 = k /\ j \in 0..n
    BY <2>1
  <2>3. h[k] \in Seq(Nat) /\ h[k + 1] \in Seq(Nat) /\ h[j] \in Seq(Nat)
    BY <1>2, <2>2
  <2>4. h[k + 1] = RaiseStep(source, h[k], rows[k + 1]) /\ rows[k + 1].cycle \in Nat
    BY <1>1, <2>2 DEF InOrder
  <2>5. Begins(h[k], h[k + 1])
    BY <2>3, <2>4 DEF RaiseStep, Begins
  <2>6. CASE j = k + 1
    BY <2>3, <2>6 DEF Begins
  <2>7. CASE j # k + 1
    <3>1. Begins(h[j], h[k])
      BY <2>1, <2>7
    <3> QED
      BY <2>3, <2>5, <3>1 DEF Begins
  <2> QED
    BY <2>6, <2>7
<1> HIDE DEF N
<1>5. \A k \in Nat : k \in N
  BY <1>3, <1>4, Induction DEF N
<1> QED
  BY <1>5 DEF N

(* The i-th raise of the first k rows is of row p.                          *)
RaisedAt(h, source, rows, k, i, p) ==
    /\ Raising(source, rows[p]) /\ h[k][i] = rows[p].cycle
    /\ Len(h[p]) = i /\ Len(h[p - 1]) = i - 1

(* Each raise is of a row, the only one after which there are so many.      *)
LEMMA RaiseRows ==
    ASSUME NEW source, NEW rows, NEW n \in Nat, InOrder(rows, n), NEW h, RaiseRun(h, source, rows, n)
    PROVE  \A k \in 0..n : \A i \in 1..Len(h[k]) : \E p \in 1..k : RaisedAt(h, source, rows, k, i, p)
<1> DEFINE Row(k, i, p) == RaisedAt(h, source, rows, k, i, p)
           N == {k \in Nat : k <= n => \A i \in 1..Len(h[k]) : \E p \in 1..k : Row(k, i, p)}
<1>1. h[0] = <<>> /\ \A k \in 1..n : h[k] = RaiseStep(source, h[k - 1], rows[k])
  BY RaiseSteps
<1>2. \A k \in 0..n : h[k] \in Seq(Nat)
  BY RaiseTypes
<1>3. 0 \in N
  BY <1>1
<1>4. ASSUME NEW k \in N PROVE k + 1 \in N
  <2> HIDE DEF Row
  <2>1. SUFFICES ASSUME k + 1 <= n, NEW i \in 1..Len(h[k + 1]) PROVE \E p \in 1..(k + 1) : Row(k + 1, i, p)
    OBVIOUS
  <2> USE DEF Row
  <2>2. k \in 0..n /\ k + 1 \in 0..n /\ k + 1 \in 1..n /\ (k + 1) - 1 = k
    BY <2>1
  <2>3. h[k] \in Seq(Nat) /\ h[k + 1] \in Seq(Nat)
    BY <1>2, <2>2
  <2>4. h[k + 1] = RaiseStep(source, h[k], rows[k + 1]) /\ rows[k + 1].cycle \in Nat
    BY <1>1, <2>2 DEF InOrder
  <2>5. CASE i \in 1..Len(h[k])
    <3>1. PICK p \in 1..k : Row(k, i, p)
      BY <2>1, <2>5
    <3>2. h[k + 1][i] = h[k][i]
      BY <2>3, <2>4, <2>5 DEF RaiseStep
    <3>3. p \in 1..(k + 1) /\ Row(k + 1, i, p)
      BY <3>1, <3>2 DEF RaisedAt
    <3> QED
      BY <3>3
  <2>6. CASE i \notin 1..Len(h[k])
    <3>1. /\ Raising(source, rows[k + 1]) /\ h[k + 1] = Append(h[k], rows[k + 1].cycle)
          /\ i = Len(h[k]) + 1
      BY <2>3, <2>4, <2>6 DEF RaiseStep
    <3>2. Row(k + 1, i, k + 1)
      BY <2>2, <2>3, <2>4, <3>1 DEF RaisedAt
    <3> QED
      BY <2>2, <3>2
  <2> QED
    BY <2>5, <2>6
<1> HIDE DEF N
<1>5. \A k \in Nat : k \in N
  BY <1>3, <1>4, Induction DEF N
<1> QED
  BY <1>5 DEF N

(* A raise seen later is of a later row.                                    *)
RaisedLater(h, source, rows, n, k) ==
    \A i \in (Len(h[k]) + 1)..Len(h[n]) :
        \E p \in (k + 1)..n : Raising(source, rows[p]) /\ h[n][i] = rows[p].cycle

(* Raises are in order, those of rows after the first k at or past theirs.  *)
LEMMA RaisesInOrder ==
    ASSUME NEW source, NEW rows, NEW n \in Nat, InOrder(rows, n), NEW h, RaiseRun(h, source, rows, n),
           NEW k \in 0..n
    PROVE  /\ \A i \in 1..Len(h[k]) : \A j \in 1..i : h[k][j] <= h[k][i]
           /\ \A i \in (Len(h[k]) + 1)..Len(h[n]) : \A j \in 1..k : rows[j].cycle <= h[n][i]
           /\ RaisedLater(h, source, rows, n, k)
<1> DEFINE Row(l, i, p) == RaisedAt(h, source, rows, l, i, p)
<1>1. \A l \in 0..n : h[l] \in Seq(Nat)
  BY RaiseTypes
<1>2. \A l \in 0..n : \A i \in 1..Len(h[l]) : \E p \in 1..l : Row(l, i, p)
  BY RaiseRows
<1>3. \A l \in 0..n : \A j \in 0..l : Begins(h[j], h[l])
  BY RaisesGrow
<1>4. \A l \in 0..n : Len(h[l]) \in Nat
  BY <1>1
<1>5. ASSUME NEW i \in 1..Len(h[k]), NEW j \in 1..i PROVE h[k][j] <= h[k][i]
  <2>1. j \in 1..Len(h[k]) /\ Len(h[k]) \in Nat
    BY <1>4
  <2>2. PICK p \in 1..k : Row(k, i, p)
    BY <1>2
  <2>3. PICK q \in 1..k : Row(k, j, q)
    BY <1>2, <2>1
  <2>4. q <= p
    <3> SUFFICES ASSUME q > p PROVE FALSE
      OBVIOUS
    <3>1. p \in 0..(q - 1) /\ q - 1 \in 0..n
      OBVIOUS
    <3>2. Len(h[p]) <= Len(h[q - 1])
      BY <1>3, <3>1 DEF Begins
    <3> QED
      BY <2>2, <2>3, <3>2 DEF RaisedAt
  <2>5. q \in 1..p /\ p \in 1..n
    BY <2>4
  <2>6. rows[q].cycle <= rows[p].cycle
    BY <2>5 DEF InOrder
  <2> QED
    BY <2>2, <2>3, <2>6 DEF RaisedAt
<1>6. ASSUME NEW i \in (Len(h[k]) + 1)..Len(h[n])
      PROVE  \E p \in (k + 1)..n : Raising(source, rows[p]) /\ h[n][i] = rows[p].cycle
  <2>1. i \in 1..Len(h[n]) /\ Len(h[k]) \in Nat /\ Len(h[n]) \in Nat
    BY <1>4
  <2>2. PICK p \in 1..n : Row(n, i, p)
    BY <1>2, <2>1
  <2>3. p > k
    <3> SUFFICES ASSUME p <= k PROVE FALSE
      OBVIOUS
    <3>1. Len(h[p]) <= Len(h[k])
      BY <1>3 DEF Begins
    <3> QED
      BY <2>1, <2>2, <3>1 DEF RaisedAt
  <2>4. p \in (k + 1)..n
    BY <2>3
  <2> QED
    BY <2>2, <2>4 DEF RaisedAt
<1>7. ASSUME NEW i \in (Len(h[k]) + 1)..Len(h[n]), NEW j \in 1..k PROVE rows[j].cycle <= h[n][i]
  <2>1. PICK p \in (k + 1)..n : h[n][i] = rows[p].cycle
    BY <1>6
  <2>2. p \in 1..n /\ j \in 1..p
    OBVIOUS
  <2> QED
    BY <2>1, <2>2 DEF InOrder
<1>8. RaisedLater(h, source, rows, n, k)
  BY <1>6 DEF RaisedLater
<1> QED
  BY <1>5, <1>7, <1>8

Silent(source, rows, j, k) == \A p \in (j + 1)..k : ~Raising(source, rows[p])

(* Rows that raise nothing.                                                 *)
LEMMA NoRaise ==
    ASSUME NEW source, NEW rows, NEW n \in Nat, NEW h, RaiseRun(h, source, rows, n),
           NEW j \in 0..n, NEW k \in j..n, Silent(source, rows, j, k)
    PROVE  h[k] = h[j]
<1> DEFINE N == {d \in Nat : j + d <= k => h[j + d] = h[j]}
<1>1. h[0] = <<>> /\ \A l \in 1..n : h[l] = RaiseStep(source, h[l - 1], rows[l])
  BY RaiseSteps
<1>2. 0 \in N
  OBVIOUS
<1>3. ASSUME NEW d \in N PROVE d + 1 \in N
  <2>1. SUFFICES ASSUME j + (d + 1) <= k PROVE h[j + (d + 1)] = h[j]
    OBVIOUS
  <2>2. j + d + 1 \in 1..n /\ (j + d + 1) - 1 = j + d /\ j + d + 1 \in (j + 1)..k /\ h[j + d] = h[j]
    BY <2>1
  <2>3. h[j + d + 1] = RaiseStep(source, h[j + d], rows[j + d + 1])
    BY <1>1, <2>2
  <2> QED
    BY <2>2, <2>3 DEF RaiseStep, Silent
<1> HIDE DEF N
<1>4. k - j \in Nat /\ j + (k - j) = k
  OBVIOUS
<1>5. k - j \in N
  BY <1>2, <1>3, <1>4, Induction DEF N
<1> QED
  BY <1>4, <1>5 DEF N

-----------------------------------------------------------------------------
(* The frames of the raises.                                                *)

Step(raises, cpf, n) == IF cpf = 0 THEN 1 ELSE Gap(raises[n - 1], raises[n], cpf)
FrameRun(f, raises, cpf, m) ==
    f = [n \in 1..m |-> IF n = 1 THEN 0 ELSE f[n - 1] + Step(raises, cpf, n)]

LEMMA FrameRuns ==
    ASSUME NEW raises, NEW cpf, NEW m \in Nat
    PROVE  \E f : FrameRun(f, raises, cpf, m)
<1> DEFINE N == {k \in Nat : \E f : FrameRun(f, raises, cpf, k)}
<1>1. 0 \in N
  <2>1. FrameRun([n \in 1..0 |-> 0], raises, cpf, 0)
    BY DEF FrameRun
  <2> QED
    BY <2>1
<1>2. ASSUME NEW k \in N PROVE k + 1 \in N
  <2>1. PICK f : FrameRun(f, raises, cpf, k)
    OBVIOUS
  <2> DEFINE g == [n \in 1..(k + 1) |->
                     IF n = k + 1 THEN (IF n = 1 THEN 0 ELSE f[n - 1] + Step(raises, cpf, n)) ELSE f[n]]
  <2>2. ASSUME NEW n \in 1..(k + 1) PROVE g[n] = IF n = 1 THEN 0 ELSE g[n - 1] + Step(raises, cpf, n)
    <3>1. CASE n = k + 1
      <4>1. n # 1 => n - 1 \in 1..(k + 1) /\ n - 1 # k + 1
        BY <3>1
      <4> QED
        BY <3>1, <4>1
    <3>2. CASE n # k + 1
      <4>1. n \in 1..k /\ (n # 1 => n - 1 \in 1..(k + 1) /\ n - 1 # k + 1)
        BY <3>2
      <4>2. f[n] = IF n = 1 THEN 0 ELSE f[n - 1] + Step(raises, cpf, n)
        BY <2>1, <4>1 DEF FrameRun
      <4> QED
        BY <3>2, <4>1, <4>2
    <3> QED
      BY <3>1, <3>2
  <2>3. g = [n \in 1..(k + 1) |-> g[n]]
    OBVIOUS
  <2> HIDE DEF g
  <2>4. FrameRun(g, raises, cpf, k + 1)
    BY <2>2, <2>3 DEF FrameRun
  <2> QED
    BY <2>4
<1> HIDE DEF N
<1>3. m \in N
  BY <1>1, <1>2, Induction DEF N
<1> QED
  BY <1>3 DEF N

LEMMA FramesRun ==
    ASSUME NEW raises, NEW cpf, NEW m \in Nat, DOMAIN raises = 1..m
    PROVE  FrameRun(_raise_frames(raises, cpf), raises, cpf, m)
<1> DEFINE f == CHOOSE g : FrameRun(g, raises, cpf, m)
<1>1. FrameRun(f, raises, cpf, m)
  BY FrameRuns
<1>2. _raise_frames(raises, cpf) = f
  BY DEF _raise_frames, FrameRun, Step
<1> QED
  BY <1>1, <1>2

LEMMA GapIs ==
    ASSUME NEW a \in Nat, NEW b \in Nat, NEW cpf \in Nat \ {0}
    PROVE  Gap(a, b, cpf) \in Nat \ {0}
<1>1. cpf \div 2 \in Int
  OBVIOUS
<1>2. b - a + (cpf \div 2) \in Int
  BY <1>1
<1> DEFINE x == b - a + (cpf \div 2)
<1> HIDE DEF x
<1>3. x \div cpf \in Int
  BY <1>2 DEF x
<1> QED
  BY <1>3 DEF Gap, Largest, x

(* Frames are counted from 0 and go up.                                     *)
LEMMA FramesGoUp ==
    ASSUME NEW m \in Nat, NEW raises, DOMAIN raises = 1..m, \A i \in 1..m : raises[i] \in Nat,
           NEW cpf \in Nat \ {0}
    PROVE  LET F == _raise_frames(raises, cpf)
           IN  /\ \A i \in 1..m : F[i] \in Nat
               /\ m # 0 => F[1] = 0
               /\ \A i \in 1..m : \A j \in 1..(i - 1) : F[j] < F[i]
               /\ \A i \in 2..m : F[i] = F[i - 1] + Gap(raises[i - 1], raises[i], cpf)
<1> DEFINE F == _raise_frames(raises, cpf)
<1>1. FrameRun(F, raises, cpf, m)
  BY FramesRun
<1> HIDE DEF F
<1>2. m # 0 => F[1] = 0
  <2>1. m # 0 => 1 \in 1..m
    OBVIOUS
  <2> QED
    BY <1>1, <2>1 DEF FrameRun
<1>3. ASSUME NEW i \in 2..m
      PROVE  F[i] = F[i - 1] + Gap(raises[i - 1], raises[i], cpf) /\ Gap(raises[i - 1], raises[i], cpf) \in Nat \ {0}
  <2>1. i \in 1..m /\ i # 1 /\ i - 1 \in 1..m
    OBVIOUS
  <2>2. F[i] = F[i - 1] + Step(raises, cpf, i)
    BY <1>1, <2>1 DEF FrameRun
  <2>3. raises[i - 1] \in Nat /\ raises[i] \in Nat
    BY <2>1
  <2> QED
    BY <2>2, <2>3, GapIs DEF Step
<1> DEFINE N == {k \in Nat : k <= m => \A i \in 1..k : F[i] \in Nat /\ \A j \in 1..(i - 1) : F[j] < F[i]}
<1>4. 0 \in N
  OBVIOUS
<1>5. ASSUME NEW k \in N PROVE k + 1 \in N
  <2>1. SUFFICES ASSUME k + 1 <= m, NEW i \in 1..(k + 1)
                 PROVE  F[i] \in Nat /\ \A j \in 1..(i - 1) : F[j] < F[i]
    OBVIOUS
  <2>2. \A l \in 1..k : F[l] \in Nat /\ \A j \in 1..(l - 1) : F[j] < F[l]
    BY <2>1
  <2>3. CASE i \in 1..k
    BY <2>2, <2>3
  <2>4. CASE i = k + 1 /\ k = 0
    BY <1>2, <2>1, <2>4
  <2>5. CASE i = k + 1 /\ k # 0
    <3>1. k \in 1..k /\ i \in 2..m /\ i - 1 = k
      BY <2>1, <2>5
    <3>2. F[i] = F[k] + Gap(raises[k], raises[i], cpf) /\ Gap(raises[k], raises[i], cpf) \in Nat \ {0}
      BY <1>3, <3>1
    <3>3. F[k] \in Nat /\ \A j \in 1..(k - 1) : F[j] < F[k] /\ F[j] \in Nat
      BY <2>2, <3>1
    <3>4. F[i] \in Nat /\ F[k] < F[i]
      BY <3>2, <3>3
    <3>5. ASSUME NEW j \in 1..k PROVE F[j] < F[i]
      <4>1. CASE j = k
        BY <3>4, <4>1
      <4>2. CASE j # k
        <5>1. j \in 1..(k - 1)
          BY <4>2
        <5> QED
          BY <3>3, <3>4, <5>1
      <4> QED
        BY <4>1, <4>2
    <3> QED
      BY <3>1, <3>4, <3>5
  <2> QED
    BY <2>3, <2>4, <2>5
<1> HIDE DEF N
<1>6. m \in N
  BY <1>4, <1>5, Induction DEF N
<1>7. \A i \in 1..m : F[i] \in Nat /\ \A j \in 1..(i - 1) : F[j] < F[i]
  BY <1>6 DEF N
<1> QED
  BY <1>2, <1>3, <1>7 DEF F

(* The frames of raises that others begin with.                             *)
LEMMA FramesBegin ==
    ASSUME NEW m \in Nat, NEW raises, DOMAIN raises = 1..m, NEW cpf,
           NEW c \in 0..m, NEW part, DOMAIN part = 1..c, \A i \in 1..c : part[i] = raises[i]
    PROVE  \A i \in 1..c : _raise_frames(part, cpf)[i] = _raise_frames(raises, cpf)[i]
<1> DEFINE F == _raise_frames(raises, cpf)
           G == _raise_frames(part, cpf)
           N == {k \in Nat : k \in 1..c => G[k] = F[k]}
<1>1. FrameRun(F, raises, cpf, m) /\ FrameRun(G, part, cpf, c)
  BY FramesRun
<1> HIDE DEF F, G
<1>2. 0 \in N
  OBVIOUS
<1>3. ASSUME NEW k \in N PROVE k + 1 \in N
  <2>1. SUFFICES ASSUME k + 1 \in 1..c PROVE G[k + 1] = F[k + 1]
    OBVIOUS
  <2>2. k + 1 \in 1..m /\ (k + 1) - 1 = k
    BY <2>1
  <2>3. /\ F[k + 1] = IF k + 1 = 1 THEN 0 ELSE F[k] + Step(raises, cpf, k + 1)
        /\ G[k + 1] = IF k + 1 = 1 THEN 0 ELSE G[k] + Step(part, cpf, k + 1)
    BY <1>1, <2>1, <2>2 DEF FrameRun
  <2>4. CASE k = 0
    BY <2>3, <2>4
  <2>5. CASE k # 0
    <3>1. k \in 1..c /\ G[k] = F[k]
      BY <2>1, <2>5
    <3>2. Step(part, cpf, k + 1) = Step(raises, cpf, k + 1)
      BY <2>1, <2>2, <3>1 DEF Step
    <3> QED
      BY <2>3, <2>5, <3>1, <3>2
  <2> QED
    BY <2>4, <2>5
<1> HIDE DEF N
<1>4. \A k \in Nat : k \in N
  BY <1>2, <1>3, Induction DEF N
<1> QED
  BY <1>4 DEF N, F, G

(* Indices that are all those up to some index are as many.                 *)
LEMMA Initial ==
    ASSUME NEW n \in Nat, NEW S \in SUBSET (1..n), \A i \in S : \A j \in 1..i : j \in S
    PROVE  Cardinality(S) \in 0..n /\ S = 1..Cardinality(S)
<1> DEFINE N == {k \in Nat : k <= n /\ S \subseteq 1..k => \E i \in 0..k : S = 1..i}
<1>1. 0 \in N
  <2>1. S \subseteq 1..0 => S = 1..0 /\ 0 \in 0..0
    OBVIOUS
  <2> QED
    BY <2>1
<1>2. ASSUME NEW k \in N PROVE k + 1 \in N
  <2>1. SUFFICES ASSUME k + 1 <= n, S \subseteq 1..(k + 1) PROVE \E i \in 0..(k + 1) : S = 1..i
    OBVIOUS
  <2>2. CASE k + 1 \in S
    <3>1. S = 1..(k + 1)
      BY <2>1, <2>2
    <3> QED
      BY <3>1
  <2>3. CASE k + 1 \notin S
    <3>1. S \subseteq 1..k /\ k <= n
      BY <2>1, <2>3
    <3>2. PICK i \in 0..k : S = 1..i
      BY <3>1
    <3>3. i \in 0..(k + 1)
      OBVIOUS
    <3> QED
      BY <3>2, <3>3
  <2> QED
    BY <2>2, <2>3
<1> HIDE DEF N
<1>3. n \in N
  BY <1>1, <1>2, Induction DEF N
<1>4. PICK i \in 0..n : S = 1..i
  BY <1>3 DEF N
<1>5. Cardinality(1..i) = i
  BY FS_Interval
<1> QED
  BY <1>4, <1>5

(* Raises in order, and the frame of a cycle.                               *)
Ordered(raises, m) ==
    /\ DOMAIN raises = 1..m
    /\ \A i \in 1..m : raises[i] \in Nat /\ \A j \in 1..i : raises[j] <= raises[i]

LEMMA RaisesUpTo ==
    ASSUME NEW m \in Nat, NEW raises, Ordered(raises, m), NEW c \in Nat
    PROVE  LET i == Cardinality({n \in DOMAIN raises : raises[n] <= c})
           IN  i \in 0..m /\ \A j \in 1..m : j <= i <=> raises[j] <= c
<1> DEFINE S == {n \in DOMAIN raises : raises[n] <= c}
<1>1. S \in SUBSET (1..m)
  BY DEF Ordered
<1>2. ASSUME NEW i \in S, NEW j \in 1..i PROVE j \in S
  <2>1. i \in 1..m /\ raises[i] <= c
    BY DEF Ordered
  <2>2. j \in 1..m /\ raises[j] <= raises[i] /\ raises[j] \in Nat /\ raises[i] \in Nat
    BY <2>1 DEF Ordered
  <2> QED
    BY <2>1, <2>2 DEF Ordered
<1>3. \A j \in 1..m : j \in S <=> raises[j] <= c
  BY DEF Ordered
<1> HIDE DEF S
<1>4. Cardinality(S) \in 0..m /\ S = 1..Cardinality(S)
  BY <1>1, <1>2, Initial
<1>5. \A j \in 1..m : j <= Cardinality(S) <=> j \in S
  BY <1>4
<1>6. \A j \in 1..m : j <= Cardinality(S) <=> raises[j] <= c
  BY <1>3, <1>5
<1> QED
  BY <1>4, <1>6 DEF S

(* The frame of a cycle is at or past a raise's as the cycle is.            *)
LEMMA FrameOf ==
    ASSUME NEW m \in Nat, NEW raises, Ordered(raises, m), NEW cpf \in Nat \ {0}, NEW c \in Nat
    PROVE  LET F == _raise_frames(raises, cpf)
           IN  /\ frame_of(raises, F, c) \in Int
               /\ \A i \in 1..m : raises[i] <= c => F[i] <= frame_of(raises, F, c)
               /\ \A i \in 1..m : raises[i] > c => F[i] > frame_of(raises, F, c)
<1> DEFINE F == _raise_frames(raises, cpf)
           i == Cardinality({n \in DOMAIN raises : raises[n] <= c})
<1>1. i \in 0..m /\ \A j \in 1..m : j <= i <=> raises[j] <= c
  BY RaisesUpTo
<1>2. /\ \A k \in 1..m : F[k] \in Nat
      /\ \A k \in 1..m : \A j \in 1..(k - 1) : F[j] < F[k]
  BY FramesGoUp DEF Ordered
<1>3. frame_of(raises, F, c) = IF i = 0 THEN -1 ELSE F[i]
  BY DEF frame_of
<1>4. \A k \in 1..m : raises[k] \in Nat
  BY DEF Ordered
<1> HIDE DEF i, F
<1>5. i # 0 => i \in 1..m
  BY <1>1
<1>6. frame_of(raises, F, c) \in Int
  BY <1>2, <1>3, <1>5
<1>7. ASSUME NEW k \in 1..m, raises[k] <= c PROVE F[k] <= frame_of(raises, F, c)
  <2>1. k <= i /\ i # 0 /\ i \in 1..m
    BY <1>1, <1>5, <1>7
  <2>2. CASE k = i
    BY <1>2, <1>3, <2>1, <2>2
  <2>3. CASE k # i
    <3>1. k \in 1..(i - 1)
      BY <2>1, <2>3
    <3>2. F[k] < F[i] /\ F[k] \in Nat /\ F[i] \in Nat
      BY <1>2, <2>1, <3>1
    <3> QED
      BY <1>3, <2>1, <3>2
  <2> QED
    BY <2>2, <2>3
<1>8. ASSUME NEW k \in 1..m, raises[k] > c PROVE F[k] > frame_of(raises, F, c)
  <2>1. ~(raises[k] <= c)
    BY <1>4, <1>8
  <2>2. ~(k <= i) /\ F[k] \in Nat
    BY <1>1, <1>2, <2>1
  <2>3. CASE i = 0
    BY <1>3, <2>2, <2>3
  <2>4. CASE i # 0
    <3>1. i \in 1..(k - 1) /\ i \in 1..m
      BY <1>1, <2>2, <2>4
    <3>2. F[i] < F[k] /\ F[i] \in Nat
      BY <1>2, <3>1
    <3> QED
      BY <1>3, <2>2, <2>4, <3>2
  <2> QED
    BY <2>3, <2>4
<1> QED
  BY <1>6, <1>7, <1>8 DEF F

(* Later cycles have no earlier frames.                                     *)
LEMMA FrameOfMonotone ==
    ASSUME NEW m \in Nat, NEW raises, Ordered(raises, m), NEW cpf \in Nat \ {0},
           NEW c \in Nat, NEW d \in Nat, c <= d
    PROVE  LET F == _raise_frames(raises, cpf) IN frame_of(raises, F, c) <= frame_of(raises, F, d)
<1> DEFINE F == _raise_frames(raises, cpf)
           i == Cardinality({n \in DOMAIN raises : raises[n] <= c})
           k == Cardinality({n \in DOMAIN raises : raises[n] <= d})
<1>1. i \in 0..m /\ \A j \in 1..m : j <= i <=> raises[j] <= c
  BY RaisesUpTo
<1>2. k \in 0..m
  BY RaisesUpTo
<1>3. frame_of(raises, F, c) = IF i = 0 THEN -1 ELSE F[i]
  BY DEF frame_of
<1>4. frame_of(raises, F, d) = IF k = 0 THEN -1 ELSE F[k]
  BY DEF frame_of
<1>5. /\ \A j \in 1..m : F[j] \in Nat
      /\ \A j \in 1..m : raises[j] \in Nat
  BY FramesGoUp DEF Ordered
<1>6. \A j \in 1..m : raises[j] <= d => F[j] <= frame_of(raises, F, d)
  BY FrameOf
<1> HIDE DEF i, k, F
<1> SUFFICES frame_of(raises, F, c) <= frame_of(raises, F, d)
  BY DEF F
<1>7. CASE i = 0
  <2>1. k # 0 => k \in 1..m
    BY <1>2
  <2> QED
    BY <1>3, <1>4, <1>5, <1>7, <2>1
<1>8. CASE i # 0
  <2>1. i \in 1..m /\ raises[i] <= c
    BY <1>1, <1>8
  <2>2. raises[i] <= d
    BY <1>5, <2>1
  <2> QED
    BY <1>3, <1>6, <1>8, <2>1, <2>2
<1> QED
  BY <1>7, <1>8

-----------------------------------------------------------------------------
(* The rows of a grid.                                                      *)

(* Writes already in the order of their frames are left as they are.        *)
LEMMA SortedIs ==
    ASSUME NEW n \in Nat, NEW framed, framed = [k \in 1..n |-> framed[k]],
           \A k \in 1..n : framed[k].frame \in Int /\ \A j \in 1..k : framed[j].frame <= framed[k].frame
    PROVE  Sorted(framed) = framed
<1> DEFINE Before(m, k) == \/ framed[m].frame < framed[k].frame
                           \/ framed[m].frame = framed[k].frame /\ m < k
           Earlier(k) == {m \in DOMAIN framed : Before(m, k)}
<1>1. DOMAIN framed = 1..n
  OBVIOUS
<1>2. ASSUME NEW k \in 1..n PROVE Cardinality(Earlier(k)) = k - 1
  <2>1. \A m \in 1..n : Before(m, k) <=> m < k
    <3>1. ASSUME NEW m \in 1..n, m < k PROVE Before(m, k)
      <4>1. m \in 1..k /\ framed[m].frame <= framed[k].frame /\ framed[m].frame \in Int /\ framed[k].frame \in Int
        BY <3>1
      <4> QED
        BY <3>1, <4>1
    <3>2. ASSUME NEW m \in 1..n, ~(m < k) PROVE ~Before(m, k)
      <4>1. k \in 1..m /\ framed[k].frame <= framed[m].frame /\ framed[m].frame \in Int /\ framed[k].frame \in Int
        BY <3>2
      <4> QED
        BY <3>2, <4>1
    <3> QED
      BY <3>1, <3>2
  <2>2. Earlier(k) = 1..(k - 1)
    BY <1>1, <2>1
  <2>3. Cardinality(1..(k - 1)) = k - 1
    BY FS_Interval
  <2> QED
    BY <2>2, <2>3
<1>3. ASSUME NEW k \in 1..n
      PROVE  (CHOOSE m \in DOMAIN framed : Cardinality(Earlier(m)) = k - 1) = k
  <2>1. k \in DOMAIN framed /\ Cardinality(Earlier(k)) = k - 1
    BY <1>1, <1>2
  <2>2. \A m \in DOMAIN framed : Cardinality(Earlier(m)) = k - 1 => m = k
    <3>1. ASSUME NEW m \in 1..n, m - 1 = k - 1 PROVE m = k
      BY <3>1
    <3> QED
      BY <1>1, <1>2, <3>1
  <2> HIDE DEF Earlier
  <2> QED
    BY <2>1, <2>2
<1>4. Sorted(framed) = [k \in DOMAIN framed |->
                          framed[CHOOSE m \in DOMAIN framed : Cardinality(Earlier(m)) = k - 1]]
  BY DEF Sorted
<1> HIDE DEF Earlier
<1>5. Sorted(framed) = [k \in 1..n |-> framed[k]]
  BY <1>1, <1>3, <1>4
<1> QED
  BY <1>5

LEMMA AsSequence ==
    ASSUME NEW n \in Nat, NEW f, f = [k \in 1..n |-> f[k]]
    PROVE  <<>> \o f = f
<1> DEFINE S == {f[k] : k \in 1..n}
<1>1. f \in [1..n -> S]
  OBVIOUS
<1> HIDE DEF S
<1>2. f \in Seq(S)
  BY <1>1
<1> QED
  BY <1>2, ConcatEmptySeq

Counts(w) == w.reg \in Registers
FramedInOrder(framed, n) ==
    \A k \in 1..n : framed[k].frame \in Int /\ \A j \in 1..k : framed[j].frame <= framed[k].frame

(* Row j of a grid: what the writes of the frames before j leave.           *)
AtRow(h, framed, n, j, r) ==
    \E i \in 0..n : /\ r = h[i].row
                    /\ \A l \in 1..i : Counts(framed[l]) => framed[l].frame < j
                    /\ \A l \in (i + 1)..n : Counts(framed[l]) => framed[l].frame >= j

PutOK(h, framed, n, k) ==
    /\ h[k].rows \in Seq({h[i].row : i \in 0..n})
    /\ \A l \in 1..k : Counts(framed[l]) => framed[l].frame <= Len(h[k].rows)
    /\ \A j \in 1..Len(h[k].rows) : AtRow(h, framed, n, j, h[k].rows[j])

LEMMA PutSteps ==
    ASSUME NEW h, NEW framed, NEW n \in Nat, PutRun(h, framed, n)
    PROVE  h[0] = NoRows /\ \A k \in 1..n : h[k] = Put(h[k - 1], framed[k])
<1>1. \A k \in 0..n : h[k] = IF k = 0 THEN NoRows ELSE Put(h[k - 1], framed[k])
  BY DEF PutRun
<1>2. 0 \in 0..n /\ \A k \in 1..n : k \in 0..n /\ k # 0
  OBVIOUS
<1> QED
  BY <1>1, <1>2

LEMMA PutFills ==
    ASSUME NEW g, NEW w, Counts(w)
    PROVE  Put(g, w).rows = g.rows \o [i \in 1..Largest(w.frame - Len(g.rows), 0) |-> g.row]
  BY DEF Put, Counts

LEMMA PutNext ==
    ASSUME NEW n \in Nat, NEW framed, FramedInOrder(framed, n), NEW h, PutRun(h, framed, n),
           NEW k \in 0..n, k + 1 <= n, PutOK(h, framed, n, k)
    PROVE  PutOK(h, framed, n, k + 1)
<1> DEFINE R == {h[i].row : i \in 0..n}
           w == framed[k + 1]
           g == h[k]
           fill == [i \in 1..Largest(w.frame - Len(g.rows), 0) |-> g.row]
<1>1. h[k + 1] = Put(g, w) /\ w.frame \in Int /\ k + 1 \in 1..n
  BY PutSteps DEF FramedInOrder
<1>2. g.rows \in Seq(R) /\ g.row \in R /\ Len(g.rows) \in Nat
  BY DEF PutOK
<1>3. CASE ~Counts(w)
  <2>1. h[k + 1].rows = g.rows
    BY <1>1, <1>3 DEF Put, Counts
  <2>2. \A l \in 1..(k + 1) : l \in 1..k \/ l = k + 1
    OBVIOUS
  <2> QED
    BY <1>3, <2>1, <2>2 DEF PutOK
<1>4. CASE Counts(w)
  <2> DEFINE d == Largest(w.frame - Len(g.rows), 0)
  <2>1. d \in Nat /\ Len(g.rows) + d >= w.frame /\ (d # 0 => Len(g.rows) + d = w.frame)
    BY <1>1, <1>2 DEF Largest
  <2>2. h[k + 1].rows = g.rows \o fill
    BY <1>1, <1>4, PutFills
  <2> HIDE DEF d
  <2>3. fill = [i \in 1..d |-> g.row]
    BY DEF d
  <2> HIDE DEF fill, R
  <2>4. fill \in Seq(R) /\ Len(fill) = d
    BY <1>2, <2>1, <2>3
  <2>5. /\ h[k + 1].rows \in Seq(R) /\ Len(h[k + 1].rows) = Len(g.rows) + d
        /\ \A j \in 1..(Len(g.rows) + d) :
              h[k + 1].rows[j] = IF j <= Len(g.rows) THEN g.rows[j] ELSE fill[j - Len(g.rows)]
    <3> DEFINE old == g.rows
               new == h[k + 1].rows
    <3>1. old \in Seq(R) /\ new = old \o fill
      BY <1>2, <2>2
    <3> HIDE DEF old, new, g
    <3>2. /\ new \in Seq(R) /\ Len(new) = Len(old) + Len(fill)
          /\ \A j \in 1..(Len(old) + Len(fill)) :
                new[j] = IF j <= Len(old) THEN old[j] ELSE fill[j - Len(old)]
      BY <2>4, <3>1, ConcatProperties
    <3> QED
      BY <2>4, <3>2 DEF old, new
  <2>6. ASSUME NEW l \in 1..(k + 1), Counts(framed[l]) PROVE framed[l].frame <= Len(g.rows) + d
    <3>1. CASE l = k + 1
      BY <2>1, <3>1
    <3>2. CASE l # k + 1
      <4>1. l \in 1..k /\ l \in 1..n
        BY <3>2
      <4>2. framed[l].frame <= Len(g.rows) /\ framed[l].frame \in Int
        BY <2>6, <4>1 DEF PutOK, FramedInOrder
      <4> QED
        BY <1>2, <2>1, <4>2
    <3> QED
      BY <3>1, <3>2
  <2>7. ASSUME NEW j \in 1..(Len(g.rows) + d) PROVE AtRow(h, framed, n, j, h[k + 1].rows[j])
    <3>1. CASE j <= Len(g.rows)
      BY <1>2, <2>1, <2>5, <3>1 DEF PutOK
    <3>2. CASE ~(j <= Len(g.rows))
      <4>1. j - Len(g.rows) \in 1..d /\ j \in Nat
        BY <1>2, <2>1, <3>2
      <4>2. h[k + 1].rows[j] = h[k].row
        BY <2>3, <2>5, <3>2, <4>1
      <4>3. ASSUME NEW l \in 1..k, Counts(framed[l]) PROVE framed[l].frame < j
        <5>1. framed[l].frame <= Len(g.rows) /\ framed[l].frame \in Int
          BY <4>3 DEF PutOK, FramedInOrder
        <5> QED
          BY <1>2, <3>2, <5>1
      <4>4. ASSUME NEW l \in (k + 1)..n PROVE framed[l].frame >= j
        <5>1. w.frame <= framed[l].frame /\ framed[l].frame \in Int
          BY <1>1 DEF FramedInOrder
        <5>2. w.frame >= j
          BY <1>1, <1>2, <2>1, <4>1
        <5> QED
          BY <1>1, <4>1, <5>1, <5>2
      <4> QED
        BY <4>2, <4>3, <4>4 DEF AtRow
    <3> QED
      BY <3>1, <3>2
  <2> QED
    BY <2>5, <2>6, <2>7 DEF PutOK, R
<1> QED
  BY <1>3, <1>4

LEMMA PutRows ==
    ASSUME NEW n \in Nat, NEW framed, FramedInOrder(framed, n), NEW h, PutRun(h, framed, n)
    PROVE  PutOK(h, framed, n, n)
<1> DEFINE N == {k \in Nat : k <= n => PutOK(h, framed, n, k)}
<1>1. 0 \in N
  <2>1. h[0].rows = <<>>
    BY PutSteps DEF NoRows
  <2>2. <<>> \in Seq({h[i].row : i \in 0..n}) /\ Len(<<>>) = 0
    OBVIOUS
  <2>3. /\ \A l \in 1..0 : Counts(framed[l]) => framed[l].frame <= Len(h[0].rows)
        /\ \A j \in 1..0 : AtRow(h, framed, n, j, h[0].rows[j])
    OBVIOUS
  <2>4. PutOK(h, framed, n, 0)
    BY <2>1, <2>2, <2>3 DEF PutOK
  <2> QED
    BY <2>4
<1>2. ASSUME NEW k \in N PROVE k + 1 \in N
  <2>1. SUFFICES ASSUME k + 1 <= n PROVE PutOK(h, framed, n, k + 1)
    OBVIOUS
  <2>2. k \in 0..n /\ PutOK(h, framed, n, k)
    BY <2>1
  <2> QED
    BY <2>1, <2>2, PutNext
<1> HIDE DEF N
<1>3. n \in N
  BY <1>1, <1>2, Induction DEF N
<1> QED
  BY <1>3 DEF N

LEMMA GridRows ==
    ASSUME NEW n \in Nat, NEW framed, DOMAIN framed = 1..n, FramedInOrder(framed, n)
    PROVE  \E h : /\ PutRun(h, framed, n)
                  /\ LET grid == _frame_grid(framed)
                     IN  /\ \A j \in Nat \ {0} : AtRow(h, framed, n, j, Filled(grid, j))
                         /\ grid[Len(grid)] = h[n].row
<1>1. PICK h : PutRun(h, framed, n) /\ _frame_grid(framed) = Append(h[n].rows, h[n].row)
  BY PutRuns
<1> DEFINE R == {h[i].row : i \in 0..n}
           rows == h[n].rows
           row == h[n].row
<1>2. PutOK(h, framed, n, n)
  BY <1>1, PutRows
<1>3. rows \in Seq(R) /\ row \in R
  BY <1>2 DEF PutOK
<1> DEFINE grid == Append(rows, row)
<1> HIDE DEF R
<1>4. /\ Len(rows) \in Nat /\ Len(grid) = Len(rows) + 1 /\ grid[Len(rows) + 1] = row
      /\ \A j \in 1..Len(rows) : grid[j] = rows[j]
  BY <1>3
<1> HIDE DEF grid
<1>5. ASSUME NEW j \in Nat \ {0} PROVE AtRow(h, framed, n, j, Filled(grid, j))
  <2>1. CASE j <= Len(rows)
    <3>1. j \in 1..Len(rows) /\ Filled(grid, j) = rows[j]
      BY <1>4, <2>1 DEF Filled
    <3> QED
      BY <1>2, <3>1 DEF PutOK
  <2>2. CASE ~(j <= Len(rows))
    <3>1. Filled(grid, j) = row
      BY <1>4, <2>2 DEF Filled
    <3>2. ASSUME NEW l \in 1..n, Counts(framed[l]) PROVE framed[l].frame < j
      <4>1. framed[l].frame <= Len(rows) /\ framed[l].frame \in Int
        BY <1>2, <3>2 DEF PutOK, FramedInOrder
      <4> QED
        BY <1>4, <2>2, <4>1
    <3>3. n \in 0..n /\ (n + 1)..n = {}
      OBVIOUS
    <3> QED
      BY <3>1, <3>2, <3>3 DEF AtRow
  <2> QED
    BY <2>1, <2>2
<1> QED
  BY <1>1, <1>4, <1>5 DEF grid

-----------------------------------------------------------------------------
(* The registers of a chip as a trace is applied to them.                   *)

LEMMA WriteSteps ==
    ASSUME NEW h, NEW chip, NEW base, NEW rows, NEW n \in Nat, WriteRun(h, chip, base, rows, n)
    PROVE  h[0] = base /\ \A k \in 1..n : h[k] = Wrote(chip, h[k - 1], rows[k])
<1>1. \A k \in 0..n : h[k] = IF k = 0 THEN base ELSE Wrote(chip, h[k - 1], rows[k])
  BY DEF WriteRun
<1>2. 0 \in 0..n /\ \A k \in 1..n : k \in 0..n /\ k # 0
  OBVIOUS
<1> QED
  BY <1>1, <1>2

(* A part of a trace, applied to what the rows before it leave.             *)
LEMMA WritesGoOn ==
    ASSUME NEW chip, NEW base, NEW rows, NEW n \in Nat, NEW h, WriteRun(h, chip, base, rows, n),
           NEW p \in 0..n, NEW c \in Nat, p + c <= n, NEW part, NEW g, WriteRun(g, chip, h[p], part, c),
           PartOf(part, rows, p, c)
    PROVE  \A k \in 0..c : g[k] = h[p + k]
<1> DEFINE N == {k \in Nat : k <= c => g[k] = h[p + k]}
<1>1. \A k \in 1..n : h[k] = Wrote(chip, h[k - 1], rows[k])
  BY WriteSteps
<1>2. g[0] = h[p] /\ \A k \in 1..c : g[k] = Wrote(chip, g[k - 1], part[k])
  BY WriteSteps
<1>3. 0 \in N
  BY <1>2
<1>4. ASSUME NEW k \in N PROVE k + 1 \in N
  <2>1. SUFFICES ASSUME k + 1 <= c PROVE g[k + 1] = h[p + (k + 1)]
    OBVIOUS
  <2>2. k + 1 \in 1..c /\ (k + 1) - 1 = k /\ g[k] = h[p + k]
    BY <2>1
  <2>3. p + (k + 1) \in 1..n /\ (p + (k + 1)) - 1 = p + k
    BY <2>1
  <2>4. g[k + 1] = Wrote(chip, g[k], part[k + 1]) /\ part[k + 1] = rows[p + (k + 1)]
    BY <1>2, <2>2 DEF PartOf
  <2>5. h[p + (k + 1)] = Wrote(chip, h[p + k], rows[p + (k + 1)])
    BY <1>1, <2>3
  <2> QED
    BY <2>2, <2>4, <2>5
<1> HIDE DEF N
<1>5. \A k \in Nat : k \in N
  BY <1>3, <1>4, Induction DEF N
<1> QED
  BY <1>5 DEF N

(* g applies to the registers after p rows the part up to row q.            *)
GoesOn(g, h, chip, base, rows, n, part, p, q, c) ==
    /\ WriteRun(h, chip, base, rows, n) /\ WriteRun(g, chip, h[p], part, c) /\ PartOf(part, rows, p, c)
    /\ n \in Nat /\ p \in Nat /\ q \in Nat /\ c \in Nat /\ q = p + c /\ q <= n

LEMMA WritesTo ==
    ASSUME NEW g, NEW h, NEW chip, NEW base, NEW rows, NEW n, NEW part, NEW p, NEW q, NEW c,
           GoesOn(g, h, chip, base, rows, n, part, p, q, c)
    PROVE  g[c] = h[q]
<1>0. /\ WriteRun(h, chip, base, rows, n) /\ WriteRun(g, chip, h[p], part, c) /\ PartOf(part, rows, p, c)
      /\ n \in Nat /\ p \in Nat /\ q \in Nat /\ c \in Nat /\ q = p + c /\ q <= n
  BY DEF GoesOn
<1>1. p \in 0..n /\ c \in 0..c /\ p + c <= n
  BY <1>0
<1>2. \A k \in 0..c : g[k] = h[p + k]
  BY <1>0, <1>1, WritesGoOn
<1> QED
  BY <1>0, <1>1, <1>2

(* A trace that begins with another's rows.                                 *)
LEMMA WritesBegin ==
    ASSUME NEW chip, NEW base, NEW rows, NEW n \in Nat, NEW h, WriteRun(h, chip, base, rows, n),
           NEW c \in 0..n, NEW part, NEW g, WriteRun(g, chip, base, part, c), PartOf(part, rows, 0, c)
    PROVE  \A k \in 0..c : g[k] = h[k]
<1>1. h[0] = base
  BY WriteSteps
<1>2. WriteRun(g, chip, h[0], part, c)
  BY <1>1
<1> DEFINE p == 0
<1>3. p \in 0..n /\ c \in Nat /\ p + c <= n /\ \A k \in 0..c : p + k = k
  OBVIOUS
<1>4. WriteRun(g, chip, h[p], part, c) /\ PartOf(part, rows, p, c)
  BY <1>2
<1> HIDE DEF p
<1>5. \A k \in 0..c : g[k] = h[p + k]
  BY <1>3, <1>4, WritesGoOn
<1> QED
  BY <1>3, <1>5

Writes(chip, r) == r.chip = chip /\ r.reg \in Registers
Unwritten(chip, rows, j, k) == \A p \in (j + 1)..k : ~Writes(chip, rows[p])

(* Rows that write nothing.                                                 *)
LEMMA NoWrite ==
    ASSUME NEW chip, NEW base, NEW rows, NEW n \in Nat, NEW h, WriteRun(h, chip, base, rows, n),
           NEW j \in 0..n, NEW k \in j..n, Unwritten(chip, rows, j, k)
    PROVE  h[k] = h[j]
<1> DEFINE N == {d \in Nat : j + d <= k => h[j + d] = h[j]}
<1>1. \A l \in 1..n : h[l] = Wrote(chip, h[l - 1], rows[l])
  BY WriteSteps
<1>2. 0 \in N
  OBVIOUS
<1>3. ASSUME NEW d \in N PROVE d + 1 \in N
  <2>1. SUFFICES ASSUME j + (d + 1) <= k PROVE h[j + (d + 1)] = h[j]
    OBVIOUS
  <2>2. j + d + 1 \in 1..n /\ (j + d + 1) - 1 = j + d /\ j + d + 1 \in (j + 1)..k /\ h[j + d] = h[j]
    BY <2>1
  <2>3. h[j + d + 1] = Wrote(chip, h[j + d], rows[j + d + 1])
    BY <1>1, <2>2
  <2> QED
    BY <2>2, <2>3 DEF Wrote, Writes, Unwritten
<1> HIDE DEF N
<1>4. k - j \in Nat /\ j + (k - j) = k
  OBVIOUS
<1>5. k - j \in N
  BY <1>2, <1>3, <1>4, Induction DEF N
<1> QED
  BY <1>4, <1>5 DEF N

(* What the writes of the frames before j leave.                            *)
AtFrame(h, rows, chip, raises, F, n, j, r) ==
    \E i \in 0..n :
        /\ r = h[i]
        /\ \A l \in 1..i : Writes(chip, rows[l]) => frame_of(raises, F, rows[l].cycle) < j
        /\ \A l \in (i + 1)..n : Writes(chip, rows[l]) => frame_of(raises, F, rows[l].cycle) >= j

(* That is one thing.                                                       *)
LEMMA OneRow ==
    ASSUME NEW n \in Nat, NEW rows, InOrder(rows, n), NEW chip, NEW base, NEW h, WriteRun(h, chip, base, rows, n),
           NEW m \in Nat, NEW raises, Ordered(raises, m), NEW j \in Nat,
           NEW r, AtFrame(h, rows, chip, raises, _raise_frames(raises, Cpf), n, j, r),
           NEW q, AtFrame(h, rows, chip, raises, _raise_frames(raises, Cpf), n, j, q)
    PROVE  r = q
<1> DEFINE F == _raise_frames(raises, Cpf)
           At(l) == frame_of(raises, F, rows[l].cycle)
<1>1. \A l \in 1..n : At(l) \in Int
  BY FrameOf, CadenceAssumption DEF InOrder
<1> HIDE DEF At
<1>2. ASSUME NEW i \in 0..n, NEW k \in i..n,
             \A l \in 1..k : Writes(chip, rows[l]) => At(l) < j,
             \A l \in (i + 1)..n : Writes(chip, rows[l]) => At(l) >= j
      PROVE  h[i] = h[k]
  <2>1. ASSUME NEW l \in (i + 1)..k PROVE ~Writes(chip, rows[l])
    <3>1. l \in 1..k /\ l \in (i + 1)..n /\ l \in 1..n
      OBVIOUS
    <3>2. At(l) \in Int
      BY <1>1, <3>1
    <3>3. Writes(chip, rows[l]) => At(l) < j /\ At(l) >= j
      BY <1>2, <3>1
    <3> QED
      BY <3>2, <3>3
  <2> HIDE DEF F
  <2>2. Unwritten(chip, rows, i, k)
    BY <2>1 DEF Unwritten
  <2>3. h[k] = h[i]
    BY <2>2, NoWrite
  <2> QED
    BY <2>3
<1>3. PICK i \in 0..n : /\ r = h[i]
                        /\ \A l \in 1..i : Writes(chip, rows[l]) => At(l) < j
                        /\ \A l \in (i + 1)..n : Writes(chip, rows[l]) => At(l) >= j
  BY DEF AtFrame, At
<1>4. PICK k \in 0..n : /\ q = h[k]
                        /\ \A l \in 1..k : Writes(chip, rows[l]) => At(l) < j
                        /\ \A l \in (k + 1)..n : Writes(chip, rows[l]) => At(l) >= j
  BY DEF AtFrame, At
<1>5. CASE i <= k
  <2>1. k \in i..n
    BY <1>5
  <2>2. h[i] = h[k]
    BY <1>2, <1>3, <1>4, <2>1
  <2> QED
    BY <1>3, <1>4, <2>2
<1>6. CASE ~(i <= k)
  <2>1. i \in k..n
    BY <1>6
  <2>2. h[k] = h[i]
    BY <1>2, <1>3, <1>4, <2>1
  <2> QED
    BY <1>3, <1>4, <2>2
<1> QED
  BY <1>5, <1>6

(* The oracle's rows are what the writes leave, h after each.               *)
Framing(h, rows, chip, raises, n) ==
    LET F == _raise_frames(raises, Cpf)
        grid == Framed(rows, chip, raises, F)
    IN  /\ WriteRun(h, chip, Zero, rows, n)
        /\ \A j \in Nat \ {0} : AtFrame(h, rows, chip, raises, F, n, j, Filled(grid, j))
        /\ grid[Len(grid)] = h[n]

LEMMA TraceRows ==
    ASSUME NEW n \in Nat, NEW rows, InOrder(rows, n), NEW chip,
           NEW m \in Nat, NEW raises, Ordered(raises, m)
    PROVE  \E h : Framing(h, rows, chip, raises, n)
<1> DEFINE F == _raise_frames(raises, Cpf)
           At(l) == frame_of(raises, F, rows[l].cycle)
           Write(l) == [frame |-> At(l), reg |-> IF rows[l].chip = chip THEN rows[l].reg ELSE -1,
                        value |-> rows[l].value]
           framed == [l \in 1..n |-> Write(l)]
           grid == Framed(rows, chip, raises, F)
<1>1. DOMAIN rows = 1..n
  BY DEF InOrder
<1>2. \A l \in 1..n : At(l) \in Int
  BY FrameOf, CadenceAssumption DEF InOrder
<1>3. ASSUME NEW l \in 1..n, NEW k \in 1..l PROVE At(k) <= At(l)
  <2>1. k \in 1..n /\ rows[k].cycle \in Nat /\ rows[l].cycle \in Nat /\ rows[k].cycle <= rows[l].cycle
    BY DEF InOrder
  <2> QED
    BY <2>1, FrameOfMonotone, CadenceAssumption
<1>4. grid = _frame_grid(Sorted(<<>> \o framed))
  BY <1>1 DEF Framed
<1> HIDE DEF At, grid
<1>5. /\ \A l \in 1..n : framed[l] = Write(l)
      /\ framed = [l \in 1..n |-> framed[l]] /\ DOMAIN framed = 1..n
  OBVIOUS
<1> HIDE DEF framed
<1>6. FramedInOrder(framed, n)
  BY <1>2, <1>3, <1>5 DEF FramedInOrder
<1>7. <<>> \o framed = framed
  BY <1>5, AsSequence
<1>8. Sorted(framed) = framed
  BY <1>5, <1>6, SortedIs DEF FramedInOrder
<1>9. grid = _frame_grid(framed)
  BY <1>4, <1>7, <1>8
<1>10. PICK g : /\ PutRun(g, framed, n)
                /\ \A j \in Nat \ {0} : AtRow(g, framed, n, j, Filled(grid, j))
                /\ grid[Len(grid)] = g[n].row
  BY <1>5, <1>6, <1>9, GridRows
<1> DEFINE h == [k \in 0..n |-> g[k].row]
<1>11. \A l \in 1..n : Counts(framed[l]) <=> Writes(chip, rows[l])
  <2>1. -1 \notin Registers
    BY FramingAssumption
  <2> QED
    BY <1>5, <2>1 DEF Counts, Writes
<1>12. g[0] = NoRows /\ \A k \in 1..n : g[k] = Put(g[k - 1], framed[k])
  BY <1>10, PutSteps
<1>13. ASSUME NEW k \in 0..n PROVE h[k] = IF k = 0 THEN Zero ELSE Wrote(chip, h[k - 1], rows[k])
  <2>1. CASE k = 0
    BY <1>12, <2>1 DEF NoRows
  <2>2. CASE k # 0
    <3>1. k \in 1..n /\ k - 1 \in 0..n
      BY <2>2
    <3>2. g[k] = Put(g[k - 1], framed[k]) /\ framed[k] = Write(k)
      BY <1>5, <1>12, <3>1
    <3>3. CASE Writes(chip, rows[k])
      <4>1. Counts(framed[k]) /\ framed[k].reg = rows[k].reg /\ framed[k].value = rows[k].value
        BY <1>11, <3>1, <3>2, <3>3 DEF Writes
      <4>2. g[k].row = [g[k - 1].row EXCEPT ![rows[k].reg] = rows[k].value]
        BY <3>2, <4>1 DEF Put, Counts
      <4> QED
        BY <2>2, <3>1, <3>3, <4>2 DEF Wrote, Writes
    <3>4. CASE ~Writes(chip, rows[k])
      <4>1. ~Counts(framed[k])
        BY <1>11, <3>1, <3>4
      <4>2. g[k].row = g[k - 1].row
        BY <3>2, <4>1 DEF Put, Counts
      <4> QED
        BY <2>2, <3>1, <3>4, <4>2 DEF Wrote, Writes
    <3> QED
      BY <3>3, <3>4
  <2> QED
    BY <2>1, <2>2
<1>14. WriteRun(h, chip, Zero, rows, n)
  BY <1>13 DEF WriteRun
<1>15. ASSUME NEW j \in Nat \ {0} PROVE AtFrame(h, rows, chip, raises, F, n, j, Filled(grid, j))
  <2>1. PICK i \in 0..n : /\ Filled(grid, j) = g[i].row
                          /\ \A l \in 1..i : Counts(framed[l]) => framed[l].frame < j
                          /\ \A l \in (i + 1)..n : Counts(framed[l]) => framed[l].frame >= j
    BY <1>10 DEF AtRow
  <2>2. \A l \in 1..n : framed[l].frame = At(l)
    BY <1>5
  <2>3. Filled(grid, j) = h[i]
    BY <2>1
  <2>4. /\ \A l \in 1..i : l \in 1..n
        /\ \A l \in (i + 1)..n : l \in 1..n
    OBVIOUS
  <2>5. /\ \A l \in 1..i : Writes(chip, rows[l]) => At(l) < j
        /\ \A l \in (i + 1)..n : Writes(chip, rows[l]) => At(l) >= j
    BY <1>11, <2>1, <2>2, <2>4
  <2> HIDE DEF h
  <2> QED
    BY <2>3, <2>5 DEF AtFrame, At
<1>16. grid[Len(grid)] = h[n]
  BY <1>10
<1> HIDE DEF h
<1> QED
  BY <1>14, <1>15, <1>16 DEF grid, Framing


-----------------------------------------------------------------------------
(* A trace cut short.                                                       *)

TraceOf(rows, n) == rows = [k \in 1..n |-> rows[k]] /\ InOrder(rows, n)

LEMMA SequenceOf ==
    ASSUME NEW n \in Nat, NEW f, f = [k \in 1..n |-> f[k]]
    PROVE  f \in Seq({f[k] : k \in 1..n}) /\ Len(f) = n
<1> DEFINE S == {f[k] : k \in 1..n}
<1>1. f \in [1..n -> S]
  OBVIOUS
<1> HIDE DEF S
<1>2. f \in Seq(S) /\ Len(f) = n
  BY <1>1
<1> QED
  BY <1>2 DEF S

(* The rows before a cycle are the first so many.                           *)
UntilAt(rows, n, c, k) ==
    /\ k \in 0..n
    /\ TraceOf(Until(rows, c), k)
    /\ \A l \in 1..k : Until(rows, c)[l] = rows[l]
    /\ \A l \in 1..n : l <= k <=> rows[l].cycle < c

LEMMA UntilIs ==
    ASSUME NEW n \in Nat, NEW rows, TraceOf(rows, n), NEW c \in Nat
    PROVE  \E k \in 0..n : UntilAt(rows, n, c, k)
<1> DEFINE S == {l \in DOMAIN rows : rows[l].cycle < c}
           k == Cardinality(S)
           T == {rows[l] : l \in 1..n}
<1>1. DOMAIN rows = 1..n /\ \A l \in 1..n : rows[l].cycle \in Nat /\ \A i \in 1..l : rows[i].cycle <= rows[l].cycle
  BY DEF TraceOf, InOrder
<1>2. rows \in Seq(T) /\ Len(rows) = n
  BY SequenceOf DEF TraceOf
<1>3. S \in SUBSET (1..n)
  BY <1>1
<1>4. ASSUME NEW i \in S, NEW j \in 1..i PROVE j \in S
  <2>1. i \in 1..n /\ rows[i].cycle < c /\ j \in 1..n
    BY <1>1
  <2>2. rows[j].cycle <= rows[i].cycle /\ rows[j].cycle \in Nat /\ rows[i].cycle \in Nat
    BY <1>1, <2>1
  <2> QED
    BY <1>1, <2>1, <2>2
<1>5. \A l \in 1..n : l \in S <=> rows[l].cycle < c
  BY <1>1
<1>6. Until(rows, c) = SubSeq(rows, 1, k)
  BY DEF Until
<1> HIDE DEF S, T
<1>7. k \in 0..n /\ S = 1..k
  BY <1>3, <1>4, Initial
<1>8. \A l \in 1..n : l <= k <=> rows[l].cycle < c
  BY <1>5, <1>7
<1> HIDE DEF k
<1>9. SubSeq(rows, 1, k) = [l \in 1..k |-> rows[l]]
  BY <1>2, <1>7
<1>10. \A l \in 1..k : l \in 1..n
  BY <1>7
<1> DEFINE part == Until(rows, c)
<1>11. part = [l \in 1..k |-> rows[l]]
  BY <1>6, <1>9
<1> HIDE DEF part
<1>13. part = [l \in 1..k |-> part[l]] /\ DOMAIN part = 1..k /\ \A l \in 1..k : part[l] = rows[l]
  BY <1>11
<1>14. InOrder(part, k)
  <2>1. ASSUME NEW j \in 1..k PROVE part[j].cycle \in Nat /\ \A i \in 1..j : part[i].cycle <= part[j].cycle
    <3>1. ASSUME NEW i \in 1..j PROVE part[i].cycle <= part[j].cycle
      <4>1. i \in 1..k /\ j \in 1..n /\ part[i] = rows[i] /\ part[j] = rows[j]
        BY <1>7, <1>13
      <4> QED
        BY <1>1, <4>1
    <3> QED
      BY <1>1, <1>10, <1>13, <3>1
  <2> QED
    BY <1>13, <2>1 DEF InOrder
<1> QED
  BY <1>7, <1>8, <1>13, <1>14 DEF UntilAt, TraceOf, part

(* The raises of a trace, as it goes on.                                    *)
LEMMA RaisesOf ==
    ASSUME NEW n \in Nat, NEW rows, InOrder(rows, n), NEW source
    PROVE  \E h : /\ RaiseRun(h, source, rows, n) /\ raise_cycles(rows, source) = h[n]
                  /\ h[n] \in Seq(Nat) /\ Len(h[n]) \in Nat /\ Ordered(h[n], Len(h[n]))
<1>1. PICK h : RaiseRun(h, source, rows, n) /\ raise_cycles(rows, source) = h[n]
  BY RaiseRuns DEF InOrder
<1>2. h[n] \in Seq(Nat)
  BY <1>1, RaiseTypes
<1>3. \A i \in 1..Len(h[n]) : \A j \in 1..i : h[n][j] <= h[n][i]
  <2>1. n \in 0..n
    OBVIOUS
  <2> QED
    BY <1>1, <2>1, RaisesInOrder
<1> DEFINE r == h[n]
<1> HIDE DEF r
<1>4. r \in Seq(Nat) /\ \A i \in 1..Len(r) : \A j \in 1..i : r[j] <= r[i]
  BY <1>2, <1>3 DEF r
<1>5. DOMAIN r = 1..Len(r) /\ Len(r) \in Nat /\ \A i \in 1..Len(r) : r[i] \in Nat
  BY <1>4
<1>6. Ordered(r, Len(r))
  BY <1>4, <1>5 DEF Ordered
<1> QED
  BY <1>1, <1>2, <1>5, <1>6 DEF r

(* The frame of a row is the same in the trace cut after it.                *)
LEMMA FrameOfCut ==
    ASSUME NEW m \in Nat, NEW raises, Ordered(raises, m), NEW q \in 0..m, NEW part, Ordered(part, q),
           \A i \in 1..q : part[i] = raises[i], NEW cpf,
           NEW c \in Nat, \A i \in (q + 1)..m : raises[i] > c
    PROVE  frame_of(part, _raise_frames(part, cpf), c) = frame_of(raises, _raise_frames(raises, cpf), c)
<1> DEFINE F == _raise_frames(raises, cpf)
           G == _raise_frames(part, cpf)
           S == {i \in DOMAIN raises : raises[i] <= c}
           T == {i \in DOMAIN part : part[i] <= c}
<1>1. S = T
  <2>1. DOMAIN raises = 1..m /\ DOMAIN part = 1..q
    BY DEF Ordered
  <2>2. ASSUME NEW i \in 1..m, raises[i] <= c PROVE i \in 1..q /\ part[i] <= c
    <3>1. i \notin (q + 1)..m
      <4>1. raises[i] \in Nat
        BY DEF Ordered
      <4> QED
        BY <2>2, <4>1
    <3>2. i \in 1..q
      BY <3>1
    <3> QED
      BY <2>2, <3>2
  <2>3. ASSUME NEW i \in 1..q, part[i] <= c PROVE i \in 1..m /\ raises[i] <= c
    BY <2>3
  <2> QED
    BY <2>1, <2>2, <2>3
<1>2. Cardinality(T) \in 0..q
  BY RaisesUpTo
<1>3. \A i \in 1..q : G[i] = F[i]
  BY FramesBegin DEF Ordered
<1>4. /\ frame_of(part, G, c) = IF Cardinality(T) = 0 THEN -1 ELSE G[Cardinality(T)]
      /\ frame_of(raises, F, c) = IF Cardinality(S) = 0 THEN -1 ELSE F[Cardinality(S)]
  BY DEF frame_of
<1> HIDE DEF F, G, S, T
<1>5. frame_of(part, G, c) = frame_of(raises, F, c)
  BY <1>1, <1>2, <1>3, <1>4
<1> QED
  BY <1>5 DEF F, G

(* The rows of the calls a trace cut short covers.                          *)
LEMMA CutCovers ==
    ASSUME NEW n \in Nat, NEW rows, TraceOf(rows, n), NEW chip, NEW cut \in Nat,
           Source(Until(rows, cut), chip) = Source(rows, chip),
           NEW j \in 1..sidtrace_calls(Until(rows, cut), chip, Cpf)
    PROVE  Filled(sidtrace_grid(Until(rows, cut), chip, Cpf), j) = Filled(sidtrace_grid(rows, chip, Cpf), j)
<1> DEFINE part == Until(rows, cut)
           source == Source(rows, chip)
<1>1. PICK c \in 0..n : UntilAt(rows, n, cut, c)
  BY UntilIs
<1>2. /\ TraceOf(part, c) /\ \A l \in 1..c : part[l] = rows[l]
      /\ \A l \in 1..n : l <= c <=> rows[l].cycle < cut
      /\ InOrder(rows, n) /\ InOrder(part, c) /\ c \in Nat
      /\ PartOf(part, rows, 0, c)
  BY <1>1 DEF UntilAt, TraceOf, PartOf
<1> DEFINE row == Filled(sidtrace_grid(part, chip, Cpf), j)
<1>0. /\ Source(part, chip) = source /\ Source(rows, chip) = source
      /\ j \in 1..sidtrace_calls(part, chip, Cpf)
  OBVIOUS
<1> SUFFICES row = Filled(sidtrace_grid(rows, chip, Cpf), j)
  OBVIOUS
<1> HIDE DEF part, source
<1>3. PICK h : /\ RaiseRun(h, source, rows, n) /\ raise_cycles(rows, source) = h[n]
               /\ h[n] \in Seq(Nat) /\ Len(h[n]) \in Nat /\ Ordered(h[n], Len(h[n]))
  BY <1>2, RaisesOf
<1>4. PICK g : /\ RaiseRun(g, source, part, c) /\ raise_cycles(part, source) = g[c]
               /\ g[c] \in Seq(Nat) /\ Len(g[c]) \in Nat /\ Ordered(g[c], Len(g[c]))
  BY <1>2, RaisesOf
<1> DEFINE R == h[n]
           P == g[c]
           m == Len(R)
           q == Len(P)
           F == _raise_frames(R, Cpf)
           G == _raise_frames(P, Cpf)
<1>5. P = h[c]
  <2>1. \A k \in 0..c : g[k] = h[k]
    BY <1>2, <1>3, <1>4, RaisesBegin
  <2> QED
    BY <2>1
<1>6. q \in 0..m /\ \A i \in 1..q : P[i] = R[i]
  <2>1. InOrder(rows, n) /\ RaiseRun(h, source, rows, n)
    BY <1>2, <1>3
  <2>2. \A k \in 0..n : \A i \in 0..k : Begins(h[i], h[k])
    BY <2>1, RaisesGrow
  <2>3. Begins(h[c], h[n])
    BY <1>2, <2>2
  <2> QED
    BY <1>3, <1>4, <1>5, <2>3 DEF Begins
<1>7. \A i \in (q + 1)..m : \E p \in (c + 1)..n : R[i] = rows[p].cycle
  <2>1. RaisedLater(h, source, rows, n, c)
    BY <1>2, <1>3, RaisesInOrder
  <2> QED
    BY <1>5, <2>1 DEF RaisedLater
<1>8. \A i \in 1..q : \E p \in 1..c : P[i] = rows[p].cycle
  <2>1. \A i \in 1..Len(h[c]) : \E p \in 1..c : RaisedAt(h, source, rows, c, i, p)
    BY <1>2, <1>3, RaiseRows
  <2> QED
    BY <1>5, <2>1 DEF RaisedAt
<1>9. /\ sidtrace_grid(part, chip, Cpf) = Framed(part, chip, P, G)
      /\ sidtrace_grid(rows, chip, Cpf) = Framed(rows, chip, R, F)
      /\ sidtrace_calls(part, chip, Cpf) = IF P = <<>> THEN 0 ELSE G[q]
  BY <1>0, <1>3, <1>4 DEF sidtrace_grid, sidtrace_calls, Raises
<1>10. PICK w : Framing(w, rows, chip, R, n)
  BY <1>2, <1>3, TraceRows
<1>11. PICK u : Framing(u, part, chip, P, c)
  BY <1>2, <1>4, TraceRows
<1>12. /\ WriteRun(w, chip, Zero, rows, n) /\ WriteRun(u, chip, Zero, part, c)
       /\ \A i \in Nat \ {0} : AtFrame(w, rows, chip, R, F, n, i, Filled(Framed(rows, chip, R, F), i))
       /\ \A i \in Nat \ {0} : AtFrame(u, part, chip, P, G, c, i, Filled(Framed(part, chip, P, G), i))
  BY <1>10, <1>11 DEF Framing
<1>13. ASSUME j \in Nat \ {0}, P # <<>>, j <= G[q] PROVE row = Filled(sidtrace_grid(rows, chip, Cpf), j)
  <2>1. /\ AtFrame(w, rows, chip, R, F, n, j, Filled(sidtrace_grid(rows, chip, Cpf), j))
        /\ AtFrame(u, part, chip, P, G, c, j, row)
    BY <1>9, <1>13, <1>12
  <2>2. Ordered(R, m) /\ Ordered(P, q) /\ q \in Nat /\ m \in Nat /\ q # 0
    BY <1>3, <1>4, <1>13
  <2>3. \A k \in 0..c : u[k] = w[k]
    <3>1. WriteRun(w, chip, Zero, rows, n) /\ WriteRun(u, chip, Zero, part, c) /\ PartOf(part, rows, 0, c)
      BY <1>2, <1>12
    <3> QED
      BY <3>1, WritesBegin
  <2> HIDE DEF row, R, P, m, q
  <2> DEFINE At(l) == frame_of(R, F, rows[l].cycle)
  <2>4. \A l \in 1..n : rows[l].cycle \in Nat /\ \A i \in 1..l : rows[i].cycle <= rows[l].cycle
    BY <1>2 DEF InOrder
  <2>5. ASSUME NEW l \in 1..c PROVE frame_of(P, G, part[l].cycle) = At(l)
    <3>1. l \in 1..n /\ part[l] = rows[l] /\ rows[l].cycle \in Nat /\ rows[l].cycle < cut
      BY <1>2, <2>4
    <3>2. ASSUME NEW i \in (q + 1)..m PROVE R[i] > rows[l].cycle
      <4>1. PICK p \in (c + 1)..n : R[i] = rows[p].cycle
        BY <1>7
      <4>2. p \in 1..n /\ ~(p <= c)
        OBVIOUS
      <4>3. rows[p].cycle \in Nat /\ ~(rows[p].cycle < cut)
        BY <1>2, <2>4, <4>2
      <4> QED
        BY <3>1, <4>1, <4>3
    <3>3. frame_of(P, G, rows[l].cycle) = frame_of(R, F, rows[l].cycle)
      BY <1>6, <2>2, <3>1, <3>2, FrameOfCut
    <3> QED
      BY <3>1, <3>3
  <2>6. ASSUME NEW l \in (c + 1)..n PROVE At(l) >= j
    <3>1. PICK p \in 1..c : P[q] = rows[p].cycle
      BY <1>8, <2>2
    <3>2. p \in 1..l /\ l \in 1..n
      BY <3>1
    <3>3. R[q] <= rows[l].cycle /\ q \in 1..m /\ rows[l].cycle \in Nat
      BY <1>6, <2>2, <2>4, <3>1, <3>2
    <3>4. F[q] <= At(l) /\ At(l) \in Int
      BY <2>2, <3>3, FrameOf, CadenceAssumption
    <3>5. G[q] = F[q]
      BY <1>6, <2>2, FramesBegin DEF Ordered
    <3>6. F[q] \in Nat
      BY <2>2, <3>3, FramesGoUp, CadenceAssumption DEF Ordered
    <3> QED
      BY <1>13, <3>4, <3>5, <3>6
  <2> HIDE DEF At, F, G
  <2>7. AtFrame(w, rows, chip, R, F, n, j, row)
    <3>1. PICK i \in 0..c : /\ row = u[i]
                            /\ \A l \in 1..i : Writes(chip, part[l]) => frame_of(P, G, part[l].cycle) < j
                            /\ \A l \in (i + 1)..c : Writes(chip, part[l]) => frame_of(P, G, part[l].cycle) >= j
      BY <2>1 DEF AtFrame
    <3>2. i \in 0..n /\ row = w[i]
      BY <2>3, <3>1
    <3>3. ASSUME NEW l \in 1..i, Writes(chip, rows[l]) PROVE At(l) < j
      BY <1>2, <2>5, <3>1, <3>3
    <3>4. ASSUME NEW l \in (i + 1)..n, Writes(chip, rows[l]) PROVE At(l) >= j
      <4>1. CASE l \in (i + 1)..c
        <5>1. l \in 1..c
          BY <4>1
        <5> QED
          BY <1>2, <2>5, <3>1, <3>4, <4>1, <5>1
      <4>2. CASE l \notin (i + 1)..c
        <5>1. l \in (c + 1)..n
          BY <4>2
        <5> QED
          BY <2>6, <5>1
      <4> QED
        BY <4>1, <4>2
    <3> QED
      BY <3>2, <3>3, <3>4 DEF AtFrame, At
  <2> USE DEF F, R, m
  <2> QED
    BY <1>2, <1>13, <1>12, <2>1, <2>2, <2>7, OneRow
<1>14. /\ P # <<>> => q \in 1..q /\ G[q] \in Nat
       /\ (IF P = <<>> THEN 0 ELSE G[q]) \in Nat
  <2>1. P # <<>> => q \in 1..q
    BY <1>4
  <2>2. \A i \in 1..q : G[i] \in Nat
    BY <1>4, FramesGoUp, CadenceAssumption DEF Ordered
  <2> QED
    BY <2>1, <2>2
<1> HIDE DEF row, P, G, q
<1> QED
  BY <1>0, <1>9, <1>13, <1>14

-----------------------------------------------------------------------------
(* The host, over a trace of n rows: h gives the raises of its first k      *)
(* rows and w the registers after them.                                     *)

Shaped(g) == DOMAIN g = {"cycle", "pos", "scan", "prev", "state", "waited", "out", "idle"}

(* Until the first raise the host has only waited.                          *)
BeforeRaise(g) == g.prev = -1 /\ g.pos = 0 /\ g.out = <<>> /\ g.cycle >= g.waited * Cpf

(* At the m-th it has applied what was written before it, and yielded the   *)
(* rows up to its frame.                                                    *)
AfterRaise(g, log, grid, raises, n, m) ==
    /\ g.prev = raises[m]
    /\ \A l \in 1..n : l <= g.pos <=> log[l].cycle < raises[m]
    /\ Len(g.out) = _raise_frames(raises, Cpf)[m]
    /\ \A k \in 1..Len(g.out) : g.out[k] = Filled(grid, k)
    /\ g.cycle >= raises[m] + 1 + g.waited * Cpf

HostOK(g, log, grid, h, w, n) ==
    /\ Shaped(g) /\ g.idle = FALSE
    /\ g.cycle \in Nat /\ g.waited \in Nat /\ g.scan \in 0..n /\ g.pos \in 0..n
    /\ g.out \in Seq({w[i] : i \in 0..n})
    /\ \A l \in 1..g.scan : log[l].cycle < g.cycle
    /\ g.state = w[g.pos]
    /\ IF Len(h[g.scan]) = 0 THEN BeforeRaise(g) ELSE AfterRaise(g, log, grid, h[n], n, Len(h[g.scan]))

(* Idle, it has yielded the oracle's rows and the last one again.           *)
IdleOK(g, log, grid, raises) ==
    /\ g.idle = TRUE
    /\ Held(log, raises) =>
         /\ Len(g.out) - 1 = _raise_frames(raises, Cpf)[Len(raises)]
         /\ \A k \in 1..(Len(g.out) - 1) : g.out[k] = Filled(grid, k)
         /\ g.out[Len(g.out)] = grid[Len(grid)]

LEMMA LeastIs ==
    ASSUME NEW S \in SUBSET Int, NEW x \in S, \A y \in S : x <= y
    PROVE  Min(S) = x
<1>1. \A y \in S : x <= y /\ (y <= x => y = x)
  OBVIOUS
<1> QED
  BY <1>1 DEF Min

(* What apply does, when the rows before until are those up to q.           *)
Applying(log, n, chip, w, g, k, p, until, q) ==
    /\ n \in Nat /\ WriteRun(w, chip, Zero, log, n) /\ k \in 0..n /\ UntilAt(log, n, g.cycle, k)
    /\ p \in 0..k /\ g.pos = p /\ g.state = w[p] /\ until \in Nat /\ q \in p..k
    /\ \A l \in (p + 1)..k : l <= q <=> log[l].cycle < until

Moved(g, w, q) == [g EXCEPT !.pos = q, !.state = w[q]]

LEMMA ApplyIs ==
    ASSUME NEW log, NEW n, NEW chip, NEW w, NEW g, NEW k, NEW p, NEW until, NEW q,
           Applying(log, n, chip, w, g, k, p, until, q)
    PROVE  apply(log, g, chip, until) = Moved(g, w, q)
<1>0. /\ n \in Nat /\ WriteRun(w, chip, Zero, log, n) /\ k \in 0..n /\ UntilAt(log, n, g.cycle, k)
      /\ p \in 0..k /\ g.pos = p /\ g.state = w[p] /\ until \in Nat /\ q \in p..k
      /\ \A l \in (p + 1)..k : l <= q <=> log[l].cycle < until
  BY DEF Applying
<1> DEFINE raw == Logged(log, g)
           late == {l \in (p + 1)..Len(raw) : raw[l].cycle >= until} \union {Len(raw) + 1}
           part == SubSeq(raw, p + 1, q)
<1>1. /\ k \in 0..n /\ raw = [l \in 1..k |-> raw[l]]
      /\ \A l \in 1..k : raw[l] = log[l] /\ log[l].cycle \in Nat
  BY <1>0 DEF UntilAt, TraceOf, InOrder, Logged
<1>2. p \in 0..k /\ q \in p..k /\ n \in Nat /\ until \in Nat
  BY <1>0
<1>3. apply(log, g, chip, until) =
        [g EXCEPT !.pos = Min(late) - 1, !.state = Applied(chip, @, SubSeq(raw, p + 1, Min(late) - 1))]
  BY <1>0 DEF apply
<1>4. \A l \in (p + 1)..k : l <= q <=> log[l].cycle < until
  BY <1>0
<1>5. g.state = w[p] /\ g.pos = p
  BY <1>0
<1> HIDE DEF raw
<1>6. Len(raw) = k /\ raw \in Seq({raw[l] : l \in 1..k})
  BY <1>1, SequenceOf
<1>7. Min(late) = q + 1
  <2>1. late \in SUBSET Int
    BY <1>1, <1>2, <1>6
  <2>2. q + 1 \in late
    <3>1. CASE q = k
      BY <1>6, <3>1
    <3>2. CASE q # k
      <4>1. q + 1 \in (p + 1)..k /\ ~(q + 1 <= q) /\ q + 1 \in 1..k
        BY <1>1, <1>2, <3>2
      <4>2. ~(log[q + 1].cycle < until) /\ raw[q + 1] = log[q + 1] /\ log[q + 1].cycle \in Nat
        BY <1>1, <1>4, <4>1
      <4> QED
        BY <1>2, <1>6, <4>1, <4>2
    <3> QED
      BY <3>1, <3>2
  <2>3. ASSUME NEW y \in late PROVE q + 1 <= y
    <3>1. CASE y = k + 1
      BY <1>1, <1>2, <3>1
    <3>2. CASE y # k + 1
      <4>1. y \in (p + 1)..k /\ raw[y].cycle >= until /\ y \in 1..k
        BY <1>1, <1>2, <1>6, <3>2
      <4>2. ~(log[y].cycle < until)
        BY <1>1, <1>2, <4>1
      <4>3. ~(y <= q)
        BY <1>4, <4>1, <4>2
      <4> QED
        BY <1>1, <1>2, <4>1, <4>3
    <3> QED
      BY <3>1, <3>2
  <2> HIDE DEF late
  <2> QED
    BY <2>1, <2>2, <2>3, LeastIs
<1>8. Min(late) - 1 = q
  BY <1>1, <1>2, <1>7
<1>9. PICK c \in Nat : q = p + c /\ c = q - p
  BY <1>1, <1>2
<1>10. part = [i \in 1..c |-> part[i]] /\ \A i \in 1..c : part[i] = raw[p + i]
  <2>1. p + 1 \in 1..(k + 1) /\ q \in (p + 1 - 1)..k /\ q - (p + 1) + 1 = c
    BY <1>1, <1>2, <1>9
  <2> DEFINE T == {raw[l] : l \in 1..k}
             first == p + 1
  <2>2. raw \in Seq(T) /\ first \in 1..(Len(raw) + 1) /\ q \in (first - 1)..Len(raw) /\ q - first + 1 = c
    BY <1>6, <2>1
  <2>3. \A i \in 1..c : first + i - 1 = p + i
    BY <1>1, <1>2
  <2> HIDE DEF T, first
  <2>4. /\ SubSeq(raw, first, q) \in Seq(T) /\ Len(SubSeq(raw, first, q)) = c
        /\ \A i \in 1..c : SubSeq(raw, first, q)[i] = raw[first + i - 1]
    BY <1>2, <1>9, <2>2, SubSeqProperties
  <2> QED
    BY <1>2, <1>9, <2>3, <2>4 DEF first
<1> HIDE DEF late, part
<1>11. Applied(chip, w[p], part) = w[q]
  <2>1. DOMAIN part = 1..c /\ p \in Nat /\ q \in Nat /\ q <= n
    BY <1>1, <1>2, <1>10
  <2>2. PICK u : WriteRun(u, chip, w[p], part, c) /\ Applied(chip, w[p], part) = u[c]
    BY <2>1, WriteRuns
  <2>3. PartOf(part, log, p, c)
    <3>1. ASSUME NEW i \in 1..c PROVE part[i] = log[p + i]
      <4>1. p + i \in 1..k
        BY <1>1, <1>2, <1>9
      <4> QED
        BY <1>1, <1>10, <4>1
    <3> QED
      BY <3>1 DEF PartOf
  <2>4. u[c] = w[q]
    <3>1. q = p + c /\ q \in Nat /\ c \in Nat /\ p \in Nat /\ q <= n
      BY <1>9, <2>1
    <3>2. GoesOn(u, w, chip, Zero, log, n, part, p, q, c)
      BY <1>0, <2>2, <2>3, <3>1 DEF GoesOn
    <3> QED
      BY <3>2, WritesTo
  <2> QED
    BY <2>2, <2>4
<1> QED
  BY <1>3, <1>5, <1>8, <1>11 DEF part, Moved

(* A trace, its source, and the grid the oracle frames.                     *)
Hosted(log, n, chip, source, h, w, grid) ==
    /\ TraceOf(log, n) /\ InOrder(log, n) /\ RaiseRun(h, source, log, n) /\ WriteRun(w, chip, Zero, log, n)
    /\ Ordered(h[n], Len(h[n])) /\ Len(h[n]) \in Nat
    /\ \A j \in Nat \ {0} :
          AtFrame(w, log, chip, h[n], _raise_frames(h[n], Cpf), n, j, Filled(grid, j))
    /\ grid[Len(grid)] = w[n]

FramesOK(F, raises, m) ==
    /\ \A i \in 1..m : F[i] \in Nat
    /\ m # 0 => F[1] = 0
    /\ \A i \in 2..m : F[i] = F[i - 1] + Gap(raises[i - 1], raises[i], Cpf)

LEMMA FramesAre ==
    ASSUME NEW m \in Nat, NEW raises, Ordered(raises, m)
    PROVE  FramesOK(_raise_frames(raises, Cpf), raises, m)
<1> DEFINE F == _raise_frames(raises, Cpf)
<1>1. DOMAIN raises = 1..m /\ \A i \in 1..m : raises[i] \in Nat
  BY DEF Ordered
<1>2. /\ \A i \in 1..m : F[i] \in Nat
      /\ m # 0 => F[1] = 0
  BY <1>1, FramesGoUp, CadenceAssumption
<1>3. \A i \in 2..m : F[i] = F[i - 1] + Gap(raises[i - 1], raises[i], Cpf)
  BY <1>1, FramesGoUp, CadenceAssumption
<1> QED
  BY <1>2, <1>3 DEF FramesOK

(* Before a raise is no frame past the last raise's.                        *)
LEMMA FrameBefore ==
    ASSUME NEW m \in Nat, NEW raises, Ordered(raises, m), NEW c \in Nat, NEW i \in 2..m, c < raises[i]
    PROVE  frame_of(raises, _raise_frames(raises, Cpf), c) <= _raise_frames(raises, Cpf)[i - 1]
<1> DEFINE F == _raise_frames(raises, Cpf)
           k == Cardinality({l \in DOMAIN raises : raises[l] <= c})
<1>1. k \in 0..m /\ \A j \in 1..m : j <= k <=> raises[j] <= c
  BY RaisesUpTo
<1>2. /\ \A j \in 1..m : F[j] \in Nat
      /\ \A j \in 1..m : \A l \in 1..(j - 1) : F[l] < F[j]
  BY FramesGoUp, CadenceAssumption DEF Ordered
<1>3. frame_of(raises, F, c) = IF k = 0 THEN -1 ELSE F[k]
  BY DEF frame_of
<1>4. \A j \in 1..m : raises[j] \in Nat
  BY DEF Ordered
<1> HIDE DEF k, F
<1> SUFFICES frame_of(raises, F, c) <= F[i - 1]
  BY DEF F
<1>5. i \in 1..m /\ i - 1 \in 1..m
  OBVIOUS
<1>6. k <= i - 1
  <2>1. ~(raises[i] <= c)
    BY <1>4, <1>5
  <2> QED
    BY <1>1, <1>5, <2>1
<1>7. CASE k = 0
  BY <1>2, <1>3, <1>5, <1>7
<1>8. CASE k # 0 /\ k = i - 1
  BY <1>2, <1>3, <1>5, <1>8
<1>9. CASE k # 0 /\ k # i - 1
  <2>1. k \in 1..((i - 1) - 1) /\ k \in 1..m
    BY <1>1, <1>5, <1>6, <1>9
  <2>2. F[k] < F[i - 1] /\ F[k] \in Nat /\ F[i - 1] \in Nat
    BY <1>2, <1>5, <2>1
  <2> QED
    BY <1>3, <1>9, <2>2
<1> QED
  BY <1>7, <1>8, <1>9

(* The rows of the frames up to the i-th raise are the registers it finds.  *)
InFrame(log, n, raises, i, q, j) ==
    /\ i \in 2..Len(raises) /\ q \in 0..n /\ \A l \in 1..n : l <= q <=> log[l].cycle < raises[i]
    /\ j \in Nat /\ _raise_frames(raises, Cpf)[i - 1] < j /\ j <= _raise_frames(raises, Cpf)[i]

LEMMA NewRows ==
    ASSUME NEW n \in Nat, NEW log, NEW chip, NEW source, NEW h, NEW w, NEW grid,
           Hosted(log, n, chip, source, h, w, grid),
           NEW i, NEW q, NEW j, InFrame(log, n, h[n], i, q, j)
    PROVE  Filled(grid, j) = w[q]
<1>0. /\ i \in 2..Len(h[n]) /\ q \in 0..n /\ \A l \in 1..n : l <= q <=> log[l].cycle < h[n][i]
      /\ j \in Nat /\ _raise_frames(h[n], Cpf)[i - 1] < j /\ j <= _raise_frames(h[n], Cpf)[i]
  BY DEF InFrame
<1> DEFINE R == h[n]
           F == _raise_frames(R, Cpf)
           m == Len(R)
           At(l) == frame_of(R, F, log[l].cycle)
<1>1. /\ Ordered(R, m) /\ m \in Nat /\ InOrder(log, n) /\ WriteRun(w, chip, Zero, log, n)
      /\ \A k \in Nat \ {0} : AtFrame(w, log, chip, R, F, n, k, Filled(grid, k))
  BY DEF Hosted
<1>2. q \in 0..n /\ \A l \in 1..n : l <= q <=> log[l].cycle < R[i]
  BY <1>0
<1>3. j \in Nat /\ F[i - 1] < j /\ j <= F[i]
  BY <1>0
<1> HIDE DEF R, m
<1>4. i \in 2..m /\ i \in 1..m /\ i - 1 \in 1..m
  BY <1>0, <1>1 DEF m, R
<1>5. F[i - 1] \in Nat /\ F[i] \in Nat
  BY <1>1, <1>4, FramesGoUp, CadenceAssumption DEF Ordered
<1>6. R[i] \in Nat /\ \A l \in 1..n : log[l].cycle \in Nat
  BY <1>1, <1>4 DEF Ordered, InOrder
<1>7. ASSUME NEW l \in 1..q PROVE At(l) < j
  <2>1. l \in 1..n /\ log[l].cycle < R[i] /\ log[l].cycle \in Nat
    BY <1>2, <1>6
  <2>2. At(l) <= F[i - 1]
    BY <1>1, <1>4, <2>1, FrameBefore
  <2>3. At(l) \in Int
    BY <1>1, <2>1, FrameOf, CadenceAssumption
  <2> HIDE DEF At, F
  <2> QED
    BY <1>3, <1>5, <2>2, <2>3
<1>8. ASSUME NEW l \in (q + 1)..n PROVE At(l) >= j
  <2>1. l \in 1..n /\ ~(l <= q)
    BY <1>2
  <2>2. R[i] <= log[l].cycle /\ log[l].cycle \in Nat
    BY <1>2, <1>6, <2>1
  <2>3. F[i] <= At(l) /\ At(l) \in Int
    BY <1>1, <1>4, <2>2, FrameOf, CadenceAssumption
  <2> HIDE DEF At, F
  <2> QED
    BY <1>3, <1>5, <2>3
<1>9. AtFrame(w, log, chip, R, F, n, j, w[q])
  BY <1>2, <1>7, <1>8 DEF AtFrame
<1>10. j \in Nat \ {0}
  BY <1>3, <1>5
<1>11. AtFrame(w, log, chip, R, F, n, j, Filled(grid, j))
  BY <1>1, <1>10
<1> QED
  BY <1>1, <1>3, <1>9, <1>11, OneRow

LEMMA Waits ==
    ASSUME NEW a \in Nat, NEW b \in Nat
    PROVE  a * b \in Nat /\ 0 * b = 0 /\ (a + 1) * b = a * b + b
  OBVIOUS

(* What the host's state says of where it is.                               *)
LEMMA HostAt ==
    ASSUME NEW n \in Nat, NEW log, NEW chip, NEW source, NEW h, NEW w, NEW grid,
           Hosted(log, n, chip, source, h, w, grid), NEW g, HostOK(g, log, grid, h, w, n),
           NEW k \in 0..n, UntilAt(log, n, g.cycle, k)
    PROVE  /\ g.scan \in 0..k /\ g.pos \in 0..k
           /\ Len(h[g.scan]) \in 0..Len(h[n]) /\ h[g.scan] \in Seq(Nat) /\ h[n] \in Seq(Nat)
           /\ \A i \in 1..Len(h[g.scan]) : h[n][i] = h[g.scan][i]
           /\ \A l \in 1..n : log[l].cycle \in Nat
<1> DEFINE m == Len(h[g.scan])
<1>1. /\ g.cycle \in Nat /\ g.waited \in Nat /\ g.scan \in 0..n /\ g.pos \in 0..n
      /\ \A l \in 1..g.scan : log[l].cycle < g.cycle
  BY DEF HostOK
<1>2. \A l \in 1..n : l <= k <=> log[l].cycle < g.cycle
  BY DEF UntilAt
<1>3. /\ InOrder(log, n) /\ RaiseRun(h, source, log, n)
  BY DEF Hosted
<1>4. \A l \in 1..n : log[l].cycle \in Nat
  BY <1>3 DEF InOrder
<1>5. \A l \in 0..n : h[l] \in Seq(Nat)
  BY <1>3, RaiseTypes
<1>6. h[g.scan] \in Seq(Nat) /\ h[n] \in Seq(Nat) /\ m \in Nat /\ Len(h[n]) \in Nat
  BY <1>1, <1>5
<1>7. Begins(h[g.scan], h[n])
  BY <1>1, <1>3, RaisesGrow
<1>8. m \in 0..Len(h[n]) /\ \A i \in 1..m : h[n][i] = h[g.scan][i]
  BY <1>6, <1>7 DEF Begins
<1>9. g.scan \in 0..k
  <2>1. CASE g.scan = 0
    BY <2>1
  <2>2. CASE g.scan # 0
    <3>1. g.scan \in 1..g.scan /\ g.scan \in 1..n
      BY <1>1, <2>2
    <3> QED
      BY <1>1, <1>2, <3>1
  <2> QED
    BY <2>1, <2>2
<1>10. g.pos \in 0..k
  <2>1. CASE m = 0
    BY <2>1 DEF HostOK, BeforeRaise
  <2>2. CASE m # 0
    <3>1. /\ \A l \in 1..n : l <= g.pos <=> log[l].cycle < h[n][m]
          /\ g.cycle >= h[n][m] + 1 + g.waited * Cpf
      BY <2>2 DEF HostOK, AfterRaise
    <3>2. h[n][m] \in Nat /\ g.waited * Cpf \in Nat
      <4>1. m \in 1..Len(h[n])
        BY <1>8, <2>2
      <4> HIDE DEF m
      <4>2. h[n][m] \in Nat
        BY <1>6, <4>1
      <4>3. Cpf \in Nat
        BY CadenceAssumption
      <4>4. g.waited * Cpf \in Nat
        BY <1>1, <4>3, Waits
      <4> QED
        BY <4>2, <4>4
    <3>3. CASE g.pos = 0
      BY <3>3
    <3>4. CASE g.pos # 0
      <4>1. g.pos \in 1..n /\ g.pos <= g.pos
        BY <1>1, <3>4
      <4>2. log[g.pos].cycle < h[n][m] /\ log[g.pos].cycle \in Nat
        BY <1>4, <3>1, <4>1
      <4>3. log[g.pos].cycle < g.cycle
        <5> HIDE DEF m
        <5> QED
          BY <1>1, <3>1, <3>2, <4>2
      <4> QED
        BY <1>2, <4>1, <4>3
    <3> QED
      BY <3>3, <3>4
  <2> QED
    BY <2>1, <2>2
<1> QED
  BY <1>4, <1>6, <1>8, <1>9, <1>10

(* A raise is found at row t.                                               *)
Found(g, log, source, k, t) ==
    t \in (g.scan + 1)..k /\ Raising(source, log[t]) /\ Silent(source, log, g.scan, t - 1)

LEMMA FoundRaise ==
    ASSUME NEW n \in Nat, NEW log, NEW chip, NEW source, NEW h, NEW w, NEW grid,
           Hosted(log, n, chip, source, h, w, grid), NEW g, HostOK(g, log, grid, h, w, n),
           NEW k \in 0..n, UntilAt(log, n, g.cycle, k), NEW t, Found(g, log, source, k, t)
    PROVE  LET m == Len(h[g.scan])
           IN  /\ Len(h[t]) = m + 1 /\ m + 1 \in 1..Len(h[n]) /\ h[n][m + 1] = log[t].cycle
               /\ m # 0 => h[n][m] <= log[t].cycle
<1> DEFINE m == Len(h[g.scan])
<1>1. /\ g.scan \in 0..k /\ m \in 0..Len(h[n]) /\ h[g.scan] \in Seq(Nat) /\ h[n] \in Seq(Nat)
      /\ \A l \in 1..n : log[l].cycle \in Nat
  BY HostAt
<1>2. /\ InOrder(log, n) /\ RaiseRun(h, source, log, n) /\ Ordered(h[n], Len(h[n]))
  BY DEF Hosted
<1>3. t \in (g.scan + 1)..k /\ Raising(source, log[t]) /\ Silent(source, log, g.scan, t - 1)
  BY DEF Found
<1>4. t \in 1..n /\ t - 1 \in g.scan..n /\ g.scan \in 0..n /\ t \in 0..n
  BY <1>1, <1>3
<1>5. h[t - 1] = h[g.scan]
  BY <1>2, <1>3, <1>4, NoRaise
<1>6. h[t] = RaiseStep(source, h[t - 1], log[t])
  BY <1>2, <1>4, RaiseSteps
<1>7. h[t] = Append(h[g.scan], log[t].cycle) /\ log[t].cycle \in Nat
  BY <1>1, <1>3, <1>4, <1>5, <1>6 DEF RaiseStep
<1>8. Len(h[t]) = m + 1 /\ h[t][m + 1] = log[t].cycle /\ m \in Nat
  BY <1>1, <1>7
<1>9. Begins(h[t], h[n])
  BY <1>2, <1>4, RaisesGrow
<1>10. m + 1 \in 1..Len(h[n]) /\ h[n][m + 1] = log[t].cycle
  <2>1. m + 1 <= Len(h[n]) /\ \A i \in 1..(m + 1) : h[n][i] = h[t][i]
    BY <1>8, <1>9 DEF Begins
  <2> HIDE DEF m
  <2>2. m + 1 \in 1..(m + 1)
    BY <1>8
  <2> QED
    BY <1>1, <1>8, <2>1, <2>2
<1>11. m # 0 => h[n][m] <= h[n][m + 1]
  <2>1. m # 0 => m \in 1..(m + 1)
    BY <1>8
  <2> QED
    BY <1>2, <1>10, <2>1 DEF Ordered
<1> QED
  BY <1>8, <1>10, <1>11

(* The host's state after it.                                               *)
AtRaise(x, g, log, w, t, q) ==
    /\ Shaped(x) /\ x.cycle = g.cycle /\ x.pos = q /\ x.scan = t /\ x.prev = log[t].cycle /\ x.state = w[q]
    /\ x.waited = 0 /\ x.idle = FALSE
    /\ x.out = IF g.prev = -1 THEN g.out ELSE g.out \o [i \in 1..Gap(g.prev, log[t].cycle, Cpf) |-> w[q]]

LEMMA FoundTurn ==
    ASSUME NEW n \in Nat, NEW log, NEW chip, NEW source, NEW h, NEW w, NEW grid,
           Hosted(log, n, chip, source, h, w, grid), NEW g, HostOK(g, log, grid, h, w, n),
           NEW k \in 0..n, UntilAt(log, n, g.cycle, k), NEW t, Found(g, log, source, k, t)
    PROVE  \E q \in 0..n : /\ AtRaise(_frames(log, g, chip, source, Cpf), g, log, w, t, q)
                           /\ \A l \in 1..n : l <= q <=> log[l].cycle < log[t].cycle
<1> DEFINE m == Len(h[g.scan])
           at == log[t].cycle
           raw == Logged(log, g)
           found == {l \in (g.scan + 1)..Len(raw) : raw[l].chip = Irq /\ raw[l].value = source}
<1>1. /\ g.scan \in 0..k /\ g.pos \in 0..k /\ m \in 0..Len(h[n])
      /\ \A l \in 1..n : log[l].cycle \in Nat
  BY HostAt
<1>2. t \in (g.scan + 1)..k /\ Raising(source, log[t]) /\ \A l \in (g.scan + 1)..(t - 1) : ~Raising(source, log[l])
  BY DEF Found, Silent
<1>3. /\ raw = [l \in 1..k |-> raw[l]] /\ \A l \in 1..k : raw[l] = log[l]
      /\ \A l \in 1..n : l <= k <=> log[l].cycle < g.cycle
  BY DEF UntilAt, TraceOf, Logged
<1>4. /\ Shaped(g) /\ g.idle = FALSE /\ g.cycle \in Nat /\ g.state = w[g.pos]
      /\ IF m = 0 THEN BeforeRaise(g) ELSE AfterRaise(g, log, grid, h[n], n, m)
  BY DEF HostOK
<1>5. TraceOf(log, n) /\ WriteRun(w, chip, Zero, log, n)
  BY DEF Hosted
<1>6. m # 0 => h[n][m] <= at
  BY FoundRaise
<1>7. t \in 1..k /\ t \in 1..n /\ at \in Nat /\ at < g.cycle
  BY <1>1, <1>2, <1>3
<1> HIDE DEF raw
<1>8. Len(raw) = k
  BY <1>3, SequenceOf
<1>9. Min(found) = t
  <2>1. found \in SUBSET Int
    BY <1>1
  <2>2. t \in found
    BY <1>2, <1>3, <1>7, <1>8 DEF Raising
  <2>3. ASSUME NEW l \in found PROVE t <= l
    <3>1. l \in (g.scan + 1)..k /\ l \in 1..k /\ Raising(source, log[l])
      BY <1>1, <1>3, <1>8 DEF Raising
    <3>2. l \notin (g.scan + 1)..(t - 1)
      BY <1>2, <3>1
    <3> QED
      BY <1>1, <1>2, <3>1, <3>2
  <2> HIDE DEF found
  <2> QED
    BY <2>1, <2>2, <2>3, LeastIs
<1>10. found # {} /\ raw[Min(found)].cycle = at
  <2>1. t \in found
    BY <1>2, <1>3, <1>7, <1>8 DEF Raising
  <2> QED
    BY <1>3, <1>7, <1>9, <2>1
<1>11. PICK q \in 0..n : UntilAt(log, n, at, q)
  BY <1>5, <1>7, UntilIs
<1>12. \A l \in 1..n : l <= q <=> log[l].cycle < at
  BY <1>11 DEF UntilAt
<1>13. q \in g.pos..k
  <2>1. q <= k
    <3>1. CASE q = 0
      BY <3>1
    <3>2. CASE q # 0
      <4>1. q \in 1..n /\ q <= q
        BY <3>2
      <4>2. log[q].cycle < at /\ log[q].cycle \in Nat
        BY <1>1, <1>12, <4>1
      <4>3. log[q].cycle < g.cycle
        BY <1>4, <1>7, <4>2
      <4> QED
        BY <1>3, <4>1, <4>3
    <3> QED
      BY <3>1, <3>2
  <2>2. g.pos <= q
    <3>1. CASE g.pos = 0
      BY <3>1
    <3>2. CASE g.pos # 0
      <4>1. g.pos \in 1..n /\ g.pos <= g.pos
        BY <1>1, <3>2
      <4>2. m # 0 /\ \A l \in 1..n : l <= g.pos <=> log[l].cycle < h[n][m]
        BY <1>4, <3>2 DEF BeforeRaise, AfterRaise
      <4>3. log[g.pos].cycle < h[n][m] /\ h[n][m] <= at /\ log[g.pos].cycle \in Nat /\ h[n][m] \in Nat
        <5>1. h[n] \in Seq(Nat)
          BY HostAt
        <5>2. m \in 1..Len(h[n])
          BY <1>1, <4>2
        <5> HIDE DEF m, at
        <5>3. h[n][m] \in Nat
          BY <5>1, <5>2
        <5> QED
          BY <1>1, <1>6, <4>1, <4>2, <5>3
      <4>4. log[g.pos].cycle < at
        BY <1>7, <4>3
      <4> QED
        BY <1>12, <4>1, <4>4
    <3> QED
      BY <3>1, <3>2
  <2> QED
    BY <1>1, <2>1, <2>2
<1> DEFINE seen == [g EXCEPT !.scan = t, !.waited = 0, !.cycle = Largest(@, at + 1)]
           up == apply(log, seen, chip, at)
<1>14. _frames(log, g, chip, source, Cpf) = at_raise(log, g, chip, t, Cpf)
  BY <1>9, <1>10 DEF _frames, raw
<1>15. at_raise(log, g, chip, t, Cpf) =
         [up EXCEPT !.prev = at,
                    !.out = IF g.prev = -1 THEN @ ELSE @ \o [i \in 1..Gap(g.prev, at, Cpf) |-> up.state]]
  <2>1. Logged(log, g)[t].cycle = at
    BY <1>3, <1>7 DEF raw
  <2> HIDE DEF at
  <2> QED
    BY <2>1 DEF at_raise
<1>16. /\ Shaped(seen) /\ seen.cycle = g.cycle /\ seen.pos = g.pos /\ seen.scan = t /\ seen.prev = g.prev
       /\ seen.state = g.state /\ seen.waited = 0 /\ seen.out = g.out /\ seen.idle = g.idle
  <2>1. Largest(g.cycle, at + 1) = g.cycle
    BY <1>4, <1>7 DEF Largest
  <2> HIDE DEF m, at, found
  <2> QED
    BY <1>4, <2>1 DEF Shaped
<1> HIDE DEF seen, m, found
<1>17. Applying(log, n, chip, w, seen, k, g.pos, at, q)
  <2>1. \A l \in (g.pos + 1)..k : l \in 1..n
    BY <1>1
  <2> QED
    BY <1>1, <1>4, <1>5, <1>7, <1>12, <1>13, <1>16, <2>1 DEF Applying
<1> HIDE DEF at
<1>18. up = Moved(seen, w, q)
  BY <1>17, ApplyIs
<1> HIDE DEF up
<1>19. /\ Shaped(up) /\ up.cycle = g.cycle /\ up.pos = q /\ up.scan = t /\ up.prev = g.prev
       /\ up.state = w[q] /\ up.waited = 0 /\ up.out = g.out /\ up.idle = FALSE
  BY <1>4, <1>16, <1>18 DEF Shaped, Moved
<1>20. AtRaise(_frames(log, g, chip, source, Cpf), g, log, w, t, q)
  <2> DEFINE x == _frames(log, g, chip, source, Cpf)
             new == IF g.prev = -1 THEN g.out ELSE g.out \o [i \in 1..Gap(g.prev, at, Cpf) |-> w[q]]
  <2>1. x = [up EXCEPT !.prev = at, !.out = new]
    BY <1>14, <1>15, <1>19
  <2> HIDE DEF x, new
  <2>2. /\ Shaped(x) /\ x.cycle = g.cycle /\ x.pos = q /\ x.scan = t /\ x.prev = at /\ x.state = w[q]
        /\ x.waited = 0 /\ x.idle = FALSE /\ x.out = new
    BY <1>19, <2>1 DEF Shaped
  <2> QED
    BY <2>2 DEF AtRaise, x, new, at
<1> QED
  BY <1>12, <1>20 DEF at

LEMMA FoundStep ==
    ASSUME NEW n \in Nat, NEW log, NEW chip, NEW source, NEW h, NEW w, NEW grid,
           Hosted(log, n, chip, source, h, w, grid), NEW g, HostOK(g, log, grid, h, w, n),
           NEW k \in 0..n, UntilAt(log, n, g.cycle, k), NEW t, Found(g, log, source, k, t)
    PROVE  HostOK(_frames(log, g, chip, source, Cpf), log, grid, h, w, n)
<1> DEFINE x == _frames(log, g, chip, source, Cpf)
           m == Len(h[g.scan])
           R == h[n]
           F == _raise_frames(R, Cpf)
           at == log[t].cycle
           T == {w[i] : i \in 0..n}
<1>1. PICK q \in 0..n : AtRaise(x, g, log, w, t, q) /\ \A l \in 1..n : l <= q <=> log[l].cycle < at
  BY FoundTurn
<1>2. /\ Shaped(x) /\ x.cycle = g.cycle /\ x.pos = q /\ x.scan = t /\ x.prev = at /\ x.state = w[q]
      /\ x.waited = 0 /\ x.idle = FALSE
      /\ x.out = IF g.prev = -1 THEN g.out ELSE g.out \o [i \in 1..Gap(g.prev, at, Cpf) |-> w[q]]
  BY <1>1 DEF AtRaise
<1>3. /\ g.scan \in 0..k /\ m \in 0..Len(R) /\ R \in Seq(Nat) /\ \A l \in 1..n : log[l].cycle \in Nat
  BY HostAt
<1>4. /\ Len(h[t]) = m + 1 /\ m + 1 \in 1..Len(R) /\ R[m + 1] = at
  BY FoundRaise
<1>5. /\ g.cycle \in Nat /\ g.out \in Seq(T)
      /\ IF m = 0 THEN BeforeRaise(g) ELSE AfterRaise(g, log, grid, R, n, m)
  BY DEF HostOK
<1>6. t \in (g.scan + 1)..k
  BY DEF Found
<1>7. /\ \A l \in 1..n : l <= k <=> log[l].cycle < g.cycle
      /\ InOrder(log, n) /\ Ordered(R, Len(R)) /\ Len(R) \in Nat
  BY DEF UntilAt, Hosted
<1> HIDE DEF x, m
<1>8. t \in 0..n /\ t \in 1..n /\ at \in Nat /\ at < g.cycle
  BY <1>3, <1>6, <1>7
<1>9. \A l \in 1..t : log[l].cycle < g.cycle
  <2>1. \A l \in 1..t : l \in 1..n /\ l <= k
    BY <1>3, <1>6
  <2> QED
    BY <1>7, <2>1
<1>10. /\ F[1] = 0 /\ F[m + 1] \in Nat /\ (m # 0 => F[m] \in Nat /\ F[m + 1] = F[m] + Gap(R[m], R[m + 1], Cpf))
       /\ (m # 0 => Gap(R[m], R[m + 1], Cpf) \in Nat \ {0})
  <2>1. /\ DOMAIN R = 1..Len(R) /\ \A i \in 1..Len(R) : R[i] \in Nat
    BY <1>7 DEF Ordered
  <2>2. /\ \A i \in 1..Len(R) : F[i] \in Nat
        /\ Len(R) # 0 => F[1] = 0
        /\ \A i \in 2..Len(R) : F[i] = F[i - 1] + Gap(R[i - 1], R[i], Cpf)
    <3>1. FramesOK(F, R, Len(R))
      BY <1>7, FramesAre
    <3> QED
      BY <3>1 DEF FramesOK
  <2> HIDE DEF R, F
  <2>3. Len(R) # 0
    BY <1>4, <1>7
  <2>4. m # 0 => m \in 1..Len(R) /\ m + 1 \in 2..Len(R) /\ (m + 1) - 1 = m
    BY <1>3, <1>4
  <2>5. m # 0 => F[m] \in Nat /\ F[m + 1] = F[m] + Gap(R[m], R[m + 1], Cpf)
    BY <2>2, <2>4
  <2>6. m # 0 => Gap(R[m], R[m + 1], Cpf) \in Nat \ {0}
    BY <1>4, <2>1, <2>4, GapIs, CadenceAssumption
  <2> QED
    BY <1>4, <2>2, <2>3, <2>5, <2>6
<1> HIDE DEF T, R, F, at
<1>11. /\ x.out \in Seq(T) /\ Len(x.out) = F[m + 1]
       /\ \A j \in 1..Len(x.out) : x.out[j] = Filled(grid, j)
  <2>1. CASE m = 0
    <3>1. g.prev = -1 /\ g.out = <<>>
      BY <1>5, <2>1 DEF BeforeRaise
    <3> QED
      BY <1>2, <1>5, <1>10, <2>1, <3>1
  <2>2. CASE m # 0
    <3> DEFINE d == Gap(g.prev, at, Cpf)
               old == g.out
               new == [i \in 1..d |-> w[q]]
    <3>1. g.prev = R[m] /\ Len(g.out) = F[m] /\ \A j \in 1..Len(g.out) : g.out[j] = Filled(grid, j)
      BY <1>5, <2>2 DEF AfterRaise, F
    <3>2. R[m] \in Nat
      <4>1. m \in 1..Len(R)
        BY <1>3, <2>2
      <4> QED
        BY <1>3, <4>1
    <3>3. x.out = old \o new
      <4>1. g.prev # -1
        BY <3>1, <3>2
      <4> QED
        BY <1>2, <4>1
    <3>4. d \in Nat \ {0} /\ F[m + 1] = F[m] + d /\ F[m] \in Nat
      BY <1>4, <1>10, <2>2, <3>1
    <3> HIDE DEF d
    <3>5. w[q] \in T
      BY DEF T
    <3>6. new \in Seq(T) /\ Len(new) = d /\ \A i \in 1..d : new[i] = w[q]
      BY <3>4, <3>5
    <3>7. old \in Seq(T) /\ Len(old) = F[m] /\ \A j \in 1..Len(old) : old[j] = Filled(grid, j)
      BY <1>5, <3>1
    <3> HIDE DEF old, new
    <3>8. /\ x.out \in Seq(T) /\ Len(x.out) = F[m] + d
          /\ \A j \in 1..(F[m] + d) : x.out[j] = IF j <= F[m] THEN old[j] ELSE new[j - F[m]]
      <4>1. /\ old \o new \in Seq(T) /\ Len(old \o new) = Len(old) + Len(new)
            /\ \A j \in 1..(Len(old) + Len(new)) :
                  (old \o new)[j] = IF j <= Len(old) THEN old[j] ELSE new[j - Len(old)]
        BY <3>6, <3>7, ConcatProperties
      <4> QED
        BY <3>3, <3>6, <3>7, <4>1
    <3>9. ASSUME NEW j \in 1..(F[m] + d) PROVE x.out[j] = Filled(grid, j)
      <4>1. CASE j <= F[m]
        <5>1. j \in 1..Len(old)
          BY <3>4, <3>7, <4>1
        <5> QED
          BY <3>7, <3>8, <4>1, <5>1
      <4>2. CASE ~(j <= F[m])
        <5>1. j - F[m] \in 1..d
          BY <3>4, <4>2
        <5>2. x.out[j] = w[q]
          BY <3>6, <3>8, <4>2, <5>1
        <5>3. m + 1 \in 2..Len(R) /\ (m + 1) - 1 = m
          BY <1>3, <1>4, <1>7, <2>2
        <5> DEFINE i == m + 1
        <5>4. InFrame(log, n, h[n], i, q, j)
          <6>1. F[m] < j /\ j <= F[m + 1] /\ j \in Nat
            BY <3>4, <4>2
          <6> QED
            BY <1>1, <1>4, <5>3, <6>1 DEF InFrame, R, F
        <5> HIDE DEF i
        <5>5. Filled(grid, j) = w[q]
          BY <5>4, NewRows
        <5> QED
          BY <5>2, <5>5
      <4> QED
        BY <4>1, <4>2
    <3> QED
      BY <3>4, <3>8, <3>9
  <2> QED
    BY <2>1, <2>2
<1>12. AfterRaise(x, log, grid, R, n, m + 1)
  <2>1. x.cycle >= R[m + 1] + 1 + x.waited * Cpf
    <3>1. x.waited * Cpf = 0
      BY <1>2, Waits, CadenceAssumption
    <3> QED
      BY <1>2, <1>4, <1>5, <1>8, <3>1
  <2> QED
    BY <1>1, <1>2, <1>4, <1>11, <2>1 DEF AfterRaise, F
<1>13. Len(h[x.scan]) = m + 1 /\ m + 1 # 0
  BY <1>2, <1>3, <1>4
<1> QED
  BY <1>2, <1>5, <1>8, <1>9, <1>11, <1>12, <1>13 DEF HostOK, T, R, x

Scanned(g, k) == [g EXCEPT !.scan = k]
Waited(g) == [g EXCEPT !.cycle = @ + Cpf, !.waited = @ + 1]

(* No raise is logged that the host has not seen.                           *)
LEMMA NoneFound ==
    ASSUME NEW n \in Nat, NEW log, NEW chip, NEW source, NEW h, NEW w, NEW grid,
           Hosted(log, n, chip, source, h, w, grid), NEW g, HostOK(g, log, grid, h, w, n),
           NEW k \in 0..n, UntilAt(log, n, g.cycle, k), Silent(source, log, g.scan, k)
    PROVE  /\ h[k] = h[g.scan]
           /\ _frames(log, g, chip, source, Cpf) =
                IF g.waited > MaxWait THEN at_rest(log, Scanned(g, k), chip, Cpf) ELSE Waited(Scanned(g, k))
<1> DEFINE raw == Logged(log, g)
           found == {l \in (g.scan + 1)..Len(raw) : raw[l].chip = Irq /\ raw[l].value = source}
<1>1. g.scan \in 0..k
  BY HostAt
<1>2. raw = [l \in 1..k |-> raw[l]] /\ \A l \in 1..k : raw[l] = log[l]
  BY DEF UntilAt, TraceOf, Logged
<1> HIDE DEF raw
<1>3. Len(raw) = k
  BY <1>2, SequenceOf
<1>4. ASSUME NEW l \in found PROVE FALSE
  <2>1. l \in (g.scan + 1)..k /\ l \in 1..k /\ Raising(source, raw[l])
    BY <1>1, <1>3 DEF Raising
  <2> QED
    BY <1>2, <2>1 DEF Silent
<1>5. found = {}
  BY <1>4
<1>6. h[k] = h[g.scan]
  <2>1. g.scan \in 0..n /\ k \in g.scan..n
    BY <1>1
  <2> QED
    BY <2>1, NoRaise DEF Hosted
<1> QED
  BY <1>3, <1>5, <1>6 DEF _frames, raw, Scanned, Waited

LEMMA WaitStep ==
    ASSUME NEW n \in Nat, NEW log, NEW chip, NEW source, NEW h, NEW w, NEW grid,
           Hosted(log, n, chip, source, h, w, grid), NEW g, HostOK(g, log, grid, h, w, n),
           NEW k \in 0..n, UntilAt(log, n, g.cycle, k), Silent(source, log, g.scan, k), ~(g.waited > MaxWait)
    PROVE  HostOK(_frames(log, g, chip, source, Cpf), log, grid, h, w, n)
<1> DEFINE x == _frames(log, g, chip, source, Cpf)
           m == Len(h[g.scan])
<1>1. h[k] = h[g.scan] /\ x = Waited(Scanned(g, k))
  BY NoneFound
<1>2. /\ Shaped(g) /\ g.idle = FALSE /\ g.cycle \in Nat /\ g.waited \in Nat /\ g.pos \in 0..n
      /\ g.out \in Seq({w[i] : i \in 0..n}) /\ g.state = w[g.pos]
      /\ IF m = 0 THEN BeforeRaise(g) ELSE AfterRaise(g, log, grid, h[n], n, m)
  BY DEF HostOK
<1>3. \A l \in 1..n : l <= k <=> log[l].cycle < g.cycle
  BY DEF UntilAt
<1>4. /\ m \in 0..Len(h[n]) /\ h[n] \in Seq(Nat) /\ \A l \in 1..n : log[l].cycle \in Nat
  BY HostAt
<1>5. Cpf \in Nat
  BY CadenceAssumption
<1> HIDE DEF x
<1>6. /\ Shaped(x) /\ x.cycle = g.cycle + Cpf /\ x.waited = g.waited + 1 /\ x.scan = k /\ x.pos = g.pos
      /\ x.prev = g.prev /\ x.state = g.state /\ x.out = g.out /\ x.idle = FALSE
  <2> DEFINE none == [g EXCEPT !.scan = k]
  <2>1. x = [none EXCEPT !.cycle = @ + Cpf, !.waited = @ + 1]
    BY <1>1 DEF Scanned, Waited
  <2>2. /\ Shaped(none) /\ none.cycle = g.cycle /\ none.waited = g.waited /\ none.scan = k /\ none.pos = g.pos
        /\ none.prev = g.prev /\ none.state = g.state /\ none.out = g.out /\ none.idle = FALSE
    BY <1>2 DEF Shaped
  <2> HIDE DEF none
  <2> QED
    BY <2>1, <2>2 DEF Shaped
<1>7. \A l \in 1..k : log[l].cycle < x.cycle
  <2>1. ASSUME NEW l \in 1..k PROVE log[l].cycle < x.cycle
    <3>1. l \in 1..n /\ log[l].cycle < g.cycle /\ log[l].cycle \in Nat
      BY <1>3, <1>4
    <3> QED
      BY <1>2, <1>5, <1>6, <3>1
  <2> QED
    BY <2>1
<1>8. g.waited * Cpf \in Nat /\ x.waited * Cpf = g.waited * Cpf + Cpf
  BY <1>2, <1>5, <1>6, Waits
<1>9. Len(h[x.scan]) = m
  BY <1>1, <1>6
<1> HIDE DEF m
<1>10. CASE m = 0
  <2>1. BeforeRaise(x)
    BY <1>2, <1>5, <1>6, <1>8, <1>10 DEF BeforeRaise
  <2> QED
    BY <1>2, <1>5, <1>6, <1>7, <1>9, <1>10, <2>1 DEF HostOK, x
<1>11. CASE m # 0
  <2>1. AfterRaise(g, log, grid, h[n], n, m)
    BY <1>2, <1>11
  <2>2. h[n][m] \in Nat
    <3>1. m \in 1..Len(h[n])
      BY <1>4, <1>11
    <3> QED
      BY <1>4, <3>1
  <2>3. x.cycle >= h[n][m] + 1 + x.waited * Cpf
    <3>1. g.cycle >= h[n][m] + 1 + g.waited * Cpf
      BY <2>1 DEF AfterRaise
    <3> DEFINE a == h[n][m]
               b == g.waited * Cpf
               c == x.waited * Cpf
    <3>2. a \in Nat /\ b \in Nat /\ c = b + Cpf /\ g.cycle >= a + 1 + b /\ x.cycle = g.cycle + Cpf
      BY <1>6, <1>8, <2>2, <3>1
    <3> HIDE DEF a, b, c
    <3>3. x.cycle >= a + 1 + c
      BY <1>2, <1>5, <3>2
    <3> QED
      BY <3>3 DEF a, c
  <2>4. AfterRaise(x, log, grid, h[n], n, m)
    BY <1>6, <2>1, <2>3 DEF AfterRaise
  <2> QED
    BY <1>2, <1>5, <1>6, <1>7, <1>9, <1>11, <2>4 DEF HostOK, x
<1> QED
  BY <1>10, <1>11

LEMMA Longer ==
    ASSUME NEW a \in Nat, NEW b \in Nat, NEW c \in Nat, a > b
    PROVE  a * c >= c * b + c
<1>1. PICK d \in Nat : a = b + 1 + d
  <2>1. a - b - 1 \in Nat /\ a = b + 1 + (a - b - 1)
    OBVIOUS
  <2> QED
    BY <2>1
<1>2. a * c = c * b + c + d * c /\ d * c \in Nat /\ c * b \in Nat
  BY <1>1
<1> QED
  BY <1>2

(* When the host rests it has seen the whole trace, if it was held.         *)
LEMMA RestAtEnd ==
    ASSUME NEW n \in Nat, NEW log, NEW chip, NEW source, NEW h, NEW w, NEW grid,
           Hosted(log, n, chip, source, h, w, grid), NEW g, HostOK(g, log, grid, h, w, n),
           NEW k \in 0..n, UntilAt(log, n, g.cycle, k), Silent(source, log, g.scan, k), g.waited > MaxWait,
           Held(log, h[n])
    PROVE  k = n /\ Len(h[g.scan]) = Len(h[n]) /\ Len(h[n]) # 0
<1> DEFINE m == Len(h[g.scan])
           R == h[n]
           a == Cpf * MaxWait
           b == g.waited * Cpf
<1>1. /\ g.cycle \in Nat /\ g.waited \in Nat
      /\ IF m = 0 THEN BeforeRaise(g) ELSE AfterRaise(g, log, grid, R, n, m)
  BY DEF HostOK
<1>2. /\ R # <<>> /\ R[1] <= a /\ \A i \in 2..Len(R) : R[i] - R[i - 1] <= a
      /\ log[Len(log)].cycle - R[Len(R)] <= a
  BY DEF Held
<1>3. /\ m \in 0..Len(R) /\ R \in Seq(Nat) /\ \A l \in 1..n : log[l].cycle \in Nat
  BY HostAt
<1>4. \A l \in 1..n : l <= k <=> log[l].cycle < g.cycle
  BY DEF UntilAt
<1>5. h[k] = h[g.scan]
  BY NoneFound
<1>6. RaisedLater(h, source, log, n, k)
  BY RaisesInOrder DEF Hosted
<1>7. a \in Nat /\ b >= a + Cpf /\ Cpf \in Nat \ {0} /\ b \in Nat
  <2>1. Cpf \in Nat \ {0} /\ MaxWait \in Nat
    BY CadenceAssumption, FramingAssumption
  <2> HIDE DEF a, b
  <2>2. a \in Nat /\ b \in Nat
    BY <1>1, <2>1 DEF a, b
  <2>3. b >= a + Cpf
    BY <1>1, <2>1, Longer DEF a, b
  <2> QED
    BY <2>1, <2>2, <2>3
<1>8. Len(log) = n
  BY SequenceOf DEF Hosted, TraceOf
<1>9. \A i \in (m + 1)..Len(R) : \E p \in (k + 1)..n : R[i] = log[p].cycle
  BY <1>5, <1>6 DEF RaisedLater
<1>10. m = 0 => g.cycle >= b
  BY <1>1 DEF BeforeRaise
<1>11. m # 0 => g.cycle >= R[m] + 1 + b
  BY <1>1 DEF AfterRaise
<1> HIDE DEF a, b, R, m
<1>12. Len(R) \in Nat /\ Len(R) # 0 /\ \A i \in 1..Len(R) : R[i] \in Nat
  BY <1>2, <1>3
<1>13. ASSUME NEW p \in (k + 1)..n PROVE log[p].cycle >= g.cycle /\ log[p].cycle \in Nat
  <2>1. p \in 1..n /\ ~(p <= k)
    OBVIOUS
  <2> QED
    BY <1>1, <1>3, <1>4, <2>1
<1>14. m = Len(R)
  <2> SUFFICES ASSUME m # Len(R) PROVE FALSE
    OBVIOUS
  <2>1. m + 1 \in (m + 1)..Len(R) /\ m + 1 \in 1..Len(R)
    BY <1>3, <1>12
  <2>2. R[m + 1] >= g.cycle /\ R[m + 1] \in Nat
    BY <1>9, <1>13, <2>1
  <2>3. CASE m = 0
    <3>1. R[m + 1] = R[1]
      BY <2>3
    <3> QED
      BY <1>1, <1>2, <1>7, <1>10, <2>2, <2>3, <3>1
  <2>4. CASE m # 0
    <3>1. m + 1 \in 2..Len(R) /\ (m + 1) - 1 = m /\ m \in 1..Len(R)
      BY <1>3, <2>1, <2>4
    <3>2. R[m + 1] - R[m] <= a /\ R[m] \in Nat
      BY <1>2, <1>12, <3>1
    <3> QED
      BY <1>1, <1>7, <1>11, <2>2, <2>4, <3>2
  <2> QED
    BY <2>3, <2>4
<1>15. k = n
  <2> SUFFICES ASSUME k # n PROVE FALSE
    OBVIOUS
  <2>1. n \in (k + 1)..n
    OBVIOUS
  <2>2. log[n].cycle >= g.cycle /\ log[n].cycle \in Nat
    BY <1>13, <2>1
  <2>3. g.cycle >= R[m] + 1 + b /\ R[m] \in Nat /\ log[n].cycle - R[m] <= a
    <3>1. m # 0 /\ m \in 1..Len(R)
      BY <1>12, <1>14
    <3> QED
      BY <1>2, <1>8, <1>11, <1>12, <1>14, <3>1
  <2> QED
    BY <1>1, <1>7, <2>2, <2>3
<1> QED
  BY <1>12, <1>14, <1>15 DEF m, R

LEMMA RestStep ==
    ASSUME NEW n \in Nat, NEW log, NEW chip, NEW source, NEW h, NEW w, NEW grid,
           Hosted(log, n, chip, source, h, w, grid), NEW g, HostOK(g, log, grid, h, w, n),
           NEW k \in 0..n, UntilAt(log, n, g.cycle, k), Silent(source, log, g.scan, k), g.waited > MaxWait
    PROVE  IdleOK(_frames(log, g, chip, source, Cpf), log, grid, h[n])
<1> DEFINE x == _frames(log, g, chip, source, Cpf)
           none == Scanned(g, k)
           over == apply(log, none, chip, none.cycle + 1)
           T == {w[i] : i \in 0..n}
<1>1. x = at_rest(log, none, chip, Cpf)
  BY NoneFound
<1>2. /\ Shaped(g) /\ g.cycle \in Nat /\ g.state = w[g.pos] /\ g.out \in Seq(T)
  BY DEF HostOK
<1>3. g.pos \in 0..k /\ \A l \in 1..n : log[l].cycle \in Nat
  BY HostAt
<1>4. /\ Shaped(none) /\ none.cycle = g.cycle /\ none.pos = g.pos /\ none.state = g.state /\ none.out = g.out
  BY <1>2 DEF Shaped, Scanned
<1> HIDE DEF none
<1>5. Applying(log, n, chip, w, none, k, g.pos, none.cycle + 1, k)
  <2>1. \A l \in (g.pos + 1)..k : l <= k <=> log[l].cycle < none.cycle + 1
    <3>1. ASSUME NEW l \in (g.pos + 1)..k PROVE l <= k /\ log[l].cycle < none.cycle + 1
      <4>1. l \in 1..n /\ l <= k
        BY <1>3
      <4>2. log[l].cycle < g.cycle /\ log[l].cycle \in Nat
        BY <1>3, <4>1 DEF UntilAt
      <4> QED
        BY <1>2, <1>4, <4>1, <4>2
    <3> QED
      BY <3>1
  <2>2. none.cycle + 1 \in Nat /\ k \in g.pos..k /\ WriteRun(w, chip, Zero, log, n)
    BY <1>2, <1>3, <1>4 DEF Hosted
  <2>3. none.state = w[g.pos] /\ UntilAt(log, n, none.cycle, k)
    BY <1>2, <1>4
  <2> QED
    BY <1>3, <1>4, <2>1, <2>2, <2>3 DEF Applying
<1>6. over = Moved(none, w, k)
  <2> DEFINE until == none.cycle + 1
  <2>1. Applying(log, n, chip, w, none, k, g.pos, until, k)
    BY <1>5
  <2> HIDE DEF until
  <2>2. apply(log, none, chip, until) = Moved(none, w, k)
    BY <2>1, ApplyIs
  <2> QED
    BY <2>2 DEF until
<1>7. x = [over EXCEPT !.cycle = @ + Cpf, !.out = Append(@, over.state), !.idle = TRUE]
  BY <1>1 DEF at_rest
<1> HIDE DEF over, x
<1>8. Shaped(over) /\ over.state = w[k] /\ over.out = g.out
  BY <1>4, <1>6 DEF Shaped, Moved
<1>9. x.out = Append(g.out, w[k]) /\ x.idle = TRUE
  BY <1>7, <1>8 DEF Shaped
<1>10. ASSUME Held(log, h[n])
       PROVE  /\ Len(x.out) - 1 = _raise_frames(h[n], Cpf)[Len(h[n])]
              /\ \A i \in 1..(Len(x.out) - 1) : x.out[i] = Filled(grid, i)
              /\ x.out[Len(x.out)] = grid[Len(grid)]
  <2>1. k = n /\ Len(h[g.scan]) = Len(h[n]) /\ Len(h[n]) # 0
    BY <1>10, RestAtEnd
  <2>2. AfterRaise(g, log, grid, h[n], n, Len(h[n]))
    BY <2>1 DEF HostOK
  <2>3. Len(g.out) = _raise_frames(h[n], Cpf)[Len(h[n])] /\ \A i \in 1..Len(g.out) : g.out[i] = Filled(grid, i)
    BY <2>2 DEF AfterRaise
  <2>4. w[k] \in T
    OBVIOUS
  <2> HIDE DEF T
  <2>5. /\ Len(x.out) = Len(g.out) + 1 /\ x.out[Len(x.out)] = w[k] /\ Len(g.out) \in Nat
        /\ \A i \in 1..Len(g.out) : x.out[i] = g.out[i]
    BY <1>2, <1>9, <2>4
  <2>6. Len(x.out) - 1 = Len(g.out)
    BY <2>5
  <2>7. grid[Len(grid)] = w[n]
    BY DEF Hosted
  <2> QED
    BY <2>1, <2>3, <2>5, <2>6, <2>7
<1> QED
  BY <1>9, <1>10 DEF IdleOK, x

LEMMA HostStep ==
    ASSUME NEW n \in Nat, NEW log, NEW chip, NEW source, NEW h, NEW w, NEW grid,
           Hosted(log, n, chip, source, h, w, grid), NEW g, HostOK(g, log, grid, h, w, n)
    PROVE  LET x == _frames(log, g, chip, source, Cpf)
           IN  HostOK(x, log, grid, h, w, n) \/ IdleOK(x, log, grid, h[n])
<1> DEFINE x == _frames(log, g, chip, source, Cpf)
<1>1. g.cycle \in Nat /\ g.waited \in Nat
  BY DEF HostOK
<1>2. PICK k \in 0..n : UntilAt(log, n, g.cycle, k)
  BY <1>1, UntilIs DEF Hosted
<1>3. g.scan \in 0..k
  BY <1>2, HostAt
<1> DEFINE N == {d \in Nat : d <= k - g.scan =>
                    Silent(source, log, g.scan, g.scan + d) \/ \E t : Found(g, log, source, k, t)}
<1>4. 0 \in N
  BY <1>3 DEF Silent
<1>5. ASSUME NEW d \in N PROVE d + 1 \in N
  <2>1. SUFFICES ASSUME d + 1 <= k - g.scan, ~\E t : Found(g, log, source, k, t)
                 PROVE  Silent(source, log, g.scan, g.scan + (d + 1))
    OBVIOUS
  <2> DEFINE p == g.scan + d
  <2>2. d <= k - g.scan
    BY <1>3, <2>1
  <2>3. Silent(source, log, g.scan, p)
    BY <2>1, <2>2
  <2>4. p + 1 \in (g.scan + 1)..k /\ (p + 1) - 1 = p /\ g.scan + (d + 1) = p + 1
    BY <1>3, <2>1
  <2> HIDE DEF p
  <2>5. ~Raising(source, log[p + 1])
    BY <2>1, <2>3, <2>4 DEF Found
  <2>6. \A l \in (g.scan + 1)..(p + 1) : l = p + 1 \/ l \in (g.scan + 1)..p
    BY <1>3, <2>4
  <2> QED
    BY <2>3, <2>4, <2>5, <2>6 DEF Silent
<1> HIDE DEF N
<1>6. k - g.scan \in Nat /\ g.scan + (k - g.scan) = k
  BY <1>3
<1>7. k - g.scan \in N
  BY <1>4, <1>5, <1>6, Induction DEF N
<1>8. Silent(source, log, g.scan, k) \/ \E t : Found(g, log, source, k, t)
  BY <1>6, <1>7 DEF N
<1>9. CASE \E t : Found(g, log, source, k, t)
  BY <1>2, <1>9, FoundStep
<1>10. CASE Silent(source, log, g.scan, k) /\ g.waited > MaxWait
  BY <1>2, <1>10, RestStep
<1>11. CASE Silent(source, log, g.scan, k) /\ ~(g.waited > MaxWait)
  BY <1>2, <1>11, WaitStep
<1> QED
  BY <1>8, <1>9, <1>10, <1>11

(* What the host frames, and the oracle's grid of it.                       *)
StateOK ==
    /\ DOMAIN s = {"area", "log", "chip", "source", "grid", "host"}
    /\ s.log \in Logs /\ s.source = Source(s.log, s.chip) /\ s.grid = sidtrace_grid(s.log, s.chip, Cpf)
HostInv == s.area = "host" =>
    /\ StateOK
    /\ \E h, w : /\ Hosted(s.log, Len(s.log), s.chip, s.source, h, w, s.grid)
                 /\ raise_cycles(s.log, s.source) = h[Len(s.log)]
                 /\ \/ HostOK(s.host, s.log, s.grid, h, w, Len(s.log))
                    \/ IdleOK(s.host, s.log, s.grid, h[Len(s.log)])

LEMMA LogsAre ==
    ASSUME NEW log \in Logs
    PROVE  Len(log) \in Nat \ {0} /\ TraceOf(log, Len(log)) /\ InOrder(log, Len(log))
<1>1. /\ Len(log) \in Nat \ {0} /\ log = [k \in 1..Len(log) |-> log[k]]
      /\ \A k \in 1..Len(log) : log[k].cycle \in Nat /\ \A m \in 1..k : log[m].cycle <= log[k].cycle
  BY LogAssumption
<1> DEFINE n == Len(log)
<1> HIDE DEF n
<1>2. log = [k \in 1..n |-> log[k]] => DOMAIN log = 1..n
  OBVIOUS
<1>3. DOMAIN log = 1..Len(log)
  BY <1>1, <1>2 DEF n
<1> QED
  BY <1>1, <1>3 DEF TraceOf, InOrder

LEMMA HostBegins == TracesInit => HostInv
<1> SUFFICES ASSUME HostInit PROVE HostInv
  BY DEF TracesInit, LogInit, LeadsInit, CellsInit, HostInv
<1>1. PICK log \in Logs, chip \in Chips, probed \in Probes :
         s = [area |-> "host", log |-> log, chip |-> chip, source |-> Source(log, chip),
              grid |-> sidtrace_grid(log, chip, Cpf), host |-> Started(probed)]
  BY DEF HostInit
<1> DEFINE n == Len(log)
           source == Source(log, chip)
           grid == sidtrace_grid(log, chip, Cpf)
           g == Started(probed)
<1>2. n \in Nat /\ TraceOf(log, n) /\ InOrder(log, n)
  BY LogsAre
<1>3. /\ DOMAIN s = {"area", "log", "chip", "source", "grid", "host"}
      /\ s.log = log /\ s.chip = chip /\ s.source = source /\ s.grid = grid /\ s.host = g
  BY <1>1
<1>4. StateOK
  BY <1>3 DEF StateOK
<1> HIDE DEF n
<1>5. PICK h : /\ RaiseRun(h, source, log, n) /\ raise_cycles(log, source) = h[n]
               /\ h[n] \in Seq(Nat) /\ Len(h[n]) \in Nat /\ Ordered(h[n], Len(h[n]))
  BY <1>2, RaisesOf
<1>6. grid = Framed(log, chip, h[n], _raise_frames(h[n], Cpf))
  BY <1>5 DEF sidtrace_grid, Raises
<1> DEFINE m == Len(h[n])
           R == h[n]
<1> HIDE DEF grid, g, source
<1>7. PICK w : Framing(w, log, chip, R, n)
  <2> HIDE DEF R, m
  <2>1. Ordered(R, m) /\ m \in Nat
    BY <1>5 DEF R, m
  <2> QED
    BY <1>2, <2>1, TraceRows
<1>8. Hosted(log, n, chip, source, h, w, grid)
  BY <1>2, <1>5, <1>6, <1>7 DEF Hosted, Framing
<1>9. /\ Shaped(g) /\ g.idle = FALSE /\ g.cycle = probed /\ g.waited = 0 /\ g.scan = 0 /\ g.pos = 0
      /\ g.prev = -1 /\ g.out = <<>> /\ g.state = Zero
  BY DEF g, Started, Shaped
<1>10. w[0] = Zero /\ h[0] = <<>>
  BY <1>2, <1>5, <1>8, WriteSteps, RaiseSteps DEF Hosted
<1>11. HostOK(g, log, grid, h, w, n)
  <2>1. probed \in Nat /\ 0 * Cpf = 0
    BY CadenceAssumption, Waits
  <2>2. <<>> \in Seq({w[i] : i \in 0..n}) /\ Len(<<>>) = 0
    OBVIOUS
  <2>3. BeforeRaise(g)
    BY <1>9, <2>1 DEF BeforeRaise
  <2>4. Len(h[g.scan]) = 0
    BY <1>9, <1>10, <2>2
  <2>5. \A l \in 1..0 : log[l].cycle < g.cycle
    OBVIOUS
  <2> QED
    BY <1>2, <1>9, <1>10, <2>1, <2>2, <2>3, <2>4, <2>5 DEF HostOK
<1> QED
  BY <1>3, <1>4, <1>5, <1>8, <1>11 DEF HostInv, n

LEMMA HostGoesOn == HostInv /\ [HostFrames]_s => HostInv'
<1> SUFFICES ASSUME HostInv, [HostFrames]_s PROVE HostInv'
  OBVIOUS
<1>1. CASE s' = s
  BY <1>1 DEF HostInv, StateOK
<1>2. CASE HostFrames
  <2>1. /\ s.area = "host"
        /\ s' = [s EXCEPT !.host = _frames(s.log, s.host, s.chip, s.source, Cpf)]
    BY <1>2 DEF HostFrames
  <2>2. PICK h, w : /\ Hosted(s.log, Len(s.log), s.chip, s.source, h, w, s.grid)
                    /\ raise_cycles(s.log, s.source) = h[Len(s.log)]
                    /\ \/ HostOK(s.host, s.log, s.grid, h, w, Len(s.log))
                       \/ IdleOK(s.host, s.log, s.grid, h[Len(s.log)])
    BY <2>1 DEF HostInv
  <2>3. HostOK(s.host, s.log, s.grid, h, w, Len(s.log))
    BY <1>2, <2>2 DEF HostFrames, IdleOK
  <2>4. StateOK
    BY <2>1 DEF HostInv
  <2>5. Len(s.log) \in Nat
    BY <2>4, LogsAre DEF StateOK
  <2> DEFINE x == _frames(s.log, s.host, s.chip, s.source, Cpf)
  <2>6. HostOK(x, s.log, s.grid, h, w, Len(s.log)) \/ IdleOK(x, s.log, s.grid, h[Len(s.log)])
    BY <2>2, <2>3, <2>5, HostStep
  <2> HIDE DEF x
  <2>7. s' = [s EXCEPT !.host = x]
    BY <2>1 DEF x
  <2>8. /\ DOMAIN s' = DOMAIN s /\ s'.log = s.log /\ s'.chip = s.chip /\ s'.source = s.source
        /\ s'.grid = s.grid /\ s'.host = x
    BY <2>4, <2>7 DEF StateOK
  <2>9. StateOK'
    BY <2>4, <2>8 DEF StateOK
  <2> QED
    BY <2>2, <2>6, <2>8, <2>9 DEF HostInv
<1> QED
  BY <1>1, <1>2

LEMMA HostTrue == HostInv => FramesAsOracle
<1> SUFFICES ASSUME HostInv, s.area = "host", Held(s.log, Raises(s.log, s.chip)) PROVE FramesAsOracle
  BY DEF FramesAsOracle
<1> DEFINE n == Len(s.log)
           g == s.host
<1>1. PICK h, w : /\ Hosted(s.log, n, s.chip, s.source, h, w, s.grid)
                  /\ raise_cycles(s.log, s.source) = h[n]
                  /\ HostOK(g, s.log, s.grid, h, w, n) \/ IdleOK(g, s.log, s.grid, h[n])
  BY DEF HostInv
<1>2. Raises(s.log, s.chip) = h[n]
  BY <1>1 DEF HostInv, StateOK, Raises
<1> DEFINE played == IF g.idle THEN Len(g.out) - 1 ELSE Len(g.out)
<1> HIDE DEF n
<1>3. CASE HostOK(g, s.log, s.grid, h, w, n)
  <2>1. /\ g.idle = FALSE /\ g.scan \in 0..n
        /\ IF Len(h[g.scan]) = 0 THEN BeforeRaise(g) ELSE AfterRaise(g, s.log, s.grid, h[n], n, Len(h[g.scan]))
    BY <1>3 DEF HostOK
  <2>2. \A i \in 1..Len(g.out) : g.out[i] = Filled(s.grid, i)
    BY <2>1 DEF BeforeRaise, AfterRaise
  <2> QED
    BY <2>1, <2>2 DEF FramesAsOracle
<1>4. CASE IdleOK(g, s.log, s.grid, h[n])
  <2>1. /\ g.idle = TRUE
        /\ Len(g.out) - 1 = _raise_frames(h[n], Cpf)[Len(h[n])]
        /\ \A i \in 1..(Len(g.out) - 1) : g.out[i] = Filled(s.grid, i)
        /\ g.out[Len(g.out)] = s.grid[Len(s.grid)]
    BY <1>2, <1>4 DEF IdleOK
  <2>2. sidtrace_calls(s.log, s.chip, Cpf) = _raise_frames(h[n], Cpf)[Len(h[n])]
    BY <1>2 DEF sidtrace_calls, Held
  <2> QED
    BY <2>1, <2>2 DEF FramesAsOracle
<1> QED
  BY <1>1, <1>3, <1>4

LEMMA CallsTrue == HostInv => CallsCovered
<1> SUFFICES ASSUME HostInv, s.area = "host", NEW i \in DOMAIN s.log,
                    Source(Until(s.log, s.log[i].cycle), s.chip) = s.source,
                    NEW j \in 1..sidtrace_calls(Until(s.log, s.log[i].cycle), s.chip, Cpf)
             PROVE  Filled(sidtrace_grid(Until(s.log, s.log[i].cycle), s.chip, Cpf), j) = Filled(s.grid, j)
  BY DEF CallsCovered
<1>1. s.log \in Logs /\ s.source = Source(s.log, s.chip) /\ s.grid = sidtrace_grid(s.log, s.chip, Cpf)
  BY DEF HostInv, StateOK
<1> DEFINE n == Len(s.log)
           cut == s.log[i].cycle
<1>2. n \in Nat /\ TraceOf(s.log, n) /\ InOrder(s.log, n)
  BY <1>1, LogsAre
<1>3. cut \in Nat
  BY <1>2 DEF InOrder
<1>4. Source(Until(s.log, cut), s.chip) = Source(s.log, s.chip)
  BY <1>1
<1>5. j \in 1..sidtrace_calls(Until(s.log, cut), s.chip, Cpf)
  OBVIOUS
<1> HIDE DEF cut, n
<1>6. Filled(sidtrace_grid(Until(s.log, cut), s.chip, Cpf), j) = Filled(sidtrace_grid(s.log, s.chip, Cpf), j)
  BY <1>2, <1>3, <1>4, <1>5, CutCovers
<1> QED
  BY <1>1, <1>6 DEF cut

(* The rows the host yields while its source raises are those the oracle    *)
(* frames the finished trace into, one for each call it covers, and then    *)
(* the last again: however the calls are spaced, for traces of any length,  *)
(* any cadence and any cycle at which the host begins (irqhost.py,          *)
(* oracle.py).                                                              *)
THEOREM HostFramesAsOracle == TracesSpec => []FramesAsOracle
<1>1. HostInv => FramesAsOracle
  BY HostTrue
<1> QED
  BY HostBegins, HostGoesOn, <1>1, PTL DEF TracesSpec

(* Wherever a trace is cut, the calls it still covers have the whole        *)
(* trace's rows (sidtrace_calls, oracle.py).                                *)
THEOREM CallsAreCovered == TracesSpec => []CallsCovered
<1>1. HostInv => CallsCovered
  BY CallsTrue
<1> QED
  BY HostBegins, HostGoesOn, <1>1, PTL DEF TracesSpec

(* Both, of every trace.                                                    *)
THEOREM FramesAreTrue == TracesSpec => []FramesTrue
  BY HostFramesAsOracle, CallsAreCovered, PTL DEF FramesTrue

-----------------------------------------------------------------------------
(* The elements of a finite set, by rank of a key no two share.             *)
Key(S, far) == IsFiniteSet(S) /\ far \in [S -> Int] /\ \A x, y \in S : far[x] = far[y] => x = y
Below(S, far, x) == {y \in S : far[y] < far[x]}

Ranked(S, far) ==
    /\ \A x \in S : Cardinality(Below(S, far, x)) \in 0..(Cardinality(S) - 1)
    /\ \A x, y \in S : Cardinality(Below(S, far, x)) = Cardinality(Below(S, far, y)) => x = y
    /\ \A k \in 1..Cardinality(S) : \E x \in S : Cardinality(Below(S, far, x)) = k - 1

LEMMA RanksApart ==
    ASSUME NEW S, NEW far, Key(S, far), NEW x \in S, NEW y \in S, far[x] < far[y]
    PROVE  Cardinality(Below(S, far, x)) < Cardinality(Below(S, far, y))
<1>0. IsFiniteSet(S)
  BY DEF Key
<1>1. far[x] \in Int /\ far[y] \in Int /\ \A z \in S : far[z] \in Int
  BY DEF Key
<1>2. Below(S, far, x) \subseteq Below(S, far, y) \ {x}
  BY <1>1 DEF Below
<1>3. x \in Below(S, far, y)
  BY DEF Below
<1>4. Below(S, far, y) \in SUBSET S
  BY DEF Below
<1>5. IsFiniteSet(Below(S, far, y)) /\ IsFiniteSet(Below(S, far, x))
  BY <1>0, <1>4, FS_Subset DEF Below
<1>6. /\ IsFiniteSet(Below(S, far, y) \ {x})
      /\ Cardinality(Below(S, far, y) \ {x}) = Cardinality(Below(S, far, y)) - 1
  BY <1>3, <1>5, FS_RemoveElement
<1>7. Cardinality(Below(S, far, x)) <= Cardinality(Below(S, far, y) \ {x})
  BY <1>2, <1>6, FS_Subset
<1> QED
  BY <1>5, <1>6, <1>7, FS_CardinalityType

LEMMA Ranks ==
    ASSUME NEW S, NEW far, Key(S, far)
    PROVE  Ranked(S, far)
<1> DEFINE n == Cardinality(S)
           rank == [x \in S |-> Cardinality(Below(S, far, x))]
<1>0. IsFiniteSet(S)
  BY DEF Key
<1>1. n \in Nat
  BY <1>0, FS_CardinalityType
<1>2. ASSUME NEW x \in S PROVE rank[x] \in 0..(n - 1)
  <2>1. Below(S, far, x) \subseteq S \ {x}
    BY DEF Below, Key
  <2>2. IsFiniteSet(S \ {x}) /\ Cardinality(S \ {x}) = n - 1
    BY <1>0, FS_RemoveElement
  <2>3. IsFiniteSet(Below(S, far, x)) /\ Cardinality(Below(S, far, x)) <= n - 1
    BY <2>1, <2>2, FS_Subset
  <2> QED
    BY <1>1, <2>3, FS_CardinalityType
<1>3. ASSUME NEW x \in S, NEW y \in S, x # y PROVE rank[x] # rank[y]
  <2>1. far[x] \in Int /\ far[y] \in Int /\ far[x] # far[y]
    BY <1>3 DEF Key
  <2>2. rank[x] < rank[y] \/ rank[y] < rank[x]
    <3>1. CASE far[x] < far[y]
      BY <3>1, RanksApart
    <3>2. CASE far[y] < far[x]
      BY <3>2, RanksApart
    <3> QED
      BY <2>1, <3>1, <3>2
  <2>3. rank[x] \in Int /\ rank[y] \in Int
    BY <1>2
  <2> QED
    BY <2>2, <2>3
<1> HIDE DEF rank
<1>4. rank \in Injection(S, 0..(n - 1))
  <2>1. rank \in [S -> 0..(n - 1)]
    BY <1>2 DEF rank
  <2> QED
    BY <1>3, <2>1 DEF Injection, IsInjective
<1>5. IsFiniteSet(0..(n - 1)) /\ Cardinality(0..(n - 1)) = n
  BY <1>1, FS_Interval
<1>6. rank \in Surjection(S, 0..(n - 1))
  BY <1>4, <1>5, FS_Injection
<1>7. \A k \in 1..n : \E x \in S : rank[x] = k - 1
  <2>1. \A k \in 1..n : k - 1 \in 0..(n - 1)
    BY <1>1
  <2> QED
    BY <1>6, <2>1 DEF Surjection
<1> QED
  BY <1>2, <1>3, <1>7 DEF rank, Ranked

-----------------------------------------------------------------------------
(* The scan: an entry of each lead, and what it says of the two grids.      *)
Shifts(n) == (-Least(LEAD, n - 1))..LEAD
BadFrames(o, l, n, x) ==
    {f \in 1..(n - Most(-x, 0)) :
        \E r \in DOMAIN o[1] : o[f + Most(-x, 0)][r] # l[f + Most(x, 0)][r]}
Entry(e, o, l, n, x) ==
    /\ e.lead = x /\ e.size = n - Most(-x, 0) /\ e.bad = BadFrames(o, l, n, x) /\ IsFiniteSet(e.bad)
    /\ e.first \in 1..(e.size + 1) /\ (e.first = e.size + 1 <=> e.bad = {})
LeadsScanned(scan, o, l, n) ==
    /\ DOMAIN scan = 1..Cardinality(Shifts(n)) /\ Cardinality(Shifts(n)) \in Nat \ {0}
    /\ \A k \in DOMAIN scan : \E x \in Shifts(n) : Entry(scan[k], o, l, n, x)
    /\ \A x \in Shifts(n) : \E k \in DOMAIN scan : Entry(scan[k], o, l, n, x)

LEMMA LeastOf ==
    ASSUME NEW S \in SUBSET Nat, S # {}
    PROVE  Min(S) \in S /\ \A y \in S : Min(S) <= y
<1> DEFINE less == OpToRel(<, Nat)
<1>1. IsWellFoundedOn(less, Nat)
  BY NatLessThanWellFounded, Zenon
<1>2. \E x \in S : \A y \in S : <<y, x>> \notin less
  <2> HIDE DEF less
  <2> QED
    BY <1>1, WFMin
<1>3. PICK x \in S : \A y \in S : ~(y < x)
  BY <1>2 DEF OpToRel
<1>4. S \in SUBSET Int /\ \A y \in S : x <= y
  BY <1>3
<1>5. Min(S) = x
  BY <1>4, LeastIs
<1> QED
  BY <1>4, <1>5

LEMMA FirstBadIs ==
    ASSUME NEW size \in Nat, NEW bad \in SUBSET (1..size)
    PROVE  FirstBad(bad, size) \in 1..(size + 1) /\ (FirstBad(bad, size) = size + 1 <=> bad = {})
<1> DEFINE S == bad \union {size + 1}
<1>1. S \in SUBSET Nat /\ S # {}
  OBVIOUS
<1>2. Min(S) \in S /\ \A y \in S : Min(S) <= y
  <2> HIDE DEF S
  <2> QED
    BY <1>1, LeastOf
<1>3. FirstBad(bad, size) = Min(S)
  BY DEF FirstBad
<1>4. ASSUME NEW b \in bad PROVE Min(S) # size + 1
  BY <1>2
<1>5. bad = {} => S = {size + 1}
  OBVIOUS
<1>6. Min(S) \in 1..(size + 1)
  <2>1. S \subseteq 1..(size + 1)
    OBVIOUS
  <2> HIDE DEF S
  <2> QED
    BY <1>2, <2>1
<1>7. CASE bad = {}
  BY <1>2, <1>3, <1>5, <1>6, <1>7
<1>8. CASE bad # {}
  BY <1>3, <1>4, <1>6, <1>8
<1> QED
  BY <1>7, <1>8

LEMMA ShiftsAre ==
    ASSUME NEW n \in Nat \ {0}
    PROVE  /\ IsFiniteSet(Shifts(n)) /\ Shifts(n) \subseteq Int /\ 0..LEAD \subseteq Shifts(n)
           /\ \A x \in Shifts(n) : x <= LEAD /\ Most(-x, 0) \in 0..(n - 1) /\ Most(x, 0) \in 0..LEAD
           /\ Cardinality(Shifts(n)) \in Nat \ {0}
<1>1. LEAD \in Nat
  BY LeadAssumption
<1>2. -Least(LEAD, n - 1) \in Int /\ -Least(LEAD, n - 1) <= 0 /\ -Least(LEAD, n - 1) >= -(n - 1)
  BY <1>1 DEF Least
<1>3. IsFiniteSet(Shifts(n)) /\ Shifts(n) \subseteq Int /\ 0..LEAD \subseteq Shifts(n)
  <2> DEFINE a == -Least(LEAD, n - 1)
  <2>1. a \in Int /\ a <= 0
    BY <1>2
  <2>2. Shifts(n) = a..LEAD
    BY DEF Shifts
  <2> HIDE DEF a
  <2>3. IsFiniteSet(a..LEAD)
    BY <1>1, <2>1, FS_Interval
  <2> QED
    BY <1>1, <2>1, <2>2, <2>3
<1>4. \A x \in Shifts(n) : x <= LEAD /\ Most(-x, 0) \in 0..(n - 1) /\ Most(x, 0) \in 0..LEAD
  BY <1>1, <1>2 DEF Shifts, Most
<1>5. Shifts(n) # {}
  BY <1>1, <1>3
<1>6. Cardinality(Shifts(n)) \in Nat \ {0}
  BY <1>3, <1>5, FS_CardinalityType, FS_EmptySet
<1> QED
  BY <1>3, <1>4, <1>6

LEMMA ScanIs ==
    ASSUME NEW o, NEW l, Len(o) \in Nat \ {0}
    PROVE  LeadsScanned(scan_leads(o, l, LEAD), o, l, Len(o))
<1> DEFINE n == Len(o)
           shifts == (-Least(LEAD, n - 1))..LEAD
           Far(x) == IF x < 0 THEN -(2 * x) - 1 ELSE 2 * x
           leads == [k \in 1..Cardinality(shifts) |->
                       CHOOSE x \in shifts : Cardinality({y \in shifts : Far(y) < Far(x)}) = k - 1]
           Ne(lead) == {c \in (1..(n - Most(-lead, 0))) \X (DOMAIN o[1]) :
                          o[c[1] + Most(-lead, 0)][c[2]] # l[c[1] + Most(lead, 0)][c[2]]}
           Bad(lead) == {c[1] : c \in Ne(lead)}
           Of(lead) == [lead |-> lead, size |-> n - Most(-lead, 0), bad |-> Bad(lead),
                        regs |-> {c[2] : c \in Ne(lead)}, first |-> FirstBad(Bad(lead), n - Most(-lead, 0))]
           scan == scan_leads(o, l, LEAD)
           far == [x \in shifts |-> Far(x)]
<1>1. scan = [k \in DOMAIN leads |-> Of(leads[k])]
  BY DEF scan_leads
<1>2. shifts = Shifts(n) /\ DOMAIN leads = 1..Cardinality(shifts) /\ DOMAIN scan = DOMAIN leads
  BY <1>1 DEF Shifts
<1>3. /\ IsFiniteSet(shifts) /\ shifts \subseteq Int /\ Cardinality(shifts) \in Nat \ {0}
      /\ \A x \in shifts : Most(-x, 0) \in 0..(n - 1)
  BY <1>2, ShiftsAre
<1> HIDE DEF shifts
<1>4. Key(shifts, far)
  <2>1. \A x \in shifts : x \in Int /\ Far(x) \in Int
    BY <1>3
  <2>2. \A x, y \in shifts : Far(x) = Far(y) => x = y
    BY <1>3
  <2> HIDE DEF Far
  <2> QED
    BY <1>3, <2>1, <2>2 DEF Key
<1>5. \A x \in shifts : {y \in shifts : Far(y) < Far(x)} = Below(shifts, far, x)
  <2> HIDE DEF Far
  <2> QED
    BY DEF Below
<1> HIDE DEF Far, far
<1>6. /\ \A x, y \in shifts : Cardinality(Below(shifts, far, x)) = Cardinality(Below(shifts, far, y)) => x = y
      /\ \A k \in 1..Cardinality(shifts) : \E x \in shifts : Cardinality(Below(shifts, far, x)) = k - 1
      /\ \A x \in shifts : Cardinality(Below(shifts, far, x)) \in 0..(Cardinality(shifts) - 1)
  <2> HIDE DEF n, leads, Ne, Bad, Of, scan
  <2> QED
    BY <1>4, Ranks DEF Ranked
<1>7. ASSUME NEW k \in 1..Cardinality(shifts)
      PROVE  leads[k] \in shifts /\ Cardinality(Below(shifts, far, leads[k])) = k - 1
  <2>1. \E x \in shifts : Cardinality({y \in shifts : Far(y) < Far(x)}) = k - 1
    BY <1>5, <1>6
  <2>2. leads[k] = CHOOSE x \in shifts : Cardinality({y \in shifts : Far(y) < Far(x)}) = k - 1
    OBVIOUS
  <2>3. leads[k] \in shifts /\ Cardinality({y \in shifts : Far(y) < Far(leads[k])}) = k - 1
    <3> HIDE DEF leads
    <3> QED
      BY <2>1, <2>2
  <2> QED
    BY <1>5, <2>3
<1>8. ASSUME NEW x \in shifts PROVE \E k \in DOMAIN scan : leads[k] = x
  <2> DEFINE k == Cardinality(Below(shifts, far, x)) + 1
  <2>1. k \in 1..Cardinality(shifts) /\ k - 1 = Cardinality(Below(shifts, far, x))
    BY <1>3, <1>6
  <2> HIDE DEF k, leads
  <2>2. leads[k] = x
    BY <1>6, <1>7, <2>1
  <2> QED
    BY <1>2, <2>1, <2>2
<1>9. ASSUME NEW x \in shifts PROVE Entry(Of(x), o, l, n, x)
  <2> DEFINE size == n - Most(-x, 0)
             bad == Bad(x)
  <2>1. size \in Nat /\ bad \in SUBSET (1..size)
    <3>1. size \in Nat
      BY <1>3
    <3>2. \A c \in Ne(x) : c[1] \in 1..size
      OBVIOUS
    <3> QED
      BY <3>1, <3>2
  <2>2. bad = BadFrames(o, l, n, x)
    <3>1. ASSUME NEW f \in BadFrames(o, l, n, x) PROVE f \in bad
      <4>1. f \in 1..size
        BY DEF BadFrames
      <4>2. PICK r \in DOMAIN o[1] : o[f + Most(-x, 0)][r] # l[f + Most(x, 0)][r]
        BY DEF BadFrames
      <4>3. <<f, r>> \in Ne(x)
        BY <4>1, <4>2
      <4> QED
        BY <4>3
    <3>2. ASSUME NEW f \in bad PROVE f \in BadFrames(o, l, n, x)
      <4>1. PICK c \in Ne(x) : f = c[1]
        BY <3>2
      <4>2. /\ c[1] \in 1..size /\ c[2] \in DOMAIN o[1]
            /\ o[c[1] + Most(-x, 0)][c[2]] # l[c[1] + Most(x, 0)][c[2]]
        OBVIOUS
      <4> QED
        BY <4>1, <4>2 DEF BadFrames
    <3> QED
      BY <3>1, <3>2
  <2>3. IsFiniteSet(bad)
    <3>1. IsFiniteSet(1..size)
      <4> HIDE DEF bad, size, Of, leads, scan
      <4> QED
        BY <2>1, FS_Interval
    <3> HIDE DEF bad, size, Of, leads, scan
    <3> QED
      BY <2>1, <3>1, FS_Subset
  <2>4. Of(x) = [lead |-> x, size |-> size, bad |-> bad, regs |-> {c[2] : c \in Ne(x)},
                 first |-> FirstBad(bad, size)]
    OBVIOUS
  <2>5. /\ Of(x).lead = x /\ Of(x).size = size /\ Of(x).bad = bad
        /\ Of(x).first = FirstBad(bad, size)
    BY <2>4
  <2> HIDE DEF Of, size, bad
  <2>6. FirstBad(bad, size) \in 1..(size + 1) /\ (FirstBad(bad, size) = size + 1 <=> bad = {})
    BY <2>1, FirstBadIs
  <2> QED
    BY <2>2, <2>3, <2>5, <2>6 DEF Entry, size
<1> HIDE DEF Of, leads
<1>10. \A k \in DOMAIN scan : scan[k] = Of(leads[k]) /\ leads[k] \in shifts
  BY <1>1, <1>2, <1>7
<1> HIDE DEF scan
<1>11. \A k \in DOMAIN scan : \E x \in shifts : Entry(scan[k], o, l, n, x)
  BY <1>9, <1>10
<1>12. \A x \in shifts : \E k \in DOMAIN scan : Entry(scan[k], o, l, n, x)
  BY <1>8, <1>9, <1>10
<1> QED
  BY <1>2, <1>3, <1>11, <1>12 DEF LeadsScanned, scan

(* The verdict is of an entry no other is later than, and of one no other   *)
(* has fewer bad frames than.                                               *)
Judged(a, m, o, l, n) ==
    /\ \E x \in Shifts(n) : Entry(a, o, l, n, x)
    /\ \E x \in Shifts(n) : Entry(m, o, l, n, x)
    /\ \A x \in Shifts(n) :
          \E e : Entry(e, o, l, n, x) /\ e.first <= a.first /\ Cardinality(m.bad) <= Cardinality(e.bad)
    /\ Cardinality(m.bad) <= Cardinality(a.bad)

LEMMA EntryTypes ==
    ASSUME NEW e, NEW o, NEW l, NEW n \in Nat \ {0}, NEW x \in Shifts(n), Entry(e, o, l, n, x)
    PROVE  /\ x \in Int /\ e.size \in 1..n /\ e.first \in 1..(n + 1) /\ Cardinality(e.bad) \in Nat
           /\ (Cardinality(e.bad) = 0 <=> e.bad = {}) /\ (x >= 0 => e.size = n)
<1>1. x \in Int /\ Most(-x, 0) \in 0..(n - 1)
  BY ShiftsAre
<1>2. e.size = n - Most(-x, 0) /\ IsFiniteSet(e.bad) /\ e.first \in 1..(e.size + 1)
  BY DEF Entry
<1>3. Cardinality(e.bad) \in Nat /\ (Cardinality(e.bad) = 0 <=> e.bad = {})
  BY <1>2, FS_CardinalityType, FS_EmptySet
<1>4. x >= 0 => Most(-x, 0) = 0
  BY <1>1 DEF Most
<1> QED
  BY <1>1, <1>2, <1>3, <1>4

LEMMA LatestIs ==
    ASSUME NEW scan, NEW o, NEW l, NEW n \in Nat \ {0}, LeadsScanned(scan, o, l, n)
    PROVE  \E k \in DOMAIN scan :
              latest(scan) = scan[k] /\ \A j \in DOMAIN scan : scan[j].first <= scan[k].first
<1> DEFINE D == DOMAIN scan
           S == {(n + 1) - scan[k].first : k \in D}
           T == {k \in D : \A j \in D : ~(scan[j].first > scan[k].first)}
<1>1. \A k \in D : scan[k].first \in 1..(n + 1)
  BY EntryTypes DEF LeadsScanned
<1>2. D \subseteq Nat /\ D # {}
  BY DEF LeadsScanned
<1>3. latest(scan) = scan[Min(T)]
  BY DEF latest, Best
<1> HIDE DEF D
<1>4. S \in SUBSET Nat /\ S # {}
  <2>1. \A k \in D : (n + 1) - scan[k].first \in Nat
    BY <1>1
  <2> QED
    BY <1>2, <2>1
<1>5. Min(S) \in S /\ \A y \in S : Min(S) <= y
  <2> HIDE DEF S
  <2> QED
    BY <1>4, LeastOf
<1>6. PICK k \in D : Min(S) = (n + 1) - scan[k].first
  BY <1>5
<1>7. \A j \in D : (n + 1) - scan[j].first \in S
  OBVIOUS
<1> HIDE DEF S
<1>8. \A j \in D : scan[j].first <= scan[k].first
  BY <1>1, <1>5, <1>6, <1>7
<1>9. T \in SUBSET Nat /\ T # {}
  <2>1. k \in T
    BY <1>1, <1>8
  <2> QED
    BY <1>2, <2>1
<1>10. Min(T) \in T
  <2> HIDE DEF T
  <2> QED
    BY <1>9, LeastOf
<1>11. Min(T) \in D /\ \A j \in D : scan[j].first <= scan[Min(T)].first
  <2>1. \A i \in T : i \in D /\ \A j \in D : scan[j].first <= scan[i].first
    BY <1>1
  <2> HIDE DEF T
  <2> QED
    BY <1>10, <2>1
<1> QED
  BY <1>3, <1>11 DEF D

LEMMA MinLeadIs ==
    ASSUME NEW scan, NEW o, NEW l, NEW n \in Nat \ {0}, LeadsScanned(scan, o, l, n)
    PROVE  \E k \in DOMAIN scan :
              /\ min_lead(scan) = scan[k]
              /\ \A j \in DOMAIN scan : Cardinality(scan[k].bad) <= Cardinality(scan[j].bad)
<1> DEFINE D == DOMAIN scan
           S == {Cardinality(scan[k].bad) : k \in D}
           T == {k \in D : \A j \in D : ~(Cardinality(scan[j].bad) < Cardinality(scan[k].bad))}
<1>1. \A k \in D : Cardinality(scan[k].bad) \in Nat
  BY EntryTypes DEF LeadsScanned
<1>2. D \subseteq Nat /\ D # {}
  BY DEF LeadsScanned
<1>3. min_lead(scan) = scan[Min(T)]
  BY DEF min_lead, Best
<1> HIDE DEF D
<1>4. S \in SUBSET Nat /\ S # {}
  BY <1>1, <1>2
<1>5. Min(S) \in S /\ \A y \in S : Min(S) <= y
  <2> HIDE DEF S
  <2> QED
    BY <1>4, LeastOf
<1>6. PICK k \in D : Min(S) = Cardinality(scan[k].bad)
  BY <1>5
<1>7. \A j \in D : Cardinality(scan[j].bad) \in S
  OBVIOUS
<1> HIDE DEF S
<1>8. \A j \in D : Cardinality(scan[k].bad) <= Cardinality(scan[j].bad)
  BY <1>1, <1>5, <1>6, <1>7
<1>9. T \in SUBSET Nat /\ T # {}
  <2>1. k \in T
    BY <1>1, <1>8
  <2> QED
    BY <1>2, <2>1
<1>10. Min(T) \in T
  <2> HIDE DEF T
  <2> QED
    BY <1>9, LeastOf
<1>11. Min(T) \in D /\ \A j \in D : Cardinality(scan[Min(T)].bad) <= Cardinality(scan[j].bad)
  <2>1. \A i \in T : i \in D /\ \A j \in D : Cardinality(scan[i].bad) <= Cardinality(scan[j].bad)
    BY <1>1
  <2> HIDE DEF T
  <2> QED
    BY <1>10, <2>1
<1> QED
  BY <1>3, <1>11 DEF D

LEMMA Judges ==
    ASSUME NEW o, NEW l, Len(o) \in Nat \ {0}, o \in Seq(Range(o)), Len(l) \in Nat, Len(l) >= Len(o) + LEAD
    PROVE  \E a, m : compare_grids(o, l, LEAD) = Fields(a, m) /\ Judged(a, m, o, l, Len(o))
<1> DEFINE n == Len(o)
           scan == scan_leads(o, l, LEAD)
<1>1. Compared(o, l, LEAD) = n
  BY LeadAssumption DEF Compared, Least
<1>2. SubSeq(o, 1, n) = o
  OBVIOUS
<1>3. compare_grids(o, l, LEAD) = Fields(latest(scan), min_lead(scan))
  BY <1>1, <1>2 DEF compare_grids, verdict_fields
<1>4. LeadsScanned(scan, o, l, n)
  BY ScanIs
<1> HIDE DEF n, scan
<1>5. n \in Nat \ {0}
  BY DEF n
<1>6. PICK i \in DOMAIN scan :
         latest(scan) = scan[i] /\ \A j \in DOMAIN scan : scan[j].first <= scan[i].first
  BY <1>4, <1>5, LatestIs
<1>7. PICK k \in DOMAIN scan :
         /\ min_lead(scan) = scan[k]
         /\ \A j \in DOMAIN scan : Cardinality(scan[k].bad) <= Cardinality(scan[j].bad)
  BY <1>4, <1>5, MinLeadIs
<1>8. Judged(scan[i], scan[k], o, l, n)
  BY <1>4, <1>6, <1>7 DEF Judged, LeadsScanned
<1> QED
  BY <1>3, <1>6, <1>7, <1>8 DEF n

(* The renders are as they began: only the host's frames go on.             *)
GridInv ==
    /\ s.area = "log" => \E p \in Players : s.p = p
    /\ s.area = "leads" => \E x \in Renders : s.oracle = x.oracle /\ s.lib = x.lib
    /\ s.area = "cells" => \E x \in Sides : s.ours = x.ours /\ s.theirs = x.theirs /\ s.starts = x.starts

LEMMA GridsBegin == TracesInit => GridInv
  BY DEF TracesInit, HostInit, LogInit, LeadsInit, CellsInit, GridInv

LEMMA GridsStay == GridInv /\ [HostFrames]_s => GridInv'
<1> SUFFICES ASSUME GridInv, [HostFrames]_s PROVE GridInv'
  OBVIOUS
<1>1. CASE HostFrames
  <2>1. s.area = "host" /\ s' = [s EXCEPT !.host = _frames(s.log, @, s.chip, s.source, Cpf)]
    BY <1>1 DEF HostFrames
  <2>2. s'.area = "host"
    BY <2>1
  <2> QED
    BY <2>2 DEF GridInv
<1>2. CASE s' = s
  BY <1>2 DEF GridInv
<1> QED
  BY <1>1, <1>2

(* A lead at which every frame fits is as late as any.                      *)
LEMMA NoneBad ==
    ASSUME NEW o, NEW l, NEW n \in Nat \ {0}, NEW a, NEW m, Judged(a, m, o, l, n),
           NEW x \in Shifts(n), x >= 0, BadFrames(o, l, n, x) = {}
    PROVE  a.bad = {} /\ m.bad = {}
<1>1. PICK e : Entry(e, o, l, n, x) /\ e.first <= a.first /\ Cardinality(m.bad) <= Cardinality(e.bad)
  BY DEF Judged
<1>2. e.bad = {} /\ e.size = n /\ e.first = n + 1 /\ Cardinality(e.bad) = 0
  BY <1>1, EntryTypes DEF Entry
<1>3. PICK y \in Shifts(n) : Entry(a, o, l, n, y)
  BY DEF Judged
<1>4. a.first <= a.size + 1 /\ a.size <= n /\ a.size \in Nat /\ a.first \in Nat
  <2>1. a.size \in 1..n
    BY <1>3, EntryTypes
  <2>2. a.first \in 1..(a.size + 1)
    BY <1>3 DEF Entry
  <2> QED
    BY <2>1, <2>2
<1>5. a.first = a.size + 1
  BY <1>1, <1>2, <1>4
<1>6. a.bad = {}
  BY <1>3, <1>5 DEF Entry
<1>7. PICK z \in Shifts(n) : Entry(m, o, l, n, z)
  BY DEF Judged
<1>8. Cardinality(m.bad) \in Nat /\ (Cardinality(m.bad) = 0 <=> m.bad = {})
  BY <1>7, EntryTypes
<1> QED
  BY <1>1, <1>2, <1>6, <1>8

Fits(o, l, n, x) == \A f \in 1..n : \A r \in DOMAIN o[1] : o[f][r] = l[f + x][r]

LEMMA FitsAt ==
    ASSUME NEW o, NEW l, NEW n \in Nat \ {0}, NEW x \in Shifts(n), x >= 0
    PROVE  BadFrames(o, l, n, x) = {} <=> Fits(o, l, n, x)
<1>1. x \in Int
  BY ShiftsAre
<1>2. Most(-x, 0) = 0 /\ Most(x, 0) = x /\ n - 0 = n
  BY <1>1 DEF Most
<1>3. \A f \in 1..n : f + 0 = f
  OBVIOUS
<1> QED
  BY <1>2, <1>3 DEF BadFrames, Fits

(* The two entries, told.                                                   *)
LEMMA FieldsAre ==
    ASSUME NEW a, NEW m, NEW v, v = Fields(a, m)
    PROVE  /\ v.verdict = "exact" <=> a.bad = {}
           /\ v.lead = a.lead /\ v.diff_frames = Cardinality(a.bad)
           /\ v.min_lead = m.lead /\ v.min_bad = Cardinality(m.bad)
  BY DEF Fields

LEMMA LeadsAligned ==
    ASSUME NEW o, NEW l, Len(o) \in Nat \ {0}, o \in Seq(Range(o)), NEW a, NEW m,
           Judged(a, m, o, l, Len(o)), aligned_match(o, l, LEAD)
    PROVE  a.bad = {}
<1> DEFINE n == Len(o)
<1>1. PICK x \in 0..LEAD : \A f \in DOMAIN o : o[f] = l[x + f]
  BY DEF aligned_match
<1>2. DOMAIN o = 1..n /\ n \in Nat \ {0}
  OBVIOUS
<1> HIDE DEF n
<1>3. x \in Shifts(n) /\ x >= 0
  BY <1>2, ShiftsAre, LeadAssumption
<1>4. \A f \in 1..n : x + f = f + x
  BY LeadAssumption
<1>5. Fits(o, l, n, x)
  BY <1>1, <1>2, <1>4 DEF Fits
<1>6. BadFrames(o, l, n, x) = {}
  BY <1>2, <1>3, <1>5, FitsAt
<1> QED
  BY <1>2, <1>3, <1>6, NoneBad DEF n

LEMMA LeadsShorter ==
    ASSUME NEW o, NEW l, Len(o) \in Nat \ {0}, o \in Seq(Range(o)), Len(l) \in Nat, Len(l) >= Len(o) + LEAD,
           NEW a, NEW m, Judged(a, m, o, l, Len(o)), a.bad = {}, a.lead >= 0,
           NEW k \in 1..(Len(o) - 1)
    PROVE  verdict_lead(SubSeq(o, 1, k), l, LEAD, k).ok
<1> DEFINE n == Len(o)
           part == SubSeq(o, 1, k)
<1>1. n \in Nat \ {0} /\ k \in Nat \ {0} /\ k < n /\ LEAD \in Nat
  BY LeadAssumption
<1>2. part \in Seq(Range(o)) /\ Len(part) = k /\ DOMAIN part = 1..k /\ \A f \in 1..k : part[f] = o[f]
  BY <1>1, SubSeqProperties
<1> HIDE DEF part
<1>3. part \in Seq(Range(part))
  <2> DEFINE R == Range(part)
  <2>1. \A f \in 1..k : part[f] \in R
    BY <1>2 DEF Range
  <2>2. part = [f \in 1..k |-> part[f]]
    BY <1>2
  <2> HIDE DEF R
  <2>3. part \in [1..k -> R]
    BY <2>1, <2>2
  <2>4. part \in Seq(R)
    BY <1>1, <2>3
  <2> QED
    BY <2>4 DEF R
<1>4. Compared(part, l, LEAD) = k
  BY <1>1, <1>2 DEF Compared, Least
<1>5. verdict_lead(part, l, LEAD, k).ok <=> compare_grids(part, l, LEAD).verdict = "exact"
  <2> DEFINE w == compare_grids(part, l, LEAD)
             Told(u) == [ok |-> u.verdict = "exact", error |-> "", n |-> k, lead |-> u.lead,
                         first |-> u.first_diff, nbad |-> u.diff_frames, min_bad |-> u.min_bad]
  <2>1. ~(Len(part) < k) /\ ~(Len(l) < k + LEAD) /\ ~(k < 1)
    BY <1>1, <1>2
  <2>2. verdict_lead(part, l, LEAD, k) = Told(w)
    <3> HIDE DEF w
    <3> QED
      BY <1>4, <2>1 DEF verdict_lead, w
  <2>3. Told(w).ok = (w.verdict = "exact")
    OBVIOUS
  <2> QED
    BY <2>2, <2>3
<1>6. PICK b, c : compare_grids(part, l, LEAD) = Fields(b, c) /\ Judged(b, c, part, l, k)
  <2>1. Len(part) \in Nat \ {0} /\ Len(l) >= Len(part) + LEAD
    BY <1>1, <1>2
  <2> QED
    BY <1>2, <1>3, <2>1, Judges
<1>7. PICK x \in Shifts(n) : Entry(a, o, l, n, x)
  BY DEF Judged
<1>8. x >= 0 /\ x \in 0..LEAD /\ BadFrames(o, l, n, x) = {}
  <2>1. a.lead = x /\ a.bad = BadFrames(o, l, n, x)
    BY <1>7 DEF Entry
  <2>2. x \in Int /\ x <= LEAD
    <3> HIDE DEF n
    <3> QED
      BY <1>1, ShiftsAre
  <2> QED
    BY <1>1, <2>1, <2>2
<1> HIDE DEF n
<1>9. Fits(o, l, n, x)
  BY <1>1, <1>8, FitsAt
<1>10. part[1] = o[1] /\ \A f \in 1..k : f \in 1..n
  BY <1>1, <1>2
<1>11. x \in Shifts(k)
  BY <1>1, <1>8, ShiftsAre
<1>12. BadFrames(part, l, k, x) = {}
  <2>1. Fits(part, l, k, x)
    BY <1>2, <1>9, <1>10 DEF Fits
  <2> QED
    BY <1>1, <1>8, <1>11, <2>1, FitsAt
<1>13. b.bad = {}
  BY <1>1, <1>6, <1>8, <1>11, <1>12, NoneBad
<1> QED
  BY <1>5, <1>6, <1>13, FieldsAre DEF part

LEMMA LeadsTrue == GridInv => LeadsCompared
<1> SUFFICES ASSUME GridInv, s.area = "leads" PROVE LeadsCompared
  BY DEF LeadsCompared
<1> DEFINE o == s.oracle
           l == s.lib
           n == Len(o)
           v == compare_grids(o, l, LEAD)
           exact == v.verdict = "exact"
<1>1. /\ o \in Seq(Range(o)) /\ l \in Seq(Range(l)) /\ n \in Nat \ {0} /\ Len(l) \in Nat
      /\ Len(l) >= n + LEAD /\ LEAD \in Nat
  <2>1. PICK x \in Renders : o = x.oracle /\ l = x.lib
    BY DEF GridInv
  <2>2. o \in Seq(Range(o)) /\ l \in Seq(Range(l)) /\ Len(o) # 0 /\ Len(l) >= Len(o) + LEAD
    BY <2>1, RenderAssumption
  <2> QED
    BY <2>2, LeadAssumption
<1>2. PICK a, m : v = Fields(a, m) /\ Judged(a, m, o, l, n)
  BY <1>1, Judges
<1>3. /\ exact <=> a.bad = {}
      /\ v.lead = a.lead /\ v.diff_frames = Cardinality(a.bad)
      /\ v.min_lead = m.lead /\ v.min_bad = Cardinality(m.bad)
  BY <1>2, FieldsAre
<1> HIDE DEF o, l, n, v
<1>4. aligned_match(o, l, LEAD) => exact
  BY <1>1, <1>2, <1>3, LeadsAligned DEF n
<1>5. ASSUME exact, v.lead >= 0, NEW k \in 1..(n - 1) PROVE verdict_lead(SubSeq(o, 1, k), l, LEAD, k).ok
  BY <1>1, <1>2, <1>3, <1>5, LeadsShorter DEF n
<1>6. ASSUME ~exact, v.min_bad = 0 PROVE v.min_lead < 0
  <2>1. PICK x \in Shifts(n) : Entry(m, o, l, n, x)
    BY <1>2 DEF Judged
  <2>2. m.bad = {} /\ x \in Int /\ m.lead = x /\ BadFrames(o, l, n, x) = {}
    BY <1>1, <1>3, <1>6, <2>1, EntryTypes DEF Entry
  <2>3. ~(x >= 0)
    BY <1>1, <1>2, <1>3, <1>6, <2>2, NoneBad
  <2> QED
    BY <1>3, <2>2, <2>3
<1>7. v.min_bad <= v.diff_frames
  BY <1>2, <1>3 DEF Judged
<1>8. ~verdict_lead(o, SubSeq(l, 1, n + LEAD - 1), LEAD, n).ok
  <2> DEFINE short == SubSeq(l, 1, n + LEAD - 1)
  <2>1. Len(short) = n + LEAD - 1
    BY <1>1, SubSeqProperties
  <2> HIDE DEF short
  <2>2. Len(short) < n + LEAD /\ n # 0
    BY <1>1, <2>1
  <2>3. verdict_lead(o, short, LEAD, n) = [ok |-> FALSE, error |-> "IncompleteComparison"]
    BY <2>2 DEF verdict_lead
  <2> QED
    BY <2>3 DEF short
<1> QED
  BY <1>4, <1>5, <1>6, <1>7, <1>8 DEF LeadsCompared, o, l, n, v

-----------------------------------------------------------------------------
(* The cells that differ: folds, and what they list.                        *)
LEMMA MaxIn ==
    ASSUME NEW n \in Nat, NEW S \in SUBSET (1..n), S # {}
    PROVE  Max(S) \in S /\ \A y \in S : y <= Max(S)
<1> DEFINE T == {n - x : x \in S}
<1>1. T \in SUBSET Nat /\ T # {}
  <2>1. \A x \in S : n - x \in Nat
    OBVIOUS
  <2> QED
    BY <2>1
<1>2. \A y \in S : n - y \in T
  OBVIOUS
<1>3. Min(T) \in T /\ \A y \in T : Min(T) <= y
  <2> HIDE DEF T
  <2> QED
    BY <1>1, LeastOf
<1>4. PICK x \in S : Min(T) = n - x
  BY <1>3
<1> HIDE DEF T
<1>5. \A y \in S : y \in Nat /\ x \in Nat /\ x >= y
  <2>1. ASSUME NEW y \in S PROVE y \in Nat /\ x \in Nat /\ n - x <= n - y
    BY <1>2, <1>3, <1>4
  <2> QED
    BY <2>1
<1>6. Max(S) \in S /\ \A y \in S : Max(S) >= y
  BY <1>5 DEF Max
<1> QED
  BY <1>5, <1>6

(* A fold whose steps stay in a set has its values at every set of indices. *)
Steps(F, X, n) == \A x \in X : \A i \in 1..n : F[<<x, i>>] \in X
Folded(f, base, F, n) ==
    \A S \in SUBSET (1..n) : f[S] = IF S = {} THEN base ELSE F[<<f[S \ {Max(S)}], Max(S)>>]
HasFold(X, base, F, n) == \E f \in [SUBSET (1..n) -> X] : Folded(f, base, F, n)

LEMMA FoldExists ==
    ASSUME NEW X, NEW base \in X, NEW n \in Nat, NEW F, Steps(F, X, n)
    PROVE  HasFold(X, base, F, n)
<1> DEFINE N == {k \in Nat : k <= n => HasFold(X, base, F, k)}
<1>1. 0 \in N
  <2> DEFINE f == [S \in SUBSET (1..0) |-> base]
  <2>1. \A S \in SUBSET (1..0) : S = {}
    OBVIOUS
  <2>2. f \in [SUBSET (1..0) -> X] /\ Folded(f, base, F, 0)
    BY <2>1 DEF Folded
  <2> QED
    BY <2>2 DEF HasFold
<1>2. ASSUME NEW k \in N PROVE k + 1 \in N
  <2>1. SUFFICES ASSUME k + 1 <= n PROVE HasFold(X, base, F, k + 1)
    OBVIOUS
  <2>2. k \in Nat /\ k <= n /\ k + 1 \in 1..n
    BY <2>1
  <2>3. PICK f \in [SUBSET (1..k) -> X] : Folded(f, base, F, k)
    BY <2>2 DEF HasFold
  <2> DEFINE Body(g, S) == IF S = {} THEN base ELSE F[<<g[S \ {Max(S)}], Max(S)>>]
             h == [S \in SUBSET (1..(k + 1)) |-> IF k + 1 \in S THEN Body(f, S) ELSE f[S]]
  <2>4. ASSUME NEW S \in SUBSET (1..(k + 1)) PROVE h[S] = Body(h, S) /\ h[S] \in X
    <3>1. CASE k + 1 \in S
      <4>1. Max(S) = k + 1
        BY <2>2, <3>1, MaxTop
      <4>2. S \ {k + 1} \in SUBSET (1..(k + 1)) /\ k + 1 \notin S \ {k + 1} /\ S \ {k + 1} \in SUBSET (1..k)
        BY <2>2
      <4>3. h[S \ {Max(S)}] = f[S \ {Max(S)}] /\ f[S \ {Max(S)}] \in X
        BY <4>1, <4>2
      <4>4. h[S] = F[<<f[S \ {Max(S)}], Max(S)>>]
        BY <3>1
      <4>5. h[S] \in X
        BY <2>2, <4>1, <4>3, <4>4 DEF Steps
      <4> QED
        BY <3>1, <4>3, <4>4, <4>5
    <3>2. CASE k + 1 \notin S
      <4>1. S \in SUBSET (1..k)
        BY <2>2, <3>2
      <4>2. S \ {Max(S)} \in SUBSET (1..(k + 1)) /\ k + 1 \notin S \ {Max(S)}
        BY <3>2
      <4>3. h[S \ {Max(S)}] = f[S \ {Max(S)}]
        BY <4>2
      <4>4. f[S] = Body(f, S) /\ f[S] \in X
        BY <2>3, <4>1 DEF Folded
      <4> QED
        BY <3>2, <4>3, <4>4
    <3> QED
      BY <3>1, <3>2
  <2> HIDE DEF h
  <2>5. h \in [SUBSET (1..(k + 1)) -> X]
    <3>1. h = [S \in SUBSET (1..(k + 1)) |-> h[S]]
      BY DEF h
    <3> QED
      BY <2>4, <3>1
  <2>6. Folded(h, base, F, k + 1)
    BY <2>4 DEF Folded
  <2> QED
    BY <2>5, <2>6 DEF HasFold
<1> HIDE DEF N
<1>3. n \in N
  BY <1>1, <1>2, Induction DEF N
<1> QED
  BY <1>3 DEF N

-----------------------------------------------------------------------------
(* The differing cells: the fold over the registers of a frame, and over    *)
(* the frames.                                                              *)
CellStep(cells, f, r, a, b, bad) ==
    IF <<f, r>> \in bad THEN Append(cells, <<f, r, a[f][r], b[f][r]>>) ELSE cells
Indices(w) == [i \in 1..w |-> i]
RowFold(g, cells, f, a, b, bad, indices) ==
    g = [S \in SUBSET (DOMAIN indices) |->
            IF S = {} THEN cells ELSE CellStep(g[S \ {Max(S)}], f, indices[Max(S)], a, b, bad)]
RowRun(h, cells, f, a, b, bad, w) ==
    h = [k \in 0..w |-> IF k = 0 THEN cells ELSE CellStep(h[k - 1], f, k, a, b, bad)]
RowOf(cells, f, a, b, bad) == FoldLeftDomain(LAMBDA g, r : CellStep(g, f, r, a, b, bad), cells, a[f])

LEMMA StepTyped ==
    ASSUME NEW C, NEW x \in Seq(C), NEW f, NEW r, NEW a, NEW b, NEW bad, <<f, r, a[f][r], b[f][r]>> \in C
    PROVE  CellStep(x, f, r, a, b, bad) \in Seq(C)
<1> DEFINE e == <<f, r, a[f][r], b[f][r]>>
<1>1. e \in C /\ CellStep(x, f, r, a, b, bad) \in {x, Append(x, e)}
  BY DEF CellStep
<1> HIDE DEF e
<1> QED
  BY <1>1

LEMMA RowFolds ==
    ASSUME NEW C, NEW cells \in Seq(C), NEW f, NEW a, NEW b, NEW bad, NEW w \in Nat,
           \A r \in 1..w : <<f, r, a[f][r], b[f][r]>> \in C
    PROVE  \E g : RowFold(g, cells, f, a, b, bad, Indices(w))
<1> DEFINE F == [y \in Seq(C) \X (1..w) |-> CellStep(y[1], f, y[2], a, b, bad)]
<1>1. \A x \in Seq(C) : \A i \in 1..w : F[<<x, i>>] = CellStep(x, f, i, a, b, bad)
  OBVIOUS
<1>2. \A x \in Seq(C) : \A i \in 1..w : CellStep(x, f, i, a, b, bad) \in Seq(C)
  BY StepTyped
<1> HIDE DEF F
<1>3. Steps(F, Seq(C), w)
  BY <1>1, <1>2 DEF Steps
<1>4. PICK g \in [SUBSET (1..w) -> Seq(C)] : Folded(g, cells, F, w)
  BY <1>3, FoldExists DEF HasFold
<1>5. ASSUME NEW S \in SUBSET (1..w), S # {}
      PROVE  F[<<g[S \ {Max(S)}], Max(S)>>] = CellStep(g[S \ {Max(S)}], f, Indices(w)[Max(S)], a, b, bad)
  <2>1. S \ {Max(S)} \in SUBSET (1..w) /\ Max(S) \in 1..w /\ Indices(w)[Max(S)] = Max(S)
    BY <1>5, MaxIn DEF Indices
  <2> QED
    BY <1>1, <2>1
<1>6. RowFold(g, cells, f, a, b, bad, Indices(w))
  BY <1>4, <1>5 DEF Folded, RowFold, Indices
<1> QED
  BY <1>6

LEMMA RowRuns ==
    ASSUME NEW C, NEW cells \in Seq(C), NEW f, NEW a, NEW b, NEW bad, NEW w \in Nat, DOMAIN a[f] = 1..w,
           \A r \in 1..w : <<f, r, a[f][r], b[f][r]>> \in C
    PROVE  \E h : RowRun(h, cells, f, a, b, bad, w) /\ RowOf(cells, f, a, b, bad) = h[w]
<1> DEFINE indices == [i \in DOMAIN a[f] |-> i]
           it == CHOOSE g : RowFold(g, cells, f, a, b, bad, indices)
           h == [k \in 0..w |-> it[1..k]]
<1>0. indices = Indices(w) /\ DOMAIN indices = 1..w /\ \A i \in 1..w : indices[i] = i
  BY DEF Indices
<1>1. RowFold(it, cells, f, a, b, bad, indices)
  <2> HIDE DEF indices
  <2> QED
    BY <1>0, RowFolds
<1>2. RowOf(cells, f, a, b, bad) = it[1..w]
  <2>1. RowOf(cells, f, a, b, bad) = it[DOMAIN indices]
    BY DEF RowOf, FoldLeftDomain, FoldLeft, MapThenFoldSet, RowFold
  <2> QED
    BY <1>0, <2>1
<1> HIDE DEF it, indices
<1>3. ASSUME NEW k \in 0..w
      PROVE  h[k] = IF k = 0 THEN cells ELSE CellStep(h[k - 1], f, k, a, b, bad)
  <2>1. 1..k \in SUBSET (1..w)
    OBVIOUS
  <2>2. it[1..k] = IF 1..k = {} THEN cells ELSE CellStep(it[(1..k) \ {Max(1..k)}], f, indices[Max(1..k)], a, b, bad)
    BY <1>0, <1>1, <2>1 DEF RowFold
  <2>3. CASE k = 0
    BY <2>2, <2>3
  <2>4. CASE k # 0
    <3>1. k \in 1..k /\ k \in Nat /\ k - 1 \in 0..w
      BY <2>4
    <3>2. Max(1..k) = k /\ (1..k) \ {k} = 1..(k - 1) /\ indices[k] = k
      BY <1>0, <2>4, <3>1, MaxAll
    <3> QED
      BY <2>2, <2>4, <3>1, <3>2
  <2> QED
    BY <2>3, <2>4
<1>4. RowRun(h, cells, f, a, b, bad, w)
  BY <1>3 DEF RowRun
<1>5. h[w] = it[1..w]
  OBVIOUS
<1> HIDE DEF h
<1> QED
  BY <1>2, <1>4, <1>5

(* The cells of a set, in the order of their frames and registers, with     *)
(* what the two grids hold there.                                           *)
Precedes(c, d) == c[1] < d[1] \/ (c[1] = d[1] /\ c[2] < d[2])
Listed(cells, C, S, a, b) ==
    /\ cells \in Seq(C)
    /\ \A k \in 1..Len(cells) : /\ <<cells[k][1], cells[k][2]>> \in S
                               /\ cells[k][3] = a[cells[k][1]][cells[k][2]]
                               /\ cells[k][4] = b[cells[k][1]][cells[k][2]]
    /\ \A x \in S : \E k \in 1..Len(cells) : <<cells[k][1], cells[k][2]>> = x
    /\ \A k \in 1..Len(cells) : \A j \in 1..(k - 1) : Precedes(cells[j], cells[k])

Follows(f, r, C, S, a, b) == <<f, r, a[f][r], b[f][r]>> \in C /\ \A x \in S : Precedes(x, <<f, r>>)

LEMMA ListedNext ==
    ASSUME NEW C, NEW cells, NEW S, NEW a, NEW b, Listed(cells, C, S, a, b), NEW f, NEW r,
           Follows(f, r, C, S, a, b)
    PROVE  Listed(Append(cells, <<f, r, a[f][r], b[f][r]>>), C, S \union {<<f, r>>}, a, b)
<1> DEFINE e == <<f, r, a[f][r], b[f][r]>>
           new == Append(cells, e)
           n == Len(cells)
<1>1. e \in C /\ e[1] = f /\ e[2] = r /\ e[3] = a[f][r] /\ e[4] = b[f][r]
  BY DEF Follows
<1>2. cells \in Seq(C) /\ n \in Nat
  BY DEF Listed
<1> HIDE DEF e
<1>3. new \in Seq(C) /\ Len(new) = n + 1 /\ new[n + 1] = e /\ \A k \in 1..n : new[k] = cells[k]
  BY <1>1, <1>2
<1> HIDE DEF new, n
<1>4. \A k \in 1..n : /\ <<cells[k][1], cells[k][2]>> \in S
                      /\ cells[k][3] = a[cells[k][1]][cells[k][2]]
                      /\ cells[k][4] = b[cells[k][1]][cells[k][2]]
  BY DEF Listed, n
<1>5. ASSUME NEW k \in 1..(n + 1)
      PROVE  /\ <<new[k][1], new[k][2]>> \in S \union {<<f, r>>}
             /\ new[k][3] = a[new[k][1]][new[k][2]] /\ new[k][4] = b[new[k][1]][new[k][2]]
  <2>1. CASE k = n + 1
    BY <1>1, <1>3, <2>1
  <2>2. CASE k # n + 1
    <3>1. k \in 1..n
      BY <1>2, <2>2
    <3> QED
      BY <1>3, <1>4, <3>1
  <2> QED
    BY <2>1, <2>2
<1>6. ASSUME NEW x \in S \union {<<f, r>>} PROVE \E k \in 1..(n + 1) : <<new[k][1], new[k][2]>> = x
  <2>1. CASE x = <<f, r>>
    <3>1. n + 1 \in 1..(n + 1)
      BY <1>2
    <3> QED
      BY <1>1, <1>3, <2>1, <3>1
  <2>2. CASE x \in S
    <3>1. PICK k \in 1..n : <<cells[k][1], cells[k][2]>> = x
      BY <2>2 DEF Listed, n
    <3>2. k \in 1..(n + 1)
      BY <1>2
    <3> QED
      BY <1>3, <3>1, <3>2
  <2> QED
    BY <2>1, <2>2
<1>7. ASSUME NEW k \in 1..(n + 1), NEW j \in 1..(k - 1) PROVE Precedes(new[j], new[k])
  <2>1. j \in 1..n /\ new[j] = cells[j]
    BY <1>2, <1>3
  <2>2. CASE k = n + 1
    <3>1. Precedes(<<cells[j][1], cells[j][2]>>, <<f, r>>)
      BY <1>4, <2>1 DEF Follows
    <3> QED
      BY <1>1, <1>3, <2>1, <2>2, <3>1 DEF Precedes
  <2>3. CASE k # n + 1
    <3>1. k \in 1..n /\ new[k] = cells[k]
      BY <1>2, <1>3, <2>3
    <3> QED
      BY <2>1, <3>1 DEF Listed, n
  <2> QED
    BY <2>2, <2>3
<1> QED
  BY <1>3, <1>5, <1>6, <1>7 DEF Listed, new, e

CellsOf(a, b, n, w) == {<<f, r, a[f][r], b[f][r]>> : f \in 1..n, r \in 1..w}
Upto(bad, f, r) == {x \in bad : x[1] < f \/ (x[1] = f /\ x[2] <= r)}

LEMMA RowListed ==
    ASSUME NEW n \in Nat, NEW w \in Nat, NEW bad \in SUBSET ((1..n) \X (1..w)), NEW a, NEW b, NEW f \in 1..n,
           DOMAIN a[f] = 1..w, NEW cells, Listed(cells, CellsOf(a, b, n, w), Upto(bad, f, 0), a, b)
    PROVE  Listed(RowOf(cells, f, a, b, bad), CellsOf(a, b, n, w), Upto(bad, f, w), a, b)
<1> DEFINE C == CellsOf(a, b, n, w)
<1>1. \A r \in 1..w : <<f, r, a[f][r], b[f][r]>> \in C
  BY DEF CellsOf
<1>2. cells \in Seq(C)
  BY DEF Listed
<1> HIDE DEF C
<1>3. PICK h : RowRun(h, cells, f, a, b, bad, w) /\ RowOf(cells, f, a, b, bad) = h[w]
  BY <1>1, <1>2, RowRuns
<1>4. h[0] = cells /\ \A k \in 1..w : h[k] = CellStep(h[k - 1], f, k, a, b, bad)
  <2>1. \A k \in 0..w : h[k] = IF k = 0 THEN cells ELSE CellStep(h[k - 1], f, k, a, b, bad)
    BY <1>3 DEF RowRun
  <2>2. 0 \in 0..w /\ \A k \in 1..w : k \in 0..w /\ k # 0
    OBVIOUS
  <2> QED
    BY <2>1, <2>2
<1>5. \A x \in bad : x[1] \in Nat /\ x[2] \in Nat /\ x = <<x[1], x[2]>>
  OBVIOUS
<1> DEFINE N == {r \in Nat : r <= w => Listed(h[r], C, Upto(bad, f, r), a, b)}
<1>6. 0 \in N
  BY <1>4 DEF C
<1>7. ASSUME NEW r \in N PROVE r + 1 \in N
  <2>1. SUFFICES ASSUME r + 1 <= w PROVE Listed(h[r + 1], C, Upto(bad, f, r + 1), a, b)
    OBVIOUS
  <2>2. r \in Nat /\ r + 1 \in 1..w /\ Listed(h[r], C, Upto(bad, f, r), a, b) /\ (r + 1) - 1 = r
    BY <2>1
  <2>3. h[r + 1] = CellStep(h[r], f, r + 1, a, b, bad)
    BY <1>4, <2>2
  <2>4. CASE <<f, r + 1>> \in bad
    <3>1. h[r + 1] = Append(h[r], <<f, r + 1, a[f][r + 1], b[f][r + 1]>>)
      BY <2>3, <2>4 DEF CellStep
    <3>2. \A x \in Upto(bad, f, r) : Precedes(x, <<f, r + 1>>)
      BY <1>5, <2>2 DEF Upto, Precedes
    <3>3. Upto(bad, f, r + 1) = Upto(bad, f, r) \union {<<f, r + 1>>}
      <4>1. ASSUME NEW x \in Upto(bad, f, r + 1) PROVE x \in Upto(bad, f, r) \union {<<f, r + 1>>}
        BY <1>5, <2>2 DEF Upto
      <4>2. ASSUME NEW x \in Upto(bad, f, r) PROVE x \in Upto(bad, f, r + 1)
        BY <1>5, <2>2 DEF Upto
      <4>3. <<f, r + 1>> \in Upto(bad, f, r + 1)
        BY <2>2, <2>4 DEF Upto
      <4> QED
        BY <4>1, <4>2, <4>3
    <3>4. <<f, r + 1, a[f][r + 1], b[f][r + 1]>> \in C
      BY <1>1, <2>2
    <3>5. Follows(f, r + 1, C, Upto(bad, f, r), a, b)
      BY <3>2, <3>4 DEF Follows
    <3>6. Listed(Append(h[r], <<f, r + 1, a[f][r + 1], b[f][r + 1]>>), C, Upto(bad, f, r) \union {<<f, r + 1>>}, a, b)
      BY <2>2, <3>5, ListedNext
    <3> QED
      BY <3>1, <3>3, <3>6
  <2>5. CASE <<f, r + 1>> \notin bad
    <3>1. h[r + 1] = h[r]
      BY <2>3, <2>5 DEF CellStep
    <3>2. Upto(bad, f, r + 1) = Upto(bad, f, r)
      <4>1. ASSUME NEW x \in bad PROVE ~(x[1] = f /\ x[2] = r + 1)
        BY <1>5, <2>5
      <4> QED
        BY <1>5, <2>2, <4>1 DEF Upto
    <3> QED
      BY <2>2, <3>1, <3>2
  <2> QED
    BY <2>4, <2>5
<1> HIDE DEF N
<1>8. w \in N
  BY <1>6, <1>7, Induction DEF N
<1> QED
  BY <1>3, <1>8 DEF N, C

LEMMA RowTyped ==
    ASSUME NEW n \in Nat, NEW w \in Nat, NEW bad, NEW a, NEW b, NEW f \in 1..n, DOMAIN a[f] = 1..w,
           NEW cells \in Seq(CellsOf(a, b, n, w))
    PROVE  RowOf(cells, f, a, b, bad) \in Seq(CellsOf(a, b, n, w))
<1> DEFINE C == CellsOf(a, b, n, w)
<1>1. \A r \in 1..w : <<f, r, a[f][r], b[f][r]>> \in C
  BY DEF CellsOf
<1> HIDE DEF C
<1>2. PICK h : RowRun(h, cells, f, a, b, bad, w) /\ RowOf(cells, f, a, b, bad) = h[w]
  BY <1>1, RowRuns DEF C
<1> DEFINE N == {r \in Nat : r <= w => h[r] \in Seq(C)}
<1>3. \A k \in 0..w : h[k] = IF k = 0 THEN cells ELSE CellStep(h[k - 1], f, k, a, b, bad)
  BY <1>2 DEF RowRun
<1>4. 0 \in N
  BY <1>3 DEF C
<1>5. ASSUME NEW r \in N PROVE r + 1 \in N
  <2>1. SUFFICES ASSUME r + 1 <= w PROVE h[r + 1] \in Seq(C)
    OBVIOUS
  <2>2. r \in Nat /\ r + 1 \in 1..w /\ r + 1 \in 0..w /\ h[r] \in Seq(C) /\ (r + 1) - 1 = r
    BY <2>1
  <2>3. h[r + 1] = CellStep(h[r], f, r + 1, a, b, bad)
    BY <1>3, <2>2
  <2>4. <<f, r + 1, a[f][r + 1], b[f][r + 1]>> \in C
    BY <1>1, <2>2
  <2> QED
    BY <2>2, <2>3, <2>4, StepTyped
<1> HIDE DEF N
<1>6. w \in N
  BY <1>4, <1>5, Induction DEF N
<1> QED
  BY <1>2, <1>6 DEF N, C

TableFold(g, a, b, bad, indices) ==
    g = [S \in SUBSET (DOMAIN indices) |->
            IF S = {} THEN <<>> ELSE RowOf(g[S \ {Max(S)}], indices[Max(S)], a, b, bad)]
TableRun(h, a, b, bad, n) ==
    h = [k \in 0..n |-> IF k = 0 THEN <<>> ELSE RowOf(h[k - 1], k, a, b, bad)]
TableOf(a, b, bad) == FoldLeftDomain(LAMBDA cells, f : RowOf(cells, f, a, b, bad), <<>>, a)
Tabled(a, n, w) == DOMAIN a = 1..n /\ \A f \in 1..n : DOMAIN a[f] = 1..w

LEMMA TableFolds ==
    ASSUME NEW n \in Nat, NEW w \in Nat, NEW bad, NEW a, NEW b, Tabled(a, n, w)
    PROVE  \E g : TableFold(g, a, b, bad, Indices(n))
<1> DEFINE C == CellsOf(a, b, n, w)
           F == [y \in Seq(C) \X (1..n) |-> RowOf(y[1], y[2], a, b, bad)]
<1>1. \A x \in Seq(C) : \A i \in 1..n : F[<<x, i>>] = RowOf(x, i, a, b, bad)
  OBVIOUS
<1>2. \A x \in Seq(C) : \A i \in 1..n : RowOf(x, i, a, b, bad) \in Seq(C)
  BY RowTyped DEF Tabled
<1> HIDE DEF F, C
<1>3. Steps(F, Seq(C), n) /\ <<>> \in Seq(C)
  BY <1>1, <1>2 DEF Steps
<1>4. PICK g \in [SUBSET (1..n) -> Seq(C)] : Folded(g, <<>>, F, n)
  BY <1>3, FoldExists DEF HasFold
<1>5. ASSUME NEW S \in SUBSET (1..n), S # {}
      PROVE  F[<<g[S \ {Max(S)}], Max(S)>>] = RowOf(g[S \ {Max(S)}], Indices(n)[Max(S)], a, b, bad)
  <2>1. S \ {Max(S)} \in SUBSET (1..n) /\ Max(S) \in 1..n /\ Indices(n)[Max(S)] = Max(S)
    BY <1>5, MaxIn DEF Indices
  <2> QED
    BY <1>1, <2>1
<1>6. TableFold(g, a, b, bad, Indices(n))
  BY <1>4, <1>5 DEF Folded, TableFold, Indices
<1> QED
  BY <1>6

LEMMA TableRuns ==
    ASSUME NEW n \in Nat, NEW w \in Nat, NEW bad, NEW a, NEW b, Tabled(a, n, w)
    PROVE  \E h : TableRun(h, a, b, bad, n) /\ TableOf(a, b, bad) = h[n]
<1> DEFINE indices == [i \in DOMAIN a |-> i]
           it == CHOOSE g : TableFold(g, a, b, bad, indices)
           h == [k \in 0..n |-> it[1..k]]
<1>0. indices = Indices(n) /\ DOMAIN indices = 1..n /\ \A i \in 1..n : indices[i] = i
  BY DEF Indices, Tabled
<1>1. TableFold(it, a, b, bad, indices)
  <2> HIDE DEF indices
  <2> QED
    BY <1>0, TableFolds
<1>2. TableOf(a, b, bad) = it[1..n]
  <2>1. TableOf(a, b, bad) = it[DOMAIN indices]
    BY DEF TableOf, FoldLeftDomain, FoldLeft, MapThenFoldSet, TableFold
  <2> QED
    BY <1>0, <2>1
<1> HIDE DEF it, indices
<1>3. ASSUME NEW k \in 0..n
      PROVE  h[k] = IF k = 0 THEN <<>> ELSE RowOf(h[k - 1], k, a, b, bad)
  <2>1. 1..k \in SUBSET (1..n)
    OBVIOUS
  <2>2. it[1..k] = IF 1..k = {} THEN <<>> ELSE RowOf(it[(1..k) \ {Max(1..k)}], indices[Max(1..k)], a, b, bad)
    BY <1>0, <1>1, <2>1 DEF TableFold
  <2>3. CASE k = 0
    BY <2>2, <2>3
  <2>4. CASE k # 0
    <3>1. k \in 1..k /\ k \in Nat /\ k - 1 \in 0..n
      BY <2>4
    <3>2. Max(1..k) = k /\ (1..k) \ {k} = 1..(k - 1) /\ indices[k] = k
      BY <1>0, <2>4, <3>1, MaxAll
    <3> QED
      BY <2>2, <2>4, <3>1, <3>2
  <2> QED
    BY <2>3, <2>4
<1>4. TableRun(h, a, b, bad, n)
  BY <1>3 DEF TableRun
<1>5. h[n] = it[1..n]
  OBVIOUS
<1> HIDE DEF h
<1> QED
  BY <1>2, <1>4, <1>5

LEMMA TableListed ==
    ASSUME NEW n \in Nat, NEW w \in Nat, NEW bad \in SUBSET ((1..n) \X (1..w)), NEW a, NEW b, Tabled(a, n, w)
    PROVE  Listed(TableOf(a, b, bad), CellsOf(a, b, n, w), bad, a, b)
<1> DEFINE C == CellsOf(a, b, n, w)
<1>1. PICK h : TableRun(h, a, b, bad, n) /\ TableOf(a, b, bad) = h[n]
  BY TableRuns
<1>2. \A k \in 0..n : h[k] = IF k = 0 THEN <<>> ELSE RowOf(h[k - 1], k, a, b, bad)
  BY <1>1 DEF TableRun
<1>3. \A x \in bad : x[1] \in 1..n /\ x[2] \in 1..w
  OBVIOUS
<1>4. \A f \in 0..n : Upto(bad, f, w) = Upto(bad, f + 1, 0)
  BY <1>3 DEF Upto
<1> HIDE DEF C
<1> DEFINE N == {f \in Nat : f <= n => Listed(h[f], C, Upto(bad, f, w), a, b)}
<1>5. 0 \in N
  <2>1. h[0] = <<>>
    BY <1>2
  <2>2. Upto(bad, 0, w) = {}
    BY <1>3 DEF Upto
  <2>3. <<>> \in Seq(C) /\ Len(<<>>) = 0
    OBVIOUS
  <2>4. Listed(<<>>, C, {}, a, b)
    BY <2>3 DEF Listed
  <2> QED
    BY <2>1, <2>2, <2>4
<1>6. ASSUME NEW f \in N PROVE f + 1 \in N
  <2>1. SUFFICES ASSUME f + 1 <= n PROVE Listed(h[f + 1], C, Upto(bad, f + 1, w), a, b)
    OBVIOUS
  <2>2. f \in 0..n /\ f + 1 \in 1..n /\ f + 1 \in 0..n /\ (f + 1) - 1 = f /\ f + 1 # 0
        /\ Listed(h[f], C, Upto(bad, f, w), a, b)
    BY <2>1
  <2>3. h[f + 1] = RowOf(h[f], f + 1, a, b, bad)
    BY <1>2, <2>2
  <2>4. Listed(h[f], C, Upto(bad, f + 1, 0), a, b)
    BY <1>4, <2>2
  <2>5. DOMAIN a[f + 1] = 1..w
    BY <2>2 DEF Tabled
  <2>6. Listed(RowOf(h[f], f + 1, a, b, bad), C, Upto(bad, f + 1, w), a, b)
    BY <2>2, <2>4, <2>5, RowListed DEF C
  <2> QED
    BY <2>3, <2>6
<1> HIDE DEF N
<1>7. n \in N
  BY <1>5, <1>6, Induction DEF N
<1>8. Upto(bad, n, w) = bad
  BY <1>3 DEF Upto
<1> QED
  BY <1>1, <1>7, <1>8 DEF N, C

-----------------------------------------------------------------------------
(* The numbers of a row: voices by their registers, and carries.            *)
LEMMA DivBounds ==
    ASSUME NEW x \in Nat, NEW m \in Nat \ {0}
    PROVE  /\ x \div m \in Nat /\ m * (x \div m) <= x /\ x < m * (x \div m) + m
  OBVIOUS

LEMMA ModBounds ==
    ASSUME NEW x \in Int, NEW m \in Nat \ {0}
    PROVE  /\ x \div m \in Int /\ x % m \in 0..(m - 1) /\ x = m * (x \div m) + (x % m)
  OBVIOUS

LEMMA Multiples ==
    ASSUME NEW m \in Nat \ {0}, NEW q \in Int, NEW p \in Int, q < p
    PROVE  m * q + m <= m * p
<1>1. m * (p - q) >= m
  OBVIOUS
<1>2. m * (p - q) = m * p - m * q
  OBVIOUS
<1> QED
  BY <1>1, <1>2

LEMMA ModIs ==
    ASSUME NEW m \in Nat \ {0}, NEW q \in Int, NEW t \in 0..(m - 1)
    PROVE  (m * q + t) % m = t
<1> DEFINE x == m * q + t
           p == x \div m
           u == x % m
<1>1. x \in Int /\ p \in Int /\ u \in 0..(m - 1) /\ x = m * p + u
  BY ModBounds
<1>2. CASE p < q
  BY <1>1, <1>2, Multiples
<1>3. CASE q < p
  BY <1>1, <1>3, Multiples
<1> QED
  BY <1>1, <1>2, <1>3

LEMMA ModMinus ==
    ASSUME NEW x \in Int, NEW m \in Nat \ {0, 1}
    PROVE  (-x) % m = 1 <=> x % m = m - 1
<1>1. ASSUME NEW y \in Int, NEW t \in 1..(m - 1), y % m = t PROVE (-y) % m = m - t
  <2>1. y \div m \in Int /\ y = m * (y \div m) + t
    BY <1>1, ModBounds
  <2>2. PICK p \in Int : y = m * p + t
    BY <2>1
  <2>3. -y = m * (-p - 1) + (m - t)
    BY <2>2
  <2>4. m - t \in 0..(m - 1) /\ -p - 1 \in Int
    BY <2>2
  <2> QED
    BY <2>3, <2>4, ModIs
<1>2. 1 \in 1..(m - 1) /\ m - 1 \in 1..(m - 1) /\ m - (m - 1) = 1 /\ -x \in Int /\ -(-x) = x
  OBVIOUS
<1>3. x % m = m - 1 => (-x) % m = 1
  BY <1>1, <1>2
<1>4. (-x) % m = 1 => x % m = m - 1
  BY <1>1, <1>2
<1> QED
  BY <1>3, <1>4

(* The voice of a register.                                                 *)
LEMMA VoiceOf ==
    ASSUME NEW r \in 1..(Voices * VoiceRegs)
    PROVE  /\ ((r - 1) \div VoiceRegs) + 1 \in 1..Voices
           /\ \A v \in 1..Voices : r \in Voice(v) <=> v = ((r - 1) \div VoiceRegs) + 1
<1> DEFINE m == VoiceRegs
           q == (r - 1) \div m
<1>1. m \in Nat \ {0} /\ Voices \in Nat \ {0} /\ r - 1 \in Nat /\ Voices * m \in Nat
  BY SideAssumption
<1>2. q \in Nat /\ m * q <= r - 1 /\ r - 1 < m * q + m
  BY <1>1, DivBounds
<1> HIDE DEF q
<1>3. q < Voices
  <2>1. CASE Voices <= q
    <3>1. m * Voices <= m * q
      BY <1>1, <1>2, <2>1, Multiples
    <3> QED
      BY <1>1, <1>2, <3>1
  <2> QED
    BY <1>1, <1>2, <2>1
<1>4. ASSUME NEW v \in 1..Voices PROVE r \in Voice(v) <=> v = q + 1
  <2>1. Voice(v) = (m * (v - 1) + 1)..(m * (v - 1) + m)
    BY <1>1 DEF Voice
  <2>2. v - 1 \in Int /\ m * (v - 1) \in Int /\ m * q \in Int
    BY <1>1, <1>2
  <2>3. CASE v - 1 < q
    <3>1. m * (v - 1) + m <= m * q
      BY <1>1, <1>2, <2>2, <2>3, Multiples
    <3> QED
      BY <1>1, <1>2, <2>1, <2>2, <2>3, <3>1
  <2>4. CASE q < v - 1
    <3>1. m * q + m <= m * (v - 1)
      BY <1>1, <1>2, <2>2, <2>4, Multiples
    <3> QED
      BY <1>1, <1>2, <2>1, <2>2, <2>4, <3>1
  <2>5. CASE v - 1 = q
    BY <1>1, <1>2, <2>1, <2>2, <2>5
  <2> QED
    BY <1>1, <1>2, <2>3, <2>4, <2>5
<1> QED
  BY <1>1, <1>2, <1>3, <1>4 DEF q

(* The onsets: the cells a mask leaves.                                     *)
HeardFrom(starts, c) ==
    \E v \in 1..Voices : /\ starts[v] # 0 /\ c[1] >= starts[v]
                         /\ c[2] \in Voice(v) \/ c[2] > Voices * VoiceRegs

LEMMA MaskIs ==
    ASSUME NEW n \in Nat \ {0}, NEW grid, Tabled(grid, n, Width), NEW starts \in [1..Voices -> Nat],
           NEW f \in 1..n, NEW r \in 1..Width
    PROVE  <<f, r>> \in onset_mask(grid, starts) <=> HeardFrom(starts, <<f, r>>)
<1> DEFINE begun == {starts[v] : v \in DOMAIN starts} \ {0}
           Shared(x) == x > VoiceRegs * Len(starts)
           Of(x) == starts[((x - 1) \div VoiceRegs) + 1]
           In(g, x) == IF Shared(x) THEN begun # {} /\ g >= Min(begun) ELSE Of(x) # 0 /\ g >= Of(x)
<1>1. Voices \in Nat \ {0} /\ VoiceRegs \in Nat \ {0} /\ Voices * VoiceRegs \in Nat
      /\ VoiceRegs * Voices = Voices * VoiceRegs
  BY SideAssumption
<1>2. DOMAIN starts = 1..Voices /\ Len(starts) = Voices
  BY <1>1
<1>3. <<f, r>> \in onset_mask(grid, starts) <=> In(f, r)
  <2>1. onset_mask(grid, starts) = {c \in (DOMAIN grid) \X (DOMAIN grid[1]) : In(c[1], c[2])}
    BY DEF onset_mask
  <2>2. <<f, r>> \in (DOMAIN grid) \X (DOMAIN grid[1])
    <3>1. 1 \in 1..n
      OBVIOUS
    <3>2. DOMAIN grid = 1..n /\ DOMAIN grid[1] = 1..Width
      BY <3>1 DEF Tabled
    <3> QED
      BY <3>2
  <2> HIDE DEF In
  <2> QED
    BY <2>1, <2>2
<1>4. CASE r > Voices * VoiceRegs
  <2>1. In(f, r) <=> begun # {} /\ f >= Min(begun)
    BY <1>1, <1>2, <1>4
  <2>2. begun \in SUBSET Nat
    BY <1>2
  <2>3. HeardFrom(starts, <<f, r>>) <=> \E v \in 1..Voices : starts[v] # 0 /\ f >= starts[v]
    BY <1>4 DEF HeardFrom
  <2>4. (\E v \in 1..Voices : starts[v] # 0 /\ f >= starts[v]) <=> \E b \in begun : f >= b
    BY <1>2
  <2> HIDE DEF begun
  <2>5. ASSUME NEW b \in begun, f >= b PROVE begun # {} /\ f >= Min(begun)
    <3>1. Min(begun) \in begun /\ Min(begun) <= b
      BY <2>2, LeastOf
    <3>2. \A y \in begun : y \in Nat
      BY <2>2
    <3>3. Min(begun) \in Nat /\ b \in Nat /\ f \in Nat
      BY <3>1, <3>2
    <3> QED
      BY <2>5, <3>1, <3>3
  <2>6. ASSUME begun # {}, f >= Min(begun) PROVE \E b \in begun : f >= b
    BY <2>2, <2>6, LeastOf
  <2> HIDE DEF In
  <2> QED
    BY <1>3, <2>1, <2>3, <2>4, <2>5, <2>6
<1>5. CASE ~(r > Voices * VoiceRegs)
  <2> DEFINE v == ((r - 1) \div VoiceRegs) + 1
  <2>1. r \in 1..(Voices * VoiceRegs)
    BY <1>1, <1>5
  <2>2. v \in 1..Voices /\ \A u \in 1..Voices : r \in Voice(u) <=> u = v
    BY <2>1, VoiceOf
  <2>3. In(f, r) <=> starts[v] # 0 /\ f >= starts[v]
    BY <1>1, <1>2, <1>5
  <2> HIDE DEF v, In
  <2>4. HeardFrom(starts, <<f, r>>) <=> starts[v] # 0 /\ f >= starts[v]
    BY <1>5, <2>2 DEF HeardFrom
  <2> QED
    BY <1>3, <2>3, <2>4
<1> QED
  BY <1>4, <1>5

(* The carries: two numbers of a low and a high part, one apart.            *)
OffBy(x, y, m) == (x - y) % m = 1 \/ (y - x) % m = 1
Apart(low, p, q, u, v) == (q - v) * low + (p - u)

LEMMA OffIs ==
    ASSUME NEW low \in Nat \ {0}, NEW p \in Int, NEW q \in Int, NEW u \in Int, NEW v \in Int
    PROVE  OffBy(q * low + p, v * low + u, low * Bytes)
           <=> Apart(low, p, q, u, v) % (low * Bytes) \in {1, low * Bytes - 1}
<1> DEFINE m == low * Bytes
           x == Apart(low, p, q, u, v)
<1>1. m \in Nat \ {0, 1}
  <2>1. Bytes \in Nat \ {0, 1}
    BY SideAssumption
  <2>2. m \in Nat /\ m >= Bytes
    BY <2>1, Multiples
  <2> QED
    BY <2>1, <2>2
<1>2. x \in Int /\ (q * low + p) - (v * low + u) = x /\ (v * low + u) - (q * low + p) = -x
  <2>1. q * low \in Int /\ v * low \in Int /\ (q - v) * low = q * low - v * low
    OBVIOUS
  <2> QED
    BY <2>1 DEF Apart
<1> HIDE DEF m, x
<1>3. (-x) % m = 1 <=> x % m = m - 1
  BY <1>1, <1>2, ModMinus
<1>4. (x % m = 1 \/ (-x) % m = 1) <=> x % m \in {1, m - 1}
  BY <1>3
<1> QED
  BY <1>2, <1>4 DEF m, x, OffBy

LoOf(k) == (k - 1) * VoiceRegs + 1
LowOf(k) == IF k > Voices THEN FcLow ELSE Bytes
OneApart(a, b, f, k) ==
    Apart(LowOf(k), a[f][LoOf(k)], a[f][LoOf(k) + 1], b[f][LoOf(k)], b[f][LoOf(k) + 1]) % (LowOf(k) * Bytes)
        \in {1, LowOf(k) * Bytes - 1}
CarriedAt(a, b, f, r) == \E k \in 1..(Voices + 1) : r \in {LoOf(k), LoOf(k) + 1} /\ OneApart(a, b, f, k)

LEMMA LoIs ==
    ASSUME NEW k \in 1..(Voices + 1)
    PROVE  /\ LoOf(k) \in 1..Width /\ LoOf(k) + 1 \in 1..Width /\ LowOf(k) \in Nat \ {0}
           /\ LoOf(k) + 1 = (k - 1) * VoiceRegs + 2
           /\ k = Voices + 1 => LoOf(k) = Voices * VoiceRegs + 1 /\ LowOf(k) = FcLow
           /\ k # Voices + 1 => k \in 1..Voices /\ LowOf(k) = Bytes
<1>1. Voices \in Nat \ {0} /\ VoiceRegs \in Nat \ {0} /\ FcLow \in Nat \ {0} /\ Bytes \in Nat \ {0}
  BY SideAssumption
<1>2. (k - 1) * VoiceRegs \in Nat /\ Voices * VoiceRegs \in Nat /\ (k - 1) * VoiceRegs <= Voices * VoiceRegs
  <2>1. CASE k - 1 < Voices
    <3>1. VoiceRegs * (k - 1) + VoiceRegs <= VoiceRegs * Voices
      BY <1>1, <2>1, Multiples
    <3> QED
      BY <1>1, <3>1
  <2>2. CASE k - 1 = Voices
    BY <1>1, <2>2
  <2> QED
    BY <1>1, <2>1, <2>2
<1>3. Width = Voices * VoiceRegs + 2
  BY DEF Width
<1>4. LoOf(k) \in 1..Width /\ LoOf(k) + 1 \in 1..Width /\ LoOf(k) + 1 = (k - 1) * VoiceRegs + 2
  BY <1>2, <1>3 DEF LoOf
<1>5. LowOf(k) \in Nat \ {0} /\ (k = Voices + 1 => LowOf(k) = FcLow)
      /\ (k # Voices + 1 => k \in 1..Voices /\ LowOf(k) = Bytes)
  BY <1>1 DEF LowOf
<1>6. k = Voices + 1 => LoOf(k) = Voices * VoiceRegs + 1
  BY <1>1 DEF LoOf
<1> QED
  BY <1>4, <1>5, <1>6

LEMMA OneApartIs ==
    ASSUME NEW a, NEW b, NEW f, NEW k, LowOf(k) \in Nat \ {0},
           a[f][LoOf(k)] \in Int, a[f][LoOf(k) + 1] \in Int, b[f][LoOf(k)] \in Int, b[f][LoOf(k) + 1] \in Int
    PROVE  OffBy(a[f][LoOf(k) + 1] * LowOf(k) + a[f][LoOf(k)],
                 b[f][LoOf(k) + 1] * LowOf(k) + b[f][LoOf(k)], LowOf(k) * Bytes) <=> OneApart(a, b, f, k)
<1> DEFINE p == a[f][LoOf(k)]
           q == a[f][LoOf(k) + 1]
           u == b[f][LoOf(k)]
           v == b[f][LoOf(k) + 1]
           low == LowOf(k)
<1>1. OneApart(a, b, f, k) <=> Apart(low, p, q, u, v) % (low * Bytes) \in {1, low * Bytes - 1}
  BY DEF OneApart
<1>2. p \in Int /\ q \in Int /\ u \in Int /\ v \in Int /\ low \in Nat \ {0}
  OBVIOUS
<1> SUFFICES OffBy(q * low + p, v * low + u, low * Bytes) <=> OneApart(a, b, f, k)
  OBVIOUS
<1> HIDE DEF p, q, u, v, low
<1> QED
  BY <1>1, <1>2, OffIs

LEMMA PairsIn ==
    ASSUME NEW G, NEW f, NEW r, NEW x, NEW y
    PROVE  <<f, r>> \in UNION {{<<g, x>>, <<g, y>>} : g \in G} <=> f \in G /\ r \in {x, y}
  OBVIOUS

Numbers(a, n) == \A f \in 1..n : \A r \in 1..Width : a[f][r] \in Int

LEMMA CarryIs ==
    ASSUME NEW n \in Nat, NEW a, NEW b, DOMAIN a = 1..n, DOMAIN b = 1..n, Numbers(a, n), Numbers(b, n),
           NEW f \in 1..n, NEW r
    PROVE  <<f, r>> \in carry(a, b, Voices) <=> CarriedAt(a, b, f, r)
<1> DEFINE Freq(row, v) == row[(v - 1) * VoiceRegs + 2] * Bytes + row[(v - 1) * VoiceRegs + 1]
           lo == Voices * VoiceRegs + 1
           Fc(row) == row[lo + 1] * FcLow + row[lo]
           Frames_ == (DOMAIN a) \intersect (DOMAIN b)
           OffFreq(v) == {g \in Frames_ : OffBy(Freq(a[g], v), Freq(b[g], v), Bytes * Bytes)}
           OffFc == {g \in Frames_ : OffBy(Fc(a[g]), Fc(b[g]), FcLow * Bytes)}
           Pairs(v) == UNION {{<<g, (v - 1) * VoiceRegs + 1>>, <<g, (v - 1) * VoiceRegs + 2>>} : g \in OffFreq(v)}
           Last_ == UNION {{<<g, lo>>, <<g, lo + 1>>} : g \in OffFc}
           U == UNION {Pairs(v) : v \in 1..Voices}
<1>1. carry(a, b, Voices) = U \union Last_
  BY DEF carry, OffBy
<1> HIDE DEF U
<1>2. ASSUME NEW v \in 1..Voices
      PROVE  /\ f \in OffFreq(v) <=> OneApart(a, b, f, v)
             /\ LoOf(v) = (v - 1) * VoiceRegs + 1 /\ LoOf(v) + 1 = (v - 1) * VoiceRegs + 2
             /\ v \in 1..(Voices + 1)
  <2>1. v \in 1..(Voices + 1) /\ v # Voices + 1
    BY SideAssumption
  <2>2. LowOf(v) = Bytes /\ LowOf(v) \in Nat \ {0} /\ LoOf(v) + 1 = (v - 1) * VoiceRegs + 2
        /\ LoOf(v) \in 1..Width /\ LoOf(v) + 1 \in 1..Width
    BY <2>1, LoIs
  <2>3. LoOf(v) = (v - 1) * VoiceRegs + 1
    BY DEF LoOf
  <2>4. /\ a[f][LoOf(v)] \in Int /\ a[f][LoOf(v) + 1] \in Int
        /\ b[f][LoOf(v)] \in Int /\ b[f][LoOf(v) + 1] \in Int
    BY <2>2 DEF Numbers
  <2>5. f \in OffFreq(v) <=> OffBy(Freq(a[f], v), Freq(b[f], v), Bytes * Bytes)
    OBVIOUS
  <2>6. /\ Freq(a[f], v) = a[f][LoOf(v) + 1] * LowOf(v) + a[f][LoOf(v)]
        /\ Freq(b[f], v) = b[f][LoOf(v) + 1] * LowOf(v) + b[f][LoOf(v)]
    BY <2>2, <2>3
  <2> HIDE DEF Freq, OffFreq
  <2>7. OffBy(Freq(a[f], v), Freq(b[f], v), LowOf(v) * Bytes) <=> OneApart(a, b, f, v)
    BY <2>2, <2>4, <2>6, OneApartIs
  <2> QED
    BY <2>1, <2>2, <2>3, <2>5, <2>7
<1>3. /\ f \in OffFc <=> OneApart(a, b, f, Voices + 1)
      /\ LoOf(Voices + 1) = lo /\ Voices + 1 \in 1..(Voices + 1)
  <2> DEFINE v == Voices + 1
  <2>1. v \in 1..(Voices + 1)
    BY SideAssumption
  <2>2. LowOf(v) = FcLow /\ LowOf(v) \in Nat \ {0} /\ LoOf(v) = lo
        /\ LoOf(v) \in 1..Width /\ LoOf(v) + 1 \in 1..Width
    BY <2>1, LoIs
  <2>3. /\ a[f][LoOf(v)] \in Int /\ a[f][LoOf(v) + 1] \in Int
        /\ b[f][LoOf(v)] \in Int /\ b[f][LoOf(v) + 1] \in Int
    BY <2>2 DEF Numbers
  <2>4. f \in OffFc <=> OffBy(Fc(a[f]), Fc(b[f]), FcLow * Bytes)
    OBVIOUS
  <2>5. /\ Fc(a[f]) = a[f][LoOf(v) + 1] * LowOf(v) + a[f][LoOf(v)]
        /\ Fc(b[f]) = b[f][LoOf(v) + 1] * LowOf(v) + b[f][LoOf(v)]
    BY <2>2
  <2> HIDE DEF Fc, OffFc, v
  <2>6. OffBy(Fc(a[f]), Fc(b[f]), LowOf(v) * Bytes) <=> OneApart(a, b, f, v)
    BY <2>2, <2>3, <2>5, OneApartIs
  <2>7. f \in OffFc <=> OneApart(a, b, f, v)
    BY <2>2, <2>4, <2>6
  <2> QED
    BY <2>1, <2>2, <2>7 DEF v
<1> HIDE DEF OffFreq, OffFc, lo
<1>4. <<f, r>> \in carry(a, b, Voices) <=>
          \/ \E v \in 1..Voices : f \in OffFreq(v) /\ r \in {(v - 1) * VoiceRegs + 1, (v - 1) * VoiceRegs + 2}
          \/ f \in OffFc /\ r \in {lo, lo + 1}
  <2>2. <<f, r>> \in Last_ <=> f \in OffFc /\ r \in {lo, lo + 1}
    BY PairsIn
  <2> DEFINE In(v) == f \in OffFreq(v) /\ r \in {(v - 1) * VoiceRegs + 1, (v - 1) * VoiceRegs + 2}
  <2>3. \A v \in 1..Voices : <<f, r>> \in Pairs(v) <=> In(v)
    BY PairsIn
  <2> HIDE DEF Pairs, Last_, In
  <2>4. <<f, r>> \in U <=> \E v \in 1..Voices : In(v)
    BY <2>3 DEF U
  <2>5. <<f, r>> \in carry(a, b, Voices) <=> <<f, r>> \in U \/ <<f, r>> \in Last_
    BY <1>1
  <2>6. <<f, r>> \in carry(a, b, Voices) <=> (\E v \in 1..Voices : In(v)) \/ (f \in OffFc /\ r \in {lo, lo + 1})
    BY <2>2, <2>4, <2>5
  <2> QED
    BY <2>6 DEF In
<1>5. \A k \in 1..(Voices + 1) : k \in 1..Voices \/ k = Voices + 1
  BY SideAssumption
<1> QED
  BY <1>2, <1>3, <1>4, <1>5 DEF CarriedAt

-----------------------------------------------------------------------------
(* The cells of cell_diff: those that differ, are heard and not carried.    *)
GridRow == [1..Width -> 0..(Bytes - 1)]
BadOf(a, b, n, starts, tol) ==
    {c \in (1..n) \X (1..Width) :
        /\ a[c[1]][c[2]] # b[c[1]][c[2]]
        /\ starts = <<>> \/ HeardFrom(starts, c)
        /\ ~(tol = "carry" /\ CarriedAt(a, b, c[1], c[2]))}

LEMMA CutIs ==
    ASSUME NEW R, NEW g \in Seq(R), NEW n \in 0..Len(g)
    PROVE  /\ SubSeq(g, 1, n) \in Seq(R) /\ Len(SubSeq(g, 1, n)) = n /\ DOMAIN SubSeq(g, 1, n) = 1..n
           /\ \A f \in 1..n : SubSeq(g, 1, n)[f] = g[f] /\ g[f] \in R
<1>1. n \in Nat /\ n <= Len(g) /\ Len(g) \in Nat
  OBVIOUS
<1>2. CASE n = 0
  <2>1. SubSeq(g, 1, 0) = <<>>
    BY <1>1, SubSeqProperties
  <2> QED
    BY <1>2, <2>1
<1>3. CASE n # 0
  <2>1. 1 \in 1..(Len(g) + 1) /\ n \in 1..Len(g) /\ n - 1 + 1 = n
    BY <1>1, <1>3
  <2> QED
    BY <1>1, <2>1, SubSeqProperties
<1> QED
  BY <1>2, <1>3

LEMMA RowsAre ==
    ASSUME NEW g \in Seq(GridRow), NEW n \in 0..Len(g)
    PROVE  /\ Tabled(SubSeq(g, 1, n), n, Width) /\ Numbers(SubSeq(g, 1, n), n)
           /\ DOMAIN SubSeq(g, 1, n) = 1..n
<1> DEFINE a == SubSeq(g, 1, n)
<1>1. DOMAIN a = 1..n /\ \A f \in 1..n : a[f] = g[f] /\ g[f] \in GridRow
  BY CutIs
<1>2. \A f \in 1..n : DOMAIN a[f] = 1..Width /\ \A r \in 1..Width : a[f][r] \in 0..(Bytes - 1)
  BY <1>1 DEF GridRow
<1>3. \A x \in 0..(Bytes - 1) : x \in Int
  OBVIOUS
<1> HIDE DEF a
<1>4. \A f \in 1..n : \A r \in 1..Width : a[f][r] \in Int
  BY <1>2, <1>3
<1>5. Tabled(a, n, Width) /\ Numbers(a, n) /\ DOMAIN a = 1..n
  BY <1>1, <1>2, <1>4 DEF Tabled, Numbers
<1> QED
  BY <1>5 DEF a

LEMMA DiffListed ==
    ASSUME NEW ours \in Seq(GridRow), NEW theirs \in Seq(GridRow), NEW tol, NEW starts,
           starts = <<>> \/ starts \in [1..Voices -> Nat], NEW n, n = Least(Len(ours), Len(theirs)),
           NEW a, a = SubSeq(ours, 1, n), NEW b, b = SubSeq(theirs, 1, n)
    PROVE  Listed(cell_diff(ours, theirs, Voices, starts, tol), CellsOf(a, b, n, Width),
                  BadOf(a, b, n, starts, tol), a, b)
<1> DEFINE all == {c \in (1..n) \X (IF n = 0 THEN {} ELSE DOMAIN a[1]) : a[c[1]][c[2]] # b[c[1]][c[2]]}
           in == all \intersect (IF starts = <<>> \/ n = 0 THEN all ELSE onset_mask(a, starts))
           bad == in \ (IF tol = "carry" THEN carry(a, b, Voices) ELSE {})
<1>1. cell_diff(ours, theirs, Voices, starts, tol) = TableOf(a, b, bad)
  BY DEF cell_diff, TableOf, RowOf, CellStep, FoldLeftDomain, FoldLeft, MapThenFoldSet
<1>2. n \in Nat /\ n \in 0..Len(ours) /\ n \in 0..Len(theirs)
  BY DEF Least
<1>3. Tabled(a, n, Width) /\ DOMAIN a = 1..n /\ DOMAIN b = 1..n /\ Numbers(a, n) /\ Numbers(b, n)
  BY <1>2, RowsAre
<1>4. ASSUME NEW c \in (1..n) \X (1..Width) PROVE c \in bad <=> c \in BadOf(a, b, n, starts, tol)
  <2>1. n \in Nat \ {0} /\ 1 \in 1..n /\ DOMAIN a[1] = 1..Width
    BY <1>2, <1>3 DEF Tabled
  <2>2. PICK f \in 1..n, r \in 1..Width : c = <<f, r>>
    OBVIOUS
  <2>3. c \in all <=> a[c[1]][c[2]] # b[c[1]][c[2]]
    BY <2>1
  <2> HIDE DEF all
  <2>4. c \in in <=> c \in all /\ (starts = <<>> \/ HeardFrom(starts, c))
    <3>1. CASE starts = <<>>
      BY <3>1
    <3>2. CASE starts # <<>>
      <4>1. c \in onset_mask(a, starts) <=> HeardFrom(starts, c)
        BY <1>3, <2>1, <2>2, <3>2, MaskIs
      <4> QED
        BY <2>1, <3>2, <4>1
    <3> QED
      BY <3>1, <3>2
  <2> HIDE DEF in
  <2>5. c \in carry(a, b, Voices) <=> CarriedAt(a, b, c[1], c[2])
    BY <1>2, <1>3, <2>2, CarryIs
  <2>6. c \in bad <=> c \in in /\ ~(tol = "carry" /\ CarriedAt(a, b, c[1], c[2]))
    BY <2>5
  <2> QED
    BY <2>3, <2>4, <2>6 DEF BadOf
<1>5. bad \in SUBSET ((1..n) \X (1..Width))
  <2>1. CASE n = 0
    BY <2>1
  <2>2. CASE n # 0
    <3>1. 1 \in 1..n
      BY <1>2, <2>2
    <3>2. DOMAIN a[1] = 1..Width
      BY <1>3, <3>1 DEF Tabled
    <3> QED
      BY <2>2, <3>2
  <2> QED
    BY <2>1, <2>2
<1>6. BadOf(a, b, n, starts, tol) \in SUBSET ((1..n) \X (1..Width))
  BY DEF BadOf
<1> HIDE DEF bad
<1>7. bad = BadOf(a, b, n, starts, tol)
  BY <1>4, <1>5, <1>6
<1>8. Width \in Nat
  BY SideAssumption DEF Width
<1> QED
  BY <1>1, <1>2, <1>3, <1>5, <1>7, <1>8, TableListed

-----------------------------------------------------------------------------
(* A grid's file holds, of a register, its last change up to a frame.       *)
Changes(g, f, r) == f = 1 \/ g[f][r] # g[f - 1][r]
LastChange(g, f, r) ==
    \E j \in 1..f : Changes(g, j, r) /\ g[j][r] = g[f][r] /\ \A i \in (j + 1)..f : ~Changes(g, i, r)

LEMMA LastChanges ==
    ASSUME NEW g, NEW r, NEW n \in Nat
    PROVE  \A f \in 1..n : LastChange(g, f, r)
<1> DEFINE N == {f \in Nat : f # 0 => LastChange(g, f, r)}
<1>1. 0 \in N
  OBVIOUS
<1>2. ASSUME NEW f \in N PROVE f + 1 \in N
  <2>1. CASE Changes(g, f + 1, r)
    <3>1. f + 1 \in 1..(f + 1) /\ \A i \in ((f + 1) + 1)..(f + 1) : FALSE
      OBVIOUS
    <3>2. LastChange(g, f + 1, r)
      BY <2>1, <3>1 DEF LastChange
    <3> QED
      BY <3>2
  <2>2. CASE ~Changes(g, f + 1, r)
    <3>1. f \in Nat /\ f # 0 /\ (f + 1) - 1 = f /\ g[f + 1][r] = g[f][r]
      BY <2>2 DEF Changes
    <3>2. PICK j \in 1..f : Changes(g, j, r) /\ g[j][r] = g[f][r] /\ \A i \in (j + 1)..f : ~Changes(g, i, r)
      BY <3>1 DEF LastChange
    <3>3. j \in 1..(f + 1) /\ \A i \in (j + 1)..(f + 1) : i \in (j + 1)..f \/ i = f + 1
      BY <3>1
    <3>4. LastChange(g, f + 1, r)
      BY <2>2, <3>1, <3>2, <3>3 DEF LastChange
    <3> QED
      BY <3>4
  <2> QED
    BY <2>1, <2>2
<1> HIDE DEF N
<1>3. \A f \in Nat : f \in N
  BY <1>1, <1>2, Induction DEF N
<1> QED
  BY <1>3 DEF N

LEMMA ReadBack ==
    ASSUME NEW g \in Seq(GridRow), g # <<>>
    PROVE  read_grid(write_grid(g), Width, Len(g)) = g
<1> DEFINE n == Len(g)
           F == write_grid(g)
           Last_(f, r) == {c \in F : c[2] = r /\ c[1] <= f}
           At(f, r) == CHOOSE c \in Last_(f, r) : \A d \in Last_(f, r) : d[1] <= c[1]
<1>1. n \in Nat /\ n # 0 /\ 1 \in 1..n /\ DOMAIN g = 1..n /\ \A f \in 1..n : g[f] \in GridRow
  OBVIOUS
<1>2. \A f \in 1..n : DOMAIN g[f] = 1..Width /\ g[f] = [r \in 1..Width |-> g[f][r]]
  BY <1>1 DEF GridRow
<1>3. read_grid(F, Width, n) =
          [f \in 1..n |-> [r \in 1..Width |-> IF Last_(f, r) = {} THEN 0 ELSE At(f, r)[3]]]
  BY <1>1 DEF read_grid
<1>4. F = {<<x[1], x[2], g[x[1]][x[2]]>> : x \in {c \in (1..n) \X (1..Width) : Changes(g, c[1], c[2])}}
  <2>1. DOMAIN g[1] = 1..Width
    BY <1>1, <1>2
  <2> QED
    BY <1>1, <2>1 DEF write_grid, Changes
<1> HIDE DEF n, F
<1>5. ASSUME NEW c \in F PROVE /\ c[1] \in 1..n /\ c[2] \in 1..Width
                              /\ c[3] = g[c[1]][c[2]] /\ Changes(g, c[1], c[2])
  BY <1>4
<1>6. ASSUME NEW j \in 1..n, NEW r \in 1..Width, Changes(g, j, r) PROVE <<j, r, g[j][r]>> \in F
  <2>1. <<j, r>> \in {c \in (1..n) \X (1..Width) : Changes(g, c[1], c[2])}
    BY <1>6
  <2> QED
    BY <1>4, <2>1
<1>7. ASSUME NEW f \in 1..n, NEW r \in 1..Width
      PROVE  (IF Last_(f, r) = {} THEN 0 ELSE At(f, r)[3]) = g[f][r]
  <2>1. LastChange(g, f, r)
    BY <1>1, LastChanges
  <2>2. PICK j \in 1..f : Changes(g, j, r) /\ g[j][r] = g[f][r] /\ \A i \in (j + 1)..f : ~Changes(g, i, r)
    BY <2>1 DEF LastChange
  <2>3. j \in 1..n /\ j <= f
    BY <1>1
  <2> DEFINE e == <<j, r, g[j][r]>>
  <2>4. e \in F /\ e[1] = j /\ e[2] = r
    BY <1>6, <2>2, <2>3
  <2> HIDE DEF e
  <2>5. e \in Last_(f, r)
    BY <2>3, <2>4
  <2>6. ASSUME NEW d \in Last_(f, r) PROVE d \in F /\ d[1] \in Nat /\ d[1] <= j /\ d[2] = r
    <3>1. d \in F /\ d[2] = r /\ d[1] <= f
      OBVIOUS
    <3>2. d[1] \in 1..n /\ Changes(g, d[1], r)
      BY <1>5, <3>1
    <3>3. ~(d[1] \in (j + 1)..f)
      BY <2>2, <3>2
    <3> QED
      BY <1>1, <2>3, <3>1, <3>2, <3>3
  <2>7. \E c \in Last_(f, r) : \A d \in Last_(f, r) : d[1] <= c[1]
    BY <2>4, <2>5, <2>6
  <2>8. At(f, r) \in Last_(f, r) /\ \A d \in Last_(f, r) : d[1] <= At(f, r)[1]
    <3> HIDE DEF Last_
    <3> QED
      BY <2>7
  <2> DEFINE c == At(f, r)
  <2> HIDE DEF c
  <2>9. c \in F /\ c[2] = r /\ c[1] = j
    <3>1. c \in Last_(f, r) /\ e[1] <= c[1]
      BY <2>5, <2>8 DEF c
    <3>2. c \in F /\ c[1] \in Nat /\ c[1] <= j /\ c[2] = r
      BY <2>6, <3>1
    <3> QED
      BY <2>3, <2>4, <3>1, <3>2
  <2>10. c[3] = g[j][r]
    BY <1>5, <2>9
  <2>11. Last_(f, r) # {}
    BY <2>5
  <2> QED
    BY <2>2, <2>10, <2>11 DEF c
<1> HIDE DEF At, Last_
<1>8. ASSUME NEW f \in 1..n
      PROVE  [r \in 1..Width |-> IF Last_(f, r) = {} THEN 0 ELSE At(f, r)[3]] = g[f]
  BY <1>2, <1>7
<1>9. g = [f \in 1..n |-> g[f]]
  BY <1>1
<1> QED
  BY <1>3, <1>8, <1>9 DEF n, F

-----------------------------------------------------------------------------
(* The runs of a register, the fold over the cells.                         *)
RunStep(rs, c, register) ==
    LET run == Last(rs) seg == Last(run.values) new == <<c[1], c[1], c[3], c[4]>>
    IN  IF c[2] # register THEN rs
        ELSE IF rs = <<>> \/ c[1] # run.to + 1
        THEN Append(rs, [from |-> c[1], to |-> c[1], values |-> <<new>>])
        ELSE Append(Front(rs),
                    [run EXCEPT !.to = c[1],
                                !.values = IF seg[3] = c[3] /\ seg[4] = c[4]
                                           THEN Append(Front(@), [seg EXCEPT ![2] = c[1]])
                                           ELSE Append(@, new)])
RunsBody(g, S, cells, register) ==
    IF S = {} THEN <<>> ELSE RunStep(g[S \ {Max(S)}], cells[Max(S)], register)
RunsFold(g, cells, register) == g = [S \in SUBSET (DOMAIN cells) |-> RunsBody(g, S, cells, register)]
RunsUpTo(cells, register, n) == \E g : g = [S \in SUBSET (1..n) |-> RunsBody(g, S, cells, register)]

LEMMA RunsFolds ==
    ASSUME NEW cells, NEW register, NEW n \in Nat
    PROVE  RunsUpTo(cells, register, n)
<1> DEFINE N == {k \in Nat : RunsUpTo(cells, register, k)}
<1>1. 0 \in N
  <2> DEFINE g == [S \in SUBSET (1..0) |-> <<>>]
  <2>1. \A S \in SUBSET (1..0) : S = {}
    OBVIOUS
  <2>2. g = [S \in SUBSET (1..0) |-> RunsBody(g, S, cells, register)]
    BY <2>1 DEF RunsBody
  <2> QED
    BY <2>2 DEF RunsUpTo
<1>2. ASSUME NEW k \in N PROVE k + 1 \in N
  <2>1. k \in Nat
    OBVIOUS
  <2>2. PICK f : f = [S \in SUBSET (1..k) |-> RunsBody(f, S, cells, register)]
    BY DEF RunsUpTo
  <2> DEFINE h == [S \in SUBSET (1..(k + 1)) |-> IF k + 1 \in S THEN RunsBody(f, S, cells, register) ELSE f[S]]
  <2>3. ASSUME NEW S \in SUBSET (1..(k + 1)) PROVE h[S] = RunsBody(h, S, cells, register)
    <3>1. CASE k + 1 \in S
      <4>1. Max(S) = k + 1
        BY <2>1, <3>1, MaxTop
      <4>2. S \ {k + 1} \in SUBSET (1..(k + 1)) /\ k + 1 \notin S \ {k + 1}
        OBVIOUS
      <4>3. h[S \ {Max(S)}] = f[S \ {Max(S)}]
        BY <4>1, <4>2
      <4>4. h[S] = RunsBody(f, S, cells, register)
        BY <3>1
      <4> HIDE DEF h
      <4> QED
        BY <4>3, <4>4 DEF RunsBody
    <3>2. CASE k + 1 \notin S
      <4>1. S \in SUBSET (1..k)
        BY <2>1, <3>2
      <4>2. S \ {Max(S)} \in SUBSET (1..(k + 1)) /\ k + 1 \notin S \ {Max(S)}
        BY <3>2
      <4>3. h[S \ {Max(S)}] = f[S \ {Max(S)}]
        BY <4>2
      <4>4. f[S] = RunsBody(f, S, cells, register)
        BY <2>2, <4>1
      <4>5. h[S] = f[S]
        BY <3>2
      <4> HIDE DEF h
      <4> QED
        BY <4>3, <4>4, <4>5 DEF RunsBody
    <3> QED
      BY <3>1, <3>2
  <2>4. h = [S \in SUBSET (1..(k + 1)) |-> h[S]]
    OBVIOUS
  <2> HIDE DEF h
  <2>5. h = [S \in SUBSET (1..(k + 1)) |-> RunsBody(h, S, cells, register)]
    BY <2>3, <2>4
  <2> QED
    BY <2>5 DEF RunsUpTo
<1> HIDE DEF N
<1>3. \A k \in Nat : k \in N
  BY <1>1, <1>2, Induction DEF N
<1> QED
  BY <1>3 DEF N

(* The runs after each of the cells.                                        *)
RunsRun(h, cells, register, n) ==
    h = [k \in 0..n |-> IF k = 0 THEN <<>> ELSE RunStep(h[k - 1], cells[k], register)]

LEMMA RunsRuns ==
    ASSUME NEW C, NEW cells \in Seq(C), NEW register
    PROVE  \E h : RunsRun(h, cells, register, Len(cells)) /\ runs(cells, register) = h[Len(cells)]
<1> DEFINE n == Len(cells)
           it == CHOOSE g : RunsFold(g, cells, register)
           h == [k \in 0..n |-> it[1..k]]
<1>0. n \in Nat /\ DOMAIN cells = 1..n
  OBVIOUS
<1> HIDE DEF n
<1>1. RunsFold(it, cells, register)
  BY <1>0, RunsFolds DEF RunsFold, RunsUpTo
<1>2. runs(cells, register) = it[DOMAIN cells]
  BY DEF runs, FoldLeft, MapThenFoldSet, RunsFold, RunsBody, RunStep
<1> HIDE DEF it
<1>3. ASSUME NEW k \in 0..n
      PROVE  h[k] = IF k = 0 THEN <<>> ELSE RunStep(h[k - 1], cells[k], register)
  <2>1. 1..k \in SUBSET (1..n)
    BY <1>0
  <2>2. it[1..k] = RunsBody(it, 1..k, cells, register)
    BY <1>0, <1>1, <2>1 DEF RunsFold
  <2>3. CASE k = 0
    BY <2>2, <2>3 DEF RunsBody
  <2>4. CASE k # 0
    <3>1. k \in 1..k /\ k \in Nat /\ k - 1 \in 0..n
      BY <1>0, <2>4
    <3>2. Max(1..k) = k /\ (1..k) \ {k} = 1..(k - 1)
      BY <2>4, <3>1, MaxAll
    <3> QED
      BY <2>2, <2>4, <3>1, <3>2 DEF RunsBody
  <2> QED
    BY <2>3, <2>4
<1>4. RunsRun(h, cells, register, n)
  BY <1>3 DEF RunsRun
<1>5. h[n] = it[1..n]
  BY <1>0
<1> HIDE DEF h
<1> QED
  BY <1>0, <1>2, <1>4, <1>5 DEF n

-----------------------------------------------------------------------------
(* What a run holds: segments one after another, of the values the grids    *)
(* have there.                                                              *)
Seg == Nat \X Nat \X Int \X Int
Run == [from : Nat, to : Nat, values : Seq(Seg)]
SegHolds(seg, r) == seg[1] <= seg[2] /\ \A f \in seg[1]..seg[2] : s.ours[f][r] = seg[3] /\ s.theirs[f][r] = seg[4]
SegNext(last, seg) == seg[1] = last[2] + 1 /\ <<seg[3], seg[4]>> # <<last[3], last[4]>>
RunHolds(run, r) ==
    /\ run \in Run /\ run.values # <<>>
    /\ run.values[1][1] = run.from /\ run.values[Len(run.values)][2] = run.to
    /\ \A j \in 1..Len(run.values) : SegHolds(run.values[j], r)
    /\ \A j \in 2..Len(run.values) : SegNext(run.values[j - 1], run.values[j])
In(run, f) == \E j \in 1..Len(run.values) : f \in run.values[j][1]..run.values[j][2]

LEMMA RunBegins ==
    ASSUME NEW f \in Nat, NEW r, s.ours[f][r] \in Int, s.theirs[f][r] \in Int, NEW new,
           new = <<f, f, s.ours[f][r], s.theirs[f][r]>>, NEW run, run = [from |-> f, to |-> f, values |-> <<new>>]
    PROVE  RunHolds(run, r) /\ run.from = f /\ run.to = f /\ \A g : In(run, g) <=> g = f
<1>1. new \in Seg /\ new[1] = f /\ new[2] = f /\ new[3] = s.ours[f][r] /\ new[4] = s.theirs[f][r]
  BY DEF Seg
<1>2. run.from = f /\ run.to = f /\ run.values = <<new>> /\ Len(<<new>>) = 1 /\ <<new>>[1] = new
  OBVIOUS
<1> HIDE DEF Seg
<1>3. run \in Run
  BY <1>1 DEF Run
<1>4. \A g : g \in f..f <=> g = f
  OBVIOUS
<1>5. SegHolds(new, r)
  BY <1>1, <1>4 DEF SegHolds
<1>6. \A j \in 1..1 : j = 1
  OBVIOUS
<1>7. ~(\E j \in 2..1 : TRUE) /\ 1 \in 1..1
  OBVIOUS
<1>8. RunHolds(run, r)
  BY <1>1, <1>2, <1>3, <1>5, <1>6, <1>7 DEF RunHolds
<1>9. \A g : In(run, g) <=> g = f
  BY <1>1, <1>2, <1>4, <1>6, <1>7 DEF In
<1> QED
  BY <1>2, <1>8, <1>9

(* The next frame of a run lengthens its last segment or begins another.    *)
Grown(run, f, new) ==
    LET seg == Last(run.values)
    IN  [run EXCEPT !.to = f,
                    !.values = IF seg[3] = new[3] /\ seg[4] = new[4]
                               THEN Append(Front(@), [seg EXCEPT ![2] = f])
                               ELSE Append(@, new)]

LEMMA FrontIs ==
    ASSUME NEW R, NEW g \in Seq(R), g # <<>>
    PROVE  /\ Front(g) \in Seq(R) /\ Len(Front(g)) = Len(g) - 1 /\ Last(g) = g[Len(g)] /\ Len(g) \in Nat \ {0}
           /\ Last(g) \in R /\ \A k \in 1..(Len(g) - 1) : Front(g)[k] = g[k]
<1> DEFINE n == Len(g) - 1
<1>1. Len(g) \in Nat \ {0} /\ n \in 0..Len(g)
  OBVIOUS
<1>2. Front(g) = SubSeq(g, 1, n) /\ Last(g) = g[Len(g)]
  BY DEF Front, Last
<1>3. g[Len(g)] \in R
  BY <1>1
<1> HIDE DEF n
<1>4. SubSeq(g, 1, n) \in Seq(R) /\ Len(SubSeq(g, 1, n)) = n /\ \A k \in 1..n : SubSeq(g, 1, n)[k] = g[k]
  BY <1>1, CutIs
<1>5. n = Len(g) - 1
  BY DEF n
<1> QED
  BY <1>1, <1>2, <1>3, <1>4, <1>5

LEMMA SegsGrow ==
    ASSUME NEW R, NEW v \in Seq(R), v # <<>>, NEW e \in R
    PROVE  LET m == Len(v)
               w == Append(Front(v), e)
               u == Append(v, e)
           IN  /\ w \in Seq(R) /\ Len(w) = m /\ w[m] = e /\ \A k \in 1..(m - 1) : w[k] = v[k]
               /\ u \in Seq(R) /\ Len(u) = m + 1 /\ u[m + 1] = e /\ \A k \in 1..m : u[k] = v[k]
<1>1. /\ Front(v) \in Seq(R) /\ Len(Front(v)) = Len(v) - 1 /\ Len(v) \in Nat \ {0}
      /\ \A k \in 1..(Len(v) - 1) : Front(v)[k] = v[k]
  BY FrontIs
<1> DEFINE g == Front(v)
<1>2. Append(g, e) \in Seq(R) /\ Len(Append(g, e)) = Len(v) /\ Append(g, e)[Len(v)] = e
      /\ \A k \in 1..(Len(v) - 1) : Append(g, e)[k] = v[k]
  <2> HIDE DEF g
  <2>1. g \in Seq(R) /\ Len(g) = Len(v) - 1 /\ \A k \in 1..(Len(v) - 1) : g[k] = v[k]
    BY <1>1 DEF g
  <2> QED
    BY <1>1, <2>1
<1>3. Append(v, e) \in Seq(R) /\ Len(Append(v, e)) = Len(v) + 1 /\ Append(v, e)[Len(v) + 1] = e
      /\ \A k \in 1..Len(v) : Append(v, e)[k] = v[k]
  OBVIOUS
<1> QED
  BY <1>2, <1>3 DEF g

LEMMA RunGrows ==
    ASSUME NEW run, NEW r, RunHolds(run, r), NEW f, f = run.to + 1,
           s.ours[f][r] \in Int, s.theirs[f][r] \in Int, NEW new, new = <<f, f, s.ours[f][r], s.theirs[f][r]>>
    PROVE  /\ RunHolds(Grown(run, f, new), r) /\ Grown(run, f, new).from = run.from /\ Grown(run, f, new).to = f
           /\ \A g : In(Grown(run, f, new), g) <=> In(run, g) \/ g = f
<1> DEFINE v == run.values
           m == Len(v)
           seg == Last(v)
           to == Grown(run, f, new)
           longer == [seg EXCEPT ![2] = f]
<1>1. run \in Run /\ v \in Seq(Seg) /\ v # <<>> /\ run.to \in Nat /\ f \in Nat
  BY DEF RunHolds, Run
<1>2. m \in Nat \ {0} /\ seg = v[m] /\ seg \in Seg
  BY <1>1, FrontIs
<1>3. new \in Seg /\ new[1] = f /\ new[2] = f /\ new[3] = s.ours[f][r] /\ new[4] = s.theirs[f][r]
  BY <1>1 DEF Seg
<1>4. /\ longer \in Seg /\ longer[1] = seg[1] /\ longer[2] = f /\ longer[3] = seg[3] /\ longer[4] = seg[4]
      /\ \A i \in 1..m : v[i][1] \in Nat /\ v[i][2] \in Nat
  <2>1. PICK a \in Nat, b \in Nat, x \in Int, y \in Int : seg = <<a, b, x, y>>
    BY <1>2 DEF Seg
  <2> HIDE DEF seg
  <2>2. longer = <<a, f, x, y>>
    BY <2>1
  <2>3. longer \in Seg
    BY <1>1, <2>2 DEF Seg
  <2>4. \A i \in 1..m : v[i] \in Seg
    BY <1>1
  <2>5. \A i \in 1..m : v[i][1] \in Nat /\ v[i][2] \in Nat
    <3> HIDE DEF m, v
    <3> QED
      BY <2>4 DEF Seg
  <2> QED
    BY <2>1, <2>2, <2>3, <2>5
<1>5. /\ v[1][1] = run.from /\ v[m][2] = run.to
      /\ \A j \in 1..m : SegHolds(v[j], r)
      /\ \A j \in 2..m : SegNext(v[j - 1], v[j])
  BY DEF RunHolds
<1> DEFINE same == seg[3] = new[3] /\ seg[4] = new[4]
           w == IF same THEN Append(Front(v), longer) ELSE Append(v, new)
<1>6. to = [run EXCEPT !.to = f, !.values = w]
  BY DEF Grown
<1>7. to.from = run.from /\ to.to = f /\ to.values = w /\ (w \in Seq(Seg) => to \in Run)
  BY <1>1, <1>6 DEF Run
<1> HIDE DEF v, m, seg, to, longer
<1>8. CASE same
  <2>1. w \in Seq(Seg) /\ Len(w) = m /\ w[m] = longer /\ \A k \in 1..(m - 1) : w[k] = v[k]
    BY <1>1, <1>4, <1>8, SegsGrow DEF m
  <2> HIDE DEF w
  <2>2. SegHolds(v[m], r) /\ v[m][2] = run.to /\ \A g : g \in longer[1]..longer[2] <=> g \in v[m][1]..v[m][2] \/ g = f
    <3>1. SegHolds(v[m], r) /\ v[m][1] <= v[m][2] /\ v[m][1] \in Nat /\ v[m][2] \in Nat
      BY <1>2, <1>4, <1>5 DEF SegHolds
    <3>2. longer[1] = v[m][1] /\ longer[2] = v[m][2] + 1 /\ f = v[m][2] + 1
      BY <1>2, <1>4, <1>5
    <3> QED
      BY <1>5, <3>1, <3>2
  <2>3. SegHolds(longer, r)
    <3>1. longer[1] <= longer[2]
      BY <1>1, <1>2, <1>4, <1>5, <2>2 DEF SegHolds
    <3>2. longer[3] = v[m][3] /\ longer[4] = v[m][4] /\ longer[3] = s.ours[f][r] /\ longer[4] = s.theirs[f][r]
      BY <1>2, <1>3, <1>4, <1>8
    <3> QED
      BY <2>2, <3>1, <3>2 DEF SegHolds
  <2>4. \A j \in 1..m : j = m \/ j \in 1..(m - 1)
    BY <1>2
  <2>5. \A j \in 1..m : SegHolds(w[j], r) /\ w[j][1] = v[j][1]
    BY <1>2, <1>4, <1>5, <2>1, <2>3, <2>4
  <2>6. ASSUME NEW j \in 2..m PROVE SegNext(w[j - 1], w[j])
    <3>1. j - 1 \in 1..(m - 1) /\ j \in 1..m
      BY <1>2
    <3>2. w[j - 1] = v[j - 1] /\ SegNext(v[j - 1], v[j])
      BY <1>5, <2>1, <3>1
    <3>3. w[j][1] = v[j][1] /\ w[j][3] = v[j][3] /\ w[j][4] = v[j][4]
      BY <1>2, <1>4, <2>1, <2>4, <3>1
    <3> QED
      BY <3>2, <3>3 DEF SegNext
  <2>7. w # <<>> /\ w[1][1] = run.from /\ w[Len(w)][2] = f
    <3>1. 1 \in 1..m
      BY <1>2
    <3> QED
      BY <1>2, <1>4, <1>5, <2>1, <2>5, <3>1
  <2>8. RunHolds(to, r)
    BY <1>7, <2>1, <2>5, <2>6, <2>7 DEF RunHolds
  <2>9. ASSUME NEW g PROVE In(to, g) <=> In(run, g) \/ g = f
    <3>1. m \in 1..m
      BY <1>2
    <3>2. \A j \in 1..m : g \in w[j][1]..w[j][2] <=> g \in v[j][1]..v[j][2] \/ (j = m /\ g = f)
      BY <1>2, <2>1, <2>2, <2>4
    <3>3. In(to, g) <=> \E j \in 1..m : g \in w[j][1]..w[j][2]
      BY <1>7, <2>1 DEF In
    <3>4. In(run, g) <=> \E j \in 1..m : g \in v[j][1]..v[j][2]
      BY DEF In, v, m
    <3> QED
      BY <3>1, <3>2, <3>3, <3>4
  <2> QED
    BY <1>7, <2>8, <2>9 DEF to
<1>9. CASE ~same
  <2>1. w \in Seq(Seg) /\ Len(w) = m + 1 /\ w[m + 1] = new /\ \A k \in 1..m : w[k] = v[k]
    BY <1>1, <1>3, <1>9, SegsGrow DEF m
  <2>2. <<new[3], new[4]>> # <<v[m][3], v[m][4]>>
    BY <1>2, <1>9
  <2> HIDE DEF w, same
  <2>3. SegHolds(new, r)
    BY <1>1, <1>3 DEF SegHolds
  <2>4. \A j \in 1..(m + 1) : j = m + 1 \/ j \in 1..m
    BY <1>2
  <2>5. \A j \in 1..(m + 1) : SegHolds(w[j], r)
    BY <1>5, <2>1, <2>3, <2>4
  <2>6. ASSUME NEW j \in 2..(m + 1) PROVE SegNext(w[j - 1], w[j])
    <3>1. j - 1 \in 1..m /\ w[j - 1] = v[j - 1]
      BY <1>2, <2>1
    <3>2. CASE j = m + 1
      <4>1. j - 1 = m
        BY <1>2, <3>2
      <4> QED
        BY <1>3, <1>5, <2>1, <2>2, <3>1, <3>2, <4>1 DEF SegNext
    <3>3. CASE j # m + 1
      <4>1. j \in 2..m /\ j \in 1..m
        BY <1>2, <3>3
      <4> QED
        BY <1>5, <2>1, <3>1, <4>1
    <3> QED
      BY <3>2, <3>3
  <2>7. w # <<>> /\ w[1][1] = run.from /\ w[Len(w)][2] = f
    <3>1. 1 \in 1..m
      BY <1>2
    <3> QED
      BY <1>2, <1>3, <1>5, <2>1, <3>1
  <2>8. RunHolds(to, r)
    BY <1>7, <2>1, <2>5, <2>6, <2>7 DEF RunHolds
  <2>9. ASSUME NEW g PROVE In(to, g) <=> In(run, g) \/ g = f
    <3>1. m + 1 \in 1..(m + 1) /\ \A j \in 1..m : j \in 1..(m + 1)
      BY <1>2
    <3>2. g \in w[m + 1][1]..w[m + 1][2] <=> g = f
      BY <1>1, <1>3, <2>1
    <3>3. In(to, g) <=> \E j \in 1..(m + 1) : g \in w[j][1]..w[j][2]
      BY <1>7, <2>1 DEF In
    <3>4. In(run, g) <=> \E j \in 1..m : g \in v[j][1]..v[j][2]
      BY DEF In, v, m
    <3> QED
      BY <2>1, <2>4, <3>1, <3>2, <3>3, <3>4
  <2> QED
    BY <1>7, <2>8, <2>9 DEF to
<1> QED
  BY <1>8, <1>9

(* The runs of a set of frames: in order, none next to another.             *)
RunsHold(rs, r, frames) ==
    /\ rs \in Seq(Run)
    /\ \A k \in 1..Len(rs) : RunHolds(rs[k], r)
    /\ \A k \in 2..Len(rs) : rs[k].from > rs[k - 1].to + 1
    /\ \A g : (\E k \in 1..Len(rs) : In(rs[k], g)) <=> g \in frames
    /\ rs # <<>> => \A g \in frames : g <= Last(rs).to
CellHolds(c) ==
    /\ c[1] \in Nat /\ c[3] = s.ours[c[1]][c[2]] /\ c[4] = s.theirs[c[1]][c[2]]
    /\ c[3] \in Int /\ c[4] \in Int

LEMMA StepIs ==
    ASSUME NEW rs, NEW c, NEW new, new = <<c[1], c[1], c[3], c[4]>>
    PROVE  RunStep(rs, c, c[2]) = IF rs = <<>> \/ c[1] # Last(rs).to + 1
                                  THEN Append(rs, [from |-> c[1], to |-> c[1], values |-> <<new>>])
                                  ELSE Append(Front(rs), Grown(Last(rs), c[1], new))
<1>1. new[3] = c[3] /\ new[4] = c[4]
  OBVIOUS
<1> QED
  BY <1>1 DEF RunStep, Grown

LEMMA RunsGo ==
    ASSUME NEW rs, NEW r, NEW frames, RunsHold(rs, r, frames), NEW c, CellHolds(c), c[2] = r,
           \A g \in frames : g \in Nat /\ g < c[1]
    PROVE  RunsHold(RunStep(rs, c, r), r, frames \union {c[1]})
<1> DEFINE f == c[1]
           new == <<f, f, c[3], c[4]>>
           fresh == [from |-> f, to |-> f, values |-> <<new>>]
           n == Len(rs)
           out == RunStep(rs, c, r)
           all == frames \union {f}
<1>1. f \in Nat /\ c[3] = s.ours[f][r] /\ c[4] = s.theirs[f][r] /\ s.ours[f][r] \in Int /\ s.theirs[f][r] \in Int
      /\ new = <<f, f, s.ours[f][r], s.theirs[f][r]>>
  BY DEF CellHolds
<1>2. out = IF rs = <<>> \/ f # Last(rs).to + 1 THEN Append(rs, fresh)
            ELSE Append(Front(rs), Grown(Last(rs), f, new))
  BY StepIs
<1>3. RunHolds(fresh, r) /\ fresh.from = f /\ fresh.to = f /\ \A g : In(fresh, g) <=> g = f
  <2> HIDE DEF new
  <2> QED
    BY <1>1, RunBegins
<1>4. /\ rs \in Seq(Run) /\ n \in Nat
      /\ \A k \in 1..n : RunHolds(rs[k], r)
      /\ \A k \in 2..n : rs[k].from > rs[k - 1].to + 1
      /\ \A g : (\E k \in 1..n : In(rs[k], g)) <=> g \in frames
  BY DEF RunsHold
<1>5. \A x : RunHolds(x, r) => x \in Run /\ x.from \in Nat /\ x.to \in Nat /\ In(x, x.to)
  <2>1. ASSUME NEW x, RunHolds(x, r) PROVE x \in Run /\ x.from \in Nat /\ x.to \in Nat /\ In(x, x.to)
    <3>1. x \in Run /\ x.values \in Seq(Seg) /\ x.values # <<>> /\ x.from \in Nat /\ x.to \in Nat
          /\ x.values[Len(x.values)][2] = x.to
      BY <2>1 DEF RunHolds, Run
    <3>2. Len(x.values) \in 1..Len(x.values)
      BY <3>1
    <3>3. x.values[Len(x.values)] \in Seg /\ SegHolds(x.values[Len(x.values)], r)
      BY <2>1, <3>1, <3>2 DEF RunHolds
    <3> DEFINE seg == x.values[Len(x.values)]
    <3>4. seg[1] \in Nat /\ seg[2] = x.to /\ seg[1] <= seg[2]
      <4>1. seg[1] \in Nat
        BY <3>3 DEF Seg
      <4> QED
        BY <3>1, <3>3, <4>1 DEF SegHolds
    <3>5. x.to \in seg[1]..seg[2]
      BY <3>1, <3>4
    <3> QED
      BY <3>1, <3>2, <3>5 DEF In
  <2> QED
    BY <2>1
<1>6. ASSUME rs # <<>>
      PROVE  /\ n \in Nat \ {0} /\ Last(rs) = rs[n] /\ RunHolds(rs[n], r) /\ rs[n].to \in frames
             /\ rs[n].to < f
  <2>1. n \in Nat \ {0} /\ Last(rs) = rs[n] /\ n \in 1..n
    <3>1. rs \in Seq(Run)
      BY <1>4
    <3> QED
      BY <1>6, <3>1 DEF Last
  <2>2. RunHolds(rs[n], r) /\ In(rs[n], rs[n].to)
    BY <1>4, <1>5, <2>1
  <2>3. rs[n].to \in frames
    BY <1>4, <2>1, <2>2
  <2> QED
    BY <2>1, <2>2, <2>3
<1>7. \A g \in all : g \in Nat /\ g <= f
  BY <1>1
<1> HIDE DEF fresh, out, n
<1>8. CASE rs = <<>> \/ f # Last(rs).to + 1
  <2>1. out \in Seq(Run) /\ Len(out) = n + 1 /\ out[n + 1] = fresh /\ \A k \in 1..n : out[k] = rs[k]
    BY <1>2, <1>3, <1>4, <1>5, <1>8 DEF n
  <2>2. \A k \in 1..(n + 1) : k = n + 1 \/ k \in 1..n
    BY <1>4
  <2>3. n + 1 \in 1..(n + 1) /\ (\A k \in 1..n : k \in 1..(n + 1)) /\ out # <<>> /\ Last(out) = fresh
    <3>1. Len(out) = n + 1 /\ n + 1 # 0 /\ n \in Nat /\ out[n + 1] = fresh
      BY <1>4, <2>1
    <3>2. out # <<>>
      BY <3>1
    <3> QED
      BY <3>1, <3>2 DEF Last
  <2>4. \A k \in 1..(n + 1) : RunHolds(out[k], r)
    BY <1>3, <1>4, <2>1, <2>2
  <2>5. ASSUME NEW k \in 2..(n + 1) PROVE out[k].from > out[k - 1].to + 1
    <3>1. CASE k = n + 1
      <4>1. k - 1 = n /\ n \in 1..n /\ rs # <<>>
        BY <1>4, <3>1 DEF n
      <4>2. rs[n].to \in Nat /\ rs[n].to < f /\ f # rs[n].to + 1
        BY <1>5, <1>6, <1>8, <4>1
      <4>3. out[k] = fresh /\ out[k - 1] = rs[n]
        BY <2>1, <3>1, <4>1
      <4>4. fresh.from = f /\ f \in Nat
        BY <1>1, <1>3
      <4> HIDE DEF f
      <4> QED
        BY <4>2, <4>3, <4>4
    <3>2. CASE k # n + 1
      <4>1. k \in 2..n /\ k \in 1..n /\ k - 1 \in 1..n
        BY <1>4, <3>2
      <4> QED
        BY <1>4, <2>1, <4>1
    <3> QED
      BY <3>1, <3>2
  <2>6. \A g : (\E k \in 1..(n + 1) : In(out[k], g)) <=> g \in all
    BY <1>3, <1>4, <2>1, <2>2, <2>3
  <2> HIDE DEF all
  <2> QED
    BY <1>3, <1>7, <2>1, <2>3, <2>4, <2>5, <2>6 DEF RunsHold, all, out
<1>9. CASE ~(rs = <<>> \/ f # Last(rs).to + 1)
  <2> DEFINE to == Grown(rs[n], f, new)
  <2>1. /\ n \in Nat \ {0} /\ n \in 1..n /\ Last(rs) = rs[n] /\ RunHolds(rs[n], r)
        /\ f = rs[n].to + 1 /\ rs # <<>>
    BY <1>6, <1>9
  <2>2. RunHolds(to, r) /\ to.from = rs[n].from /\ to.to = f /\ \A g : In(to, g) <=> In(rs[n], g) \/ g = f
    <3> HIDE DEF new
    <3> QED
      BY <1>1, <2>1, RunGrows
  <2> HIDE DEF to
  <2>3. out = Append(Front(rs), to)
    BY <1>2, <1>9, <2>1 DEF to
  <2>4. out \in Seq(Run) /\ Len(out) = n /\ out[n] = to /\ \A k \in 1..(n - 1) : out[k] = rs[k]
    BY <1>4, <1>5, <2>1, <2>2, <2>3, SegsGrow DEF n
  <2>5. \A k \in 1..n : k = n \/ k \in 1..(n - 1)
    BY <2>1
  <2>6. out # <<>> /\ Last(out) = to
    <3>1. Len(out) = n /\ n # 0 /\ out[n] = to
      BY <2>1, <2>4
    <3>2. out # <<>>
      BY <3>1
    <3> QED
      BY <3>1, <3>2 DEF Last
  <2>7. \A k \in 1..n : RunHolds(out[k], r) /\ out[k].from = rs[k].from
    BY <1>4, <2>2, <2>4, <2>5
  <2>8. ASSUME NEW k \in 2..n PROVE out[k].from > out[k - 1].to + 1
    <3>1. k \in 1..n /\ k - 1 \in 1..(n - 1)
      BY <2>1
    <3> QED
      BY <1>4, <2>4, <2>7, <3>1
  <2>9. \A g : (\E k \in 1..n : In(out[k], g)) <=> g \in all
    BY <1>4, <2>1, <2>2, <2>4, <2>5
  <2> HIDE DEF all
  <2> QED
    BY <1>7, <2>2, <2>4, <2>6, <2>7, <2>8, <2>9 DEF RunsHold, all, out
<1> QED
  BY <1>8, <1>9

(* The frames of the cells of a register, up to the k-th.                   *)
FramesOf(cells, r, k) == {cells[j][1] : j \in {i \in 1..k : cells[i][2] = r}}
CellsHold(cells) ==
    /\ \A k \in 1..Len(cells) : CellHolds(cells[k])
    /\ \A k \in 1..Len(cells) : \A j \in 1..(k - 1) : Precedes(cells[j], cells[k])

LEMMA RunsNone == \A r : RunsHold(<<>>, r, {})
<1>1. <<>> \in Seq(Run) /\ Len(<<>>) = 0
  OBVIOUS
<1>2. (\A k \in 1..0 : FALSE) /\ \A k \in 2..0 : FALSE
  OBVIOUS
<1> QED
  BY <1>1, <1>2 DEF RunsHold

LEMMA RunsAll ==
    ASSUME NEW C, NEW cells \in Seq(C), CellsHold(cells), NEW r \in Int
    PROVE  RunsHold(runs(cells, r), r, FramesOf(cells, r, Len(cells)))
<1> DEFINE n == Len(cells)
<1>1. n \in Nat
  OBVIOUS
<1>2. PICK h : RunsRun(h, cells, r, n) /\ runs(cells, r) = h[n]
  BY RunsRuns
<1>3. \A k \in 0..n : h[k] = IF k = 0 THEN <<>> ELSE RunStep(h[k - 1], cells[k], r)
  BY <1>2 DEF RunsRun
<1> DEFINE N == {k \in Nat : k <= n => RunsHold(h[k], r, FramesOf(cells, r, k))}
<1>4. 0 \in N
  <2>1. h[0] = <<>> /\ FramesOf(cells, r, 0) = {}
    BY <1>1, <1>3 DEF FramesOf
  <2> QED
    BY <2>1, RunsNone
<1>5. ASSUME NEW k \in N PROVE k + 1 \in N
  <2>1. SUFFICES ASSUME k + 1 <= n PROVE RunsHold(h[k + 1], r, FramesOf(cells, r, k + 1))
    OBVIOUS
  <2>2. k \in Nat /\ k + 1 \in 1..n /\ k + 1 \in 0..n /\ (k + 1) - 1 = k /\ RunsHold(h[k], r, FramesOf(cells, r, k))
    BY <1>1, <2>1
  <2> HIDE DEF n, N
  <2>3. h[k + 1] = RunStep(h[k], cells[k + 1], r)
    BY <1>3, <2>2
  <2> DEFINE c == cells[k + 1]
  <2>4. CellHolds(c) /\ \A j \in 1..k : CellHolds(cells[j]) /\ Precedes(cells[j], c)
    <3>1. \A j \in 1..k : j \in 1..n
      BY <1>1, <2>2
    <3> QED
      BY <2>2, <3>1 DEF CellsHold, n
  <2>5. \A j \in 1..(k + 1) : j = k + 1 \/ j \in 1..k
    BY <2>2
  <2>6. k + 1 \in 1..(k + 1) /\ \A j \in 1..k : j \in 1..(k + 1)
    BY <2>2
  <2>7. CASE c[2] = r
    <3>1. FramesOf(cells, r, k + 1) = FramesOf(cells, r, k) \union {c[1]}
      BY <2>5, <2>6, <2>7 DEF FramesOf
    <3>2. ASSUME NEW g \in FramesOf(cells, r, k) PROVE g \in Nat /\ g < c[1]
      <4>1. PICK j \in 1..k : cells[j][2] = r /\ g = cells[j][1]
        BY DEF FramesOf
      <4>2. g \in Nat /\ c[1] \in Nat /\ (g < c[1] \/ (g = c[1] /\ r < r))
        BY <2>4, <2>7, <4>1 DEF Precedes, CellHolds
      <4> QED
        BY <4>2
    <3> HIDE DEF c
    <3>3. RunsHold(RunStep(h[k], c, r), r, FramesOf(cells, r, k) \union {c[1]})
      BY <2>2, <2>4, <2>7, <3>2, RunsGo
    <3> QED
      BY <2>3, <3>1, <3>3 DEF c
  <2>8. CASE c[2] # r
    <3>1. FramesOf(cells, r, k + 1) = FramesOf(cells, r, k)
      BY <2>5, <2>6, <2>8 DEF FramesOf
    <3>2. RunStep(h[k], c, r) = h[k]
      BY <2>8 DEF RunStep
    <3> QED
      BY <2>2, <2>3, <3>1, <3>2
  <2> QED
    BY <2>7, <2>8
<1> HIDE DEF N
<1>6. n \in N
  BY <1>1, <1>4, <1>5, Induction DEF N
<1> QED
  BY <1>1, <1>2, <1>6 DEF N

-----------------------------------------------------------------------------
(* What is said of two grids, is so.                                        *)
LEMMA MaximalIs ==
    ASSUME NEW rs, NEW r, NEW frames, RunsHold(rs, r, frames)
    PROVE  Maximal(rs, r, frames)
<1>1. rs \in Seq(Run) /\ Len(rs) \in Nat /\ DOMAIN rs = 1..Len(rs)
  BY DEF RunsHold
<1>2. ASSUME NEW k \in DOMAIN rs
      PROVE  /\ RunHolds(rs[k], r) /\ DOMAIN rs[k].values = 1..Len(rs[k].values)
             /\ Len(rs[k].values) \in Nat \ {0}
  <2>1. RunHolds(rs[k], r)
    BY <1>1 DEF RunsHold
  <2>2. rs[k].values \in Seq(Seg) /\ rs[k].values # <<>>
    BY <2>1 DEF RunHolds, Run
  <2> QED
    BY <2>1, <2>2
<1>3. ASSUME NEW g
      PROVE  g \in UNION {UNION {seg[1]..seg[2] : seg \in Range(rs[k].values)} : k \in DOMAIN rs}
             <=> \E k \in DOMAIN rs : In(rs[k], g)
  <2>1. ASSUME NEW k \in DOMAIN rs
        PROVE  g \in UNION {seg[1]..seg[2] : seg \in Range(rs[k].values)} <=> In(rs[k], g)
    <3>1. \A seg : seg \in Range(rs[k].values) <=> \E j \in 1..Len(rs[k].values) : seg = rs[k].values[j]
      BY <1>2 DEF Range
    <3> QED
      BY <3>1 DEF In
  <2> DEFINE Of(k) == UNION {seg[1]..seg[2] : seg \in Range(rs[k].values)}
  <2>2. \A k \in DOMAIN rs : g \in Of(k) <=> In(rs[k], g)
    BY <2>1
  <2> HIDE DEF Of
  <2>3. g \in UNION {Of(k) : k \in DOMAIN rs} <=> \E k \in DOMAIN rs : In(rs[k], g)
    BY <2>2
  <2> QED
    BY <2>3 DEF Of
<1>4. UNION {UNION {seg[1]..seg[2] : seg \in Range(rs[k].values)} : k \in DOMAIN rs} = frames
  <2> DEFINE U == UNION {UNION {seg[1]..seg[2] : seg \in Range(rs[k].values)} : k \in DOMAIN rs}
  <2>1. \A g : g \in U <=> \E k \in DOMAIN rs : In(rs[k], g)
    BY <1>3
  <2> HIDE DEF U
  <2>2. \A g : g \in U <=> g \in frames
    BY <1>1, <2>1 DEF RunsHold
  <2> QED
    BY <2>2 DEF U
<1>5. ASSUME NEW k \in DOMAIN rs PROVE k > 1 => rs[k].from > rs[k - 1].to + 1
  <2>1. k > 1 => k \in 2..Len(rs)
    BY <1>1
  <2> QED
    BY <2>1 DEF RunsHold
<1>6. ASSUME NEW k \in DOMAIN rs, NEW j \in DOMAIN rs[k].values
      PROVE  /\ SegHolds(rs[k].values[j], r)
             /\ j > 1 => SegNext(rs[k].values[j - 1], rs[k].values[j])
  <2>1. j \in 1..Len(rs[k].values) /\ (j > 1 => j \in 2..Len(rs[k].values))
    BY <1>2
  <2> QED
    BY <1>2, <2>1 DEF RunHolds
<1>7. ASSUME NEW k \in DOMAIN rs
      PROVE rs[k].values[1][1] = rs[k].from /\ rs[k].values[Len(rs[k].values)][2] = rs[k].to
  BY <1>2 DEF RunHolds
<1> QED
  BY <1>4, <1>5, <1>6, <1>7 DEF Maximal, SegHolds, SegNext

(* What the differing cells are of, in the state.                           *)
SideOf(x) ==
    /\ x.ours \in Seq(GridRow) /\ x.theirs \in Seq(GridRow) /\ x.ours # <<>>
    /\ x.starts = <<>> \/ x.starts \in [1..Voices -> Nat]

LEMMA CarriedIs ==
    ASSUME NEW n \in Nat, NEW a, NEW b, \A f \in 1..n : a[f] = s.ours[f] /\ b[f] = s.theirs[f],
           NEW c \in (1..n) \X (1..Width)
    PROVE  CarriedAt(a, b, c[1], c[2]) <=> Carried(c)
<1>1. a[c[1]] = s.ours[c[1]] /\ b[c[1]] = s.theirs[c[1]]
  OBVIOUS
<1> QED
  BY <1>1 DEF CarriedAt, Carried, OneApart, LoOf, LowOf, Apart

LEMMA DiffIs ==
    ASSUME SideOf(s), NEW n, n = Least(Len(s.ours), Len(s.theirs)), NEW starts,
           starts = <<>> \/ starts = s.starts, NEW tol
    PROVE  LET cells == cell_diff(s.ours, s.theirs, Voices, starts, tol)
               bad == {c \in Differ : (starts = <<>> \/ Heard(c)) /\ ~(tol = "carry" /\ Carried(c))}
           IN  \E C : Listed(cells, C, bad, s.ours, s.theirs)
<1> DEFINE a == SubSeq(s.ours, 1, n)
           b == SubSeq(s.theirs, 1, n)
           cells == cell_diff(s.ours, s.theirs, Voices, starts, tol)
           bad == {c \in Differ : (starts = <<>> \/ Heard(c)) /\ ~(tol = "carry" /\ Carried(c))}
           C == CellsOf(a, b, n, Width)
<1>1. s.ours \in Seq(GridRow) /\ s.theirs \in Seq(GridRow) /\ (starts = <<>> \/ starts \in [1..Voices -> Nat])
  BY DEF SideOf
<1>2. n \in Nat /\ n \in 0..Len(s.ours) /\ n \in 0..Len(s.theirs)
  BY <1>1 DEF Least
<1>3. Listed(cells, C, BadOf(a, b, n, starts, tol), a, b)
  BY <1>1, DiffListed
<1>4. \A f \in 1..n : a[f] = s.ours[f] /\ b[f] = s.theirs[f]
  BY <1>1, <1>2, CutIs
<1> HIDE DEF a, b, cells, C
<1>5. ASSUME NEW c \in (1..n) \X (1..Width) PROVE c \in BadOf(a, b, n, starts, tol) <=> c \in bad
  <2>1. c \in Differ <=> a[c[1]][c[2]] # b[c[1]][c[2]]
    BY <1>4 DEF Differ
  <2>2. CarriedAt(a, b, c[1], c[2]) <=> Carried(c)
    BY <1>2, <1>4, CarriedIs
  <2>3. (starts = <<>> \/ HeardFrom(starts, c)) <=> (starts = <<>> \/ Heard(c))
    BY DEF HeardFrom, Heard
  <2> QED
    BY <2>1, <2>2, <2>3 DEF BadOf
<1>6. bad \in SUBSET ((1..n) \X (1..Width)) /\ BadOf(a, b, n, starts, tol) \in SUBSET ((1..n) \X (1..Width))
  BY DEF BadOf, Differ
<1> HIDE DEF bad
<1>7. BadOf(a, b, n, starts, tol) = bad
  BY <1>5, <1>6
<1>8. \A k \in 1..Len(cells) : cells[k][1] \in 1..n
  <2>1. ASSUME NEW k \in 1..Len(cells) PROVE cells[k][1] \in 1..n
    <3>1. <<cells[k][1], cells[k][2]>> \in (1..n) \X (1..Width)
      BY <1>3, <1>6, <1>7 DEF Listed
    <3> QED
      BY <3>1
  <2> QED
    BY <2>1
<1>9. Listed(cells, C, bad, s.ours, s.theirs)
  BY <1>3, <1>4, <1>7, <1>8 DEF Listed
<1> QED
  BY <1>9 DEF cells, bad

(* A list's cells are its set's, none before the first.                     *)
LEMMA ListedIs ==
    ASSUME NEW cells, NEW C, NEW S, NEW a, NEW b, Listed(cells, C, S, a, b), \A c \in S : c[1] \in Int
    PROVE  /\ cells \in Seq(C) /\ DOMAIN cells = 1..Len(cells)
           /\ {<<cells[k][1], cells[k][2]>> : k \in DOMAIN cells} = S
           /\ (cells = <<>> <=> S = {})
           /\ \A k \in DOMAIN cells : cells[1][1] <= cells[k][1] /\ 1 \in DOMAIN cells
<1>1. cells \in Seq(C) /\ DOMAIN cells = 1..Len(cells) /\ Len(cells) \in Nat /\ (cells = <<>> <=> Len(cells) = 0)
  BY DEF Listed
<1>2. /\ \A k \in DOMAIN cells : <<cells[k][1], cells[k][2]>> \in S
      /\ \A x \in S : \E k \in DOMAIN cells : <<cells[k][1], cells[k][2]>> = x
  BY <1>1 DEF Listed
<1>3. cells = <<>> <=> S = {}
  <2>1. Len(cells) # 0 => 1 \in DOMAIN cells
    BY <1>1
  <2>2. Len(cells) = 0 => DOMAIN cells = {}
    BY <1>1
  <2> QED
    BY <1>1, <1>2, <2>1, <2>2
<1>4. ASSUME NEW k \in DOMAIN cells PROVE cells[1][1] <= cells[k][1] /\ 1 \in DOMAIN cells
  <2>1. k \in 1..Len(cells) /\ 1 \in DOMAIN cells /\ (k # 1 => 1 \in 1..(k - 1))
    BY <1>1
  <2>2. k # 1 => Precedes(cells[1], cells[k])
    BY <2>1 DEF Listed
  <2>3. cells[1][1] \in Int /\ cells[k][1] \in Int
    <3>1. <<cells[1][1], cells[1][2]>> \in S /\ <<cells[k][1], cells[k][2]>> \in S
      BY <1>2, <2>1
    <3> QED
      BY <3>1
  <2> QED
    BY <2>1, <2>2, <2>3 DEF Precedes
<1> QED
  BY <1>1, <1>2, <1>3, <1>4

LEMMA DiffersIn ==
    ASSUME SideOf(s), NEW c \in Differ
    PROVE  /\ c[1] \in Nat /\ c[1] \in 1..Len(s.ours) /\ c[2] \in 1..Width
           /\ s.ours[c[1]][c[2]] \in Int /\ s.theirs[c[1]][c[2]] \in Int
<1>1. c[1] \in 1..Least(Len(s.ours), Len(s.theirs)) /\ c[2] \in 1..Width
  BY DEF Differ
<1>2. Len(s.ours) \in Nat /\ Len(s.theirs) \in Nat
  BY DEF SideOf
<1>3. c[1] \in 1..Len(s.ours) /\ c[1] \in 1..Len(s.theirs)
  BY <1>1, <1>2 DEF Least
<1>4. s.ours[c[1]] \in GridRow /\ s.theirs[c[1]] \in GridRow
  BY <1>3 DEF SideOf
<1>5. s.ours[c[1]][c[2]] \in 0..(Bytes - 1) /\ s.theirs[c[1]][c[2]] \in 0..(Bytes - 1)
  BY <1>1, <1>4 DEF GridRow
<1> QED
  BY <1>1, <1>3, <1>5

LEMMA RunsTrue ==
    ASSUME SideOf(s), NEW cells, NEW C, NEW found \in SUBSET Differ,
           Listed(cells, C, found, s.ours, s.theirs), NEW r \in 1..Width
    PROVE  Maximal(runs(cells, r), r, {c[1] : c \in {x \in found : x[2] = r}})
<1>1. \A c \in found : /\ c[1] \in Nat /\ c[2] \in 1..Width
                       /\ s.ours[c[1]][c[2]] \in Int /\ s.theirs[c[1]][c[2]] \in Int
  BY DiffersIn
<1>2. \A c \in found : c[1] \in Int
  BY <1>1
<1>3. cells \in Seq(C) /\ DOMAIN cells = 1..Len(cells)
      /\ {<<cells[k][1], cells[k][2]>> : k \in DOMAIN cells} = found
  BY <1>2, ListedIs
<1>4. ASSUME NEW k \in 1..Len(cells) PROVE CellHolds(cells[k])
  <2>1. <<cells[k][1], cells[k][2]>> \in found /\ cells[k][3] = s.ours[cells[k][1]][cells[k][2]]
        /\ cells[k][4] = s.theirs[cells[k][1]][cells[k][2]]
    BY DEF Listed
  <2>2. /\ cells[k][1] \in Nat /\ s.ours[cells[k][1]][cells[k][2]] \in Int
        /\ s.theirs[cells[k][1]][cells[k][2]] \in Int
    BY <1>1, <2>1
  <2> QED
    BY <2>1, <2>2 DEF CellHolds
<1>5. CellsHold(cells)
  BY <1>4 DEF CellsHold, Listed
<1>6. r \in Int
  OBVIOUS
<1>7. RunsHold(runs(cells, r), r, FramesOf(cells, r, Len(cells)))
  BY <1>3, <1>5, <1>6, RunsAll
<1>8. FramesOf(cells, r, Len(cells)) = {c[1] : c \in {x \in found : x[2] = r}}
  <2> DEFINE F == {c[1] : c \in {x \in found : x[2] = r}}
  <2>1. ASSUME NEW g \in FramesOf(cells, r, Len(cells)) PROVE g \in F
    <3>1. PICK j \in 1..Len(cells) : cells[j][2] = r /\ g = cells[j][1]
      BY DEF FramesOf
    <3>2. <<g, r>> \in found
      BY <1>3, <3>1
    <3> QED
      BY <3>2
  <2>2. ASSUME NEW g \in F PROVE g \in FramesOf(cells, r, Len(cells))
    <3>1. PICK c \in found : c[2] = r /\ g = c[1]
      OBVIOUS
    <3>2. PICK j \in 1..Len(cells) : c = <<cells[j][1], cells[j][2]>>
      BY <1>3, <3>1
    <3>3. cells[j][2] = r /\ g = cells[j][1]
      BY <3>1, <3>2
    <3> QED
      BY <3>3 DEF FramesOf
  <2> HIDE DEF F
  <2>3. \A g : g \in FramesOf(cells, r, Len(cells)) <=> g \in F
    BY <2>1, <2>2
  <2> QED
    BY <2>3 DEF F
<1> QED
  BY <1>7, <1>8, MaximalIs

LEMMA CellsTrue == GridInv => CellsCompared
<1> SUFFICES ASSUME GridInv, s.area = "cells" PROVE CellsCompared
  BY DEF CellsCompared
<1> DEFINE cells == cell_diff(s.ours, s.theirs, Voices, s.starts, "carry")
           whole == cell_diff(s.ours, s.theirs, Voices, <<>>, "carry")
           bad == {c \in Differ : Heard(c) /\ ~Carried(c)}
           all == {c \in Differ : ~Carried(c)}
           v == verdict_onset(s.ours, s.starts, s.theirs, Voices, "carry")
           found == {<<v.cells[k][1], v.cells[k][2]>> : k \in DOMAIN v.cells}
<1>1. SideOf(s)
  <2>1. PICK x \in Sides : s.ours = x.ours /\ s.theirs = x.theirs /\ s.starts = x.starts
    BY DEF GridInv
  <2> QED
    BY <2>1, SideAssumption DEF SideOf, GridRow
<1>2. PICK n : n = Least(Len(s.ours), Len(s.theirs))
  OBVIOUS
<1>3. PICK C : Listed(cells, C, bad, s.ours, s.theirs)
  <2>1. \A c : Heard(c) <=> s.starts = <<>> \/ Heard(c)
    BY DEF Heard
  <2>2. bad = {c \in Differ : (s.starts = <<>> \/ Heard(c)) /\ ~("carry" = "carry" /\ Carried(c))}
    BY <2>1
  <2> HIDE DEF bad, cells
  <2> QED
    BY <1>1, <1>2, <2>2, DiffIs DEF cells
<1>4. PICK D : Listed(whole, D, all, s.ours, s.theirs)
  <2>1. all = {c \in Differ : (<<>> = <<>> \/ Heard(c)) /\ ~("carry" = "carry" /\ Carried(c))}
    OBVIOUS
  <2> HIDE DEF all, whole
  <2> QED
    BY <1>1, <1>2, <2>1, DiffIs DEF whole
<1>5. bad \subseteq all /\ all \in SUBSET Differ /\ \A c \in all : c[1] \in Int
  BY <1>1, DiffersIn
<1>6. /\ v.cells = cells /\ (v.ok <=> cells = <<>> /\ Len(s.ours) = Len(s.theirs))
      /\ v.onset = first_mismatch(cells) /\ v.whole = first_mismatch(whole)
  BY DEF verdict_onset
<1> HIDE DEF cells, whole, bad, all, v
<1>7. \A c \in bad : c[1] \in Int
  BY <1>5
<1>8. found = bad /\ (cells = <<>> <=> bad = {}) /\ (cells # <<>> => 1 \in DOMAIN cells)
  <2>1. {<<cells[k][1], cells[k][2]>> : k \in DOMAIN cells} = bad /\ (cells = <<>> <=> bad = {})
    BY <1>3, <1>7, ListedIs
  <2>2. cells # <<>> => 1 \in DOMAIN cells
    <3>1. cells \in Seq(C)
      BY <1>3, <1>7, ListedIs
    <3> QED
      BY <3>1
  <2> QED
    BY <1>6, <2>1, <2>2
<1>9. read_grid(write_grid(s.ours), Width, Len(s.ours)) = s.ours
  BY <1>1, ReadBack DEF SideOf
<1>10. \A r \in 1..Width : Maximal(runs(v.cells, r), r, {c[1] : c \in {x \in found : x[2] = r}})
  <2> HIDE DEF found
  <2> QED
    BY <1>1, <1>3, <1>5, <1>6, <1>8, RunsTrue
<1>11. ASSUME v.onset # None_ PROVE v.whole # None_ /\ v.whole[1] <= v.onset[1]
  <2>1. cells # <<>> /\ v.onset = <<cells[1][1], cells[1][2]>>
    BY <1>6, <1>11 DEF first_mismatch
  <2>2. <<cells[1][1], cells[1][2]>> \in all
    BY <1>5, <1>6, <1>8, <2>1
  <2>3. {<<whole[k][1], whole[k][2]>> : k \in DOMAIN whole} = all /\ (whole = <<>> <=> all = {})
        /\ \A k \in DOMAIN whole : whole[1][1] <= whole[k][1]
    BY <1>4, <1>5, ListedIs
  <2>4. PICK k \in DOMAIN whole : <<whole[k][1], whole[k][2]>> = <<cells[1][1], cells[1][2]>>
    BY <2>2, <2>3
  <2>5. whole # <<>> /\ v.whole = <<whole[1][1], whole[1][2]>>
    BY <1>6, <2>2, <2>3 DEF first_mismatch
  <2>6. v.whole # None_
    BY <2>5 DEF None_
  <2>7. whole[k][1] = cells[1][1] /\ whole[1][1] <= whole[k][1]
    BY <2>3, <2>4
  <2> QED
    BY <2>1, <2>5, <2>6, <2>7
<1>12. v.ok <=> found = {} /\ Len(s.ours) = Len(s.theirs)
  BY <1>6, <1>8
<1> QED
  BY <1>8, <1>9, <1>10, <1>11, <1>12 DEF CellsCompared, v, bad

-----------------------------------------------------------------------------
(* What is said of two grids, at a lead and from an onset, is true of their *)
(* cells, whatever the grids (GridsCompared, gridcmp.py).                   *)
THEOREM GridsAreCompared == TracesSpec => []GridsCompared
<1>1. TracesInit => GridInv
  BY GridsBegin
<1>2. GridInv /\ [HostFrames]_s => GridInv'
  BY GridsStay
<1>3. GridInv => GridsCompared
  BY LeadsTrue, CellsTrue DEF GridsCompared
<1> QED
  BY <1>1, <1>2, <1>3, PTL DEF TracesSpec

-----------------------------------------------------------------------------
(* A player's log.  A frame's writes are its registers that change, in      *)
(* their order.                                                             *)
Numbered(w) == [k \in 1..w |-> k - 1]
PlayStep(regs, rows, n, r) == IF n = 1 \/ rows[n][r] # rows[n - 1][r] THEN Append(regs, r) ELSE regs
PlayFold(g, rows, n, w) ==
    g = [S \in SUBSET (1..w) |->
            IF S = {} THEN <<>> ELSE PlayStep(g[S \ {Max(S)}], rows, n, Numbered(w)[Max(S)])]
PlayRun(h, rows, n, w) == h = [k \in 0..w |-> IF k = 0 THEN <<>> ELSE PlayStep(h[k - 1], rows, n, k - 1)]

LEMMA PlayFolds ==
    ASSUME NEW rows, NEW n, NEW w \in Nat
    PROVE  \E g : PlayFold(g, rows, n, w)
<1> DEFINE F == [y \in Seq(Int) \X (1..w) |-> PlayStep(y[1], rows, n, y[2] - 1)]
<1>1. \A x \in Seq(Int) : \A i \in 1..w : F[<<x, i>>] = PlayStep(x, rows, n, i - 1)
  OBVIOUS
<1>2. \A x \in Seq(Int) : \A i \in 1..w : PlayStep(x, rows, n, i - 1) \in Seq(Int)
  <2>1. ASSUME NEW x \in Seq(Int), NEW i \in 1..w PROVE PlayStep(x, rows, n, i - 1) \in Seq(Int)
    <3>1. i - 1 \in Int /\ PlayStep(x, rows, n, i - 1) \in {x, Append(x, i - 1)}
      BY DEF PlayStep
    <3> QED
      BY <3>1
  <2> QED
    BY <2>1
<1> HIDE DEF F
<1>3. Steps(F, Seq(Int), w)
  BY <1>1, <1>2 DEF Steps
<1>4. <<>> \in Seq(Int)
  OBVIOUS
<1>5. PICK g \in [SUBSET (1..w) -> Seq(Int)] : Folded(g, <<>>, F, w)
  BY <1>3, <1>4, FoldExists DEF HasFold
<1>6. ASSUME NEW S \in SUBSET (1..w), S # {}
      PROVE  F[<<g[S \ {Max(S)}], Max(S)>>] = PlayStep(g[S \ {Max(S)}], rows, n, Numbered(w)[Max(S)])
  <2>1. S \ {Max(S)} \in SUBSET (1..w) /\ Max(S) \in 1..w /\ Numbered(w)[Max(S)] = Max(S) - 1
    BY <1>6, MaxIn DEF Numbered
  <2> QED
    BY <1>1, <2>1
<1>7. PlayFold(g, rows, n, w)
  BY <1>5, <1>6 DEF Folded, PlayFold
<1> QED
  BY <1>7

LEMMA PlayRuns ==
    ASSUME NEW rows, NEW n, NEW w \in Nat, Cardinality(Registers) = w
    PROVE  \E h : PlayRun(h, rows, n, w) /\ play_frame(rows, n) = h[w]
<1> DEFINE it == CHOOSE g : PlayFold(g, rows, n, w)
           h == [k \in 0..w |-> it[1..k]]
<1>0. DOMAIN Numbered(w) = 1..w /\ Numbered(w) = [k \in 1..Cardinality(Registers) |-> k - 1]
      /\ \A k \in 1..w : Numbered(w)[k] = k - 1
  BY DEF Numbered
<1>1. PlayFold(it, rows, n, w)
  BY PlayFolds
<1>2. play_frame(rows, n) = it[1..w]
  BY <1>0 DEF play_frame, FoldLeft, MapThenFoldSet, PlayFold, PlayStep
<1> HIDE DEF it
<1>3. ASSUME NEW k \in 0..w
      PROVE  h[k] = IF k = 0 THEN <<>> ELSE PlayStep(h[k - 1], rows, n, k - 1)
  <2>1. 1..k \in SUBSET (1..w)
    OBVIOUS
  <2>2. it[1..k] = IF 1..k = {} THEN <<>> ELSE PlayStep(it[(1..k) \ {Max(1..k)}], rows, n, Numbered(w)[Max(1..k)])
    BY <1>1, <2>1 DEF PlayFold
  <2>3. CASE k = 0
    BY <2>2, <2>3
  <2>4. CASE k # 0
    <3>1. k \in 1..k /\ k \in 1..w /\ k \in Nat /\ k - 1 \in 0..w
      BY <2>4
    <3>2. Max(1..k) = k /\ (1..k) \ {k} = 1..(k - 1) /\ Numbered(w)[k] = k - 1
      BY <1>0, <2>4, <3>1, MaxAll
    <3> QED
      BY <2>2, <2>4, <3>1, <3>2
  <2> QED
    BY <2>3, <2>4
<1>4. PlayRun(h, rows, n, w)
  BY <1>3 DEF PlayRun
<1>5. h[w] = it[1..w]
  OBVIOUS
<1> HIDE DEF h
<1> QED
  BY <1>2, <1>4, <1>5

(* Some registers from 0 to w, in their order.                              *)
Writing(regs, S, w) ==
    /\ regs \in Seq(Int) /\ Len(regs) <= w
    /\ \A k \in 1..Len(regs) : regs[k] \in S
    /\ \A r \in S : \E k \in 1..Len(regs) : regs[k] = r

LEMMA PlayWrites ==
    ASSUME NEW rows, NEW n, NEW w \in Nat, Cardinality(Registers) = w
    PROVE  Writing(play_frame(rows, n), {r \in 0..(w - 1) : Changes(rows, n, r)}, w)
<1>1. PICK h : PlayRun(h, rows, n, w) /\ play_frame(rows, n) = h[w]
  BY PlayRuns
<1>2. \A k \in 0..w : h[k] = IF k = 0 THEN <<>> ELSE PlayStep(h[k - 1], rows, n, k - 1)
  BY <1>1 DEF PlayRun
<1> DEFINE C(k) == {r \in 0..(k - 1) : Changes(rows, n, r)}
           N == {k \in Nat : k <= w => Writing(h[k], C(k), k)}
<1>3. 0 \in N
  <2>1. h[0] = <<>> /\ <<>> \in Seq(Int) /\ Len(<<>>) = 0 /\ C(0) = {}
    BY <1>2
  <2>2. Writing(<<>>, {}, 0)
    BY <2>1 DEF Writing
  <2> QED
    BY <2>1, <2>2
<1>4. ASSUME NEW k \in N PROVE k + 1 \in N
  <2>1. SUFFICES ASSUME k + 1 <= w PROVE Writing(h[k + 1], C(k + 1), k + 1)
    OBVIOUS
  <2>2. k \in Nat /\ k + 1 \in 0..w /\ (k + 1) - 1 = k /\ k + 1 # 0 /\ Writing(h[k], C(k), k)
    BY <2>1
  <2>3. h[k + 1] = PlayStep(h[k], rows, n, k)
    BY <1>2, <2>2
  <2>4. h[k] \in Seq(Int) /\ Len(h[k]) \in Nat /\ Len(h[k]) <= k
    BY <2>2 DEF Writing
  <2>5. CASE Changes(rows, n, k)
    <3> DEFINE g == h[k]
               new == h[k + 1]
               m == Len(g)
    <3>1. new = Append(g, k)
      BY <2>3, <2>5 DEF PlayStep, Changes
    <3>2. C(k + 1) = C(k) \union {k}
      BY <2>2, <2>5
    <3>3. g \in Seq(Int) /\ m \in Nat /\ m <= k /\ k \in Int
      BY <2>2, <2>4
    <3>4. (\A j \in 1..m : g[j] \in C(k)) /\ \A r \in C(k) : \E j \in 1..m : g[j] = r
      BY <2>2 DEF Writing
    <3> HIDE DEF g, new, C
    <3>5. new \in Seq(Int) /\ Len(new) = m + 1 /\ new[m + 1] = k /\ \A j \in 1..m : new[j] = g[j]
      BY <3>1, <3>3
    <3> HIDE DEF m
    <3>6. (\A j \in 1..(m + 1) : j \in 1..m \/ j = m + 1) /\ m + 1 \in 1..(m + 1) /\ \A j \in 1..m : j \in 1..(m + 1)
      BY <3>3
    <3>7. /\ \A j \in 1..(m + 1) : new[j] \in C(k) \union {k}
          /\ \A r \in C(k) \union {k} : \E j \in 1..(m + 1) : new[j] = r
      BY <3>4, <3>5, <3>6
    <3>8. Len(new) <= k + 1
      BY <3>3, <3>5
    <3> QED
      BY <3>2, <3>5, <3>7, <3>8 DEF Writing, new
  <2>6. CASE ~Changes(rows, n, k)
    <3>1. h[k + 1] = h[k]
      BY <2>3, <2>6 DEF PlayStep, Changes
    <3>2. C(k + 1) = C(k)
      BY <2>2, <2>6
    <3> HIDE DEF C
    <3> QED
      BY <2>2, <2>4, <3>1, <3>2 DEF Writing
  <2> QED
    BY <2>5, <2>6
<1> HIDE DEF N
<1>5. w \in N
  BY <1>3, <1>4, Induction DEF N
<1> QED
  BY <1>1, <1>5 DEF N

FlattenRun(f, seqs, n) == f = [i \in 1..n |-> IF i = 1 THEN seqs[i] ELSE f[i - 1] \o seqs[i]]

LEMMA FlattenRuns ==
    ASSUME NEW seqs, NEW n \in Nat
    PROVE  \E f : FlattenRun(f, seqs, n)
<1> DEFINE N == {k \in Nat : \E f : FlattenRun(f, seqs, k)}
<1>1. 0 \in N
  <2>1. FlattenRun([i \in 1..0 |-> <<>>], seqs, 0)
    BY DEF FlattenRun
  <2> QED
    BY <2>1
<1>2. ASSUME NEW k \in N PROVE k + 1 \in N
  <2>1. PICK f : FlattenRun(f, seqs, k)
    OBVIOUS
  <2> DEFINE g == [i \in 1..(k + 1) |->
                     IF i = k + 1 THEN (IF i = 1 THEN seqs[i] ELSE f[i - 1] \o seqs[i]) ELSE f[i]]
  <2>2. ASSUME NEW i \in 1..(k + 1) PROVE g[i] = IF i = 1 THEN seqs[i] ELSE g[i - 1] \o seqs[i]
    <3>1. CASE i = k + 1
      <4>1. i # 1 => i - 1 \in 1..(k + 1) /\ i - 1 # k + 1
        BY <3>1
      <4> QED
        BY <3>1, <4>1
    <3>2. CASE i # k + 1
      <4>1. i \in 1..k /\ (i # 1 => i - 1 \in 1..(k + 1) /\ i - 1 # k + 1)
        BY <3>2
      <4>2. f[i] = IF i = 1 THEN seqs[i] ELSE f[i - 1] \o seqs[i]
        BY <2>1, <4>1 DEF FlattenRun
      <4> QED
        BY <3>2, <4>1, <4>2
    <3> QED
      BY <3>1, <3>2
  <2>3. g = [i \in 1..(k + 1) |-> g[i]]
    OBVIOUS
  <2> HIDE DEF g
  <2>4. FlattenRun(g, seqs, k + 1)
    BY <2>2, <2>3 DEF FlattenRun
  <2> QED
    BY <2>4
<1> HIDE DEF N
<1>3. n \in N
  BY <1>1, <1>2, Induction DEF N
<1> QED
  BY <1>3 DEF N

LEMMA FlattenIs ==
    ASSUME NEW seqs, Len(seqs) \in Nat \ {0}
    PROVE  \E f : /\ FlattenSeq(seqs) = f[Len(seqs)] /\ f[1] = seqs[1]
                  /\ \A i \in 1..(Len(seqs) - 1) : f[i + 1] = f[i] \o seqs[i + 1]
<1> DEFINE n == Len(seqs)
           f == CHOOSE g : FlattenRun(g, seqs, n)
<1>1. FlattenRun(f, seqs, n)
  BY FlattenRuns
<1>2. FlattenSeq(seqs) = f[n]
  BY DEF FlattenSeq, FlattenRun
<1> HIDE DEF f
<1>3. \A i \in 1..n : f[i] = IF i = 1 THEN seqs[i] ELSE f[i - 1] \o seqs[i]
  BY <1>1 DEF FlattenRun
<1>4. 1 \in 1..n /\ \A i \in 1..(n - 1) : i + 1 \in 1..n /\ i + 1 # 1 /\ (i + 1) - 1 = i
  OBVIOUS
<1>5. \A i \in 1..(n - 1) : f[i + 1] = f[i] \o seqs[i + 1]
  BY <1>3, <1>4
<1> QED
  BY <1>2, <1>3, <1>4, <1>5

(* What frame m of a log writes, and the log of frames a to n: in the order *)
(* of its clocks, with every register that changes.                         *)
Spread(spacing) == (Cardinality(Registers) - 1) * spacing
Written(V) == [clock : Nat, reg : Registers, value : V]
Emits(w, rows, m, cpf, spacing) ==
    /\ w.clock \in (m * cpf)..(m * cpf + Spread(spacing))
    /\ w.reg \in Registers /\ w.value = rows[m][w.reg] /\ Changes(rows, m, w.reg)
LogOf(ws, rows, a, n, cpf, spacing, V) ==
    /\ ws \in Seq(Written(V))
    /\ \A i \in 1..Len(ws) : \E m \in a..n : Emits(ws[i], rows, m, cpf, spacing)
    /\ \A m \in a..n : \A r \in Registers :
          Changes(rows, m, r) => \E i \in 1..Len(ws) : ws[i].reg = r /\ Emits(ws[i], rows, m, cpf, spacing)
    /\ \A j \in 1..Len(ws) : \A i \in 1..j : ws[i].clock <= ws[j].clock
    /\ a = 1 => Len(ws) # 0 /\ ws[1].clock = cpf
Timed(rows, cpf, spacing, V) ==
    /\ rows \in Seq([Registers -> V]) /\ cpf \in Nat \ {0} /\ spacing \in Nat \ {0}
    /\ Cardinality(Registers) \in Nat \ {0} /\ Registers = 0..(Cardinality(Registers) - 1)
    /\ Spread(spacing) \in Nat /\ Spread(spacing) < cpf

FrameLog(rows, m, cpf, spacing) ==
    LET regs == play_frame(rows, m)
    IN  [k \in DOMAIN regs |-> [clock |-> m * cpf + (k - 1) * spacing,
                                reg |-> regs[k], value |-> rows[m][regs[k]]]]

LEMMA PartLogs ==
    ASSUME NEW rows, NEW cpf, NEW spacing, NEW V, Timed(rows, cpf, spacing, V), NEW m \in 1..Len(rows)
    PROVE  LogOf(FrameLog(rows, m, cpf, spacing), rows, m, m, cpf, spacing, V)
<1> DEFINE w == Cardinality(Registers)
           regs == play_frame(rows, m)
           S == {r \in 0..(w - 1) : Changes(rows, m, r)}
           q == FrameLog(rows, m, cpf, spacing)
<1>1. w \in Nat \ {0} /\ Registers = 0..(w - 1) /\ cpf \in Nat \ {0} /\ spacing \in Nat \ {0}
      /\ Spread(spacing) = (w - 1) * spacing /\ Spread(spacing) \in Nat
  BY DEF Timed, Spread
<1>2. Writing(regs, S, w)
  BY <1>1, PlayWrites
<1> HIDE DEF w, regs
<1>3. DOMAIN regs = 1..Len(regs) /\ Len(regs) \in Nat /\ Len(regs) <= w
  BY <1>2 DEF Writing
<1>4. q = [k \in 1..Len(regs) |-> [clock |-> m * cpf + (k - 1) * spacing,
                                   reg |-> regs[k], value |-> rows[m][regs[k]]]]
  BY <1>3 DEF FrameLog, regs
<1> HIDE DEF q
<1>5. \A k \in 1..Len(regs) : /\ q[k].clock = m * cpf + (k - 1) * spacing
                              /\ q[k].reg = regs[k] /\ q[k].value = rows[m][regs[k]]
  BY <1>4
<1>6. m \in Nat \ {0} /\ m * cpf \in Nat /\ rows[m] \in [Registers -> V]
  <2>1. rows \in Seq([Registers -> V])
    BY DEF Timed
  <2>2. m \in Nat \ {0} /\ rows[m] \in [Registers -> V]
    BY <2>1
  <2>3. m * cpf \in Nat
    BY <1>1, <2>2
  <2> QED
    BY <2>2, <2>3
<1>7. ASSUME NEW k \in 1..Len(regs)
      PROVE  (k - 1) * spacing \in Nat /\ (k - 1) * spacing <= Spread(spacing)
  <2>1. k - 1 \in Nat /\ k - 1 <= w - 1 /\ w - 1 \in Nat
    BY <1>1, <1>3
  <2>2. (k - 1) * spacing \in Nat /\ (w - 1) * spacing \in Nat
    BY <1>1, <2>1
  <2>3. CASE k - 1 < w - 1
    <3>1. spacing * (k - 1) + spacing <= spacing * (w - 1)
      BY <1>1, <2>1, <2>3, Multiples
    <3> QED
      BY <1>1, <2>1, <2>2, <3>1
  <2>4. CASE k - 1 = w - 1
    BY <1>1, <2>2, <2>4
  <2> QED
    BY <2>1, <2>2, <2>3, <2>4
<1>8. ASSUME NEW k \in 1..Len(regs)
      PROVE  q[k].reg = regs[k] /\ q[k] \in Written(V) /\ Emits(q[k], rows, m, cpf, spacing)
  <2>1. regs[k] \in Registers /\ Changes(rows, m, regs[k])
    BY <1>1, <1>2 DEF Writing
  <2>2. rows[m][regs[k]] \in V
    BY <1>6, <2>1
  <2>3. q[k].clock \in (m * cpf)..(m * cpf + Spread(spacing)) /\ q[k].clock \in Nat
    <3> DEFINE x == (k - 1) * spacing
               y == m * cpf
    <3>1. x \in Nat /\ x <= Spread(spacing) /\ y \in Nat /\ q[k].clock = y + x /\ Spread(spacing) \in Nat
      BY <1>1, <1>5, <1>6, <1>7
    <3> HIDE DEF x, y
    <3>2. q[k].clock \in y..(y + Spread(spacing)) /\ q[k].clock \in Nat
      BY <3>1
    <3> QED
      BY <3>2 DEF y
  <2>4. q[k] \in Written(V)
    <3> DEFINE c == m * cpf + (k - 1) * spacing
               v == rows[m][regs[k]]
    <3>1. q[k] = [clock |-> c, reg |-> regs[k], value |-> v] /\ c \in Nat
      BY <1>4, <1>5, <2>3
    <3> HIDE DEF c, v
    <3>2. v \in V
      BY <2>2 DEF v
    <3> QED
      BY <2>1, <3>1, <3>2 DEF Written
  <2> QED
    BY <1>5, <2>1, <2>3, <2>4 DEF Emits
<1>9. q \in Seq(Written(V)) /\ Len(q) = Len(regs)
  <2>1. q = [k \in 1..Len(regs) |-> q[k]]
    BY <1>4
  <2>2. q \in [1..Len(regs) -> Written(V)]
    BY <1>8, <2>1
  <2> QED
    BY <1>3, <2>2
<1>10. m..m = {m}
  BY <1>6
<1>11. ASSUME NEW r \in Registers, Changes(rows, m, r)
       PROVE  \E i \in 1..Len(q) : q[i].reg = r /\ Emits(q[i], rows, m, cpf, spacing)
  <2>1. r \in S
    BY <1>1, <1>11
  <2>2. PICK i \in 1..Len(regs) : regs[i] = r
    BY <1>2, <2>1 DEF Writing
  <2> QED
    BY <1>8, <1>9, <2>2
<1>12. ASSUME NEW j \in 1..Len(q), NEW i \in 1..j PROVE q[i].clock <= q[j].clock
  <2>1. i \in 1..Len(regs) /\ j \in 1..Len(regs) /\ i <= j
    BY <1>3, <1>9
  <2>2. (i - 1) * spacing \in Nat /\ (j - 1) * spacing \in Nat
    BY <1>7, <2>1
  <2>3. (i - 1) * spacing <= (j - 1) * spacing
    <3>1. CASE i = j
      BY <2>2, <3>1
    <3>2. CASE i # j
      <4>1. i - 1 < j - 1 /\ i - 1 \in Int /\ j - 1 \in Int
        BY <2>1, <3>2
      <4>2. spacing * (i - 1) + spacing <= spacing * (j - 1)
        BY <1>1, <4>1, Multiples
      <4>3. spacing * (i - 1) = (i - 1) * spacing /\ spacing * (j - 1) = (j - 1) * spacing
        BY <1>1, <4>1
      <4> QED
        BY <1>1, <2>2, <4>2, <4>3
    <3> QED
      BY <3>1, <3>2
  <2> QED
    BY <1>5, <1>6, <2>1, <2>2, <2>3
<1>13. ASSUME m = 1 PROVE Len(q) # 0 /\ q[1].clock = cpf
  <2>1. 0 \in S
    BY <1>1, <1>13 DEF Changes
  <2>2. PICK i \in 1..Len(regs) : regs[i] = 0
    BY <1>2, <2>1 DEF Writing
  <2>3. 1 \in 1..Len(regs) /\ Len(regs) # 0
    BY <1>3
  <2>4. q[1].clock = 1 * cpf + (1 - 1) * spacing
    BY <1>5, <1>13, <2>3
  <2> QED
    BY <1>1, <1>9, <2>3, <2>4
<1> QED
  BY <1>8, <1>9, <1>10, <1>11, <1>12, <1>13 DEF LogOf, q

LEMMA EmitsAre ==
    ASSUME NEW rows, NEW cpf, NEW spacing, NEW V, Timed(rows, cpf, spacing, V), NEW m \in Nat, NEW w,
           Emits(w, rows, m, cpf, spacing)
    PROVE  /\ w.clock \in Nat /\ m * cpf \in Nat /\ m * cpf <= w.clock
           /\ \A l \in Nat : m < l => w.clock < l * cpf
<1>1. cpf \in Nat \ {0} /\ Spread(spacing) \in Nat /\ Spread(spacing) < cpf
  BY DEF Timed
<1>2. m * cpf \in Nat
  BY <1>1
<1>3. w.clock \in Nat /\ m * cpf <= w.clock /\ w.clock <= m * cpf + Spread(spacing)
  <2> DEFINE y == m * cpf
  <2> HIDE DEF y
  <2>1. y \in Nat /\ w.clock \in y..(y + Spread(spacing))
    BY <1>2 DEF Emits, y
  <2>2. w.clock \in Nat /\ y <= w.clock /\ w.clock <= y + Spread(spacing)
    BY <1>1, <2>1
  <2> QED
    BY <2>2 DEF y
<1>4. ASSUME NEW l \in Nat, m < l PROVE w.clock < l * cpf
  <2>1. cpf * m + cpf <= cpf * l
    BY <1>1, <1>4, Multiples
  <2>2. cpf * m = m * cpf /\ cpf * l = l * cpf /\ l * cpf \in Nat
    BY <1>1
  <2> QED
    BY <1>1, <1>2, <1>3, <2>1, <2>2
<1> QED
  BY <1>2, <1>3, <1>4

LEMMA LogsGoOn ==
    ASSUME NEW rows, NEW cpf, NEW spacing, NEW V, Timed(rows, cpf, spacing, V), NEW n \in Nat, n # 0,
           NEW ws, LogOf(ws, rows, 1, n, cpf, spacing, V),
           NEW q, LogOf(q, rows, n + 1, n + 1, cpf, spacing, V)
    PROVE  LogOf(ws \o q, rows, 1, n + 1, cpf, spacing, V)
<1> DEFINE new == ws \o q
           a == Len(ws)
           b == Len(q)
<1>1. ws \in Seq(Written(V)) /\ q \in Seq(Written(V)) /\ a \in Nat /\ b \in Nat
  BY DEF LogOf
<1>2. /\ new \in Seq(Written(V)) /\ Len(new) = a + b
      /\ \A i \in 1..(a + b) : new[i] = IF i <= a THEN ws[i] ELSE q[i - a]
  <2> DEFINE W == Written(V)
  <2> HIDE DEF W
  <2>1. ws \in Seq(W) /\ q \in Seq(W)
    BY <1>1 DEF W
  <2>2. /\ ws \o q \in Seq(W) /\ Len(ws \o q) = Len(ws) + Len(q)
        /\ \A i \in 1..(Len(ws) + Len(q)) : (ws \o q)[i] = IF i <= Len(ws) THEN ws[i] ELSE q[i - Len(ws)]
    BY <2>1, ConcatProperties
  <2> QED
    BY <2>2 DEF W
<1> HIDE DEF new, a, b
<1>3. (\A i \in 1..a : i \in 1..(a + b) /\ new[i] = ws[i]) /\ \A i \in 1..b : a + i \in 1..(a + b) /\ new[a + i] = q[i]
  <2>1. \A i \in 1..b : a + i \in 1..(a + b) /\ ~(a + i <= a) /\ (a + i) - a = i
    BY <1>1
  <2>2. \A i \in 1..a : i \in 1..(a + b) /\ i <= a
    BY <1>1
  <2> QED
    BY <1>2, <2>1, <2>2
<1>4. \A i \in 1..(a + b) : i \in 1..a \/ \E j \in 1..b : i = a + j
  <2>1. ASSUME NEW i \in 1..(a + b), i \notin 1..a PROVE i - a \in 1..b /\ i = a + (i - a)
    BY <1>1, <2>1
  <2> QED
    BY <2>1
<1>5. (n + 1)..(n + 1) = {n + 1} /\ (\A m \in 1..n : m \in 1..(n + 1)) /\ n + 1 \in 1..(n + 1)
      /\ \A m \in 1..(n + 1) : m \in 1..n \/ m = n + 1
  OBVIOUS
<1>6. \A i \in 1..a : \E m \in 1..n : Emits(new[i], rows, m, cpf, spacing)
  BY <1>3 DEF LogOf, a
<1>7. \A i \in 1..b : Emits(new[a + i], rows, n + 1, cpf, spacing)
  BY <1>3, <1>5 DEF LogOf, b
<1>8. \A i \in 1..(a + b) : \E m \in 1..(n + 1) : Emits(new[i], rows, m, cpf, spacing)
  BY <1>4, <1>5, <1>6, <1>7
<1>9. ASSUME NEW m \in 1..(n + 1), NEW r \in Registers, Changes(rows, m, r)
      PROVE  \E i \in 1..(a + b) : new[i].reg = r /\ Emits(new[i], rows, m, cpf, spacing)
  <2>1. CASE m \in 1..n
    <3>1. PICK i \in 1..a : ws[i].reg = r /\ Emits(ws[i], rows, m, cpf, spacing)
      BY <1>9, <2>1 DEF LogOf, a
    <3> QED
      BY <1>3, <3>1
  <2>2. CASE m = n + 1
    <3>1. PICK i \in 1..b : q[i].reg = r /\ Emits(q[i], rows, m, cpf, spacing)
      BY <1>5, <1>9, <2>2 DEF LogOf, b
    <3> QED
      BY <1>3, <3>1
  <2> QED
    BY <1>5, <2>1, <2>2
<1>10. ASSUME NEW j \in 1..(a + b), NEW i \in 1..j PROVE new[i].clock <= new[j].clock
  <2>1. CASE j \in 1..a
    <3>1. i \in 1..a
      BY <1>1, <2>1
    <3>2. ws[i].clock <= ws[j].clock
      BY <2>1 DEF LogOf, a
    <3> QED
      BY <1>3, <2>1, <3>1, <3>2
  <2>2. CASE j \notin 1..a
    <3>1. PICK k \in 1..b : j = a + k
      BY <1>4, <2>2
    <3>2. CASE i \in 1..a
      <4>1. PICK m \in 1..n : Emits(new[i], rows, m, cpf, spacing)
        BY <1>6, <3>2
      <4>2. new[i].clock \in Nat /\ new[i].clock < (n + 1) * cpf
        <5>1. m \in Nat /\ n + 1 \in Nat /\ m < n + 1
          OBVIOUS
        <5> QED
          BY <4>1, <5>1, EmitsAre
      <4>3. Emits(new[j], rows, n + 1, cpf, spacing)
        BY <1>7, <3>1
      <4>4. new[j].clock \in Nat /\ (n + 1) * cpf \in Nat /\ (n + 1) * cpf <= new[j].clock
        <5>1. n + 1 \in Nat
          OBVIOUS
        <5> QED
          BY <4>3, <5>1, EmitsAre
      <4> QED
        BY <4>2, <4>4
    <3>3. CASE i \notin 1..a
      <4>1. PICK l \in 1..b : i = a + l
        <5>1. i \in 1..(a + b)
          BY <1>1
        <5> QED
          BY <1>4, <3>3, <5>1
      <4>2. l \in 1..k
        BY <1>1, <3>1, <4>1
      <4>3. q[l].clock <= q[k].clock
        BY <4>2 DEF LogOf, b
      <4> QED
        BY <1>3, <3>1, <4>1, <4>3
    <3> QED
      BY <3>2, <3>3
  <2> QED
    BY <2>1, <2>2
<1>11. a + b # 0 /\ new[1].clock = cpf
  <2>1. a # 0 /\ ws[1].clock = cpf
    BY DEF LogOf, a
  <2>2. 1 \in 1..a /\ a + b # 0
    BY <1>1, <2>1
  <2> QED
    BY <1>3, <2>1, <2>2
<1>12. LogOf(new, rows, 1, n + 1, cpf, spacing, V)
  BY <1>2, <1>8, <1>9, <1>10, <1>11 DEF LogOf
<1> QED
  BY <1>12 DEF new

LEMMA FramesLog ==
    ASSUME NEW rows, NEW cpf, NEW spacing, NEW V, Timed(rows, cpf, spacing, V), Len(rows) # 0
    PROVE  LogOf(frame_writes(rows, cpf, spacing), rows, 1, Len(rows), cpf, spacing, V)
<1> DEFINE n == Len(rows)
           parts == [m \in DOMAIN rows |-> FrameLog(rows, m, cpf, spacing)]
<1>1. n \in Nat \ {0} /\ DOMAIN rows = 1..n
  BY DEF Timed
<1>2. frame_writes(rows, cpf, spacing) = FlattenSeq(parts)
  BY DEF frame_writes, FrameLog
<1> HIDE DEF n
<1>3. Len(parts) = n /\ \A m \in 1..n : parts[m] = FrameLog(rows, m, cpf, spacing)
  BY <1>1
<1> HIDE DEF parts
<1>4. \A m \in 1..n : LogOf(parts[m], rows, m, m, cpf, spacing, V)
  BY <1>3, PartLogs DEF n
<1>5. PICK f : /\ FlattenSeq(parts) = f[n] /\ f[1] = parts[1]
               /\ \A i \in 1..(n - 1) : f[i + 1] = f[i] \o parts[i + 1]
  BY <1>1, <1>3, FlattenIs
<1> DEFINE N == {k \in Nat : k # 0 /\ k <= n => LogOf(f[k], rows, 1, k, cpf, spacing, V)}
<1>6. 0 \in N
  OBVIOUS
<1>7. ASSUME NEW k \in N PROVE k + 1 \in N
  <2>1. SUFFICES ASSUME k + 1 <= n PROVE LogOf(f[k + 1], rows, 1, k + 1, cpf, spacing, V)
    OBVIOUS
  <2>2. k \in Nat /\ k + 1 \in 1..n
    BY <1>1, <2>1
  <2>3. CASE k = 0
    <3>1. k + 1 = 1
      BY <2>3
    <3> QED
      BY <1>4, <1>5, <2>2, <3>1
  <2>4. CASE k # 0
    <3>1. k \in 1..(n - 1) /\ LogOf(f[k], rows, 1, k, cpf, spacing, V)
      BY <1>1, <2>1, <2>2, <2>4
    <3>2. f[k + 1] = f[k] \o parts[k + 1] /\ LogOf(parts[k + 1], rows, k + 1, k + 1, cpf, spacing, V)
      BY <1>4, <1>5, <2>2, <3>1
    <3> HIDE DEF N
    <3> QED
      BY <2>2, <2>4, <3>1, <3>2, LogsGoOn
  <2> QED
    BY <2>3, <2>4
<1> HIDE DEF N
<1>8. n \in N
  BY <1>1, <1>6, <1>7, Induction DEF N
<1> QED
  BY <1>1, <1>2, <1>5, <1>8 DEF N, n

(* The row being filled holds, of a register, the last write of it.         *)
LastOf(h, framed, k, r) ==
    \E l \in 1..k : /\ framed[l].reg = r /\ h[k].row[r] = framed[l].value
                    /\ \A i \in (l + 1)..k : framed[i].reg # r
RowHolds(h, framed, k) ==
    /\ DOMAIN h[k].row = Registers /\ h[k].row = [r \in Registers |-> h[k].row[r]]
    /\ \A r \in Registers : (\E l \in 1..k : framed[l].reg = r) => LastOf(h, framed, k, r)

LEMMA RowsHold ==
    ASSUME NEW n \in Nat, NEW framed, NEW h, PutRun(h, framed, n), \A l \in 1..n : Counts(framed[l])
    PROVE  \A k \in 0..n : RowHolds(h, framed, k)
<1> DEFINE N == {k \in Nat : k <= n => RowHolds(h, framed, k)}
<1>1. 0 \in N
  <2>1. h[0] = NoRows
    BY PutSteps
  <2>2. DOMAIN h[0].row = Registers /\ h[0].row = [r \in Registers |-> h[0].row[r]] /\ 1..0 = {}
    BY <2>1 DEF NoRows, Zero
  <2>3. RowHolds(h, framed, 0)
    BY <2>2 DEF RowHolds
  <2> QED
    BY <2>3
<1>2. ASSUME NEW k \in N PROVE k + 1 \in N
  <2>1. SUFFICES ASSUME k + 1 <= n PROVE RowHolds(h, framed, k + 1)
    OBVIOUS
  <2>2. k \in Nat /\ k + 1 \in 1..n /\ RowHolds(h, framed, k) /\ (k + 1) - 1 = k
    BY <2>1
  <2> HIDE DEF N
  <2> DEFINE w == framed[k + 1]
             row == h[k].row
             new == h[k + 1].row
  <2>3. h[k + 1] = Put(h[k], w) /\ w.reg \in Registers
    BY <2>2, PutSteps DEF Counts
  <2>4. new = [row EXCEPT ![w.reg] = w.value]
    BY <2>3 DEF Put
  <2>5. DOMAIN row = Registers /\ \A r \in Registers : (\E l \in 1..k : framed[l].reg = r) => LastOf(h, framed, k, r)
    BY <2>2 DEF RowHolds
  <2> HIDE DEF row, new
  <2>6. DOMAIN new = Registers /\ new[w.reg] = w.value /\ \A r \in Registers : r # w.reg => new[r] = row[r]
    BY <2>3, <2>4, <2>5
  <2>0. new = [r \in Registers |-> new[r]]
    BY <2>4, <2>5
  <2>7. (\A l \in 1..(k + 1) : l \in 1..k \/ l = k + 1) /\ k + 1 \in 1..(k + 1) /\ \A l \in 1..k : l \in 1..(k + 1)
    BY <2>2
  <2>8. ASSUME NEW r \in Registers, NEW l \in 1..(k + 1), framed[l].reg = r PROVE LastOf(h, framed, k + 1, r)
    <3>1. CASE r = w.reg
      <4>1. ((k + 1) + 1)..(k + 1) = {}
        BY <2>2
      <4> QED
        BY <2>6, <2>7, <3>1, <4>1 DEF LastOf, new
    <3>2. CASE r # w.reg
      <4>1. l \in 1..k
        BY <2>7, <2>8, <3>2
      <4>2. PICK i \in 1..k : /\ framed[i].reg = r /\ row[r] = framed[i].value
                              /\ \A j \in (i + 1)..k : framed[j].reg # r
        BY <2>5, <2>8, <4>1 DEF LastOf, row
      <4>3. \A j \in (i + 1)..(k + 1) : j \in (i + 1)..k \/ j = k + 1
        BY <2>2
      <4>4. \A j \in (i + 1)..(k + 1) : framed[j].reg # r
        BY <3>2, <4>2, <4>3
      <4>5. new[r] = framed[i].value /\ i \in 1..(k + 1)
        BY <2>6, <2>7, <3>2, <4>2
      <4> QED
        BY <4>2, <4>4, <4>5 DEF LastOf, new
    <3> QED
      BY <3>1, <3>2
  <2> QED
    BY <2>0, <2>6, <2>8 DEF RowHolds, new
<1> HIDE DEF N
<1>3. \A k \in Nat : k \in N
  BY <1>1, <1>2, Induction DEF N
<1> QED
  BY <1>3 DEF N

LEMMA DivIs ==
    ASSUME NEW m \in Nat \ {0}, NEW q \in Int, NEW x \in Int, m * q <= x, x < m * q + m
    PROVE  x \div m = q
<1> DEFINE p == x \div m
<1>1. p \in Int /\ x % m \in 0..(m - 1) /\ x = m * p + (x % m)
  BY ModBounds
<1>2. m * p \in Int /\ m * q \in Int /\ m * p <= x /\ x < m * p + m
  BY <1>1
<1> HIDE DEF p
<1>3. CASE p < q
  <2>1. m * p + m <= m * q
    BY <1>1, <1>3, Multiples
  <2> QED
    BY <1>2, <2>1
<1>4. CASE q < p
  <2>1. m * q + m <= m * p
    BY <1>1, <1>4, Multiples
  <2> QED
    BY <1>2, <2>1
<1> QED
  BY <1>1, <1>3, <1>4 DEF p

(* The frame a write of a frame is nearest to.                              *)
LEMMA NearestIs ==
    ASSUME NEW rows, NEW cpf, NEW spacing, NEW V, Timed(rows, cpf, spacing, V), NEW m \in Nat \ {0}, NEW w,
           Emits(w, rows, m, cpf, spacing), Spread(spacing) < cpf - (cpf \div 2)
    PROVE  w.clock >= cpf /\ (w.clock - cpf + (cpf \div 2)) \div cpf = m - 1
<1>1. cpf \in Nat \ {0} /\ Spread(spacing) \in Nat
  BY DEF Timed
<1>2. cpf \div 2 \in Nat
  BY <1>1, DivBounds
<1> DEFINE half == cpf \div 2
           y == cpf * (m - 1)
<1>3. y \in Nat /\ m * cpf = y + cpf
  BY <1>1
<1>4. w.clock \in (y + cpf)..(y + cpf + Spread(spacing))
  BY <1>3 DEF Emits
<1> HIDE DEF half, y
<1>5. w.clock \in Nat /\ w.clock >= cpf /\ y <= w.clock - cpf + half /\ w.clock - cpf + half < y + cpf
      /\ w.clock - cpf + half \in Int
  BY <1>1, <1>2, <1>3, <1>4 DEF half
<1>6. m - 1 \in Int
  OBVIOUS
<1> DEFINE x == w.clock - cpf + half
<1> HIDE DEF x
<1>7. x \in Int /\ cpf * (m - 1) <= x /\ x < cpf * (m - 1) + cpf
  BY <1>5 DEF x, y
<1>8. x \div cpf = m - 1
  BY <1>1, <1>6, <1>7, DivIs
<1> QED
  BY <1>5, <1>8 DEF x, half

(* A player's whole log: its registers, then its frames.                    *)
Logging(regs, rows, cpf, spacing, gap, V) ==
    /\ Timed(rows, cpf, spacing, V) /\ Len(rows) # 0
    /\ DOMAIN regs = Registers /\ \A r \in Registers : regs[r] \in V
    /\ gap \in Nat /\ spacing <= gap /\ gap < cpf - Spread(spacing)
    /\ Spread(spacing) < cpf - (cpf \div 2)

Whole(log, ws, w, spacing) ==
    /\ Len(ws) \in Nat /\ w \in Nat \ {0} /\ DOMAIN log = 1..(w + Len(ws)) /\ Len(log) = w + Len(ws)
    /\ \A i \in 1..w : log[i].clock = (i - 1) * spacing /\ log[i].reg = i - 1
    /\ \A i \in 1..Len(ws) : log[w + i] = ws[i]

LEMMA WholeLog ==
    ASSUME NEW regs, NEW rows, NEW cpf, NEW spacing, NEW gap, NEW V,
           Logging(regs, rows, cpf, spacing, gap, V)
    PROVE  Whole(register_writes_from_player(regs, rows, cpf, spacing),
                 frame_writes(rows, cpf, spacing), Cardinality(Registers), spacing)
<1> DEFINE w == Cardinality(Registers)
           ws == frame_writes(rows, cpf, spacing)
           base == [n \in 1..w |-> [clock |-> (n - 1) * spacing, reg |-> n - 1, value |-> regs[n - 1]]]
           log == register_writes_from_player(regs, rows, cpf, spacing)
           W == Written(V)
<1>1. w \in Nat \ {0} /\ Registers = 0..(w - 1) /\ spacing \in Nat \ {0}
  BY DEF Logging, Timed
<1>2. ws \in Seq(W)
  <2>1. LogOf(ws, rows, 1, Len(rows), cpf, spacing, V)
    BY FramesLog DEF Logging
  <2> QED
    BY <2>1 DEF LogOf
<1>3. log = base \o ws
  BY DEF register_writes_from_player
<1> HIDE DEF w, ws, log
<1>4. ASSUME NEW n \in 1..w PROVE base[n] \in W
  <2>1. n - 1 \in Registers /\ n - 1 \in Nat
    BY <1>1
  <2>2. (n - 1) * spacing \in Nat
    BY <1>1, <2>1
  <2>3. regs[n - 1] \in V
    BY <2>1 DEF Logging
  <2> DEFINE c == (n - 1) * spacing
             r == n - 1
             v == regs[n - 1]
  <2>4. base[n] = [clock |-> c, reg |-> r, value |-> v] /\ c \in Nat /\ r \in Registers /\ v \in V
    BY <2>1, <2>2, <2>3
  <2> HIDE DEF c, r, v
  <2> QED
    BY <2>4 DEF Written
<1>5. \A i \in 1..w : base[i].clock = (i - 1) * spacing /\ base[i].reg = i - 1
  OBVIOUS
<1>6. base \in Seq(W) /\ Len(base) = w
  <2>1. base \in [1..w -> W]
    BY <1>4
  <2> HIDE DEF W, base
  <2> QED
    BY <1>1, <2>1
<1> HIDE DEF base, W
<1>7. /\ base \o ws \in Seq(W) /\ Len(base \o ws) = w + Len(ws)
      /\ \A i \in 1..(w + Len(ws)) : (base \o ws)[i] = IF i <= w THEN base[i] ELSE ws[i - w]
  BY <1>2, <1>6, ConcatProperties
<1>8. Len(ws) \in Nat /\ w \in Nat
  BY <1>1, <1>2
<1>9. DOMAIN log = 1..(w + Len(ws)) /\ Len(log) = w + Len(ws)
  BY <1>3, <1>7
<1>10. \A i \in 1..w : log[i] = base[i]
  <2>1. \A i \in 1..w : i \in 1..(w + Len(ws)) /\ i <= w
    BY <1>8
  <2> QED
    BY <1>3, <1>7, <2>1
<1>11. \A i \in 1..Len(ws) : log[w + i] = ws[i]
  <2>1. \A i \in 1..Len(ws) : w + i \in 1..(w + Len(ws)) /\ ~(w + i <= w) /\ (w + i) - w = i
    BY <1>8
  <2> QED
    BY <1>3, <1>7, <2>1
<1>12. Whole(log, ws, w, spacing)
  BY <1>1, <1>5, <1>8, <1>9, <1>10, <1>11 DEF Whole
<1> QED
  BY <1>12 DEF log, ws, w

LEMMA BaseClocks ==
    ASSUME NEW regs, NEW rows, NEW cpf, NEW spacing, NEW gap, NEW V,
           Logging(regs, rows, cpf, spacing, gap, V), NEW i \in 1..Cardinality(Registers)
    PROVE  (i - 1) * spacing \in Nat /\ (i - 1) * spacing <= Spread(spacing)
<1> DEFINE w == Cardinality(Registers)
<1>1. w \in Nat \ {0} /\ spacing \in Nat \ {0} /\ Spread(spacing) = (w - 1) * spacing /\ Spread(spacing) \in Nat
  BY DEF Logging, Timed, Spread
<1>2. i - 1 \in Nat /\ i - 1 <= w - 1 /\ w - 1 \in Nat
  BY <1>1
<1> HIDE DEF w
<1>3. (i - 1) * spacing \in Nat /\ (w - 1) * spacing \in Nat
  BY <1>1, <1>2
<1>4. CASE i - 1 < w - 1
  <2>1. spacing * (i - 1) + spacing <= spacing * (w - 1)
    BY <1>1, <1>2, <1>4, Multiples
  <2>2. spacing * (i - 1) = (i - 1) * spacing /\ spacing * (w - 1) = (w - 1) * spacing
    BY <1>1, <1>2
  <2> QED
    BY <1>1, <1>3, <2>1, <2>2
<1>5. CASE i - 1 = w - 1
  BY <1>1, <1>3, <1>5
<1> QED
  BY <1>2, <1>4, <1>5

(* The first gap that counts is the one before the first frame.             *)
Late(log, gap) == {n \in 2..Len(log) : log[n].clock - log[n - 1].clock > gap}

LEMMA FirstGap ==
    ASSUME NEW regs, NEW rows, NEW cpf, NEW spacing, NEW gap, NEW V,
           Logging(regs, rows, cpf, spacing, gap, V), NEW log, NEW ws,
           ws = frame_writes(rows, cpf, spacing), Whole(log, ws, Cardinality(Registers), spacing)
    PROVE  LET late == Late(log, gap)
           IN  late # {} /\ Min(late) = Cardinality(Registers) + 1 /\ log[Min(late)].clock = cpf
<1> DEFINE w == Cardinality(Registers)
           late == Late(log, gap)
<1>1. /\ w \in Nat \ {0} /\ spacing \in Nat \ {0} /\ Spread(spacing) = (w - 1) * spacing
      /\ Spread(spacing) \in Nat /\ cpf \in Nat \ {0}
      /\ gap \in Nat /\ spacing <= gap /\ gap < cpf - Spread(spacing)
  BY DEF Logging, Timed, Spread
<1>2. Len(ws) \in Nat /\ Len(ws) # 0 /\ ws[1].clock = cpf
  <2>1. LogOf(ws, rows, 1, Len(rows), cpf, spacing, V)
    BY FramesLog DEF Logging
  <2> QED
    BY <2>1 DEF LogOf, Whole
<1>3. \A i \in 1..w : log[i].clock = (i - 1) * spacing
  BY DEF Whole
<1>4. Len(log) = w + Len(ws) /\ log[w + 1] = ws[1]
  <2>1. 1 \in 1..Len(ws)
    BY <1>2
  <2> QED
    BY <2>1 DEF Whole
<1> HIDE DEF w
<1>5. ASSUME NEW n \in 2..w PROVE ~(log[n].clock - log[n - 1].clock > gap)
  <2>1. n \in 1..w /\ n - 1 \in 1..w /\ n - 1 \in Nat /\ n - 2 \in Nat
    BY <1>1
  <2>2. log[n].clock = (n - 1) * spacing /\ log[n - 1].clock = ((n - 1) - 1) * spacing
    BY <1>3, <2>1
  <2>3. (n - 1) * spacing = (n - 2) * spacing + spacing /\ (n - 1) - 1 = n - 2
    BY <1>1, <2>1
  <2>4. (n - 2) * spacing \in Nat
    BY <1>1, <2>1
  <2> QED
    BY <1>1, <2>2, <2>3, <2>4
<1>6. w + 1 \in late
  <2>1. w \in 1..w /\ (w + 1) - 1 = w /\ w + 1 \in 2..Len(log)
    BY <1>1, <1>2, <1>4
  <2>2. log[w].clock = Spread(spacing) /\ log[w + 1].clock = cpf
    BY <1>1, <1>2, <1>3, <1>4, <2>1
  <2>3. cpf - Spread(spacing) > gap
    BY <1>1
  <2> QED
    BY <2>1, <2>2, <2>3 DEF Late
<1>7. \A n \in late : w + 1 <= n /\ n \in Nat
  <2>1. \A n \in late : n \in 2..Len(log) /\ n \notin 2..w
    BY <1>5 DEF Late
  <2>2. \A n \in 2..Len(log) : n \in Nat /\ (n \notin 2..w => w + 1 <= n)
    BY <1>1, <1>4, <1>2
  <2> QED
    BY <2>1, <2>2
<1> HIDE DEF late
<1>8. late \in SUBSET Nat /\ late # {}
  BY <1>6, <1>7
<1>9. Min(late) \in late /\ Min(late) <= w + 1
  <2>1. Min(late) \in late /\ \A y \in late : Min(late) <= y
    BY <1>8, LeastOf
  <2> QED
    BY <1>6, <2>1
<1>10. Min(late) = w + 1
  <2>1. Min(late) \in Nat /\ w + 1 <= Min(late)
    BY <1>7, <1>9
  <2> QED
    BY <1>1, <1>9, <2>1
<1> QED
  BY <1>2, <1>4, <1>8, <1>10 DEF w, late

(* The log's writes in their frames: before the first, or nearest to a call. *)
FramedAt(log, t0, cpf) ==
    [n \in DOMAIN log |->
        [frame |-> IF log[n].clock < t0 THEN -1 ELSE (log[n].clock - t0 + (cpf \div 2)) \div cpf,
         reg |-> log[n].reg, value |-> log[n].value]]
FramesLogged(framed, rows, cpf, spacing, w, ws) ==
    /\ \A i \in 1..w : framed[i].frame = -1 /\ framed[i].reg = i - 1
    /\ \A i \in 1..Len(ws) : framed[w + i].reg = ws[i].reg /\ framed[w + i].value = ws[i].value
    /\ \A i \in 1..Len(ws) : \A m \in 1..Len(rows) :
          Emits(ws[i], rows, m, cpf, spacing) => framed[w + i].frame = m - 1

LEMMA FramedLog ==
    ASSUME NEW regs, NEW rows, NEW cpf, NEW spacing, NEW gap, NEW V,
           Logging(regs, rows, cpf, spacing, gap, V), NEW log, NEW ws,
           ws = frame_writes(rows, cpf, spacing), Whole(log, ws, Cardinality(Registers), spacing)
    PROVE  FramesLogged(FramedAt(log, cpf, cpf), rows, cpf, spacing, Cardinality(Registers), ws)
<1> DEFINE w == Cardinality(Registers)
           framed == FramedAt(log, cpf, cpf)
<1>1. /\ w \in Nat \ {0} /\ Timed(rows, cpf, spacing, V) /\ Spread(spacing) < cpf - (cpf \div 2)
      /\ cpf \in Nat \ {0} /\ Spread(spacing) \in Nat /\ Spread(spacing) < cpf
  BY DEF Logging, Timed
<1>2. /\ Len(ws) \in Nat /\ DOMAIN log = 1..(w + Len(ws))
      /\ \A i \in 1..w : log[i].clock = (i - 1) * spacing /\ log[i].reg = i - 1
      /\ \A i \in 1..Len(ws) : log[w + i] = ws[i]
  BY DEF Whole
<1>3. \A n \in 1..(w + Len(ws)) :
         /\ framed[n].frame = IF log[n].clock < cpf THEN -1 ELSE (log[n].clock - cpf + (cpf \div 2)) \div cpf
         /\ framed[n].reg = log[n].reg /\ framed[n].value = log[n].value
  BY <1>2 DEF FramedAt
<1>4. \A i \in 1..w : (i - 1) * spacing \in Nat /\ (i - 1) * spacing <= Spread(spacing)
  BY BaseClocks
<1> HIDE DEF w, framed
<1>5. ASSUME NEW i \in 1..w PROVE framed[i].frame = -1 /\ framed[i].reg = i - 1
  <2>1. i \in 1..(w + Len(ws))
    BY <1>1, <1>2
  <2>2. log[i].clock = (i - 1) * spacing /\ log[i].reg = i - 1
    BY <1>2
  <2>3. log[i].clock < cpf
    BY <1>1, <1>4, <2>2
  <2> QED
    BY <1>3, <2>1, <2>2, <2>3
<1>6. ASSUME NEW i \in 1..Len(ws) PROVE w + i \in 1..(w + Len(ws)) /\ log[w + i] = ws[i]
  BY <1>1, <1>2
<1>7. ASSUME NEW i \in 1..Len(ws), NEW m \in 1..Len(rows), Emits(ws[i], rows, m, cpf, spacing)
      PROVE  framed[w + i].frame = m - 1
  <2>1. m \in Nat \ {0}
    <3>1. Len(rows) \in Nat
      BY <1>1 DEF Timed
    <3> QED
      BY <3>1
  <2>2. ws[i].clock >= cpf /\ (ws[i].clock - cpf + (cpf \div 2)) \div cpf = m - 1
    BY <1>1, <1>7, <2>1, NearestIs
  <2>3. ws[i].clock \in Nat
    BY <1>1, <1>7, <2>1, EmitsAre
  <2>4. ~(ws[i].clock < cpf)
    BY <1>1, <2>2, <2>3
  <2> QED
    BY <1>3, <1>6, <2>2, <2>4
<1>8. \A i \in 1..Len(ws) : framed[w + i].reg = ws[i].reg /\ framed[w + i].value = ws[i].value
  BY <1>3, <1>6
<1>9. FramesLogged(framed, rows, cpf, spacing, w, ws)
  BY <1>5, <1>7, <1>8 DEF FramesLogged
<1> QED
  BY <1>9 DEF w, framed

LEMMA FramedInTurn ==
    ASSUME NEW regs, NEW rows, NEW cpf, NEW spacing, NEW gap, NEW V,
           Logging(regs, rows, cpf, spacing, gap, V), NEW framed, NEW ws,
           ws = frame_writes(rows, cpf, spacing),
           FramesLogged(framed, rows, cpf, spacing, Cardinality(Registers), ws)
    PROVE  /\ FramedInOrder(framed, Cardinality(Registers) + Len(ws))
           /\ \A l \in 1..(Cardinality(Registers) + Len(ws)) : Counts(framed[l])
<1> DEFINE w == Cardinality(Registers)
           b == Len(ws)
<1>1. w \in Nat \ {0} /\ Timed(rows, cpf, spacing, V) /\ Registers = 0..(w - 1)
  BY DEF Logging, Timed
<1>2. /\ ws \in Seq(Written(V))
      /\ \A i \in 1..b : \E m \in 1..Len(rows) : Emits(ws[i], rows, m, cpf, spacing)
      /\ \A j \in 1..b : \A i \in 1..j : ws[i].clock <= ws[j].clock
  <2>1. LogOf(ws, rows, 1, Len(rows), cpf, spacing, V)
    BY FramesLog DEF Logging
  <2> QED
    BY <2>1 DEF LogOf
<1>3. b \in Nat /\ Len(rows) \in Nat
  BY <1>1, <1>2 DEF Timed
<1>4. /\ \A i \in 1..w : framed[i].frame = -1 /\ framed[i].reg = i - 1
      /\ \A i \in 1..b : framed[w + i].reg = ws[i].reg
      /\ \A i \in 1..b : \A m \in 1..Len(rows) :
            Emits(ws[i], rows, m, cpf, spacing) => framed[w + i].frame = m - 1
  BY DEF FramesLogged
<1> HIDE DEF w, b
<1>5. \A l \in 1..(w + b) : l \in 1..w \/ \E i \in 1..b : l = w + i
  <2>1. ASSUME NEW l \in 1..(w + b), l \notin 1..w PROVE l - w \in 1..b /\ l = w + (l - w)
    BY <1>1, <1>3, <2>1
  <2> QED
    BY <2>1
<1>6. ASSUME NEW i \in 1..b
      PROVE  \E m \in 1..Len(rows) : Emits(ws[i], rows, m, cpf, spacing) /\ framed[w + i].frame = m - 1
  BY <1>2, <1>4
<1>7. ASSUME NEW l \in 1..(w + b) PROVE framed[l].frame \in Int /\ framed[l].reg \in Registers /\ -1 <= framed[l].frame
  <2>1. CASE l \in 1..w
    BY <1>1, <1>4, <2>1
  <2>2. CASE l \notin 1..w
    <3>1. PICK i \in 1..b : l = w + i
      BY <1>5, <2>2
    <3>2. PICK m \in 1..Len(rows) : Emits(ws[i], rows, m, cpf, spacing) /\ framed[w + i].frame = m - 1
      BY <1>6
    <3>3. ws[i].reg \in Registers
      BY <3>2 DEF Emits
    <3>4. framed[l].frame = m - 1 /\ framed[l].reg = ws[i].reg /\ m \in Nat \ {0}
      BY <1>3, <1>4, <3>1, <3>2
    <3> QED
      BY <3>3, <3>4
  <2> QED
    BY <2>1, <2>2
<1>8. ASSUME NEW k \in 1..(w + b), NEW j \in 1..k PROVE framed[j].frame <= framed[k].frame
  <2>1. j \in 1..(w + b) /\ j <= k
    BY <1>1, <1>3
  <2>2. CASE j \in 1..w
    BY <1>4, <1>7, <2>1, <2>2
  <2>3. CASE j \notin 1..w
    <3>1. k \notin 1..w
      BY <1>1, <2>1, <2>3
    <3>2. PICK x \in 1..b : j = w + x
      BY <1>5, <2>1, <2>3
    <3>3. PICK y \in 1..b : k = w + y
      BY <1>5, <3>1
    <3>4. x \in 1..y
      BY <1>1, <2>1, <3>2, <3>3
    <3>5. PICK m \in 1..Len(rows) : Emits(ws[x], rows, m, cpf, spacing) /\ framed[w + x].frame = m - 1
      BY <1>6
    <3>6. PICK q \in 1..Len(rows) : Emits(ws[y], rows, q, cpf, spacing) /\ framed[w + y].frame = q - 1
      BY <1>6
    <3>7. m \in Nat /\ q \in Nat
      BY <1>3
    <3>8. m <= q
      <4>1. SUFFICES ASSUME q < m PROVE FALSE
        BY <3>7
      <4>2. ws[y].clock \in Nat /\ ws[y].clock < m * cpf
        BY <1>1, <3>6, <3>7, <4>1, EmitsAre
      <4>3. ws[x].clock \in Nat /\ m * cpf \in Nat /\ m * cpf <= ws[x].clock
        BY <1>1, <3>5, <3>7, EmitsAre
      <4>4. ws[x].clock <= ws[y].clock
        BY <1>2, <3>4
      <4> QED
        BY <4>2, <4>3, <4>4
    <3> QED
      BY <3>2, <3>3, <3>5, <3>6, <3>7, <3>8
  <2> QED
    BY <2>2, <2>3
<1>9. FramedInOrder(framed, w + b) /\ \A l \in 1..(w + b) : Counts(framed[l])
  BY <1>7, <1>8 DEF FramedInOrder, Counts
<1> QED
  BY <1>9 DEF w, b

(* A row of the grid has, of each register, what the player's last frame to  *)
(* change it wrote.                                                         *)
LEMMA LogRegister ==
    ASSUME NEW regs, NEW rows, NEW cpf, NEW spacing, NEW gap, NEW V,
           Logging(regs, rows, cpf, spacing, gap, V), NEW framed, NEW ws,
           ws = frame_writes(rows, cpf, spacing),
           FramesLogged(framed, rows, cpf, spacing, Cardinality(Registers), ws),
           NEW h, NEW i \in 0..(Cardinality(Registers) + Len(ws)), RowHolds(h, framed, i),
           NEW n \in 1..Len(rows),
           \A l \in 1..i : framed[l].frame < n,
           \A l \in (i + 1)..(Cardinality(Registers) + Len(ws)) : framed[l].frame >= n,
           NEW r \in Registers
    PROVE  h[i].row[r] = rows[n][r]
<1> DEFINE w == Cardinality(Registers)
           b == Len(ws)
<1>1. w \in Nat \ {0} /\ Timed(rows, cpf, spacing, V) /\ Registers = 0..(w - 1)
  BY DEF Logging, Timed
<1>2. /\ ws \in Seq(Written(V))
      /\ \A x \in 1..b : \E m \in 1..Len(rows) : Emits(ws[x], rows, m, cpf, spacing)
      /\ \A m \in 1..Len(rows) : Changes(rows, m, r) =>
            \E x \in 1..b : ws[x].reg = r /\ Emits(ws[x], rows, m, cpf, spacing)
      /\ \A y \in 1..b : \A x \in 1..y : ws[x].clock <= ws[y].clock
  <2>1. LogOf(ws, rows, 1, Len(rows), cpf, spacing, V)
    BY FramesLog DEF Logging
  <2> QED
    BY <2>1 DEF LogOf
<1>3. b \in Nat /\ Len(rows) \in Nat
  BY <1>1, <1>2 DEF Timed
<1>4. /\ \A x \in 1..b : framed[w + x].reg = ws[x].reg /\ framed[w + x].value = ws[x].value
      /\ \A x \in 1..b : \A m \in 1..Len(rows) :
            Emits(ws[x], rows, m, cpf, spacing) => framed[w + x].frame = m - 1
  BY DEF FramesLogged
<1>5. (\A l \in 1..i : framed[l].frame < n) /\ \A l \in (i + 1)..(w + b) : framed[l].frame >= n
  OBVIOUS
<1>0. i \in 0..(w + b)
  OBVIOUS
<1> HIDE DEF w, b
\* A frame up to n writes before row n is filled.
<1>6. ASSUME NEW m \in 1..n, Changes(rows, m, r)
      PROVE  \E x \in 1..b : /\ w + x \in 1..i /\ framed[w + x].reg = r
                             /\ ws[x].reg = r /\ Emits(ws[x], rows, m, cpf, spacing)
  <2>1. m \in 1..Len(rows) /\ m \in Nat /\ m <= n /\ n \in Nat
    BY <1>3
  <2>2. PICK x \in 1..b : ws[x].reg = r /\ Emits(ws[x], rows, m, cpf, spacing)
    BY <1>2, <1>6, <2>1
  <2>3. framed[w + x].frame = m - 1 /\ framed[w + x].reg = r
    BY <1>4, <2>1, <2>2
  <2>4. ~(framed[w + x].frame >= n)
    BY <2>1, <2>3
  <2>5. w + x \in 1..(w + b)
    BY <1>1, <1>3
  <2>6. w + x \in 1..i
    <3>1. w + x \notin (i + 1)..(w + b)
      BY <1>5, <2>4
    <3> QED
      BY <1>0, <1>1, <1>3, <2>5, <3>1
  <2> QED
    BY <2>2, <2>3, <2>6
<1>7. PICK j \in 1..n : Changes(rows, j, r) /\ rows[j][r] = rows[n][r] /\ \A k \in (j + 1)..n : ~Changes(rows, k, r)
  <2>1. n \in Nat /\ n \in 1..n
    BY <1>3
  <2> QED
    BY <2>1, LastChanges DEF LastChange
<1>8. PICK x \in 1..b : /\ w + x \in 1..i /\ framed[w + x].reg = r
                        /\ ws[x].reg = r /\ Emits(ws[x], rows, j, cpf, spacing)
  BY <1>6, <1>7
<1>9. PICK l \in 1..i : /\ framed[l].reg = r /\ h[i].row[r] = framed[l].value
                        /\ \A k \in (l + 1)..i : framed[k].reg # r
  <2>1. LastOf(h, framed, i, r)
    BY <1>8 DEF RowHolds
  <2> QED
    BY <2>1 DEF LastOf
<1>10. w + x <= l
  <2>1. w + x \notin (l + 1)..i
    BY <1>8, <1>9
  <2> QED
    BY <1>0, <1>1, <1>3, <1>8, <2>1
<1> DEFINE y == l - w
<1>11. y \in 1..b /\ l = w + y /\ x \in 1..y
  BY <1>0, <1>1, <1>3, <1>10
<1> HIDE DEF y
<1>12. PICK m \in 1..Len(rows) : Emits(ws[y], rows, m, cpf, spacing)
  BY <1>2, <1>11
<1>13. m \in 1..n /\ framed[l].value = rows[m][r] /\ Changes(rows, m, r)
  <2>1. framed[l].frame = m - 1 /\ framed[l].frame < n
    BY <1>4, <1>5, <1>9, <1>11, <1>12
  <2>2. m \in 1..n
    BY <1>3, <2>1
  <2>3. ws[y].reg = r /\ framed[l].value = ws[y].value
    BY <1>4, <1>9, <1>11
  <2> QED
    BY <1>12, <2>2, <2>3 DEF Emits
<1>14. m = j
  <2>1. m \in Nat /\ j \in Nat /\ m <= n /\ n \in Nat
    BY <1>3, <1>13
  <2>2. ~(j < m)
    <3>1. SUFFICES ASSUME j < m PROVE FALSE
      OBVIOUS
    <3>2. m \in (j + 1)..n
      BY <2>1, <3>1
    <3> QED
      BY <1>7, <1>13, <3>2
  <2>3. ~(m < j)
    <3>1. SUFFICES ASSUME m < j PROVE FALSE
      OBVIOUS
    <3>2. ws[y].clock \in Nat /\ ws[y].clock < j * cpf
      BY <1>1, <1>12, <2>1, <3>1, EmitsAre
    <3>3. ws[x].clock \in Nat /\ j * cpf \in Nat /\ j * cpf <= ws[x].clock
      BY <1>1, <1>8, <2>1, EmitsAre
    <3>4. ws[x].clock <= ws[y].clock
      BY <1>2, <1>11
    <3> QED
      BY <3>2, <3>3, <3>4
  <2> QED
    BY <2>1, <2>2, <2>3
<1> QED
  BY <1>7, <1>9, <1>13, <1>14

LEMMA LogRows ==
    ASSUME NEW regs, NEW rows, NEW cpf, NEW spacing, NEW gap, NEW V,
           Logging(regs, rows, cpf, spacing, gap, V), NEW n \in 1..Len(rows)
    PROVE  Filled(grid_from_writes(register_writes_from_player(regs, rows, cpf, spacing), cpf, gap), n) = rows[n]
<1> DEFINE w == Cardinality(Registers)
           ws == frame_writes(rows, cpf, spacing)
           log == register_writes_from_player(regs, rows, cpf, spacing)
           framed == FramedAt(log, cpf, cpf)
           b == Len(ws)
           grid == grid_from_writes(log, cpf, gap)
<1>1. Whole(log, ws, w, spacing)
  BY WholeLog
<1>2. w \in Nat \ {0} /\ b \in Nat /\ Len(log) = w + b /\ DOMAIN log = 1..(w + b)
  BY <1>1 DEF Whole
<1>3. Late(log, gap) # {} /\ Min(Late(log, gap)) = w + 1 /\ log[Min(Late(log, gap))].clock = cpf
  BY <1>1, FirstGap
<1>4. FramesLogged(framed, rows, cpf, spacing, w, ws)
  BY <1>1, FramedLog
<1>5. FramedInOrder(framed, w + b) /\ \A l \in 1..(w + b) : Counts(framed[l])
  BY <1>4, FramedInTurn
<1>6. DOMAIN framed = 1..(w + b)
  BY <1>2 DEF FramedAt
<1>7. grid = _frame_grid(framed)
  <2> HIDE DEF log, framed, w, b, ws
  <2>1. log # <<>>
    BY <1>2
  <2> DEFINE late == {k \in 2..Len(log) : log[k].clock - log[k - 1].clock > gap}
             t0 == log[IF late = {} THEN 1 ELSE Min(late)].clock
  <2>2. late = Late(log, gap)
    BY DEF Late
  <2>3. t0 = cpf
    BY <1>3, <2>2
  <2>4. grid = _frame_grid(FramedAt(log, t0, cpf))
    BY <2>1 DEF grid_from_writes, FramedAt
  <2> HIDE DEF t0, grid
  <2>5. grid = _frame_grid(FramedAt(log, cpf, cpf))
    BY <2>3, <2>4
  <2> QED
    BY <2>5 DEF framed
<1>8. n \in Nat \ {0} /\ w + b \in Nat /\ rows[n] \in [Registers -> V]
  <2>1. rows \in Seq([Registers -> V])
    BY DEF Logging, Timed
  <2> QED
    BY <1>2, <2>1
<1> HIDE DEF grid, framed
<1>9. PICK h : PutRun(h, framed, w + b) /\ \A j \in Nat \ {0} : AtRow(h, framed, w + b, j, Filled(grid, j))
  <2> HIDE DEF w, b
  <2>1. \E h : /\ PutRun(h, framed, w + b)
               /\ LET g == _frame_grid(framed)
                  IN  /\ \A j \in Nat \ {0} : AtRow(h, framed, w + b, j, Filled(g, j))
                      /\ g[Len(g)] = h[w + b].row
    BY <1>5, <1>6, <1>8, GridRows
  <2> QED
    BY <1>7, <2>1
<1>10. AtRow(h, framed, w + b, n, Filled(grid, n))
  BY <1>8, <1>9
<1>11. PICK i \in 0..(w + b) :
          /\ Filled(grid, n) = h[i].row
          /\ \A l \in 1..i : Counts(framed[l]) => framed[l].frame < n
          /\ \A l \in (i + 1)..(w + b) : Counts(framed[l]) => framed[l].frame >= n
  BY <1>10 DEF AtRow
<1>12. (\A l \in 1..i : framed[l].frame < n) /\ \A l \in (i + 1)..(w + b) : framed[l].frame >= n
  <2>1. (\A l \in 1..i : l \in 1..(w + b)) /\ \A l \in (i + 1)..(w + b) : l \in 1..(w + b)
    BY <1>2
  <2> QED
    BY <1>5, <1>11, <2>1
<1>13. RowHolds(h, framed, i)
  BY <1>5, <1>8, <1>9, RowsHold
<1>14. \A r \in Registers : h[i].row[r] = rows[n][r]
  BY <1>4, <1>12, <1>13, LogRegister
<1>15. h[i].row = rows[n]
  <2> DEFINE row == h[i].row
             same == rows[n]
  <2>1. DOMAIN row = Registers /\ same \in [Registers -> V] /\ \A r \in Registers : row[r] = same[r]
    BY <1>8, <1>13, <1>14 DEF RowHolds
  <2>2. row = [r \in Registers |-> row[r]]
    BY <1>13 DEF RowHolds
  <2> HIDE DEF row, same
  <2>3. row = same
    BY <2>1, <2>2
  <2> QED
    BY <2>3 DEF row, same
<1> QED
  BY <1>11, <1>15 DEF grid, log

LEMMA PlayersLog ==
    ASSUME NEW p \in Players, Len(p.rows) # 0, p.spacing <= p.gap, p.gap < p.cpf - Spread(p.spacing),
           Spread(p.spacing) < p.cpf - (p.cpf \div 2)
    PROVE  \E V : Logging(p.regs, p.rows, p.cpf, p.spacing, p.gap, V)
<1> DEFINE w == Cardinality(Registers)
           V == Range(p.regs) \union UNION {Range(p.rows[n]) : n \in DOMAIN p.rows}
<1>1. /\ Registers # {} /\ IsFiniteSet(Registers) /\ Registers = 0..(w - 1)
      /\ p.rows \in Seq([Registers -> V]) /\ DOMAIN p.regs = Registers
      /\ p.cpf \in Nat \ {0} /\ p.spacing \in Nat \ {0} /\ p.gap \in Nat
  BY PlayerAssumption
<1>2. \A r \in Registers : p.regs[r] \in V
  BY <1>1 DEF Range
<1> HIDE DEF V
<1>3. w \in Nat
  BY <1>1, FS_CardinalityType
<1>4. w # 0
  <2> HIDE DEF w
  <2>1. 0..(0 - 1) = {}
    OBVIOUS
  <2> QED
    BY <1>1, <2>1
<1>5. Spread(p.spacing) \in Nat
  <2>1. w - 1 \in Nat /\ Spread(p.spacing) = (w - 1) * p.spacing
    BY <1>3, <1>4 DEF Spread
  <2> HIDE DEF w
  <2> QED
    BY <1>1, <2>1
<1>6. Spread(p.spacing) < p.cpf
  <2> DEFINE half == p.cpf \div 2
             c == p.cpf
             y == Spread(p.spacing)
  <2>1. half \in Nat /\ c \in Nat /\ y \in Nat /\ y < c - half
    BY <1>1, <1>5, DivBounds
  <2> HIDE DEF half, c, y
  <2>2. y < c
    BY <2>1
  <2> QED
    BY <2>2 DEF c, y
<1>7. Timed(p.rows, p.cpf, p.spacing, V)
  BY <1>1, <1>3, <1>4, <1>5, <1>6 DEF Timed
<1> QED
  BY <1>1, <1>2, <1>7 DEF Logging

LEMMA LogTrue == GridInv => LogFramed
<1> SUFFICES ASSUME GridInv, s.area = "log" PROVE LogFramed
  BY DEF LogFramed
<1>1. PICK p \in Players : s.p = p
  BY DEF GridInv
<1> DEFINE grid == grid_from_writes(register_writes_from_player(p.regs, p.rows, p.cpf, p.spacing), p.cpf, p.gap)
<1>2. ASSUME p.spacing <= p.gap, p.gap < p.cpf - Spread(p.spacing),
             Spread(p.spacing) < p.cpf - (p.cpf \div 2), NEW n \in DOMAIN p.rows
      PROVE  Filled(grid, n) = p.rows[n]
  <2>1. DOMAIN p.rows = 1..Len(p.rows) /\ Len(p.rows) \in Nat
    <3>1. \E W : p.rows \in Seq(W)
      BY PlayerAssumption
    <3> QED
      BY <3>1
  <2>2. n \in 1..Len(p.rows) /\ Len(p.rows) # 0
    BY <2>1
  <2>3. PICK V : Logging(p.regs, p.rows, p.cpf, p.spacing, p.gap, V)
    BY <1>2, <2>2, PlayersLog
  <2> QED
    BY <2>2, <2>3, LogRows
<1> HIDE DEF grid
<1>3. p.spacing <= p.gap /\ p.gap < p.cpf - Spread(p.spacing) /\ Spread(p.spacing) < p.cpf - (p.cpf \div 2) =>
          \A n \in DOMAIN p.rows : Filled(grid, n) = p.rows[n]
  BY <1>2
<1> QED
  BY <1>1, <1>3 DEF LogFramed, Spread, grid

\* A player's log, framed again, is the player's grid (reglog.py, player.py).
THEOREM LogsAreFramed == TracesSpec => []LogFramed
BY GridsBegin, GridsStay, LogTrue, PTL DEF TracesSpec
=============================================================================
