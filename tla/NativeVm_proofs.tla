--------------------------- MODULE NativeVm_proofs ---------------------------
(***************************************************************************)
(* Proofs about the native core.  It steps the objects of a specification  *)
(* as the Python executor does, for every size of a byte, every object,    *)
(* memory and operands, and however many rows a step may decode.  Of a     *)
(* stream, verify finds what it says, by induction over its instructions,  *)
(* and a machine which runs it checking nothing never leaves the code nor  *)
(* its stack.                                                              *)
(***************************************************************************)
EXTENDS NativeVm, ObjectSteps, SequenceTheorems, FiniteSetTheorems, WellFoundedInduction, TLAPS

-----------------------------------------------------------------------------
(* Arithmetic.                                                             *)

(* Induction, as sets.                                                     *)
LEMMA Induction ==
    ASSUME NEW S \in SUBSET Nat, 0 \in S, \A n \in S : n + 1 \in S
    PROVE  \A n \in Nat : n \in S
<1> SUFFICES ASSUME Nat \ S # {} PROVE FALSE
  OBVIOUS
<1> DEFINE less == OpToRel(<, Nat)
<1>1. \E n \in Nat \ S : \A k \in Nat \ S : <<k, n>> \notin less
  <2>1. IsWellFoundedOn(less, Nat)
    BY NatLessThanWellFounded, Zenon
  <2> HIDE DEF less
  <2> QED
    BY <2>1, WFMin
<1>2. PICK n \in Nat \ S : \A k \in Nat \ S : ~(k < n)
  BY <1>1 DEF OpToRel
<1> QED
  BY <1>2

LEMMA Remainder ==
    ASSUME NEW v \in Int, NEW b \in Nat, b > 0
    PROVE  v % b \in 0..(b - 1) /\ v = b * (v \div b) + (v % b) /\ v \div b \in Int
  BY SMT

(* A number has one quotient and one remainder.                            *)
LEMMA OneRemainder ==
    ASSUME NEW b \in Nat, b > 0, NEW q \in Int, NEW p \in Int,
           NEW r \in 0..(b - 1), NEW s \in 0..(b - 1), b * q + r = b * p + s
    PROVE  q = p /\ r = s
<1>1. CASE q > p
  <2>1. b * q >= b * p + b
    BY <1>1
  <2> QED
    BY <2>1
<1>2. CASE p > q
  <2>1. b * p >= b * q + b
    BY <1>2
  <2> QED
    BY <2>1
<1> QED
  BY <1>1, <1>2

LEMMA ByteRange == \A v \in Int : v % Byte \in Bytes
  BY ByteAssumption, Remainder DEF Bytes

LEMMA ByteKept == \A v \in Bytes : v % Byte = v
<1> SUFFICES ASSUME NEW v \in Bytes PROVE v % Byte = v
  OBVIOUS
<1>1. v \in Int /\ v % Byte \in 0..(Byte - 1) /\ v = Byte * (v \div Byte) + (v % Byte) /\ v \div Byte \in Int
  BY ByteAssumption, Remainder DEF Bytes
<1>2. v = Byte * 0 + v
  BY ByteAssumption DEF Bytes
<1> QED
  BY <1>1, <1>2, ByteAssumption, OneRemainder DEF Bytes

(* The quotient and the remainder of a number.                             *)
LEMMA Division ==
    ASSUME NEW v \in Int, NEW q \in Int, NEW r \in Bytes, v = Byte * q + r
    PROVE  v \div Byte = q /\ v % Byte = r
<1> DEFINE p == v \div Byte
           s == v % Byte
<1>1. p \in Int /\ s \in 0..(Byte - 1) /\ v = Byte * p + s
  BY ByteAssumption, Remainder
<1> HIDE DEF p, s
<1>2. p = q /\ s = r
  BY <1>1, ByteAssumption, OneRemainder DEF Bytes
<1> QED
  BY <1>2 DEF p, s

(* What is kept to a word has the low and the high byte that it had.       *)
LEMMA WordBytes ==
    ASSUME NEW v \in Int
    PROVE  /\ (v % (Byte * Byte)) % Byte = v % Byte
           /\ ((v % (Byte * Byte)) \div Byte) % Byte = (v \div Byte) % Byte
<1>1. Byte \in Nat /\ Byte > 0 /\ Byte * Byte \in Nat /\ Byte * Byte > 0
  BY ByteAssumption
<1>2. PICK w \in Int, q \in Int : w = v % (Byte * Byte) /\ v = (Byte * Byte) * q + w
  <2> DEFINE b == Byte * Byte
  <2>1. v % b \in Int /\ v = b * (v \div b) + (v % b) /\ v \div b \in Int
    <3> HIDE DEF b
    <3> QED
      BY <1>1, Remainder DEF b
  <2> QED
    BY <2>1
<1>3. PICK x \in Int, r \in Bytes : x = w \div Byte /\ r = w % Byte /\ w = Byte * x + r
  BY <1>1, Remainder DEF Bytes
<1>4. PICK a \in Int, l \in Bytes : a = x \div Byte /\ l = x % Byte /\ x = Byte * a + l
  BY <1>1, Remainder DEF Bytes
<1>5. v = Byte * (Byte * q + x) + r /\ Byte * q + x \in Int
  BY <1>1, <1>2, <1>3
<1>6. v \div Byte = Byte * q + x /\ v % Byte = r
  BY <1>5, Division
<1>7. Byte * q + x = Byte * (q + a) + l /\ q + a \in Int
  BY <1>1, <1>4
<1>8. (Byte * q + x) % Byte = l
  BY <1>5, <1>7, Division
<1> QED
  BY <1>2, <1>3, <1>4, <1>6, <1>8

-----------------------------------------------------------------------------
(* Memories of bytes, at the addresses A.                                  *)

LEMMA RoomType == ASSUME NEW loc PROVE Room(loc) \in Nat /\ Room(loc) > 0
  BY ByteAssumption DEF Room

LEMMA CellParts ==
    ASSUME NEW A, NEW loc, IsCell(A, loc)
    PROVE  Len(loc) \in {1, 2} /\ loc[1] \in A /\ (Len(loc) = 2 => loc[2] \in A)
<1>1. \A i \in 1..Len(loc) : loc[i] \in A
  BY DEF IsCell
<1> QED
  BY <1>1 DEF IsCell

LEMMA LoadType ==
    ASSUME NEW A, NEW m \in [A -> Bytes], NEW loc, IsCell(A, loc)
    PROVE  Load(m, loc) \in Int
<1>1. m[loc[1]] \in Int /\ (Len(loc) = 2 => m[loc[2]] \in Int) /\ Len(loc) \in {1, 2}
  BY CellParts DEF Bytes
<1> QED
  BY <1>1, ByteAssumption DEF Load

LEMMA StoreType ==
    ASSUME NEW A, NEW m \in [A -> Bytes], NEW loc, NEW v \in Int
    PROVE  Store(m, loc, v) \in [A -> Bytes]
<1>1. v % Byte \in Bytes /\ (v \div Byte) % Byte \in Bytes
  <2>1. v \div Byte \in Int
    BY ByteAssumption, Remainder
  <2> QED
    BY <2>1, ByteRange
<1> QED
  BY <1>1 DEF Store

LEMMA PutType ==
    ASSUME NEW A, NEW m \in [A -> Bytes], NEW a, NEW v \in Bytes
    PROVE  Put(m, a, v) \in [A -> Bytes]
  BY DEF Put

(* A store keeps a value to the width of its cell by itself.               *)
LEMMA StoreKeeps ==
    ASSUME NEW m, NEW loc, NEW v \in Int, Len(loc) \in {1, 2}
    PROVE  Store(m, loc, v % Room(loc)) = Store(m, loc, v)
<1>1. CASE Len(loc) = 1
  <2>1. Room(loc) = Byte
    BY <1>1 DEF Room
  <2>2. (v % Byte) % Byte = v % Byte
    BY ByteRange, ByteKept
  <2> QED
    BY <1>1, <2>1, <2>2 DEF Store
<1>2. CASE Len(loc) = 2
  <2>1. Room(loc) = Byte * Byte
    BY <1>2 DEF Room
  <2> DEFINE w == v % (Byte * Byte)
  <2>2. w % Byte = v % Byte /\ (w \div Byte) % Byte = (v \div Byte) % Byte
    BY WordBytes
  <2> HIDE DEF w
  <2>3. Store(m, loc, w) = Store(m, loc, v)
    BY <1>2, <2>2 DEF Store
  <2> QED
    BY <2>1, <2>3 DEF w
<1> QED
  BY <1>1, <1>2

-----------------------------------------------------------------------------
(* Counters, owners and accumulators.                                      *)

(* A counter steps by the same number, wraps at the same step and keeps as *)
(* much of it in the core (counter, objects.rs) as in Python (_counter),   *)
(* gated or not.                                                           *)
THEOREM CountersAgree ==
    ASSUME NEW A, NEW m \in [A -> Bytes], NEW limit \in Int, NEW reload \in Int,
           NEW obj, IsCell(A, obj.cell), obj.delta \in Int, obj.gated \in BOOLEAN,
           NEW kind \in {"reset", "up", "down"}
    PROVE  native_counter(obj, CounterCode(obj, kind), m, limit, reload)
             = counter(obj, kind, m, limit, reload)
<1> DEFINE value == Load(m, obj.cell)
           loc == obj.cell
<1>1. value \in Int /\ Len(loc) \in {1, 2}
  BY LoadType, CellParts
<1>2. \A v \in Int : Store(m, loc, v % Room(loc)) = Store(m, loc, v)
  BY <1>1, StoreKeeps
<1> HIDE DEF value, loc
<1>3. CASE kind = "reset"
  BY <1>3 DEF counter, native_counter, CounterCode
<1>4. CASE kind = "up" /\ obj.gated
  <2>1. CounterCode(obj, kind) = 3
    BY <1>4 DEF CounterCode
  <2> QED
    BY <1>1, <1>2, <1>4, <2>1 DEF counter, native_counter, value, loc
<1>5. CASE kind = "up" /\ ~obj.gated
  <2>1. CounterCode(obj, kind) = 1
    BY <1>5 DEF CounterCode
  <2> QED
    BY <1>1, <1>2, <1>5, <2>1 DEF counter, native_counter, value, loc
<1>6. CASE kind = "down" /\ obj.gated
  <2>1. CounterCode(obj, kind) = 4
    BY <1>6 DEF CounterCode
  <2> QED
    BY <1>1, <1>2, <1>6, <2>1 DEF counter, native_counter, value, loc
<1>7. CASE kind = "down" /\ ~obj.gated
  <2>1. CounterCode(obj, kind) = 2
    BY <1>7 DEF CounterCode
  <2> QED
    BY <1>1, <1>2, <1>7, <2>1 DEF counter, native_counter, value, loc
<1> QED
  BY <1>3, <1>4, <1>5, <1>6, <1>7

(* An owner is claimed and released alike.                                 *)
THEOREM OwnersAgree ==
    ASSUME NEW m, NEW obj, NEW ident, NEW none, NEW cond, NEW kind \in {"claim", "release"}
    PROVE  native_owner(obj, kind = "release", m, ident, none, cond)
             = owner(obj, kind, m, ident, none, cond)
<1>1. CASE kind = "claim"
  BY <1>1 DEF owner, native_owner
<1>2. CASE kind = "release"
  BY <1>2 DEF owner, native_owner
<1> QED
  BY <1>1, <1>2

(* An accumulator ramps, goes to its target, turns at its ends and flips   *)
(* alike.                                                                  *)
THEOREM AccumulatorsAgree ==
    ASSUME NEW A, NEW m \in [A -> Bytes], NEW amount \in Int, NEW target \in Int,
           NEW obj, IsCell(A, obj.cell), IsCell(A, obj.dir), NEW mode \in {"ramp", "to", "tri", "flip"}
    PROVE  native_accum(obj, AccumCode(mode), m, amount, target) = accum(obj, mode, m, amount, target)
<1> DEFINE value == Load(m, obj.cell)
           d == m[obj.dir[1]]
           room == Room(obj.cell)
<1>1. value \in Int /\ d \in Int /\ d % 2 \in {0, 1} /\ room \in Int
  BY LoadType, CellParts, RoomType DEF Bytes
<1> HIDE DEF value, d, room
<1>2. CASE mode = "ramp"
  BY <1>1, <1>2 DEF accum, native_accum, AccumCode, value, room
<1>3. CASE mode = "to"
  <2>1. AccumCode(mode) = 1
    BY <1>3 DEF AccumCode
  <2>2. (IF IF value < target THEN value + amount > target ELSE value - amount < target
         THEN target ELSE IF value < target THEN value + amount ELSE value - amount)
          = IF value < target
            THEN IF value + amount < target THEN value + amount ELSE target
            ELSE IF value - amount > target THEN value - amount ELSE target
    BY <1>1
  <2> QED
    BY <1>3, <2>1, <2>2 DEF accum, native_accum, value
<1>4. CASE mode = "tri"
  <2>1. AccumCode(mode) = 2
    BY <1>4 DEF AccumCode
  <2> QED
    BY <1>1, <1>4, <2>1 DEF accum, native_accum, value, d, room
<1>5. CASE mode = "flip"
  <2>1. AccumCode(mode) = 3
    BY <1>5 DEF AccumCode
  <2>2. (IF d % 2 = 1 THEN d - 1 ELSE d + 1) = d + 1 - 2 * (d % 2)
    BY <1>1
  <2> QED
    BY <1>5, <2>1, <2>2 DEF accum, native_accum, d
<1> QED
  BY <1>2, <1>3, <1>4, <1>5
-----------------------------------------------------------------------------
(* The operands of a row.                                                  *)

(* The bytes of a row.                                                     *)
Columns(obj) == [1..Len(obj.tabs) -> Bytes]

LEMMA XfType ==
    ASSUME NEW obj, NEW cols \in Columns(obj), NEW spec, IsXf(obj, spec), Len(obj.tabs) \in Nat
    PROVE  xf(spec, cols) \in Bytes
<1>1. CASE spec.col = 0
  BY <1>1 DEF xf, IsXf
<1>2. CASE spec.col # 0
  <2>1. cols[spec.col] \in Bytes
    BY <1>2 DEF IsXf, Columns
  <2> QED
    BY <1>2, <2>1 DEF xf, IsXf
<1> QED
  BY <1>1, <1>2

-----------------------------------------------------------------------------
(* A recursion over 1..n that keeps to the set T has a function.           *)
Recurs(n, T, base, step) ==
    \E f \in [0..n -> T] : f[0] = base /\ \A k \in 1..n : f[k] = step[k][f[k - 1]]

LEMMA Recursion ==
    ASSUME NEW n \in Nat, NEW T, NEW base \in T, NEW step \in [1..n -> [T -> T]]
    PROVE  Recurs(n, T, base, step)
<1> DEFINE Upto(f, l) == /\ f \in [0..n -> T] /\ f[0] = base
                         /\ \A k \in 1..n : k <= l => f[k] = step[k][f[k - 1]]
           S == {l \in Nat : \E f \in [0..n -> T] : Upto(f, l)}
<1>1. 0 \in S
  <2>1. Upto([k \in 0..n |-> base], 0)
    OBVIOUS
  <2> QED
    BY <2>1
<1>2. ASSUME NEW l \in S PROVE l + 1 \in S
  <2>1. PICK f \in [0..n -> T] : Upto(f, l)
    OBVIOUS
  <2>2. CASE l + 1 \in 1..n
    <3> DEFINE g == [f EXCEPT ![l + 1] = step[l + 1][f[l]]]
    <3>1. step[l + 1] \in [T -> T] /\ f[l] \in T
      BY <2>2
    <3>2. g \in [0..n -> T] /\ g[0] = base /\ g[l + 1] = step[l + 1][f[l]] /\ g[l] = f[l]
      BY <2>1, <2>2, <3>1
    <3>3. ASSUME NEW k \in 1..n, k <= l PROVE g[k] = step[k][g[k - 1]]
      <4>1. g[k] = f[k] /\ g[k - 1] = f[k - 1]
        BY <3>3
      <4> QED
        BY <2>1, <3>3, <4>1
    <3> HIDE DEF g
    <3>4. Upto(g, l + 1)
      BY <3>2, <3>3
    <3> QED
      BY <3>2, <3>4
  <2>3. CASE l + 1 \notin 1..n
    BY <2>1, <2>3
  <2> QED
    BY <2>2, <2>3
<1> HIDE DEF S
<1>3. n \in S
  BY <1>1, <1>2, Induction DEF S
<1> QED
  BY <1>3 DEF S, Recurs

-----------------------------------------------------------------------------
(* The assignments of a row.                                               *)

(* A memory and a count.                                                   *)
Held(A) == [m : [A -> Bytes], left : Bytes]

Taken(obj, sets) == IsAssigns(obj, sets) /\ \A i \in 1..Len(sets) : ~BadAssign(obj, sets[i])

LEMMA AssignOne ==
    ASSUME NEW A, NEW obj, IsCursor(A, obj), NEW cols \in Columns(obj),
           NEW sets, Taken(obj, sets), NEW i \in 1..Len(sets), NEW acc
    PROVE  /\ native_assign_one(obj, cols, sets[i], acc) = assign_one(obj, cols, sets[i], acc)
           /\ acc \in Held(A) => assign_one(obj, cols, sets[i], acc) \in Held(A)
<1> DEFINE s == sets[i]
           v == xf(s.spec, cols)
<1>1. IsXf(obj, s.spec) /\ s.index \in Nat \ {0} /\ s.part \in 0..2 /\ ~BadAssign(obj, s)
  BY DEF Taken, IsAssigns
<1>2. v \in Bytes /\ v \in Int /\ v % Byte = v
  BY <1>1, XfType, ByteKept DEF Bytes, IsCursor, Listed
<1> HIDE DEF v
<1>3. Len(obj.values) \in Nat /\ s.index <= Len(obj.values) + 1
  BY <1>1 DEF BadAssign, IsCursor, Listed
<1> HIDE DEF s
<1>4. native_assign_one(obj, cols, s, acc) = assign_one(obj, cols, s, acc)
  BY <1>1, <1>2, <1>3 DEF native_assign_one, assign_one, v
<1>5. ASSUME acc \in Held(A) PROVE assign_one(obj, cols, s, acc) \in Held(A)
  <2> DEFINE t == assign_one(obj, cols, s, acc)
  <2>1. CASE s.guard # <<>> /\ ~passes(s.guard[1], cols)
    BY <1>5, <2>1 DEF assign_one
  <2>2. CASE ~(s.guard # <<>> /\ ~passes(s.guard[1], cols)) /\ s.index > Len(obj.values)
    <3>1. t = [acc EXCEPT !.left = v]
      BY <2>2 DEF assign_one, v
    <3> QED
      BY <1>2, <1>5, <3>1 DEF Held
  <2>3. CASE ~(s.guard # <<>> /\ ~passes(s.guard[1], cols)) /\ ~(s.index > Len(obj.values)) /\ s.part = 0
    <3>1. t = [acc EXCEPT !.m = Store(@, obj.values[s.index], v)]
      BY <2>3 DEF assign_one, v
    <3>2. Store(acc.m, obj.values[s.index], v) \in [A -> Bytes]
      BY <1>2, <1>5, StoreType DEF Held
    <3> QED
      BY <1>5, <3>1, <3>2 DEF Held
  <2>4. CASE ~(s.guard # <<>> /\ ~passes(s.guard[1], cols)) /\ ~(s.index > Len(obj.values)) /\ s.part # 0
    <3>1. t = [acc EXCEPT !.m = Put(@, obj.values[s.index][s.part], v)]
      BY <2>4 DEF assign_one, v
    <3>2. Put(acc.m, obj.values[s.index][s.part], v) \in [A -> Bytes]
      BY <1>2, <1>5, PutType DEF Held
    <3> QED
      BY <1>5, <3>1, <3>2 DEF Held
  <2> QED
    BY <2>1, <2>2, <2>3, <2>4
<1> QED
  BY <1>4, <1>5 DEF s

(* The assignments of a row are made one at a time, each of them to a      *)
(* memory of bytes.                                                        *)
Folding(A, obj, cols, sets, base, py) ==
    /\ py[0] = base
    /\ \A k \in 1..Len(sets) : py[k] = assign_one(obj, cols, sets[k], py[k - 1])
    /\ \A k \in 0..Len(sets) : py[k] \in Held(A)

LEMMA AssignFolds ==
    ASSUME NEW A, NEW obj, IsCursor(A, obj), NEW cols \in Columns(obj),
           NEW sets, Taken(obj, sets), NEW m \in [A -> Bytes], NEW left \in Bytes
    PROVE  \E py : /\ assign(obj, m, cols, sets, left) = py[Len(sets)]
                   /\ Folding(A, obj, cols, sets, [m |-> m, left |-> left], py)
<1> DEFINE n == Len(sets)
           base == [m |-> m, left |-> left]
           step == [k \in 1..n |-> [acc \in Held(A) |-> assign_one(obj, cols, sets[k], acc)]]
           py[k \in 0..n] == IF k = 0 THEN base ELSE assign_one(obj, cols, sets[k], py[k - 1])
<1>0. n \in Nat
  BY DEF Taken, IsAssigns, Listed
<1>1. base \in Held(A)
  BY DEF Held
<1>2. step \in [1..n -> [Held(A) -> Held(A)]]
  BY AssignOne
<1>3. assign(obj, m, cols, sets, left) = py[n]
  BY DEF assign
<1>4. PICK f \in [0..n -> Held(A)] : f[0] = base /\ \A k \in 1..n : f[k] = step[k][f[k - 1]]
  <2> HIDE DEF base, step, n, py
  <2>1. Recurs(n, Held(A), base, step)
    BY <1>0, <1>1, <1>2, Recursion
  <2> QED
    BY <2>1 DEF Recurs
<1>5. ASSUME NEW k \in 1..n PROVE f[k] = assign_one(obj, cols, sets[k], f[k - 1])
  <2>1. f[k - 1] \in Held(A)
    BY <1>0
  <2> QED
    BY <1>4, <2>1
<1>6. f = [k \in 0..n |-> IF k = 0 THEN base ELSE assign_one(obj, cols, sets[k], f[k - 1])]
  BY <1>0, <1>4, <1>5
<1>7. py = [k \in 0..n |-> IF k = 0 THEN base ELSE assign_one(obj, cols, sets[k], py[k - 1])]
  BY <1>6
<1> HIDE DEF py, base
<1> DEFINE S == {k \in Nat : k <= n => py[k] \in Held(A)}
<1>8. 0 \in S
  BY <1>0, <1>1, <1>7
<1>9. ASSUME NEW k \in S PROVE k + 1 \in S
  <2> SUFFICES ASSUME k + 1 <= n PROVE py[k + 1] \in Held(A)
    OBVIOUS
  <2>1. py[k] \in Held(A) /\ k + 1 \in 1..n
    BY <1>0
  <2>2. py[k + 1] = assign_one(obj, cols, sets[k + 1], py[k])
    BY <1>0, <1>7, <2>1
  <2> QED
    BY <2>1, <2>2, AssignOne
<1> HIDE DEF S
<1>10. \A k \in Nat : k \in S
  BY <1>8, <1>9, Induction DEF S
<1>11. py[0] = base /\ \A k \in 1..n : py[k] = assign_one(obj, cols, sets[k], py[k - 1])
  BY <1>0, <1>7
<1>12. \A k \in 0..n : py[k] \in Held(A)
  BY <1>0, <1>10 DEF S
<1> QED
  BY <1>3, <1>11, <1>12 DEF Folding, base

(* The core assigns as Python does, and memory stays one of bytes.         *)
LEMMA AssignsAgree ==
    ASSUME NEW A, NEW obj, IsCursor(A, obj), NEW cols \in Columns(obj),
           NEW sets, Taken(obj, sets), NEW m, NEW left
    PROVE  /\ native_assign(obj, m, cols, sets, left) = assign(obj, m, cols, sets, left)
           /\ m \in [A -> Bytes] /\ left \in Bytes => assign(obj, m, cols, sets, left) \in Held(A)
<1>0. Len(sets) \in Nat
  BY DEF Taken, IsAssigns, Listed
<1> DEFINE base == [m |-> m, left |-> left]
           py[n \in 0..Len(sets)] ==
             IF n = 0 THEN base ELSE assign_one(obj, cols, sets[n], py[n - 1])
           core[n \in 0..Len(sets)] ==
             IF n = 0 THEN base ELSE native_assign_one(obj, cols, sets[n], core[n - 1])
<1>1. \A f : [n \in 0..Len(sets) |->
                IF n = 0 THEN base ELSE native_assign_one(obj, cols, sets[n], f[n - 1])]
           = [n \in 0..Len(sets) |-> IF n = 0 THEN base ELSE assign_one(obj, cols, sets[n], f[n - 1])]
  <2> SUFFICES ASSUME NEW f, NEW n \in 0..Len(sets), n # 0
               PROVE  native_assign_one(obj, cols, sets[n], f[n - 1])
                        = assign_one(obj, cols, sets[n], f[n - 1])
    OBVIOUS
  <2>1. n \in 1..Len(sets)
    BY <1>0
  <2> QED
    BY <2>1, AssignOne
<1>2. core = py
  BY <1>1
<1>3. /\ assign(obj, m, cols, sets, left) = py[Len(sets)]
      /\ native_assign(obj, m, cols, sets, left) = core[Len(sets)]
  BY DEF assign, native_assign
<1>4. ASSUME m \in [A -> Bytes], left \in Bytes PROVE assign(obj, m, cols, sets, left) \in Held(A)
  <2>1. PICK f : /\ assign(obj, m, cols, sets, left) = f[Len(sets)]
                 /\ Folding(A, obj, cols, sets, base, f)
    BY <1>4, AssignFolds
  <2>2. Len(sets) \in 0..Len(sets)
    BY <1>0
  <2> QED
    BY <2>1, <2>2 DEF Folding
<1> HIDE DEF py, core
<1> QED
  BY <1>2, <1>3, <1>4

-----------------------------------------------------------------------------
(* A turn of a step: what it starts from in Python and in the core.        *)

Turns(A) == [m : [A -> Bytes], via : Seq(Nat), jumped : BOOLEAN, carry : Int, left : Bytes,
             at : Int, used : Int, over : BOOLEAN, ok : BOOLEAN]
NativeTurns(A) == [m : [A -> Bytes], via : Seq(Nat), jumped : BOOLEAN, carry : Int, left : Bytes,
                   at : Int, used : Int, why : {"", "done", "bail"}]

Even(w, c) == w.m = c.m /\ w.carry = c.carry /\ w.left = c.left /\ w.at = c.at /\ w.used = c.used

(* Both go on, from the same; or both are done, or gave up.                *)
BothGoing(A, w, c) ==
    /\ w \in Turns(A) /\ c \in NativeTurns(A)
    /\ w.ok /\ ~w.over /\ c.why = ""
    /\ Even(w, c) /\ w.via = c.via /\ w.jumped = c.jumped /\ w.used = 0
Over(w, c) == w.ok /\ w.over /\ c.why = "done" /\ Even(w, c)
Failed(w, c) == ~w.ok /\ ~w.over /\ c.why = "bail"
Agree(A, w, c) == BothGoing(A, w, c) \/ (w \in Turns(A) /\ c \in NativeTurns(A) /\ (Over(w, c) \/ Failed(w, c)))

LEMMA FlagType == \A p : Flag(p) \in {0, 1}
  BY DEF Flag

(* A turn that leaves both the same, and has both go on or end.            *)
LEMMA BothGo ==
    ASSUME NEW A, NEW p \in Turns(A), NEW q \in NativeTurns(A), Even(p, q),
           p.ok, ~p.over, q.why = "", p.via = q.via, p.jumped = q.jumped, p.used = 0
    PROVE  Agree(A, p, q)
  BY DEF Agree, BothGoing
LEMMA BothEnd ==
    ASSUME NEW A, NEW p \in Turns(A), NEW q \in NativeTurns(A), Even(p, q),
           p.ok, p.over, q.why = "done"
    PROVE  Agree(A, p, q)
  BY DEF Agree, Over

LEMMA JumpAgrees ==
    ASSUME NEW A, NEW obj, IsCursor(A, obj), NEW cols \in Columns(obj), NEW ops,
           NEW row, IsRow(obj, row), row.kind = "jump", NEW w, NEW c, BothGoing(A, w, c)
    PROVE  Agree(A, Act(obj, ops, w, row, cols), native_act(obj, ops, c, row, cols))
<1> DEFINE target == xf(row.to_, cols)
           p == Act(obj, ops, w, row, cols)
           q == native_act(obj, ops, c, row, cols)
           back == Flag(target >= w.at)
           v == [[w EXCEPT !.at = target, !.via = <<>>, !.jumped = TRUE, !.carry = Flag(target >= w.at)]
                    EXCEPT !.via = row.via]
           u == [c EXCEPT !.carry = Flag(target >= c.at), !.jumped = TRUE, !.at = target, !.via = <<>>]
           past == Past(obj, 1, ops[1] + target)
           held == fetch(obj, w.m, 1, ops[1] + target) \in row.hold
<1>1. target \in Int /\ row.via \in Seq(Nat)
  BY XfType DEF IsRow, IsCursor, Listed, Bytes
<1>2. p = IF target = w.at THEN [v EXCEPT !.via = w.via, !.over = TRUE]
          ELSE IF row.hold = {} THEN v
          ELSE IF past THEN [v EXCEPT !.ok = FALSE]
          ELSE IF held THEN [[v EXCEPT !.left = 0] EXCEPT !.over = TRUE]
          ELSE v
  BY DEF Act
<1>3. q = IF target = w.at THEN [u EXCEPT !.why = "done"]
          ELSE IF row.hold # {} /\ past THEN [c EXCEPT !.why = "bail"]
          ELSE IF row.hold # {} /\ held THEN [u EXCEPT !.left = 0, !.why = "done"]
          ELSE [u EXCEPT !.via = row.via]
  BY DEF native_act, BothGoing, Even
<1> SUFFICES Agree(A, p, q)
  OBVIOUS
<1> HIDE DEF p, q, target, past, held
<1>4. /\ v \in Turns(A) /\ v.m = w.m /\ v.carry = back /\ v.left = w.left /\ v.at = target
      /\ v.used = 0 /\ v.via = row.via /\ v.jumped = TRUE /\ v.ok /\ ~v.over
      /\ u \in NativeTurns(A) /\ u.m = w.m /\ u.carry = back /\ u.left = w.left /\ u.at = target
      /\ u.used = 0 /\ u.via = <<>> /\ u.jumped = TRUE /\ u.why = "" /\ back \in Int
      /\ w \in Turns(A) /\ c \in NativeTurns(A) /\ w.via \in Seq(Nat)
  <2>1. /\ w \in Turns(A) /\ w.at \in Int /\ w.via \in Seq(Nat) /\ w.ok /\ ~w.over /\ w.used = 0
        /\ c \in NativeTurns(A) /\ c.m = w.m /\ c.left = w.left /\ c.at = w.at /\ c.used = 0 /\ c.why = ""
    BY DEF BothGoing, Even, Turns
  <2>2. back \in Int /\ <<>> \in Seq(Nat)
    BY FlagType
  <2>3. /\ v \in Turns(A) /\ v.m = w.m /\ v.carry = back /\ v.left = w.left /\ v.at = target
        /\ v.used = 0 /\ v.via = row.via /\ v.jumped = TRUE /\ v.ok /\ ~v.over
    BY <1>1, <2>1, <2>2 DEF Turns
  <2>4. /\ u \in NativeTurns(A) /\ u.m = w.m /\ u.carry = back /\ u.left = w.left /\ u.at = target
        /\ u.used = 0 /\ u.via = <<>> /\ u.jumped = TRUE /\ u.why = ""
    BY <1>1, <2>1, <2>2 DEF NativeTurns
  <2> QED
    BY <2>1, <2>2, <2>3, <2>4
<1> HIDE DEF v, u, back
<1>5. CASE target = w.at
  BY <1>2, <1>3, <1>4, <1>5, BothEnd DEF Turns, NativeTurns, Even
<1>6. CASE target # w.at /\ row.hold # {} /\ past
  <2>1. p = [v EXCEPT !.ok = FALSE] /\ q = [c EXCEPT !.why = "bail"]
    BY <1>2, <1>3, <1>6
  <2> QED
    BY <1>4, <2>1 DEF Turns, NativeTurns, Agree, Failed
<1>7. CASE target # w.at /\ row.hold # {} /\ ~past /\ held
  <2>1. p = [[v EXCEPT !.left = 0] EXCEPT !.over = TRUE] /\ q = [u EXCEPT !.left = 0, !.why = "done"]
    BY <1>2, <1>3, <1>7
  <2>2. 0 \in Bytes
    BY ByteAssumption DEF Bytes
  <2> QED
    BY <1>4, <2>1, <2>2, BothEnd DEF Turns, NativeTurns, Even
<1>8. CASE target # w.at /\ (row.hold = {} \/ (~past /\ ~held))
  <2>1. p = v /\ q = [u EXCEPT !.via = row.via]
    BY <1>2, <1>3, <1>8
  <2> QED
    BY <1>1, <1>4, <2>1, BothGo DEF Turns, NativeTurns, Even
<1> QED
  BY <1>5, <1>6, <1>7, <1>8

(* What a row the core took assigns.                                       *)
LEMMA RowTaken ==
    ASSUME NEW obj, NEW row, IsRow(obj, row), ~BadRow(obj, row)
    PROVE  /\ row.kind \in {"sweep", "delay", "set", "end"} => Taken(obj, row.then)
           /\ row.kind \in {"set", "run"} => Taken(obj, row.sets)
<1>1. ASSUME row.kind \in {"sweep", "delay", "set", "end"} PROVE Taken(obj, row.then)
  <2>1. IsAssigns(obj, row.then) /\ \A i \in DOMAIN row.then : ~BadAssign(obj, row.then[i])
    BY <1>1 DEF IsRow, BadRow
  <2> QED
    BY <2>1 DEF Taken, IsAssigns, Listed
<1>2. ASSUME row.kind \in {"set", "run"} PROVE Taken(obj, row.sets)
  <2>1. IsAssigns(obj, row.sets) /\ \A i \in DOMAIN row.sets : ~BadAssign(obj, row.sets[i])
    BY <1>2 DEF IsRow, BadRow
  <2> QED
    BY <2>1 DEF Taken, IsAssigns, Listed
<1> QED
  BY <1>1, <1>2

LEMMA PlaceType == ASSUME NEW v \in Int, NEW loc PROVE v % Room(loc) \in Int
<1> DEFINE room == Room(loc)
<1>1. room \in Nat /\ room > 0
  BY RoomType
<1> HIDE DEF room
<1>2. v % room \in Int
  BY <1>1, Remainder
<1> QED
  BY <1>2 DEF room

LEMMA CallAgrees ==
    ASSUME NEW A, NEW obj, IsCursor(A, obj), NEW cols \in Columns(obj), NEW ops,
           NEW row, IsRow(obj, row), ~BadRow(obj, row), row.kind \in {"call", "return"},
           NEW w, NEW c, BothGoing(A, w, c)
    PROVE  Agree(A, Act(obj, ops, w, row, cols), native_act(obj, ops, c, row, cols))
<1> DEFINE target == IF row.kind = "call" THEN xf(row.to_, cols) ELSE Load(w.m, obj.ret)
           m == IF row.kind = "call" THEN Store(w.m, obj.ret, (w.at + obj.width) % Room(obj.pos)) ELSE w.m
           p == Act(obj, ops, w, row, cols)
           q == native_act(obj, ops, c, row, cols)
           back == Flag(target >= w.at)
<1> SUFFICES Agree(A, p, q)
  OBVIOUS
<1>1. /\ w \in Turns(A) /\ w.at \in Int /\ w.via \in Seq(Nat) /\ w.ok /\ ~w.over /\ w.used = 0
      /\ w.m \in [A -> Bytes] /\ obj.width \in Int
      /\ c \in NativeTurns(A) /\ c.m = w.m /\ c.left = w.left /\ c.at = w.at /\ c.used = 0 /\ c.why = ""
  BY DEF BothGoing, Even, Turns, IsCursor
<1>2. back \in Int /\ <<>> \in Seq(Nat)
  BY FlagType
<1>3. target \in Int
  <2>1. CASE row.kind = "call"
    BY <2>1, XfType DEF IsRow, IsCursor, Listed, Bytes
  <2>2. CASE row.kind = "return"
    <3>1. IsCell(A, obj.ret)
      BY <2>2 DEF BadRow, IsCursor, Optional
    <3> QED
      BY <1>1, <2>2, <3>1, LoadType
  <2> QED
    BY <2>1, <2>2
<1>4. m \in [A -> Bytes]
  <2> DEFINE past == w.at + obj.width
  <2>1. past % Room(obj.pos) \in Int
    <3>1. w.at \in Int /\ obj.width \in Int
      BY <1>1
    <3>2. past \in Int
      BY <3>1
    <3> HIDE DEF past
    <3> QED
      BY <3>2, PlaceType
  <2> HIDE DEF past
  <2>2. Store(w.m, obj.ret, past % Room(obj.pos)) \in [A -> Bytes]
    BY <1>1, <2>1, StoreType
  <2> QED
    BY <1>1, <2>2 DEF past
<1>5. /\ p = [[w EXCEPT !.at = target, !.via = <<>>, !.jumped = TRUE, !.carry = back] EXCEPT !.m = m]
      /\ q = [[c EXCEPT !.carry = back, !.jumped = TRUE, !.at = target, !.via = <<>>] EXCEPT !.m = m]
  <2>1. CASE row.kind = "call"
    <3>1. p = [[w EXCEPT !.at = target, !.via = <<>>, !.jumped = TRUE, !.carry = back]
                 EXCEPT !.m = Store(@, obj.ret, (w.at + obj.width) % Room(obj.pos))]
      BY <2>1 DEF Act
    <3>2. q = [[c EXCEPT !.carry = back, !.jumped = TRUE, !.at = target, !.via = <<>>]
                 EXCEPT !.m = Store(@, obj.ret, (w.at + obj.width) % Room(obj.pos))]
      BY <1>1, <2>1 DEF native_act
    <3> HIDE DEF back, target, p, q
    <3> QED
      BY <1>1, <2>1, <3>1, <3>2 DEF Turns, NativeTurns
  <2>2. CASE row.kind = "return"
    <3>1. p = [w EXCEPT !.at = target, !.via = <<>>, !.jumped = TRUE, !.carry = back]
      BY <2>2 DEF Act
    <3>2. q = [c EXCEPT !.carry = back, !.jumped = TRUE, !.at = target, !.via = <<>>]
      BY <1>1, <2>2 DEF native_act
    <3> HIDE DEF back, target, p, q
    <3> QED
      BY <1>1, <2>2, <3>1, <3>2 DEF Turns, NativeTurns
  <2> QED
    BY <2>1, <2>2
<1> HIDE DEF p, q, m, target, back
<1>6. /\ p \in Turns(A) /\ p.m = m /\ p.carry = back /\ p.left = w.left /\ p.at = target
      /\ p.used = 0 /\ p.via = <<>> /\ p.jumped = TRUE /\ p.ok /\ ~p.over
  BY <1>1, <1>2, <1>3, <1>4, <1>5 DEF Turns
<1>7. /\ q \in NativeTurns(A) /\ q.m = m /\ q.carry = back /\ q.left = w.left /\ q.at = target
      /\ q.used = 0 /\ q.via = <<>> /\ q.jumped = TRUE /\ q.why = ""
  BY <1>1, <1>2, <1>3, <1>4, <1>5 DEF NativeTurns
<1> QED
  BY <1>6, <1>7, BothGo DEF Even

(* The end of a turn: assignments after what v and u are.                  *)
Thens(obj, v, cols, sets) ==
    LET a == assign(obj, v.m, cols, sets, v.left)
    IN  [[v EXCEPT !.m = a.m, !.left = a.left] EXCEPT !.over = TRUE]
NativeThens(obj, u, cols, sets) ==
    LET a == native_assign(obj, u.m, cols, sets, u.left) IN [u EXCEPT !.m = a.m, !.left = a.left]

LEMMA ThensAgree ==
    ASSUME NEW A, NEW obj, IsCursor(A, obj), NEW cols \in Columns(obj), NEW sets, Taken(obj, sets),
           NEW v \in Turns(A), NEW u \in NativeTurns(A), Even(v, u), v.ok, u.why = "done"
    PROVE  Agree(A, Thens(obj, v, cols, sets), NativeThens(obj, u, cols, sets))
<1> DEFINE a == assign(obj, v.m, cols, sets, v.left)
           p == Thens(obj, v, cols, sets)
           q == NativeThens(obj, u, cols, sets)
<1>1. v.m \in [A -> Bytes] /\ v.left \in Bytes /\ u.m = v.m /\ u.left = v.left
  BY DEF Turns, Even
<1>2. native_assign(obj, v.m, cols, sets, v.left) = a /\ a \in Held(A)
  BY <1>1, AssignsAgree
<1>3. /\ p = [[v EXCEPT !.m = a.m, !.left = a.left] EXCEPT !.over = TRUE]
      /\ q = [u EXCEPT !.m = a.m, !.left = a.left]
  BY <1>1, <1>2 DEF Thens, NativeThens
<1> SUFFICES Agree(A, p, q)
  OBVIOUS
<1> HIDE DEF a, p, q
<1>4. a.m \in [A -> Bytes] /\ a.left \in Bytes
  BY <1>2 DEF Held
<1>5. /\ p \in Turns(A) /\ p.m = a.m /\ p.left = a.left /\ p.carry = v.carry /\ p.at = v.at
      /\ p.used = v.used /\ p.ok /\ p.over
  BY <1>3, <1>4 DEF Turns
<1>6. /\ q \in NativeTurns(A) /\ q.m = a.m /\ q.left = a.left /\ q.carry = u.carry /\ q.at = u.at
      /\ q.used = u.used /\ q.why = "done"
  BY <1>3, <1>4 DEF NativeTurns
<1> QED
  BY <1>5, <1>6, BothEnd DEF Even

(* A sweep leaves bytes, and the low part of a fraction that fits a byte.  *)
LEMMA FractionBytes ==
    ASSUME NEW f \in 1..Byte, NEW sum \in Int
    PROVE  /\ (sum % (Byte * f)) \div f \in Bytes
           /\ (sum % (Byte * f)) % f \in Bytes
           /\ ((sum % (Byte * f)) % f) % Byte = (sum % (Byte * f)) % f
<1> DEFINE room == Byte * f
           total == sum % room
<1>1. f \in Nat /\ f > 0 /\ room \in Nat /\ room > 0
  BY ByteAssumption
<1>2. total \in 0..(room - 1)
  <2> HIDE DEF room
  <2> QED
    BY <1>1, Remainder
<1>3. room = Byte * f
  OBVIOUS
<1> HIDE DEF room, total
<1>4. PICK q \in Int, r \in 0..(f - 1) : q = total \div f /\ r = total % f /\ total = f * q + r
  <2>1. total \in Int
    BY <1>1, <1>2
  <2> QED
    BY <1>1, <2>1, Remainder
<1>5. r \in Bytes
  BY <1>4, ByteAssumption DEF Bytes
<1>6. q >= 0
  <2> SUFFICES ASSUME q <= -1 PROVE FALSE
    BY <1>4
  <2>1. f * q <= f * (-1)
    BY <1>1
  <2> QED
    BY <1>1, <1>2, <1>4, <2>1
<1>7. q < Byte
  <2> SUFFICES ASSUME q >= Byte PROVE FALSE
    BY <1>4, ByteAssumption
  <2>1. f * q >= f * Byte
    BY <1>1, ByteAssumption
  <2>2. f * Byte = room
    BY <1>1, <1>3, ByteAssumption
  <2> QED
    BY <1>1, <1>2, <1>4, <2>1, <2>2
<1>8. q \in Bytes
  BY <1>4, <1>6, <1>7, ByteAssumption DEF Bytes
<1>9. total \div f \in Bytes /\ total % f \in Bytes /\ (total % f) % Byte = total % f
  BY <1>4, <1>5, <1>8, ByteKept
<1> QED
  BY <1>9 DEF total, room

Swept(A, s) == s.m \in [A -> Bytes] /\ s.flag \in Int

LEMMA SweepsAgree ==
    ASSUME NEW A, NEW m \in [A -> Bytes], NEW loc, IsCell(A, loc), NEW f \in 0..Byte,
           f > 0 => Len(loc) = 2, NEW delta \in Int
    PROVE  native_sweep(m, loc, f, delta) = sweep(m, loc, f, delta) /\ Swept(A, sweep(m, loc, f, delta))
<1>1. m[loc[1]] \in Int /\ (Len(loc) = 2 => m[loc[2]] \in Int)
  BY CellParts DEF Bytes
<1>2. CASE f = 0
  <2> DEFINE sum == Load(m, loc) + delta
             low == m[loc[1]] + (delta % Byte)
  <2>1. sum \in Int /\ low \in Int
    <3>1. Load(m, loc) \in Int /\ delta % Byte \in Int
      BY LoadType, ByteRange DEF Bytes
    <3> QED
      BY <1>1, <3>1
  <2>2. (low >= Byte) <=> (low > Byte - 1)
    BY <2>1, ByteAssumption
  <2> HIDE DEF sum, low
  <2>3. native_sweep(m, loc, f, delta) = Stepped(Store(m, loc, sum), Flag(low >= Byte))
    <3>1. native_sweep(m, loc, f, delta) = Stepped(Store(m, loc, sum), Flag(low > Byte - 1))
      BY <1>2 DEF native_sweep, sum, low
    <3> QED
      BY <2>2, <3>1 DEF Flag
  <2>4. sweep(m, loc, f, delta) = Stepped(Store(m, loc, sum), Flag(low >= Byte))
    BY <1>2 DEF sweep, sum, low
  <2>5. Store(m, loc, sum) \in [A -> Bytes] /\ Flag(low >= Byte) \in Int
    BY <2>1, StoreType, FlagType
  <2> QED
    BY <2>3, <2>4, <2>5 DEF Swept, Stepped
<1>3. CASE f > 0
  <2> DEFINE sum == m[loc[2]] * f + (m[loc[1]] % f) + delta
             total == sum % (Byte * f)
  <2>1. sum \in Int
    <3>1. m[loc[1]] % f \in Int
      BY <1>1, <1>3, Remainder
    <3> QED
      BY <1>1, <1>3, <3>1
  <2> HIDE DEF sum
  <2>2. total \div f \in Bytes /\ total % f \in Bytes /\ (total % f) % Byte = total % f
    BY <1>3, <2>1, FractionBytes
  <2> HIDE DEF total
  <2>3. /\ native_sweep(m, loc, f, delta) = Stepped(Put(Put(m, loc[2], total \div f), loc[1], (total % f) % Byte), 0)
        /\ sweep(m, loc, f, delta) = Stepped(Put(Put(m, loc[2], total \div f), loc[1], total % f), 0)
    BY <1>3 DEF native_sweep, sweep, total, sum
  <2>4. Put(Put(m, loc[2], total \div f), loc[1], total % f) \in [A -> Bytes]
    BY <2>2, PutType
  <2>5. native_sweep(m, loc, f, delta) = sweep(m, loc, f, delta)
    BY <2>2, <2>3
  <2> DEFINE after == Put(Put(m, loc[2], total \div f), loc[1], total % f)
  <2>6. Swept(A, Stepped(after, 0))
    <3> HIDE DEF after
    <3>1. Stepped(after, 0).m = after /\ Stepped(after, 0).flag = 0
      BY DEF Stepped
    <3>2. after \in [A -> Bytes]
      BY <2>4 DEF after
    <3> QED
      BY <3>1, <3>2 DEF Swept
  <2> QED
    BY <2>3, <2>5, <2>6
<1> QED
  BY <1>2, <1>3

LEMMA StopAgrees ==
    ASSUME NEW A, NEW obj, NEW cols, NEW ops, NEW row, row.kind = "stop", NEW w, NEW c, BothGoing(A, w, c)
    PROVE  Agree(A, Act(obj, ops, w, row, cols), native_act(obj, ops, c, row, cols))
<1> DEFINE one == 1
           p == Act(obj, ops, w, row, cols)
           q == native_act(obj, ops, c, row, cols)
<1> SUFFICES Agree(A, p, q)
  OBVIOUS
<1>1. /\ w \in Turns(A) /\ w.ok
      /\ c \in NativeTurns(A) /\ c.m = w.m /\ c.left = w.left /\ c.at = w.at /\ c.used = w.used
  BY DEF BothGoing, Even
<1>2. /\ p = [[w EXCEPT !.carry = one] EXCEPT !.over = TRUE]
      /\ q = [[c EXCEPT !.why = "done"] EXCEPT !.carry = one]
  BY DEF Act, native_act
<1>0. one \in Int
  OBVIOUS
<1> HIDE DEF p, q, one
<1>3. p \in Turns(A) /\ p.ok /\ p.over /\ p.carry = one /\ p.m = w.m /\ p.left = w.left /\ p.at = w.at /\ p.used = w.used
  BY <1>0, <1>1, <1>2 DEF Turns
<1>4. /\ q \in NativeTurns(A) /\ q.why = "done" /\ q.carry = one /\ q.m = w.m /\ q.left = w.left
      /\ q.at = w.at /\ q.used = w.used
  BY <1>0, <1>1, <1>2 DEF NativeTurns
<1> QED
  BY <1>3, <1>4, BothEnd DEF Even

LEMMA EndAgrees ==
    ASSUME NEW A, NEW obj, IsCursor(A, obj), NEW cols \in Columns(obj), NEW ops,
           NEW row, IsRow(obj, row), ~BadRow(obj, row), row.kind = "end", NEW w, NEW c, BothGoing(A, w, c)
    PROVE  Agree(A, Act(obj, ops, w, row, cols), native_act(obj, ops, c, row, cols))
<1> DEFINE one == 1
           v == [w EXCEPT !.carry = one, !.used = row.take]
           u == [[c EXCEPT !.why = "done"] EXCEPT !.carry = one, !.used = row.take]
<1>1. /\ w \in Turns(A) /\ w.ok
      /\ c \in NativeTurns(A) /\ c.m = w.m /\ c.left = w.left /\ c.at = w.at
  BY DEF BothGoing, Even
<1>2. Taken(obj, row.then) /\ row.take \in Int
  BY RowTaken DEF IsRow
<1>3. /\ Act(obj, ops, w, row, cols) = Thens(obj, v, cols, row.then)
      /\ native_act(obj, ops, c, row, cols) = NativeThens(obj, u, cols, row.then)
  BY DEF Act, native_act, Thens, NativeThens
<1> SUFFICES Agree(A, Thens(obj, v, cols, row.then), NativeThens(obj, u, cols, row.then))
  BY <1>3
<1>0. one \in Int
  OBVIOUS
<1> HIDE DEF one
<1>4. /\ v \in Turns(A) /\ v.ok /\ v.m = w.m /\ v.carry = one /\ v.left = w.left /\ v.at = w.at /\ v.used = row.take
      /\ u \in NativeTurns(A) /\ u.why = "done" /\ u.m = w.m /\ u.carry = one /\ u.left = w.left
      /\ u.at = w.at /\ u.used = row.take
  BY <1>0, <1>1, <1>2 DEF Turns, NativeTurns
<1> HIDE DEF v, u
<1>5. Even(v, u)
  BY <1>4 DEF Even
<1> QED
  BY <1>2, <1>4, <1>5, ThensAgree

LEMMA SetAgrees ==
    ASSUME NEW A, NEW obj, IsCursor(A, obj), NEW cols \in Columns(obj), NEW ops,
           NEW row, IsRow(obj, row), ~BadRow(obj, row), row.kind = "set", NEW w, NEW c, BothGoing(A, w, c)
    PROVE  Agree(A, Act(obj, ops, w, row, cols), native_act(obj, ops, c, row, cols))
<1> DEFINE a == assign(obj, w.m, cols, row.sets, w.left)
           carry == IF w.jumped THEN w.carry ELSE 0
           v == [w EXCEPT !.m = a.m, !.left = a.left, !.used = row.take, !.carry = carry]
           u == [[[c EXCEPT !.why = "done"] EXCEPT !.m = a.m, !.left = a.left]
                    EXCEPT !.carry = carry, !.used = row.take]
<1>1. /\ w \in Turns(A) /\ w.ok /\ w.m \in [A -> Bytes] /\ w.left \in Bytes /\ w.carry \in Int
      /\ c \in NativeTurns(A) /\ c.m = w.m /\ c.left = w.left /\ c.at = w.at /\ c.carry = w.carry
      /\ c.jumped = w.jumped
  BY DEF BothGoing, Even, Turns
<1>2. Taken(obj, row.then) /\ Taken(obj, row.sets) /\ row.take \in Int
  BY RowTaken DEF IsRow
<1>3. a \in Held(A) /\ native_assign(obj, w.m, cols, row.sets, w.left) = a
  BY <1>1, <1>2, AssignsAgree
<1>4. Act(obj, ops, w, row, cols) = Thens(obj, v, cols, row.then)
  BY DEF Act, Thens
<1>5. native_act(obj, ops, c, row, cols) = NativeThens(obj, u, cols, row.then)
  <2> DEFINE d == [c EXCEPT !.why = "done"]
             b == native_assign(obj, d.m, cols, row.sets, d.left)
             t == [[d EXCEPT !.m = b.m, !.left = b.left]
                      EXCEPT !.carry = IF c.jumped THEN c.carry ELSE 0, !.used = row.take]
  <2>1. native_act(obj, ops, c, row, cols) = NativeThens(obj, t, cols, row.then)
    BY DEF native_act, NativeThens
  <2>2. d.m = w.m /\ d.left = w.left
    BY <1>1 DEF NativeTurns
  <2>3. b = a
    BY <1>3, <2>2
  <2> HIDE DEF a, b
  <2>4. t = u
    BY <1>1, <2>3
  <2> QED
    BY <2>1, <2>4
<1> SUFFICES Agree(A, Thens(obj, v, cols, row.then), NativeThens(obj, u, cols, row.then))
  BY <1>4, <1>5
<1>6. carry \in Int /\ a.m \in [A -> Bytes] /\ a.left \in Bytes
  BY <1>1, <1>3 DEF Held
<1> HIDE DEF a, carry
<1>7. /\ v \in Turns(A) /\ v.ok /\ v.m = a.m /\ v.carry = carry /\ v.left = a.left /\ v.at = w.at /\ v.used = row.take
      /\ u \in NativeTurns(A) /\ u.why = "done" /\ u.m = a.m /\ u.carry = carry /\ u.left = a.left
      /\ u.at = w.at /\ u.used = row.take
  BY <1>1, <1>2, <1>6 DEF Turns, NativeTurns
<1> HIDE DEF v, u
<1>8. Even(v, u)
  BY <1>7 DEF Even
<1> QED
  BY <1>2, <1>7, <1>8, ThensAgree

(* A sweep or a delay that has counted to its end.                         *)
LEMMA CountedAgrees ==
    ASSUME NEW A, NEW obj, IsCursor(A, obj), NEW cols \in Columns(obj), NEW ops,
           NEW row, IsRow(obj, row), ~BadRow(obj, row), row.kind \in {"sweep", "delay"},
           NEW w, NEW c, BothGoing(A, w, c), w.left = xf(row.count, cols)
    PROVE  Agree(A, Act(obj, ops, w, row, cols), native_act(obj, ops, c, row, cols))
<1> DEFINE one == 1
           zero == 0
           v == [w EXCEPT !.left = zero, !.carry = one, !.used = obj.width]
           u == [[c EXCEPT !.why = "done"] EXCEPT !.left = zero, !.carry = one, !.used = obj.width]
<1>1. /\ w \in Turns(A) /\ w.ok
      /\ c \in NativeTurns(A) /\ c.m = w.m /\ c.left = w.left /\ c.at = w.at
  BY DEF BothGoing, Even
<1>2. Taken(obj, row.then) /\ obj.width \in Int
  BY RowTaken DEF IsCursor
<1>3. Act(obj, ops, w, row, cols) = Thens(obj, v, cols, row.then)
  BY DEF Act, Thens
<1>4. native_act(obj, ops, c, row, cols) = NativeThens(obj, u, cols, row.then)
  BY <1>1 DEF native_act, NativeThens
<1> SUFFICES Agree(A, Thens(obj, v, cols, row.then), NativeThens(obj, u, cols, row.then))
  BY <1>3, <1>4
<1>5. one \in Int /\ zero \in Bytes
  BY ByteAssumption DEF Bytes
<1> HIDE DEF one, zero
<1>6. /\ v \in Turns(A) /\ v.ok /\ v.m = w.m /\ v.carry = one /\ v.left = zero /\ v.at = w.at /\ v.used = obj.width
      /\ u \in NativeTurns(A) /\ u.why = "done" /\ u.m = w.m /\ u.carry = one /\ u.left = zero
      /\ u.at = w.at /\ u.used = obj.width
  BY <1>1, <1>2, <1>5 DEF Turns, NativeTurns
<1> HIDE DEF v, u
<1>7. Even(v, u)
  BY <1>6 DEF Even
<1> QED
  BY <1>2, <1>6, <1>7, ThensAgree

(* A sweep or a delay that goes on counting.                               *)
LEMMA CountingAgrees ==
    ASSUME NEW A, NEW obj, IsCursor(A, obj), NEW cols \in Columns(obj), NEW ops,
           NEW row, IsRow(obj, row), ~BadRow(obj, row), row.kind \in {"sweep", "delay"},
           NEW w, NEW c, BothGoing(A, w, c), w.left # xf(row.count, cols)
    PROVE  Agree(A, Act(obj, ops, w, row, cols), native_act(obj, ops, c, row, cols))
<1> DEFINE loc == obj.values[row.into]
           cell == IF row.part = 0 THEN loc ELSE <<loc[row.part]>>
           by == to_signed(xf(row.step, cols))
           s == IF row.kind = "sweep" THEN sweep(w.m, cell, row.frac, by) ELSE Stepped(w.m, 0)
           m == s.m
           carry == s.flag
           left == (w.left + 1) % Byte
           p == Act(obj, ops, w, row, cols)
           q == native_act(obj, ops, c, row, cols)
<1> SUFFICES Agree(A, p, q)
  OBVIOUS
<1>1. /\ w \in Turns(A) /\ w.ok /\ w.m \in [A -> Bytes] /\ w.left \in Bytes /\ w.used = 0
      /\ c \in NativeTurns(A) /\ c.m = w.m /\ c.left = w.left /\ c.at = w.at /\ c.used = 0
  BY DEF BothGoing, Even, Turns
<1>2. left \in Bytes
  <2>1. w.left + 1 \in Int
    BY <1>1 DEF Bytes
  <2> QED
    BY <2>1, ByteRange
<1>3. Swept(A, s) /\ (row.kind = "sweep" => native_sweep(w.m, cell, row.frac, by) = s)
  <2>1. CASE row.kind = "sweep"
    <3>1. /\ row.into \in Nat \ {0} /\ row.into <= Len(obj.values) /\ row.frac \in 0..Byte
          /\ row.part \in 0..2
          /\ row.frac > 0 => (Len(loc) # 1 /\ row.part = 0)
          /\ row.part = 2 => Len(loc) # 1
      BY <2>1 DEF IsRow, FracFits, BadRow
    <3>2. IsCell(A, loc)
      BY <3>1 DEF IsCursor, Listed
    <3>3. Len(loc) \in {1, 2} /\ loc[1] \in A /\ (Len(loc) = 2 => loc[2] \in A)
      BY <3>2, CellParts
    <3> HIDE DEF loc
    <3>4. IsCell(A, cell) /\ (row.frac > 0 => Len(cell) = 2)
      <4>1. CASE row.part = 0
        BY <3>1, <3>2, <3>3, <4>1
      <4>2. CASE row.part # 0
        <5>1. loc[row.part] \in A /\ ~(row.frac > 0)
          BY <3>1, <3>3, <4>2
        <5>2. cell = <<loc[row.part]>>
          BY <4>2
        <5> DEFINE e == loc[row.part]
        <5> HIDE DEF e
        <5>3. <<e>> \in Seq(A) /\ Len(<<e>>) = 1
          BY <5>1 DEF e
        <5> QED
          BY <5>1, <5>2, <5>3 DEF IsCell, e
      <4> QED
        BY <4>1, <4>2
    <3>5. by \in Int
      <4>1. xf(row.step, cols) \in Int
        BY <2>1, XfType DEF IsRow, IsCursor, Listed, Bytes
      <4> QED
        BY <4>1, ByteAssumption DEF to_signed
    <3>6. s = sweep(w.m, cell, row.frac, by)
      BY <2>1
    <3> HIDE DEF s, cell, by
    <3> QED
      BY <1>1, <3>1, <3>4, <3>5, <3>6, SweepsAgree
  <2>2. CASE row.kind = "delay"
    BY <1>1, <2>2 DEF Swept, Stepped
  <2> QED
    BY <2>1, <2>2
<1>4. m \in [A -> Bytes] /\ carry \in Int
  <2> HIDE DEF s
  <2> QED
    BY <1>3 DEF Swept
<1>5. p = [[w EXCEPT !.m = m, !.carry = carry, !.left = left, !.used = 0] EXCEPT !.over = TRUE]
  <2>1. CASE row.kind = "sweep"
    <3>1. p = [[w EXCEPT !.m = s.m, !.carry = s.flag, !.left = (@ + 1) % Byte, !.used = 0] EXCEPT !.over = TRUE]
      BY <2>1 DEF Act
    <3> HIDE DEF s, p
    <3> QED
      BY <1>1, <3>1 DEF Turns
  <2>2. CASE row.kind = "delay"
    <3>1. p = [[w EXCEPT !.carry = 0, !.left = (@ + 1) % Byte, !.used = 0] EXCEPT !.over = TRUE]
      BY <2>2 DEF Act
    <3>2. m = w.m /\ carry = 0
      BY <2>2 DEF Stepped
    <3> HIDE DEF m, carry, p
    <3> QED
      BY <1>1, <3>1, <3>2 DEF Turns
  <2> QED
    BY <2>1, <2>2
<1>6. q = [[c EXCEPT !.why = "done"] EXCEPT !.left = left, !.m = m, !.carry = carry]
  <2>1. CASE row.kind = "sweep"
    <3>1. q = [[c EXCEPT !.why = "done"] EXCEPT !.left = (@ + 1) % Byte, !.m = s.m, !.carry = s.flag]
      BY <1>1, <1>3, <2>1 DEF native_act
    <3> HIDE DEF s, q
    <3> QED
      BY <1>1, <3>1 DEF NativeTurns
  <2>2. CASE row.kind = "delay"
    <3>1. q = [[c EXCEPT !.why = "done"] EXCEPT !.left = (@ + 1) % Byte, !.carry = 0]
      BY <1>1, <2>2 DEF native_act
    <3>2. m = w.m /\ carry = 0
      BY <2>2 DEF Stepped
    <3> HIDE DEF m, carry, q
    <3> QED
      BY <1>1, <3>1, <3>2 DEF NativeTurns
  <2> QED
    BY <2>1, <2>2
<1> HIDE DEF p, q, m, carry, left
<1>7. /\ p \in Turns(A) /\ p.ok /\ p.over /\ p.m = m /\ p.carry = carry /\ p.left = left /\ p.at = w.at
      /\ p.used = 0
  BY <1>1, <1>2, <1>4, <1>5 DEF Turns
<1>8. /\ q \in NativeTurns(A) /\ q.why = "done" /\ q.m = m /\ q.carry = carry /\ q.left = left
      /\ q.at = w.at /\ q.used = 0
  BY <1>1, <1>2, <1>4, <1>6 DEF NativeTurns
<1> QED
  BY <1>7, <1>8, BothEnd DEF Even

(* A row that starts a run: its assignments read bytes of 0.               *)
LEMMA RunAgrees ==
    ASSUME NEW A, NEW obj, IsCursor(A, obj), NEW cols \in Columns(obj), NEW ops,
           Len(obj.tabs) \in Nat \ {0},
           NEW row, IsRow(obj, row), ~BadRow(obj, row), row.kind = "run", NEW w, NEW c, BothGoing(A, w, c)
    PROVE  Agree(A, Act(obj, ops, w, row, cols), native_act(obj, ops, c, row, cols))
<1> DEFINE one == 1
           zero == 0
           zeros == [j \in DOMAIN obj.tabs |-> 0]
           started == Put(w.m, obj.run[1], (cols[1] - row.base) % Byte)
           a == assign(obj, started, zeros, row.sets, w.left)
           p == Act(obj, ops, w, row, cols)
           q == native_act(obj, ops, c, row, cols)
<1> SUFFICES Agree(A, p, q)
  OBVIOUS
<1>1. /\ w \in Turns(A) /\ w.ok /\ w.m \in [A -> Bytes] /\ w.left \in Bytes
      /\ c \in NativeTurns(A) /\ c.m = w.m /\ c.left = w.left /\ c.at = w.at
  BY DEF BothGoing, Even, Turns
<1>2. zeros \in Columns(obj) /\ DOMAIN cols = DOMAIN obj.tabs
  BY ByteAssumption DEF IsCursor, Listed, Columns, Bytes
<1>3. started \in [A -> Bytes]
  <2> DEFINE n == cols[1] - row.base
  <2>1. cols[1] \in Int /\ row.base \in Int
    BY DEF Columns, IsRow, Bytes
  <2>2. n \in Int
    BY <2>1
  <2> HIDE DEF n
  <2>3. n % Byte \in Bytes
    BY <2>2, ByteRange
  <2>4. Put(w.m, obj.run[1], n % Byte) \in [A -> Bytes]
    BY <1>1, <2>3, PutType
  <2> QED
    BY <2>4 DEF n
<1>4. a \in Held(A) /\ native_assign(obj, started, zeros, row.sets, w.left) = a
  <2>1. Taken(obj, row.sets)
    BY RowTaken
  <2> HIDE DEF zeros, started
  <2> QED
    BY <1>1, <1>2, <1>3, <2>1, AssignsAgree
<1>5. p = [[w EXCEPT !.m = a.m, !.left = a.left, !.carry = zero, !.used = one] EXCEPT !.over = TRUE]
  <2>1. p = LET b == assign(obj, started, [j \in DOMAIN cols |-> 0], row.sets, w.left)
            IN  [[w EXCEPT !.m = b.m, !.left = b.left, !.carry = zero, !.used = one] EXCEPT !.over = TRUE]
    BY DEF Act
  <2> HIDE DEF p, started
  <2> QED
    BY <1>2, <2>1
<1>6. q = [[[c EXCEPT !.why = "done"] EXCEPT !.m = started, !.carry = zero, !.used = one]
             EXCEPT !.m = a.m, !.left = a.left]
  <2> DEFINE d == [[c EXCEPT !.why = "done"]
                      EXCEPT !.m = Put(@, obj.run[1], (cols[1] - row.base) % Byte), !.carry = zero, !.used = one]
             b == native_assign(obj, d.m, zeros, row.sets, d.left)
  <2>1. q = [d EXCEPT !.m = b.m, !.left = b.left]
    BY DEF native_act
  <2>2. d = [[c EXCEPT !.why = "done"] EXCEPT !.m = started, !.carry = zero, !.used = one]
    BY <1>1 DEF NativeTurns
  <2> HIDE DEF zeros, started, q, d, one, zero
  <2>3. d.m = started /\ d.left = w.left
    BY <1>1, <2>2 DEF NativeTurns
  <2>4. b = a
    BY <1>4, <2>3
  <2> HIDE DEF a, b
  <2> QED
    BY <2>1, <2>2, <2>4
<1> HIDE DEF p, q, started, one, zero
<1>7. a.m \in [A -> Bytes] /\ a.left \in Bytes
  BY <1>4 DEF Held
<1>0. one \in Int /\ zero \in Int
  BY DEF one, zero
<1> HIDE DEF a
<1>8. /\ p \in Turns(A) /\ p.ok /\ p.over /\ p.m = a.m /\ p.carry = zero /\ p.left = a.left /\ p.at = w.at
      /\ p.used = one
  BY <1>0, <1>1, <1>5, <1>7 DEF Turns
<1>9. /\ q \in NativeTurns(A) /\ q.why = "done" /\ q.m = a.m /\ q.carry = zero /\ q.left = a.left
      /\ q.at = w.at /\ q.used = one
  BY <1>0, <1>1, <1>3, <1>6, <1>7 DEF NativeTurns
<1> QED
  BY <1>8, <1>9, BothEnd DEF Even

-----------------------------------------------------------------------------
(* A turn decodes the same row and does the same with it.                  *)

(* Some number of a set of numbers is the least.                           *)
LEMMA Least ==
    ASSUME NEW S \in SUBSET Nat, S # {}
    PROVE  \E n \in S : \A k \in S : n <= k
<1> DEFINE less == OpToRel(<, Nat)
<1>1. \E n \in S : \A k \in S : <<k, n>> \notin less
  <2>1. IsWellFoundedOn(less, Nat)
    BY NatLessThanWellFounded, Zenon
  <2> HIDE DEF less
  <2> QED
    BY <2>1, WFMin
<1>2. PICK n \in S : \A k \in S : ~(k < n)
  BY <1>1 DEF OpToRel
<1> QED
  BY <1>2

(* The rows that match, and what Python decodes of them.                   *)
Matching(obj, first, cols) ==
    {n \in DOMAIN obj.rows : /\ first \in obj.rows[n].from..obj.rows[n].to
                             /\ \A i \in DOMAIN obj.rows[n].tests : passes(obj.rows[n].tests[i], cols)}
Lowest(S) == CHOOSE n \in S : \A k \in S : n <= k

LEMMA LowestIn == ASSUME NEW S \in SUBSET Nat, S # {} PROVE Lowest(S) \in S
  BY Least DEF Lowest

LEMMA RowDecoded ==
    ASSUME NEW A, NEW obj, IsCursor(A, obj), NEW cols, NEW first \in Int
    PROVE  Row_(obj, first, cols) =
             IF Matching(obj, first, cols) = {} THEN [kind |-> "stop"]
             ELSE obj.rows[Lowest(Matching(obj, first, cols))]
<1> DEFINE S == Matching(obj, first, cols)
           I == {n \in 1..Len(obj.rows) :
                   /\ obj.rows[n].from <= first /\ first <= obj.rows[n].to
                   /\ \A i \in DOMAIN obj.rows[n].tests : passes(obj.rows[n].tests[i], cols)}
<1>1. DOMAIN obj.rows = 1..Len(obj.rows) /\ Len(obj.rows) \in Nat
      /\ \A n \in 1..Len(obj.rows) : obj.rows[n].from \in Int /\ obj.rows[n].to \in Int
  BY DEF IsCursor, Listed, IsRow
<1>2. I = S
  BY <1>1 DEF Matching
<1>3. Row_(obj, first, cols) = LET n == IF I # {} THEN Min(I) ELSE 0
                               IN  IF n = 0 THEN [kind |-> "stop"] ELSE obj.rows[n]
  BY DEF Row_, SelectInSeq
<1>4. Min(I) = Lowest(I)
  BY DEF Min, Lowest
<1>5. S \in SUBSET (1..Len(obj.rows))
  BY <1>1 DEF Matching
<1> HIDE DEF S, I
<1>6. ASSUME S # {} PROVE Lowest(S) \in S /\ Lowest(S) # 0
  <2>1. Lowest(S) \in S
    BY <1>1, <1>5, <1>6, LowestIn
  <2> QED
    BY <1>5, <2>1
<1>7. CASE S = {}
  BY <1>2, <1>3, <1>7 DEF S
<1>8. CASE S # {}
  BY <1>2, <1>3, <1>4, <1>6, <1>8 DEF S
<1> QED
  BY <1>7, <1>8

LEMMA ActAgrees ==
    ASSUME NEW A, NEW obj, IsCursor(A, obj), NEW cols \in Columns(obj), NEW ops,
           Len(obj.tabs) \in Nat \ {0},
           NEW row, IsRow(obj, row), ~BadRow(obj, row), NEW w, NEW c, BothGoing(A, w, c)
    PROVE  Agree(A, Act(obj, ops, w, row, cols), native_act(obj, ops, c, row, cols))
<1>1. row.kind \in {"stop", "jump", "call", "return", "sweep", "delay", "set", "end", "run"}
  BY DEF IsRow
<1>2. CASE row.kind = "stop"
  BY <1>2, StopAgrees
<1>3. CASE row.kind = "jump"
  BY <1>3, JumpAgrees
<1>4. CASE row.kind \in {"call", "return"}
  BY <1>4, CallAgrees
<1>5. CASE row.kind \in {"sweep", "delay"} /\ w.left = xf(row.count, cols)
  BY <1>5, CountedAgrees
<1>6. CASE row.kind \in {"sweep", "delay"} /\ w.left # xf(row.count, cols)
  BY <1>6, CountingAgrees
<1>7. CASE row.kind = "set"
  BY <1>7, SetAgrees
<1>8. CASE row.kind = "end"
  BY <1>8, EndAgrees
<1>9. CASE row.kind = "run"
  BY <1>9, RunAgrees
<1> QED
  BY <1>1, <1>2, <1>3, <1>4, <1>5, <1>6, <1>7, <1>8, <1>9

(* What a column holds is a byte.                                          *)
LEMMA FetchType ==
    ASSUME NEW A, NEW obj, IsCursor(A, obj), NEW m \in [A -> Bytes], NEW j \in 1..Len(obj.tabs),
           NEW addr \in Int, ~Past(obj, j, addr)
    PROVE  fetch(obj, m, j, addr) \in Bytes
<1> DEFINE at == addr % Address
<1>1. at \in 0..(Address - 1)
  <2> DEFINE room == Address
  <2>1. room \in Nat /\ room > 0
    BY ByteAssumption DEF Address
  <2> HIDE DEF room
  <2>2. addr % room \in 0..(room - 1)
    BY <2>1, Remainder
  <2> QED
    BY <2>2 DEF room
<1>2. 0..(Address - 1) \subseteq A /\ obj.tabs[j] \in Seq(Bytes)
  BY DEF IsCursor
<1>3. CASE obj.tabs[j] = <<>>
  <2>1. fetch(obj, m, j, addr) = m[at]
    BY <1>3 DEF fetch
  <2> HIDE DEF at
  <2> QED
    BY <1>1, <1>2, <2>1
<1>4. CASE obj.tabs[j] # <<>>
  <2>1. fetch(obj, m, j, addr) = obj.tabs[j][at + 1] /\ ~(at >= Len(obj.tabs[j]))
    BY <1>4 DEF fetch, Past
  <2> HIDE DEF at
  <2>2. at \in Nat /\ Len(obj.tabs[j]) \in Nat
    BY <1>1, <1>2
  <2>3. at + 1 \in 1..Len(obj.tabs[j])
    BY <2>1, <2>2
  <2> QED
    BY <1>2, <2>1, <2>3
<1> QED
  BY <1>3, <1>4

(* The addresses the columns of a cursor are read from.                    *)
Addressed(obj, ops) == \A j \in 1..Len(obj.tabs) : ops[j] \in Int

LEMMA TurnAgrees ==
    ASSUME NEW A, NEW obj, IsCursor(A, obj), NEW operands, Parses(obj, operands),
           NEW ops, Addressed(obj, ops), NEW w, NEW c, BothGoing(A, w, c)
    PROVE  Agree(A, Turn(obj, ops, w), native_turn(obj, ops, c))
<1> DEFINE past == \E j \in 1..Len(obj.tabs) : Past(obj, j, ops[j] + w.at)
           cols == [j \in 1..Len(obj.tabs) |-> fetch(obj, w.m, j, ops[j] + w.at)]
           first == IF w.via = <<>> THEN cols[1] ELSE w.via[1]
           S == Matching(obj, first, cols)
           p == Turn(obj, ops, w)
           q == native_turn(obj, ops, c)
<1> SUFFICES Agree(A, p, q)
  OBVIOUS
<1>1. /\ w \in Turns(A) /\ w.ok /\ ~w.over /\ w.at \in Int /\ w.m \in [A -> Bytes] /\ w.via \in Seq(Nat)
      /\ c \in NativeTurns(A) /\ c.m = w.m /\ c.at = w.at /\ c.via = w.via
  BY DEF BothGoing, Even, Turns
<1>2. Len(obj.tabs) \in Nat \ {0} /\ DOMAIN obj.tabs = 1..Len(obj.tabs)
  BY ColumnsAssumption DEF Parses, IsCursor, Listed
<1>3. CASE past
  <2>1. p = [w EXCEPT !.ok = FALSE]
    BY <1>3 DEF Turn
  <2>2. q = [c EXCEPT !.why = "bail"]
    BY <1>1, <1>2, <1>3 DEF native_turn
  <2> HIDE DEF p, q
  <2> QED
    BY <1>1, <2>1, <2>2 DEF Turns, NativeTurns, Agree, Failed
<1>4. CASE ~past
  <2>1. cols \in Columns(obj)
    <3>1. ASSUME NEW j \in 1..Len(obj.tabs) PROVE fetch(obj, w.m, j, ops[j] + w.at) \in Bytes
      <4> DEFINE addr == ops[j] + w.at
      <4>1. ops[j] \in Int /\ w.at \in Int
        BY <1>1 DEF Addressed
      <4>2. addr \in Int /\ ~Past(obj, j, addr)
        BY <1>4, <4>1
      <4> HIDE DEF addr
      <4>3. fetch(obj, w.m, j, addr) \in Bytes
        BY <1>1, <4>2, FetchType
      <4> QED
        BY <4>3 DEF addr
    <3> QED
      BY <3>1 DEF Columns
  <2>2. p = Act(obj, ops, w, Row_(obj, first, cols), cols)
    BY <1>4 DEF Turn
  <2>3. q = IF S = {} THEN [c EXCEPT !.carry = 1, !.why = "done"]
            ELSE native_act(obj, ops, c, obj.rows[Lowest(S)], cols)
    BY <1>1, <1>2, <1>4 DEF native_turn, Matching, Lowest
  <2> HIDE DEF p, q, cols
  <2>4. first \in Int
    <3>1. CASE w.via = <<>>
      BY <1>2, <2>1, <3>1 DEF Columns, Bytes
    <3>2. CASE w.via # <<>>
      <4>1. Len(w.via) \in Nat /\ Len(w.via) # 0
        BY <1>1, <3>2, EmptySeq
      <4>2. w.via[1] \in Int
        BY <1>1, <4>1
      <4> QED
        BY <3>2, <4>2
    <3> QED
      BY <3>1, <3>2
  <2> HIDE DEF first
  <2>5. Row_(obj, first, cols) = IF S = {} THEN [kind |-> "stop"] ELSE obj.rows[Lowest(S)]
    BY <2>4, RowDecoded
  <2>6. CASE S = {}
    <3> DEFINE row == [kind |-> "stop"]
    <3>1. row.kind = "stop"
      OBVIOUS
    <3>2. p = Act(obj, ops, w, row, cols)
      BY <2>2, <2>5, <2>6
    <3>3. q = native_act(obj, ops, c, row, cols)
      <4>1. native_act(obj, ops, c, row, cols) = [[c EXCEPT !.why = "done"] EXCEPT !.carry = 1]
        BY DEF native_act
      <4>2. q = [c EXCEPT !.carry = 1, !.why = "done"]
        BY <2>3, <2>6
      <4> HIDE DEF q
      <4> QED
        BY <1>1, <4>1, <4>2 DEF NativeTurns
    <3> HIDE DEF row
    <3> QED
      BY <3>1, <3>2, <3>3, StopAgrees
  <2>7. CASE S # {}
    <3> DEFINE row == obj.rows[Lowest(S)]
    <3>1. S \in SUBSET Nat /\ S \subseteq 1..Len(obj.rows)
      BY DEF Matching, IsCursor, Listed
    <3> HIDE DEF S
    <3>2. Lowest(S) \in 1..Len(obj.rows)
      BY <2>7, <3>1, LowestIn
    <3>3. IsRow(obj, row) /\ ~BadRow(obj, row)
      BY <3>2 DEF IsCursor, Listed, Parses
    <3>4. p = Act(obj, ops, w, row, cols) /\ q = native_act(obj, ops, c, row, cols)
      BY <2>2, <2>3, <2>5, <2>7
    <3> HIDE DEF row
    <3> QED
      BY <1>2, <2>1, <3>3, <3>4, ActAgrees
  <2> QED
    BY <2>6, <2>7
<1> QED
  BY <1>3, <1>4

(* And so do the turns after those that did not end a step.                *)
LEMMA NextAgrees ==
    ASSUME NEW A, NEW obj, IsCursor(A, obj), NEW operands, Parses(obj, operands),
           NEW ops, Addressed(obj, ops), NEW w, NEW c, Agree(A, w, c)
    PROVE  Agree(A, NextTurn(obj, ops, w), native_next(obj, ops, c))
<1>1. CASE BothGoing(A, w, c)
  <2>1. NextTurn(obj, ops, w) = Turn(obj, ops, w) /\ native_next(obj, ops, c) = native_turn(obj, ops, c)
    BY <1>1 DEF NextTurn, native_next, BothGoing
  <2> QED
    BY <1>1, <2>1, TurnAgrees
<1>2. CASE ~BothGoing(A, w, c)
  <2>1. (w.over \/ ~w.ok) /\ c.why # ""
    BY <1>2 DEF Agree, Over, Failed
  <2> QED
    BY <2>1 DEF NextTurn, native_next
<1> QED
  BY <1>1, <1>2

-----------------------------------------------------------------------------
(* A step, however many turns it takes.                                    *)

StartLeft(obj, m) == IF obj.cnt = <<>> THEN 0 ELSE m[obj.cnt[1]]
Pending(obj, m) == IF obj.run = <<>> THEN 0 ELSE m[obj.run[1]]

LEMMA BeginAgrees ==
    ASSUME NEW A, NEW m \in [A -> Bytes], NEW obj, IsCursor(A, obj)
    PROVE  Agree(A, Walking(obj, m, StartLeft(obj, m)), native_begin(obj, m, StartLeft(obj, m)))
<1> DEFINE left == StartLeft(obj, m)
           sum == Load(m, obj.pos) + Flag(obj.adv = "pre")
           at == sum % Room(obj.pos)
<1>1. left \in Bytes
  <2>1. 0 \in Bytes
    BY ByteAssumption DEF Bytes
  <2>2. obj.cnt = <<>> \/ m[obj.cnt[1]] \in Bytes
    BY CellParts DEF IsCursor, Optional
  <2> QED
    BY <2>1, <2>2 DEF StartLeft
<1>2. at \in Int
  <2>1. sum \in Int
    BY LoadType, FlagType DEF IsCursor
  <2> HIDE DEF sum
  <2> QED
    BY <2>1, PlaceType
<1> DEFINE zero == 0
           no == FALSE
           yes == TRUE
           on == ""
           none == <<>>
           w == Walking(obj, m, left)
           c == native_begin(obj, m, left)
<1>3. /\ w = [m |-> m, via |-> none, jumped |-> no, carry |-> zero, left |-> left,
              at |-> at, used |-> zero, over |-> no, ok |-> yes]
      /\ c = [m |-> m, at |-> at, via |-> none, jumped |-> no, carry |-> zero,
              left |-> left, used |-> zero, why |-> on]
  BY DEF Walking, native_begin
<1>4. zero \in Int /\ zero = 0 /\ none \in Seq(Nat) /\ no \in BOOLEAN /\ ~no /\ yes \in BOOLEAN /\ yes
      /\ on = "" /\ on \in {"", "done", "bail"}
  OBVIOUS
<1> HIDE DEF left, at, zero, no, yes, none, on, w, c
<1>5. /\ w \in Turns(A) /\ w.m = m /\ w.via = none /\ w.jumped = no /\ w.carry = zero /\ w.left = left
      /\ w.at = at /\ w.used = zero /\ w.ok = yes /\ w.over = no
  BY <1>1, <1>2, <1>3, <1>4 DEF Turns
<1>6. /\ c \in NativeTurns(A) /\ c.m = m /\ c.via = none /\ c.jumped = no /\ c.carry = zero /\ c.left = left
      /\ c.at = at /\ c.used = zero /\ c.why = on
  BY <1>1, <1>2, <1>3, <1>4 DEF NativeTurns
<1>7. BothGoing(A, w, c)
  BY <1>4, <1>5, <1>6 DEF BothGoing, Even
<1> QED
  BY <1>7 DEF Agree, left, w, c

(* The turns of a step in Python and in the core, as the two recur.        *)
Turning(f, obj, m, ops) ==
    f = [n \in 0..JUMPS |-> IF n = 0 THEN Walking(obj, m, StartLeft(obj, m))
                            ELSE NextTurn(obj, ops, f[n - 1])]
NativeTurning(f, obj, m, ops) ==
    f = [n \in 0..JUMPS |-> IF n = 0 THEN native_begin(obj, m, StartLeft(obj, m))
                            ELSE native_next(obj, ops, f[n - 1])]

LEMMA TurningsExist ==
    ASSUME NEW A, NEW m \in [A -> Bytes], NEW obj, IsCursor(A, obj), NEW operands, Parses(obj, operands),
           NEW ops, Addressed(obj, ops)
    PROVE  (\E f : Turning(f, obj, m, ops)) /\ (\E f : NativeTurning(f, obj, m, ops))
<1> DEFINE T == {x \in Turns(A) \X NativeTurns(A) : Agree(A, x[1], x[2])}
           base == <<Walking(obj, m, StartLeft(obj, m)), native_begin(obj, m, StartLeft(obj, m))>>
           step == [k \in 1..JUMPS |-> [x \in T |-> <<NextTurn(obj, ops, x[1]), native_next(obj, ops, x[2])>>]]
<1>1. \A w, c : Agree(A, w, c) => <<w, c>> \in T
  BY DEF Agree, BothGoing
<1>2. base \in T
  BY <1>1, BeginAgrees
<1>3. step \in [1..JUMPS -> [T -> T]]
  <2>1. ASSUME NEW x \in T PROVE <<NextTurn(obj, ops, x[1]), native_next(obj, ops, x[2])>> \in T
    <3>1. Agree(A, x[1], x[2])
      OBVIOUS
    <3>2. Agree(A, NextTurn(obj, ops, x[1]), native_next(obj, ops, x[2]))
      BY <3>1, NextAgrees
    <3> HIDE DEF T
    <3> QED
      BY <1>1, <3>2
  <2> HIDE DEF T
  <2> QED
    BY <2>1
<1>4. JUMPS \in Nat
  BY JumpsAssumption
<1>5. PICK f \in [0..JUMPS -> T] : f[0] = base /\ \A k \in 1..JUMPS : f[k] = step[k][f[k - 1]]
  <2> HIDE DEF T, base, step
  <2>1. Recurs(JUMPS, T, base, step)
    BY <1>2, <1>3, <1>4, Recursion
  <2> QED
    BY <2>1 DEF Recurs
<1>6. ASSUME NEW k \in 1..JUMPS
      PROVE  f[k] = <<NextTurn(obj, ops, f[k - 1][1]), native_next(obj, ops, f[k - 1][2])>>
  <2>1. f[k - 1] \in T
    BY <1>4
  <2> HIDE DEF T
  <2> QED
    BY <1>5, <2>1
<1> HIDE DEF T, step
<1> DEFINE py == [n \in 0..JUMPS |-> f[n][1]]
           core == [n \in 0..JUMPS |-> f[n][2]]
<1>7. Turning(py, obj, m, ops)
  <2>1. ASSUME NEW n \in 0..JUMPS
        PROVE  f[n][1] = IF n = 0 THEN Walking(obj, m, StartLeft(obj, m)) ELSE NextTurn(obj, ops, py[n - 1])
    BY <1>4, <1>5, <1>6
  <2> QED
    BY <2>1 DEF Turning
<1>8. NativeTurning(core, obj, m, ops)
  <2>1. ASSUME NEW n \in 0..JUMPS
        PROVE  f[n][2] = IF n = 0 THEN native_begin(obj, m, StartLeft(obj, m)) ELSE native_next(obj, ops, core[n - 1])
    BY <1>4, <1>5, <1>6
  <2> QED
    BY <2>1 DEF NativeTurning
<1> QED
  BY <1>7, <1>8

(* What both leave at the end of a step.                                   *)
SameEnd(A, py, core) ==
    /\ core.ok = py.ok
    /\ py.ok => core = py /\ py.m \in [A -> Bytes]

LEMMA EndsAgree ==
    ASSUME NEW A, NEW obj, IsCursor(A, obj), NEW w, NEW c, Agree(A, w, c)
    PROVE  SameEnd(A, Walked(obj, w), native_done(obj, c))
<1>1. CASE Over(w, c) /\ w \in Turns(A)
  <2> DEFINE sum == w.at + w.used - Flag(obj.adv # "post")
             moved == Store(w.m, obj.pos, sum % Room(obj.pos))
             after == IF obj.cnt = <<>> THEN moved ELSE Put(moved, obj.cnt[1], w.left)
  <2>1. w.m \in [A -> Bytes] /\ w.at \in Int /\ w.used \in Int /\ w.left \in Bytes
        /\ c.m = w.m /\ c.at = w.at /\ c.used = w.used /\ c.left = w.left /\ c.carry = w.carry
        /\ w.over /\ c.why = "done"
    BY <1>1 DEF Over, Even, Turns
  <2>2. Walked(obj, w) = Stepped(after, w.carry)
    BY <2>1 DEF Walked
  <2>3. native_done(obj, c) = Stepped(after, w.carry)
    BY <2>1 DEF native_done, native_saved
  <2>4. sum \in Int
    <3>1. Flag(obj.adv # "post") \in Int
      BY FlagType
    <3> QED
      BY <2>1, <3>1
  <2> HIDE DEF sum
  <2>5. moved \in [A -> Bytes]
    <3>1. sum % Room(obj.pos) \in Int
      BY <2>4, PlaceType
    <3> QED
      BY <2>1, <3>1, StoreType
  <2> HIDE DEF moved
  <2>6. after \in [A -> Bytes]
    BY <2>1, <2>5, PutType
  <2> HIDE DEF after
  <2>7. Stepped(after, w.carry).ok = TRUE /\ Stepped(after, w.carry).m = after
    BY DEF Stepped
  <2> QED
    BY <2>2, <2>3, <2>6, <2>7 DEF SameEnd
<1>2. CASE ~(Over(w, c) /\ w \in Turns(A))
  <2>1. ~w.over /\ c.why # "done"
    BY <1>2 DEF Agree, BothGoing, Failed
  <2>2. Walked(obj, w) = Raised(w.m) /\ native_done(obj, c) = Raised(c.m)
    BY <2>1 DEF Walked, native_done
  <2>3. Raised(w.m).ok = FALSE /\ Raised(c.m).ok = FALSE
    BY DEF Raised
  <2> QED
    BY <2>2, <2>3 DEF SameEnd
<1> QED
  BY <1>1, <1>2

LEMMA TurningsAgree ==
    ASSUME NEW A, NEW m \in [A -> Bytes], NEW obj, IsCursor(A, obj), NEW operands, Parses(obj, operands),
           NEW ops, Addressed(obj, ops),
           NEW py, Turning(py, obj, m, ops), NEW core, NativeTurning(core, obj, m, ops)
    PROVE  \A n \in 0..JUMPS : Agree(A, py[n], core[n])
<1> DEFINE S == {k \in Nat : k <= JUMPS => Agree(A, py[k], core[k])}
<1>1. JUMPS \in Nat
  BY JumpsAssumption
<1>2. 0 \in S
  <2>1. py[0] = Walking(obj, m, StartLeft(obj, m)) /\ core[0] = native_begin(obj, m, StartLeft(obj, m))
    BY <1>1 DEF Turning, NativeTurning
  <2> QED
    BY <2>1, BeginAgrees
<1>3. ASSUME NEW k \in S PROVE k + 1 \in S
  <2> SUFFICES ASSUME k + 1 <= JUMPS PROVE Agree(A, py[k + 1], core[k + 1])
    OBVIOUS
  <2>1. Agree(A, py[k], core[k]) /\ k + 1 \in 0..JUMPS /\ k + 1 # 0 /\ (k + 1) - 1 = k
    BY <1>1
  <2>2. py[k + 1] = NextTurn(obj, ops, py[k]) /\ core[k + 1] = native_next(obj, ops, core[k])
    BY <2>1 DEF Turning, NativeTurning
  <2> QED
    BY <2>1, <2>2, NextAgrees
<1> HIDE DEF S
<1>4. \A n \in Nat : n \in S
  BY <1>2, <1>3, Induction DEF S
<1> QED
  BY <1>1, <1>4 DEF S

LEMMA StepsAgree ==
    ASSUME NEW A, NEW m \in [A -> Bytes], NEW obj, IsCursor(A, obj), NEW operands, Parses(obj, operands),
           NEW ops, Addressed(obj, ops), Pending(obj, m) = 0
    PROVE  SameEnd(A, walk(obj, m, ops), native_cursor(obj, 0, m, ops))
<1> DEFINE py[n \in 0..JUMPS] ==
             IF n = 0 THEN Walking(obj, m, StartLeft(obj, m)) ELSE NextTurn(obj, ops, py[n - 1])
           core[n \in 0..JUMPS] ==
             IF n = 0 THEN native_begin(obj, m, StartLeft(obj, m)) ELSE native_next(obj, ops, core[n - 1])
<1>1. Turning(py, obj, m, ops)
  <2>1. \E f : Turning(f, obj, m, ops)
    BY TurningsExist
  <2> QED
    BY <2>1 DEF Turning
<1>2. NativeTurning(core, obj, m, ops)
  <2>1. \E f : NativeTurning(f, obj, m, ops)
    BY TurningsExist
  <2> QED
    BY <2>1 DEF NativeTurning
<1>3. walk(obj, m, ops) = Walked(obj, py[JUMPS])
  BY DEF walk, Pending, StartLeft
<1>4. native_cursor(obj, 0, m, ops) = native_done(obj, core[JUMPS])
  BY DEF native_cursor, Pending, StartLeft
<1> HIDE DEF py, core
<1>5. Agree(A, py[JUMPS], core[JUMPS])
  <2>1. JUMPS \in 0..JUMPS
    BY JumpsAssumption
  <2> QED
    BY <1>1, <1>2, <2>1, TurningsAgree
<1> QED
  BY <1>3, <1>4, <1>5, EndsAgree

(* A step while a run is pending: it counts down, and assigns what the     *)
(* first row of a run does.                                                *)
Runs(obj) == {n \in DOMAIN obj.rows : obj.rows[n].kind = "run"}
RunSets(obj) == obj.rows[Lowest(Runs(obj))].sets
Counted(obj, m) == Put(m, obj.run[1], m[obj.run[1]] - 1)
Zeros(obj) == [j \in DOMAIN obj.tabs |-> 0]
Emptied(obj, m) == assign(obj, Counted(obj, m), Zeros(obj), RunSets(obj), StartLeft(obj, m))

LEMMA PendingStep ==
    ASSUME NEW A, NEW m \in [A -> Bytes], NEW obj, IsCursor(A, obj), NEW operands, Parses(obj, operands),
           NEW ops, Pending(obj, m) # 0
    PROVE  /\ obj.run # <<>> /\ Counted(obj, m) \in [A -> Bytes]
           /\ Runs(obj) # {} => Taken(obj, RunSets(obj)) /\ Zeros(obj) \in Columns(obj)
                                /\ StartLeft(obj, m) \in Bytes
           /\ walk(obj, m, ops) = Stepped(IF Runs(obj) = {} THEN Counted(obj, m) ELSE Emptied(obj, m).m, 0)
<1> DEFINE left == StartLeft(obj, m)
           counted == Counted(obj, m)
           zeros == Zeros(obj)
           runs == Runs(obj)
           sets == RunSets(obj)
<1>1. obj.run # <<>> /\ Pending(obj, m) = m[obj.run[1]] /\ m[obj.run[1]] # 0
  BY DEF Pending
<1>2. DOMAIN obj.rows = 1..Len(obj.rows) /\ Len(obj.rows) \in Nat
  BY DEF IsCursor, Listed
<1>3. runs # {} => Lowest(runs) \in runs /\ Lowest(runs) # 0
  <2>1. runs \in SUBSET Nat /\ 0 \notin runs
    BY <1>2 DEF Runs
  <2> HIDE DEF runs
  <2> QED
    BY <2>1, LowestIn
<1>4. counted \in [A -> Bytes]
  <2>1. m[obj.run[1]] - 1 \in Bytes
    <3>1. m[obj.run[1]] \in Bytes
      BY <1>1, CellParts DEF IsCursor, Optional
    <3> QED
      BY <1>1, <3>1, ByteAssumption DEF Bytes
  <2> QED
    BY <2>1, PutType DEF Counted
<1>5. ASSUME runs # {} PROVE Taken(obj, sets) /\ zeros \in Columns(obj) /\ left \in Bytes
  <2>1. Taken(obj, sets)
    <3> DEFINE row == obj.rows[Lowest(runs)]
    <3>1. IsRow(obj, row) /\ ~BadRow(obj, row) /\ row.kind = "run"
      BY <1>2, <1>3, <1>5 DEF IsCursor, Parses, Runs
    <3> HIDE DEF row
    <3>2. Taken(obj, row.sets)
      BY <3>1, RowTaken
    <3> QED
      BY <3>2 DEF row, RunSets
  <2>2. zeros \in Columns(obj)
    BY ByteAssumption DEF IsCursor, Listed, Columns, Bytes, Zeros
  <2>3. left \in Bytes
    <3>1. 0 \in Bytes
      BY ByteAssumption DEF Bytes
    <3>2. obj.cnt = <<>> \/ m[obj.cnt[1]] \in Bytes
      BY CellParts DEF IsCursor, Optional
    <3> QED
      BY <3>1, <3>2 DEF StartLeft
  <2> QED
    BY <2>1, <2>2, <2>3
<1>6. walk(obj, m, ops) = Stepped(IF runs = {} THEN counted ELSE Emptied(obj, m).m, 0)
  <2> DEFINE I == {n \in 1..Len(obj.rows) : obj.rows[n].kind = "run"}
             empty == IF I # {} THEN Min(I) ELSE 0
  <2>1. walk(obj, m, ops) = Stepped(IF empty = 0 THEN counted
                                    ELSE assign(obj, counted, zeros, obj.rows[empty].sets, left).m, 0)
    BY <1>1 DEF walk, Pending, StartLeft, SelectInSeq, Counted, Zeros
  <2>2. I = runs
    BY <1>2 DEF Runs
  <2>3. Min(I) = Lowest(I)
    BY DEF Min, Lowest
  <2>4. Emptied(obj, m) = assign(obj, counted, zeros, obj.rows[Lowest(runs)].sets, left)
    BY DEF Emptied, RunSets
  <2> HIDE DEF I, runs, counted, zeros, left
  <2> QED
    BY <1>3, <2>1, <2>2, <2>3, <2>4
<1> QED
  BY <1>1, <1>4, <1>5, <1>6

LEMMA PendingAgrees ==
    ASSUME NEW A, NEW m \in [A -> Bytes], NEW obj, IsCursor(A, obj), NEW operands, Parses(obj, operands),
           NEW ops, Pending(obj, m) # 0
    PROVE  SameEnd(A, walk(obj, m, ops), native_cursor(obj, 0, m, ops))
<1> DEFINE left == StartLeft(obj, m)
           counted == Counted(obj, m)
           zeros == Zeros(obj)
           runs == Runs(obj)
           sets == RunSets(obj)
           after == IF runs = {} THEN counted ELSE Emptied(obj, m).m
<1>1. /\ obj.run # <<>> /\ counted \in [A -> Bytes] /\ walk(obj, m, ops) = Stepped(after, 0)
      /\ runs # {} => Taken(obj, sets) /\ zeros \in Columns(obj) /\ left \in Bytes
  BY PendingStep
<1>2. runs # {} => native_assign(obj, counted, zeros, sets, left) = Emptied(obj, m)
                   /\ Emptied(obj, m) \in Held(A)
  <2>1. Emptied(obj, m) = assign(obj, counted, zeros, sets, left)
    BY DEF Emptied
  <2> HIDE DEF sets, zeros, left, counted, runs, after
  <2> QED
    BY <1>1, <2>1, AssignsAgree
<1>3. native_cursor(obj, 0, m, ops) = Stepped(after, 0)
  <2>1. native_cursor(obj, 0, m, ops) = native_pending(obj, m, left)
    BY <1>1 DEF native_cursor, StartLeft, Pending
  <2>2. native_pending(obj, m, left)
          = Stepped(IF runs = {} THEN counted ELSE native_assign(obj, counted, zeros, sets, left).m, 0)
    BY DEF native_pending, Lowest, Runs, RunSets, Counted, Zeros
  <2> HIDE DEF runs, counted, zeros, left, sets
  <2> QED
    BY <1>2, <2>1, <2>2
<1>4. after \in [A -> Bytes]
  BY <1>1, <1>2 DEF Held
<1> HIDE DEF after
<1>5. Stepped(after, 0).ok = TRUE /\ Stepped(after, 0).m = after
  BY DEF Stepped
<1> QED
  BY <1>1, <1>3, <1>4, <1>5 DEF SameEnd

(* A cursor that the core takes steps in the core (cursor, objects.rs) as  *)
(* in Python (walk, objects.py): one of them gives up where the other does,*)
(* and else they leave the same memory, of bytes again, and yield the same *)
(* flag, whatever rows, jumps, calls, runs and sweeps the step went        *)
(* through; and it is reset and settled alike.                             *)
THEOREM CursorsAgree ==
    ASSUME NEW A, NEW m \in [A -> Bytes], NEW obj, IsCursor(A, obj),
           NEW ops, Parses(obj, Len(ops)), Addressed(obj, ops)
    PROVE  /\ SameEnd(A, walk(obj, m, ops), native_cursor(obj, 0, m, ops))
           /\ native_cursor(obj, 1, m, ops) = reset(obj, m, ops[Len(ops)])
           /\ native_cursor(obj, 2, m, ops) = settle(obj, m)
<1>1. SameEnd(A, walk(obj, m, ops), native_cursor(obj, 0, m, ops))
  BY StepsAgree, PendingAgrees
<1>2. native_cursor(obj, 1, m, ops) = reset(obj, m, ops[Len(ops)])
  BY DEF native_cursor, reset, native_saved, Parses
<1>3. native_cursor(obj, 2, m, ops) = settle(obj, m)
  BY DEF native_cursor, settle, native_saved
<1> QED
  BY <1>1, <1>2, <1>3

-----------------------------------------------------------------------------
(* What a step leaves of memory.                                           *)

(* A memory n that is m but in the addresses D.                            *)
Same(A, m, n, D) == \A a \in A \ D : n[a] = m[a]
ValueBytes(obj) == UNION {Range(obj.values[i]) : i \in DOMAIN obj.values}

LEMMA CellRange ==
    ASSUME NEW A, NEW loc, IsCell(A, loc)
    PROVE  /\ DOMAIN loc = 1..Len(loc) /\ Len(loc) \in {1, 2}
           /\ \A i \in 1..Len(loc) : loc[i] \in Range(loc)
           /\ Range(loc) \subseteq A /\ loc[1] \in Range(loc) /\ (Len(loc) = 2 => loc[2] \in Range(loc))
<1>1. DOMAIN loc = 1..Len(loc) /\ Len(loc) \in {1, 2} /\ \A i \in 1..Len(loc) : loc[i] \in A
  BY DEF IsCell
<1>2. \A i \in 1..Len(loc) : loc[i] \in Range(loc)
  BY <1>1 DEF Range
<1>3. Range(loc) \subseteq A
  BY <1>1 DEF Range
<1> QED
  BY <1>1, <1>2, <1>3

LEMMA StoreSame ==
    ASSUME NEW A, NEW m \in [A -> Bytes], NEW loc, IsCell(A, loc), NEW v, NEW D, Range(loc) \subseteq D
    PROVE  Same(A, m, Store(m, loc, v), D)
<1> SUFFICES ASSUME NEW a \in A, a \notin D PROVE Store(m, loc, v)[a] = m[a]
  BY DEF Same
<1>1. a # loc[1] /\ (Len(loc) > 1 => a # loc[2])
  BY CellRange
<1> QED
  BY <1>1 DEF Store

LEMMA PutSame ==
    ASSUME NEW A, NEW m \in [A -> Bytes], NEW v, NEW D, NEW b \in D
    PROVE  Same(A, m, Put(m, b, v), D)
  BY DEF Same, Put

LEMMA LoadSame ==
    ASSUME NEW A, NEW loc, IsCell(A, loc), NEW m, NEW n, NEW D, Same(A, m, n, D), Range(loc) \cap D = {}
    PROVE  Load(n, loc) = Load(m, loc)
<1>1. n[loc[1]] = m[loc[1]] /\ (Len(loc) > 1 => n[loc[2]] = m[loc[2]])
  BY CellRange DEF Same
<1> QED
  BY <1>1 DEF Load

LEMMA LoadRoom ==
    ASSUME NEW A, NEW m \in [A -> Bytes], NEW loc, IsCell(A, loc)
    PROVE  Load(m, loc) \in 0..(Room(loc) - 1)
<1>1. PICK x \in Bytes : x = m[loc[1]]
  BY CellParts
<1>2. Len(loc) \in {1, 2}
  BY CellParts
<1>3. CASE Len(loc) = 1
  BY <1>1, <1>3 DEF Load, Room, Bytes
<1>4. CASE Len(loc) = 2
  <2>1. PICK y \in Bytes : y = m[loc[2]]
    BY <1>4, CellParts
  <2>2. Load(m, loc) = x + Byte * y /\ Room(loc) = Byte * Byte
    BY <1>1, <1>4, <2>1 DEF Load, Room
  <2>3. Byte * y <= Byte * (Byte - 1) /\ Byte * y >= 0 /\ Byte * (Byte - 1) = Byte * Byte - Byte
        /\ Byte * y \in Int /\ Byte * Byte \in Int
    BY ByteAssumption DEF Bytes
  <2>4. x + Byte * y \in 0..(Byte * Byte - 1)
    BY <2>3, ByteAssumption DEF Bytes
  <2> QED
    BY <2>2, <2>4
<1> QED
  BY <1>2, <1>3, <1>4

(* What is stored in a cell of its own bytes is loaded from it.            *)
LEMMA LoadStored ==
    ASSUME NEW A, NEW m \in [A -> Bytes], NEW loc, IsCell(A, loc), Apart(loc), NEW v \in 0..(Room(loc) - 1)
    PROVE  Load(Store(m, loc, v), loc) = v
<1> DEFINE n == Store(m, loc, v)
<1>1. Len(loc) \in {1, 2} /\ loc[1] \in A /\ (Len(loc) = 2 => loc[2] \in A) /\ v \in Int
  BY CellParts, RoomType
<1>2. CASE Len(loc) = 1
  <2>1. v \in Bytes /\ v % Byte = v
    BY <1>2, ByteKept DEF Room, Bytes
  <2> QED
    BY <1>1, <1>2, <2>1 DEF Load, Store
<1>3. CASE Len(loc) = 2
  <2>1. loc[1] # loc[2]
    BY <1>3, CellRange DEF Apart
  <2>2. n[loc[1]] = v % Byte /\ n[loc[2]] = (v \div Byte) % Byte
    BY <1>1, <1>3, <2>1 DEF Store
  <2>3. PICK q \in Int, r \in Bytes : q = v \div Byte /\ r = v % Byte /\ v = Byte * q + r
    BY <1>1, ByteAssumption, Remainder DEF Bytes
  <2>4. v \in 0..(Byte * Byte - 1)
    BY <1>3 DEF Room
  <2>5. q >= 0
    <3> SUFFICES ASSUME q <= -1 PROVE FALSE
      OBVIOUS
    <3>1. Byte * q <= Byte * (-1)
      BY ByteAssumption
    <3> QED
      BY <2>3, <2>4, <3>1, ByteAssumption DEF Bytes
  <2>6. q < Byte
    <3> SUFFICES ASSUME q >= Byte PROVE FALSE
      BY ByteAssumption
    <3>1. Byte * q >= Byte * Byte /\ Byte * Byte \in Int
      BY ByteAssumption
    <3> QED
      BY <2>3, <2>4, <3>1, ByteAssumption DEF Bytes
  <2>7. q \in Bytes /\ q % Byte = q
    BY <2>5, <2>6, ByteAssumption, ByteKept DEF Bytes
  <2>8. Load(n, loc) = n[loc[1]] + Byte * n[loc[2]]
    BY <1>3 DEF Load
  <2> HIDE DEF n
  <2>9. Load(n, loc) = r + Byte * q
    BY <2>2, <2>3, <2>7, <2>8
  <2>10. r + Byte * q = Byte * q + r
    BY ByteAssumption DEF Bytes
  <2> QED
    BY <2>3, <2>9, <2>10 DEF n
<1> QED
  BY <1>1, <1>2, <1>3

(* A row assigns its values only.                                          *)
LEMMA ValueBytesIn ==
    ASSUME NEW A, NEW obj, IsCursor(A, obj), NEW i \in 1..Len(obj.values)
    PROVE  IsCell(A, obj.values[i]) /\ Range(obj.values[i]) \subseteq ValueBytes(obj)
  BY DEF IsCursor, Listed, ValueBytes

LEMMA AssignOneSame ==
    ASSUME NEW A, NEW obj, IsCursor(A, obj), NEW cols, NEW a, a.index \in Nat \ {0}, a.part \in 0..2,
           ~BadAssign(obj, a), NEW acc \in Held(A)
    PROVE  Same(A, acc.m, assign_one(obj, cols, a, acc).m, ValueBytes(obj))
<1> DEFINE v == xf(a.spec, cols)
           t == assign_one(obj, cols, a, acc)
           loc == obj.values[a.index]
<1> HIDE DEF v, t
<1>0. acc.m \in [A -> Bytes]
  BY DEF Held
<1>1. CASE a.guard # <<>> /\ ~passes(a.guard[1], cols)
  <2>1. t = acc
    BY <1>1 DEF assign_one, t
  <2> QED
    BY <2>1 DEF Same, t
<1>2. CASE ~(a.guard # <<>> /\ ~passes(a.guard[1], cols)) /\ a.index > Len(obj.values)
  <2>1. t = [acc EXCEPT !.left = v]
    BY <1>2 DEF assign_one, v, t
  <2>2. t.m = acc.m
    BY <2>1 DEF Held
  <2> QED
    BY <2>2 DEF Same, t
<1> DEFINE stored == ~(a.guard # <<>> /\ ~passes(a.guard[1], cols)) /\ ~(a.index > Len(obj.values))
<1>3. ASSUME stored
      PROVE  IsCell(A, loc) /\ Range(loc) \subseteq ValueBytes(obj) /\ (a.part = 2 => Len(loc) = 2)
  <2>1. a.index \in 1..Len(obj.values)
    BY <1>3 DEF IsCursor, Listed
  <2>2. IsCell(A, loc) /\ Range(loc) \subseteq ValueBytes(obj)
    BY <2>1, ValueBytesIn
  <2> QED
    BY <2>1, <2>2, CellRange DEF BadAssign
<1>4. CASE stored /\ a.part = 0
  <2>1. t = [acc EXCEPT !.m = Store(@, loc, v)]
    BY <1>4 DEF assign_one, v, t
  <2>2. t.m = Store(acc.m, loc, v)
    BY <2>1 DEF Held
  <2> HIDE DEF loc
  <2> QED
    BY <1>0, <1>3, <1>4, <2>2, StoreSame DEF t
<1>5. CASE stored /\ a.part # 0
  <2>1. t = [acc EXCEPT !.m = Put(@, loc[a.part], v)]
    BY <1>5 DEF assign_one, v, t
  <2>2. t.m = Put(acc.m, loc[a.part], v)
    BY <2>1 DEF Held
  <2> HIDE DEF loc
  <2>3. loc[a.part] \in ValueBytes(obj)
    BY <1>3, <1>5, CellRange
  <2> QED
    BY <1>0, <2>2, <2>3, PutSame DEF t
<1> QED
  BY <1>1, <1>2, <1>4, <1>5 DEF t

LEMMA AssignSame ==
    ASSUME NEW A, NEW obj, IsCursor(A, obj), NEW cols \in Columns(obj),
           NEW sets, Taken(obj, sets), NEW m \in [A -> Bytes], NEW left \in Bytes
    PROVE  /\ assign(obj, m, cols, sets, left) \in Held(A)
           /\ Same(A, m, assign(obj, m, cols, sets, left).m, ValueBytes(obj))
<1> DEFINE n == Len(sets)
           base == [m |-> m, left |-> left]
<1>0. n \in Nat /\ \A k \in 1..n : /\ sets[k].index \in Nat \ {0} /\ sets[k].part \in 0..2
                                   /\ ~BadAssign(obj, sets[k])
  BY DEF Taken, IsAssigns, Listed
<1>1. PICK py : assign(obj, m, cols, sets, left) = py[n] /\ Folding(A, obj, cols, sets, base, py)
  BY AssignFolds
<1>2. base.m = m
  OBVIOUS
<1> HIDE DEF base
<1> DEFINE S == {k \in Nat : k <= n => Same(A, m, py[k].m, ValueBytes(obj))}
<1>3. 0 \in S
  BY <1>1, <1>2 DEF Folding, Same
<1>4. ASSUME NEW k \in S PROVE k + 1 \in S
  <2> SUFFICES ASSUME k + 1 <= n PROVE Same(A, m, py[k + 1].m, ValueBytes(obj))
    OBVIOUS
  <2>1. k + 1 \in 1..n /\ k \in 0..n /\ (k + 1) - 1 = k /\ Same(A, m, py[k].m, ValueBytes(obj))
    BY <1>0
  <2>2. py[k + 1] = assign_one(obj, cols, sets[k + 1], py[k]) /\ py[k] \in Held(A)
    BY <1>1, <2>1 DEF Folding
  <2>3. Same(A, py[k].m, py[k + 1].m, ValueBytes(obj))
    BY <1>0, <2>1, <2>2, AssignOneSame
  <2> QED
    BY <2>1, <2>3 DEF Same
<1> HIDE DEF S
<1>5. n \in S
  BY <1>0, <1>3, <1>4, Induction DEF S
<1> QED
  BY <1>0, <1>1, <1>5 DEF S, Folding

LEMMA SweepSame ==
    ASSUME NEW A, NEW m \in [A -> Bytes], NEW loc, IsCell(A, loc), NEW f \in 0..Byte,
           f > 0 => Len(loc) = 2, NEW delta
    PROVE  Same(A, m, sweep(m, loc, f, delta).m, Range(loc))
<1>1. CASE f = 0
  <2>1. sweep(m, loc, f, delta).m = Store(m, loc, Load(m, loc) + delta)
    BY <1>1 DEF sweep, Stepped
  <2> QED
    BY <2>1, StoreSame
<1>2. CASE f > 0
  <2> DEFINE total == (m[loc[2]] * f + (m[loc[1]] % f) + delta) % (Byte * f)
  <2>1. sweep(m, loc, f, delta).m = Put(Put(m, loc[2], total \div f), loc[1], total % f)
    BY <1>2 DEF sweep, Stepped
  <2>2. loc[1] \in Range(loc) /\ loc[2] \in Range(loc)
    BY <1>2, CellRange
  <2> HIDE DEF total
  <2> QED
    BY <2>1, <2>2 DEF Same, Put
<1> QED
  BY <1>1, <1>2

-----------------------------------------------------------------------------
(* The rows that lead to each other.                                       *)

LEMMA FollowsOf ==
    ASSUME NEW c, NEW node, ~NodePast(c, node)
    PROVE  LET row == NodeRow(c, node)
               target == NodeTarget(c, node)
               next == Follows(c, node)
           IN  /\ row.kind = "stop" => next = {At(c, node[1])}
               /\ row.kind = "jump" => next = {At(c, target)} \union
                                              (IF target = node[1] THEN {} ELSE {<<target, row.via>>})
               /\ row.kind = "call" => next = {At(c, target), At(c, node[1] + c.obj.width)}
               /\ row.kind = "return" => next = {}
               /\ row.kind \in {"sweep", "delay"} => next = {At(c, node[1]), At(c, node[1] + c.obj.width)}
               /\ row.kind \in {"set", "end"} => next = {At(c, node[1] + row.take)}
               /\ row.kind = "run" => next = {At(c, node[1] + 1)}
<1> DEFINE row == NodeRow(c, node)
           target == NodeTarget(c, node)
<1>1. Follows(c, node) = Leads(c, node[1], row, target)
  BY DEF Follows
<1> HIDE DEF row, target
<1> QED
  BY <1>1 DEF Leads, row, target

(* The nodes there may be: places, and the bytes that jumps leave.         *)
Vias(obj) == {obj.rows[n].via : n \in {i \in 1..Len(obj.rows) : obj.rows[i].kind = "jump"}}
AllNodes(obj) == (0..(Room(obj.pos) - 1)) \X ({<<>>} \union Vias(obj))

LEMMA NodesCounted ==
    ASSUME NEW A, NEW obj, IsCursor(A, obj)
    PROVE  /\ IsFiniteSet(AllNodes(obj))
           /\ Cardinality(AllNodes(obj)) <= Room(obj.pos) * (Len(obj.rows) + 1)
<1> DEFINE n == Len(obj.rows)
           I == {i \in 1..n : obj.rows[i].kind = "jump"}
           V == Vias(obj)
           room == Room(obj.pos)
<1>0. n \in Nat /\ room \in Nat /\ room > 0
  BY RoomType DEF IsCursor, Listed
<1>1. IsFiniteSet(1..n) /\ Cardinality(1..n) = n
  <2> HIDE DEF n
  <2>1. 1 \in Int /\ n \in Int
    BY <1>0
  <2>2. IsFiniteSet(1..n) /\ Cardinality(1..n) = IF 1 > n THEN 0 ELSE n - 1 + 1
    BY <2>1, FS_Interval
  <2> QED
    BY <1>0, <2>2
<1>2. IsFiniteSet(I) /\ Cardinality(I) <= n
  BY <1>1, FS_Subset
<1>3. V = {obj.rows[i].via : i \in I}
  BY DEF Vias
<1> HIDE DEF I, V, n, room
<1>4. IsFiniteSet(V) /\ Cardinality(V) <= Cardinality(I)
  <2> DEFINE f == [i \in I |-> obj.rows[i].via]
  <2>1. f \in Surjection(I, V)
    BY <1>3 DEF Surjection
  <2> HIDE DEF f
  <2> QED
    BY <1>2, <2>1, FS_Surjection
<1> DEFINE W == {<<>>} \union V
<1>5. Cardinality(V) \in Nat /\ Cardinality(I) \in Nat
  BY <1>2, <1>4, FS_CardinalityType
<1>6. IsFiniteSet(W) /\ Cardinality(W) \in Nat /\ Cardinality(W) <= n + 1
  <2>1. W = V \union {<<>>}
    OBVIOUS
  <2>2. IsFiniteSet(W) /\ (Cardinality(W) = Cardinality(V) \/ Cardinality(W) = Cardinality(V) + 1)
    BY <1>4, <2>1, FS_AddElement
  <2> QED
    BY <1>0, <1>2, <1>4, <1>5, <2>2
<1> HIDE DEF W
<1>7. IsFiniteSet(0..(room - 1)) /\ Cardinality(0..(room - 1)) = room
  <2>1. 0 \in Int /\ room - 1 \in Int
    BY <1>0
  <2> QED
    BY <1>0, <2>1, FS_Interval
<1>8. /\ IsFiniteSet((0..(room - 1)) \X W)
      /\ Cardinality((0..(room - 1)) \X W) = room * Cardinality(W)
  BY <1>6, <1>7, FS_Product
<1>9. room * Cardinality(W) <= room * (n + 1)
  BY <1>0, <1>6
<1>10. AllNodes(obj) = (0..(room - 1)) \X W
  BY DEF AllNodes, room, W, V
<1> QED
  BY <1>8, <1>9, <1>10 DEF n, room

LEMMA PlaceRoom == ASSUME NEW v \in Int, NEW loc PROVE v % Room(loc) \in 0..(Room(loc) - 1)
<1> DEFINE room == Room(loc)
<1>1. room \in Nat /\ room > 0
  BY RoomType
<1> HIDE DEF room
<1>2. v % room \in 0..(room - 1)
  BY <1>1, Remainder
<1> QED
  BY <1>2 DEF room

LEMMA AtNode == ASSUME NEW c, NEW v \in Int PROVE At(c, v) \in AllNodes(c.obj)
  BY PlaceRoom DEF At, AllNodes

(* A row is one of the cursor's, unless none matches.                      *)
LEMMA NodeRowType ==
    ASSUME NEW c \in Cursors, NEW node \in AllNodes(c.obj), ~NodePast(c, node)
    PROVE  /\ NodeColumns(c, node) \in Columns(c.obj) /\ node[1] \in Nat
           /\ \/ NodeRow(c, node).kind = "stop"
              \/ \E n \in 1..Len(c.obj.rows) : /\ NodeRow(c, node) = c.obj.rows[n]
                                               /\ IsRow(c.obj, c.obj.rows[n]) /\ ~BadRow(c.obj, c.obj.rows[n])
<1> DEFINE obj == c.obj
           cols == NodeColumns(c, node)
           first == IF node[2] = <<>> THEN cols[1] ELSE node[2][1]
           S == Matching(obj, first, cols)
<1>1. /\ IsCursor(Memory, obj) /\ Parses(obj, Len(c.ops)) /\ c.ops \in Seq(Int) /\ c.m \in [Memory -> Bytes]
  BY CursorsAssumption
<1>2. Len(obj.tabs) \in Nat \ {0} /\ Len(c.ops) = Len(obj.tabs) + 1
  BY <1>1, ColumnsAssumption DEF Parses, IsCursor, Listed
<1>3. node[1] \in Nat /\ (node[2] = <<>> \/ node[2] \in Vias(obj))
  BY RoomType DEF AllNodes
<1>4. cols \in Columns(obj)
  <2>1. ASSUME NEW j \in 1..Len(obj.tabs) PROVE fetch(obj, c.m, j, c.ops[j] + node[1]) \in Bytes
    <3> DEFINE addr == c.ops[j] + node[1]
    <3>1. c.ops[j] \in Int
      BY <1>1, <1>2
    <3>2. addr \in Int /\ ~Past(obj, j, addr)
      BY <1>3, <3>1 DEF NodePast
    <3> HIDE DEF addr
    <3>3. fetch(obj, c.m, j, addr) \in Bytes
      BY <1>1, <3>2, FetchType
    <3> QED
      BY <3>3 DEF addr
  <2> QED
    BY <2>1 DEF Columns, NodeColumns
<1> HIDE DEF cols
<1>5. first \in Int
  <2>1. CASE node[2] = <<>>
    BY <1>2, <1>4, <2>1 DEF Columns, Bytes
  <2>2. CASE node[2] # <<>>
    <3>1. node[2] \in Seq(Nat)
      BY <1>1, <1>3, <2>2 DEF Vias, IsCursor, Listed, IsRow
    <3>2. Len(node[2]) \in Nat /\ Len(node[2]) # 0
      BY <2>2, <3>1, EmptySeq
    <3>3. node[2][1] \in Int
      BY <3>1, <3>2
    <3> QED
      BY <2>2, <3>3
  <2> QED
    BY <2>1, <2>2
<1>6. NodeRow(c, node) = Row_(obj, first, cols)
  BY DEF NodeRow, cols
<1> HIDE DEF first
<1>7. Row_(obj, first, cols) = IF S = {} THEN [kind |-> "stop"] ELSE obj.rows[Lowest(S)]
  BY <1>1, <1>5, RowDecoded
<1>8. CASE S = {}
  BY <1>3, <1>4, <1>6, <1>7, <1>8 DEF cols
<1>9. CASE S # {}
  <2>1. S \in SUBSET Nat /\ S \subseteq 1..Len(obj.rows)
    BY <1>1 DEF Matching, IsCursor, Listed
  <2> HIDE DEF S
  <2>2. Lowest(S) \in 1..Len(obj.rows)
    BY <1>9, <2>1, LowestIn
  <2>3. IsRow(obj, obj.rows[Lowest(S)]) /\ ~BadRow(obj, obj.rows[Lowest(S)])
    BY <1>1, <2>2 DEF IsCursor, Listed, Parses
  <2> QED
    BY <1>3, <1>4, <1>6, <1>7, <1>9, <2>2, <2>3 DEF cols
<1> QED
  BY <1>8, <1>9

LEMMA FollowsIn ==
    ASSUME NEW c \in Cursors, NEW node \in AllNodes(c.obj)
    PROVE  Follows(c, node) \subseteq AllNodes(c.obj)
<1> DEFINE row == NodeRow(c, node)
           target == NodeTarget(c, node)
<1>1. CASE NodePast(c, node)
  BY <1>1 DEF Follows
<1>2. CASE ~NodePast(c, node)
  <2>1. node[1] \in Int /\ IsCursor(Memory, c.obj) /\ c.obj.width \in Int
    BY <1>2, NodeRowType, CursorsAssumption DEF IsCursor
  <2>2. \A v \in Int : At(c, v) \in AllNodes(c.obj)
    BY AtNode
  <2>3. CASE row.kind = "stop"
    BY <1>2, <2>1, <2>2, <2>3, FollowsOf
  <2>4. CASE row.kind # "stop"
    <3>1. PICK n \in 1..Len(c.obj.rows) : row = c.obj.rows[n] /\ IsRow(c.obj, row)
      BY <1>2, <2>4, NodeRowType
    <3>2. row.kind \in {"jump", "call"} => target \in Bytes
      <4>1. NodeColumns(c, node) \in Columns(c.obj) /\ Len(c.obj.tabs) \in Nat
        BY <1>2, <2>1, NodeRowType DEF IsCursor, Listed
      <4> QED
        BY <3>1, <4>1, XfType DEF IsRow, NodeTarget
    <3>3. Bytes \subseteq 0..(Room(c.obj.pos) - 1) /\ Bytes \subseteq Int
      <4>1. Byte <= Byte * Byte /\ Byte * Byte \in Int
        BY ByteAssumption
      <4> QED
        BY <4>1, ByteAssumption DEF Bytes, Room
    <3>4. CASE row.kind = "jump"
      <4>1. row.via \in Vias(c.obj)
        BY <3>1, <3>4 DEF Vias
      <4>2. <<target, row.via>> \in AllNodes(c.obj) /\ At(c, target) \in AllNodes(c.obj)
        BY <2>2, <3>2, <3>3, <3>4, <4>1 DEF AllNodes
      <4> QED
        BY <1>2, <3>4, <4>2, FollowsOf
    <3>5. CASE row.kind = "call"
      <4>1. target \in Bytes
        BY <3>2, <3>5
      <4>2. target \in Int
        BY <3>3, <4>1
      <4>3. node[1] + c.obj.width \in Int
        BY <2>1
      <4> QED
        BY <1>2, <2>2, <3>5, <4>2, <4>3, FollowsOf
    <3>6. CASE row.kind = "return"
      BY <1>2, <3>6, FollowsOf
    <3>7. CASE row.kind \in {"sweep", "delay"}
      <4>1. node[1] + c.obj.width \in Int
        BY <2>1
      <4> QED
        BY <1>2, <2>1, <2>2, <3>7, <4>1, FollowsOf
    <3>8. CASE row.kind \in {"set", "end"}
      <4>1. node[1] + row.take \in Int
        BY <2>1, <3>1, <3>8 DEF IsRow
      <4> QED
        BY <1>2, <2>2, <3>8, <4>1, FollowsOf
    <3>9. CASE row.kind = "run"
      <4>1. node[1] + 1 \in Int
        BY <2>1
      <4> QED
        BY <1>2, <2>2, <3>9, <4>1, FollowsOf
    <3> QED
      BY <2>4, <3>1, <3>4, <3>5, <3>6, <3>7, <3>8, <3>9 DEF IsRow
  <2> QED
    BY <2>3, <2>4
<1> QED
  BY <1>1, <1>2

(* The rounds in which the nodes of a cursor are found, and one of them.   *)
Grown(c, S) == S \union UNION {Follows(c, node) : node \in S}
Finding(f, c) ==
    f = [n \in 0..Rounds(c) |-> IF n = 0 THEN {At(c, Last(c.ops))} ELSE Grown(c, f[n - 1])]
Found(c) ==
    LET rounds[n \in 0..Rounds(c)] == IF n = 0 THEN {At(c, Last(c.ops))} ELSE Grown(c, rounds[n - 1])
    IN  rounds

LEMMA RoundsType ==
    ASSUME NEW c \in Cursors
    PROVE  Rounds(c) \in Nat /\ Last(c.ops) \in Int
<1>1. IsCursor(Memory, c.obj) /\ Parses(c.obj, Len(c.ops)) /\ c.ops \in Seq(Int)
  BY CursorsAssumption
<1>2. Room(c.obj.pos) \in Nat /\ Len(c.obj.rows) \in Nat
  BY <1>1, RoomType DEF IsCursor, Listed
<1>3. Len(c.ops) \in 1..Len(c.ops)
  BY <1>1, ColumnsAssumption DEF Parses, IsCursor, Listed
<1>4. Rounds(c) \in Nat
  <2> DEFINE room == Room(c.obj.pos)
             rows == Len(c.obj.rows)
  <2>1. room \in Nat /\ rows \in Nat
    BY <1>2
  <2> HIDE DEF room, rows
  <2>2. room * (rows + 1) \in Nat
    BY <2>1
  <2> QED
    BY <2>2 DEF Rounds, room, rows
<1>5. Last(c.ops) \in Int
  BY <1>1, <1>3 DEF Last
<1> QED
  BY <1>4, <1>5

LEMMA GrownIn ==
    ASSUME NEW c \in Cursors, NEW S \in SUBSET AllNodes(c.obj)
    PROVE  Grown(c, S) \in SUBSET AllNodes(c.obj) /\ S \subseteq Grown(c, S)
  BY FollowsIn DEF Grown

LEMMA FindingExists == ASSUME NEW c \in Cursors PROVE \E f : Finding(f, c)
<1> DEFINE T == SUBSET AllNodes(c.obj)
           R == Rounds(c)
           base == {At(c, Last(c.ops))}
           step == [k \in 1..R |-> [S \in T |-> Grown(c, S)]]
<1>1. R \in Nat /\ base \in T
  BY RoundsType, AtNode
<1>2. step \in [1..R -> [T -> T]]
  BY GrownIn
<1> HIDE DEF R, T, base
<1>3. PICK f \in [0..R -> T] : f[0] = base /\ \A k \in 1..R : f[k] = step[k][f[k - 1]]
  <2> HIDE DEF step
  <2>1. Recurs(R, T, base, step)
    BY <1>1, <1>2, Recursion
  <2> QED
    BY <2>1 DEF Recurs
<1>4. ASSUME NEW n \in 0..R PROVE f[n] = IF n = 0 THEN base ELSE Grown(c, f[n - 1])
  <2>1. CASE n = 0
    BY <1>3, <2>1
  <2>2. CASE n # 0
    <3>1. n \in 1..R /\ n - 1 \in 0..R
      BY <1>1, <2>2
    <3>2. f[n - 1] \in T
      BY <1>3, <3>1
    <3> QED
      BY <1>3, <2>2, <3>1, <3>2
  <2> QED
    BY <2>1, <2>2
<1>5. f = [n \in 0..R |-> f[n]]
  BY <1>3
<1> HIDE DEF step
<1>6. Finding(f, c)
  BY <1>4, <1>5 DEF Finding, R, base
<1> QED
  BY <1>6

(* Every round that is not the last finds a node, and there are no more    *)
(* than the rounds: what rows lead to from a node is one.                  *)
LEMMA NodesClosed ==
    ASSUME NEW c \in Cursors
    PROVE  /\ Nodes(c) \subseteq AllNodes(c.obj) /\ At(c, Last(c.ops)) \in Nodes(c)
           /\ \A node \in Nodes(c) : Follows(c, node) \subseteq Nodes(c)
<1> DEFINE All == AllNodes(c.obj)
           R == Rounds(c)
           rounds == Found(c)
           More(n) == Cardinality(rounds[n]) > n \/ Grown(c, rounds[n]) = rounds[n]
           S == {n \in Nat : n <= R => /\ rounds[n] \in SUBSET All /\ At(c, Last(c.ops)) \in rounds[n]
                                       /\ More(n)}
<1>1. Finding(rounds, c)
  <2>1. \E f : Finding(f, c)
    BY FindingExists
  <2> QED
    BY <2>1 DEF Finding, Found
<1>2. Nodes(c) = rounds[R]
  BY DEF Nodes, Found, Grown
<1>3. R \in Nat /\ Last(c.ops) \in Int
  BY RoundsType
<1>4. IsFiniteSet(All) /\ Cardinality(All) <= R /\ Cardinality(All) \in Nat
  BY CursorsAssumption, NodesCounted, FS_CardinalityType DEF Rounds
<1> HIDE DEF rounds, All
<1>5. 0 \in S
  <2>1. rounds[0] = {At(c, Last(c.ops))}
    BY <1>1, <1>3 DEF Finding
  <2>2. At(c, Last(c.ops)) \in All
    BY <1>3, AtNode DEF All
  <2>3. Cardinality({At(c, Last(c.ops))}) = 1
    BY FS_Singleton
  <2> QED
    BY <2>1, <2>2, <2>3
<1>6. ASSUME NEW n \in S PROVE n + 1 \in S
  <2> SUFFICES ASSUME n + 1 <= R
               PROVE  rounds[n + 1] \in SUBSET All /\ At(c, Last(c.ops)) \in rounds[n + 1] /\ More(n + 1)
    OBVIOUS
  <2>1. rounds[n] \in SUBSET All /\ At(c, Last(c.ops)) \in rounds[n] /\ More(n) /\ n \in Nat
    BY <1>3
  <2>2. rounds[n + 1] = Grown(c, rounds[n])
    <3>1. n + 1 \in 0..Rounds(c) /\ n + 1 # 0 /\ (n + 1) - 1 = n
      BY <1>3, <2>1
    <3> HIDE DEF R
    <3> QED
      BY <1>1, <3>1 DEF Finding
  <2>3. rounds[n + 1] \in SUBSET All /\ rounds[n] \subseteq rounds[n + 1]
    BY <2>1, <2>2, GrownIn DEF All
  <2>4. CASE rounds[n + 1] = rounds[n]
    BY <2>1, <2>2, <2>3, <2>4
  <2>5. CASE rounds[n + 1] # rounds[n]
    <3>1. IsFiniteSet(rounds[n + 1])
      BY <1>4, <2>3, FS_Subset
    <3>2. /\ IsFiniteSet(rounds[n]) /\ Cardinality(rounds[n]) <= Cardinality(rounds[n + 1])
          /\ Cardinality(rounds[n]) # Cardinality(rounds[n + 1])
      BY <2>3, <2>5, <3>1, FS_Subset
    <3>3. Cardinality(rounds[n]) \in Nat /\ Cardinality(rounds[n + 1]) \in Nat
      BY <3>1, <3>2, FS_CardinalityType
    <3>4. Cardinality(rounds[n]) > n
      BY <2>1, <2>2, <2>5
    <3>5. Cardinality(rounds[n + 1]) > n + 1
      BY <2>1, <3>2, <3>3, <3>4
    <3> QED
      BY <2>1, <2>3, <3>5
  <2> QED
    BY <2>4, <2>5
<1> HIDE DEF S
<1>7. R \in S
  BY <1>3, <1>5, <1>6, Induction DEF S
<1>8. rounds[R] \in SUBSET All /\ At(c, Last(c.ops)) \in rounds[R] /\ More(R)
  BY <1>3, <1>7 DEF S
<1>9. Grown(c, rounds[R]) = rounds[R]
  <2>1. Cardinality(rounds[R]) <= Cardinality(All)
    BY <1>4, <1>8, FS_Subset
  <2>2. Cardinality(rounds[R]) \in Nat
    BY <1>4, <1>8, FS_Subset, FS_CardinalityType
  <2> QED
    BY <1>3, <1>4, <1>8, <2>1, <2>2
<1> QED
  BY <1>2, <1>8, <1>9 DEF Grown, All

-----------------------------------------------------------------------------
(* A turn of a step stays on the rows that lead to each other.             *)

(* A memory in which the rows of a cursor are as they were, and where a    *)
(* return goes to a row.                                                   *)
Kept(c, m) ==
    /\ Same(Memory, c.m, m, Cells(c.obj))
    /\ c.obj.ret # <<>> => <<Load(m, c.obj.ret), <<>>>> \in Nodes(c)
Stays(c, w) ==
    /\ Kept(c, w.m)
    /\ w.ok /\ ~w.over => w.used = 0 /\ <<w.at, w.via>> \in Nodes(c)
    /\ w.ok /\ w.over => At(c, w.at + w.used) \in Nodes(c)
Underway(c, w) == w \in Turns(Memory) /\ w.ok /\ ~w.over /\ Stays(c, w)
Led(c, w, row, cols) == Leads(c, w.at, row, xf(row.to_, cols)) \subseteq Nodes(c)

LEMMA CellsOf ==
    ASSUME NEW c \in Cursors, NEW D,
           D \in {ValueBytes(c.obj), Range(c.obj.cnt), Range(c.obj.run)}
    PROVE  /\ D \subseteq Cells(c.obj) /\ D \cap Range(c.obj.pos) = {} /\ D \cap Range(c.obj.ret) = {}
           /\ Range(c.obj.pos) \subseteq Cells(c.obj) /\ Range(c.obj.ret) \subseteq Cells(c.obj)
           /\ Range(c.obj.pos) \cap Range(c.obj.ret) = {}
<1>1. CellsApart(c.obj)
  BY CursorsAssumption
<1> QED
  BY <1>1 DEF CellsApart, Cells, ValueBytes

LEMMA KeptOver ==
    ASSUME NEW c \in Cursors, NEW m, Kept(c, m), NEW n, NEW D, Same(Memory, m, n, D),
           D \subseteq Cells(c.obj), D \cap Range(c.obj.ret) = {}
    PROVE  Kept(c, n)
<1>1. Same(Memory, c.m, n, Cells(c.obj))
  BY DEF Kept, Same
<1>2. ASSUME c.obj.ret # <<>> PROVE Load(n, c.obj.ret) = Load(m, c.obj.ret)
  <2>1. IsCell(Memory, c.obj.ret)
    BY <1>2, CursorsAssumption DEF IsCursor, Optional
  <2>2. Range(c.obj.ret) \cap D = {}
    OBVIOUS
  <2> QED
    BY <2>1, <2>2, LoadSame
<1> QED
  BY <1>1, <1>2 DEF Kept

LEMMA AssignKept ==
    ASSUME NEW c \in Cursors, NEW cols \in Columns(c.obj), NEW sets, Taken(c.obj, sets),
           NEW m \in [Memory -> Bytes], NEW left \in Bytes, Kept(c, m)
    PROVE  /\ assign(c.obj, m, cols, sets, left) \in Held(Memory)
           /\ Kept(c, assign(c.obj, m, cols, sets, left).m)
<1> DEFINE a == assign(c.obj, m, cols, sets, left)
           D == ValueBytes(c.obj)
<1>1. IsCursor(Memory, c.obj)
  BY CursorsAssumption
<1>2. a \in Held(Memory) /\ Same(Memory, m, a.m, D)
  BY <1>1, AssignSame
<1> HIDE DEF a
<1>3. D \subseteq Cells(c.obj) /\ D \cap Range(c.obj.ret) = {}
  BY CellsOf
<1> HIDE DEF D
<1>4. Kept(c, a.m)
  BY <1>2, <1>3, KeptOver
<1> QED
  BY <1>2, <1>4 DEF a

LEMMA ThensStay ==
    ASSUME NEW c \in Cursors, NEW cols \in Columns(c.obj), NEW sets, Taken(c.obj, sets),
           NEW v \in Turns(Memory), v.ok, Kept(c, v.m), At(c, v.at + v.used) \in Nodes(c)
    PROVE  Stays(c, Thens(c.obj, v, cols, sets))
<1> DEFINE a == assign(c.obj, v.m, cols, sets, v.left)
           p == Thens(c.obj, v, cols, sets)
<1>1. v.m \in [Memory -> Bytes] /\ v.left \in Bytes
  BY DEF Turns
<1>2. a \in Held(Memory) /\ Kept(c, a.m)
  BY <1>1, AssignKept
<1>3. p = [[v EXCEPT !.m = a.m, !.left = a.left] EXCEPT !.over = TRUE]
  BY DEF Thens
<1> SUFFICES Stays(c, p)
  OBVIOUS
<1> HIDE DEF a, p
<1>4. p.m = a.m /\ p.at = v.at /\ p.used = v.used /\ p.ok /\ p.over
  BY <1>3 DEF Turns
<1> QED
  BY <1>2, <1>4 DEF Stays

LEMMA StopStays ==
    ASSUME NEW c \in Cursors, NEW w, Underway(c, w), NEW row, row.kind = "stop", NEW cols, Led(c, w, row, cols)
    PROVE  Stays(c, Act(c.obj, c.ops, w, row, cols))
<1> DEFINE p == Act(c.obj, c.ops, w, row, cols)
<1>1. w \in Turns(Memory) /\ w.at \in Int /\ w.used = 0 /\ w.ok /\ Kept(c, w.m)
  BY DEF Underway, Stays, Turns
<1>2. p = [[w EXCEPT !.carry = 1] EXCEPT !.over = TRUE]
  BY DEF Act
<1>3. At(c, w.at) \in Nodes(c)
  BY DEF Led, Leads
<1> SUFFICES Stays(c, p)
  OBVIOUS
<1> HIDE DEF p
<1>4. p.m = w.m /\ p.at + p.used = w.at /\ p.ok /\ p.over
  BY <1>1, <1>2 DEF Turns
<1> QED
  BY <1>1, <1>3, <1>4 DEF Stays

LEMMA EndStays ==
    ASSUME NEW c \in Cursors, NEW w, Underway(c, w), NEW cols \in Columns(c.obj),
           NEW row, IsRow(c.obj, row), ~BadRow(c.obj, row), row.kind = "end", Led(c, w, row, cols)
    PROVE  Stays(c, Act(c.obj, c.ops, w, row, cols))
<1> DEFINE one == 1
           v == [w EXCEPT !.carry = one, !.used = row.take]
<1>0. one \in Int
  OBVIOUS
<1>1. w \in Turns(Memory) /\ w.ok /\ Kept(c, w.m)
  BY DEF Underway, Stays
<1>2. Taken(c.obj, row.then) /\ row.take \in Int
  BY RowTaken DEF IsRow
<1>3. Act(c.obj, c.ops, w, row, cols) = Thens(c.obj, v, cols, row.then)
  BY DEF Act, Thens
<1>4. At(c, w.at + row.take) \in Nodes(c)
  BY DEF Led, Leads
<1> HIDE DEF one
<1>5. v \in Turns(Memory) /\ v.ok /\ v.m = w.m /\ v.at = w.at /\ v.used = row.take
  BY <1>0, <1>1, <1>2 DEF Turns
<1> HIDE DEF v
<1>6. Stays(c, Thens(c.obj, v, cols, row.then))
  BY <1>1, <1>2, <1>4, <1>5, ThensStay
<1> QED
  BY <1>3, <1>6

LEMMA SetStays ==
    ASSUME NEW c \in Cursors, NEW w, Underway(c, w), NEW cols \in Columns(c.obj),
           NEW row, IsRow(c.obj, row), ~BadRow(c.obj, row), row.kind = "set", Led(c, w, row, cols)
    PROVE  Stays(c, Act(c.obj, c.ops, w, row, cols))
<1> DEFINE a == assign(c.obj, w.m, cols, row.sets, w.left)
           carry == IF w.jumped THEN w.carry ELSE 0
           v == [w EXCEPT !.m = a.m, !.left = a.left, !.used = row.take, !.carry = carry]
<1>1. /\ w \in Turns(Memory) /\ w.ok /\ Kept(c, w.m) /\ w.m \in [Memory -> Bytes] /\ w.left \in Bytes
      /\ w.carry \in Int
  BY DEF Underway, Stays, Turns
<1>2. Taken(c.obj, row.then) /\ Taken(c.obj, row.sets) /\ row.take \in Int
  BY RowTaken DEF IsRow
<1>3. a \in Held(Memory) /\ Kept(c, a.m)
  BY <1>1, <1>2, AssignKept
<1>4. Act(c.obj, c.ops, w, row, cols) = Thens(c.obj, v, cols, row.then)
  BY DEF Act, Thens
<1>5. At(c, w.at + row.take) \in Nodes(c)
  BY DEF Led, Leads
<1>6. carry \in Int /\ a.m \in [Memory -> Bytes] /\ a.left \in Bytes
  BY <1>1, <1>3 DEF Held
<1> HIDE DEF a, carry
<1>7. v \in Turns(Memory) /\ v.ok /\ v.m = a.m /\ v.at = w.at /\ v.used = row.take
  BY <1>1, <1>2, <1>6 DEF Turns
<1> HIDE DEF v
<1>8. Stays(c, Thens(c.obj, v, cols, row.then))
  BY <1>2, <1>3, <1>5, <1>7, ThensStay
<1> QED
  BY <1>4, <1>8

(* A sweep or a delay that has counted to its end.                         *)
LEMMA CountedStays ==
    ASSUME NEW c \in Cursors, NEW w, Underway(c, w), NEW cols \in Columns(c.obj),
           NEW row, IsRow(c.obj, row), ~BadRow(c.obj, row), row.kind \in {"sweep", "delay"},
           Led(c, w, row, cols), w.left = xf(row.count, cols)
    PROVE  Stays(c, Act(c.obj, c.ops, w, row, cols))
<1> DEFINE one == 1
           zero == 0
           v == [w EXCEPT !.left = zero, !.carry = one, !.used = c.obj.width]
<1>0. one \in Int /\ zero \in Bytes
  BY ByteAssumption DEF Bytes
<1>1. w \in Turns(Memory) /\ w.ok /\ Kept(c, w.m)
  BY DEF Underway, Stays
<1>2. Taken(c.obj, row.then) /\ c.obj.width \in Int
  BY RowTaken, CursorsAssumption DEF IsCursor
<1>3. Act(c.obj, c.ops, w, row, cols) = Thens(c.obj, v, cols, row.then)
  BY DEF Act, Thens
<1>4. At(c, w.at + c.obj.width) \in Nodes(c)
  BY DEF Led, Leads
<1> HIDE DEF one, zero
<1>5. v \in Turns(Memory) /\ v.ok /\ v.m = w.m /\ v.at = w.at /\ v.used = c.obj.width
  BY <1>0, <1>1, <1>2 DEF Turns
<1> HIDE DEF v
<1>6. Stays(c, Thens(c.obj, v, cols, row.then))
  BY <1>1, <1>2, <1>4, <1>5, ThensStay
<1> QED
  BY <1>3, <1>6

(* A sweep or a delay that goes on counting.                               *)
LEMMA CountingStays ==
    ASSUME NEW c \in Cursors, NEW w, Underway(c, w), NEW cols \in Columns(c.obj),
           NEW row, IsRow(c.obj, row), ~BadRow(c.obj, row), row.kind \in {"sweep", "delay"},
           Led(c, w, row, cols), w.left # xf(row.count, cols)
    PROVE  Stays(c, Act(c.obj, c.ops, w, row, cols))
<1> DEFINE loc == c.obj.values[row.into]
           cell == IF row.part = 0 THEN loc ELSE <<loc[row.part]>>
           by == to_signed(xf(row.step, cols))
           s == sweep(w.m, cell, row.frac, by)
           p == Act(c.obj, c.ops, w, row, cols)
<1>1. w \in Turns(Memory) /\ w.ok /\ Kept(c, w.m) /\ w.m \in [Memory -> Bytes] /\ w.at \in Int
  BY DEF Underway, Stays, Turns
<1>2. At(c, w.at) \in Nodes(c)
  BY DEF Led, Leads
<1> SUFFICES Stays(c, p)
  OBVIOUS
<1>3. CASE row.kind = "sweep"
  <2>1. p = [[w EXCEPT !.m = s.m, !.carry = s.flag, !.left = (@ + 1) % Byte, !.used = 0] EXCEPT !.over = TRUE]
    BY <1>3 DEF Act
  <2>2. Kept(c, s.m)
    <3>1. /\ row.into \in Nat \ {0} /\ row.into <= Len(c.obj.values) /\ row.frac \in 0..Byte
          /\ row.part \in 0..2
          /\ row.frac > 0 => (Len(loc) # 1 /\ row.part = 0)
          /\ row.part = 2 => Len(loc) # 1
      BY <1>3 DEF IsRow, FracFits, BadRow
    <3>2. IsCell(Memory, loc) /\ Range(loc) \subseteq ValueBytes(c.obj)
      <4>1. IsCursor(Memory, c.obj)
        BY CursorsAssumption
      <4>2. row.into \in 1..Len(c.obj.values)
        BY <3>1, <4>1 DEF IsCursor, Listed
      <4> QED
        BY <4>1, <4>2, ValueBytesIn
    <3> HIDE DEF loc
    <3>3. /\ Len(loc) \in {1, 2} /\ loc[1] \in Memory /\ (Len(loc) = 2 => loc[2] \in Memory)
          /\ loc[1] \in Range(loc) /\ (Len(loc) = 2 => loc[2] \in Range(loc))
      BY <3>2, CellParts, CellRange
    <3>4. IsCell(Memory, cell) /\ (row.frac > 0 => Len(cell) = 2) /\ Range(cell) \subseteq ValueBytes(c.obj)
      <4>1. CASE row.part = 0
        BY <3>1, <3>2, <3>3, <4>1
      <4>2. CASE row.part # 0
        <5> DEFINE e == loc[row.part]
        <5>1. e \in Memory /\ ~(row.frac > 0) /\ e \in ValueBytes(c.obj)
          BY <3>1, <3>2, <3>3, <4>2
        <5>2. cell = <<e>>
          BY <4>2
        <5> HIDE DEF e, cell
        <5>3. <<e>> \in Seq(Memory) /\ Len(<<e>>) = 1
          BY <5>1
        <5>4. Range(<<e>>) = {e}
          BY DEF Range
        <5> QED
          BY <5>1, <5>2, <5>3, <5>4 DEF IsCell
      <4> QED
        BY <4>1, <4>2
    <3> HIDE DEF cell, by
    <3>5. Same(Memory, w.m, s.m, Range(cell))
      BY <1>1, <3>1, <3>4, SweepSame
    <3> HIDE DEF s
    <3>6. Same(Memory, w.m, s.m, ValueBytes(c.obj))
      BY <3>4, <3>5 DEF Same
    <3> DEFINE D == ValueBytes(c.obj)
    <3>7. D \subseteq Cells(c.obj) /\ D \cap Range(c.obj.ret) = {}
      BY CellsOf
    <3> HIDE DEF D
    <3>8. Same(Memory, w.m, s.m, D)
      BY <3>6 DEF D
    <3> QED
      BY <1>1, <3>7, <3>8, KeptOver
  <2> HIDE DEF s, p
  <2>3. p.m = s.m /\ p.at + p.used = w.at /\ p.ok /\ p.over
    BY <1>1, <2>1 DEF Turns
  <2> QED
    BY <1>2, <2>2, <2>3 DEF Stays
<1>4. CASE row.kind = "delay"
  <2>1. p = [[w EXCEPT !.carry = 0, !.left = (@ + 1) % Byte, !.used = 0] EXCEPT !.over = TRUE]
    BY <1>4 DEF Act
  <2> HIDE DEF p
  <2>2. p.m = w.m /\ p.at + p.used = w.at /\ p.ok /\ p.over
    BY <1>1, <2>1 DEF Turns
  <2> QED
    BY <1>1, <1>2, <2>2 DEF Stays
<1> QED
  BY <1>3, <1>4

(* A row that starts a run.                                                *)
LEMMA RunStays ==
    ASSUME NEW c \in Cursors, NEW w, Underway(c, w), NEW cols \in Columns(c.obj),
           NEW row, IsRow(c.obj, row), ~BadRow(c.obj, row), row.kind = "run", Led(c, w, row, cols)
    PROVE  Stays(c, Act(c.obj, c.ops, w, row, cols))
<1> DEFINE zeros == [j \in DOMAIN cols |-> 0]
           count == (cols[1] - row.base) % Byte
           started == Put(w.m, c.obj.run[1], count)
           a == assign(c.obj, started, zeros, row.sets, w.left)
           p == Act(c.obj, c.ops, w, row, cols)
           one == 1
<1> SUFFICES Stays(c, p)
  OBVIOUS
<1>1. w \in Turns(Memory) /\ w.ok /\ Kept(c, w.m) /\ w.m \in [Memory -> Bytes] /\ w.left \in Bytes
  BY DEF Underway, Stays, Turns
<1>2. /\ IsCursor(Memory, c.obj) /\ Len(c.obj.tabs) \in Nat \ {0} /\ DOMAIN cols = 1..Len(c.obj.tabs)
      /\ IsCell(Memory, c.obj.run)
  BY CursorsAssumption, ColumnsAssumption DEF IsCursor, Listed, Parses, Columns, BadRow, Optional
<1>3. zeros \in Columns(c.obj)
  BY <1>2, ByteAssumption DEF Columns, Bytes
<1>4. count \in Bytes
  <2> DEFINE n == cols[1] - row.base
  <2>1. cols[1] \in Int /\ row.base \in Int
    BY <1>2 DEF Columns, IsRow, Bytes
  <2>2. n \in Int
    BY <2>1
  <2> HIDE DEF n
  <2>3. n % Byte \in Bytes
    BY <2>2, ByteRange
  <2> QED
    BY <2>3 DEF n
<1> HIDE DEF count
<1>5. started \in [Memory -> Bytes]
  BY <1>1, <1>4, PutType
<1>6. Kept(c, started)
  <2> DEFINE D == Range(c.obj.run)
  <2>1. D \subseteq Cells(c.obj) /\ D \cap Range(c.obj.ret) = {}
    BY CellsOf
  <2>2. c.obj.run[1] \in D
    BY <1>2, CellRange
  <2> HIDE DEF D
  <2>3. Same(Memory, w.m, started, D)
    BY <1>1, <2>2, PutSame
  <2> HIDE DEF started
  <2> QED
    BY <1>1, <2>1, <2>3, KeptOver
<1>7. a \in Held(Memory) /\ Kept(c, a.m)
  <2>1. Taken(c.obj, row.sets)
    BY RowTaken
  <2> HIDE DEF started, zeros
  <2> QED
    BY <1>1, <1>3, <1>5, <1>6, <2>1, AssignKept
<1>8. p = [[w EXCEPT !.m = a.m, !.left = a.left, !.carry = 0, !.used = one] EXCEPT !.over = TRUE]
  BY DEF Act, count
<1>9. At(c, w.at + one) \in Nodes(c)
  BY DEF Led, Leads
<1> HIDE DEF p, a, one
<1>10. p.m = a.m /\ p.at = w.at /\ p.used = one /\ p.ok /\ p.over
  BY <1>1, <1>8 DEF Turns
<1> QED
  BY <1>7, <1>9, <1>10 DEF Stays

LEMMA RoomKept == ASSUME NEW loc, NEW v \in 0..(Room(loc) - 1) PROVE v % Room(loc) = v
<1> DEFINE room == Room(loc)
<1>1. room \in Nat /\ room > 0
  BY RoomType
<1>2. v \in 0..(room - 1)
  OBVIOUS
<1> HIDE DEF room
<1>3. v \in Int /\ v % room \in 0..(room - 1) /\ v = room * (v \div room) + (v % room) /\ v \div room \in Int
  BY <1>1, <1>2, Remainder
<1>4. v = room * 0 + v
  BY <1>1, <1>3
<1>5. v % room = v
  BY <1>1, <1>2, <1>3, <1>4, OneRemainder
<1> QED
  BY <1>5 DEF room

LEMMA ByteAt ==
    ASSUME NEW c \in Cursors, NEW v \in Bytes
    PROVE  At(c, v) = <<v, <<>>>>
<1>1. v \in 0..(Room(c.obj.pos) - 1)
  <2>1. Byte <= Byte * Byte /\ Byte * Byte \in Int
    BY ByteAssumption
  <2> QED
    BY <2>1, ByteAssumption DEF Bytes, Room
<1> QED
  BY <1>1, RoomKept DEF At

(* A call keeps where it returns to, which is a row's place.               *)
LEMMA CallStays ==
    ASSUME NEW c \in Cursors, NEW w, Underway(c, w), NEW cols \in Columns(c.obj),
           NEW row, IsRow(c.obj, row), ~BadRow(c.obj, row), row.kind = "call", Led(c, w, row, cols)
    PROVE  Stays(c, Act(c.obj, c.ops, w, row, cols))
<1> DEFINE target == xf(row.to_, cols)
           past == (w.at + c.obj.width) % Room(c.obj.pos)
           m == Store(w.m, c.obj.ret, past)
           back == Flag(target >= w.at)
           p == Act(c.obj, c.ops, w, row, cols)
<1> SUFFICES Stays(c, p)
  OBVIOUS
<1>1. /\ w \in Turns(Memory) /\ w.at \in Int /\ w.ok /\ ~w.over /\ w.used = 0 /\ Kept(c, w.m)
      /\ w.m \in [Memory -> Bytes]
  BY DEF Underway, Stays, Turns
<1>2. /\ IsCursor(Memory, c.obj) /\ Parses(c.obj, Len(c.ops)) /\ c.obj.width \in Int
      /\ c.obj.ret # <<>> /\ IsCell(Memory, c.obj.ret) /\ Apart(c.obj.ret)
      /\ Room(c.obj.ret) = Room(c.obj.pos)
  BY CursorsAssumption DEF IsCursor, BadRow, Optional, Parses, CellsApart, Room
<1>3. past \in 0..(Room(c.obj.ret) - 1)
  <2> DEFINE v == w.at + c.obj.width
  <2>1. v \in Int
    BY <1>1, <1>2
  <2> HIDE DEF v
  <2>2. v % Room(c.obj.pos) \in 0..(Room(c.obj.pos) - 1)
    BY <2>1, PlaceRoom
  <2> QED
    BY <1>2, <2>2 DEF v
<1>4. target \in Bytes
  BY <1>2, XfType DEF IsRow, IsCursor, Listed
<1>5. At(c, target) \in Nodes(c) /\ <<past, <<>>>> \in Nodes(c)
  BY DEF Led, Leads, At
<1>6. p = [[w EXCEPT !.at = target, !.via = <<>>, !.jumped = TRUE, !.carry = back]
             EXCEPT !.m = Store(@, c.obj.ret, past)]
  BY DEF Act
<1> HIDE DEF p, target, past, back
<1>7. m \in [Memory -> Bytes] /\ Same(Memory, c.m, m, Cells(c.obj))
  <2>1. Same(Memory, w.m, m, Range(c.obj.ret))
    BY <1>1, <1>2, StoreSame
  <2>2. Range(c.obj.ret) \subseteq Cells(c.obj)
    BY DEF Cells
  <2>3. m \in [Memory -> Bytes]
    BY <1>1, <1>3, StoreType
  <2> HIDE DEF m
  <2> QED
    BY <1>1, <2>1, <2>2, <2>3 DEF Same, Kept
<1>8. Load(m, c.obj.ret) = past
  BY <1>1, <1>2, <1>3, LoadStored
<1> HIDE DEF m
<1>9. p.m = m /\ p.at = target /\ p.via = <<>> /\ p.used = 0 /\ p.ok /\ ~p.over
  BY <1>1, <1>6 DEF Turns, m
<1>10. <<target, <<>>>> \in Nodes(c)
  BY <1>4, <1>5, ByteAt
<1> QED
  BY <1>5, <1>7, <1>8, <1>9, <1>10 DEF Stays, Kept

LEMMA ReturnStays ==
    ASSUME NEW c \in Cursors, NEW w, Underway(c, w), NEW cols,
           NEW row, ~BadRow(c.obj, row), row.kind = "return"
    PROVE  Stays(c, Act(c.obj, c.ops, w, row, cols))
<1> DEFINE target == Load(w.m, c.obj.ret)
           back == Flag(target >= w.at)
           p == Act(c.obj, c.ops, w, row, cols)
<1> SUFFICES Stays(c, p)
  OBVIOUS
<1>1. w \in Turns(Memory) /\ w.ok /\ ~w.over /\ w.used = 0 /\ Kept(c, w.m)
  BY DEF Underway, Stays
<1>2. <<target, <<>>>> \in Nodes(c)
  BY <1>1 DEF Kept, BadRow
<1>3. p = [w EXCEPT !.at = target, !.via = <<>>, !.jumped = TRUE, !.carry = back]
  BY DEF Act
<1> HIDE DEF p, target, back
<1>4. p.m = w.m /\ p.at = target /\ p.via = <<>> /\ p.used = 0 /\ p.ok /\ ~p.over
  BY <1>1, <1>3 DEF Turns
<1> QED
  BY <1>1, <1>2, <1>4 DEF Stays

LEMMA JumpStays ==
    ASSUME NEW c \in Cursors, NEW w, Underway(c, w), NEW cols \in Columns(c.obj),
           NEW row, IsRow(c.obj, row), row.kind = "jump", Led(c, w, row, cols)
    PROVE  Stays(c, Act(c.obj, c.ops, w, row, cols))
<1> DEFINE target == xf(row.to_, cols)
           p == Act(c.obj, c.ops, w, row, cols)
           v == [[w EXCEPT !.at = target, !.via = <<>>, !.jumped = TRUE, !.carry = Flag(target >= w.at)]
                    EXCEPT !.via = row.via]
           past == Past(c.obj, 1, c.ops[1] + target)
           held == fetch(c.obj, w.m, 1, c.ops[1] + target) \in row.hold
<1>1. target \in Bytes /\ target \in Int /\ target + 0 = target
  <2>1. Len(c.obj.tabs) \in Nat
    BY CursorsAssumption DEF IsCursor, Listed
  <2>2. target \in Bytes
    BY <2>1, XfType DEF IsRow
  <2> HIDE DEF target
  <2> QED
    BY <2>2 DEF Bytes
<1>2. p = IF target = w.at THEN [v EXCEPT !.via = w.via, !.over = TRUE]
          ELSE IF row.hold = {} THEN v
          ELSE IF past THEN [v EXCEPT !.ok = FALSE]
          ELSE IF held THEN [[v EXCEPT !.left = 0] EXCEPT !.over = TRUE]
          ELSE v
  BY DEF Act
<1>3. At(c, target) \in Nodes(c) /\ (target # w.at => <<target, row.via>> \in Nodes(c))
  BY DEF Led, Leads
<1>4. w \in Turns(Memory) /\ w.ok /\ ~w.over /\ w.used = 0 /\ Kept(c, w.m)
  BY DEF Underway, Stays
<1> SUFFICES Stays(c, p)
  OBVIOUS
<1> HIDE DEF p, target, past, held
<1>5. v.m = w.m /\ v.at = target /\ v.used = 0 /\ v.via = row.via /\ v.ok /\ ~v.over
      /\ DOMAIN v = {"m", "via", "jumped", "carry", "left", "at", "used", "over", "ok"}
  BY <1>4 DEF Turns
<1> HIDE DEF v
<1>6. CASE p = v /\ target # w.at
  BY <1>3, <1>4, <1>5, <1>6 DEF Stays
<1>7. CASE p = [v EXCEPT !.ok = FALSE]
  <2>1. p.m = v.m /\ ~p.ok
    BY <1>5, <1>7
  <2> QED
    BY <1>4, <1>5, <2>1 DEF Stays
<1>8. CASE \/ p = [v EXCEPT !.via = w.via, !.over = TRUE]
           \/ p = [[v EXCEPT !.left = 0] EXCEPT !.over = TRUE]
  <2>1. p.m = v.m /\ p.at = v.at /\ p.used = v.used /\ p.ok /\ p.over
    BY <1>5, <1>8
  <2> QED
    BY <1>1, <1>3, <1>4, <1>5, <2>1 DEF Stays
<1> QED
  BY <1>2, <1>6, <1>7, <1>8

LEMMA ActStays ==
    ASSUME NEW c \in Cursors, NEW w, Underway(c, w), NEW cols \in Columns(c.obj),
           NEW row, IsRow(c.obj, row), ~BadRow(c.obj, row), Led(c, w, row, cols)
    PROVE  Stays(c, Act(c.obj, c.ops, w, row, cols))
<1>1. row.kind \in {"stop", "jump", "call", "return", "sweep", "delay", "set", "end", "run"}
  BY DEF IsRow
<1>2. CASE row.kind = "stop"
  BY <1>2, StopStays
<1>3. CASE row.kind = "jump"
  BY <1>3, JumpStays
<1>4. CASE row.kind = "call"
  BY <1>4, CallStays
<1>5. CASE row.kind = "return"
  BY <1>5, ReturnStays
<1>6. CASE row.kind \in {"sweep", "delay"} /\ w.left = xf(row.count, cols)
  BY <1>6, CountedStays
<1>7. CASE row.kind \in {"sweep", "delay"} /\ w.left # xf(row.count, cols)
  BY <1>7, CountingStays
<1>8. CASE row.kind = "set"
  BY <1>8, SetStays
<1>9. CASE row.kind = "end"
  BY <1>9, EndStays
<1>10. CASE row.kind = "run"
  BY <1>10, RunStays
<1> QED
  BY <1>1, <1>2, <1>3, <1>4, <1>5, <1>6, <1>7, <1>8, <1>9, <1>10

LEMMA TurnStays ==
    ASSUME NEW c \in Cursors, NEW w, Underway(c, w)
    PROVE  Stays(c, Turn(c.obj, c.ops, w))
<1> DEFINE obj == c.obj
           node == <<w.at, w.via>>
           p == Turn(c.obj, c.ops, w)
           row == NodeRow(c, node)
           cols == NodeColumns(c, node)
<1>1. /\ w \in Turns(Memory) /\ w.at \in Int /\ w.m \in [Memory -> Bytes] /\ Kept(c, w.m)
      /\ node \in Nodes(c) /\ node[1] = w.at /\ node[2] = w.via
  BY DEF Underway, Stays, Turns
<1>2. node \in AllNodes(c.obj) /\ Follows(c, node) \subseteq Nodes(c)
  BY <1>1, NodesClosed
<1>3. [j \in 1..Len(obj.tabs) |-> fetch(obj, w.m, j, c.ops[j] + w.at)] = cols
  <2> SUFFICES ASSUME NEW j \in 1..Len(obj.tabs)
               PROVE  fetch(obj, w.m, j, c.ops[j] + w.at) = fetch(obj, c.m, j, c.ops[j] + w.at)
    BY <1>1 DEF NodeColumns
  <2> DEFINE addr == c.ops[j] + w.at
  <2>1. CASE obj.tabs[j] = <<>>
    <3>1. addr % Address \notin Cells(c.obj)
      <4>1. RowsApart(c)
        BY CursorsAssumption
      <4> QED
        BY <1>1, <2>1, <4>1 DEF RowsApart
    <3>2. addr \in Int
      <4>1. c.ops \in Seq(Int) /\ Parses(c.obj, Len(c.ops)) /\ Len(c.obj.tabs) \in Nat
        BY CursorsAssumption DEF IsCursor, Listed
      <4>2. j \in 1..Len(c.ops)
        BY <4>1 DEF Parses
      <4>3. c.ops[j] \in Int
        BY <4>1, <4>2
      <4> QED
        BY <1>1, <4>3
    <3> HIDE DEF addr
    <3>3. addr % Address \in Memory
      <4> DEFINE room == Address
      <4>1. room \in Nat /\ room > 0
        BY ByteAssumption DEF Address
      <4> HIDE DEF room
      <4>2. addr % room \in 0..(room - 1)
        BY <3>2, <4>1, Remainder
      <4> QED
        BY <4>2 DEF room, Memory
    <3>4. w.m[addr % Address] = c.m[addr % Address]
      BY <1>1, <3>1, <3>3 DEF Kept, Same
    <3>5. fetch(obj, w.m, j, addr) = w.m[addr % Address] /\ fetch(obj, c.m, j, addr) = c.m[addr % Address]
      BY <2>1 DEF fetch
    <3> QED
      BY <3>4, <3>5 DEF addr
  <2>2. CASE obj.tabs[j] # <<>>
    BY <2>2 DEF fetch
  <2> QED
    BY <2>1, <2>2
<1> SUFFICES Stays(c, p)
  OBVIOUS
<1>4. CASE NodePast(c, node)
  <2>1. p = [w EXCEPT !.ok = FALSE]
    BY <1>1, <1>4 DEF Turn, NodePast
  <2> HIDE DEF p
  <2>2. p.m = w.m /\ ~p.ok
    BY <1>1, <2>1 DEF Turns
  <2> QED
    BY <1>1, <2>2 DEF Stays
<1>5. CASE ~NodePast(c, node)
  <2>1. p = Act(c.obj, c.ops, w, row, cols)
    <3> DEFINE d == [j \in 1..Len(obj.tabs) |-> fetch(obj, w.m, j, c.ops[j] + w.at)]
    <3>1. p = Act(c.obj, c.ops, w, Row_(c.obj, IF w.via = <<>> THEN d[1] ELSE w.via[1], d), d)
      BY <1>1, <1>5 DEF Turn, NodePast
    <3>2. d = cols
      BY <1>3
    <3>3. row = Row_(c.obj, IF w.via = <<>> THEN cols[1] ELSE w.via[1], cols)
      BY <1>1 DEF NodeRow
    <3> HIDE DEF d, cols, row, p
    <3> QED
      BY <3>1, <3>2, <3>3
  <2>2. Led(c, w, row, cols)
    <3>1. Follows(c, node) = Leads(c, w.at, row, NodeTarget(c, node))
      BY <1>1, <1>5 DEF Follows
    <3> QED
      BY <1>2, <3>1 DEF Led, NodeTarget
  <2>3. /\ cols \in Columns(c.obj)
        /\ \/ row.kind = "stop"
           \/ IsRow(c.obj, row) /\ ~BadRow(c.obj, row)
    BY <1>2, <1>5, NodeRowType
  <2> HIDE DEF p, row, cols
  <2> QED
    BY <2>1, <2>2, <2>3, StopStays, ActStays
<1> QED
  BY <1>4, <1>5

LEMMA NextStays ==
    ASSUME NEW c \in Cursors, NEW w \in Turns(Memory), Stays(c, w)
    PROVE  Stays(c, NextTurn(c.obj, c.ops, w))
<1>1. CASE w.over \/ ~w.ok
  BY <1>1 DEF NextTurn
<1>2. CASE ~(w.over \/ ~w.ok)
  <2>1. NextTurn(c.obj, c.ops, w) = Turn(c.obj, c.ops, w)
    BY <1>2 DEF NextTurn
  <2>2. Underway(c, w)
    BY <1>2 DEF Underway
  <2> QED
    BY <2>1, <2>2, TurnStays
<1> QED
  BY <1>1, <1>2

LEMMA CursorHas ==
    ASSUME NEW c \in Cursors
    PROVE  /\ IsCursor(Memory, c.obj) /\ Parses(c.obj, Len(c.ops)) /\ Addressed(c.obj, c.ops)
           /\ IsCell(Memory, c.obj.pos) /\ Apart(c.obj.pos) /\ c.m \in [Memory -> Bytes]
           /\ Len(c.ops) = Len(c.obj.tabs) + 1 /\ Last(c.ops) \in Int /\ Last(c.ops) = c.ops[Len(c.ops)]
<1>1. /\ IsCursor(Memory, c.obj) /\ Parses(c.obj, Len(c.ops)) /\ c.ops \in Seq(Int)
      /\ IsCell(Memory, c.obj.pos) /\ Apart(c.obj.pos) /\ c.m \in [Memory -> Bytes]
  BY CursorsAssumption DEF IsCursor, CellsApart
<1>2. Len(c.ops) = Len(c.obj.tabs) + 1 /\ Len(c.obj.tabs) \in Nat
  BY <1>1 DEF Parses, IsCursor, Listed
<1>3. Addressed(c.obj, c.ops)
  <2> SUFFICES ASSUME NEW j \in 1..Len(c.obj.tabs) PROVE c.ops[j] \in Int
    BY DEF Addressed
  <2>1. j \in 1..Len(c.ops)
    BY <1>2
  <2> QED
    BY <1>1, <2>1
<1>4. Last(c.ops) \in Int
  BY RoundsType
<1> QED
  BY <1>1, <1>2, <1>3, <1>4 DEF Last

(* Where a step begins to read.                                            *)
Begins(c, m) == <<(Load(m, c.obj.pos) + Flag(c.obj.adv = "pre")) % Room(c.obj.pos), <<>>>>

LEMMA GoingTurns ==
    ASSUME NEW A, NEW w, NEW c, BothGoing(A, w, c)
    PROVE  w \in Turns(A) /\ w.ok
  BY Zenon DEF BothGoing

LEMMA AgreeTurns ==
    ASSUME NEW A, NEW w, NEW c, Agree(A, w, c)
    PROVE  w \in Turns(A) /\ (w.over => w.ok)
<1>1. CASE BothGoing(A, w, c)
  BY <1>1, GoingTurns
<1>2. CASE w \in Turns(A) /\ Over(w, c)
  BY <1>2 DEF Over
<1>3. CASE w \in Turns(A) /\ Failed(w, c)
  BY <1>3 DEF Failed
<1> QED
  BY <1>1, <1>2, <1>3 DEF Agree

LEMMA TurningStays ==
    ASSUME NEW c \in Cursors, NEW m \in [Memory -> Bytes], Kept(c, m), Begins(c, m) \in Nodes(c),
           NEW py, Turning(py, c.obj, m, c.ops)
    PROVE  LET last == py[JUMPS]
           IN  last \in Turns(Memory) /\ (last.over => last.ok) /\ Stays(c, last)
<1>1. /\ IsCursor(Memory, c.obj) /\ Parses(c.obj, Len(c.ops)) /\ Addressed(c.obj, c.ops)
  BY CursorHas
<1>2. PICK core : NativeTurning(core, c.obj, m, c.ops)
  BY <1>1, TurningsExist
<1>3. \A n \in 0..JUMPS : py[n] \in Turns(Memory) /\ (py[n].over => py[n].ok)
  <2>1. \A n \in 0..JUMPS : Agree(Memory, py[n], core[n])
    BY <1>1, <1>2, TurningsAgree
  <2> SUFFICES ASSUME NEW n \in 0..JUMPS PROVE py[n] \in Turns(Memory) /\ (py[n].over => py[n].ok)
    OBVIOUS
  <2>2. Agree(Memory, py[n], core[n])
    BY <2>1
  <2> QED
    BY <2>2, AgreeTurns
<1>4. JUMPS \in Nat
  BY JumpsAssumption
<1> DEFINE S == {k \in Nat : k <= JUMPS => Stays(c, py[k])}
<1>5. 0 \in S
  <2> DEFINE w == Walking(c.obj, m, StartLeft(c.obj, m))
  <2>1. py[0] = w
    BY <1>4 DEF Turning
  <2>2. w.m = m /\ ~w.over /\ w.used = 0 /\ <<w.at, w.via>> = Begins(c, m)
    BY DEF Walking, Begins
  <2> HIDE DEF w
  <2>3. Stays(c, w)
    BY <2>2 DEF Stays
  <2> QED
    BY <2>1, <2>3
<1>6. ASSUME NEW k \in S PROVE k + 1 \in S
  <2> SUFFICES ASSUME k + 1 <= JUMPS PROVE Stays(c, py[k + 1])
    OBVIOUS
  <2>1. Stays(c, py[k]) /\ k \in 0..JUMPS /\ k + 1 \in 0..JUMPS /\ k + 1 # 0 /\ (k + 1) - 1 = k
    BY <1>4
  <2>2. py[k + 1] = NextTurn(c.obj, c.ops, py[k])
    BY <2>1 DEF Turning
  <2> QED
    BY <1>3, <2>1, <2>2, NextStays
<1> HIDE DEF S
<1>7. JUMPS \in S
  BY <1>4, <1>5, <1>6, Induction DEF S
<1> QED
  BY <1>3, <1>4, <1>7 DEF S

(* What is kept in the cell of the place, and what is left of it by        *)
(* whatever is stored elsewhere.                                           *)
LEMMA PlaceStored ==
    ASSUME NEW c \in Cursors, NEW m \in [Memory -> Bytes], Kept(c, m), NEW v \in Int
    PROVE  LET n == Store(m, c.obj.pos, v % Room(c.obj.pos))
           IN  /\ n \in [Memory -> Bytes] /\ Kept(c, n)
               /\ Load(n, c.obj.pos) = v % Room(c.obj.pos)
<1> DEFINE place == v % Room(c.obj.pos)
           n == Store(m, c.obj.pos, place)
           D == Range(c.obj.pos)
<1>1. place \in 0..(Room(c.obj.pos) - 1)
  BY PlaceRoom
<1>2. place \in Int
  BY PlaceType
<1>3. IsCell(Memory, c.obj.pos) /\ Apart(c.obj.pos)
  BY CursorHas
<1>4. D \subseteq Cells(c.obj) /\ D \cap Range(c.obj.ret) = {}
  BY CellsOf
<1> HIDE DEF place
<1>5. n \in [Memory -> Bytes] /\ Load(n, c.obj.pos) = place /\ Same(Memory, m, n, D)
  BY <1>1, <1>2, <1>3, StoreType, LoadStored, StoreSame
<1> HIDE DEF n, D
<1>6. Kept(c, n)
  BY <1>4, <1>5, KeptOver
<1> QED
  BY <1>5, <1>6 DEF n, place

LEMMA CellPut ==
    ASSUME NEW c \in Cursors, NEW m \in [Memory -> Bytes], Kept(c, m), NEW v \in Bytes,
           NEW cell \in {c.obj.cnt, c.obj.run}, cell # <<>>
    PROVE  LET n == Put(m, cell[1], v)
           IN  n \in [Memory -> Bytes] /\ Kept(c, n) /\ Load(n, c.obj.pos) = Load(m, c.obj.pos)
<1> DEFINE n == Put(m, cell[1], v)
           D == Range(cell)
<1>1. IsCell(Memory, cell) /\ IsCell(Memory, c.obj.pos)
  BY CursorHas DEF IsCursor, Optional
<1>2. D \subseteq Cells(c.obj) /\ D \cap Range(c.obj.ret) = {} /\ Range(c.obj.pos) \cap D = {}
  BY CellsOf
<1>3. cell[1] \in D
  BY <1>1, CellRange
<1> HIDE DEF D
<1>4. n \in [Memory -> Bytes] /\ Same(Memory, m, n, D)
  BY <1>3, PutType, PutSame
<1> HIDE DEF n
<1>5. Kept(c, n) /\ Load(n, c.obj.pos) = Load(m, c.obj.pos)
  BY <1>1, <1>2, <1>4, KeptOver, LoadSame
<1> QED
  BY <1>4, <1>5 DEF n

(* A number that is taken from and put back in the room of a cell.         *)
LEMMA PlaceBack ==
    ASSUME NEW loc, NEW v \in Int, NEW f \in Int
    PROVE  (((v - f) % Room(loc)) + f) % Room(loc) = v % Room(loc)
<1> DEFINE room == Room(loc)
           r == (v - f) % room
           q == (v - f) \div room
           b == (r + f) % room
           a == (r + f) \div room
           s == v % room
           p == v \div room
<1>1. room \in Nat /\ room > 0
  BY RoomType
<1> HIDE DEF room
<1>2. r \in 0..(room - 1) /\ v - f = room * q + r /\ q \in Int
  <2> DEFINE u == v - f
  <2>1. u \in Int
    OBVIOUS
  <2> HIDE DEF u
  <2>2. u % room \in 0..(room - 1) /\ u = room * (u \div room) + (u % room) /\ u \div room \in Int
    BY <1>1, <2>1, Remainder
  <2> QED
    BY <2>2 DEF u
<1> HIDE DEF r, q
<1>3. b \in 0..(room - 1) /\ r + f = room * a + b /\ a \in Int
  <2> DEFINE u == r + f
  <2>1. u \in Int
    BY <1>1, <1>2
  <2> HIDE DEF u
  <2>2. u % room \in 0..(room - 1) /\ u = room * (u \div room) + (u % room) /\ u \div room \in Int
    BY <1>1, <2>1, Remainder
  <2> QED
    BY <2>2 DEF u
<1> HIDE DEF b, a
<1>4. s \in 0..(room - 1) /\ v = room * p + s /\ p \in Int
  BY <1>1, Remainder
<1> HIDE DEF s, p
<1>5. room * (q + a) = room * q + room * a /\ q + a \in Int /\ room * q \in Int /\ room * a \in Int
      /\ room * p \in Int
  BY <1>1, <1>2, <1>3, <1>4
<1>6. room * (q + a) + b = room * p + s
  BY <1>1, <1>2, <1>3, <1>4, <1>5
<1> DEFINE k == q + a
<1>7. k \in Int /\ room * k + b = room * p + s
  BY <1>5, <1>6
<1> HIDE DEF k
<1>8. b = s
  BY <1>1, <1>3, <1>4, <1>7, OneRemainder
<1> QED
  BY <1>8 DEF b, r, s, room

(* What a step that is not of a pending run leaves.                        *)
LEMMA WalkStays ==
    ASSUME NEW c \in Cursors, NEW m \in [Memory -> Bytes], Kept(c, m), Begins(c, m) \in Nodes(c),
           Pending(c.obj, m) = 0
    PROVE  LET step == walk(c.obj, m, c.ops)
           IN  /\ step.m \in [Memory -> Bytes] /\ step.ok \in BOOLEAN
               /\ step.ok => /\ Kept(c, step.m)
                             /\ At(c, Load(step.m, c.obj.pos) + Flag(c.obj.adv # "post")) \in Nodes(c)
<1> DEFINE obj == c.obj
           ops == c.ops
           py[n \in 0..JUMPS] ==
             IF n = 0 THEN Walking(obj, m, StartLeft(obj, m)) ELSE NextTurn(obj, ops, py[n - 1])
           last == py[JUMPS]
           step == walk(obj, m, ops)
<1>1. IsCursor(Memory, c.obj) /\ Parses(c.obj, Len(c.ops)) /\ Addressed(c.obj, c.ops)
  BY CursorHas
<1>2. Turning(py, obj, m, ops)
  <2>1. \E f : Turning(f, obj, m, ops)
    BY <1>1, TurningsExist
  <2> QED
    BY <2>1 DEF Turning
<1>3. step = Walked(obj, last)
  BY DEF walk, Pending, StartLeft
<1> HIDE DEF py, step
<1>4. last \in Turns(Memory) /\ (last.over => last.ok) /\ Stays(c, last)
  BY <1>2, TurningStays
<1> HIDE DEF last
<1>5. CASE ~last.over
  <2>1. step = Raised(last.m)
    BY <1>3, <1>5 DEF Walked
  <2>2. step.m = last.m /\ step.ok = FALSE
    BY <2>1 DEF Raised
  <2> QED
    BY <1>4, <2>2 DEF Turns, step
<1>6. CASE last.over
  <2> DEFINE f == Flag(obj.adv # "post")
             v == last.at + last.used
             place == (last.at + last.used - f) % Room(obj.pos)
             moved == Store(last.m, obj.pos, place)
             after == IF obj.cnt = <<>> THEN moved ELSE Put(moved, obj.cnt[1], last.left)
  <2>1. last.m \in [Memory -> Bytes] /\ last.left \in Bytes /\ v \in Int /\ f \in Int
        /\ last.at + last.used - f = v - f
    <3>1. /\ last.m \in [Memory -> Bytes] /\ last.left \in Bytes /\ last.at \in Int /\ last.used \in Int
      BY <1>4 DEF Turns
    <3>2. f \in Int
      BY FlagType
    <3> HIDE DEF f
    <3> QED
      BY <3>1, <3>2
  <2>2. step = Stepped(after, last.carry)
    BY <1>3, <1>6 DEF Walked
  <2>3. step.m = after /\ step.ok = TRUE
    BY <2>2 DEF Stepped
  <2>4. Kept(c, last.m) /\ At(c, v) \in Nodes(c)
    BY <1>4, <1>6 DEF Stays
  <2> HIDE DEF f, v
  <2>5. moved \in [Memory -> Bytes] /\ Kept(c, moved) /\ Load(moved, obj.pos) = (v - f) % Room(obj.pos)
    <3>1. v - f \in Int /\ place = (v - f) % Room(obj.pos)
      BY <2>1
    <3> HIDE DEF place
    <3> QED
      BY <2>1, <2>4, <3>1, PlaceStored
  <2> HIDE DEF moved
  <2>6. after \in [Memory -> Bytes] /\ Kept(c, after) /\ Load(after, obj.pos) = Load(moved, obj.pos)
    BY <2>1, <2>5, CellPut
  <2> HIDE DEF after
  <2>7. At(c, Load(after, obj.pos) + f) = At(c, v)
    BY <2>1, <2>5, <2>6, PlaceBack DEF At
  <2> QED
    BY <2>3, <2>4, <2>6, <2>7 DEF step, f
<1> QED
  BY <1>4, <1>5, <1>6 DEF Turns

(* What a step of a pending run leaves.                                    *)
LEMMA PendingStays ==
    ASSUME NEW c \in Cursors, NEW m \in [Memory -> Bytes], Kept(c, m), Pending(c.obj, m) # 0
    PROVE  LET step == walk(c.obj, m, c.ops)
           IN  /\ step.m \in [Memory -> Bytes] /\ step.ok = TRUE
               /\ Kept(c, step.m) /\ Load(step.m, c.obj.pos) = Load(m, c.obj.pos)
<1> DEFINE counted == Counted(c.obj, m)
           sets == RunSets(c.obj)
           zeros == Zeros(c.obj)
           left == StartLeft(c.obj, m)
           a == Emptied(c.obj, m)
           step == walk(c.obj, m, c.ops)
<1>1. IsCursor(Memory, c.obj) /\ Parses(c.obj, Len(c.ops)) /\ IsCell(Memory, c.obj.pos)
  BY CursorHas
<1>2. /\ c.obj.run # <<>> /\ counted \in [Memory -> Bytes]
      /\ Runs(c.obj) # {} => Taken(c.obj, sets) /\ zeros \in Columns(c.obj) /\ left \in Bytes
      /\ step = Stepped(IF Runs(c.obj) = {} THEN counted ELSE a.m, 0)
  BY <1>1, PendingStep
<1> HIDE DEF step
<1>3. Kept(c, counted) /\ Load(counted, c.obj.pos) = Load(m, c.obj.pos)
  <2>1. IsCell(Memory, c.obj.run)
    BY <1>1, <1>2 DEF IsCursor, Optional
  <2> DEFINE D == Range(c.obj.run)
  <2>2. D \subseteq Cells(c.obj) /\ D \cap Range(c.obj.ret) = {} /\ Range(c.obj.pos) \cap D = {}
    BY CellsOf
  <2>3. c.obj.run[1] \in D
    BY <2>1, CellRange
  <2> HIDE DEF D
  <2>4. Same(Memory, m, counted, D)
    BY <2>3, PutSame DEF Counted
  <2> HIDE DEF counted
  <2> QED
    BY <1>1, <2>2, <2>4, KeptOver, LoadSame
<1>4. CASE Runs(c.obj) = {}
  <2>1. step.m = counted /\ step.ok = TRUE
    BY <1>2, <1>4 DEF Stepped
  <2> QED
    BY <1>2, <1>3, <2>1 DEF step
<1>5. CASE Runs(c.obj) # {}
  <2>1. step.m = a.m /\ step.ok = TRUE
    BY <1>2, <1>5 DEF Stepped
  <2>2. a = assign(c.obj, counted, zeros, sets, left)
    BY DEF Emptied
  <2> HIDE DEF a, counted, zeros, sets, left
  <2>3. a \in Held(Memory) /\ Kept(c, a.m)
    BY <1>2, <1>3, <1>5, <2>2, AssignKept
  <2>4. Same(Memory, counted, a.m, ValueBytes(c.obj))
    BY <1>1, <1>2, <1>5, <2>2, AssignSame
  <2>5. Load(a.m, c.obj.pos) = Load(counted, c.obj.pos)
    <3>1. Range(c.obj.pos) \cap ValueBytes(c.obj) = {}
      BY CellsOf
    <3> QED
      BY <1>1, <2>4, <3>1, LoadSame
  <2> QED
    BY <1>3, <2>1, <2>3, <2>5 DEF Held, step
<1> QED
  BY <1>4, <1>5

-----------------------------------------------------------------------------
(* The objects in use.                                                     *)

StandsOnRow(v) == <<Stands(v), <<>>>> \in Nodes(v.c)
CursorStates == [area : {"cursor"}, c : Cursors, ok : BOOLEAN, settled : BOOLEAN, m : [Memory -> Bytes]]
ScalarStates == [area : {"scalar"}, obj : Scalars, m : [Memory -> Bytes]]
CursorStands(v) ==
    /\ v \in CursorStates
    /\ v.ok => Kept(v.c, v.m) /\ StandsOnRow(v) /\ (~v.settled => v.c.obj.adv = "settle")
ObjectsInv == CursorStands(state) \/ state \in ScalarStates

(* A cursor owes a byte before its first step if it advances first, and    *)
(* after a step if it settles; and one that settles for as long as a run   *)
(* is pending.                                                             *)
LEMMA OwedBy ==
    ASSUME NEW v \in CursorStates
    PROVE  /\ v.settled /\ Pending(v.c.obj, v.m) = 0 => Flag(Owed(v)) = Flag(v.c.obj.adv = "pre")
           /\ ~v.settled \/ Pending(v.c.obj, v.m) # 0 => Flag(Owed(v)) = Flag(v.c.obj.adv # "post")
<1>1. v.c.obj.adv \in {"post", "pre", "settle"}
  BY CursorsAssumption DEF CursorStates
<1>2. Pending(v.c.obj, v.m) # 0 <=> v.c.obj.run # <<>> /\ v.m[v.c.obj.run[1]] # 0
  BY DEF Pending
<1>3. v.settled \in BOOLEAN
  BY DEF CursorStates
<1>4. Owed(v) <=> \/ v.c.obj.adv = "pre"
                  \/ v.c.obj.adv = "settle" /\ (~v.settled \/ Pending(v.c.obj, v.m) # 0)
  BY <1>2 DEF Owed
<1> QED
  BY <1>1, <1>3, <1>4 DEF Flag

(* A reset puts the cursor where it begins.                                *)
LEMMA ResetStands ==
    ASSUME NEW c \in Cursors, NEW m \in [Memory -> Bytes], Kept(c, m),
           NEW v \in CursorStates, v.c = c, v.settled, v.m = reset(c.obj, m, Last(c.ops)).m
    PROVE  CursorStands(v)
<1> DEFINE f == Flag(c.obj.adv = "pre")
           start == Last(c.ops)
           moved == Store(m, c.obj.pos, (start - f) % Room(c.obj.pos))
           counted == IF c.obj.cnt = <<>> THEN moved ELSE Put(moved, c.obj.cnt[1], 0)
           after == IF c.obj.run = <<>> THEN counted ELSE Put(counted, c.obj.run[1], 0)
<1>1. start \in Int /\ f \in Int /\ start - f \in Int
  <2>1. start \in Int /\ f \in Int
    BY CursorHas, FlagType
  <2> HIDE DEF start, f
  <2> QED
    BY <2>1
<1>2. v.m = after
  BY DEF reset, Stepped
<1>3. moved \in [Memory -> Bytes] /\ Kept(c, moved) /\ Load(moved, c.obj.pos) = (start - f) % Room(c.obj.pos)
  <2> HIDE DEF f, start
  <2> QED
    BY <1>1, PlaceStored
<1> HIDE DEF f, start, moved
<1>4. 0 \in Bytes
  BY ByteAssumption DEF Bytes
<1>5. counted \in [Memory -> Bytes] /\ Kept(c, counted) /\ Load(counted, c.obj.pos) = Load(moved, c.obj.pos)
  BY <1>3, <1>4, CellPut
<1> HIDE DEF counted
<1>6. after \in [Memory -> Bytes] /\ Kept(c, after) /\ Load(after, c.obj.pos) = Load(counted, c.obj.pos)
  BY <1>4, <1>5, CellPut
<1>7. Pending(c.obj, after) = 0
  <2>1. CASE c.obj.run = <<>>
    BY <2>1 DEF Pending
  <2>2. CASE c.obj.run # <<>>
    <3>1. c.obj.run[1] \in Memory
      BY <2>2, CursorHas, CellParts DEF IsCursor, Optional
    <3> QED
      BY <1>5, <2>2, <3>1 DEF Pending, Put
  <2> QED
    BY <2>1, <2>2
<1> HIDE DEF after
<1>8. Flag(Owed(v)) = f
  BY <1>2, <1>7, OwedBy DEF f
<1>9. Stands(v) = start % Room(c.obj.pos)
  <2>1. Stands(v) = (((start - f) % Room(c.obj.pos)) + f) % Room(c.obj.pos)
    BY <1>2, <1>3, <1>5, <1>6, <1>8 DEF Stands
  <2> QED
    BY <1>1, <2>1, PlaceBack
<1>10. At(c, start) \in Nodes(c)
  BY NodesClosed DEF start
<1>11. StandsOnRow(v)
  BY <1>9, <1>10 DEF StandsOnRow, At
<1> QED
  BY <1>2, <1>6, <1>11 DEF CursorStands

Stepping(v) == [v EXCEPT !.m = walk(v.c.obj, v.m, v.c.ops).m, !.ok = walk(v.c.obj, v.m, v.c.ops).ok,
                         !.settled = v.c.obj.adv # "settle"]
Settling(v) == [v EXCEPT !.m = settle(v.c.obj, v.m).m, !.settled = TRUE]

LEMMA StepStands ==
    ASSUME NEW v, CursorStands(v), v.ok, v.settled
    PROVE  CursorStands(Stepping(v))
<1> DEFINE w == Stepping(v)
           step == walk(v.c.obj, v.m, v.c.ops)
           now == v.c.obj.adv # "settle"
<1> SUFFICES CursorStands(w) OBVIOUS
<1>1. /\ v \in CursorStates /\ v.c \in Cursors /\ v.m \in [Memory -> Bytes]
      /\ Kept(v.c, v.m) /\ StandsOnRow(v)
  BY DEF CursorStands, CursorStates
<1>2. w = [v EXCEPT !.m = step.m, !.ok = step.ok, !.settled = now]
  BY DEF Stepping
<1>3. v.c.obj.adv \in {"post", "pre", "settle"}
  BY <1>1, CursorsAssumption
<1>4. now \in BOOLEAN /\ (~now => v.c.obj.adv = "settle") /\ (now => v.c.obj.adv # "settle")
  OBVIOUS
<1> HIDE DEF w, step, now
<1>5. ASSUME step.m \in [Memory -> Bytes], step.ok \in BOOLEAN
      PROVE  w \in CursorStates /\ w.c = v.c /\ w.m = step.m /\ w.ok = step.ok /\ w.settled = now
  BY <1>1, <1>2, <1>4, <1>5 DEF CursorStates
<1>6. ASSUME w \in CursorStates, w.c = v.c, w.settled = now
      PROVE  Flag(Owed(w)) = Flag(v.c.obj.adv # "post")
  <2>1. CASE now
    <3>1. Owed(w) <=> v.c.obj.adv = "pre"
      BY <1>4, <1>6, <2>1 DEF Owed
    <3> QED
      BY <1>3, <1>4, <2>1, <3>1 DEF Flag
  <2>2. CASE ~now
    <3>1. ~w.settled
      BY <1>6, <2>2
    <3>2. Flag(Owed(w)) = Flag(w.c.obj.adv # "post")
      BY <1>6, <3>1, OwedBy
    <3> QED
      BY <1>6, <3>2
  <2> QED
    BY <2>1, <2>2
<1>7. CASE Pending(v.c.obj, v.m) # 0
  <2>1. step.m \in [Memory -> Bytes] /\ step.ok = TRUE /\ Kept(v.c, step.m)
        /\ Load(step.m, v.c.obj.pos) = Load(v.m, v.c.obj.pos)
    BY <1>1, <1>7, PendingStays DEF step
  <2>2. step.ok \in BOOLEAN
    BY <2>1
  <2>3. w \in CursorStates /\ w.c = v.c /\ w.m = step.m /\ w.settled = now
    BY <1>5, <2>1, <2>2
  <2>4. Flag(Owed(w)) = Flag(Owed(v))
    BY <1>1, <1>6, <1>7, <2>3, OwedBy
  <2>5. Stands(w) = Stands(v)
    BY <2>1, <2>3, <2>4 DEF Stands
  <2>6. StandsOnRow(w)
    BY <1>1, <2>3, <2>5 DEF StandsOnRow
  <2> QED
    BY <1>4, <2>1, <2>3, <2>6 DEF CursorStands
<1>8. CASE Pending(v.c.obj, v.m) = 0
  <2>1. Begins(v.c, v.m) \in Nodes(v.c)
    <3>1. Flag(Owed(v)) = Flag(v.c.obj.adv = "pre")
      BY <1>1, <1>8, OwedBy
    <3> QED
      BY <1>1, <3>1 DEF StandsOnRow, Stands, Begins
  <2>2. /\ step.m \in [Memory -> Bytes] /\ step.ok \in BOOLEAN
        /\ step.ok => /\ Kept(v.c, step.m)
                      /\ At(v.c, Load(step.m, v.c.obj.pos) + Flag(v.c.obj.adv # "post")) \in Nodes(v.c)
    BY <1>1, <1>8, <2>1, WalkStays DEF step
  <2>3. w \in CursorStates /\ w.c = v.c /\ w.m = step.m /\ w.ok = step.ok /\ w.settled = now
    BY <1>5, <2>2
  <2>4. Flag(Owed(w)) = Flag(v.c.obj.adv # "post")
    BY <1>6, <2>3
  <2>5. ASSUME step.ok PROVE StandsOnRow(w)
    BY <2>2, <2>3, <2>4, <2>5 DEF StandsOnRow, Stands, At
  <2> QED
    BY <1>4, <2>2, <2>3, <2>5 DEF CursorStands
<1> QED
  BY <1>7, <1>8

LEMMA SettleStands ==
    ASSUME NEW v, CursorStands(v), v.ok, ~v.settled
    PROVE  CursorStands(Settling(v))
<1> DEFINE w == Settling(v)
           after == settle(v.c.obj, v.m).m
<1> SUFFICES CursorStands(w) OBVIOUS
<1>1. /\ v \in CursorStates /\ v.c \in Cursors /\ v.m \in [Memory -> Bytes]
      /\ Kept(v.c, v.m) /\ StandsOnRow(v) /\ v.c.obj.adv = "settle"
  BY DEF CursorStands, CursorStates
<1>2. w = [v EXCEPT !.m = after, !.settled = TRUE]
  BY DEF Settling
<1>3. Flag(Owed(v)) = 1
  <2>1. Flag(Owed(v)) = Flag(v.c.obj.adv # "post")
    BY <1>1, OwedBy
  <2> QED
    BY <1>1, <2>1 DEF Flag
<1> HIDE DEF w, after
<1>4. ASSUME after \in [Memory -> Bytes]
      PROVE  w \in CursorStates /\ w.c = v.c /\ w.m = after /\ w.settled
  BY <1>1, <1>2, <1>4 DEF CursorStates
<1>5. CASE Pending(v.c.obj, v.m) # 0
  <2>1. after = v.m
    BY <1>5 DEF settle, Stepped, Pending, after
  <2>2. w \in CursorStates /\ w.c = v.c /\ w.m = v.m /\ w.settled
    BY <1>1, <1>4, <2>1
  <2>3. Flag(Owed(w)) = 1
    <3>1. Flag(Owed(w)) = Flag(w.c.obj.adv # "post")
      BY <1>5, <2>2, OwedBy
    <3> QED
      BY <1>1, <2>2, <3>1 DEF Flag
  <2>4. Stands(w) = Stands(v)
    BY <1>3, <2>2, <2>3 DEF Stands
  <2> QED
    BY <1>1, <2>2, <2>4 DEF CursorStands, StandsOnRow
<1>6. CASE Pending(v.c.obj, v.m) = 0
  <2> DEFINE loc == v.c.obj.pos
             next == Load(v.m, loc) + 1
             n == Store(v.m, loc, next % Room(loc))
  <2>1. after = n
    BY <1>6 DEF settle, Stepped, Pending, after
  <2>2. next \in Int
    BY <1>1, CursorHas, LoadType
  <2> HIDE DEF next
  <2>3. n \in [Memory -> Bytes] /\ Kept(v.c, n) /\ Load(n, loc) = next % Room(loc)
    BY <1>1, <2>2, PlaceStored
  <2>4. Pending(v.c.obj, n) = 0
    <3>1. CASE v.c.obj.run = <<>>
      BY <3>1 DEF Pending
    <3>2. CASE v.c.obj.run # <<>>
      <4> DEFINE D == Range(loc)
      <4>1. IsCell(Memory, v.c.obj.run) /\ IsCell(Memory, loc)
        BY <1>1, <3>2, CursorHas DEF IsCursor, Optional
      <4>2. v.c.obj.run[1] \in Memory /\ v.c.obj.run[1] \notin D
        <5>1. Range(v.c.obj.run) \cap Range(v.c.obj.pos) = {}
          BY <1>1, CellsOf
        <5> QED
          BY <4>1, <5>1, CellRange
      <4>3. Same(Memory, v.m, n, D)
        BY <1>1, <4>1, StoreSame
      <4> HIDE DEF D, n
      <4>4. n[v.c.obj.run[1]] = v.m[v.c.obj.run[1]]
        BY <4>2, <4>3 DEF Same
      <4> QED
        BY <1>6, <3>2, <4>4 DEF Pending
    <3> QED
      BY <3>1, <3>2
  <2> HIDE DEF n
  <2>5. w \in CursorStates /\ w.c = v.c /\ w.m = n /\ w.settled
    BY <1>4, <2>1, <2>3
  <2>6. Flag(Owed(w)) = 0
    <3>1. Flag(Owed(w)) = Flag(w.c.obj.adv = "pre")
      BY <2>4, <2>5, OwedBy
    <3> QED
      BY <1>1, <2>5, <3>1 DEF Flag
  <2>7. Stands(w) = Stands(v)
    <3>1. Stands(w) = ((next % Room(loc)) + 0) % Room(loc)
      BY <2>3, <2>5, <2>6 DEF Stands
    <3>2. Stands(v) = next % Room(loc)
      BY <1>3 DEF Stands, next
    <3>3. next % Room(loc) \in 0..(Room(loc) - 1) /\ next % Room(loc) \in Int
      BY <2>2, PlaceRoom, PlaceType
    <3> DEFINE u == next % Room(loc)
    <3> HIDE DEF u
    <3>4. u + 0 = u /\ u % Room(loc) = u
      BY <3>3, RoomKept DEF u
    <3> QED
      BY <3>1, <3>2, <3>4 DEF u
  <2> QED
    BY <1>1, <2>3, <2>5, <2>7 DEF CursorStands, StandsOnRow
<1> QED
  BY <1>5, <1>6

LEMMA ResetType ==
    ASSUME NEW c \in Cursors, NEW m \in [Memory -> Bytes]
    PROVE  reset(c.obj, m, Last(c.ops)).m \in [Memory -> Bytes]
<1> DEFINE sum == Last(c.ops) - Flag(c.obj.adv = "pre")
           place == sum % Room(c.obj.pos)
           moved == Store(m, c.obj.pos, place)
           counted == IF c.obj.cnt = <<>> THEN moved ELSE Put(moved, c.obj.cnt[1], 0)
<1>1. reset(c.obj, m, Last(c.ops)).m = IF c.obj.run = <<>> THEN counted ELSE Put(counted, c.obj.run[1], 0)
  BY DEF reset, Stepped
<1>2. place \in Int
  <2>1. sum \in Int
    BY CursorHas, FlagType
  <2> HIDE DEF sum
  <2> QED
    BY <2>1, PlaceType
<1> HIDE DEF place
<1>3. moved \in [Memory -> Bytes]
  BY <1>2, StoreType
<1>4. 0 \in Bytes
  BY ByteAssumption DEF Bytes
<1> HIDE DEF moved
<1>5. counted \in [Memory -> Bytes]
  BY <1>3, <1>4, PutType
<1> HIDE DEF counted
<1> QED
  BY <1>1, <1>4, <1>5, PutType

(* A step of a counter, owner or accumulator leaves bytes: a byte that is  *)
(* flipped stays one, as there is an even number of them.                  *)
LEMMA FlippedByte ==
    ASSUME NEW d \in Bytes
    PROVE  d + 1 - 2 * (d % 2) \in Bytes
<1>1. PICK half \in Int : Byte = 2 * half
  <2>1. Byte % 2 = 0 /\ Byte \in Int
    BY ScalarsAssumption, ByteAssumption
  <2>2. Byte = 2 * (Byte \div 2) + (Byte % 2) /\ Byte \div 2 \in Int
    BY <2>1, Remainder
  <2> QED
    BY <2>1, <2>2
<1>2. PICK q \in Int, r \in {0, 1} : d = 2 * q + r /\ r = d % 2
  <2>1. d \in Int
    BY ByteAssumption DEF Bytes
  <2>2. d % 2 \in 0..1 /\ d = 2 * (d \div 2) + (d % 2) /\ d \div 2 \in Int
    BY <2>1, Remainder
  <2> QED
    BY <2>2
<1>3. d >= 0 /\ d < Byte /\ d \in Int /\ Byte \in Int
  BY ByteAssumption DEF Bytes
<1>4. CASE r = 0
  <2>1. d + 1 < Byte
    BY <1>1, <1>2, <1>3, <1>4
  <2> QED
    BY <1>2, <1>3, <1>4, <2>1, ByteAssumption DEF Bytes
<1>5. CASE r = 1
  BY <1>2, <1>3, <1>5, ByteAssumption DEF Bytes
<1> QED
  BY <1>2, <1>4, <1>5

LEMMA ScalarType ==
    ASSUME NEW obj \in Scalars, NEW m \in [Memory -> Bytes], NEW reaction \in Reactions(obj),
           NEW x \in Int, NEW y \in Int
    PROVE  Python(obj, reaction, m, x, y).m \in [Memory -> Bytes]
<1> DEFINE value == Load(m, obj.cell)
           p == Python(obj, reaction, m, x, y)
<1>1. /\ obj.kind \in {"counter", "owner", "accum"} /\ IsCell(Memory, obj.cell)
      /\ obj.kind = "counter" => obj.delta \in Int
      /\ obj.kind = "accum" => IsCell(Memory, obj.dir)
  BY ScalarsAssumption
<1>2. value \in Int /\ Len(obj.cell) \in {1, 2}
  BY <1>1, LoadType, CellParts
<1>3. \A v \in Int : Store(m, obj.cell, v) \in [Memory -> Bytes]
                     /\ Store(m, obj.cell, v % Room(obj.cell)) \in [Memory -> Bytes]
  BY <1>2, StoreType, StoreKeeps
<1> HIDE DEF value
<1>4. CASE obj.kind = "counter"
  <2> DEFINE after == IF reaction = "up" THEN value + obj.delta ELSE value - obj.delta
  <2>1. after \in Int
    BY <1>1, <1>2, <1>4
  <2>2. p = counter(obj, reaction, m, x, y)
    BY <1>4 DEF Python
  <2>3. \/ p.m = Store(m, obj.cell, y) \/ p.m = Store(m, obj.cell, y % Room(obj.cell))
        \/ p.m = Store(m, obj.cell, after % Room(obj.cell))
    BY <2>2 DEF counter, Stepped, value
  <2> HIDE DEF after, p
  <2> QED
    BY <1>3, <2>1, <2>3 DEF p
<1>5. CASE obj.kind = "owner"
  <2>1. p = owner(obj, reaction, m, x, y, x % 2)
    BY <1>5 DEF Python
  <2>2. p.m = m \/ p.m = Store(m, obj.cell, x) \/ p.m = Store(m, obj.cell, y)
    BY <2>1 DEF owner, Stepped
  <2> HIDE DEF p
  <2> QED
    BY <1>3, <2>2 DEF p
<1>6. CASE obj.kind = "accum"
  <2>1. p = accum(obj, reaction, m, x, y) /\ reaction \in {"ramp", "to", "tri", "flip"}
    BY <1>6 DEF Python, Reactions
  <2>2. CASE reaction = "flip"
    <3> DEFINE d == m[obj.dir[1]]
    <3>1. p.m = Put(m, obj.dir[1], d + 1 - 2 * (d % 2))
      BY <2>1, <2>2 DEF accum, Stepped
    <3>2. d \in Bytes
      BY <1>1, <1>6, CellParts
    <3> HIDE DEF d, p
    <3>3. d + 1 - 2 * (d % 2) \in Bytes
      BY <3>2, FlippedByte
    <3> QED
      BY <3>1, <3>3, PutType DEF p
  <2>3. CASE reaction = "to"
    <3> DEFINE moved == IF value < y THEN IF value + x < y THEN value + x ELSE y
                        ELSE IF value - x > y THEN value - x ELSE y
    <3>1. moved \in Int
      BY <1>2
    <3>2. p.m = m \/ p.m = Store(m, obj.cell, moved)
      BY <2>1, <2>3 DEF accum, Stepped, value
    <3> HIDE DEF moved, p
    <3> QED
      BY <1>3, <3>1, <3>2 DEF p
  <2>4. CASE reaction \in {"ramp", "tri"}
    <3> DEFINE down == reaction = "tri" /\ m[obj.dir[1]] % 2 = 1
               after == IF down THEN value - x ELSE value + x
    <3>1. after \in Int
      BY <1>2
    <3>2. p.m = Store(m, obj.cell, after % Room(obj.cell))
      BY <2>1, <2>4 DEF accum, Stepped, value
    <3> HIDE DEF after, p
    <3> QED
      BY <1>3, <3>1, <3>2 DEF p
  <2> QED
    BY <2>1, <2>2, <2>3, <2>4
<1> QED
  BY <1>1, <1>4, <1>5, <1>6

LEMMA ScalarsAgree ==
    ASSUME NEW obj \in Scalars, NEW m \in [Memory -> Bytes], NEW reaction \in Reactions(obj),
           NEW x \in Int, NEW y \in Int
    PROVE  Python(obj, reaction, m, x, y) = Native(obj, reaction, m, x, y)
<1>1. /\ obj.kind \in {"counter", "owner", "accum"} /\ IsCell(Memory, obj.cell)
      /\ obj.kind = "counter" => obj.delta \in Int /\ obj.gated \in BOOLEAN
      /\ obj.kind = "accum" => IsCell(Memory, obj.dir)
  BY ScalarsAssumption
<1>2. CASE obj.kind = "counter"
  <2>1. reaction \in {"reset", "up", "down"}
    BY <1>2 DEF Reactions
  <2>2. native_counter(obj, CounterCode(obj, reaction), m, x, y) = counter(obj, reaction, m, x, y)
    BY <1>1, <1>2, <2>1, CountersAgree
  <2> QED
    BY <1>2, <2>2 DEF Python, Native
<1>3. CASE obj.kind = "owner"
  <2>1. reaction \in {"claim", "release"}
    BY <1>3 DEF Reactions
  <2>2. native_owner(obj, reaction = "release", m, x, y, x % 2) = owner(obj, reaction, m, x, y, x % 2)
    BY <2>1, OwnersAgree
  <2> QED
    BY <1>3, <2>2 DEF Python, Native
<1>4. CASE obj.kind = "accum"
  <2>1. reaction \in {"ramp", "to", "tri", "flip"}
    BY <1>4 DEF Reactions
  <2>2. IsCell(Memory, obj.cell) /\ IsCell(Memory, obj.dir)
    BY <1>1, <1>4
  <2>3. native_accum(obj, AccumCode(reaction), m, x, y) = accum(obj, reaction, m, x, y)
    BY <2>1, <2>2, AccumulatorsAgree
  <2> QED
    BY <1>4, <2>3 DEF Python, Native
<1> QED
  BY <1>1, <1>2, <1>3, <1>4

LEMMA ObjectsInvInit == ObjectsInit => ObjectsInv
<1>1. CASE CursorInit
  <2>1. PICK c \in Cursors :
           state = [area |-> "cursor", c |-> c, ok |-> TRUE, settled |-> TRUE,
                    m |-> reset(c.obj, c.m, Last(c.ops)).m]
    BY <1>1 DEF CursorInit
  <2>2. c.m \in [Memory -> Bytes] /\ Kept(c, c.m)
    <3>1. ReturnsToRow(c)
      BY CursorsAssumption
    <3> QED
      BY <3>1, CursorHas DEF Kept, Same, ReturnsToRow
  <2> DEFINE n == reset(c.obj, c.m, Last(c.ops)).m
  <2>3. n \in [Memory -> Bytes]
    BY <2>2, ResetType
  <2>4. state \in CursorStates /\ state.c = c /\ state.settled /\ state.m = n
    <3> HIDE DEF n
    <3>1. state = [area |-> "cursor", c |-> c, ok |-> TRUE, settled |-> TRUE, m |-> n]
      BY <2>1 DEF n
    <3> QED
      BY <2>3, <3>1 DEF CursorStates
  <2>5. CursorStands(state)
    BY <2>2, <2>4, ResetStands
  <2> QED
    BY <2>5 DEF ObjectsInv
<1>2. CASE ScalarInit
  <2>1. 0 \in Bytes
    BY ByteAssumption DEF Bytes
  <2> QED
    BY <1>2, <2>1 DEF ScalarInit, ObjectsInv, ScalarStates
<1> QED
  BY <1>1, <1>2 DEF ObjectsInit

LEMMA ObjectsInvNext == ObjectsInv /\ [ObjectsNext]_state => ObjectsInv'
<1> SUFFICES ASSUME ObjectsInv, [ObjectsNext]_state PROVE ObjectsInv'
  OBVIOUS
<1>1. ASSUME state.area = "cursor" PROVE CursorStands(state)
  BY <1>1 DEF ObjectsInv, ScalarStates
<1>2. CASE CursorStep
  <2>1. CursorStands(state) /\ state.ok /\ state.settled
    BY <1>1, <1>2 DEF CursorStep
  <2>2. state' = Stepping(state)
    BY <1>2 DEF CursorStep, Stepping
  <2>3. CursorStands(Stepping(state))
    BY <2>1, StepStands
  <2> QED
    BY <2>2, <2>3 DEF ObjectsInv
<1>3. CASE CursorSettle
  <2>1. CursorStands(state) /\ state.ok /\ ~state.settled
    BY <1>1, <1>3 DEF CursorSettle
  <2>2. state' = Settling(state)
    BY <1>3 DEF CursorSettle, Settling
  <2>3. CursorStands(Settling(state))
    BY <2>1, SettleStands
  <2> QED
    BY <2>2, <2>3 DEF ObjectsInv
<1>4. CASE CursorReset
  <2> DEFINE n == reset(state.c.obj, state.m, Last(state.c.ops)).m
  <2>1. /\ CursorStands(state) /\ state.ok /\ state.settled /\ state \in CursorStates
        /\ state.c \in Cursors /\ state.m \in [Memory -> Bytes] /\ Kept(state.c, state.m)
    BY <1>1, <1>4 DEF CursorReset, CursorStands, CursorStates
  <2>2. state' = [state EXCEPT !.m = n]
    BY <1>4 DEF CursorReset
  <2>3. n \in [Memory -> Bytes]
    BY <2>1, ResetType
  <2>4. state' \in CursorStates /\ state'.c = state.c /\ state'.settled /\ state'.m = n
    <3> HIDE DEF n
    <3> QED
      BY <2>1, <2>2, <2>3 DEF CursorStates
  <2>5. CursorStands(state')
    BY <2>1, <2>4, ResetStands
  <2> QED
    BY <2>5 DEF ObjectsInv
<1>5. CASE ScalarStep
  <2>1. state \in ScalarStates /\ state.obj \in Scalars /\ state.m \in [Memory -> Bytes]
    BY <1>5 DEF ScalarStep, ObjectsInv, CursorStands, CursorStates, ScalarStates
  <2>2. PICK reaction \in Reactions(state.obj), x, y \in 0..(Room(state.obj.cell) - 1) :
           state' = [state EXCEPT !.m = Python(state.obj, reaction, state.m, x, y).m]
    BY <1>5 DEF ScalarStep
  <2> DEFINE n == Python(state.obj, reaction, state.m, x, y).m
  <2>3. n \in [Memory -> Bytes]
    <3>1. x \in Int /\ y \in Int
      BY <2>2, RoomType
    <3> QED
      BY <2>1, <3>1, ScalarType
  <2>4. state' \in ScalarStates
    <3>1. state' = [state EXCEPT !.m = n]
      BY <2>2
    <3> HIDE DEF n
    <3> QED
      BY <2>1, <2>3, <3>1 DEF ScalarStates
  <2> QED
    BY <2>4 DEF ObjectsInv
<1>6. CASE UNCHANGED state
  BY <1>6 DEF ObjectsInv
<1> QED
  BY <1>2, <1>3, <1>4, <1>5, <1>6 DEF ObjectsNext

LEMMA ObjectsInvAgrees == ObjectsInv => ObjectsAgree
<1> SUFFICES ASSUME ObjectsInv PROVE ObjectsAgree
  OBVIOUS
<1>1. ASSUME state.area = "cursor" PROVE CursorStands(state) /\ state \in CursorStates
  BY <1>1 DEF ObjectsInv, ScalarStates, CursorStands
<1>2. OnRow
  <2> SUFFICES ASSUME state.area = "cursor", state.ok PROVE Stands(state) \in RowsOf[state.c]
    BY DEF OnRow
  <2>1. state.c \in Cursors /\ <<Stands(state), <<>>>> \in Nodes(state.c)
    BY <1>1 DEF CursorStands, CursorStates, StandsOnRow
  <2> DEFINE node == <<Stands(state), <<>>>>
  <2>2. node \in Nodes(state.c) /\ node[1] = Stands(state)
    BY <2>1
  <2> HIDE DEF node
  <2>3. Stands(state) \in Places(state.c)
    BY <2>2 DEF Places
  <2> QED
    BY <2>1, <2>3 DEF RowsOf
<1>3. ASSUME state.area = "cursor"
      PROVE  LET obj == state.c.obj
                 ops == state.c.ops
             IN  /\ \A py \in {walk(obj, state.m, ops)}, core \in {native_cursor(obj, 0, state.m, ops)} :
                       core.ok = py.ok /\ (py.ok => core = py)
                 /\ native_cursor(obj, 1, state.m, ops) = reset(obj, state.m, Last(ops))
                 /\ native_cursor(obj, 2, state.m, ops) = settle(obj, state.m)
  <2> DEFINE obj == state.c.obj
             ops == state.c.ops
  <2>1. state.c \in Cursors /\ state.m \in [Memory -> Bytes]
    BY <1>1, <1>3 DEF CursorStates
  <2>2. IsCursor(Memory, obj) /\ Parses(obj, Len(ops)) /\ Addressed(obj, ops) /\ Last(ops) = ops[Len(ops)]
    BY <2>1, CursorHas
  <2>3. /\ SameEnd(Memory, walk(obj, state.m, ops), native_cursor(obj, 0, state.m, ops))
        /\ native_cursor(obj, 1, state.m, ops) = reset(obj, state.m, ops[Len(ops)])
        /\ native_cursor(obj, 2, state.m, ops) = settle(obj, state.m)
    BY <2>1, <2>2, CursorsAgree
  <2> QED
    BY <2>2, <2>3 DEF SameEnd
<1>4. ASSUME state.area = "scalar",
             NEW reaction \in Reactions(state.obj), NEW x \in 0..(Room(state.obj.cell) - 1),
             NEW y \in 0..(Room(state.obj.cell) - 1)
      PROVE  Python(state.obj, reaction, state.m, x, y) = Native(state.obj, reaction, state.m, x, y)
  <2>1. state.obj \in Scalars /\ state.m \in [Memory -> Bytes]
    BY <1>4 DEF ObjectsInv, CursorStands, CursorStates, ScalarStates
  <2>2. x \in Int /\ y \in Int
    BY RoomType
  <2> QED
    BY <2>1, <2>2, ScalarsAgree
<1> QED
  BY <1>2, <1>3, <1>4 DEF ObjectsAgree

(* However a specification steps, settles and resets a cursor, and steps   *)
(* its counters, owners and accumulators with any operands, the core does  *)
(* with each of them what Python does (objects.rs, objects.py), for any    *)
(* cursors the compiler makes and any size of a byte; and a cursor stands  *)
(* at the first byte of a row, which is what it is bound to.               *)
THEOREM ObjectsAreAlike == ObjectsSpec => []ObjectsAgree
<1>1. ObjectsSpec => []ObjectsInv
  BY ObjectsInvInit, ObjectsInvNext, PTL DEF ObjectsSpec
<1> QED
  BY <1>1, ObjectsInvAgrees, PTL

-----------------------------------------------------------------------------
(* The pass of verify.                                                     *)

(* The states of the first n instructions, as ReadTo recurs through them.  *)
Reading(f, code, vars, n) ==
    f = [k \in 0..n |-> IF k = 0 THEN Unread(Len(code)) ELSE ReadNext(code, vars, f[k - 1], k)]

(* There are such states, for any number of instructions.                  *)
LEMMA Readings ==
    ASSUME NEW code, NEW vars, NEW n \in Nat
    PROVE  \E f : Reading(f, code, vars, n)
<1> DEFINE S == {k \in Nat : \E f : Reading(f, code, vars, k)}
<1>1. 0 \in S
  <2>1. Reading([k \in 0..0 |-> Unread(Len(code))], code, vars, 0)
    BY DEF Reading
  <2> QED
    BY <2>1
<1>2. ASSUME NEW k \in S PROVE k + 1 \in S
  <2>1. PICK f : Reading(f, code, vars, k)
    OBVIOUS
  <2> DEFINE g == [l \in 0..(k + 1) |->
                     IF l = k + 1 THEN ReadNext(code, vars, f[k], k + 1) ELSE f[l]]
  <2>2. Reading(g, code, vars, k + 1)
    <3>1. ASSUME NEW l \in 0..(k + 1)
          PROVE  g[l] = IF l = 0 THEN Unread(Len(code)) ELSE ReadNext(code, vars, g[l - 1], l)
      <4>1. CASE l = k + 1
        BY <4>1
      <4>2. CASE l # k + 1
        <5>1. l \in 0..k /\ g[l] = f[l]
          BY <4>2
        <5>2. f[l] = IF l = 0 THEN Unread(Len(code)) ELSE ReadNext(code, vars, f[l - 1], l)
          BY <2>1, <5>1 DEF Reading
        <5> QED
          BY <4>2, <5>1, <5>2
      <4> QED
        BY <4>1, <4>2
    <3>2. g = [l \in 0..(k + 1) |-> g[l]]
      OBVIOUS
    <3> HIDE DEF g
    <3> QED
      BY <3>1, <3>2 DEF Reading
  <2> QED
    BY <2>2
<1> HIDE DEF S
<1>3. n \in S
  BY <1>1, <1>2, Induction DEF S
<1> QED
  BY <1>3 DEF S

LEMMA ReadRecurs ==
    ASSUME NEW code, NEW vars, Len(code) \in Nat, NEW n \in 0..Len(code)
    PROVE  ReadTo(code, vars, n) =
             IF n = 0 THEN Unread(Len(code))
             ELSE ReadNext(code, vars, ReadTo(code, vars, n - 1), n)
<1> DEFINE to[k \in 0..Len(code)] ==
             IF k = 0 THEN Unread(Len(code)) ELSE ReadNext(code, vars, to[k - 1], k)
<1>1. to = [k \in 0..Len(code) |->
               IF k = 0 THEN Unread(Len(code)) ELSE ReadNext(code, vars, to[k - 1], k)]
  <2>1. \E f : Reading(f, code, vars, Len(code))
    BY Readings
  <2> QED
    BY <2>1 DEF Reading
<1>2. \A k : ReadTo(code, vars, k) = to[k]
  BY DEF ReadTo
<1> HIDE DEF to
<1>3. to[n] = IF n = 0 THEN Unread(Len(code)) ELSE ReadNext(code, vars, to[n - 1], n)
  BY <1>1
<1> QED
  BY <1>2, <1>3

-----------------------------------------------------------------------------
(* What a pass that took the first n instructions knows.                   *)

Coded(code) ==
    /\ Len(code) \in Nat
    /\ \A n \in 1..Len(code) : code[n].op = "Obj" => code[n].k.operands \in Nat

After(code, before, at) == before[at] - pops(code[at]) + pushes(code[at])
Left(code, before, at) == After(code, before, at) - Flag(Keeps(code[at].op))

(* An instruction the pass took fits the code and the stack before it.     *)
Fits(code, vars, before, at) ==
    /\ OperandInRange(code[at], vars, Len(code))
    /\ before[at] >= pops(code[at])
    /\ Keeps(code[at].op) => before[at] >= 1
    /\ code[at].op = "Call" => After(code, before, at) = 0
    /\ Ends(code[at]) => After(code, before, at) = 0

(* Where the n instructions jump to, the stack is as deep as they leave it. *)
Arrives(code, v, n, at) ==
    is_jump(code[at].op) =>
      (IF code[at].to <= n THEN v.before[code[at].to] ELSE v.expect[code[at].to]) = After(code, v.before, at)

Known(code, vars, v, n) ==
    /\ v.before \in [1..Len(code) -> Nat]
    /\ v.expect \in [1..Len(code) -> Nat \cup {None}]
    /\ v.depth \in Nat /\ v.deepest \in Nat /\ v.depth <= v.deepest
    /\ \A m \in 1..Len(code) : v.before[m] <= v.deepest /\ v.expect[m] <= v.deepest
    /\ v.live <=> (n = 0 \/ Falls(code[n]))
    /\ n = 0 => v.depth = 0
    /\ n > 0 => v.before[1] = 0 /\ v.depth = Left(code, v.before, n)
    /\ \A at \in 1..n : Fits(code, vars, v.before, at) /\ Arrives(code, v, n, at)
    /\ \A at \in 1..(n - 1) : Falls(code[at]) => v.before[at + 1] = Left(code, v.before, at)

LEMMA PopsType ==
    ASSUME NEW code, Coded(code), NEW at \in 1..Len(code)
    PROVE  pops(code[at]) \in Nat /\ pushes(code[at]) \in 0..1 /\ Flag(Keeps(code[at].op)) \in 0..1
  BY DEF Coded, pops, Takes, pushes, Flag

(* Before the first instruction the stack is empty.                        *)
LEMMA KnownFirst ==
    ASSUME NEW code, Coded(code), NEW vars
    PROVE  Known(code, vars, Unread(Len(code)), 0)
  BY DEF Known, Unread, None, Coded

(* An instruction the pass takes leaves it knowing as much of one more.    *)
LEMMA KnownNext ==
    ASSUME NEW code, Coded(code), NEW vars, NEW n \in 0..(Len(code) - 1), NEW v,
           Known(code, vars, v, n),
           Takeable(code[n + 1], vars, Len(code), v, n + 1, DepthAt(v, n + 1))
    PROVE  Known(code, vars, Read(code[n + 1], v, n + 1, DepthAt(v, n + 1)), n + 1)
<1> DEFINE here == n + 1
           len == Len(code)
           i == code[here]
           depth == DepthAt(v, here)
           after == depth - pops(i) + pushes(i)
           w == Read(i, v, here, depth)
<1>1. here \in 1..len /\ len \in Nat /\ n \in Nat
  BY DEF Coded
<1>2. pops(i) \in Nat /\ pushes(i) \in 0..1 /\ Flag(Keeps(i.op)) \in 0..1
  BY <1>1, PopsType
<1>3. depth \in Nat /\ depth <= v.deepest
  BY <1>1 DEF DepthAt, Known, None
<1>4. after \in Nat /\ after - Flag(Keeps(i.op)) \in Nat
  <2>1. depth >= pops(i) /\ (Keeps(i.op) => depth >= 1)
    BY DEF Takeable
  <2>2. Keeps(i.op) => i.op # "Obj" /\ pops(i) = 0
    BY DEF Keeps, pops, Takes, Compares, Binaries
  <2> QED
    BY <1>2, <1>3, <2>1, <2>2 DEF Flag
<1>5. /\ w.before = [v.before EXCEPT ![here] = depth]
      /\ w.depth = after - Flag(Keeps(i.op))
      /\ w.deepest = IF after > v.deepest THEN after ELSE v.deepest
      /\ w.expect = IF is_jump(i.op) /\ i.to > here THEN [v.expect EXCEPT ![i.to] = after] ELSE v.expect
      /\ w.live <=> Falls(i)
  BY DEF Read
<1>6. is_jump(i.op) => i.to \in 1..len
  BY DEF Takeable, OperandInRange
<1>7. /\ v.before \in [1..len -> Nat] /\ v.expect \in [1..len -> Nat \cup {None}]
      /\ \A m \in 1..len : v.before[m] <= v.deepest /\ v.expect[m] <= v.deepest
      /\ v.deepest \in Nat /\ v.depth \in Nat
  BY DEF Known
<1> HIDE DEF w
<1>8. w.before[here] = depth /\ \A m \in 1..len : m # here => w.before[m] = v.before[m]
  BY <1>1, <1>5, <1>7
<1>9. \A m \in 1..n : /\ w.before[m] = v.before[m]
                      /\ After(code, w.before, m) = After(code, v.before, m)
                      /\ Left(code, w.before, m) = Left(code, v.before, m)
                      /\ m \in 1..len
  BY <1>1, <1>8 DEF After, Left
<1>10. After(code, w.before, here) = after
  BY <1>8 DEF After
<1>11. ASSUME v.live PROVE depth = v.depth /\ v.expect[here] \in {None, depth}
  BY <1>11 DEF DepthAt, Takeable
<1>12. v.expect[here] # None => depth = v.expect[here]
  BY <1>11 DEF DepthAt
<1>a. w.before \in [1..len -> Nat]
  BY <1>1, <1>3, <1>5, <1>7
<1>b. w.expect \in [1..len -> Nat \cup {None}]
  BY <1>1, <1>4, <1>5, <1>6, <1>7
<1>c. w.depth \in Nat /\ w.deepest \in Nat /\ w.depth <= w.deepest
  BY <1>2, <1>4, <1>5, <1>7
<1>d. ASSUME NEW m \in 1..len PROVE w.before[m] <= w.deepest /\ w.expect[m] <= w.deepest
  <2>1. v.deepest <= w.deepest /\ after <= w.deepest
    BY <1>4, <1>5, <1>7
  <2>2. w.before[m] <= w.deepest
    BY <1>3, <1>7, <1>8, <1>c, <2>1
  <2>3. w.expect[m] = v.expect[m] \/ w.expect[m] = after
    BY <1>5, <1>6, <1>7
  <2>4. v.expect[m] <= v.deepest /\ v.expect[m] \in Int
    BY <1>7 DEF None
  <2> QED
    BY <1>4, <1>7, <1>c, <2>1, <2>2, <2>3, <2>4
<1>e. w.live <=> (here = 0 \/ Falls(code[here]))
  BY <1>1, <1>5
<1>f. w.before[1] = 0 /\ w.depth = Left(code, w.before, here)
  <2>1. CASE n = 0
    <3>1. v.live /\ v.depth = 0
      BY <2>1 DEF Known
    <3> QED
      BY <1>5, <1>8, <1>10, <1>11, <2>1, <3>1 DEF Left
  <2>2. CASE n # 0
    BY <1>1, <1>5, <1>9, <1>10, <2>2 DEF Known, Left
  <2> QED
    BY <2>1, <2>2
<1>g. ASSUME NEW at \in 1..here PROVE Fits(code, vars, w.before, at)
  <2>1. CASE at = here
    BY <1>8, <1>10, <2>1 DEF Fits, Takeable
  <2>2. CASE at # here
    <3>1. at \in 1..n
      BY <1>1, <2>2
    <3>2. Fits(code, vars, v.before, at)
      BY <3>1 DEF Known
    <3> QED
      BY <1>9, <3>1, <3>2 DEF Fits
  <2> QED
    BY <2>1, <2>2
<1>h. ASSUME NEW at \in 1..here PROVE Arrives(code, w, here, at)
  <2> SUFFICES ASSUME is_jump(code[at].op)
               PROVE  (IF code[at].to <= here THEN w.before[code[at].to] ELSE w.expect[code[at].to])
                        = After(code, w.before, at)
    BY DEF Arrives
  <2>1. CASE at = here
    <3>1. IF i.to > here THEN v.expect[i.to] \in {None, after}
          ELSE after = IF i.to = here THEN depth ELSE v.before[i.to]
      BY <2>1 DEF Takeable
    <3>2. CASE i.to > here
      BY <1>5, <1>6, <1>7, <1>10, <2>1, <3>2, <1>1
    <3>3. CASE ~(i.to > here)
      BY <1>1, <1>6, <1>8, <1>10, <2>1, <3>1, <3>3
    <3> QED
      BY <3>2, <3>3
  <2>2. CASE at # here
    <3>1. at \in 1..n
      BY <1>1, <2>2
    <3> DEFINE to == code[at].to
    <3>2. to \in 1..len
      BY <3>1 DEF Known, Fits, OperandInRange
    <3>3. (IF to <= n THEN v.before[to] ELSE v.expect[to]) = After(code, v.before, at)
      BY <3>1 DEF Known, Arrives
    <3>4. After(code, v.before, at) \in Int /\ After(code, v.before, at) # None
      <4>1. v.before[at] >= pops(code[at]) /\ at \in 1..len
        BY <1>1, <3>1 DEF Known, Fits
      <4>2. pops(code[at]) \in Nat /\ pushes(code[at]) \in 0..1
        BY <4>1, PopsType
      <4> QED
        BY <1>7, <4>1, <4>2 DEF After, None
    <3> HIDE DEF to
    <3>5. CASE to <= n
      BY <1>1, <1>8, <1>9, <3>1, <3>2, <3>3, <3>5 DEF to
    <3>6. CASE to = here
      <4>1. v.expect[here] = After(code, v.before, at)
        BY <1>1, <3>3, <3>6
      <4> QED
        BY <1>1, <1>8, <1>9, <1>12, <3>1, <3>4, <3>6, <4>1 DEF to
    <3>7. CASE to > here
      <4>1. v.expect[to] = After(code, v.before, at)
        BY <1>1, <3>2, <3>3, <3>7
      <4>2. is_jump(i.op) /\ i.to = to => v.expect[to] \in {None, after}
        BY <1>1, <3>7 DEF Takeable
      <4>3. w.expect[to] = v.expect[to]
        BY <1>5, <1>7, <3>2, <3>4, <4>1, <4>2
      <4> QED
        BY <1>1, <1>9, <3>1, <3>2, <3>7, <4>1, <4>3 DEF to
    <3> QED
      BY <1>1, <3>2, <3>5, <3>6, <3>7
  <2> QED
    BY <2>1, <2>2
<1>i. ASSUME NEW at \in 1..(here - 1), Falls(code[at])
      PROVE  w.before[at + 1] = Left(code, w.before, at)
  <2>1. at \in 1..n
    BY <1>1
  <2>2. CASE at = n
    <3>1. v.live /\ v.depth = Left(code, v.before, n)
      BY <1>i, <2>1, <2>2 DEF Known
    <3> QED
      BY <1>8, <1>9, <1>11, <2>1, <2>2, <3>1
  <2>3. CASE at # n
    <3>1. at \in 1..(n - 1) /\ at + 1 \in 1..n
      BY <1>1, <2>1, <2>3
    <3>2. v.before[at + 1] = Left(code, v.before, at)
      BY <1>i, <3>1 DEF Known
    <3> QED
      BY <1>9, <2>1, <3>1, <3>2
  <2> QED
    BY <2>2, <2>3
<1>j. Known(code, vars, w, here)
  <2> HIDE DEF here, depth, after, len, i
  <2>1. here > 0 /\ here # 0
    BY <1>1
  <2> QED
    BY <1>a, <1>b, <1>c, <1>d, <1>e, <1>f, <1>g, <1>h, <1>i, <2>1 DEF Known, len
<1> QED
  BY <1>j DEF w

(* As far as the pass takes the instructions it knows them all.            *)
LEMMA KnownTo ==
    ASSUME NEW code, Coded(code), NEW vars, NEW n \in 0..Len(code), ReadTo(code, vars, n).ok
    PROVE  Known(code, vars, ReadTo(code, vars, n), n)
<1> DEFINE S == {k \in Nat : k \in 0..Len(code) /\ ReadTo(code, vars, k).ok
                             => Known(code, vars, ReadTo(code, vars, k), k)}
<1>1. Len(code) \in Nat
  BY DEF Coded
<1>2. 0 \in S
  <2>1. ReadTo(code, vars, 0) = Unread(Len(code))
    <3>1. 0 \in 0..Len(code)
      BY <1>1
    <3> QED
      BY <1>1, <3>1, ReadRecurs
  <2> QED
    BY <2>1, KnownFirst
<1>3. ASSUME NEW k \in S PROVE k + 1 \in S
  <2> SUFFICES ASSUME k + 1 \in 0..Len(code), ReadTo(code, vars, k + 1).ok
               PROVE  Known(code, vars, ReadTo(code, vars, k + 1), k + 1)
    OBVIOUS
  <2> DEFINE v == ReadTo(code, vars, k)
  <2>1. k \in 0..(Len(code) - 1) /\ k \in 0..Len(code) /\ k + 1 # 0 /\ (k + 1) - 1 = k
    BY <1>1
  <2>2. ReadTo(code, vars, k + 1) =
          IF k + 1 = 0 THEN Unread(Len(code))
          ELSE ReadNext(code, vars, ReadTo(code, vars, (k + 1) - 1), k + 1)
    BY <1>1, ReadRecurs
  <2>3. ReadTo(code, vars, k + 1) = ReadNext(code, vars, v, k + 1)
    BY <2>1, <2>2
  <2> HIDE DEF v
  <2>4. v.ok /\ Takeable(code[k + 1], vars, Len(code), v, k + 1, DepthAt(v, k + 1))
    BY <2>3 DEF ReadNext, Refused
  <2>5. Known(code, vars, v, k)
    BY <2>1, <2>4 DEF v
  <2>6. ReadTo(code, vars, k + 1) = Read(code[k + 1], v, k + 1, DepthAt(v, k + 1))
    BY <2>3, <2>4 DEF ReadNext
  <2> QED
    BY <2>1, <2>4, <2>5, <2>6, KnownNext
<1>4. S \in SUBSET Nat /\ n \in Nat
  BY <1>1
<1> HIDE DEF S
<1>5. n \in S
  BY <1>2, <1>3, <1>4, Induction
<1> QED
  BY <1>5 DEF S

(* What before and deepest say of a code: it may run with no check.        *)
Safe(code, vars, before, deepest) ==
    /\ before \in [1..Len(code) -> Nat]
    /\ \A at \in 1..Len(code) :
          /\ before[at] <= deepest
          /\ Fits(code, vars, before, at)
          /\ is_jump(code[at].op) => before[code[at].to] = After(code, before, at)
          /\ Falls(code[at]) /\ at < Len(code) => before[at + 1] = Left(code, before, at)
    /\ 0 < Len(code) => before[1] = 0

LEMMA VerifySound ==
    ASSUME NEW code, Coded(code), NEW vars, verify(code, vars).ok
    PROVE  Safe(code, vars, verify(code, vars).before, verify(code, vars).deepest)
<1> DEFINE last == ReadTo(code, vars, Len(code))
           len == Len(code)
<1>1. len \in Nat /\ len \in 0..len
  BY DEF Coded
<1>2. last.ok /\ verify(code, vars).before = last.before /\ verify(code, vars).deepest = last.deepest
  BY DEF verify, Refused
<1>3. Known(code, vars, last, len)
  BY <1>1, <1>2, KnownTo
<1> HIDE DEF last
<1>4. ASSUME NEW at \in 1..len, is_jump(code[at].op)
      PROVE  last.before[code[at].to] = After(code, last.before, at)
  <2>1. code[at].to \in 1..len
    BY <1>3, <1>4 DEF Known, Fits, OperandInRange
  <2> QED
    BY <1>1, <1>3, <1>4, <2>1 DEF Known, Arrives
<1>5. ASSUME NEW at \in 1..len, Falls(code[at]), at < len
      PROVE  last.before[at + 1] = Left(code, last.before, at)
  BY <1>1, <1>3, <1>5 DEF Known
<1>6. Safe(code, vars, last.before, last.deepest)
  BY <1>1, <1>3, <1>4, <1>5 DEF Safe, Known
<1> QED
  BY <1>2, <1>6

-----------------------------------------------------------------------------
(* One instruction.                                                        *)

IsSeq(q) == q \in Seq({q[n] : n \in DOMAIN q})

LEMMA SeqIsSeq ==
    ASSUME NEW T, NEW q \in Seq(T)
    PROVE  IsSeq(q) /\ Len(q) \in Nat /\ DOMAIN q = 1..Len(q)
<1>1. Len(q) \in Nat /\ q \in [1..Len(q) -> T] /\ DOMAIN q = 1..Len(q)
  BY LenProperties
<1> DEFINE R == {q[n] : n \in DOMAIN q}
<1>2. q \in [1..Len(q) -> R]
  BY <1>1
<1>3. q \in Seq(R)
  BY <1>1, <1>2, SeqDef
<1> QED
  BY <1>1, <1>3 DEF IsSeq

LEMMA IsSeqLen ==
    ASSUME NEW q, IsSeq(q)
    PROVE  Len(q) \in Nat /\ DOMAIN q = 1..Len(q)
  BY SeqIsSeq DEF IsSeq

LEMMA AppendIsSeq ==
    ASSUME NEW q, IsSeq(q), NEW e
    PROVE  IsSeq(Append(q, e)) /\ Len(Append(q, e)) = Len(q) + 1
<1> DEFINE T == {q[n] : n \in DOMAIN q} \cup {e}
<1>1. q \in Seq(T)
  BY SeqMonotonic DEF IsSeq
<1> HIDE DEF T
<1>2. e \in T
  BY DEF T
<1>3. Append(q, e) \in Seq(T) /\ Len(Append(q, e)) = Len(q) + 1
  BY <1>1, <1>2, AppendProperties
<1> QED
  BY <1>3, SeqIsSeq

LEMMA SubSeqIsSeq ==
    ASSUME NEW q, IsSeq(q), NEW n \in 0..Len(q)
    PROVE  IsSeq(SubSeq(q, 1, n)) /\ Len(SubSeq(q, 1, n)) = n
<1> DEFINE T == {q[k] : k \in DOMAIN q}
<1>1. Len(q) \in Nat /\ DOMAIN q = 1..Len(q)
  BY IsSeqLen
<1>2. \A k \in 1..n : q[k] \in T
  BY <1>1
<1> HIDE DEF T
<1>3. n \in Int /\ (1 <= n => n - 1 + 1 = n) /\ (~(1 <= n) => n = 0)
  BY <1>1
<1>4. SubSeq(q, 1, n) \in Seq(T) /\ Len(SubSeq(q, 1, n)) = n
  BY <1>2, <1>3, SubSeqProperties
<1> QED
  BY <1>4, SeqIsSeq

(* A machine has its six parts.                                            *)
Parted(pc, stack, calls, mem, why, vars) ==
    [pc |-> pc, stack |-> stack, calls |-> calls, mem |-> mem, why |-> why, vars |-> vars]
Parts(r) == \E pc, stack, calls, mem, why, vars : r = Parted(pc, stack, calls, mem, why, vars)

LEMMA PartedHas ==
    ASSUME NEW pc, NEW stack, NEW calls, NEW mem, NEW why, NEW vars
    PROVE  LET t == Parted(pc, stack, calls, mem, why, vars) IN
           /\ Parts(t) /\ t.pc = pc /\ t.stack = stack /\ t.calls = calls /\ t.mem = mem
           /\ t.why = why /\ t.vars = vars
<1>1. Parts(Parted(pc, stack, calls, mem, why, vars))
  BY DEF Parts
<1> QED
  BY <1>1 DEF Parted

(* The changes a step makes of them.                                       *)
WithNext(r, p, q) == [r EXCEPT !.pc = p, !.stack = q]
WithPc(r, p) == [r EXCEPT !.pc = p]
WithStack(r, q) == [r EXCEPT !.stack = q]
WithCalls(r, p, q) == [r EXCEPT !.pc = p, !.calls = q]
WithMem(r, m) == [r EXCEPT !.mem = m]
WithVars(r, w) == [r EXCEPT !.vars = w]
WithData(r, m, w) == [r EXCEPT !.mem = m, !.vars = w]

LEMMA Changes ==
    ASSUME NEW r, Parts(r), NEW p, NEW q, NEW m, NEW w
    PROVE  /\ WithNext(r, p, q) = Parted(p, q, r.calls, r.mem, r.why, r.vars)
           /\ WithPc(r, p) = Parted(p, r.stack, r.calls, r.mem, r.why, r.vars)
           /\ WithStack(r, q) = Parted(r.pc, q, r.calls, r.mem, r.why, r.vars)
           /\ WithCalls(r, p, q) = Parted(p, r.stack, q, r.mem, r.why, r.vars)
           /\ WithMem(r, m) = Parted(r.pc, r.stack, r.calls, m, r.why, r.vars)
           /\ WithVars(r, w) = Parted(r.pc, r.stack, r.calls, r.mem, r.why, w)
           /\ WithData(r, m, w) = Parted(r.pc, r.stack, r.calls, m, r.why, w)
<1>1. PICK pc, stack, calls, mem, why, vars : r = Parted(pc, stack, calls, mem, why, vars)
  BY DEF Parts
<1>2. r.pc = pc /\ r.stack = stack /\ r.calls = calls /\ r.mem = mem /\ r.why = why /\ r.vars = vars
  BY <1>1 DEF Parted
<1>3. ASSUME NEW t, t = [r EXCEPT !.pc = p, !.stack = q]
      PROVE  t = Parted(p, q, r.calls, r.mem, r.why, r.vars)
  BY <1>1, <1>2, <1>3 DEF Parted
<1>4. ASSUME NEW t, t = [r EXCEPT !.pc = p]
      PROVE  t = Parted(p, r.stack, r.calls, r.mem, r.why, r.vars)
  BY <1>1, <1>2, <1>4 DEF Parted
<1>5. ASSUME NEW t, t = [r EXCEPT !.stack = q]
      PROVE  t = Parted(r.pc, q, r.calls, r.mem, r.why, r.vars)
  BY <1>1, <1>2, <1>5 DEF Parted
<1>6. ASSUME NEW t, t = [r EXCEPT !.pc = p, !.calls = q]
      PROVE  t = Parted(p, r.stack, q, r.mem, r.why, r.vars)
  BY <1>1, <1>2, <1>6 DEF Parted
<1>7. ASSUME NEW t, t = [r EXCEPT !.mem = m, !.vars = w]
      PROVE  t = Parted(r.pc, r.stack, r.calls, m, r.why, w)
  BY <1>1, <1>2, <1>7 DEF Parted
<1>8. ASSUME NEW t, t = [r EXCEPT !.mem = m]
      PROVE  t = Parted(r.pc, r.stack, r.calls, m, r.why, r.vars)
  BY <1>1, <1>2, <1>8 DEF Parted
<1>9. ASSUME NEW t, t = [r EXCEPT !.vars = w]
      PROVE  t = Parted(r.pc, r.stack, r.calls, r.mem, r.why, w)
  BY <1>1, <1>2, <1>9 DEF Parted
<1> QED
  BY <1>3, <1>4, <1>5, <1>6, <1>7, <1>8, <1>9
  DEF WithNext, WithPc, WithStack, WithCalls, WithMem, WithVars, WithData

LEMMA OnParts ==
    ASSUME NEW r, Parts(r), NEW i
    PROVE  On(i, r) = Parted(r.pc + 1, Rest(i, r), r.calls, r.mem, r.why, r.vars)
<1>1. On(i, r) = WithNext(r, r.pc + 1, Rest(i, r))
  BY DEF On, WithNext
<1> QED
  BY <1>1, Changes

LEMMA PushParts ==
    ASSUME NEW r, Parts(r), NEW i, NEW v
    PROVE  Push(i, r, v) = Parted(r.pc + 1, Append(Rest(i, r), v), r.calls, r.mem, r.why, r.vars)
<1>1. Push(i, r, v) = WithNext(r, r.pc + 1, Append(Rest(i, r), v))
  BY DEF Push, WithNext
<1> QED
  BY <1>1, Changes

(* A machine that has not stopped.                                         *)
Going(r) == r.why = ""

LEMMA BailStops ==
    ASSUME NEW r, Parts(r)
    PROVE  /\ ~Going(Bail(r, "range")) /\ ~Going(Bail(r, "device")) /\ ~Going(Bail(r, "port"))
           /\ ~Going(Bail(r, "spec")) /\ ~Going(Bail(r, "done"))
<1>1. PICK pc, stack, calls, mem, why, vars : r = Parted(pc, stack, calls, mem, why, vars)
  BY DEF Parts
<1> QED
  BY <1>1 DEF Bail, Parted, Going

(* An instruction that pushes: the machine bails, or falls.                *)
LEMMA ValueFalls ==
    ASSUME NEW i, NEW r, Parts(r), Going(exec_value(i, r))
    PROVE  \E v : exec_value(i, r) = Push(i, r, v)
<1>1. ~Going(Bail(r, "range")) /\ ~Going(Bail(r, "device"))
  BY BailStops
<1>2. \A a : Going(ReadAt(i, r, a)) => ReadAt(i, r, a) = Push(i, r, r.mem[a])
  BY <1>1 DEF ReadAt
<1>3. CASE i.op = "Konst"
  BY <1>3 DEF exec_value, Binaries
<1>4. CASE i.op = "Var"
  BY <1>4 DEF exec_value, Binaries
<1>5. CASE i.op = "RdK"
  BY <1>2, <1>5 DEF exec_value, Binaries
<1>6. CASE i.op = "Rd"
  BY <1>2, <1>6 DEF exec_value, Binaries
<1>7. CASE i.op = "Note"
  BY <1>1, <1>7 DEF exec_value, Binaries
<1>8. CASE i.op = "VarX"
  BY <1>1, <1>8 DEF exec_value, Binaries
<1>9. CASE i.op \in Binaries
  BY <1>9 DEF exec_value, Binaries
<1>10. CASE i.op \notin {"Konst", "Var", "RdK", "Rd", "Note", "VarX"} \cup Binaries
  BY <1>10 DEF exec_value, Binaries
<1> QED
  BY <1>3, <1>4, <1>5, <1>6, <1>7, <1>8, <1>9, <1>10

(* What an instruction leaves of a machine.                                *)
Leaves(r, t, depth) ==
    /\ Parts(t) /\ DOMAIN t.vars = DOMAIN r.vars
    /\ IsSeq(t.stack) /\ Len(t.stack) = depth

LEMMA RestLen ==
    ASSUME NEW i, NEW r, IsSeq(r.stack), pops(i) \in Nat, Len(r.stack) >= pops(i)
    PROVE  IsSeq(Rest(i, r)) /\ Len(Rest(i, r)) = Len(r.stack) - pops(i) /\ Len(r.stack) \in Nat
<1>1. Len(r.stack) \in Nat
  BY IsSeqLen
<1>2. Len(r.stack) - pops(i) \in 0..Len(r.stack)
  BY <1>1
<1> QED
  BY <1>1, <1>2, SubSeqIsSeq DEF Rest

LEMMA ValueLeaves ==
    ASSUME NEW i, NEW r, Parts(r), IsSeq(r.stack), pops(i) \in Nat, Len(r.stack) >= pops(i),
           NEW t, t = exec_value(i, r), Going(t)
    PROVE  Leaves(r, t, Len(r.stack) - pops(i) + 1) /\ t.pc = r.pc + 1 /\ t.calls = r.calls
<1>1. PICK v : t = Push(i, r, v)
  BY ValueFalls
<1>2. IsSeq(Append(Rest(i, r), v)) /\ Len(Append(Rest(i, r), v)) = Len(r.stack) - pops(i) + 1
  BY RestLen, AppendIsSeq
<1>3. /\ Parts(t) /\ t.pc = r.pc + 1 /\ t.stack = Append(Rest(i, r), v)
      /\ t.calls = r.calls /\ t.vars = r.vars
  <2> DEFINE p == r.pc + 1
             q == Append(Rest(i, r), v)
  <2>1. t = Parted(p, q, r.calls, r.mem, r.why, r.vars)
    BY <1>1, PushParts
  <2> HIDE DEF p, q
  <2>2. Parts(t) /\ t.pc = p /\ t.stack = q /\ t.calls = r.calls /\ t.vars = r.vars
    BY <2>1, PartedHas
  <2> QED
    BY <2>2 DEF p, q
<1> QED
  BY <1>2, <1>3 DEF Leaves

(* An instruction that ends a statement: the machine stops, falls, or      *)
(* returns from a call.                                                    *)
LEMMA EndLeaves ==
    ASSUME NEW i, NEW r, Parts(r), IsSeq(r.stack), pops(i) \in Nat, Len(r.stack) >= pops(i),
           Ends(i), i.op # "Call", NEW t, t = exec_end(i, r), Going(t)
    PROVE  /\ Leaves(r, t, Len(r.stack) - pops(i))
           /\ \/ Falls(i) /\ t.pc = r.pc + 1 /\ t.calls = r.calls
              \/ i.op = "Ret" /\ r.calls # <<>> /\ t.pc = Last(r.calls) /\ t.calls = Front(r.calls)
<1> DEFINE on == On(i, r)
<1>1. /\ Parts(on) /\ on.pc = r.pc + 1 /\ on.stack = Rest(i, r) /\ on.calls = r.calls
      /\ on.mem = r.mem /\ on.vars = r.vars
  BY OnParts, PartedHas
<1>2. IsSeq(Rest(i, r)) /\ Len(Rest(i, r)) = Len(r.stack) - pops(i)
  BY RestLen
<1>3. /\ ~Going(Bail(r, "range")) /\ ~Going(Bail(r, "device")) /\ ~Going(Bail(r, "port"))
      /\ ~Going(Bail(r, "spec")) /\ ~Going(Bail(r, "done"))
  BY BailStops
<1>4. ASSUME Parts(t), t.pc = on.pc, t.stack = on.stack, t.calls = on.calls, DOMAIN t.vars = DOMAIN r.vars
      PROVE  Leaves(r, t, Len(r.stack) - pops(i)) /\ t.pc = r.pc + 1 /\ t.calls = r.calls
  <2> HIDE DEF on
  <2> QED
    BY <1>1, <1>2, <1>4 DEF Leaves
<1> HIDE DEF on
<1>a. ASSUME NEW m, t = WithMem(on, m)
      PROVE  Leaves(r, t, Len(r.stack) - pops(i)) /\ t.pc = r.pc + 1 /\ t.calls = r.calls
  <2>1. Parts(t) /\ t.pc = on.pc /\ t.stack = on.stack /\ t.calls = on.calls /\ t.vars = on.vars
    BY <1>1, <1>a, Changes, PartedHas
  <2> QED
    BY <1>1, <1>4, <2>1
<1>b. ASSUME NEW w, t = WithVars(on, w), DOMAIN w = DOMAIN r.vars
      PROVE  Leaves(r, t, Len(r.stack) - pops(i)) /\ t.pc = r.pc + 1 /\ t.calls = r.calls
  <2>1. Parts(t) /\ t.pc = on.pc /\ t.stack = on.stack /\ t.calls = on.calls /\ t.vars = w
    BY <1>1, <1>b, Changes, PartedHas
  <2> QED
    BY <1>4, <1>b, <2>1
<1>c. ASSUME NEW m, NEW w, t = WithData(on, m, w), DOMAIN w = DOMAIN r.vars
      PROVE  Leaves(r, t, Len(r.stack) - pops(i)) /\ t.pc = r.pc + 1 /\ t.calls = r.calls
  <2>1. Parts(t) /\ t.pc = on.pc /\ t.stack = on.stack /\ t.calls = on.calls /\ t.vars = w
    BY <1>1, <1>c, Changes, PartedHas
  <2> QED
    BY <1>4, <1>c, <2>1
<1>5. ASSUME NEW a, NEW v, Going(StoreAt(i, r, a, v))
      PROVE  StoreAt(i, r, a, v) = WithMem(on, [on.mem EXCEPT ![a] = v])
  BY <1>3, <1>5 DEF StoreAt, WithMem, on
<1>6. CASE i.op = "Wr"
  <2>1. t = StoreAt(i, r, Under(r), Top(r)) /\ Falls(i)
    BY <1>6 DEF exec_end, Falls
  <2> QED
    BY <1>5, <1>a, <2>1
<1>7. CASE i.op = "WrK"
  <2>1. t = StoreAt(i, r, i.k, Top(r)) /\ Falls(i)
    BY <1>7 DEF exec_end, Falls
  <2> QED
    BY <1>5, <1>a, <2>1
<1>8. CASE i.op = "Set"
  <2>1. t = WithVars(on, [on.vars EXCEPT ![i.k] = Top(r)]) /\ Falls(i)
    BY <1>8 DEF exec_end, Falls, WithVars, on
  <2> QED
    BY <1>1, <1>b, <2>1
<1>9. CASE i.op = "SetK"
  <2>1. t = WithVars(on, [on.vars EXCEPT ![i.k[1]] = i.k[2]]) /\ Falls(i)
    BY <1>9 DEF exec_end, Falls, WithVars, on
  <2> QED
    BY <1>1, <1>b, <2>1
<1>10. CASE i.op = "Assert"
  <2>1. t = on /\ Falls(i)
    BY <1>3, <1>10 DEF exec_end, Falls, on
  <2> QED
    BY <1>1, <1>4, <2>1
<1>11. CASE i.op = "Obj"
  <2>1. t = object(i, r) /\ Falls(i)
    BY <1>11 DEF exec_end, Falls
  <2>2. PICK m, at, flag :
          object(i, r) = WithData(on, m, IF i.k.out = <<>> THEN on.vars ELSE [on.vars EXCEPT ![at] = flag])
    BY DEF object, WithData, on
  <2> QED
    BY <1>1, <1>c, <2>1, <2>2
<1>12. CASE i.op = "Ret"
  <2>1. r.calls # <<>> /\ t = WithCalls(on, Last(r.calls), Front(on.calls))
    BY <1>3, <1>12 DEF exec_end, WithCalls, on
  <2>2. /\ Parts(t) /\ t.pc = Last(r.calls) /\ t.calls = Front(r.calls)
        /\ t.stack = on.stack /\ t.vars = on.vars
    BY <1>1, <2>1, Changes, PartedHas
  <2> QED
    BY <1>1, <1>2, <1>12, <2>1, <2>2 DEF Leaves
<1>13. CASE i.op = "Halt"
  BY <1>3, <1>13 DEF exec_end
<1>14. CASE i.op = "Fail"
  BY <1>3, <1>14 DEF exec_end
<1> QED
  BY <1>6, <1>7, <1>8, <1>9, <1>10, <1>11, <1>12, <1>13, <1>14 DEF Ends

LEMMA FrontIsSeq ==
    ASSUME NEW q, IsSeq(q), Len(q) >= 1
    PROVE  IsSeq(Front(q)) /\ Len(Front(q)) = Len(q) - 1
<1>1. Len(q) - 1 \in 0..Len(q)
  BY IsSeqLen
<1> QED
  BY <1>1, SubSeqIsSeq DEF Front

(* An instruction that jumps, or falls.                                    *)
LEMMA JumpLeaves ==
    ASSUME NEW i, NEW r, Parts(r), IsSeq(r.stack), pops(i) \in Nat, Len(r.stack) >= pops(i),
           Keeps(i.op) => Len(r.stack) >= 1, i.op \in Jumping, NEW t, t = exec_jump(i, r)
    PROVE  \/ /\ Leaves(r, t, Len(r.stack) - pops(i)) /\ i.op # "Call"
              /\ t.pc = i.to /\ t.calls = r.calls
           \/ /\ Leaves(r, t, Len(r.stack) - pops(i) - Flag(Keeps(i.op))) /\ i.op # "Call"
              /\ Falls(i) /\ t.pc = r.pc + 1 /\ t.calls = r.calls
           \/ /\ Leaves(r, t, Len(r.stack) - pops(i)) /\ i.op = "Call"
              /\ t.pc = i.to /\ t.calls = Append(r.calls, r.pc + 1)
<1> DEFINE on == On(i, r)
<1>1. /\ Parts(on) /\ on.pc = r.pc + 1 /\ on.stack = Rest(i, r) /\ on.calls = r.calls
      /\ on.mem = r.mem /\ on.vars = r.vars
  BY OnParts, PartedHas
<1>2. IsSeq(Rest(i, r)) /\ Len(Rest(i, r)) = Len(r.stack) - pops(i) /\ Len(r.stack) \in Nat
  BY RestLen
<1> HIDE DEF on
<1>3. ASSUME t = WithPc(on, i.to)
      PROVE  Leaves(r, t, Len(r.stack) - pops(i)) /\ t.pc = i.to /\ t.calls = r.calls
  <2>1. Parts(t) /\ t.pc = i.to /\ t.stack = on.stack /\ t.calls = on.calls /\ t.vars = on.vars
    BY <1>1, <1>3, Changes, PartedHas
  <2> QED
    BY <1>1, <1>2, <2>1 DEF Leaves
<1>4. ASSUME t = on
      PROVE  Leaves(r, t, Len(r.stack) - pops(i)) /\ t.pc = r.pc + 1 /\ t.calls = r.calls
  BY <1>1, <1>2, <1>4 DEF Leaves
<1>5. CASE i.op = "Jmp"
  <2>1. t = WithPc(on, i.to)
    BY <1>5 DEF exec_jump, Goto, WithPc, on, Keeps, Compares, ComparesK
  <2> QED
    BY <1>3, <1>5, <2>1
<1>6. CASE i.op \in {"Jz", "Jnz"} \cup Compares \cup ComparesK
  <2>1. t \in {WithPc(on, i.to), on}
    <3>1. CASE i.op = "Jz"
      BY <3>1 DEF exec_jump, Goto, WithPc, on, Keeps, Compares, ComparesK
    <3>2. CASE i.op = "Jnz"
      BY <3>2 DEF exec_jump, Goto, WithPc, on, Keeps, Compares, ComparesK
    <3>3. CASE i.op \in Compares
      BY <3>3 DEF exec_jump, Goto, WithPc, on, Keeps, Compares, ComparesK
    <3>4. CASE i.op \in ComparesK
      BY <3>4 DEF exec_jump, Goto, WithPc, on, Keeps, Compares, ComparesK
    <3> QED
      BY <1>6, <3>1, <3>2, <3>3, <3>4
  <2>2. Falls(i) /\ i.op # "Call" /\ Flag(Keeps(i.op)) = 0
    BY <1>6 DEF Falls, Compares, ComparesK, Keeps, Flag
  <2>3. Len(r.stack) - pops(i) - Flag(Keeps(i.op)) = Len(r.stack) - pops(i)
    BY <1>2, <2>2
  <2> QED
    BY <1>3, <1>4, <2>1, <2>2, <2>3
<1>7. CASE Keeps(i.op)
  <2>1. Falls(i) /\ i.op # "Call" /\ Flag(Keeps(i.op)) = 1 /\ pops(i) = 0
    BY <1>7 DEF Falls, Keeps, Flag, pops, Takes, Binaries, Compares
  <2>2. t = WithPc(on, i.to) \/ t = WithStack(on, Front(r.stack))
    BY <1>7 DEF exec_jump, Goto, WithPc, WithStack, on, Keeps, Compares, ComparesK
  <2>3. CASE t = WithPc(on, i.to)
    BY <1>3, <2>1, <2>3
  <2>4. CASE t = WithStack(on, Front(r.stack))
    <3>1. /\ Parts(t) /\ t.pc = on.pc /\ t.stack = Front(r.stack) /\ t.calls = on.calls
          /\ t.vars = on.vars
      BY <1>1, <2>4, Changes, PartedHas
    <3>2. IsSeq(Front(r.stack)) /\ Len(Front(r.stack)) = Len(r.stack) - 1
      BY <1>7, FrontIsSeq
    <3>3. Len(r.stack) - pops(i) - Flag(Keeps(i.op)) = Len(r.stack) - 1
      BY <1>2, <2>1
    <3>4. Leaves(r, t, Len(r.stack) - pops(i) - Flag(Keeps(i.op)))
      BY <1>1, <3>1, <3>2, <3>3 DEF Leaves
    <3> QED
      BY <1>1, <2>1, <3>1, <3>4
  <2> QED
    BY <2>2, <2>3, <2>4
<1>8. CASE i.op = "Call"
  <2>1. t = WithCalls(on, i.to, Append(on.calls, r.pc + 1))
    <3>1. t = [On(i, r) EXCEPT !.calls = Append(@, r.pc + 1), !.pc = i.to]
      BY <1>8 DEF exec_jump, Keeps, Compares, ComparesK
    <3> QED
      BY <3>1 DEF WithCalls, on
  <2> DEFINE q == Append(on.calls, r.pc + 1)
  <2> HIDE DEF q
  <2>2. t = WithCalls(on, i.to, q)
    BY <2>1 DEF q
  <2>3. Parts(t) /\ t.pc = i.to /\ t.stack = on.stack /\ t.calls = q /\ t.vars = on.vars
    BY <1>1, <2>2, Changes, PartedHas
  <2>4. t.calls = Append(r.calls, r.pc + 1)
    BY <1>1, <2>3 DEF q
  <2> QED
    BY <1>1, <1>2, <1>8, <2>3, <2>4 DEF Leaves
<1> QED
  BY <1>5, <1>6, <1>7, <1>8 DEF Jumping, Keeps

(* Where an instruction takes a machine that goes on: to its jump, past it, *)
(* to a proc, or back from one.                                            *)
Moves(i, r, t) ==
    LET after == Len(r.stack) - pops(i) + pushes(i) IN
    \/ /\ Leaves(r, t, after) /\ i.op \in Jumping /\ i.op # "Call"
       /\ t.pc = i.to /\ t.calls = r.calls
    \/ /\ Leaves(r, t, after - Flag(Keeps(i.op))) /\ Falls(i) /\ i.op # "Call"
       /\ t.pc = r.pc + 1 /\ t.calls = r.calls
    \/ /\ Leaves(r, t, after) /\ i.op = "Call"
       /\ t.pc = i.to /\ t.calls = Append(r.calls, r.pc + 1)
    \/ /\ Leaves(r, t, after) /\ i.op = "Ret" /\ r.calls # <<>>
       /\ t.pc = Last(r.calls) /\ t.calls = Front(r.calls)

(* Whatever the instruction.                                               *)
LEMMA ExecLeaves ==
    ASSUME NEW code, NEW r, NEW i, i = code[r.pc], Parts(r), IsSeq(r.stack),
           pops(i) \in Nat, Len(r.stack) >= pops(i), Keeps(i.op) => Len(r.stack) >= 1,
           NEW t, t = exec(code, r), Going(t)
    PROVE  Moves(i, r, t)
<1>0. Len(r.stack) \in Nat
  BY IsSeqLen
<1>1. CASE i.op \in Jumping
  <2>1. t = exec_jump(i, r)
    BY <1>1 DEF exec
  <2>2. Len(r.stack) - pops(i) + pushes(i) = Len(r.stack) - pops(i)
    BY <1>0, <1>1 DEF pushes
  <2> QED
    BY <1>1, <2>1, <2>2, JumpLeaves DEF Moves
<1>2. CASE i.op \notin Jumping /\ Ends(i)
  <2>1. t = exec_end(i, r)
    BY <1>2 DEF exec
  <2>2. i.op # "Call" /\ Flag(Keeps(i.op)) = 0 /\ pushes(i) = 0
    BY <1>2 DEF Jumping, Keeps, Flag, pushes
  <2>3. /\ Len(r.stack) - pops(i) + pushes(i) = Len(r.stack) - pops(i)
        /\ Len(r.stack) - pops(i) + pushes(i) - Flag(Keeps(i.op)) = Len(r.stack) - pops(i)
    BY <1>0, <2>2
  <2> QED
    BY <1>2, <2>1, <2>2, <2>3, EndLeaves DEF Moves
<1>3. CASE i.op \notin Jumping /\ ~Ends(i)
  <2>1. t = exec_value(i, r)
    BY <1>3 DEF exec
  <2>2. i.op # "Call" /\ Falls(i) /\ Flag(Keeps(i.op)) = 0 /\ pushes(i) = 1
    BY <1>3 DEF Jumping, Keeps, Flag, pushes, Falls, Ends
  <2>3. Len(r.stack) - pops(i) + pushes(i) - Flag(Keeps(i.op)) = Len(r.stack) - pops(i) + 1
    BY <1>0, <2>2
  <2> QED
    BY <1>3, <2>1, <2>2, <2>3, ValueLeaves DEF Moves
<1> QED
  BY <1>1, <1>2, <1>3

-----------------------------------------------------------------------------
(* A machine stands as its pass found it.                                  *)

(* Where a call may return to: a place where the stack is empty.           *)
Returns == {n \in 1..Len(stream) : found.before[n] = 0}

Standing ==
    /\ Parts(vm) /\ Safe(stream, DOMAIN vm.vars, found.before, found.deepest)
    /\ vm.pc \in 1..Len(stream)
    /\ IsSeq(vm.stack) /\ Len(vm.stack) = found.before[vm.pc]
    /\ vm.calls \in Seq(Returns)

VmInv ==
    /\ Coded(stream) /\ DOMAIN stream = 1..Len(stream) /\ Ended(stream)
    /\ Going(vm) => Standing

LEMMA VmInvInit ==
    ASSUME VmInit, \A load \in Loads : Ended(load.code)
    PROVE  VmInv
<1>1. PICK load \in Loads : VmLoad(load)
  BY DEF VmInit
<1>2. /\ stream = load.code /\ found = verify(load.code, load.vars) /\ found.ok
      /\ vm = Machine(load.vars, load.mem, load.controls)
  BY <1>1 DEF VmInit, VmLoad
<1>3. IsSeq(stream) /\ \A n \in DOMAIN stream : stream[n].op = "Obj" => stream[n].k.operands \in Nat
  BY <1>2, LoadsAssumption DEF IsSeq
<1>4. Len(stream) \in Nat /\ DOMAIN stream = 1..Len(stream)
  BY <1>3, IsSeqLen
<1>5. Coded(stream)
  BY <1>3, <1>4 DEF Coded
<1>6. Ended(stream) /\ Len(stream) > 0
  <2>1. Ended(stream) /\ stream # <<>>
    BY <1>2 DEF Ended
  <2> QED
    BY <1>3, <1>4, <2>1, EmptySeq DEF IsSeq
<1>7. DOMAIN vm.vars = load.vars /\ vm.pc = 1 /\ vm.stack = <<>> /\ vm.calls = <<>>
  BY <1>2 DEF Machine
<1>8. Safe(stream, DOMAIN vm.vars, found.before, found.deepest)
  BY <1>2, <1>5, <1>7, VerifySound
<1>9. IsSeq(<<>>) /\ Len(<<>>) = 0 /\ <<>> \in Seq(Returns)
  BY EmptySeq DEF IsSeq
<1>10. found.before[1] = 0
  BY <1>4, <1>6, <1>8 DEF Safe
<1>11. Parts(vm)
  <2>1. vm = Parted(1, <<>>, <<>>, load.mem, "",
                    [n \in load.vars |-> IF n \in DOMAIN load.controls THEN load.controls[n] ELSE 0])
    BY <1>2 DEF Machine, Parted
  <2> QED
    BY <2>1 DEF Parts
<1>12. vm.pc \in 1..Len(stream)
  <2>1. 1 \in 1..Len(stream) /\ vm.pc = 1
    BY <1>4, <1>6, <1>7
  <2> QED
    BY <2>1
<1>13. IsSeq(vm.stack) /\ Len(vm.stack) = found.before[vm.pc] /\ vm.calls \in Seq(Returns)
  BY <1>7, <1>9, <1>10
<1> QED
  BY <1>4, <1>5, <1>6, <1>8, <1>11, <1>12, <1>13 DEF VmInv, Standing

LEMMA VmInvStep ==
    ASSUME VmInv, VmStep
    PROVE  VmInv'
<1> DEFINE i == stream[vm.pc]
           after == Len(vm.stack) - pops(i) + pushes(i)
           t == exec(stream, vm)
<1>1. Going(vm) /\ vm' = t /\ stream' = stream /\ found' = found
  BY DEF VmStep, Going
<1>2. SUFFICES ASSUME Going(t) PROVE Standing'
  <2>1. Going(vm)' <=> Going(t)
    BY <1>1 DEF Going
  <2> QED
    BY <1>1, <2>1 DEF VmInv, Coded, Ended
<1>3. Standing
  BY <1>1 DEF VmInv
<1>4. /\ Parts(vm) /\ vm.pc \in 1..Len(stream) /\ IsSeq(vm.stack) /\ Len(vm.stack) \in Nat
      /\ Len(vm.stack) = found.before[vm.pc] /\ vm.calls \in Seq(Returns) /\ Len(stream) \in Nat
  BY <1>3, IsSeqLen DEF Standing, VmInv, Coded
<1>5. /\ Fits(stream, DOMAIN vm.vars, found.before, vm.pc)
      /\ is_jump(i.op) => found.before[i.to] = After(stream, found.before, vm.pc)
      /\ Falls(i) /\ vm.pc < Len(stream) => found.before[vm.pc + 1] = Left(stream, found.before, vm.pc)
  BY <1>3, <1>4 DEF Standing, Safe
<1>6. pops(i) \in Nat /\ pushes(i) \in 0..1 /\ Flag(Keeps(i.op)) \in 0..1
  BY <1>4, PopsType DEF VmInv
<1>7. /\ Len(vm.stack) >= pops(i) /\ (Keeps(i.op) => Len(vm.stack) >= 1)
      /\ (i.op = "Call" => after = 0) /\ (Ends(i) => after = 0)
      /\ After(stream, found.before, vm.pc) = after
      /\ Left(stream, found.before, vm.pc) = after - Flag(Keeps(i.op))
      /\ i.op \in Jumping => i.to \in 1..Len(stream) /\ found.before[i.to] = after
  BY <1>4, <1>5 DEF Fits, After, Left, OperandInRange, is_jump
<1>8. Falls(i) => /\ vm.pc + 1 \in 1..Len(stream)
                  /\ found.before[vm.pc + 1] = after - Flag(Keeps(i.op))
  <2>1. Falls(i) => vm.pc # Len(stream)
    BY DEF VmInv, Ended
  <2> QED
    BY <1>4, <1>5, <1>7, <2>1
<1> HIDE DEF i, t, after
<1>9. ASSUME NEW depth, Leaves(vm, t, depth), t.pc \in 1..Len(stream), depth = found.before[t.pc],
             t.calls \in Seq(Returns)
      PROVE  Standing'
  <2>1. Parts(t) /\ DOMAIN t.vars = DOMAIN vm.vars /\ IsSeq(t.stack) /\ Len(t.stack) = depth
    BY <1>9 DEF Leaves
  <2>2. Safe(stream, DOMAIN t.vars, found.before, found.deepest)
    BY <1>3, <2>1 DEF Standing
  <2> QED
    BY <1>1, <1>9, <2>1, <2>2 DEF Standing, Returns
<1>10. CASE /\ Leaves(vm, t, after) /\ i.op \in Jumping /\ i.op # "Call"
            /\ t.pc = i.to /\ t.calls = vm.calls
  BY <1>4, <1>7, <1>9, <1>10
<1>11. CASE /\ Leaves(vm, t, after - Flag(Keeps(i.op))) /\ Falls(i) /\ i.op # "Call"
            /\ t.pc = vm.pc + 1 /\ t.calls = vm.calls
  BY <1>4, <1>8, <1>9, <1>11
<1>12. CASE /\ Leaves(vm, t, after) /\ i.op = "Call"
            /\ t.pc = i.to /\ t.calls = Append(vm.calls, vm.pc + 1)
  <2>1. Falls(i) /\ i.op \in Jumping /\ Flag(Keeps(i.op)) = 0
    BY <1>12 DEF Falls, Jumping, Keeps, Flag
  <2>2. vm.pc + 1 \in Returns
    BY <1>7, <1>8, <1>12, <2>1 DEF Returns
  <2>3. Append(vm.calls, vm.pc + 1) \in Seq(Returns)
    BY <1>4, <2>2, AppendProperties
  <2> QED
    BY <1>7, <1>9, <1>12, <2>1, <2>3
<1>13. CASE /\ Leaves(vm, t, after) /\ i.op = "Ret" /\ vm.calls # <<>>
            /\ t.pc = Last(vm.calls) /\ t.calls = Front(vm.calls)
  <2>1. Len(vm.calls) \in Nat /\ Len(vm.calls) > 0
    BY <1>4, <1>13, EmptySeq
  <2>2. Last(vm.calls) \in Returns
    BY <1>4, <2>1, ElementOfSeq DEF Last
  <2>3. Front(vm.calls) \in Seq(Returns)
    <3>1. \A n \in 1..(Len(vm.calls) - 1) : vm.calls[n] \in Returns
      BY <1>4, <2>1, ElementOfSeq
    <3> QED
      BY <2>1, <3>1, SubSeqProperties DEF Front
  <2>4. after = 0
    BY <1>7, <1>13 DEF Ends
  <2> QED
    BY <1>9, <1>13, <2>2, <2>3, <2>4 DEF Returns
<1>14. \/ /\ Leaves(vm, t, after) /\ i.op \in Jumping /\ i.op # "Call"
          /\ t.pc = i.to /\ t.calls = vm.calls
       \/ /\ Leaves(vm, t, after - Flag(Keeps(i.op))) /\ Falls(i) /\ i.op # "Call"
          /\ t.pc = vm.pc + 1 /\ t.calls = vm.calls
       \/ /\ Leaves(vm, t, after) /\ i.op = "Call"
          /\ t.pc = i.to /\ t.calls = Append(vm.calls, vm.pc + 1)
       \/ /\ Leaves(vm, t, after) /\ i.op = "Ret" /\ vm.calls # <<>>
          /\ t.pc = Last(vm.calls) /\ t.calls = Front(vm.calls)
  <2>1. i = stream[vm.pc] /\ t = exec(stream, vm)
    BY DEF i, t
  <2>2. Going(t) /\ Parts(vm) /\ IsSeq(vm.stack)
    BY <1>2, <1>4
  <2> QED
    <3>1. Moves(i, vm, t)
      BY <1>6, <1>7, <2>1, <2>2, ExecLeaves
    <3> QED
      BY <3>1 DEF Moves, after
<1> QED
  BY <1>10, <1>11, <1>12, <1>13, <1>14

(* Every machine, whatever stream its core was given, runs within the code *)
(* and within its stack, as long as the stream ends in an instruction that *)
(* does not fall past it: verify itself does not ask for that.             *)
THEOREM RunsWithin ==
    ASSUME \A load \in Loads : Ended(load.code)
    PROVE  VmSpec => []StackAsVerified
<1>1. VmInit => VmInv
  BY VmInvInit
<1>2. VmInv /\ [VmStep]_vmVars => VmInv'
  <2>1. ASSUME VmInv, UNCHANGED vmVars PROVE VmInv'
    BY <2>1 DEF vmVars, VmInv, Coded, Ended, Going, Standing, Returns
  <2> QED
    BY <2>1, VmInvStep
<1>3. VmInv => StackAsVerified
  BY DEF VmInv, Going, Standing, Safe, Fits, StackAsVerified
<1> QED
  BY <1>1, <1>2, <1>3, PTL DEF VmSpec
==============================================================================
