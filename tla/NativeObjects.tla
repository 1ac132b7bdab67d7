--------------------------- MODULE NativeObjects ---------------------------
(***************************************************************************)
(* The same objects as the native core steps them (objects.rs), from the   *)
(* descriptions the encoder writes (native.py, describe), and what the     *)
(* core checks of a description before it takes it (Step::parse).  A step  *)
(* that bails is not ok; the frame is then played again in Python.         *)
(***************************************************************************)
EXTENDS SpecObjects, FiniteSets

CONSTANT MaxColumns     \* how many columns the core has room for (16)

ASSUME ColumnsAssumption == MaxColumns \in Nat \ {0}

\* The number of a counter's action and of an accumulator's mode.
CounterCode(obj, kind) ==
    (CASE kind = "reset" -> 0 [] kind = "up" -> 1 [] kind = "down" -> 2)
        + (IF obj.gated /\ kind # "reset" THEN 2 ELSE 0)
AccumCode(mode) ==
    CASE mode = "ramp" -> 0 [] mode = "to" -> 1 [] mode = "tri" -> 2 [] mode = "flip" -> 3

-----------------------------------------------------------------------------
(* What the core refuses. *)

BadAssign(obj, a) ==
    \/ a.index > Len(obj.values) + 1
    \/ a.index = Len(obj.values) + 1 /\ obj.cnt = <<>>
    \/ a.guard # <<>> /\ a.guard[1].col > Len(obj.tabs)
    \/ a.index <= Len(obj.values) /\ a.part = 2 /\ Len(obj.values[a.index]) = 1

BadRow(obj, row) ==
    \/ \E i \in DOMAIN row.tests : row.tests[i].col > Len(obj.tabs)
    \/ \E i \in DOMAIN row.then : BadAssign(obj, row.then[i])
    \/ /\ row.kind \in {"set", "run"}
       /\ \E i \in DOMAIN row.sets : BadAssign(obj, row.sets[i])
    \/ row.kind = "set" /\ row.take < 1
    \/ row.kind = "run" /\ obj.run = <<>>
    \/ row.kind \in {"call", "return"} /\ obj.ret = <<>>
    \/ row.kind \in {"sweep", "delay"} /\ obj.cnt = <<>>
    \/ /\ row.kind = "sweep"
       /\ \/ row.into > Len(obj.values)
          \/ row.frac > 0 /\ (Len(obj.values[row.into]) = 1 \/ row.part # 0)
          \/ row.part > 2
          \/ row.part = 2 /\ Len(obj.values[row.into]) = 1

\* A cursor the core takes, given how many operands the reaction passes.
Parses(obj, operands) ==
    /\ operands = Len(obj.tabs) + 1
    /\ Len(obj.tabs) \in 1..MaxColumns
    /\ obj.ret # <<>> => Len(obj.ret) = Len(obj.pos)
    /\ \A n \in DOMAIN obj.rows : ~BadRow(obj, obj.rows[n])

-----------------------------------------------------------------------------
(* What the compiler makes of a cursor (lowerobj.py): its cells are at     *)
(* addresses of A, its constants and table items are bytes, and the rest   *)
(* of what check_cursor asks for is what the core asks for, above.         *)

Bytes == 0..(Byte - 1)
Listed(q) == Len(q) \in Nat /\ DOMAIN q = 1..Len(q)

IsCell(A, loc) == loc \in Seq(A) /\ Len(loc) \in {1, 2}
Optional(A, loc) == loc = <<>> \/ IsCell(A, loc)

IsXf(obj, spec) ==
    /\ spec.col \in 0..Len(obj.tabs)
    /\ IF spec.col = 0 THEN spec.value \in Bytes ELSE spec.of \in [Bytes -> Bytes]
IsAssigns(obj, sets) ==
    /\ Listed(sets)
    /\ \A i \in 1..Len(sets) :
          IsXf(obj, sets[i].spec) /\ sets[i].index \in Nat \ {0} /\ sets[i].part \in 0..2

\* The fraction of a sweep fits the low byte it is kept in: the compiler does
\* not ask for that, and past it Python stores what is not a byte.
FracFits(row) == row.frac \in 0..Byte

IsRow(obj, row) ==
    /\ row.kind \in {"stop", "jump", "call", "return", "sweep", "delay", "set", "end", "run"}
    /\ row.from \in Int /\ row.to \in Int
    /\ row.kind \in {"sweep", "delay", "set", "end"} => IsAssigns(obj, row.then)
    /\ row.kind \in {"set", "run"} => IsAssigns(obj, row.sets)
    /\ row.kind \in {"jump", "call"} => IsXf(obj, row.to_)
    /\ row.kind = "jump" => row.via \in Seq(Nat)
    /\ row.kind \in {"sweep", "delay"} => IsXf(obj, row.count)
    /\ row.kind = "sweep" => /\ IsXf(obj, row.step)
                             /\ row.into \in Nat \ {0} /\ row.part \in 0..2 /\ FracFits(row)
    /\ row.kind = "run" => row.base \in Int
    /\ row.kind \in {"set", "end"} => row.take \in Int

IsCursor(A, obj) ==
    /\ 0..(Address - 1) \subseteq A
    /\ IsCell(A, obj.pos)
    /\ Optional(A, obj.cnt) /\ Optional(A, obj.run) /\ Optional(A, obj.ret)
    /\ Listed(obj.values) /\ \A i \in 1..Len(obj.values) : IsCell(A, obj.values[i])
    /\ Listed(obj.tabs) /\ \A j \in 1..Len(obj.tabs) : obj.tabs[j] \in Seq(Bytes)
    /\ obj.width \in Int
    /\ Listed(obj.rows) /\ \A n \in 1..Len(obj.rows) : IsRow(obj, obj.rows[n])

-----------------------------------------------------------------------------
(* Counters, owners and accumulators. *)

\* The mutant of native_counter: a counter wraps at its limit.
native_counter_early(obj, code, m, limit, reload) ==
    LET value == Load(m, obj.cell)
        after == IF code \in {1, 3} THEN value + obj.delta ELSE value - obj.delta
        wrap  == CASE code = 1 -> value + obj.delta >= limit
                   [] code = 2 -> value < obj.delta
                   [] OTHER    -> limit # 0
    IN  IF code = 0 THEN Stepped(Store(m, obj.cell, reload), 0)
        ELSE Stepped(Store(m, obj.cell, IF wrap THEN reload ELSE after), Flag(wrap))

native_counter(obj, code, m, limit, reload) ==
    LET value == Load(m, obj.cell)
        after == IF code \in {1, 3} THEN value + obj.delta ELSE value - obj.delta
        wrap  == CASE code = 1 -> value + obj.delta > limit
                   [] code = 2 -> value < obj.delta
                   [] OTHER    -> limit # 0
    IN  IF code = 0 THEN Stepped(Store(m, obj.cell, reload), 0)
        ELSE Stepped(Store(m, obj.cell, IF wrap THEN reload ELSE after), Flag(wrap))

native_owner(obj, release, m, ident, none, cond) ==
    IF cond # 0 /\ (~release \/ Load(m, obj.cell) = ident)
    THEN Stepped(Store(m, obj.cell, IF release THEN none ELSE ident), 0)
    ELSE Stepped(m, 0)

native_accum(obj, mode, m, amount, target) ==
    LET value == Load(m, obj.cell)
        down  == IF mode >= 2 THEN m[obj.dir[1]] ELSE 0
        after == IF down % 2 = 1 THEN value - amount ELSE value + amount
        far   == IF value < target THEN value + amount > target ELSE value - amount < target
        moved == IF far THEN target ELSE IF value < target THEN value + amount ELSE value - amount
    IN  IF mode = 3 THEN Stepped(Put(m, obj.dir[1], IF down % 2 = 1 THEN down - 1 ELSE down + 1), 0)
        ELSE IF mode = 1
        THEN IF value = target THEN Stepped(m, 0)
             ELSE Stepped(Store(m, obj.cell, moved), Flag(moved = target))
        ELSE Stepped(Store(m, obj.cell, after % Room(obj.cell)),
                     Flag(after < 0 \/ after > Room(obj.cell) - 1))

-----------------------------------------------------------------------------
(* Cursors. *)

\* The assignments of a row; the count keeps to a byte here.
native_assign_one(obj, cols, s, acc) ==
    LET v   == xf(s.spec, cols)
        loc == obj.values[s.index]
    IN  IF s.guard # <<>> /\ ~passes(s.guard[1], cols) THEN acc
        ELSE IF s.index = Len(obj.values) + 1 THEN [acc EXCEPT !.left = v % Byte]
        ELSE IF s.part = 0 THEN [acc EXCEPT !.m = Store(@, loc, v)]
        ELSE [acc EXCEPT !.m = Put(@, loc[s.part], v % Byte)]
native_assign(obj, m, cols, sets, left) ==
    LET after[n \in 0..Len(sets)] ==
            IF n = 0 THEN [m |-> m, left |-> left]
            ELSE native_assign_one(obj, cols, sets[n], after[n - 1])
    IN  after[Len(sets)]

\* A fraction that does not fit the low byte is cut off.
native_sweep(m, loc, frac, delta) ==
    LET total == (m[loc[2]] * frac + (m[loc[1]] % frac) + delta) % (Byte * frac)
    IN  IF frac = 0 THEN Stepped(Store(m, loc, Load(m, loc) + delta),
                                 Flag(m[loc[1]] + (delta % Byte) > Byte - 1))
        ELSE Stepped(Put(Put(m, loc[2], total \div frac), loc[1], (total % frac) % Byte), 0)

\* What a row does; w.why says what ended the step, if this row did.
native_act(obj, ops, w, row, cols) ==
    LET done == [w EXCEPT !.why = "done"]
        Assigned(v, sets, bytes) == LET a == native_assign(obj, v.m, bytes, sets, v.left)
                                    IN  [v EXCEPT !.m = a.m, !.left = a.left]
        Goto(target) == [w EXCEPT !.carry = Flag(target >= w.at), !.jumped = TRUE,
                                  !.at = target, !.via = <<>>]
    IN  CASE row.kind = "stop" -> [done EXCEPT !.carry = 1]
          [] row.kind = "jump" ->
               LET target == xf(row.to_, cols) IN
               IF target = w.at THEN [Goto(target) EXCEPT !.why = "done"]
               ELSE IF row.hold # {} /\ Past(obj, 1, ops[1] + target) THEN [w EXCEPT !.why = "bail"]
               ELSE IF row.hold # {} /\ fetch(obj, w.m, 1, ops[1] + target) \in row.hold
               THEN [Goto(target) EXCEPT !.left = 0, !.why = "done"]
               ELSE [Goto(target) EXCEPT !.via = row.via]
          [] row.kind = "call" ->
               [Goto(xf(row.to_, cols))
                   EXCEPT !.m = Store(@, obj.ret, (w.at + obj.width) % Room(obj.pos))]
          [] row.kind = "return" -> Goto(Load(w.m, obj.ret))
          [] row.kind \in {"sweep", "delay"} /\ w.left = xf(row.count, cols) ->
               Assigned([done EXCEPT !.left = 0, !.carry = 1, !.used = obj.width], row.then, cols)
          [] row.kind = "sweep" /\ w.left # xf(row.count, cols) ->
               LET loc == obj.values[row.into]
                   s   == native_sweep(w.m, IF row.part = 0 THEN loc ELSE <<loc[row.part]>>,
                                       row.frac, to_signed(xf(row.step, cols)))
               IN  [done EXCEPT !.left = (@ + 1) % Byte, !.m = s.m, !.carry = s.flag]
          [] row.kind = "delay" /\ w.left # xf(row.count, cols) ->
               [done EXCEPT !.left = (@ + 1) % Byte, !.carry = 0]
          [] row.kind = "set" ->
               Assigned([Assigned(done, row.sets, cols)
                            EXCEPT !.carry = IF w.jumped THEN w.carry ELSE 0, !.used = row.take],
                        row.then, cols)
          [] row.kind = "end" ->
               Assigned([done EXCEPT !.carry = 1, !.used = row.take], row.then, cols)
          [] row.kind = "run" ->
               Assigned([done EXCEPT !.m = Put(@, obj.run[1], (cols[1] - row.base) % Byte),
                                     !.carry = 0, !.used = 1],
                        row.sets, [j \in DOMAIN obj.tabs |-> 0])

\* One turn: the columns are read, the first row that matches acts.
native_turn(obj, ops, w) ==
    LET columns == DOMAIN obj.tabs
        Hits(first, cols) == {n \in DOMAIN obj.rows :
                                /\ first \in obj.rows[n].from..obj.rows[n].to
                                /\ \A i \in DOMAIN obj.rows[n].tests : passes(obj.rows[n].tests[i], cols)}
        Hit(hits, cols) == IF hits = {} THEN [w EXCEPT !.carry = 1, !.why = "done"]
                           ELSE native_act(obj, ops, w,
                                           obj.rows[CHOOSE n \in hits : \A k \in hits : n <= k], cols)
        Read(cols) == Hit(Hits(IF w.via = <<>> THEN cols[1] ELSE w.via[1], cols), cols)
    IN  IF \E j \in columns : Past(obj, j, ops[j] + w.at) THEN [w EXCEPT !.why = "bail"]
        ELSE Read([j \in columns |-> fetch(obj, w.m, j, ops[j] + w.at)])

native_saved(obj, m, value) == Store(m, obj.pos, value % Room(obj.pos))

\* A pending run counts down.
native_pending(obj, m, left) ==
    LET counted == Put(m, obj.run[1], m[obj.run[1]] - 1)
        runs    == {n \in DOMAIN obj.rows : obj.rows[n].kind = "run"}
        empty   == obj.rows[CHOOSE n \in runs : \A k \in runs : n <= k]
    IN  Stepped(IF runs = {} THEN counted
                ELSE native_assign(obj, counted, [j \in DOMAIN obj.tabs |-> 0], empty.sets, left).m, 0)

\* What a step leaves, once its last turn is done.
native_done(obj, w) ==
    LET moved == native_saved(obj, w.m, w.at + w.used - Flag(obj.adv # "post"))
    IN  IF w.why # "done" THEN Raised(w.m)
        ELSE Stepped(IF obj.cnt = <<>> THEN moved ELSE Put(moved, obj.cnt[1], w.left), w.carry)

\* What a step starts from, and a turn after those that did not end it.
native_begin(obj, m, left) ==
    [m |-> m, at |-> (Load(m, obj.pos) + Flag(obj.adv = "pre")) % Room(obj.pos),
     via |-> <<>>, jumped |-> FALSE, carry |-> 0, left |-> left, used |-> 0, why |-> ""]
native_next(obj, ops, w) == IF w.why = "" THEN native_turn(obj, ops, w) ELSE w

\* reaction: 0 a step, 1 a reset, 2 a settle, as in the description.
native_cursor(obj, reaction, m, ops) ==
    LET pending == IF obj.run = <<>> THEN 0 ELSE m[obj.run[1]]
        left    == IF obj.cnt = <<>> THEN 0 ELSE m[obj.cnt[1]]
        Zero(mem, loc) == IF loc = <<>> THEN mem ELSE Put(mem, loc[1], 0)
        turns[n \in 0..JUMPS] ==
            IF n = 0 THEN native_begin(obj, m, left) ELSE native_next(obj, ops, turns[n - 1])
    IN  CASE reaction = 1 ->
               LET moved == native_saved(obj, m, ops[Len(obj.tabs) + 1] - Flag(obj.adv = "pre"))
               IN  Stepped(Zero(Zero(moved, obj.cnt), obj.run), 0)
          [] reaction = 2 ->
               Stepped(IF pending # 0 THEN m ELSE native_saved(obj, m, Load(m, obj.pos) + 1), 0)
          [] reaction = 0 /\ pending # 0 -> native_pending(obj, m, left)
          [] reaction = 0 /\ pending = 0 -> native_done(obj, turns[JUMPS])
=============================================================================
