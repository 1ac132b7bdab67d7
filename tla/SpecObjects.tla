---------------------------- MODULE SpecObjects ----------------------------
(***************************************************************************)
(* The event-driven objects of a specification as the Python executor      *)
(* steps them (playspec/objects.py).  A reaction reads and stores the      *)
(* bytes of a memory m and yields a wrap flag; its result is a record      *)
(* [m, flag, ok], with ok false where Python raises SpecRuntimeError.      *)
(*                                                                         *)
(* A cell is a sequence of one or two byte addresses, <<>> where the       *)
(* object has none.  A row byte that goes through a mask and shifts is a   *)
(* function of the byte, and a test of a row byte the set of bytes that    *)
(* pass it.                                                                *)
(***************************************************************************)
EXTENDS Integers, Sequences, SequencesExt

CONSTANTS Byte,     \* how many values a byte has (256)
          JUMPS,    \* how many rows a step may decode (256)
          Devices   \* addresses a device answers

ASSUME ByteAssumption == Byte \in Nat /\ Byte > 1
ASSUME JumpsAssumption == JUMPS \in Nat \ {0}

Address == Byte * Byte                                      \* 64 KiB
Room(loc) == IF Len(loc) > 1 THEN Byte * Byte ELSE Byte     \* top + 1

Load(m, loc) == m[loc[1]] + (IF Len(loc) > 1 THEN Byte * m[loc[2]] ELSE 0)

Store(m, loc, value) ==
    [a \in DOMAIN m |->
        IF a = loc[1] /\ (Len(loc) = 1 \/ a # loc[2]) THEN value % Byte
        ELSE IF Len(loc) > 1 /\ a = loc[2] THEN (value \div Byte) % Byte
        ELSE m[a]]

Put(m, a, value) == [m EXCEPT ![a] = value]
Stepped(m, flag) == [m |-> m, flag |-> flag, ok |-> TRUE]
Raised(m) == [m |-> m, flag |-> 0, ok |-> FALSE]
Flag(p) == IF p THEN 1 ELSE 0

-----------------------------------------------------------------------------
(* Counters, owners and accumulators. *)

\* A counter stores the value after the step, or the reload where it wraps.
counter(obj, kind, m, limit, reload) ==
    LET value == Load(m, obj.cell)
        after == IF kind = "up" THEN value + obj.delta ELSE value - obj.delta
        wrap  == IF obj.gated THEN limit # 0
                 ELSE IF kind = "up" THEN after > limit ELSE value < obj.delta
    IN  IF kind = "reset" THEN Stepped(Store(m, obj.cell, reload), 0)
        ELSE Stepped(Store(m, obj.cell, (IF wrap THEN reload ELSE after) % Room(obj.cell)),
                     Flag(wrap))

owner(obj, kind, m, ident, none, cond) ==
    IF cond # 0 /\ kind = "claim" THEN Stepped(Store(m, obj.cell, ident), 0)
    ELSE IF cond # 0 /\ Load(m, obj.cell) = ident THEN Stepped(Store(m, obj.cell, none), 0)
    ELSE Stepped(m, 0)

accum(obj, mode, m, amount, target) ==
    LET value == Load(m, obj.cell)
        moved == IF value < target
                 THEN IF value + amount < target THEN value + amount ELSE target
                 ELSE IF value - amount > target THEN value - amount ELSE target
        down  == mode = "tri" /\ m[obj.dir[1]] % 2 = 1
        after == IF down THEN value - amount ELSE value + amount
    IN  CASE mode = "flip" ->
               LET d == m[obj.dir[1]] IN Stepped(Put(m, obj.dir[1], d + 1 - 2 * (d % 2)), 0)
          [] mode = "to" /\ value = target -> Stepped(m, 0)
          [] mode = "to" /\ value # target ->
               Stepped(Store(m, obj.cell, moved), Flag(moved = target))
          [] OTHER -> Stepped(Store(m, obj.cell, after % Room(obj.cell)),
                              Flag(after < 0 \/ after >= Room(obj.cell)))

-----------------------------------------------------------------------------
(* Cursors.  A row is a record of the bytes [from, to] its first byte is   *)
(* in, its tests and what it does.                                         *)

xf(spec, cols) == IF spec.col = 0 THEN spec.value ELSE spec.of[cols[spec.col]]
to_signed(byte) == IF byte >= Byte \div 2 THEN byte - Byte ELSE byte
passes(test, cols) == cols[test.col] \in test.in

\* The assignments of a row, in order; the index past the values is the count.
assign_one(obj, cols, s, acc) ==
    LET v == xf(s.spec, cols) IN
    IF s.guard # <<>> /\ ~passes(s.guard[1], cols) THEN acc
    ELSE IF s.index > Len(obj.values) THEN [acc EXCEPT !.left = v]
    ELSE IF s.part = 0 THEN [acc EXCEPT !.m = Store(@, obj.values[s.index], v)]
    ELSE [acc EXCEPT !.m = Put(@, obj.values[s.index][s.part], v)]
assign(obj, m, cols, sets, left) ==
    LET after[n \in 0..Len(sets)] ==
            IF n = 0 THEN [m |-> m, left |-> left] ELSE assign_one(obj, cols, sets[n], after[n - 1])
    IN  after[Len(sets)]

\* A sweep adds delta to a cell, or to frac-sized fractions of its high byte.
sweep(m, loc, frac, delta) ==
    IF frac = 0
    THEN Stepped(Store(m, loc, Load(m, loc) + delta), Flag(m[loc[1]] + (delta % Byte) >= Byte))
    ELSE LET total == (m[loc[2]] * frac + (m[loc[1]] % frac) + delta) % (Byte * frac)
         IN  Stepped(Put(Put(m, loc[2], total \div frac), loc[1], total % frac), 0)

settle(obj, m) ==
    IF obj.run # <<>> /\ m[obj.run[1]] # 0 THEN Stepped(m, 0)
    ELSE Stepped(Store(m, obj.pos, (Load(m, obj.pos) + 1) % Room(obj.pos)), 0)

reset(obj, m, start) ==
    LET moved == Store(m, obj.pos, (start - Flag(obj.adv = "pre")) % Room(obj.pos))
        clear(mem, loc) == IF loc = <<>> THEN mem ELSE Put(mem, loc[1], 0)
    IN  Stepped(clear(clear(moved, obj.cnt), obj.run), 0)

\* A byte of a row: of memory, or of the column's constant table.
Past(obj, j, addr) == obj.tabs[j] # <<>> /\ (addr % Address) >= Len(obj.tabs[j])
fetch(obj, m, j, addr) ==
    IF obj.tabs[j] = <<>> THEN m[addr % Address] ELSE obj.tabs[j][(addr % Address) + 1]

\* What a row makes of a turn: cols are the bytes it was decoded from.
Act(obj, ops, w, row, cols) ==
    LET End(v)  == [v EXCEPT !.over = TRUE]
        Then(v) == LET a == assign(obj, v.m, cols, row.then, v.left)
                   IN  End([v EXCEPT !.m = a.m, !.left = a.left])
        Jump(v, target) == [v EXCEPT !.at = target, !.via = <<>>, !.jumped = TRUE,
                                     !.carry = Flag(target >= w.at)]
        Limited(limit) == w.left # xf(limit, cols)
        Finished == [w EXCEPT !.left = 0, !.carry = 1, !.used = obj.width]
    IN  CASE row.kind = "jump" ->
               LET target == xf(row.to_, cols)
                   v == [Jump(w, target) EXCEPT !.via = row.via]
               IN  IF target = w.at THEN End([v EXCEPT !.via = w.via])
                   ELSE IF row.hold = {} THEN v
                   ELSE IF Past(obj, 1, ops[1] + target) THEN [v EXCEPT !.ok = FALSE]
                   ELSE IF fetch(obj, w.m, 1, ops[1] + target) \in row.hold
                        THEN End([v EXCEPT !.left = 0])
                   ELSE v
          [] row.kind = "call" ->
               [Jump(w, xf(row.to_, cols))
                   EXCEPT !.m = Store(@, obj.ret, (w.at + obj.width) % Room(obj.pos))]
          [] row.kind = "return" -> Jump(w, Load(w.m, obj.ret))
          [] row.kind = "stop"   -> End([w EXCEPT !.carry = 1])
          [] row.kind = "sweep" /\ Limited(row.count) ->
               LET loc == obj.values[row.into]
                   s == sweep(w.m, IF row.part = 0 THEN loc ELSE <<loc[row.part]>>, row.frac,
                              to_signed(xf(row.step, cols)))
               IN  End([w EXCEPT !.m = s.m, !.carry = s.flag, !.left = (@ + 1) % Byte, !.used = 0])
          [] row.kind = "delay" /\ Limited(row.count) ->
               End([w EXCEPT !.carry = 0, !.left = (@ + 1) % Byte, !.used = 0])
          [] row.kind \in {"sweep", "delay"} /\ ~Limited(row.count) -> Then(Finished)
          [] row.kind = "set" ->
               LET a == assign(obj, w.m, cols, row.sets, w.left)
               IN  Then([w EXCEPT !.m = a.m, !.left = a.left, !.used = row.take,
                                  !.carry = IF w.jumped THEN @ ELSE 0])
          [] row.kind = "run" ->
               LET a == assign(obj, Put(w.m, obj.run[1], (cols[1] - row.base) % Byte),
                               [j \in DOMAIN cols |-> 0], row.sets, w.left)
               IN  End([w EXCEPT !.m = a.m, !.left = a.left, !.carry = 0, !.used = 1])
          [] row.kind = "end" -> Then([w EXCEPT !.carry = 1, !.used = row.take])

\* The row decoded from cols: the first one that the byte and the tests match.
Row_(obj, first, cols) ==
    LET n == SelectInSeq(obj.rows, LAMBDA r : /\ r.from <= first /\ first <= r.to
                                              /\ \A i \in DOMAIN r.tests : passes(r.tests[i], cols))
    IN  IF n = 0 THEN [kind |-> "stop"] ELSE obj.rows[n]

\* One turn of walk's loop: the row at w.at is decoded and acted on.
Turn(obj, ops, w) ==
    LET columns == 1..Len(obj.tabs)
        Decoded(cols) == Act(obj, ops, w, Row_(obj, IF w.via = <<>> THEN cols[1] ELSE w.via[1], cols), cols)
    IN  IF \E j \in columns : Past(obj, j, ops[j] + w.at) THEN [w EXCEPT !.ok = FALSE]
        ELSE Decoded([j \in columns |-> fetch(obj, w.m, j, ops[j] + w.at)])

\* What a step leaves: the position past the bytes used, and the counter.
Walked(obj, last) ==
    LET moved == Store(last.m, obj.pos,
                       (last.at + last.used - Flag(obj.adv # "post")) % Room(obj.pos))
    IN  IF ~last.over THEN Raised(last.m)
        ELSE Stepped(IF obj.cnt = <<>> THEN moved ELSE Put(moved, obj.cnt[1], last.left), last.carry)

\* What a step starts from, and a turn after those that did not end it.
Walking(obj, m, left) ==
    [m |-> m, via |-> <<>>, jumped |-> FALSE, carry |-> 0, left |-> left,
     at |-> (Load(m, obj.pos) + Flag(obj.adv = "pre")) % Room(obj.pos),
     used |-> 0, over |-> FALSE, ok |-> TRUE]
NextTurn(obj, ops, w) == IF w.over \/ ~w.ok THEN w ELSE Turn(obj, ops, w)

\* A step: a pending run counts down; else rows are decoded until one ends it.
walk(obj, m, ops) ==
    LET left    == IF obj.cnt = <<>> THEN 0 ELSE m[obj.cnt[1]]
        pending == IF obj.run = <<>> THEN 0 ELSE m[obj.run[1]]
        empty   == SelectInSeq(obj.rows, LAMBDA r : r.kind = "run")
        zeros   == [j \in DOMAIN obj.tabs |-> 0]
        counted == Put(m, obj.run[1], pending - 1)
        turns[n \in 0..JUMPS] == IF n = 0 THEN Walking(obj, m, left) ELSE NextTurn(obj, ops, turns[n - 1])
    IN  IF pending # 0
        THEN Stepped(IF empty = 0 THEN counted
                     ELSE assign(obj, counted, zeros, obj.rows[empty].sets, left).m, 0)
        ELSE Walked(obj, turns[JUMPS])
=============================================================================
