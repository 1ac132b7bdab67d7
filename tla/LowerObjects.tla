------------------------------ MODULE LowerObjects ------------------------------
(***************************************************************************)
(* The events and the event-driven objects of a specification, bound to    *)
(* the bytes they keep (playspec/lowerobj.py).                             *)
(*                                                                         *)
(* A bound object is a record: its reactions take an event to an action,   *)
(* its asts are the operands of each reaction, as syntax, and its step is  *)
(* the object SpecObjects steps.  A cursor row's operand over a row byte   *)
(* is [col, mask, shl, shr], col 0 for the constant mask; a test of one is *)
(* [col, mask, value, equal].                                              *)
(***************************************************************************)
EXTENDS LowerExpr, FiniteSetsExt

Empty == [n \in {} |-> 0]
Local(S) == LET own == S.b.inst[S.inst] IN
            IF own.x = <<>> THEN Empty ELSE own.index :> StaticName(own.x[1])
\* The value of an expression that must be static.
static(e, S) ==
    LET x == expr(e, S, Local(S)) IN IF Fixed(x.e) THEN [v |-> x.e.v, bad |-> x.bad] ELSE [v |-> 0, bad |-> TRUE]
Constant(v, m) == made(Exactly(v, m))
Members(seq) == {seq[i] : i \in DOMAIN seq}

-----------------------------------------------------------------------------
(* Events. *)

EVENTS == [frame |-> <<>>, tick |-> <<"frame">>, row |-> <<"tick">>, note |-> <<"row">>, legato |-> <<"row">>,
           instrument |-> <<"row">>]
bind_events(S) ==
    LET Declare(T, e) == IF e.name \in DOMAIN T.b.events \/ e.parent \notin DOMAIN T.b.events THEN [T EXCEPT !.bad = TRUE]
                         ELSE [T EXCEPT !.b.events = (e.name :> <<e.parent>>) @@ @]
    IN  Through(Declare, [S EXCEPT !.b.events = EVENTS], S.b.spec.events)
RECURSIVE below(_, _, _)
below(event, ancestor, S) ==
    event \in DOMAIN S.b.events /\ S.b.events[event] # <<>>
    /\ (S.b.events[event][1] = ancestor \/ below(S.b.events[event][1], ancestor, S))
\* Whether an object may fire what it names, stepping on some events; one that may not fires nothing.
fires_below(fires, steps, S) == fires # <<>> => \A e \in steps : below(fires[1], e, S)
Firing_(fires, steps, S) == IF fires_below(fires, steps, S) THEN fires ELSE <<>>
Unknown(fires, S) == fires # <<>> /\ fires[1] \notin DOMAIN S.b.events

\* pairs <<events, action>>: every event has one reaction.
reaction(pairs, S) ==
    LET at == {p \in (DOMAIN pairs) \X (1..8) : p[2] \in DOMAIN pairs[p[1]][1]}
        event(p) == pairs[p[1]][1][p[2]]
    IN  [on |-> [e \in {event(p) : p \in at} |-> pairs[(CHOOSE p \in at : event(p) = e)[1]][2]],
         bad |-> \/ \E p \in at : event(p) \notin DOMAIN S.b.events
                 \/ \E p, q \in at : p # q /\ event(p) = event(q)]
For_(table, x) == [e \in DOMAIN table.on |-> x]

-----------------------------------------------------------------------------
(* The cells and states objects keep their bytes in. *)

object_cell(name, S, wide) ==
    LET found == lookup(name, S, Local(S))
        place == in_proc(found.cell, S)
        each == IF found.cell.typ = "u8" THEN 1 ELSE 2
        bytes == IF found.m = Byte THEN 1 ELSE 2
    IN  CASE found.is = "var" /\ found.n \in S.b.kept ->
               [at |-> [i \in 1..bytes |-> Own(found.n, i - 1)], bad |-> found.m = Bool \/ bytes > wide]
          [] found.is = "cell" /\ found.cell.length = <<>> /\ found.cell.typ \in {"u8", "u16"} /\ each <= wide ->
               [at |-> IF each = 1 \/ Len(place) = 2 THEN place ELSE <<place[1], (place[1] + 1) % Word>>, bad |-> FALSE]
          [] OTHER -> [at |-> <<0>>, bad |-> TRUE]
Cell_(names, S, wide) == IF names = <<>> THEN [at |-> <<>>, bad |-> FALSE] ELSE object_cell(names[1], S, wide)
CellSpan(loc) == IF Len(loc.at) = 1 THEN Byte ELSE Word

\* What every bound object has.
Object(d, table, asts, widths, step) ==
    [is |-> "object", name |-> d.name, kind |-> step.kind, reactions |-> table.on, asts |-> asts, widths |-> widths,
     fires |-> <<>>, id |-> <<>>, none |-> <<>>, bases |-> <<>>, step |-> step]
Bind(bad, object) == [bad |-> bad, object |-> object]

bind_counter(d, S) ==
    LET loc == object_cell(d.cell, S, 2)
        m == CellSpan(loc)
        gated == d.gate # <<>>
        amount(on) == static(on.amount, S)
        action(on) == IF on.op = "reset" THEN [kind |-> "reset", delta |-> 0, gated |-> FALSE]
                      ELSE [kind |-> IF on.op = "+=" THEN "up" ELSE "down", delta |-> amount(on).v, gated |-> gated]
        table == reaction([i \in DOMAIN d.on |-> <<d.on[i].events, action(d.on[i])>>], S)
        steps == {e \in DOMAIN table.on : table.on[e].kind # "reset"}
        limit == IF gated THEN d.gate[1] ELSE IF d.limit # <<>> THEN d.limit[1] ELSE Constant(m - 1, m)
        reload == IF d.reload = <<>> THEN Constant(0, m) ELSE d.reload[1]
        odd == \E on \in Members(d.on) : on.op # "reset" /\ (on.op \notin {"+=", "-="} \/ amount(on).bad \/ amount(on).v <= 0)
        width2 == <<IF gated /\ steps # {} THEN Bool ELSE m, m>>
    IN  Bind(loc.bad \/ table.bad \/ odd \/ (gated /\ d.limit # <<>>) \/ Unknown(d.fires, S)
             \/ ~fires_below(d.fires, steps, S),
             [Object(d, table, For_(table, <<limit, reload>>), width2,
                     [kind |-> "counter", cell |-> loc.at, delta |-> 0, gated |-> FALSE])
                 EXCEPT !.fires = Firing_(d.fires, steps, S)])

bind_accum(d, S) ==
    LET loc == object_cell(d.cell, S, 2)
        m == CellSpan(loc)
        dir == Cell_(d.dir, S, 1)
        action(on) == [kind |-> on.mode, target |-> on.target]
        table == reaction([i \in DOMAIN d.on |-> <<d.on[i].events, action(d.on[i])>>], S)
        step == IF d.step = <<>> THEN Constant(1, m) ELSE d.step[1]
        asts == [e \in DOMAIN table.on |-> <<step, IF table.on[e].target = <<>> THEN Constant(0, m) ELSE table.on[e].target[1]>>]
        modes == {table.on[e].kind : e \in DOMAIN table.on}
        steps == {e \in DOMAIN table.on : table.on[e].kind # "flip"}
    IN  Bind(\/ loc.bad \/ dir.bad \/ table.bad \/ (d.dir = <<>> /\ modes \intersect {"tri", "flip"} # {})
             \/ Unknown(d.fires, S) \/ ~fires_below(d.fires, steps, S),
             [Object(d, table, asts, <<m, m>>, [kind |-> "accum", cell |-> loc.at, dir |-> dir.at])
                 EXCEPT !.fires = Firing_(d.fires, steps, S)])

bind_owner(d, S) ==
    LET loc == object_cell(d.cell, S, 1)
        none == IF d.none = <<>> THEN Constant(Byte - 1, Byte) ELSE d.none[1]
        when(on) == IF on.when = <<>> THEN Constant(1, Bool) ELSE on.when[1]
        table == reaction([i \in DOMAIN d.on |-> <<d.on[i].events, [kind |-> d.on[i].action, when |-> when(d.on[i])]>>], S)
        asts == [e \in DOMAIN table.on |-> <<[is |-> "given", ast |-> d.id], none, table.on[e].when>>]
    IN  Bind(loc.bad \/ table.bad,
             [Object(d, table, asts, <<Byte, Byte, Bool>>, [kind |-> "owner", cell |-> loc.at])
                 EXCEPT !.id = d.id, !.none = none])

-----------------------------------------------------------------------------
(* The operands and tests of a row's bytes; cols are their names. *)

RECURSIVE mentions(_, _), xform(_, _, _), condition(_, _, _), tests(_, _, _)
mentions(e, names) ==
    IF e.is = "name" THEN e.name \in names ELSE "a" \in DOMAIN e /\ \E i \in DOMAIN e.a : mentions(e.a[i], names)
Spec4(col, mask, shl, shr) == [col |-> col, mask |-> mask, shl |-> shl, shr |-> shr, bad |-> FALSE]
NoSpec == [Spec4(0, 0, 0, 0) EXCEPT !.bad = TRUE]

\* A column or a constant, & mask and one shift.
xform(e, cols, S) ==
    LET at == IF e.is = "name" THEN SelectInSeq(cols, LAMBDA n : n = e.name) ELSE 0
        swap == e.is = "&" /\ mentions(e.a[2], Members(cols))
        inner == xform(e.a[IF swap THEN 2 ELSE 1], cols, S)
        n == static(e.a[IF swap THEN 1 ELSE 2], S)
        plain == ~inner.bad /\ ~n.bad /\ inner.shl = 0 /\ inner.shr = 0
        shifts == plain /\ inner.col # 0 /\ n.v \in 0..15
    IN  CASE at # 0 -> Spec4(at, Byte - 1, 0, 0)
          [] at = 0 /\ ~mentions(e, Members(cols)) -> [Spec4(0, static(e, S).v % Byte, 0, 0) EXCEPT !.bad = static(e, S).bad]
          [] e.is = "&" -> IF plain THEN [inner EXCEPT !.mask = @ & n.v] ELSE NoSpec
          [] e.is = "<<" -> IF shifts THEN [inner EXCEPT !.shl = n.v] ELSE NoSpec
          [] e.is = ">>" -> IF shifts THEN [inner EXCEPT !.shr = n.v] ELSE NoSpec
          [] OTHER -> NoSpec

Testing(mask, value, equal) == [mask |-> mask, value |-> value, equal |-> equal, bad |-> FALSE]
NoTest == [Testing(0, 0, TRUE) EXCEPT !.bad = TRUE]
\* The test an expression makes of the byte a name has.
condition(e, name, S) ==
    LET masked == e.is \in {"==", "!="} /\ e.a[1].is = "&" /\ e.a[1].a[1].is = "name"
        left == IF masked THEN e.a[1].a[1] ELSE e.a[1]
        mask == IF masked THEN static(e.a[1].a[2], S) ELSE [v |-> Byte - 1, bad |-> FALSE]
        value == static(e.a[2], S)
        inner == condition(e.a[1], name, S)
    IN  CASE e.is = "!" -> [inner EXCEPT !.equal = ~@]
          [] e.is = "func" /\ e.name \in {"neg", "bit"} /\ e.a[1] = named(name) ->
               IF e.name = "neg" THEN Testing(Byte \div 2, 0, FALSE)
               ELSE IF ~value.bad THEN Testing(2 ^ value.v, 0, FALSE) ELSE NoTest
          [] e.is \in {"==", "!="} /\ left = named(name) ->
               IF ~mask.bad /\ ~value.bad THEN Testing(mask.v, value.v, e.is = "==") ELSE NoTest
          [] OTHER -> NoTest
guard(e, cols, S) ==
    LET at == SelectInSeq(cols, LAMBDA n : mentions(e, {n}))
        found == condition(e, cols[at], S)
    IN  [col |-> at] @@ (IF at = 0 THEN NoTest ELSE found)
\* The conjunction of tests a && b && ... states.
tests(e, cols, S) == IF e.is = "&&" THEN tests(e.a[1], cols, S) \o tests(e.a[2], cols, S) ELSE <<guard(e, cols, S)>>

\* A static test that is false drops what it is on.
Drops(c, S) == c # <<>> /\ ~static(c[1], S).bad /\ static(c[1], S).v = 0
BadTest(c, S) == c # <<>> /\ static(c[1], S).bad
assigns(sets, targets, cols, S) ==
    LET kept == SelectSeq(sets, LAMBDA s : ~Drops(s.cond, S))
        Part(s) == SelectInSeq(<<"lo", "hi">>, LAMBDA p : p = s.part)
        one(s) == [index |-> SelectInSeq(targets, LAMBDA n : n = s.name), part |-> Part(s),
                   spec |-> xform(s.e, cols, S), guard |-> [i \in DOMAIN s.when |-> guard(s.when[i], cols, S)]]
        made2 == [i \in DOMAIN kept |-> one(kept[i])]
    IN  [sets |-> made2,
         bad |-> (\E i \in DOMAIN sets : BadTest(sets[i].cond, S))
                 \/ \E a \in Members(made2) : a.index = 0 \/ a.spec.bad \/ \E i \in DOMAIN a.guard : a.guard[i].bad]

-----------------------------------------------------------------------------
(* Cursors over tables. *)

\* The cells the rows assign: the declared values, then the others in order.
row_targets(d) ==
    LET Of(row) == LET of(sets) == [i \in DOMAIN sets |-> sets[i].name] IN
                   of(row.then)
                   \o (CASE row.act.is = "set" -> of(row.act.sets)
                         [] row.act.is = "sweep" /\ row.act.into.is = "name" -> <<row.act.into.name>>
                         [] OTHER -> <<>>)
        Add(names, n) == IF n \in Members(d.count \o names) THEN names ELSE Append(names, n)
    IN  Through(LAMBDA names, row : Through(Add, names, Of(row)), d.values, d.rows)

\* A row [from, to, tests, ...] as SpecObjects acts on it; targets are the values and the count.
cursor_row(row, values, d, cols, step, S) ==
    LET act == row.act
        targets == values \o d.count
        low == static(row.lo, S)
        high == IF row.hi = <<>> THEN low ELSE static(row.hi[1], S)
        after == assigns(row.then, targets, cols, S)
        when == IF row.when = <<>> THEN <<>> ELSE tests(row.when[1], cols, S)
        sets == assigns(act.sets, targets, cols, S)
        take == IF act.take = <<>> THEN step ELSE IF static(act.take[1], S).v = 0 THEN 1 ELSE static(act.take[1], S).v
        into == SelectInSeq(values, LAMBDA n : n = act.into.name)
        lane == IF act.into.is = "attr" THEN SelectInSeq(<<"lo", "hi">>, LAMBDA p : p = act.into.attr) ELSE 0
        frac == IF act.frac = <<>> THEN 0 ELSE static(act.frac[1], S).v
        x(e) == xform(e, cols, S)
        base == static(act.base, S)
        Row2(action, bad) ==
            [row |-> [from |-> low.v, to |-> high.v, tests |-> when] @@ action,
             bad |-> bad \/ after.bad \/ low.bad \/ high.bad \/ BadTest(row.cond, S)
                     \/ \E i \in DOMAIN when : when[i].bad]
    IN  CASE act.is = "sweep" ->     \* a value no row assigns is taken for the first one
               Row2([kind |-> "sweep", into |-> IF into = 0 THEN 1 ELSE into, count |-> x(act.count), step |-> x(act.step),
                     frac |-> IF frac = 0 THEN 0 ELSE 2 ^ frac, part |-> IF frac # 0 /\ lane = 2 THEN 0 ELSE lane,
                     then |-> after.sets], x(act.count).bad \/ x(act.step).bad)
          [] act.is = "delay" -> Row2([kind |-> "delay", count |-> x(act.count), then |-> after.sets], x(act.count).bad)
          [] act.is = "set" -> Row2([kind |-> "set", sets |-> sets.sets, take |-> take, then |-> after.sets], sets.bad)
          [] act.is = "end" -> Row2([kind |-> "end", take |-> take, then |-> after.sets], FALSE)
          [] act.is = "jump" ->
               LET hold == [i \in DOMAIN act.hold |-> static(act.hold[i], S)]
                   via == [i \in DOMAIN act.via |-> static(act.via[i], S)]
               IN  Row2([kind |-> "jump", to_ |-> x(act.to_), via |-> [i \in DOMAIN via |-> via[i].v],
                         hold |-> IF hold = <<>> THEN {} ELSE hold[1].v..hold[2].v],
                        x(act.to_).bad \/ \E y \in Members(hold \o via) : y.bad)
          [] act.is = "call" -> Row2([kind |-> "call", to_ |-> x(act.to_)], x(act.to_).bad)
          [] act.is = "run" -> Row2([kind |-> "run", base |-> base.v, sets |-> after.sets], base.bad \/ base.v > low.v)
          [] act.is \in {"return", "stop"} -> Row2([kind |-> act.is], FALSE)

MAX_BYTES == 16
\* Rows that need a cell, a high byte or an advance the cursor lacks.
row_sets(row) ==
    CASE row.kind = "set" -> Members(row.sets) \union Members(row.then)
      [] row.kind \in {"sweep", "delay", "end"} -> Members(row.then)
      [] row.kind = "run" -> Members(row.sets)
      [] OTHER -> {}
check_cursor(c, columns) ==
    LET wide(i) == Len(c.values[i]) = 2
        ok(row) ==
            /\ row.kind = "run" => c.run # <<>>
            /\ row.kind \in {"call", "return"} => c.ret # <<>>
            /\ row.kind \in {"sweep", "delay"} => c.cnt # <<>> /\ c.adv = "post"
            /\ \A i \in DOMAIN row.tests : row.tests[i].col <= columns
            /\ \A s \in row_sets(row) : (s.index \in DOMAIN c.values /\ s.part = 2) => wide(s.index)
            /\ row.kind = "sweep" => (row.frac # 0 => wide(row.into) /\ row.part = 0) /\ (row.part = 2 => wide(row.into))
    IN  columns \in 1..MAX_BYTES /\ \A row \in Members(c.rows) : ok(row)

Actions_(d, S) == reaction([i \in DOMAIN d.on |-> <<d.on[i].events, [kind |-> d.on[i].action]>>], S)
Stepping(table) == {e \in DOMAIN table.on : table.on[e].kind = "step"}
Settles(table) == \E e \in DOMAIN table.on : table.on[e].kind = "settle"
\* The object of a cursor, its operands the bases of its columns and where it starts.
Stepper(d, table, bases, start, c, bad, S) ==
    Bind(bad \/ ~check_cursor(c, Len(bases)),
         [Object(d, table, For_(table, bases \o <<start>>),
                 [i \in 1..Len(bases) |-> Word] \o <<IF Len(c.pos) = 1 THEN Byte ELSE Word>>, c)
             EXCEPT !.fires = Firing_(d.fires, Stepping(table), S), !.bases = bases])

bind_cursor_rows(d, S) ==
    LET found == [i \in DOMAIN d.arrays |-> lookup(d.arrays[i], S, Local(S))]
        step == IF d.width = <<>> THEN 0 ELSE static(d.width[1], S).v
        listed == Len(d.bases) + Len(d.arrays)
        columns == IF listed = 1 /\ step # 0 THEN step ELSE listed
        moved(e) == IF d.origin = <<>> THEN e ELSE infix("+", d.origin[1], e)
        bases == IF d.arrays # <<>> THEN [j \in 1..columns |-> moved(num(IF listed = 1 THEN j - 1 ELSE 0))]
                 ELSE IF listed = 1 /\ columns > 1 THEN [j \in 1..columns |-> infix("+", d.bases[1], num(j - 1))]
                 ELSE d.bases
        tabs == [j \in 1..columns |-> IF d.arrays = <<>> THEN <<>> ELSE found[IF listed = 1 THEN 1 ELSE j].items]
        names == row_targets(d)
        values == [i \in DOMAIN names |-> object_cell(names[i], S, 2)]
        pos == object_cell(d.pos, S, 2)
        cnt == Cell_(d.count, S, 1)
        run == Cell_(d.run, S, 1)
        ret == Cell_(d.ret, S, 2)
        width2 == IF step = 0 THEN 1 ELSE step
        kept == SelectSeq(d.rows, LAMBDA row : ~Drops(row.cond, S))
        rows == [i \in DOMAIN kept |-> cursor_row(kept[i], names, d, SubSeq(ColumnNames, 1, Min({columns, MAX_BYTES})), width2, S)]
        table == Actions_(d, S)
        adv == IF d.adv # "pre" THEN "post" ELSE IF Settles(table) THEN "settle" ELSE "pre"
        bad == \/ \E x \in Members(values \o <<pos, cnt, run, ret, table>> \o rows) : x.bad
               \/ d.width # <<>> /\ static(d.width[1], S).bad
               \/ d.adv = "" /\ Settles(table)
               \/ ~fires_below(d.fires, Stepping(table), S)
    IN  IF \E i \in DOMAIN found : ~RoBytes(found[i]) THEN Bind(TRUE, None)
        ELSE Stepper(d, table, bases, IF d.start = <<>> THEN Constant(0, Byte) ELSE d.start[1],
                     [kind |-> "cursor", pos |-> pos.at, cnt |-> cnt.at, run |-> run.at, ret |-> ret.at,
                      values |-> [i \in DOMAIN values |-> values[i].at], adv |-> adv, width |-> width2, tabs |-> tabs,
                      rows |-> [i \in DOMAIN rows |-> rows[i].row]], bad, S)

-----------------------------------------------------------------------------
(* Cursors over streams: each field is there when a test of the one before *)
(* it holds, so a row is its first n fields.                               *)

bind_cursor_stream(d, S) ==
    LET n == Len(d.fields)
        found == IF d.within = <<>> THEN None ELSE lookup(d.within[1], S, Local(S))
        pos == object_cell(d.pos, S, 1)
        run == IF d.run = <<>> THEN Cell_(<<>>, S, 1) ELSE object_cell(d.run[1].cell, S, 1)
        bound == IF d.run = <<>> THEN <<>> ELSE [i \in 1..3 |-> static(d.run[1].range[i], S)]
        name(k) == d.fields[k].name
        always == Testing(0, 0, TRUE)
        cond == [k \in 1..n |-> IF d.fields[k].when = <<>> THEN always
                                ELSE IF k = 1 THEN NoTest ELSE condition(d.fields[k].when[1], name(k - 1), S)]
        before(k) == Through(LAMBDA total, f : total + Len(f.outs), 0, SubSeq(d.fields, 1, k - 1))
        outs == FlattenSeq([k \in 1..n |-> d.fields[k].outs])
        values == [i \in DOMAIN outs |-> object_cell(outs[i].cell, S, 2)]
        set(k, i) == LET out == d.fields[k].outs[i]
                         spec == xform(out.e, <<name(k)>>, S)
                         test == condition(out.when[1], name(k), S)
                     IN  [index |-> before(k) + i, part |-> 0, spec |-> IF spec.col = 0 THEN spec ELSE [spec EXCEPT !.col = k],
                          guard |-> IF out.when = <<>> THEN <<>> ELSE <<[col |-> k] @@ test>>]
        mine(k) == [i \in DOMAIN d.fields[k].outs |-> set(k, i)]
        sets(k) == FlattenSeq([j \in 1..k |-> mine(j)])
        there(k, c) == [col |-> k - 1] @@ c
        row(k) == [from |-> 0, to |-> Byte - 1, kind |-> "set", sets |-> sets(k), take |-> k, then |-> <<>>,
                   tests |-> [j \in 1..(k - 1) |-> there(j + 1, cond[j + 1])]
                             \o IF k < n THEN <<there(k + 1, [cond[k + 1] EXCEPT !.equal = ~@])>> ELSE <<>>]
        empty == [from |-> bound[1].v, to |-> bound[2].v, tests |-> <<>>, kind |-> "run", base |-> bound[3].v, sets |-> mine(1)]
        rows == (IF d.run = <<>> THEN <<>> ELSE <<empty>>) \o [k \in 1..n |-> row(k)]
        table == Actions_(d, S)
        bad == \/ \E x \in Members(values \o <<pos, run, table>> \o cond) : x.bad
               \/ \E s \in Members(sets(n)) : s.spec.bad \/ \E g \in Members(s.guard) : g.bad
               \/ bound # <<>> /\ ((\E i \in 1..3 : bound[i].bad) \/ bound[1].v < bound[3].v)
    IN  IF d.within # <<>> /\ ~RoBytes(found) THEN Bind(TRUE, None)
        ELSE [Stepper(d, table, [j \in 1..n |-> infix("+", d.base, num(j - 1))], Constant(0, Byte),
                      [kind |-> "cursor", pos |-> pos.at, cnt |-> <<>>, run |-> run.at, ret |-> <<>>,
                       values |-> [i \in DOMAIN values |-> values[i].at], adv |-> IF d.last THEN "settle" ELSE "post",
                       width |-> 1, tabs |-> [j \in 1..n |-> IF d.within = <<>> THEN <<>> ELSE found.items], rows |-> rows], FALSE, S)
                 EXCEPT !.bad = bad \/ n \notin 1..MAX_BYTES]

-----------------------------------------------------------------------------
(* Declarations, in the order a firing follows, and reactions. *)

bind_object(d, S) ==
    LET T == [S EXCEPT !.proc = d.name] IN
    CASE d.is = "counter" -> bind_counter(d, T)
      [] d.is = "accum" -> bind_accum(d, T)
      [] d.is = "owner" -> bind_owner(d, T)
      [] d.is = "cursor" -> bind_cursor_rows(d, T)
      [] d.is = "stream" -> bind_cursor_stream(d, T)
declare_reacting(S, d) ==
    LET bound == IF d.is = "handler" THEN Bind(d.events \ DOMAIN S.b.events # {}, d) ELSE bind_object(d, S)
        twice == \E o \in Members(visible_objects(S)) : o.name = d.name
    IN  [S EXCEPT !.bad = @ \/ bound.bad \/ twice,
                  !.b.inst[S.inst].objects = IF bound.object = None THEN @ ELSE Append(@, bound.object)]

\* The operands of a reaction, lowered in the instance it happens in.
operands(obj, event, S) ==
    LET T == [S EXCEPT !.proc = obj.name]
        ast(e) == IF e.is = "given" THEN given(e.ast, T) ELSE e
    IN  [i \in DOMAIN obj.asts[event] |-> coerce(expr(ast(obj.asts[event][i]), T, Empty), obj.widths[i])]
\* The bytes an object keeps: a step stores to no other.
every(step) ==
    LET of(role) == IF role \in DOMAIN step THEN Members(step[role]) ELSE {} IN
    UNION {of(role) : role \in {"cell", "dir", "pos", "cnt", "run", "ret"}}
    \union (IF "values" \in DOMAIN step THEN UNION {Members(v) : v \in Members(step.values)} ELSE {})
step_stmt(obj, event, ops, flag) ==
    LET action == obj.reactions[event]
        step == IF obj.kind = "counter" THEN [obj.step EXCEPT !.delta = action.delta, !.gated = action.gated] ELSE obj.step
    IN  [is |-> "obj", obj |-> step, action |-> action.kind, ops |-> [i \in DOMAIN ops |-> ops[i].e], out |-> flag,
         owns |-> {a \in every(step) : a < 0}]
=============================================================================
