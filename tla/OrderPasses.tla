---------------------------- MODULE OrderPasses ----------------------------
(***************************************************************************)
(* The passes of the output order that move the stores of a call           *)
(* (playspec/outorder.py): the values an expression may take, the cells    *)
(* held in variables, the stores taken apart by register, the voices that  *)
(* stay in place, the output variables and the place of each flush.        *)
(*                                                                         *)
(* known is the record [span, bits] of what is known of the variables: an  *)
(* interval <<lo, hi>> and the bits <<mask, value>> of all their values.   *)
(***************************************************************************)
EXTENDS OrderIr

CONSTANTS Base,         \* the address of the SID (0xD400)
          MERGE         \* how many paths are followed before they are one (64)

FULL == <<0, Address - 1>>
Nothing == [span |-> <<>>, bits |-> <<>>]
Without(x, y) == x - (x & y)                        \* x & ~y

-----------------------------------------------------------------------------
(* The values of an expression. *)

\* An interval that holds every value of an expression.
RECURSIVE span(_, _)
span(e, known) ==
    LET top == width(e) - 1
        part(i) == span(e.a[i], known)
        scale == IF e.op = "word" THEN Byte ELSE 1
        lo == part(1)[1] + (IF Len(e.a) > 1 THEN scale * part(2)[1] ELSE 0)
        hi == part(1)[2] + (IF Len(e.a) > 1 THEN scale * part(2)[2] ELSE 0)
    IN  CASE e.is = "K" -> <<e.v, e.v>>
          [] e.is = "V" -> IF e.n \in DOMAIN known.span THEN known.span[e.n] ELSE <<0, top>>
          [] e.is = "Op" /\ e.op = "and" -> <<0, Min({part(i)[2] : i \in DOMAIN e.a})>>
          [] e.is = "Op" /\ e.op \in {"add", "word", "zext"} /\ hi <= top -> <<lo, hi>>
          [] OTHER -> <<0, top>>

reads(e, known) == {span(x.a, known) : x \in {y \in ToSet(nodes(e)) : y.is = "Rd"}}
overlap(spans, intervals) == \E p \in spans, q \in intervals : p[1] <= q[2] /\ q[1] <= p[2]

\* The bits of an expression known whatever the state, and their values.
RECURSIVE bits(_, _)
bits(e, known) ==
    LET top == width(e) - 1
        arg == [i \in DOMAIN e.a |-> bits(e.a[i], known)]
        m == arg[1][1]
        v == arg[1][2]
        n == arg[2][1]
        w == arg[2][2]
        zero(i) == Without(arg[i][1], arg[i][2])
        k == e.a[2].v
        shift == e.a[2].is = "K"
        of(op) == e.is = "Op" /\ e.op = op
        either(x, y) == LET both == Without(x[1] & y[1], x[2] ^^ y[2]) IN <<both, x[2] & both>>
    IN  CASE e.is = "K" -> <<top, e.v & top>>
          [] e.is = "V" -> IF e.n \in DOMAIN known.bits THEN known.bits[e.n] ELSE <<0, 0>>
          [] of("xor") -> <<m & n, (v ^^ w) & (m & n)>>
          [] of("and") -> LET one == (m & v) & (n & w) IN <<(zero(1) | zero(2)) | one, one>>
          [] of("or") -> LET one == (m & v) | (n & w) IN <<(zero(1) & zero(2)) | one, one>>
          [] of("not") -> <<m, Without(m, v)>>
          [] of("zext") -> <<m | Without(top, width(e.a[1]) - 1), v>>
          [] of("lo") -> <<m & top, v & top>>
          [] of("hi") -> <<m \div Byte, v \div Byte>>
          [] of("shl") /\ shift -> <<(m * 2 ^ k + 2 ^ k - 1) & top, (v * 2 ^ k) & top>>
          [] of("shr") /\ shift -> <<((m \div 2 ^ k) | Without(top, top \div 2 ^ k)) & top, v \div 2 ^ k>>
          [] of("word") -> <<(m | (n * Byte)) & top, (v | (w * Byte)) & top>>
          [] of("ite") -> IF e.a[1].is = "K" THEN (IF e.a[1].v # 0 THEN arg[2] ELSE arg[3])
                          ELSE either(arg[2], arg[3])
          [] OTHER -> <<0, 0>>

\* The assignments of the variables that hold no value from outside.
assigns(stmts, unknown) == {<<s.n, s.v>> : s \in {t \in stmts : t.is = "set" /\ t.n \notin unknown}}
Rounds == 8

\* An interval that holds 0 and every value of each variable, refined from none.
ranges(stmts, unknown) ==
    LET all == assigns(stmts, unknown)
        found(n, known) == {<<0, 0>>} \union {span(x[2], known) : x \in {y \in all : y[1] = n}}
        table[i \in 0..Rounds] ==
            IF i = 0 THEN <<>>
            ELSE [n \in {x[1] : x \in all} |->
                    LET spans == found(n, [Nothing EXCEPT !.span = table[i - 1]])
                    IN  <<Min({p[1] : p \in spans}), Max({p[2] : p \in spans})>>]
    IN  table[Rounds]

\* The bits each variable holds in all its values, zero among them.
known_bits(stmts, unknown) ==
    LET all == assigns(stmts, unknown)
        meet(x, y) == LET both == Without(x[1] & y[1], x[2] ^^ y[2]) IN <<both, y[2] & both>>
        table[i \in 0..Rounds] ==
            IF i = 0 THEN <<>>
            ELSE [n \in {x[1] : x \in all} |->
                    LET mine == {y \in all : y[1] = n}
                        top == Max({width(x[2]) : x \in mine}) - 1
                    IN  FoldSet(meet, <<top, 0>>,
                                {bits(x[2], [Nothing EXCEPT !.bits = table[i - 1]]) : x \in mine})]
    IN  table[Rounds]

-----------------------------------------------------------------------------
(* Effects: the variables assigned, the intervals stored and whether the   *)
(* call may finish.                                                        *)

None == [sets |-> {}, stores |-> {}, finishes |-> FALSE]
Either(x, y) == [sets |-> x.sets \union y.sets, stores |-> x.stores \union y.stores,
                 finishes |-> x.finishes \/ y.finishes]

RECURSIVE effect(_, _, _), effects(_, _, _)
effect(s, procs, known) ==
    CASE s.is = "set" -> [None EXCEPT !.sets = {s.n}]
      [] s.is = "wr" -> [None EXCEPT !.stores = {span(s.a, known)}]
      [] s.is = "obj" -> [None EXCEPT !.sets = ToSet(s.out), !.stores = {<<a, a>> : a \in s.writes}]
      [] s.is = "finish" -> [None EXCEPT !.finishes = TRUE]
      [] s.is = "call" -> effects(procs[s.proc], procs, known)
      [] OTHER -> Through(LAMBDA eff, arm : Either(eff, effects(arm, procs, known)), None, branches(s))
effects(stmts, procs, known) ==
    Through(LAMBDA eff, s : Either(eff, effect(s, procs, known)), None, stmts)

-----------------------------------------------------------------------------
(* Promotion: a cell no call reads before storing it is held in a variable. *)

unbounded(stmts, known) == \E s \in stmts : s.is = "wr" /\ span(s.a, known) = FULL

\* The cells stored, those that may be read first and those stored on every path.
single(p) == p[1] = p[2]
cells_of(spans) == UNION {p[1]..p[2] : p \in spans}
RECURSIVE scan(_, _, _), scanned(_, _, _, _, _), scan_else(_, _, _, _)
scan(w, stmts, known) ==
    Through(LAMBDA at, s : scanned(at, s, UNION {reads(e, known) : e \in ToSet(stmt_exprs(s))}, span(s.a, known), known),
             w, stmts)
scanned(at, s, spans, to, known) ==
    LET first == {p \in spans : ~single(p) /\ p # FULL}
        now == [at EXCEPT !.live = @ \union cells_of(first) \union (cells_of({p \in spans : single(p)}) \ at.written)]
    IN  CASE s.is = "obj" -> [now EXCEPT !.live = @ \union cells_of(s.reads) \union s.writes]
          [] s.is = "wr" /\ single(to) ->
               [now EXCEPT !.written = @ \union {to[1]}, !.stored = @ \union {to[1]}]
          [] s.is = "wr" /\ ~single(to) -> [now EXCEPT !.live = @ \union to[1]..to[2]]
          [] s.is = "if" -> scan_else(at, s, scan(now, s.then, known), known)
          [] s.is = "loop" -> [scan(now, s.body, known) EXCEPT !.written = at.written]
          [] OTHER -> now
scan_else(at, s, then, known) ==
    [scan([then EXCEPT !.written = at.written], s.orelse, known) EXCEPT !.written = @ \intersect then.written]

never_first(end) == end.stored \ end.live
frame_local(body, keep, known) == never_first(scan([live |-> keep, stored |-> {}, written |-> {}], body, known))

cell_var(a) == Var(<<"m", a, 0>>, Byte)

\* The cell of those an address is, or none.
cell_at(a, cells, known) == {c \in cells : span(a, known) = <<c, c>>}
promote_expr(e, cells, known) ==
    rebuild(e, [x \in {y \in ToSet(nodes(e)) : y.is = "Rd" /\ cell_at(y.a, cells, known) # {}} |->
                   cell_var(Max(cell_at(x.a, cells, known)))])
promoted(body, f, cells, known) ==
    LET stores == {map_stmt(s, f) : s \in {t \in ToSet(statements(body)) : t.is = "wr"}}
    IN  rewrite(body, f, [s \in {t \in stores : cell_at(t.a, cells, known) # {}} |->
                             <<[is |-> "set", n |-> cell_var(Max(cell_at(s.a, cells, known))).n, v |-> s.v]>>])
promote(body, cells, known) ==
    promoted(body, [e \in exprs(ToSet(statements(body))) |-> promote_expr(e, cells, known)], cells, known)

-----------------------------------------------------------------------------
(* An access that may reach several SID registers becomes one per register. *)

band == <<Base, Base + 24>>
Same(a, c) == Op("eq", 2, <<a, Addr(c)>>)

\* The registers' addresses a bounded access at a varying address may reach.
cases_in(p) == IF single(p) \/ p = FULL THEN {} ELSE p[1]..p[2] \intersect band[1]..band[2]
cases(a, known) == cases_in(span(a, known))

RECURSIVE split_expr(_, _)
split_expr(e, known) ==
    LET apart(x, hits) == FoldRight(LAMBDA c, out : Op("ite", Byte, <<Same(x.a, c), Rd(Addr(c)), out>>),
                                    SetToSortSeq(hits, <), Rd(split_expr(x.a, known)))
    IN  rebuild(e, [x \in {y \in ToSet(nodes(e)) : y.is = "Rd" /\ cases(y.a, known) # {}} |->
                       apart(x, cases(x.a, known))])

\* The statements split, with the address variables numbered from n on and
\* the interval of each.
split_store(at, s, p) ==
    LET n == at.n + 1
        to == Var(<<"sa", n, 0>>, Address)
        value == Var(<<"sv", n, 0>>, Byte)
        inside == p[1] >= band[1] /\ p[2] <= band[2]
        away == IF inside THEN <<>> ELSE <<[is |-> "wr", a |-> to, v |-> value]>>
        apart(c, out) == <<[is |-> "if", c |-> Same(to, c), orelse |-> out,
                            then |-> <<[is |-> "wr", a |-> Addr(c), v |-> value]>>]>>
    IN  [at EXCEPT !.n = n, !.spans = (to.n :> p) @@ @,
                   !.out = @ \o <<[is |-> "set", n |-> to.n, v |-> s.a], [is |-> "set", n |-> value.n, v |-> s.v]>>
                             \o FoldRight(apart, SetToSortSeq(cases_in(p), <), away)]

RECURSIVE split(_, _, _), split_stmt(_, _, _)
split(w, stmts, known) ==
    Through(LAMBDA at, s :
                 split_stmt(at, map_stmt(s, [e \in ToSet(stmt_exprs(s)) |-> split_expr(e, known)]), known),
             w, stmts)
split_arm(done, one) == [one EXCEPT !.out = Append(done.out, one.out)]
split_stmt(at, s, known) ==
    LET done_arms(arms) == [arms EXCEPT !.out = Append(at.out, with_arms(s, arms.out))]
    IN  CASE s.is = "wr" /\ cases(s.a, known) # {} -> split_store(at, s, span(s.a, known))
          [] branches(s) # <<>> ->
               done_arms(Through(LAMBDA done, arm : split_arm(done, split([done EXCEPT !.out = <<>>], arm, known)),
                             [at EXCEPT !.out = <<>>], branches(s)))
          [] OTHER -> [at EXCEPT !.out = Append(@, s)]

-----------------------------------------------------------------------------
(* How many gate and test edges a path makes in its stores to a ctrl       *)
(* register.  A path is the state before a store and the flags known of    *)
(* it: <<state, flags>>, with the state <<>> before the first store, else  *)
(* <<mask, value, expr>> of the last value stored, expr <<>> once it may   *)
(* have changed.  paths maps each to the most edges made on the way.       *)

\* What the paths of a body are followed with: the addresses and variables that
\* matter, and those of loop conditions, watched.
Watcher(addr, body, procs, known) ==
    LET all == every(body, procs)
        watch == UNION {names(s.c) : s \in {t \in all : t.is = "loop"}}
        values == {s.v : s \in {t \in all : t.is = "wr" /\ t.a.is = "K" /\ t.a.v = addr}}
    IN  [addr |-> addr, procs |-> procs, known |-> known, watch |-> watch,
         names |-> watch \union UNION {names(v) : v \in values},
         spans |-> UNION {reads(v, known) : v \in values}]

stores_to(g, s) == s.is = "wr" /\ s.a.is = "K" /\ s.a.v = g.addr
RECURSIVE stored(_, _)
stored(g, s) ==
    \/ stores_to(g, s)
    \/ s.is = "call" /\ \E t \in ToSet(g.procs[s.proc]) : stored(g, t)
    \/ \E arm \in ToSet(branches(s)) : \E t \in ToSet(arm) : stored(g, t)

\* The most edges with which each path is reached.
most(found) == [k \in {x[1] : x \in found} |-> Max({x[2] : x \in {y \in found : y[1] = k}})]
pairs(paths) == {<<k, paths[k]>> : k \in DOMAIN paths}

\* Mutant: the first store of a call makes no edge.
stored_bits_later(state, value, b) ==
    LET same == ((state[1] & b[1]) & EDGE_BITS) = EDGE_BITS /\ ((state[2] ^^ b[2]) & EDGE_BITS) = 0
    IN  [state |-> <<b[1] & EDGE_BITS, b[2] & EDGE_BITS, <<value>>>>, edge |-> state # <<>> /\ ~same]

\* The state after a store of the known bits b, and whether it may make an edge.
stored_bits(state, value, b) ==
    LET same == \/ state[3] = <<value>>
                \/ /\ ((state[1] & b[1]) & EDGE_BITS) = EDGE_BITS
                   /\ ((state[2] ^^ b[2]) & EDGE_BITS) = 0
    IN  [state |-> <<b[1] & EDGE_BITS, b[2] & EDGE_BITS, <<value>>>>, edge |-> state = <<>> \/ ~same]
store(g, state, value) == stored_bits(state, value, bits(value, g.known))

join(a, b) ==
    IF a = <<>> \/ b = <<>> THEN <<>>
    ELSE LET mask == Without(a[1] & b[1], a[2] ^^ b[2])
         IN  <<mask, a[2] & mask, IF a[3] = b[3] THEN a[3] ELSE <<>>>>
meet(k, l) == <<join(k[1], l[1]), k[2] \intersect l[2]>>
gather(keys) == LET one == CHOOSE k \in keys : TRUE IN FoldSet(meet, one, keys)

merged(paths) == IF Cardinality(DOMAIN paths) <= MERGE THEN paths
                 ELSE gather(DOMAIN paths) :> Max(Range(paths))

\* The value of a condition given the flags that hold, <<>> if not known.
RECURSIVE truth(_, _)
truth(cond, flags) ==
    LET got == [i \in DOMAIN cond.a |-> truth(cond.a[i], flags)]
        stop == cond.op = "lor"
    IN  CASE cond.is = "K" -> <<cond.v # 0>>
          [] cond.is = "V" -> IF \E f \in flags : f[1] = cond.n
                              THEN <<(CHOOSE f \in flags : f[1] = cond.n)[2]>> ELSE <<>>
          [] cond.is = "Op" /\ cond.op = "lnot" -> IF got[1] = <<>> THEN <<>> ELSE <<~got[1][1]>>
          [] cond.is = "Op" /\ cond.op \in {"land", "lor"} ->
               IF \E i \in DOMAIN got : got[i] = <<stop>> THEN <<stop>>
               ELSE IF \E i \in DOMAIN got : got[i] = <<>> THEN <<>> ELSE <<~stop>>
          [] OTHER -> <<>>

\* The paths on which a condition may hold, and those on which it may not.
may(paths, cond, value) ==
    Restrict(paths, {k \in DOMAIN paths : truth(cond, k[2]) # <<~value>>})

\* After a statement that makes no edge: what it may change is dropped.
pass_eff(g, s, paths, eff) ==
    LET lost(e) == names(e) \intersect eff.sets # {} \/ overlap(eff.stores, reads(e, g.known))
        state(x) == IF x = <<>> \/ x[3] = <<>> \/ ~lost(x[3][1]) THEN x ELSE <<x[1], x[2], <<>>>>
        flags(held) == {f \in held : f[1] \notin eff.sets}
                       \union (IF s.is = "set" /\ s.n \in g.watch /\ s.v.is = "K"
                               THEN {<<s.n, s.v.v # 0>>} ELSE {})
    IN  IF eff.sets \intersect g.names = {} /\ ~overlap(eff.stores, g.spans) THEN paths
        ELSE most({<<<<state(k[1]), flags(k[2])>>, paths[k]>> : k \in DOMAIN paths})
store_all(g, s, paths) ==
    most({<<<<x[2].state, x[1][2]>>, paths[x[1]] + Flag(x[2].edge)>> :
             x \in {<<k, store(g, k[1], s.v)>> : k \in DOMAIN paths}})

\* A loop: the paths that leave before it runs, after its first pass and after a
\* later one, which starts from the join of all a pass can leave.
RECURSIVE follow(_, _, _), follow_stmt(_, _, _), around(_, _, _, _), later(_, _, _, _, _), widen(_, _, _, _)
follow(g, stmts, paths0) == Through(LAMBDA paths, s : merged(follow_stmt(g, s, paths)), paths0, stmts)
follow_stmt(g, s, paths) ==
    CASE stores_to(g, s) -> store_all(g, s, paths)
      [] s.is = "if" /\ stored(g, s) ->
           most(pairs(follow(g, s.then, may(paths, s.c, TRUE)))
                \union pairs(follow(g, s.orelse, may(paths, s.c, FALSE))))
      [] s.is = "loop" /\ stored(g, s) -> around(g, s, paths, follow(g, s.body, may(paths, s.c, TRUE)))
      [] s.is = "fire" /\ stored(g, s) -> follow(g, s.body, paths)
      [] s.is = "call" /\ stored(g, s) -> follow(g, g.procs[s.proc], paths)
      [] OTHER -> pass_eff(g, s, paths, effect(s, g.procs, g.known))
around(g, s, paths, first) ==
    LET go == may(first, s.c, TRUE)
        left == pairs(may(paths, s.c, FALSE)) \union pairs(may(first, s.c, FALSE))
    IN  IF DOMAIN go = {} THEN most(left)
        ELSE IF s.bound < 2 THEN go @@ most(left)
        ELSE most(left \union widen(g, s, Max(Range(go)), gather(DOMAIN go)))
\* What leaves after a later pass, once the join a pass starts from holds what it leaves.
widen(g, s, most_, general) == later(g, s, most_, general, follow(g, s.body, general :> 0))
later(g, s, most_, general, paths) ==
    LET more == may(paths, s.c, TRUE)
        wider == gather(DOMAIN more \union {general})
        step == Max({0} \union Range(more))
    IN  IF wider # general THEN widen(g, s, most_, wider)
        ELSE {<<k, most_ + paths[k] + step * (s.bound - 2)>> : k \in DOMAIN may(paths, s.c, FALSE)}

\* The most edges a path makes, and the most stores.
edges(body, addr, procs, known) ==
    Max({0} \union Range(follow(Watcher(addr, body, procs, known), body, <<<<>>, {}>> :> 0)))
RECURSIVE peak(_, _, _)
peak(stmts, addr, procs) ==
    LET of(s) == CASE s.is = "wr" -> Flag(s.a = Addr(addr))
                   [] s.is = "if" -> Max({peak(s.then, addr, procs), peak(s.orelse, addr, procs)})
                   [] s.is = "loop" -> peak(s.body, addr, procs) * s.bound
                   [] s.is = "call" -> peak(procs[s.proc], addr, procs)
                   [] OTHER -> 0
    IN  Through(LAMBDA n, s : n + of(s), 0, stmts)

\* The registers of the voices whose ctrl a path may edge as often as it has segments.
native_regs(body, slots, procs, known) ==
    LET deep == segments(slots)
    IN  {7 * v + o : v \in {x \in DOMAIN deep : edges(body, Base + 7 * x + 4, procs, known) >= deep[x]},
                     o \in SEGMENTED}

-----------------------------------------------------------------------------
(* Instrumentation: each SID store assigns the register's output variable. *)

out_var(s) == Var(<<"o", s[2], s[1]>>, Byte)
flag_var(s) == Var(<<"h", s[2], s[1]>>, 2)
last_var(r) == Var(<<"last", 0, r>>, Byte)
seen_var(r) == Var(<<"seen", 0, r>>, 2)
staging(n) == n[1] \in {"o", "h"}
Assigned(var, value) == [is |-> "set", n |-> var.n, v |-> value]

edge_expr(ctrl, value) ==
    LET moved == Op("and", Byte, <<Op("xor", Byte, <<last_var(ctrl), value>>), Const(EDGE_BITS, Byte)>>)
    IN  Op("lor", 2, <<Op("lnot", 2, <<seen_var(ctrl)>>), Op("ne", 2, <<moved, Const(0, Byte)>>)>>)

\* A store to a segmented register: a ctrl store that ends a segment closes it.
segment_store(r, value, n) ==
    LET ctrl == 7 * (r \div 7) + 4
        regs == <<ctrl + 2, ctrl + 1, ctrl>>
        temp == Var(<<"t", 0, r>>, Byte)
        move(q, dst, src) == <<Assigned(out_var(<<q, dst>>), out_var(<<q, src>>)),
                               Assigned(flag_var(<<q, dst>>), flag_var(<<q, src>>))>>
        put(s) == <<Assigned(out_var(s), temp), Assigned(flag_var(s), TRUTH)>>
        shift == FlattenSeq([j \in 1..(n - 2) |-> FlattenSeq([i \in 1..3 |-> move(regs[i], n + 1 - j, n - j)])])
        close == shift \o move(regs[1], 2, 1) \o move(regs[2], 2, 1) \o put(<<ctrl, 2>>)
                 \o [i \in 1..3 |-> Assigned(flag_var(<<regs[i], 1>>), FALSITY)]
        kept_ == IF r = ctrl
                 THEN <<[is |-> "if", c |-> edge_expr(ctrl, temp), then |-> close, orelse |-> put(<<ctrl, 1>>)]>>
                 ELSE put(<<r, 1>>)
    IN  <<Assigned(temp, value)>> \o kept_ \o <<Assigned(last_var(r), temp), Assigned(seen_var(r), TRUTH)>>

\* Why a body cannot be instrumented: an access may still reach several registers.
spread(p) == ~single(p) /\ p # FULL /\ overlap({p}, {band})
Missed(s) == s.a.is = "V" /\ s.a.n[1] = "sa"        \* a split store that missed every register
unclear(stmts, known) ==
    \/ \E e \in exprs(stmts) : \E p \in reads(e, known) : spread(p)
    \/ \E s \in stmts : s.is = "wr" /\ ~Missed(s) /\ spread(span(s.a, known))

\* The register a constant access reaches, or none.
reg_in(p) == IF single(p) /\ overlap({p}, {band}) THEN {p[1] - Base} ELSE {}
reg_at(a, known) == reg_in(span(a, known))

\* A SID read yields the value the call would have left there, a SID store assigns its
\* register's output variable or, native, stays.
read_staged(x, r, seg) ==
    IF r \in seg THEN Op("ite", Byte, <<seen_var(r), last_var(r), x>>)
    ELSE Op("ite", Byte, <<flag_var(<<r, 1>>), out_var(<<r, 1>>), x>>)
store_staged(s, r, native, deep) ==
    IF r \in native THEN <<s, Assigned(flag_var(<<NATIVE, 1>>), TRUTH)>>
    ELSE IF r \in segment_regs(deep) THEN segment_store(r, s.v, deep[r \div 7])
    ELSE <<Assigned(out_var(<<r, 1>>), s.v), Assigned(flag_var(<<r, 1>>), TRUTH)>>

\* What a call assigns the output variables before anything else.
first_staged(slots, native) ==
    LET live == live_slots(slots, native)
        regs == SetToSortSeq(segment_regs(segments(slots)) \ native, <)
    IN  [i \in DOMAIN live |-> Assigned(out_var(live[i]), Const(0, Byte))]
        \o [i \in DOMAIN live |-> Assigned(flag_var(live[i]), FALSITY)]
        \o [i \in DOMAIN regs |-> Assigned(seen_var(regs[i]), FALSITY)]
        \o [i \in DOMAIN regs |-> Assigned(last_var(regs[i]), Const(0, Byte))]
        \o (IF native # {} THEN <<Assigned(flag_var(<<NATIVE, 1>>), FALSITY)>> ELSE <<>>)

staged_expr(e, native, seg, known) ==
    LET hit(a) == reg_at(a, known) \ native
    IN  rebuild(e, [x \in {y \in ToSet(nodes(e)) : y.is = "Rd" /\ hit(y.a) # {}} |->
                       read_staged(x, Max(hit(x.a)), seg)])
staged_body(body, f, native, deep, known) ==
    LET stores == {map_stmt(s, f) : s \in {t \in ToSet(statements(body)) : t.is = "wr"}}
    IN  rewrite(body, f, [s \in {t \in stores : ~Missed(t) /\ reg_at(t.a, known) # {}} |->
                             store_staged(s, Max(reg_at(s.a, known)), native, deep)])
instrument(body, slots, native, known) ==
    LET deep == segments(slots)
        f == [e \in exprs(ToSet(statements(body))) |->
                 staged_expr(e, native, segment_regs(deep) \ native, known)]
    IN  staged_body(body, f, native, deep, known)

-----------------------------------------------------------------------------
(* Placement: each slot is flushed at the first boundary after the last    *)
(* store that assigns its variables.                                       *)

flush(s) == [is |-> "if", c |-> flag_var(s), orelse |-> <<>>,
             then |-> <<[is |-> "wr", a |-> Addr(Base + s[1]), v |-> out_var(s)]>>]

\* The flag a store to a register sets, and the registers whose stores assign a
\* slot's variables.
marker(r, deep, native) ==
    IF r \in native THEN flag_var(<<NATIVE, 1>>).n
    ELSE IF r \in segment_regs(deep) THEN seen_var(r).n ELSE flag_var(<<r, 1>>).n
triggers(s, deep) ==
    LET voice == s[1] \div 7 off == s[1] % 7 IN
    IF s[1] >= 21 \/ voice \notin DOMAIN deep \/ off \notin SEGMENTED THEN {s[1]}
    ELSE IF off = 4 \/ s[2] > 1 THEN {7 * voice + 4}
    ELSE {7 * voice + o : o \in SEGMENTED}

\* What the flushes are placed with (_Placer).
Placer(slots, native, procs, known) ==
    LET deep == segments(slots)
        all == (IF native # {} THEN <<<<NATIVE, 1>>>> ELSE <<>>) \o live_slots(slots, native)
    IN  [slots |-> all, procs |-> procs, known |-> known,
         trigger |-> [i \in DOMAIN all |-> IF all[i][1] = NATIVE THEN {NATIVE} ELSE triggers(all[i], deep)],
         flags |-> {<<marker(r, deep, native), IF r \in native THEN NATIVE ELSE r>> : r \in REGS}]

\* The SID registers a statement may store.
regs_of(g, s) == {f[2] : f \in {x \in g.flags : x[1] \in effect(s, g.procs, g.known).sets}}

\* The slots done once those from done on that no later store assigns are flushed.
RECURSIVE advance(_, _, _)
advance(g, done, future) ==
    IF done < Len(g.slots) /\ g.trigger[done + 1] \intersect future = {}
    THEN advance(g, done + 1, future) ELSE done
flushes(g, from, to) ==
    FlattenSeq([i \in 1..(to - from) |-> IF g.slots[from + i][1] = NATIVE THEN <<>>
                                         ELSE <<flush(g.slots[from + i])>>])

\* Whether a statement is an if that may finish, or with an arm that may flush the
\* next slot before its end.
RECURSIVE early(_, _, _, _)
early(g, s, done, after) ==
    /\ s.is = "if"
    /\ done < Len(g.slots)
    /\ \/ effect(s, g.procs, g.known).finishes
       \/ \E arm \in ToSet(branches(s)) :
             /\ arm # <<>>
             /\ \/ g.trigger[done + 1] \intersect (regs_of(g, Last(arm)) \union after) = {}
                \/ early(g, Last(arm), done, after)

\* Statements with the flushes placed from done slots on; after holds the registers
\* stored after them.
RECURSIVE seq(_, _, _, _)
seq(g, stmts, done0, after) ==
    LET future(i) == after \union UNION {regs_of(g, stmts[j]) : j \in i..Len(stmts)}
        first == advance(g, done0, future(1))
        step(w, i) ==
            LET s == stmts[i]
                then == seq(g, s.then, w.done, future(i + 1))
                orelse == seq(g, s.orelse, w.done, future(i + 1))
                on == advance(g, w.done, future(i + 1))
            IN  CASE w.ended -> w
                  [] ~w.ended /\ s.is = "finish" ->
                       [out |-> w.out \o flushes(g, w.done, Len(g.slots)) \o <<s>>,
                        done |-> Len(g.slots), ended |-> TRUE]
                  [] ~w.ended /\ s.is # "finish" /\ early(g, s, w.done, future(i + 1)) ->
                       [out |-> Append(w.out, [s EXCEPT !.then = then.out, !.orelse = orelse.out]),
                        done |-> Min({then.done, orelse.done}), ended |-> FALSE]
                  [] OTHER -> [out |-> Append(w.out, s) \o flushes(g, w.done, on), done |-> on, ended |-> FALSE]
    IN  Through(step, [out |-> flushes(g, done0, first), done |-> first, ended |-> FALSE],
                 [i \in DOMAIN stmts |-> i])
place(body, slots, native, procs, known) == seq(Placer(slots, native, procs, known), body, 0, {}).out

\* Every sequence of slots a path through a placed body flushes.
RECURSIVE flushed(_, _, _)
flushed(w, stmts, slots) ==
    LET step(at, s) ==
            LET hit == {x \in ToSet(slots) : s.c = flag_var(x)}
                then == flushed([at EXCEPT !.ended = {}], s.then, slots)
                orelse == flushed([at EXCEPT !.ended = {}], s.orelse, slots)
            IN  CASE s.is = "if" /\ hit # {} -> [at EXCEPT !.paths = {p \o SetToSeq(hit) : p \in @}]
                  [] s.is = "if" /\ hit = {} -> [paths |-> then.paths \union orelse.paths,
                                                 ended |-> at.ended \union then.ended \union orelse.ended]
                  [] s.is = "finish" -> [paths |-> {}, ended |-> at.ended \union at.paths]
                  [] OTHER -> at
    IN  Through(step, w, stmts)
flush_order(body, slots) == LET end == flushed([paths |-> {<<>>}, ended |-> {}], body, slots)
                            IN  end.paths \union end.ended
=============================================================================
