------------------------------ MODULE OrderIr ------------------------------
(***************************************************************************)
(* What the output-order pass (playspec/outorder.py) asks of a lowered     *)
(* program: its expressions and their folding, its statements, the procs a *)
(* body calls, what a statement may change, and the slots of an order.     *)
(*                                                                         *)
(* Expressions and statements are those of SpecProgram; a constant and a   *)
(* variable also carry the size m of their width, and a variable is named  *)
(* by a triple <<stem, number, number>>.  Reads of volatile cells, tables  *)
(* and native code are left out.                                           *)
(***************************************************************************)
EXTENDS SpecProgram, FiniteSetsExt, Functions, Bitwise, TLC

CONSTANTS Voices,       \* how many voices the SID has (3)
          EDGE_BITS     \* the gate and test bits of a ctrl register (0x09)

Const(v, m) == [is |-> "K", v |-> v, m |-> m]
Var(n, m) == [is |-> "V", n |-> n, m |-> m]
TRUTH == Const(1, 2)
FALSITY == Const(0, 2)
Addr(a) == Const(a, Address)

width(e) == IF e.is = "Rd" THEN Byte ELSE e.m       \* 2^w
subs(e) == CASE e.is = "Rd" -> <<e.a>> [] e.is = "Op" -> e.a [] OTHER -> <<>>

\* Every node of an expression, a repeated one as often as it occurs.
RECURSIVE nodes(_)
nodes(e) == <<e>> \o FlattenSeq([i \in DOMAIN subs(e) |-> nodes(subs(e)[i])])
names(e) == {x.n : x \in {y \in ToSet(nodes(e)) : y.is = "V"}}

-----------------------------------------------------------------------------
(* Folding. *)

Run0 == [mem |-> <<>>, vars |-> <<>>]       \* constants are evaluated in no state

\* An operator over its arguments, folded where they decide it (lowerops.py).
mk(op, m, x) ==
    LET fixed == {i \in DOMAIN x : x[i].is = "K"}
        decides == {i \in fixed : (x[i].v # 0) = (op = "lor")}
    IN  IF fixed = DOMAIN x THEN Const(ex(Op(op, m, x), Run0)[1], m)
        ELSE IF op \in {"land", "lor"} /\ fixed # {} THEN
             IF decides # {} THEN (IF op = "lor" THEN TRUTH ELSE FALSITY)
             ELSE x[3 - CHOOSE i \in fixed : TRUE]
        ELSE IF op = "lnot" /\ x[1].is = "Op" /\ x[1].op = "lnot" THEN x[1].a[1]
        ELSE Op(op, m, x)

RECURSIVE fold(_, _, _)
fold(op, m, x) ==
    LET ite == op = "ite" IN
    CASE ite /\ x[1].is = "K" -> IF x[1].v # 0 THEN x[2] ELSE x[3]
      [] ite /\ x[1].is # "K" /\ x[2] = x[3] -> x[2]
      [] ite /\ x[1].is # "K" /\ <<x[2], x[3]>> = <<TRUTH, FALSITY>> -> x[1]
      [] ite /\ x[1].is # "K" /\ <<x[2], x[3]>> = <<FALSITY, TRUTH>> -> fold("lnot", 2, <<x[1]>>)
      [] ite /\ x[1].is # "K" /\ x[2] # x[3] /\ x[3].is = "Op" /\ x[3].op = "ite" /\ x[3].a[1] = x[1] ->
           fold("ite", m, <<x[1], x[2], x[3].a[3]>>)
      [] op \in {"land", "lor"} /\ x[1] = x[2] -> x[1]
      [] OTHER -> mk(op, m, x)

\* An expression with each node f maps replaced, then folded.
RECURSIVE rebuild(_, _)
rebuild(e, f) ==
    CASE e.is = "K" -> e
      [] e.is # "K" /\ e \in DOMAIN f -> f[e]
      [] e.is = "V" /\ e \notin DOMAIN f -> e
      [] e.is = "Rd" /\ e \notin DOMAIN f -> Rd(rebuild(e.a, f))
      [] e.is = "Op" /\ e \notin DOMAIN f ->
           LET x == [i \in DOMAIN e.a |-> rebuild(e.a[i], f)]
           IN  IF x = e.a THEN e ELSE fold(e.op, e.m, x)

RECURSIVE tidy(_)
tidy(e) == CASE e.is \in {"K", "V"} -> e
             [] e.is = "Rd" -> Rd(tidy(e.a))
             [] e.is = "Op" -> fold(e.op, e.m, [i \in DOMAIN e.a |-> tidy(e.a[i])])

-----------------------------------------------------------------------------
(* Statements. *)

stmt_exprs(s) == CASE s.is = "wr" -> <<s.a, s.v>>
                   [] s.is = "set" -> <<s.v>>
                   [] s.is \in {"if", "loop", "assert"} -> <<s.c>>
                   [] s.is = "obj" -> s.ops
                   [] OTHER -> <<>>

\* A statement with its own expressions, not its arms', mapped by f.
map_stmt(s, f) == CASE s.is = "wr" -> [s EXCEPT !.a = f[@], !.v = f[@]]
                    [] s.is = "set" -> [s EXCEPT !.v = f[@]]
                    [] s.is \in {"if", "loop", "assert"} -> [s EXCEPT !.c = f[@]]
                    [] s.is = "obj" -> [s EXCEPT !.ops = [i \in DOMAIN @ |-> f[@[i]]]]
                    [] OTHER -> s

branches(s) == CASE s.is = "if" -> <<s.then, s.orelse>>
                 [] s.is \in {"loop", "fire"} -> <<s.body>>
                 [] OTHER -> <<>>
with_arms(s, arms) == IF s.is = "if" THEN [s EXCEPT !.then = arms[1], !.orelse = arms[2]]
                      ELSE [s EXCEPT !.body = arms[1]]

RECURSIVE statements(_)
statements(stmts) ==
    FlattenSeq([i \in DOMAIN stmts |->
        <<stmts[i]>> \o LET arms == branches(stmts[i])
                        IN  FlattenSeq([j \in DOMAIN arms |-> statements(arms[j])])])

\* Every statement of a body and its procs, and every expression of them.
every(body, procs) ==
    ToSet(statements(body)) \union UNION {ToSet(statements(procs[p])) : p \in DOMAIN procs}
exprs(stmts) == UNION {ToSet(stmt_exprs(s)) : s \in stmts}

\* Statements with every expression mapped by f, then every statement g maps
\* replaced by its statements.
RECURSIVE rewrite(_, _, _)
rewrite(stmts, f, g) ==
    FlattenSeq([i \in DOMAIN stmts |->
        LET s == map_stmt(stmts[i], f)
            arms == branches(s)
            t == IF arms = <<>> THEN s
                 ELSE with_arms(s, [j \in DOMAIN arms |-> rewrite(arms[j], f, g)])
        IN  IF t \in DOMAIN g THEN g[t] ELSE <<t>>])

-----------------------------------------------------------------------------
(* Procs. *)

\* Statements with each call but those of the procs in keep replaced by the body.
RECURSIVE inline(_, _, _)
inline(stmts, procs, keep) ==
    FlattenSeq([i \in DOMAIN stmts |->
        LET s == stmts[i]
            arms == branches(s)
        IN  CASE s.is = "call" /\ s.proc \notin keep -> inline(procs[s.proc], procs, keep)
              [] s.is = "fire" -> inline(s.body, procs, keep)
              [] s.is # "fire" /\ arms # <<>> ->
                   <<with_arms(s, [j \in DOMAIN arms |-> inline(arms[j], procs, keep)])>>
              [] s.is # "fire" /\ arms = <<>> /\ (s.is = "call" => s.proc \in keep) -> <<s>>])

\* The proc of each call, once per call site.
calls(stmts) ==
    LET sites == SelectSeq(statements(stmts), LAMBDA s : s.is = "call")
    IN  [i \in DOMAIN sites |-> sites[i].proc]

\* The procs a body reaches, each before every proc it calls.
RECURSIVE visit(_, _, _)
visit(order, pids, procs) ==
    Through(LAMBDA seen, p : IF p \in ToSet(seen) THEN seen
                              ELSE Append(visit(seen, calls(procs[p]), procs), p),
             order, pids)
reached(body, procs) == Reverse(visit(<<>>, calls(body), procs))

\* The procs a call of which is smaller than the body inlined, unless that may finish.
outlined(body, procs) ==
    LET order == reached(body, procs)
        sites(p) == Len(SelectSeq(calls(body) \o FlattenSeq([i \in DOMAIN order |-> calls(procs[order[i]])]),
                                  LAMBDA q : q = p))
        step(out, p) ==
            LET flat == statements(inline(procs[p], procs, out))
                n == Len(flat)
            IN  IF sites(p) * n > sites(p) + n /\ \A s \in ToSet(flat) : s.is # "finish"
                THEN out \union {p} ELSE out
    IN  Through(step, {}, Reverse(order))

-----------------------------------------------------------------------------
(* The guards a return was lowered to. *)

sets(stmts, flag) == \E s \in ToSet(statements(stmts)) : s.is = "set" /\ s.n = flag

\* The constant a flag holds at the end of the statements, <<>> if not known.
RECURSIVE at_end(_, _)
at_end(stmts, flag) ==
    IF stmts = <<>> THEN <<>>
    ELSE LET s == Last(stmts)
             a == at_end(s.then, flag)
             b == at_end(s.orelse, flag)
         IN  CASE s.is = "set" /\ s.n = flag -> IF s.v.is = "K" THEN <<s.v.v>> ELSE <<>>
               [] s.is = "if" /\ (a # <<>> \/ b # <<>> \/ sets(s.then \o s.orelse, flag)) ->
                    IF a = b THEN a ELSE <<>>
               [] s.is = "loop" /\ sets(s.body, flag) -> <<>>
               [] OTHER -> at_end(Front(stmts), flag)

\* Whether an if on this condition is never taken after the arm.
skipped(arm, cond) ==
    LET flip == cond.is = "Op" /\ cond.op = "lnot"
        test == IF flip THEN cond.a[1] ELSE cond
    IN  /\ test.is = "V" /\ test.m = 2
        /\ LET value == at_end(arm, test.n) IN value # <<>> /\ (value[1] # 0) = flip

\* Each if on a flag that the if before it leaves false on one arm, in its other arm.
RECURSIVE nest(_)
nest(stmts) ==
    LET step(out, stmt_) ==
            LET arms == branches(stmt_)
                s == IF arms = <<>> THEN stmt_
                     ELSE with_arms(stmt_, [j \in DOMAIN arms |-> nest(arms[j])])
                prev == branches(Last(out))
                gone == {j \in DOMAIN prev : skipped(prev[j], s.c)}
            IN  IF s.is = "if" /\ s.orelse = <<>> /\ out # <<>> /\ Last(out).is = "if" /\ gone # {}
                THEN Front(out) \o
                     <<with_arms(Last(out), [j \in 1..2 |-> IF j \in gone THEN prev[j]
                                                             ELSE nest(prev[j] \o <<s>>)])>>
                ELSE Append(out, s)
    IN  Through(step, <<>>, stmts)

-----------------------------------------------------------------------------
(* The slots an order lists and the writes of a call they keep.  A slot    *)
(* <<r, k>> holds the write to register r of the k-th last gate segment,   *)
(* its last write where k is 1.                                            *)

SEGMENTED == {4, 5, 6}
VOICE_REG == [freq_lo |-> 0, freq_hi |-> 1, pw_lo |-> 2, pw_hi |-> 3, ctrl |-> 4, ad |-> 5, sr |-> 6]
SONG_REG == [fc_lo |-> 21, fc_hi |-> 22, res_filt |-> 23, mode_vol |-> 24]
voices == 0..(Voices - 1)
REGS == {7 * v + o : v \in voices, o \in Range(VOICE_REG)} \union Range(SONG_REG)
NATIVE == 25            \* the slot of the registers left in place

\* The <<name, k>> tokens of a token; segments(a, b, c):n lists the oldest first.
rounds(t) ==
    IF t.is = "name" THEN <<<<t.name, t.k>>>>
    ELSE FlattenSeq([i \in 1..t.n |-> [j \in DOMAIN t.names |-> <<t.names[j], t.n + 1 - i>>]])

\* The slots of one item of an order.
item(t) ==
    LET tokens == FlattenSeq([i \in DOMAIN t.tokens |-> rounds(t.tokens[i])])
        slot(v, i) == <<7 * v + VOICE_REG[tokens[i][1]], tokens[i][2]>>
    IN  CASE t.is = "name" -> <<<<SONG_REG[t.name], t.k>>>>
          [] t.is = "voice" -> FlattenSeq([v \in 1..Voices |-> [i \in DOMAIN tokens |-> slot(v - 1, i)]])
          [] t.is = "interleave" ->
               FlattenSeq([i \in DOMAIN tokens |-> [v \in 1..Voices |-> slot(v - 1, i)]])

\* Each register's number of segments in the slots.
depth(slots) == [r \in {s[1] : s \in ToSet(slots)} |-> Max({s[2] : s \in {t \in ToSet(slots) : t[1] = r}})]

\* The slots of an order, <<>> where it is refused.
parse_order(text) ==
    LET slots == FlattenSeq([i \in DOMAIN text |-> item(text[i])])
        at(s) == CHOOSE i \in DOMAIN slots : slots[i] = s
        d == depth(slots)
        once == /\ Cardinality(ToSet(slots)) = Len(slots)
                /\ {s[1] : s \in {t \in ToSet(slots) : t[2] = 1}} = REGS
        oldest == \A s \in ToSet(slots) :
                     s[2] > 1 => /\ <<s[1], s[2] - 1>> \in ToSet(slots)
                                 /\ at(s) <= at(<<s[1], s[2] - 1>>)
        same == /\ \A v \in voices : Cardinality({d[7 * v + o] : o \in SEGMENTED}) = 1
                /\ \A r \in REGS : r >= 21 \/ r % 7 \notin SEGMENTED => d[r] = 1
    IN  IF once /\ oldest /\ same THEN slots ELSE <<>>

\* Each voice the slots write by gate segment, with its number of segments.
segments(slots) ==
    LET d == depth(slots) IN [v \in {x \in voices : d[7 * x + 4] > 1} |-> d[7 * v + 4]]
segment_regs(deep) == {7 * v + o : v \in DOMAIN deep, o \in SEGMENTED}
live_slots(slots, native) == SelectSeq(slots, LAMBDA s : s[1] \notin native)

\* A voice's writes by segment: the last n - 1 that a gate or test edge ended, the
\* first ctrl write among the edges, and the writes since the last edge.
closed(writes, voice, n) ==
    LET step(w, x) ==
            LET off == x[1] - 7 * voice
                edge == off = 4 /\ (w.last = <<>> \/ ((w.last[1] ^^ x[2]) & EDGE_BITS) # 0)
                last == IF off = 4 THEN <<x[2]>> ELSE w.last
            IN  IF off \notin SEGMENTED THEN w
                ELSE IF edge THEN [closed |-> Append(w.closed, (4 :> x[2]) @@ w.pending),
                                   pending |-> <<>>, last |-> last]
                ELSE [w EXCEPT !.pending = (off :> x[2]) @@ @, !.last = last]
        end == FoldLeft(step, [closed |-> <<>>, pending |-> <<>>, last |-> <<>>], writes)
        from == Max({Len(end.closed) - n + 1, 0}) + 1
    IN  [end EXCEPT !.closed = SubSeq(@, from, Len(@))]

\* The writes of one call that the slots keep, in their order, after the writes
\* to the native registers in place.
kept(writes, slots, native) ==
    LET all == segments(slots)
        deep == [v \in {x \in DOMAIN all : 7 * x + 4 \notin native} |-> all[v]]
        live == live_slots(slots, native)
        to(r) == SelectSeq(writes, LAMBDA w : w[1] = r)
        parts == [v \in DOMAIN deep |-> closed(writes, v, deep[v])]
        \* the segment a slot of a deep voice holds: the newest one is slot 2
        held(v, k) == IF k = 1 THEN parts[v].pending
                      ELSE IF k - 1 > Len(parts[v].closed) THEN <<>>
                      ELSE parts[v].closed[Len(parts[v].closed) + 2 - k]
        value(s) == IF s[1] \in segment_regs(deep)
                    THEN LET v == s[1] \div 7
                             group == held(v, s[2])
                         IN  IF s[1] - 7 * v \in DOMAIN group THEN <<group[s[1] - 7 * v]>> ELSE <<>>
                    ELSE IF Len(to(s[1])) < s[2] THEN <<>>
                    ELSE <<to(s[1])[Len(to(s[1])) + 1 - s[2]][2]>>
    IN  SelectSeq(writes, LAMBDA w : w[1] \in native)
        \o FlattenSeq([i \in DOMAIN live |-> LET x == value(live[i])
                                             IN  IF x = <<>> THEN <<>> ELSE <<<<live[i][1], x[1]>>>>])
=============================================================================
