---------------------------- MODULE OrderForward ----------------------------
(***************************************************************************)
(* The passes of the output order that simplify a call                     *)
(* (playspec/outorder.py): values forwarded to their uses, repeated ones   *)
(* computed once, bytes of the bound memory put in place of their reads,   *)
(* dead assignments removed and variables declared (playspec/emit.py).     *)
(*                                                                         *)
(* The facts known at a point are a record [vars, exprs]: the value a      *)
(* variable or an expression has, each a fact [expr, uses, spans] with the *)
(* variables and the addresses it depends on.                              *)
(***************************************************************************)
EXTENDS OrderPasses

NoFacts == [vars |-> <<>>, exprs |-> <<>>]
Fact(e, uses, known) == [expr |-> e, uses |-> uses, spans |-> reads(e, known)]

\* The statements of a body and the procs it reaches, and their expressions.
program_stmts(body, procs, order) ==
    statements(body) \o FlattenSeq([i \in DOMAIN order |-> statements(procs[order[i]])])
program_exprs(stmts) == FlattenSeq([i \in DOMAIN stmts |-> stmt_exprs(stmts[i])])

\* What a body is forwarded with: the procs it reaches, the variables read and those
\* read once, the expressions to compute once and the bytes that are fixed (_Forward).
reader(w, read) ==
    LET all == [i \in DOMAIN read |-> names(read[i])] IN
    [read |-> UNION Range(all), once |-> {n \in UNION Range(all) : Len(SelectSeq(all, LAMBDA x : n \in x)) <= 1}] @@ w
numbered(w, stmts) ==
    LET top(stem) == Max({0} \union {s.n[2] : s \in {t \in ToSet(stmts) : t.is = "set" /\ t.n[1] = stem}})
    IN  [guards |-> top("g"), temps |-> top("cse")] @@ w
with_stmts(w, stmts) == numbered(reader(w, program_exprs(stmts)), stmts)
Forwarder(body, procs, share, bytes) ==
    LET order == reached(body, procs)
    IN  with_stmts([procs |-> procs, order |-> order, share |-> share, bytes |-> bytes],
                   program_stmts(body, procs, order))

\* Whether any expression may be forwarded into the uses of a variable.
free(g, n) == staging(n) \/ n \notin g.read \/ n \in g.once
plain(e) == e.is \in {"K", "V"} \/ (e.is = "Rd" /\ e.a.is = "K")

\* An expression with what is known of each part in its place.
valued(e, env) ==
    LET held == {x \in ToSet(nodes(e)) : x \in DOMAIN env.exprs \/ (x.is = "V" /\ x.n \in DOMAIN env.vars)}
    IN  rebuild(e, [x \in held |-> IF x \in DOMAIN env.exprs THEN env.exprs[x].expr ELSE env.vars[x.n].expr])
fixed(e, bytes) == {x \in ToSet(nodes(e)) : x.is = "Rd" /\ x.a.is = "K" /\ x.a.v \in DOMAIN bytes}

\* That until nothing changes, fixed bytes in place of their reads, and the addresses
\* fixed.
RECURSIVE known_of(_, _, _, _), pinned(_, _, _, _, _), until(_, _, _, _, _)
known_of(g, e, env, looked) == pinned(g, e, valued(e, env), env, looked)
pinned(g, e, mid, env, looked) ==
    until(g, e, rebuild(mid, [x \in fixed(mid, g.bytes) |-> Const(g.bytes[x.a.v], Byte)]), env,
          looked \union {x.a.v : x \in fixed(mid, g.bytes)})
until(g, e, new, env, looked) == IF new = e THEN [e |-> e, looked |-> looked] ELSE known_of(g, new, env, looked)

\* Each expression to share that no variable holds yet, assigned to a new one first.
RECURSIVE cache(_, _, _), cache_args(_, _, _)
cache(g, e, w) ==
    IF e.is \in {"K", "V"} THEN [w EXCEPT !.e = e]
    ELSE IF e \in DOMAIN w.env.exprs THEN [w EXCEPT !.e = w.env.exprs[e].expr]
    ELSE cache_args(g, e, Through(LAMBDA done, x : LET one == cache(g, x, done)
                                                    IN  [one EXCEPT !.args = Append(done.args, one.e)],
                                   [w EXCEPT !.args = <<>>], subs(e)))
cache_args(g, e, w) ==
    LET out == IF e.is = "Rd" THEN Rd(w.args[1]) ELSE [e EXCEPT !.a = w.args]
        var == Var(<<"cse", w.temps + 1, 0>>, width(e))
    IN  IF e \notin g.share THEN [w EXCEPT !.e = out]
        ELSE [w EXCEPT !.e = var, !.temps = @ + 1, !.pending = Append(@, Assigned(var, out)),
                       !.known.span = (var.n :> span(e, w.known)) @@ @,
                       !.env.exprs = (e :> [Fact(e, names(e) \union {var.n}, w.known) EXCEPT !.expr = var]) @@ @]

\* The expression of a statement under the facts; what it shares is pending.
hold(g, found, w) ==
    IF g.share # {} /\ w.create THEN cache(g, found.e, [w EXCEPT !.looked = found.looked])
    ELSE [w EXCEPT !.looked = found.looked, !.e = found.e]
sub(g, e, w) == hold(g, known_of(g, e, w.env, w.looked), w)

\* Mutant: a store leaves what was read of its cells standing.
kill_sets(env, eff) ==
    LET stands(f) == f.uses \intersect eff.sets = {}
    IN  [vars |-> Restrict(env.vars, {n \in DOMAIN env.vars : n \notin eff.sets /\ stands(env.vars[n])}),
         exprs |-> Restrict(env.exprs, {e \in DOMAIN env.exprs : stands(env.exprs[e])})]

\* The facts an effect leaves standing.
kill(env, eff) ==
    LET stands(f) == f.uses \intersect eff.sets = {} /\ ~overlap(eff.stores, f.spans)
    IN  [vars |-> Restrict(env.vars, {n \in DOMAIN env.vars : n \notin eff.sets /\ stands(env.vars[n])}),
         exprs |-> Restrict(env.exprs, {e \in DOMAIN env.exprs : stands(env.exprs[e])})]

learn(g, env, n, e, known) ==
    IF n \in names(e) \/ ~(free(g, n) \/ plain(e)) THEN env
    ELSE [env EXCEPT !.vars = (n :> Fact(e, names(e), known)) @@ @]

assume(env, cond, holds, known) ==
    LET fact(v) == [Fact(cond, names(cond), known) EXCEPT !.expr = IF v THEN TRUTH ELSE FALSITY]
        more == IF cond.is = "Op" /\ cond.op = "lnot" THEN cond.a[1] :> fact(~holds) ELSE <<>>
    IN  [env EXCEPT !.exprs = more @@ (cond :> fact(holds)) @@ @]

-----------------------------------------------------------------------------
(* A run of the pass is a record [out, env, e, args, pending, temps,       *)
(* guards, looked, known, create, ended].                                  *)

take(w) == [w EXCEPT !.out = @ \o w.pending, !.pending = <<>>]

\* The value of a variable at the end of an arm, <<>> where it is not known.
arm_value(n, mine, sets_, other) ==
    IF n \in DOMAIN mine.vars THEN <<mine.vars[n].expr>>
    ELSE IF n \in sets_ THEN <<>>
    ELSE <<Var(n, width(other.vars[n].expr))>>

\* The arms of an if merged: a variable either arm sets and both know is an ite on a
\* snapshot of the condition.
joined(g, s, cond, test, then, orelse, sets1, sets2) ==
    LET value1(n) == arm_value(n, then.env, sets1, orelse.env)
        value2(n) == arm_value(n, orelse.env, sets2, then.env)
        merged_ == {n \in (DOMAIN then.env.vars \union DOMAIN orelse.env.vars) \intersect (sets1 \union sets2) :
                      free(g, n) /\ value1(n) # <<>> /\ value2(n) # <<>>}
        snap == merged_ # {} /\ ~(cond.is = "V" /\ cond.n[1] = "g")
        ite(x, y) == fold("ite", width(x), <<IF snap THEN Var(<<"g", orelse.guards + 1, 0>>, 2) ELSE cond, x, y>>)
        empty1 == then.out = <<>>
        kept_ == IF empty1 /\ orelse.out = <<>> THEN <<>>
                 ELSE <<[s EXCEPT !.c = IF empty1 THEN fold("lnot", 2, <<cond>>) ELSE cond,
                                  !.then = IF empty1 THEN orelse.out ELSE then.out,
                                  !.orelse = IF empty1 THEN <<>> ELSE orelse.out]>>
    IN  [orelse EXCEPT !.guards = @ + Flag(snap), !.ended = FALSE,
             !.env = FoldSet(LAMBDA n, at : learn(g, at, n, ite(value1(n)[1], value2(n)[1]), orelse.known),
                             kill(test.env, effect(s, g.procs, test.known)), merged_),
             !.out = test.out \o (IF snap THEN <<Assigned(Var(<<"g", orelse.guards + 1, 0>>, 2), cond)>> ELSE <<>>)
                     \o kept_]

\* The expressions of a statement, each as sub leaves it.
mapped(g, s, w0) ==
    Through(LAMBDA m, e : LET one == sub(g, e, m.w) IN [w |-> one, f |-> (e :> one.e) @@ m.f],
             [w |-> w0, f |-> <<>>], stmt_exprs(s))

put(g, s, w) ==
    LET next == [take(w) EXCEPT !.out = Append(@, s), !.env = kill(@, effect(s, g.procs, w.known)),
                                !.ended = s.is = "finish"]
    IN  IF s.is = "set" THEN [next EXCEPT !.env = learn(g, @, s.n, s.v, w.known)] ELSE next

RECURSIVE forwarded(_, _, _), stepped(_, _, _), branch(_, _, _, _), second(_, _, _, _, _), unroll(_, _, _, _),
          looped(_, _, _, _)
forwarded(g, stmts, w0) ==
    Through(LAMBDA w, s : IF w.ended THEN w
                           ELSE stepped(g, s, mapped(g, s, [w EXCEPT !.create = @ /\ s.is # "loop"])),
             [w0 EXCEPT !.ended = FALSE], stmts)
stepped(g, s, m) ==
    CASE s.is = "if" -> branch(g, s, m.f[s.c], take(m.w))
      [] s.is = "loop" -> unroll(g, s, s.bound, m.w)
      [] OTHER -> put(g, map_stmt(s, m.f), m.w)

\* A loop whose condition holds runs a pass at a time, with what is left of it after.
unroll(g, s, bound, w) ==
    CASE w.e = TRUTH /\ bound > 1 ->
           unroll(g, s, bound - 1, sub(g, s.c, [forwarded(g, s.body, w) EXCEPT !.ended = FALSE]))
      [] w.e = FALSITY -> [w EXCEPT !.create = TRUE]
      [] OTHER -> LET left == [s EXCEPT !.bound = bound]
                      outer == [w EXCEPT !.env = kill(@, effect(left, g.procs, w.known))]
                  IN  looped(g, left, outer, sub(g, s.c, outer))
looped(g, s, outer, test) ==
    LET inner == forwarded(g, s.body, [test EXCEPT !.create = TRUE, !.out = <<>>])
    IN  [inner EXCEPT !.env = outer.env, !.ended = FALSE,
                      !.out = Append(outer.out, [s EXCEPT !.c = test.e, !.body = inner.out])]

\* An if: a known condition picks its arm, else both run and merge.
branch(g, s, cond, test) ==
    IF cond.is = "K"
    THEN [forwarded(g, IF cond.v # 0 THEN s.then ELSE s.orelse, test) EXCEPT !.ended = FALSE]
    ELSE second(g, s, cond, test,
                forwarded(g, s.then, [test EXCEPT !.out = <<>>, !.env = assume(@, cond, TRUE, test.known)]))
second(g, s, cond, test, then) ==
    joined(g, s, cond, test, then,
           forwarded(g, s.orelse, [then EXCEPT !.out = <<>>, !.env = assume(test.env, cond, FALSE, test.known)]),
           effects(s.then, g.procs, test.known).sets, effects(s.orelse, g.procs, test.known).sets)

\* A body and the procs it reaches forwarded, each from no facts; 0 is the body.
forward_all(g, all, known) ==
    LET start == [out |-> <<>>, env |-> NoFacts, e |-> FALSITY, args |-> <<>>, pending |-> <<>>,
                  temps |-> g.temps, guards |-> g.guards, looked |-> {}, known |-> known,
                  create |-> TRUE, ended |-> FALSE, done |-> <<>>]
        file(w, p) == [w EXCEPT !.done = (p :> w.out) @@ @]
    IN  Through(LAMBDA w, p : file(forwarded(g, all[p], [w EXCEPT !.out = <<>>, !.env = NoFacts]), p),
                 start, <<0>> \o g.order)
forward(body, procs, share, bytes, known) ==
    forward_all(Forwarder(body, procs, share, bytes), (0 :> body) @@ procs, known)

\* The expressions whose repeats outweigh an assignment; all holds the nodes of each
\* expression of a program.
repeated(all) ==
    LET places(x) == UNION {{<<i, j>> : j \in {k \in DOMAIN all[i] : all[i][k] = x}} : i \in DOMAIN all}
    IN  {x \in UNION {ToSet(all[i]) : i \in DOMAIN all} :
            ~plain(x) /\ (Cardinality(places(x)) - 1) * (Len(nodes(x)) - 1) > 2}
shared_exprs(body, procs) ==
    LET read == program_exprs(program_stmts(body, procs, reached(body, procs)))
    IN  repeated([i \in DOMAIN read |-> nodes(read[i])])

\* The bytes a bounded store of a body or its procs may reach: none of them is fixed.
reachable(stmts) ==
    UNION {p[1]..p[2] : p \in {span(s.a, Nothing) : s \in {t \in stmts : t.is = "wr"}} \ {FULL}}
    \union UNION {s.writes : s \in {t \in stmts : t.is = "obj"}}

-----------------------------------------------------------------------------
(* Dead code. *)

\* The variables each proc, and the procs it calls, read.
RECURSIVE proc_reads(_, _)
proc_reads(p, procs) ==
    UNION {names(e) : e \in exprs(ToSet(statements(procs[p])))}
    \union UNION {proc_reads(q, procs) : q \in ToSet(calls(procs[p]))}

\* Statements without the assignments nothing reads and the branches left empty,
\* what is live before them, and what is live after each call; end is live at the
\* end of the call.
RECURSIVE eliminate(_, _, _, _), dropped(_, _, _, _), other_arm(_, _, _, _, _), settled(_, _, _, _, _)
eliminate(stmts, w0, end, procs) ==
    Through(LAMBDA w, s : dropped(s, w, end, procs), [w0 EXCEPT !.out = <<>>], Reverse(stmts))
retain(w, s, live) == [w EXCEPT !.out = <<s>> \o @, !.live = live]
dropped(s, w, end, procs) ==
    LET read == UNION {names(e) : e \in ToSet(stmt_exprs(s))}
        after == w.live \union (IF s.proc \in DOMAIN w.after THEN w.after[s.proc] ELSE {})
    IN  CASE s.is = "set" -> IF s.n \notin w.live THEN w ELSE retain(w, s, (w.live \ {s.n}) \union read)
          [] s.is = "if" -> other_arm(s, w, eliminate(s.then, w, end, procs), end, procs)
          [] s.is = "call" -> [retain(w, s, w.live \union proc_reads(s.proc, procs)) EXCEPT
                                  !.after = (s.proc :> after) @@ @]
          [] s.is = "loop" -> settled(s, w, [w EXCEPT !.live = @ \union read, !.out = <<>>], end, procs)
          [] s.is = "finish" -> retain(w, s, end)
          [] s.is = "obj" -> retain(w, s, (w.live \ ToSet(s.out)) \union read)
          [] OTHER -> retain(w, s, w.live \union read)
other_arm(s, w, then, end, procs) ==
    LET orelse == eliminate(s.orelse, [w EXCEPT !.after = then.after], end, procs)
        next == [w EXCEPT !.after = orelse.after]
        left == IF then.out # <<>> THEN [s EXCEPT !.then = then.out, !.orelse = orelse.out]
                ELSE [s EXCEPT !.c = fold("lnot", 2, <<s.c>>), !.then = orelse.out, !.orelse = <<>>]
    IN  IF then.out = <<>> /\ orelse.out = <<>> THEN next
        ELSE retain(next, left, then.live \union orelse.live \union names(s.c))
\* A loop, once the variables live in its body hold those of its own next pass.
settled(s, w, at, end, procs) ==
    LET body == eliminate(s.body, at, end, procs)
    IN  IF body.live \subseteq at.live
        THEN [retain(w, [s EXCEPT !.body = body.out], at.live) EXCEPT !.after = body.after]
        ELSE settled(s, w, [at EXCEPT !.live = @ \union body.live, !.after = body.after], end, procs)

\* A body and its procs without dead code; a proc left empty is not called.
callees(first, procs, end) ==
    LET step(all, p) ==
            LET after == IF p \in DOMAIN all.after THEN all.after[p] ELSE {}
                one == eliminate(procs[p], [out |-> <<>>, live |-> after, after |-> all.after], end, procs)
            IN  [all EXCEPT !.after = one.after, !.procs = (p :> one.out) @@ @]
    IN  Through(step, [body |-> first.out, after |-> first.after, procs |-> <<>>], reached(first.out, procs))
drop_empty(all) ==
    LET empty == {p \in DOMAIN all.procs : all.procs[p] = <<>>}
        drop(stmts) == rewrite(stmts, [e \in exprs(ToSet(statements(stmts))) |-> e],
                               [s \in {[is |-> "call", proc |-> p] : p \in empty} |-> <<>>])
    IN  [body |-> drop(all.body), procs |-> [p \in DOMAIN all.procs \ empty |-> drop(all.procs[p])]]
eliminate_all(body, procs, end) ==
    drop_empty(callees(eliminate(body, [out |-> <<>>, live |-> end, after |-> <<>>], end, procs), procs, end))

-----------------------------------------------------------------------------
(* Declarations. *)

used(stmts) ==
    LET all == ToSet(statements(stmts)) IN
    UNION {names(e) : e \in exprs(all)} \union {s.n : s \in {t \in all : t.is = "set"}}
    \union UNION {ToSet(s.out) : s \in {t \in all : t.is = "obj"}}

\* The variables that more than one of a body and its procs use.
shared(body, procs) ==
    {n \in used(body) : \E p \in DOMAIN procs : n \in used(procs[p])}
    \union UNION {{n \in used(procs[p]) : n \in used(procs[q])} :
                  <<p, q>> \in {x \in (DOMAIN procs) \X (DOMAIN procs) : x[1] # x[2]}}

\* The variables statements may read before assigning them, given those assigned,
\* and those they assign on every path.
RECURSIVE exposure(_, _, _)
exposure(stmts, defs, procs) ==
    LET step(w, s) ==
            LET now == [w EXCEPT !.read = @ \union (UNION {names(e) : e \in ToSet(stmt_exprs(s))} \ w.defs)]
                arm(a) == exposure(a, w.defs, procs)
                callee == exposure(procs[s.proc], {}, procs)
            IN  CASE s.is = "set" -> [now EXCEPT !.defs = @ \union {s.n}]
                  [] s.is = "obj" -> [now EXCEPT !.defs = @ \union ToSet(s.out)]
                  [] s.is = "if" -> [read |-> now.read \union arm(s.then).read \union arm(s.orelse).read,
                                     defs |-> arm(s.then).defs \intersect arm(s.orelse).defs]
                  [] s.is = "loop" -> [now EXCEPT !.read = @ \union arm(s.body).read]
                  [] s.is = "fire" -> [read |-> now.read \union arm(s.body).read, defs |-> arm(s.body).defs]
                  [] s.is = "call" -> [read |-> now.read \union (callee.read \ w.defs),
                                       defs |-> w.defs \union callee.defs]
                  [] OTHER -> now
    IN  Through(step, [read |-> {}, defs |-> defs], stmts)

\* Each variable with the path <<index, arm>> ... <<index, 0>> of each statement of it.
RECURSIVE occurrences(_, _)
occurrences(stmts, path) ==
    UNION {LET s == stmts[i]
               here == Append(path, <<i, 0>>)
               own == UNION {names(e) : e \in ToSet(stmt_exprs(s))}
                      \union (IF s.is = "set" THEN {s.n} ELSE IF s.is = "obj" THEN ToSet(s.out) ELSE {})
           IN  {<<n, here>> : n \in own}
               \union UNION {occurrences(branches(s)[a], Append(path, <<i, a>>)) : a \in DOMAIN branches(s)}
           : i \in DOMAIN stmts}

RECURSIVE block_at(_, _)
block_at(stmts, path) ==
    IF path = <<>> THEN stmts ELSE block_at(branches(stmts[path[1][1]])[path[1][2]], Tail(path))

\* The innermost block outside any loop that holds every place, and the index of
\* its first statement with one.
home(stmts, places) ==
    LET one == CHOOSE p \in places : TRUE
        shared_(d) == /\ one[d][2] # 0
                      /\ \A p \in places : Len(p) >= d /\ p[d] = one[d]
                      /\ block_at(stmts, SubSeq(one, 1, d - 1))[one[d][1]].is # "loop"
        depths == {d \in 0..Len(one) : \A k \in 1..d : shared_(k)}
        path == SubSeq(one, 1, Max(depths))
    IN  [path |-> path, index |-> Min({p[Len(path) + 1][1] : p \in places})]

\* Statements with the assignments of heads that belong in a block before an index.
RECURSIVE insert(_, _, _)
insert(stmts, path, heads) ==
    FlattenSeq([i \in DOMAIN stmts |->
        LET s == stmts[i]
            arms == branches(s)
            zeros == {h \in heads : h.path = path /\ h.index = i}
        IN  SetToSeq({Assigned(h.var, Const(0, h.var.m)) : h \in zeros})
            \o <<IF arms = <<>> THEN s
                 ELSE with_arms(s, [a \in DOMAIN arms |-> insert(arms[a], Append(path, <<i, a>>), heads)])>>])
\* Mutant: an assignment anywhere in the statement declares the variable.
declares_within(s, n) == sets(<<s>>, n)
\* Whether a statement assigns a variable a value that does not read it.
declares(s, n) == s.is = "set" /\ s.n = n /\ n \notin names(s.v)

\* A body with v := 0 before the first statement of each variable's home that does
\* not itself assign v a value; keep holds those defined outside the body.
declared(body, keep) ==
    LET all == occurrences(body, <<>>)
        vars == {x[1] : x \in all} \ keep
        at(n) == home(body, {x[2] : x \in {y \in all : y[1] = n}})
        first(n) == block_at(body, at(n).path)[at(n).index]
        bare == {n \in vars : ~declares(first(n), n)}
        widths(n) == {width(s.v) : s \in {t \in ToSet(statements(body)) : t.is = "set" /\ t.n = n}}
                     \union {x.m : x \in {y \in UNION {ToSet(nodes(e)) : e \in exprs(ToSet(statements(body)))} :
                                            y.is = "V" /\ y.n = n}}
    IN  insert(body, <<>>, {[var |-> Var(n, Max({2} \union widths(n))), path |-> at(n).path, index |-> at(n).index]
                            : n \in bare})

\* Each expression tidied.
tidied(stmts) == rewrite(stmts, [e \in exprs(ToSet(statements(stmts))) |-> tidy(e)], <<>>)

\* The variables of a body and procs declared: one they share by the body, where a path
\* may read it first.
declare_all(body, procs, first, keep) ==
    LET vars == {x \in UNION {ToSet(nodes(e)) : e \in exprs(every(body, procs))} : x.is = "V" /\ x.n \in first}
        heads == SetToSeq({Assigned(x, Const(0, x.m)) : x \in vars})
    IN  [p \in DOMAIN procs \union {0} |->
           (IF p = 0 THEN heads ELSE <<>>) \o declared(IF p = 0 THEN body ELSE procs[p], keep)]
finalize(body, procs, controls) ==
    declare_all(body, procs, (exposure(body, {}, procs).read \intersect shared(body, procs)) \ controls,
                controls \union shared(body, procs))
=============================================================================
