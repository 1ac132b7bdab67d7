------------------------------ MODULE WhyDiff ------------------------------
(***************************************************************************)
(* Why two renders part (whydiff.py): the tracer of Python code, which     *)
(* gives each executed statement the events that its values came from, the *)
(* backward slices of its events and of 6502 steps, and the onset of the   *)
(* state that two sides read.                                              *)
(***************************************************************************)
EXTENDS GridCompare

CONSTANTS
    Locals,      \* local variables of the traced functions
    Params,      \* those that are parameters
    Attributes,  \* attributes of objects and globals, which outlive activations
    Containers,  \* those of them that hold a container
    Indices,     \* its indices
    Code         \* the statements of the traced functions

Local(x) == [is |-> "N", of |-> x, i |-> ""]
Attribute(v) == [is |-> "A", of |-> v, i |-> ""]
Item(c, i) == [is |-> "S", of |-> c, i |-> i]
Names ==
    {Local(x) : x \in Locals} \union {Attribute(v) : v \in Attributes}
        \union {Item(ci[1], ci[2]) : ci \in Containers \X Indices}

\* A statement is the line it starts on, the names it reads and assigns, the branch
\* that it is under, and whether it assigns something other than a name's value.  One
\* that starts on line 0 is a line of no statement.
Statement == [at : Nat, reads : SUBSET Names, sets : SUBSET Names, control : Nat, fresh : BOOLEAN]
NoStatement == [at |-> 0, reads |-> {}, sets |-> {}, control |-> 0, fresh |-> FALSE]

ASSUME CodeAssumption ==
    /\ Params \subseteq Locals /\ Containers \subseteq Attributes
    /\ Code \subseteq Statement
    /\ \A x \in Code :
          /\ x.at # 0
          /\ \A c \in Containers : Attribute(c) \in x.sets => \A i \in Indices : Item(c, i) \notin x.sets

-----------------------------------------------------------------------------
(* The tracer t: the events so far, which count from 1; the event that     *)
(* last stored each key; the events of statements that made what they      *)
(* stored; and for each traced activation its serial, the statement it     *)
(* executes, and the last event of each line.  heap is the container that  *)
(* each attribute holds.                                                   *)

_key(serial, heap, n) ==
    IF n.is = "N" THEN <<"L", serial, n.of>>
    ELSE IF n.is = "A" THEN <<"A", 0, n.of>> ELSE <<"S", heap[n.of], n.i>>

PyEvent(kind, deps, site) == [kind |-> kind, deps |-> deps, site |-> site, rets |-> {}]
PyTrace(events, last, fresh, frames) == [events |-> events, last |-> last, fresh |-> fresh, frames |-> frames]
Entered0 == PyTrace(<<>>, <<>>, {}, <<>>)
Frame(serial, pending, stmt, branch) ==
    [serial |-> serial, pending |-> pending, stmt |-> stmt, branch |-> branch]

\* A function with another value for an argument, and without it.
With(f, a, value) == [b \in {a} \union DOMAIN f |-> IF b = a THEN value ELSE f[b]]
Without(f, a) == [b \in DOMAIN f \ {a} |-> f[b]]

\* The events that a name's value came from; none of state from before the trace.
Hits(t, heap, serial, n) ==
    LET own  == _key(serial, heap, n)
        held == <<"A", 0, n.of>>
    IN  IF own \in DOMAIN t.last THEN {t.last[own]}
        ELSE IF n.is = "S" /\ held \in DOMAIN t.last /\ t.last[held] \in t.fresh THEN {t.last[held]}
        ELSE {}

_emit(t, event) == PyTrace(Append(t.events, event), t.last, t.fresh, t.frames)

\* last, in which event is the last to store keys.
Mark(keys, event, last) == [k \in keys \union DOMAIN last |-> IF k \in keys THEN event ELSE last[k]]

\* What the pending statement of a assigned is stored by its event.
_settle(t, heap, a) ==
    LET f == t.frames[a]
    IN  IF f.pending = 0 THEN t
        ELSE PyTrace(t.events, Mark({_key(f.serial, heap, n) : n \in f.stmt.sets}, f.pending, t.last), t.fresh,
                     With(t.frames, a, Frame(f.serial, 0, NoStatement, f.branch)))

\* The nearest traced activation of a stack, 0 if none; and the statement it executes.
_caller(t, stack) ==
    LET traced == {n \in DOMAIN stack : stack[n] \in DOMAIN t.frames}
    IN  IF traced = {} THEN 0 ELSE stack[Max(traced)]
call_site(t, stack) == IF _caller(t, stack) = 0 THEN 0 ELSE t.frames[_caller(t, stack)].pending

\* The mutant of _global: the serial of an activation is how deep it nests.
_global_deep(t, stack, a, params) ==
    LET n == Len(t.events) + 1
        d == Len(stack) + 1
    IN  PyTrace(Append(t.events, PyEvent("call", {}, call_site(t, stack))),
                Mark({<<"L", d, x>> : x \in params}, n, t.last), t.fresh,
                With(t.frames, a, Frame(d, 0, NoStatement, <<>>)))

\* a is called, or resumed if it is a generator, on a stack of others.
_global(t, stack, a, params) ==
    LET n == Len(t.events) + 1
    IN  PyTrace(Append(t.events, PyEvent("call", {}, call_site(t, stack))),
                Mark({<<"L", n, x>> : x \in params}, n, t.last), t.fresh,
                With(t.frames, a, Frame(n, 0, NoStatement, <<>>)))

_write(t, stack) == _emit(t, PyEvent("write", {}, call_site(t, stack)))

\* a comes to a statement other than the one it executes.
_line(t, heap, a, stmt) ==
    LET u == _settle(t, heap, a)
        f == u.frames[a]
        n == Len(u.events) + 1
        ruling == IF stmt.control \in DOMAIN f.branch THEN {f.branch[stmt.control]} ELSE {}
        deps == ruling \union UNION {Hits(u, heap, f.serial, r) : r \in stmt.reads}
    IN  PyTrace(Append(u.events, PyEvent("line", deps, 0)), u.last,
                IF stmt.fresh THEN u.fresh \union {n} ELSE u.fresh,
                IF stmt = NoStatement THEN u.frames
                ELSE With(u.frames, a, Frame(f.serial, n, stmt, (stmt.at :> n) @@ f.branch)))

\* a ends or yields to the others on the stack.
_return(t, heap, stack, a) ==
    LET u == _settle(t, heap, a)
        n == Len(u.events) + 1
        last == t.frames[a].pending
        site == call_site(u, stack)
        events == Append(u.events, PyEvent("return", {last} \ {0}, 0))
    IN  PyTrace(IF site = 0 THEN events ELSE [events EXCEPT ![site].rets = @ \union {n}],
                u.last, u.fresh, Without(u.frames, a))

_exception(t) == _emit(t, PyEvent("exception", {}, 0))

\* The mutant of Sources: all returns of a call site come before what it called.
Sources_all(events, i, bound) ==
    LET own == events[i]
    IN  [k \in 1..Cardinality(own.deps) |-> <<SetToSortSeq(own.deps, <)[k], Len(events) + 1>>]
            \o [k \in 1..Cardinality(own.rets) |-> <<SetToSortSeq(own.rets, <)[k], Len(events) + 1>>]
            \o IF own.site = 0 THEN <<>> ELSE << <<own.site, i>> >>

\* What one step of a slice comes to from an event, with the bound for its returns.
Sources(events, i, bound) ==
    LET own == events[i]
    IN  [k \in 1..Cardinality(own.deps) |-> <<SetToSortSeq(own.deps, <)[k], Len(events) + 1>>]
            \o LET rets == SetToSortSeq({r \in own.rets : r < bound}, <)
               IN  [k \in DOMAIN rets |-> <<rets[k], Len(events) + 1>>]
            \o IF own.site = 0 THEN <<>> ELSE << <<own.site, i>> >>

\* The events root came from, nearest first and no more than limit: seen gives each the
\* bound it was come to with.
Come(x, to, limit) ==
    IF (to[1] \in DOMAIN x.seen => x.seen[to[1]] < to[2]) /\ Cardinality(DOMAIN x.seen) < limit
    THEN [seen |-> (to[1] :> to[2]) @@ x.seen, frontier |-> Append(x.frontier, to)]
    ELSE x
slice(events, root, limit) ==
    LET end == Len(events) + 1
        walk[n \in Nat] ==
            IF n = 0 THEN [seen |-> root :> end, frontier |-> << <<root, end>> >>]
            ELSE LET x == walk[n - 1]
                     step == FlattenSeq([k \in DOMAIN x.frontier |->
                                Sources(events, x.frontier[k][1], x.frontier[k][2])])
                 IN  IF Cardinality(DOMAIN x.seen) >= limit THEN x
                     ELSE FoldLeft(LAMBDA y, to : Come(y, to, limit), [seen |-> x.seen, frontier |-> <<>>], step)
    IN  DOMAIN walk[2 * Len(events)].seen
-----------------------------------------------------------------------------
(* 6502 steps.  A step's flow gives each location that it set the ones it  *)
(* was made from, the program counter's those of a branch's condition; its *)
(* reads give the values that it read; control gives each step the branch  *)
(* that it ran under, 0 for none, and is <<>> if these are not asked for.  *)

cpu_slice(steps, root, cells, control) ==
    LET FlowOf(i, locs) == UNION {steps[i].flow[l] : l \in locs \intersect DOMAIN steps[i].flow}
        Under(i) == IF control = <<>> THEN {} ELSE {control[i]}
        back[n \in Nat] ==
            IF n = 0 THEN [keep |-> {root}, needed |-> FlowOf(root, cells), want |-> Under(root),
                           values |-> steps[root].reads]
            ELSE LET x == back[n - 1]
                     i == root - n
                     hit == x.needed \intersect DOMAIN steps[i].flow
                     ruled == IF i \in x.want THEN FlowOf(i, {"PC"}) ELSE {}
                 IN  IF hit = {} /\ i \notin x.want THEN x
                     ELSE [keep |-> x.keep \union {i}, want |-> x.want \union Under(i),
                           needed |-> ((x.needed \ hit) \union FlowOf(i, hit) \union ruled) \ {"PC"},
                           values |-> steps[i].reads @@ x.values]
        done == back[root - 1]
    IN  [keep |-> done.keep,
         live |-> [l \in done.needed |-> IF l \in DOMAIN done.values THEN done.values[l] ELSE None_]]

-----------------------------------------------------------------------------
(* The frame that is traced for a cell.  A side has a grid and the frames  *)
(* in which it stores the register.                                        *)

last_change(grid, frame, register) ==
    Max({f \in 2..frame : grid[f][register] # grid[f - 1][register]} \union {0})

\* The frame itself if it stores the register, or else the last that changed it.
python_side(grid, stores, frame, register) ==
    LET back == last_change(grid, frame, register)
        traced == IF frame \in stores \/ back = 0 THEN frame ELSE back
    IN  [frame |-> frame, traced |-> traced, root |-> traced \in stores, value |-> grid[frame][register]]
cpu_side(grid, stores, frame, register) == python_side(grid, stores, frame, register)

\* The first cell where a render parts from a reference, with the side of each that
\* renders it, and whether the 6502 agrees with the reference up to there.
explain_divergence(ref, lib, jen, libstores, jenstores, max_lead) ==
    LET found == verdict_lead(ref, lib, max_lead, 0)
        cpu == verdict_lead(ref, jen, max_lead, 0)
        frame == found.first
        register == Min({r \in DOMAIN ref[1] :
                            ref[frame + Most(-found.lead, 0)][r] # lib[frame + Most(found.lead, 0)][r]})
    IN  IF found.ok THEN None_
        ELSE << [frame |-> frame, register |-> register, lead |-> found.lead, cpu |-> cpu.lead,
                 agrees |-> cpu.ok \/ cpu.first > frame, reference |-> ref[frame][register],
                 left |-> python_side(lib, libstores, frame + found.lead, register),
                 right |-> cpu_side(jen, jenstores, frame + cpu.lead, register)] >>

-----------------------------------------------------------------------------
(* The onset of the state that two sides read.                             *)

\* The first index from which two histories do not track each other.
first_break(x, y) ==
    LET First_(q, k) == Min({j \in DOMAIN q : q[j] = q[k]})
        bad == {k \in DOMAIN x :
                  IF x[1] = y[1] THEN x[k] # y[k]
                  ELSE y[k] # y[First_(x, k)] \/ x[k] # x[First_(y, k)]}
    IN  Min(bad \union {Len(x) + 1})

\* The cell of sibling own of the layout, a base and a stride, that the most of the
\* siblings' frames fit, and of these the shortest stride; ram gives each cell its history.
fit_family(siblings, own, ram, bases, span) ==
    LET Cell(l, m) == l[1] + l[2] * (m - own)
        layouts == {l \in bases \X (-span..span \ {0}) : \A m \in DOMAIN siblings : Cell(l, m) \in DOMAIN ram}
        Score(l) == Cardinality({x \in (DOMAIN siblings) \X (DOMAIN siblings[1]) :
                                   ram[Cell(l, x[1])][x[2]] = siblings[x[1]][x[2]]})
        Stride(l) == IF l[2] < 0 THEN -l[2] ELSE l[2]
        Before(l, m) ==
            \/ Score(l) > Score(m)
            \/ Score(l) = Score(m) /\ Stride(l) < Stride(m)
            \/ Score(l) = Score(m) /\ Stride(l) = Stride(m) /\ l[2] > m[2]
            \/ Score(l) = Score(m) /\ l[2] = m[2] /\ l[1] < m[1]
    IN  IF layouts = {} THEN Min(bases)
        ELSE (CHOOSE l \in layouts : \A m \in layouts \ {l} : Before(l, m))[1]

Ending(q, n) == SubSeq(q, Len(q) - n + 1, Len(q))

\* The state of pool that history is paired with over its frames, under its name.
Partner(name, history, pool) ==
    LET n == Len(history)
        Past(j) == Ending(pool[j].history, n)
        Bit(b) == IF b THEN 1 ELSE 0
        Rank(j) == << Bit(Past(j)[1] = history[1]), first_break(history, Past(j)), Bit(pool[j].name = name),
                      Cardinality({k \in 1..n : Past(j)[k] = history[k]}), Bit(pool[j].sliced) >>
        Over(j, k) == \E p \in 1..5 : Rank(j)[p] > Rank(k)[p] /\ \A q \in 1..(p - 1) : Rank(j)[q] = Rank(k)[q]
    IN  Min({j \in DOMAIN pool : \A k \in DOMAIN pool : ~Over(k, j)})

\* Each state that the left side read is paired with one of the right side, of the
\* frames before theirs; parts is the left frame from which a pair does not track, 0 if
\* it does, and the earliest of these is explained.
explain_state(left, right, span) ==
    LET n == Least(left.frame, right.frame) - 1
        asked == SelectSeq(left.state, LAMBDA x : x.sliced)
        cells == {right.state[j].cell : j \in DOMAIN right.state}
        Mine(i) == Ending(asked[i].history, n)
        Theirs(i) ==
            LET x == asked[i]
            IN  IF x.siblings # <<>> /\ right.ram # <<>>
                THEN Ending(right.ram[fit_family([m \in DOMAIN x.siblings |-> Ending(x.siblings[m], n)], x.own,
                                     [c \in DOMAIN right.ram |-> Ending(right.ram[c], n)], cells, span)], n)
                ELSE Ending(right.state[Partner(x.name, Mine(i), right.state)].history, n)
        cut == [i \in DOMAIN asked |-> first_break(Mine(i), Theirs(i))]
        parted == {i \in DOMAIN asked : cut[i] <= n}
        first == Min({i \in parted : \A j \in parted : cut[i] <= cut[j]})
    IN  IF asked = <<>> \/ right.state = <<>> \/ n = 0 THEN None_
        ELSE << [parts |-> [i \in DOMAIN asked |-> IF i \in parted THEN left.frame - n + cut[i] - 1 ELSE 0],
                 theirs |-> [i \in DOMAIN asked |-> Theirs(i)],
                 why |-> IF parted = {} THEN None_
                         ELSE << [state |-> first, left |-> left.frame - n + cut[first] - 1,
                                  right |-> right.frame - n + cut[first] - 1,
                                  values |-> <<Mine(first)[cut[first]], Theirs(first)[cut[first]]>>] >>] >>

-----------------------------------------------------------------------------
(* The program w that is traced, which the tracer does not see: the stack  *)
(* of its activations, 0 for untraced ones; the statement that each traced *)
(* one executes, with its event, and whether that runs, has raised, waits  *)
(* at a yield or ends after one; the containers that attributes hold; the  *)
(* event of the statement which last assigned each storage; the storages   *)
(* for which the tracer cannot tell, as a statement on them raised, waited *)
(* at a yield or was not traced; and the events that came before each.     *)

Doing(stmt, event, how) == [stmt |-> stmt, event |-> event, how |-> how]
Program(stack, begun, doing, heap, origin, unsure, came) ==
    [stack |-> stack, begun |-> begun, at |-> doing, heap |-> heap, origin |-> origin, unsure |-> unsure, came |-> came]
Unrun == Program(<<>>, 0, <<>>, [c \in Containers |-> 0], <<>>, {}, <<>>)

\* The statement of a has ended, and if it did not raise, it has assigned its names and
\* left obj in its containers.
Assigned(w, a, obj) ==
    LET d == w.at[a]
        failed == d.how = "failed"
        heap == [c \in Containers |->
                    IF Attribute(c) \in d.stmt.sets /\ ~failed THEN obj ELSE w.heap[c]]
        on == {_key(a, heap, n) : n \in d.stmt.sets}
    IN  [heap |-> heap,
         origin |-> IF failed THEN w.origin ELSE Mark(on, d.event, w.origin),
         unsure |-> IF d.how = "runs" THEN w.unsure \ on ELSE w.unsure \union on]

\* What it may leave there: what it made, or a container that there is, 0 from before
\* the trace.
Objects(w, a) ==
    LET d == w.at[a]
    IN  IF \A c \in Containers : Attribute(c) \notin d.stmt.sets THEN {0}
        ELSE {0} \union Range(w.heap) \union (IF d.stmt.fresh THEN {d.event} ELSE {})

\* The newest event comes after those it depends on, and all that a return comes from
\* before the rest of the statement that called.
Forward(came, events) ==
    LET n == Len(events)
        of == {n} \union UNION {came[d] : d \in events[n].deps \union ({events[n].site} \ {0})}
    IN  [i \in 1..n |-> IF i = n THEN of
                        ELSE IF n \in events[i].rets THEN came[i] \union of ELSE came[i]]
=============================================================================
