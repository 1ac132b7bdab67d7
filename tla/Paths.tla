------------------------------- MODULE Paths --------------------------------
(***************************************************************************)
(* Code paths of a play call (paths.py): the static control flow of a      *)
(* tune's code (StaticCode) and the names of its edges, the edges and      *)
(* store sites of the play calls a CPU runs (cpu_paths), and the recorder  *)
(* of a Python player's branch arcs.                                       *)
(***************************************************************************)
EXTENDS Integers, Sequences, SequencesExt, FiniteSets, FiniteSetsExt, Functions

OUT == -1       \* an end outside the span
EXIT == 0       \* a Python arc out of its function

-----------------------------------------------------------------------------
(* Static code.  A program p has the span p.lo .. p.hi - 1 and, at each    *)
(* pc of the domain of p.insn, an instruction [mn, mode, length, to].      *)

inspan(p, pc) == p.lo <= pc /\ pc < p.hi
_CF_MNEMONICS == {"BNE", "JSR", "JMP", "RTS", "RTI"}
Flows(p, pc) == p.insn[pc].mn \in _CF_MNEMONICS
InOut(p, pc) == IF inspan(p, pc) THEN pc ELSE OUT
After(p, pc) == pc + p.insn[pc].length

\* An instruction as a name sees it: operands in the span and those that are data,
\* which the program itself writes, are folded.
insn(p, pc) ==
    LET i == p.insn[pc]
    IN  <<i.mn, i.mode, CASE pc \in p.smc -> "data"
                          [] pc \notin p.smc /\ inspan(p, i.to) -> "span"
                          [] OTHER -> "address">>

\* The targets a branch, jump or call names, and where its routine goes on.
Targets(p, pc) ==
    CASE p.insn[pc].mode = "rel" -> {p.insn[pc].to, After(p, pc)}
      [] p.insn[pc].mode = "abs" -> {p.insn[pc].to}
      [] OTHER -> {}
_succ(p, pc) ==
    CASE ~Flows(p, pc) \/ p.insn[pc].mn = "JSR" -> {After(p, pc)}
      [] Flows(p, pc) /\ p.insn[pc].mn \in {"BNE", "JMP"} -> Targets(p, pc)
      [] OTHER -> {}

RECURSIVE Closed(_, _, _)
LOCAL Closed(Next(_), S, new) ==
    IF new = {} THEN S
    ELSE LET more == (UNION {Next(x) : x \in new}) \ (S \union new)
         IN  Closed(Next, S \union new, more)

cfg(p, code, out) ==
    UNION {{<<pc, t>> : t \in IF _succ(p, pc) = {} THEN {out} ELSE _succ(p, pc)} : pc \in code.seen}

Unexplored == [seen |-> {}, edges |-> {}, pred |-> <<>>, calls |-> {}]

\* A call whose return site is in the span continues there.
Returns(p, pc) == p.insn[pc].mn = "JSR" /\ inspan(p, After(p, pc))
Reaches(p, pc) ==
    IF Flows(p, pc) THEN Targets(p, pc) \union (IF Returns(p, pc) THEN {After(p, pc)} ELSE {})
    ELSE {After(p, pc)}

\* The RTS of a routine, and the edges of every routine to its callers' return sites.
Rets(p, seen, entry) ==
    {pc \in Closed(LAMBDA x : _succ(p, x) \intersect seen, {}, {entry} \intersect seen) :
       p.insn[pc].mn = "RTS"}
_returns(p, seen, calls, entries) ==
    UNION {{<<r, c[1] + 3>> : r \in Rets(p, seen, c[2])} : c \in calls}
    \union UNION {{<<r, OUT>> : r \in Rets(p, seen, e)} : e \in entries}

\* Mutant: a run goes on into code an earlier descent has seen.
FallsOn(p, seen, new) == {pc \in new : ~Flows(p, pc) /\ After(p, pc) \in seen}
\* The runs are extended only into code no earlier descent has seen.
Falls(p, seen, new) == {pc \in new : ~Flows(p, pc) /\ After(p, pc) \in new}

\* A descent from seeds.
explore(p, code, seeds, entries) ==
    LET In(S) == {pc \in S : inspan(p, pc)}
        seen  == Closed(LAMBDA x : In(Reaches(p, x)) \ code.seen, code.seen, In(seeds) \ code.seen)
        new   == seen \ code.seen
        falls == Falls(p, seen, new)
        heads == {After(p, pc) : pc \in falls} \ DOMAIN code.pred
        calls == code.calls \union {<<pc, p.insn[pc].to>> : pc \in {x \in new : Returns(p, x)}}
    IN  [seen |-> seen, calls |-> calls,
         pred |-> [h \in (DOMAIN code.pred) \union heads |->
                     IF h \in DOMAIN code.pred THEN code.pred[h]
                     ELSE CHOOSE pc \in falls : After(p, pc) = h],
         edges |-> code.edges
                   \union UNION {{<<pc, InOut(p, t)>> : t \in Targets(p, pc)} :
                                   pc \in {x \in new : Flows(p, x)}}
                   \union {<<OUT, After(p, pc)>> : pc \in
                             {x \in new : Returns(p, x) /\ ~inspan(p, p.insn[x].to)}}
                   \union _returns(p, seen, calls, entries)]

\* The straight-line runs into pc, and from it to its first control flow.
RECURSIVE prefix(_, _, _)
prefix(p, code, pc) ==
    (IF pc \in DOMAIN code.pred THEN prefix(p, code, code.pred[pc]) ELSE <<>>) \o <<insn(p, pc)>>
RECURSIVE head(_, _)
head(p, pc) ==
    <<insn(p, pc)>>
    \o IF ~Flows(p, pc) /\ inspan(p, After(p, pc)) THEN head(p, After(p, pc)) ELSE <<>>

edge_digest(p, code, e) ==
    << IF e[1] = OUT THEN <<>> ELSE prefix(p, code, e[1]),
       IF e[2] = OUT THEN <<>> ELSE head(p, e[2]) >>

\* The k-th repeat of a key, in the order of the sites, is ranked k.
LOCAL Before(a, b) == a[1] < b[1] \/ (a[1] = b[1] /\ a[2] < b[2])
_ranked(keys) ==
    [e \in DOMAIN keys |->
       <<keys[e], Cardinality({d \in DOMAIN keys : keys[d] = keys[e] /\ Before(d, e)})>>]
edge_names(p, code, edges) ==
    _ranked([e \in code.edges \union edges |-> edge_digest(p, code, e)])
_store_names(p, code, stores) ==
    _ranked([w \in stores |-> <<w[1], IF inspan(p, w[2]) THEN prefix(p, code, w[2]) ELSE <<>> >>])

static_code(p, entries) == explore(p, Unexplored, entries, entries)
cpu_universe(p, entries) == Range(edge_names(p, static_code(p, entries), {}))

-----------------------------------------------------------------------------
(* What a play call ran: pcs are the addresses it stepped through, wrote   *)
(* the <<step, register>> of its SID stores in their order.                *)

\* The step after n; the last one of the call leaves.
LOCAL Stepped(p, pcs, n) ==
    LET next == IF n = Len(pcs) THEN OUT ELSE pcs[n + 1]
    IN  <<InOut(p, pcs[n]), InOut(p, next)>>
IsEdge(p, pcs, n) ==
    LET next == IF n = Len(pcs) THEN OUT ELSE pcs[n + 1]
    IN  IF inspan(p, pcs[n]) THEN Flows(p, pcs[n]) \/ next # After(p, pcs[n]) ELSE inspan(p, next)
Edges(p, pcs) == {Stepped(p, pcs, n) : n \in {k \in 1..Len(pcs) : IsEdge(p, pcs, k)}}

\* The events of a call, [feature, when], as its features in the order they first ran.
_first(events) ==
    LET ids == {e.feature : e \in events}
        first == [i \in ids |-> Min({e.when : e \in {x \in events : x.feature = i}})]
    IN  [i \in ids |-> Cardinality({j \in ids : first[j] < first[i]})]

\* The features of a call, ranked, and the site of the last store to each register.
cpu_paths(p, entries, pcs, wrote) ==
    LET edges  == Edges(p, pcs)
        code   == explore(p, static_code(p, entries), {e[2] : e \in edges} \ {OUT}, entries)
        Stored(n) == <<wrote[n][2], pcs[wrote[n][1]]>>
        ran    == {n \in 1..Len(pcs) : IsEdge(p, pcs, n)}
    IN  [code |-> code, names |-> edge_names(p, code, edges),
         stores |-> _store_names(p, code, Range([n \in DOMAIN wrote |-> Stored(n)])),
         order |-> _first({[feature |-> Stepped(p, pcs, n), when |-> n] : n \in ran}
                          \union {[feature |-> <<"store">> \o Stored(n), when |-> wrote[n][1]] :
                                    n \in DOMAIN wrote}),
         sites |-> [r \in {w[2] : w \in Range(wrote)} |->
                      pcs[wrote[Max({n \in DOMAIN wrote : wrote[n][2] = r})][1]]]]

-----------------------------------------------------------------------------
(* The recorder of a Python player.  Of each function that is traced the   *)
(* branch lines are known; rec is [stack, arcs, log, seq], its stack has   *)
(* the activations of the traced functions with the last line of each.     *)

Idle == [stack |-> <<>>, arcs |-> <<>>, log |-> <<>>, seq |-> 0]

arc(rec, key) ==
    IF key \in DOMAIN rec.arcs THEN rec
    ELSE [rec EXCEPT !.arcs = [k \in {key} \union DOMAIN @ |-> IF k = key THEN rec.seq ELSE @[k]],
                     !.seq = @ + 1]
store(rec, cell, line) ==
    [rec EXCEPT !.log = Append(@, [cell |-> cell, line |-> line, when |-> rec.seq]), !.seq = @ + 1]

start(rec, f) == [rec EXCEPT !.stack = Append(@, [code |-> f, last |-> -1])]
LOCAL AtTop(rec, f) == rec.stack # <<>> /\ Last(rec.stack).code = f
\* Mutant: what leaves is taken for the innermost activation.
endAny(rec, f, branch) ==
    IF rec.stack = <<>> THEN rec
    ELSE LET last == Last(rec.stack).last
             popped == [rec EXCEPT !.stack = Front(@)]
         IN  IF last \in branch THEN arc(popped, <<f, last, EXIT>>) ELSE popped
end(rec, f, branch) ==
    IF ~AtTop(rec, f) THEN rec
    ELSE LET last == Last(rec.stack).last
             popped == [rec EXCEPT !.stack = Front(@)]
         IN  IF last \in branch THEN arc(popped, <<f, last, EXIT>>) ELSE popped
\* A line of a function whose start went unseen starts it.
line(rec, f, n, branch, stores) ==
    LET on   == IF AtTop(rec, f) THEN rec ELSE start(rec, f)
        last == Last(on.stack).last
        gone == IF last \in branch THEN arc(on, <<f, last, n>>) ELSE on
        here == [gone EXCEPT !.stack[Len(gone.stack)].last = n]
    IN  IF n \in DOMAIN stores THEN store(here, stores[n], <<f, n>>) ELSE here

\* Each cell's last store, and the time of the first from each line.
_last_stores(log) ==
    LET Of(cell) == {n \in DOMAIN log : log[n].cell = cell}
    IN  [last |-> [cell \in {e.cell : e \in Range(log)} |-> log[Max(Of(cell))].line],
         first |-> [l \in {e.line : e \in Range(log)} |->
                      Min({e.when : e \in {x \in Range(log) : x.line = l}})]]

\* A frame's features, arcs and the register sites, in the order they first ran.
_py_trace(rec, registers) ==
    LET stores == _last_stores(rec.log)
        sites  == {c \in DOMAIN stores.last : c \in registers}
        events == {[feature |-> k, when |-> rec.arcs[k]] : k \in DOMAIN rec.arcs}
                  \union {[feature |-> <<c>> \o stores.last[c], when |-> stores.first[stores.last[c]]] :
                            c \in sites}
    IN  [order |-> _first(events), sites |-> [c \in sites |-> stores.last[c]]]
=============================================================================
