---------------------------- MODULE SpecProgram ----------------------------
(***************************************************************************)
(* A lowered program (playspec/ir.py) and what the Python function that    *)
(* pyexec.py compiles it to does: the reference of the native machine.     *)
(*                                                                         *)
(* An expression is a constant K, a byte Rd at an address, a variable V or *)
(* an operator Op over expressions; m is 2^w, the size of its width.  The  *)
(* value of an expression is <<v>>, or <<>> where Python raises.  A run is *)
(* a record [mem, vars, log, why]: log holds the stores in order, why is   *)
(* "" while the run goes on, "finish" after a finish, "raise" after a      *)
(* SpecRuntimeError.                                                       *)
(***************************************************************************)
EXTENDS Integers, Sequences, SequencesExt, FiniteSets, Bitwise, SpecObjects

K(v) == [is |-> "K", v |-> v]
Rd(a) == [is |-> "Rd", a |-> a]
V(n) == [is |-> "V", n |-> n]
Op(op, m, a) == [is |-> "Op", op |-> op, m |-> m, a |-> a]

Truth(p) == IF p THEN 1 ELSE 0

\* What an operator that evaluates all its operands yields (_BIN and _UN).
Apply(op, m, x) ==
    CASE op = "add"  -> (x[1] + x[2]) % m
      [] op = "sub"  -> (x[1] - x[2]) % m
      [] op = "neg"  -> (-x[1]) % m
      [] op = "not"  -> m - 1 - x[1]
      [] op = "lo"   -> x[1] % Byte
      [] op = "hi"   -> x[1] \div Byte
      [] op = "word" -> x[1] + Byte * x[2]
      [] op = "zext" -> x[1]
      [] op = "and"  -> x[1] & x[2]
      [] op = "or"   -> x[1] | x[2]
      [] op = "xor"  -> x[1] ^^ x[2]
      [] op = "shl"  -> (x[1] * 2 ^ x[2]) % m
      [] op = "shr"  -> x[1] \div 2 ^ x[2]
      [] op = "eq"   -> Truth(x[1] = x[2])
      [] op = "ne"   -> Truth(x[1] # x[2])
      [] op = "ult"  -> Truth(x[1] < x[2])
      [] op = "ule"  -> Truth(x[1] <= x[2])
      [] op = "lnot" -> Truth(x[1] = 0)
      [] op = "slt"  -> Truth((x[1] + m \div 2) % m < (x[2] + m \div 2) % m)
      [] op = "sle"  -> Truth((x[1] + m \div 2) % m <= (x[2] + m \div 2) % m)
      [] op = "own"  -> Truth(x[1] = x[2])
      [] op = "sext" -> IF x[1] < Byte \div 2 THEN x[1] ELSE x[1] + Byte * (Byte - 1)
      [] op = "mul"  ->     \* a byte of the second operand at a time: TLC's integers have 32 bits
           (x[1] * (x[2] % Byte) + Byte * ((x[1] * (x[2] \div Byte)) % Byte)) % m

\* The value of an expression; a device answers with its own value.
RECURSIVE ex(_, _)
ex(e, r) ==
    LET arg(i) == ex(e.a[i], r)
        In(items) == LET at == ex(Last(e.a), r) IN      \* Rows: an index past them raises
                     IF at = <<>> \/ at[1] + 1 \notin DOMAIN items THEN <<>> ELSE <<items[at[1] + 1]>>
    IN  CASE e.is = "K" -> <<e.v>>
          [] e.is = "V" -> <<r.vars[e.n]>>
          [] e.is = "Rd" ->
               LET a == ex(e.a, r) IN
               IF a = <<>> \/ a[1] \notin DOMAIN r.mem THEN <<>> ELSE <<r.mem[a[1]]>>
          [] e.is = "Op" /\ e.op = "land" ->
               LET x == arg(1) IN IF x = <<>> \/ x[1] = 0 THEN x ELSE arg(2)
          [] e.is = "Op" /\ e.op = "lor" ->
               LET x == arg(1) IN IF x = <<>> \/ x[1] # 0 THEN x ELSE arg(2)
          [] e.is = "Op" /\ e.op = "ite" ->
               LET c == arg(1) IN IF c = <<>> THEN <<>> ELSE IF c[1] # 0 THEN arg(2) ELSE arg(3)
          [] e.is = "Op" /\ e.op = "lut" -> In(e.items)
          [] e.is = "Op" /\ e.op = "aget" -> In([i \in DOMAIN e.slots |-> r.vars[e.slots[i]]])
          [] OTHER ->
               LET x == [i \in DOMAIN e.a |-> arg(i)] IN
               IF \E i \in DOMAIN x : x[i] = <<>> THEN <<>>
               ELSE <<Apply(e.op, e.m, [i \in DOMAIN x |-> x[i][1]])>>

-----------------------------------------------------------------------------
(* Whether a proc can hit a finish: only then does its caller look at what *)
(* it returns.  A proc on the way is taken for one that cannot.            *)

RECURSIVE finishes(_, _, _)
finishes(procs, stmts, open) ==
    \E i \in DOMAIN stmts :
        LET s == stmts[i] IN
        \/ s.is = "finish"
        \/ s.is = "call" /\ s.proc \notin open /\ finishes(procs, procs[s.proc], open \union {s.proc})
        \/ s.is = "if" /\ (finishes(procs, s.then, open) \/ finishes(procs, s.orelse, open))
        \/ s.is \in {"loop", "fire"} /\ finishes(procs, s.body, open)
ends(procs, pid) == finishes(procs, procs[pid], {pid})

py_raise(r) == [r EXCEPT !.why = "raise"]
py_set(r, n, v) == IF v = <<>> THEN py_raise(r) ELSE [r EXCEPT !.vars[n] = v[1]]
py_write(r, a, v) ==
    IF a = <<>> \/ v = <<>> THEN py_raise(r)
    ELSE IF a[1] \notin DOMAIN r.mem \/ v[1] \notin 0..(Byte - 1) THEN py_raise(r)
    ELSE [r EXCEPT !.mem[a[1]] = v[1], !.log = Append(@, <<a[1], v[1]>>)]
\* The functions of a row byte a cursor's masks, shifts and tests stand for.
Shifted(x) == [col |-> x.col, value |-> x.mask,
               of |-> [b \in 0..(Byte - 1) |-> (((b & x.mask) * 2 ^ x.shl) \div 2 ^ x.shr) % Byte]]
Tested(t) == [col |-> t.col, in |-> {b \in 0..(Byte - 1) : ((b & t.mask) = t.value) = t.equal}]
Guarded(sets) == [i \in DOMAIN sets |-> [sets[i] EXCEPT !.spec = Shifted(@), !.guard = [k \in DOMAIN @ |-> Tested(@[k])]]]
Decoding(row) ==
    [f \in DOMAIN row |-> CASE f = "tests" -> [i \in DOMAIN row.tests |-> Tested(row.tests[i])]
                            [] f \in {"sets", "then"} -> Guarded(row[f])
                            [] f \in {"to_", "count", "step"} -> Shifted(row[f])
                            [] OTHER -> row[f]]
Cursor(obj) == [obj EXCEPT !.rows = [i \in DOMAIN @ |-> Decoding(@[i])]]
step_of(s, m, x) ==
    CASE s.obj.kind = "counter" -> counter(s.obj, s.action, m, x[1], x[2])
      [] s.obj.kind = "owner" -> owner(s.obj, s.action, m, x[1], x[2], x[3])
      [] s.obj.kind = "accum" -> accum(s.obj, s.action, m, x[1], x[2])
      [] s.action = "reset" -> reset(Cursor(s.obj), m, Last(x))
      [] s.action = "settle" -> settle(s.obj, m)
      [] s.action = "step" -> walk(Cursor(s.obj), m, x)
\* A reaction of an object: owns are the bytes it keeps in variables, at addresses below 0.
py_react(r, s, x) ==
    LET lane(a) == LET v == r.vars[(-a) \div 2] IN IF a % 2 = 1 THEN v \div Byte ELSE v % Byte
        m == [a \in s.owns |-> lane(a)] @@ r.mem
        step == step_of(s, m, [i \in DOMAIN x |-> x[i][1]])
        kept(n) == LET part(a, k) == IF a \in s.owns THEN k * step.m[a] ELSE 0
                   IN  part(-2 * n, 1) + part(-2 * n - 1, Byte)
        vars == IF s.owns = {} THEN r.vars
                ELSE [n \in DOMAIN r.vars |-> IF -2 * n \in s.owns THEN kept(n) ELSE r.vars[n]]
        next == [r EXCEPT !.mem = [a \in DOMAIN r.mem |-> step.m[a]],
                          !.vars = IF s.out = <<>> THEN vars ELSE [vars EXCEPT ![s.out[1]] = step.flag]]
    IN  IF \E i \in DOMAIN x : x[i] = <<>> THEN py_raise(r)
        ELSE IF step.ok THEN next ELSE py_raise([next EXCEPT !.vars = vars])
\* A loop whose condition still holds after its last turn raises.
py_end(w, c) == IF w.left \/ w.at.why # "" THEN w.at
               ELSE IF c = <<>> \/ c[1] # 0 THEN py_raise(w.at) ELSE w.at

\* FoldLeft, each step on a value: a body is too long for one that nests its steps.
Through(op(_, _), base, seq) ==
    LET at[i \in 0..Len(seq)] == IF i = 0 THEN base
                                 ELSE CHOOSE next \in {op(w, seq[i]) : w \in {at[i - 1]}} : TRUE
    IN  at[Len(seq)]

\* How a statement runs; block runs statements until one ends the run.
RECURSIVE stmt(_, _, _), block(_, _, _), py_if(_, _, _, _), py_turn(_, _, _, _), py_loop(_, _, _, _)
stmt(procs, s, r) ==
    CASE s.is = "set" -> py_set(r, s.n, ex(s.v, r))
      [] s.is = "wr" -> py_write(r, ex(s.a, r), ex(s.v, r))
      [] s.is \in {"if", "assert"} -> py_if(procs, s, r, ex(s.c, r))
      [] s.is = "loop" -> py_loop(procs, s, s.bound, [at |-> r, left |-> FALSE])
      [] s.is = "finish" -> [r EXCEPT !.why = "finish"]
      [] s.is = "fire" -> block(procs, s.body, r)
      [] s.is = "call" ->
           LET w == block(procs, procs[s.proc], r)
           IN  IF w.why = "finish" /\ ~ends(procs, s.proc) THEN [w EXCEPT !.why = ""] ELSE w
      [] s.is = "obj" -> py_react(r, s, [i \in DOMAIN s.ops |-> ex(s.ops[i], r)])
block(procs, stmts, r) ==
    Through(LAMBDA w, s : IF w.why = "" THEN stmt(procs, s, w) ELSE w, r, stmts)
py_if(procs, s, r, c) ==
    IF c = <<>> \/ (s.is = "assert" /\ c[1] = 0) THEN py_raise(r)
    ELSE IF s.is = "assert" THEN r
    ELSE block(procs, IF c[1] # 0 THEN s.then ELSE s.orelse, r)
\* A loop with n turns to go.
py_loop(procs, s, n, w) ==
    IF n = 0 THEN py_end(w, ex(s.c, w.at)) ELSE py_loop(procs, s, n - 1, py_turn(procs, s, w, ex(s.c, w.at)))
py_turn(procs, s, w, c) ==
    IF w.left \/ w.at.why # "" THEN w
    ELSE IF c = <<>> THEN [w EXCEPT !.at = py_raise(@)]
    ELSE IF c[1] = 0 THEN [w EXCEPT !.left = TRUE]
    ELSE [w EXCEPT !.at = block(procs, s.body, @)]

\* One call of a program: locals start anew, the controls are kept.
frame(program, mem, controls) ==
    block(program.procs, program.body,
          [mem |-> mem, log |-> <<>>, why |-> "",
           vars |-> [n \in 0..(program.vars - 1) |-> IF n \in DOMAIN controls THEN controls[n] ELSE 0]])
=============================================================================
