--------------------------- MODULE NativeProgram ---------------------------
(***************************************************************************)
(* The native machine of lowered programs: the instruction stream that the *)
(* encoder writes of a program (native.py, _Encoder) for the machine of    *)
(* NativeVm.                                                               *)
(***************************************************************************)
EXTENDS SpecProgram, NativeVm

CONSTANT Wide           \* constants past the bits an argument packs

-----------------------------------------------------------------------------
(* The encoder: each operator yields the code so far with its own after it. *)

emit(code, op, k) == Append(code, [op |-> op, k |-> k, to |-> 0])
here(code) == Len(code) + 1
back(code, op, target) == Append(code, [op |-> op, k |-> 0, to |-> target])
patch(code, at) == [code EXCEPT ![at].to = here(code)]

Masked   == [add |-> "Add", sub |-> "Sub", not |-> "Not", neg |-> "Neg"]
Plain    == [eq |-> "Eq", ne |-> "Ne", ult |-> "Ult", ule |-> "Ule", word |-> "Word",
             lo |-> "Lo", hi |-> "Hi", lnot |-> "Lnot"]
Commutes == {"add", "eq", "ne"}
Immediate == [eq |-> "EqK", ne |-> "NeK", ult |-> "UltK", ule |-> "UleK"]
Packed   == [add |-> "AddK", sub |-> "SubK"]
Jumps(op, when) ==
    LET holds == [eq |-> "JEq", ne |-> "JNe", ult |-> "JLt", ule |-> "JLe"]
        fails == [eq |-> "JNe", ne |-> "JEq", ult |-> "JGe", ule |-> "JGt"]
    IN  IF when THEN holds[op] ELSE fails[op]
WithK(jump) == CASE jump = "JEq" -> "JEqK" [] jump = "JNe" -> "JNeK" [] jump = "JLt" -> "JLtK"
                 [] jump = "JLe" -> "JLeK" [] jump = "JGe" -> "JGeK" [] jump = "JGt" -> "JGtK"

Packs(e) == e.is = "K" /\ e.v \notin Wide

RECURSIVE expr(_, _), operator(_, _), lazy(_, _)
expr(code, e) ==
    CASE e.is = "K"  -> emit(code, "Konst", e.v)
      [] e.is = "V"  -> emit(code, "Var", e.n)
      [] e.is = "Rd" /\ e.a.is = "K" -> emit(code, "RdK", e.a.v)
      [] e.is = "Rd" /\ e.a.is # "K" -> emit(expr(code, e.a), "Rd", 0)
      [] e.is = "Op" -> operator(code, e)

\* Each arm is given the code before it, and patches the jump that ends it.
ite_orelse(yes, test, e) == LET at == Len(yes) IN patch(expr(patch(yes, test), e.a[3]), at)
ite_then(first, e) == ite_orelse(emit(expr(first, e.a[2]), "Jmp", 0), Len(first), e)
second(first, e) == patch(expr(first, e.a[2]), Len(first))
lazy(code, e) ==
    IF e.op = "ite" THEN ite_then(emit(expr(code, e.a[1]), "Jz", 0), e)
    ELSE second(emit(expr(code, e.a[1]), IF e.op = "land" THEN "JzKeep" ELSE "JnzKeep", 0), e)

operator(code, e) ==
    LET swap == e.op \in Commutes /\ e.a[1].is = "K"
        args == IF swap THEN <<e.a[2], e.a[1]>> ELSE e.a
        all  == FoldLeft(expr, code, args)
        k    == args[2].v
    IN  CASE e.op = "lut"  -> emit(expr(code, Last(e.a)), "Note", e.items)
          [] e.op = "aget" -> emit(expr(code, Last(e.a)), "VarX", <<e.slots[1], Len(e.slots)>>)
          [] e.op \in {"land", "lor", "ite"} -> lazy(code, e)
          [] e.op \in DOMAIN Immediate /\ args[2].is = "K" ->
               emit(expr(code, args[1]), Immediate[e.op], k)
          [] e.op \in DOMAIN Packed /\ Packs(args[2]) ->
               emit(expr(code, args[1]), Packed[e.op], <<e.m, k>>)
          [] e.op \in DOMAIN Packed /\ ~Packs(args[2]) -> emit(all, Masked[e.op], e.m)
          [] e.op \in {"not", "neg"} -> emit(all, Masked[e.op], e.m)
          [] e.op = "slt" -> emit(all, "Slt", e.m \div 2)
          [] OTHER -> emit(all, Plain[e.op], 0)

\* Code that jumps, to a place the caller patches, when cond is when; the jump is its last.
RECURSIVE branch(_, _, _)
branch(code, cond, when) ==
    IF cond.is = "Op" /\ cond.op = "lnot" THEN branch(code, cond.a[1], ~when)
    ELSE IF cond.is = "Op" /\ cond.op \in DOMAIN Immediate
    THEN LET left == expr(code, cond.a[1])
             jump == Jumps(cond.op, when)
         IN  IF Packs(cond.a[2]) THEN emit(left, WithK(jump), cond.a[2].v)
             ELSE emit(expr(left, cond.a[2]), jump, 0)
    ELSE emit(expr(code, cond), IF when THEN "Jnz" ELSE "Jz", 0)

write(code, addr, value) ==
    IF addr.is = "K" THEN emit(expr(code, value), "WrK", addr.v)
    ELSE emit(expr(expr(code, addr), value), "Wr", 0)

assign_var(code, n, value) ==
    IF Packs(value) THEN emit(code, "SetK", <<n, value.v>>)
    ELSE emit(expr(code, value), "Set", n)

react(code, s) ==
    emit(FoldLeft(expr, code, s.ops), "Obj",
         [obj |-> s.obj, action |-> CounterCode(s.obj, s.action), out |-> s.out,
          operands |-> Len(s.ops)])

\* The mutant of Counter: every loop counts in the same variable.
CounterShared(code) == 100

\* A loop counts in a variable of its own, named by the place of the loop.
Counter(code) == 100 + Len(code)

RECURSIVE code_stmt(_, _)
code_block(code, stmts) == FoldLeft(code_stmt, code, stmts)

\* The two arms of an if: skip ends in the jump past the first one.
if_orelse(then, skip, s) ==
    IF s.orelse = <<>> THEN patch(then, skip)
    ELSE LET over == here(then) IN patch(code_block(patch(emit(then, "Jmp", 0), skip), s.orelse), over)
if_then(skip, s) == if_orelse(code_block(skip, s.then), Len(skip), s)

\* A loop: it starts at top, may be spent at the jump spent and left at the jump leave;
\* past its bound it is asked once more, and fails if it would go on.
loop_fail(out, leave) == LET at == Len(out) IN patch(patch(emit(out, "Fail", 0), leave), at)
loop_again(body, s, top, count, leave) ==
    LET next == emit(emit(emit(body, "Var", count), "AddK", <<2 ^ 30, 1>>), "Set", count)
    IN  loop_fail(branch(patch(back(next, "Jmp", top), top + 1), s.c, FALSE), leave)
loop_body(leave, s, top, count) ==
    loop_again(code_block(leave, s.body), s, top, count, Len(leave))
code_loop(code, s) ==
    LET count == Counter(code)
        top   == here(code) + 1
    IN  loop_body(branch(emit(emit(emit(code, "SetK", <<count, 0>>), "Var", count), "JGeK", s.bound),
                         s.c, FALSE),
                  s, top, count)

code_stmt(code, s) ==
    CASE s.is = "wr"  -> write(code, s.a, s.v)
      [] s.is = "set" -> assign_var(code, s.n, s.v)
      [] s.is = "if"  -> if_then(branch(code, s.c, FALSE), s)
      [] s.is = "loop"   -> code_loop(code, s)
      [] s.is = "assert" -> emit(expr(code, s.c), "Assert", 0)
      [] s.is = "finish" -> emit(code, "Halt", 0)
      [] s.is = "call"   -> emit(code, "Call", s.proc)
      [] s.is = "fire"   -> code_block(code, s.body)
      [] s.is = "obj"    -> react(code, s)

\* The procs follow the body in order; starts[p] is where proc p does.
Section(done, stmts, end) == [code |-> emit(code_block(done.code, stmts), end, 0),
                              starts |-> Append(done.starts, here(done.code))]
Linked(done) ==
    [n \in DOMAIN done.code |->
        IF done.code[n].op = "Call" THEN [done.code[n] EXCEPT !.to = done.starts[done.code[n].k + 1]]
        ELSE done.code[n]]
encode(program) ==
    Linked(FoldLeft(LAMBDA done, n : Section(done, IF n = 0 THEN program.body ELSE program.procs[n],
                                             IF n = 0 THEN "Halt" ELSE "Ret"),
                    [code |-> <<>>, starts |-> <<>>], [n \in 1..(Len(program.procs) + 1) |-> n - 1]))

Variables(program, code) ==
    (0..(program.vars - 1)) \union {code[n].k : n \in {i \in DOMAIN code : code[i].op = "Set"}}
=============================================================================
