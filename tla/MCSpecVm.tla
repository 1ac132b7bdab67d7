------------------------------ MODULE MCSpecVm ------------------------------
(***************************************************************************)
(* The executors of a specification side by side: the cursors a memory of  *)
(* sixteen bytes steps, the programs the native machine runs and the       *)
(* instruction streams it verifies.  The state is one of the three, its    *)
(* area tells which; a machine runs in the last two.                       *)
(***************************************************************************)
EXTENDS NativeProgram, ObjectSteps, TLC

CONSTANTS MaxCalls,             \* how deep an arbitrary stream may call
          PyFrame(_, _, _)      \* a frame of the Python function: a program, a memory, the controls

-----------------------------------------------------------------------------
(* Cursors. *)

Const(v) == [col |-> 0, value |-> v]
Col(j, f) == [col |-> j, of |-> f]
Same == [b \in 0..(Byte - 1) |-> b]
High == [b \in 0..(Byte - 1) |-> b \div 2]
Set(index, part, spec) == [index |-> index, part |-> part, spec |-> spec, guard |-> <<>>]
If(item, test) == [item EXCEPT !.guard = <<test>>]
Row(from, to, tests, act) == [from |-> from, to |-> to, tests |-> tests, then |-> <<>>] @@ act

StopRow == [kind |-> "stop"]
JumpRow(to_, hold, via) == [kind |-> "jump", to_ |-> to_, hold |-> hold, via |-> via]
CallRow(to_) == [kind |-> "call", to_ |-> to_]
ReturnRow == [kind |-> "return"]
SweepRow(into, count, step, frac, part, then) ==
    [kind |-> "sweep", into |-> into, count |-> count, step |-> step, frac |-> frac, part |-> part,
     then |-> then]
DelayRow(count, then) == [kind |-> "delay", count |-> count, then |-> then]
SetRow(sets, take, then) == [kind |-> "set", sets |-> sets, take |-> take, then |-> then]
EndRow(take, then) == [kind |-> "end", take |-> take, then |-> then]
RunRow(base, sets) == [kind |-> "run", base |-> base, sets |-> sets]

Blank == [adv |-> "post", width |-> 1, pos |-> <<8>>, cnt |-> <<>>, run |-> <<>>, ret |-> <<>>,
          values |-> <<<<12, 13>>, <<14>>>>, tabs |-> <<<<>>, <<2, 0, 3, 1>>>>]

CursorObjects ==
    { [rows |-> << Row(0, 0, <<>>, JumpRow(Col(2, Same), {3}, <<>>)),
                   Row(1, 1, <<[col |-> 2, in |-> {0, 1, 2}]>>,
                       SweepRow(1, Const(2), Const(3), 0, 0, <<Set(2, 0, Const(1))>>)),
                   Row(2, 2, <<>>, SetRow(<<Set(2, 0, Col(2, Same)), Set(1, 2, Const(1))>>, 1,
                                          <<If(Set(3, 0, Const(1)), [col |-> 2, in |-> {2}])>>)),
                   Row(3, 3, <<>>, EndRow(1, <<>>)) >>,
       cnt |-> <<10>>] @@ Blank,
      [rows |-> << Row(0, 0, <<>>, CallRow(Col(2, Same))),
                   Row(1, 1, <<>>, ReturnRow),
                   Row(2, 2, <<>>, JumpRow(Col(2, Same), {}, <<1>>)),
                   Row(3, 3, <<>>, SweepRow(1, Const(1), Col(2, Same), 2, 0, <<>>)) >>,
       cnt |-> <<10>>, ret |-> <<15>>] @@ Blank,
      [rows |-> << Row(0, 0, <<>>, SetRow(<<Set(2, 0, Col(1, Same))>>, 2, <<Set(1, 1, Const(2))>>)),
                   Row(1, 2, <<>>, RunRow(1, <<Set(2, 0, Const(3))>>)),
                   Row(3, 3, <<>>, JumpRow(Const(0), {}, <<>>)) >>,
       adv |-> "pre", run |-> <<11>>] @@ Blank,
      [rows |-> << Row(0, 1, <<>>, DelayRow(Col(1, Same), <<Set(3, 0, Const(2))>>)),
                   Row(2, 2, <<>>, SweepRow(1, Const(3), Col(2, High), 0, 2, <<>>)),
                   Row(3, 3, <<>>, JumpRow(Const(1), {2}, <<>>)) >>,
       width |-> 2, cnt |-> <<10>>] @@ Blank,
      [rows |-> << Row(0, 0, <<>>, StopRow),
                   Row(1, 2, <<>>, RunRow(0, <<>>)),
                   Row(3, 3, <<>>, SetRow(<<Set(1, 0, Col(1, Same))>>, 3, <<>>)) >>,
       pos |-> <<8, 9>>, run |-> <<11>>, adv |-> "settle", tabs |-> <<<<>>>>] @@ Blank }

\* Every table of four bytes that its rows may be in.
MCCursors ==
    {[obj |-> obj, ops |-> [j \in 1..(Len(obj.tabs) + 1) |-> 0],
      m |-> [a \in Memory |-> IF a < 4 THEN table[a] ELSE 0]] :
        obj \in CursorObjects, table \in [0..3 -> 0..(Byte - 1)]}

\* Counters, owners and accumulators of a byte and of a word.
MCScalars ==
    {[kind |-> "counter", cell |-> c, delta |-> d, gated |-> g] : c \in {<<4>>, <<4, 5>>}, d \in 1..2,
                                                                  g \in BOOLEAN}
    \union {[kind |-> "owner", cell |-> c] : c \in {<<4>>, <<4, 5>>}}
    \union {[kind |-> "accum", cell |-> c, dir |-> <<6>>] : c \in {<<4>>, <<4, 5>>}}

-----------------------------------------------------------------------------
(* Programs of two statements, with a proc, a loop and arms that raise.     *)

k(n) == K(n)
Byte2(op, x, y) == Op(op, Byte, <<x, y>>)
Lut == [is |-> "Op", op |-> "lut", items |-> <<2, 0, 1>>, a |-> <<V(0)>>]         \* raises at 3
Aget == [is |-> "Op", op |-> "aget", slots |-> <<0, 1>>, a |-> <<V(1)>>]          \* raises at 2, 3
Far == Op("add", 2 * Byte * Byte, <<K(Byte * Byte - 1), V(1)>>)                  \* past the memory

Conds == {V(1), Op("lnot", 2, <<Byte2("eq", V(0), K(2))>>), Byte2("ule", V(1), K(3)),
          Byte2("ult", K(1), V(0)), Byte2("slt", V(0), V(1)),
          Op("land", 2, <<Byte2("ne", K(3), V(0)), Lut>>),
          Op("lor", 2, <<Byte2("eq", V(1), K(0)), Byte2("ult", V(1), Rd(Far))>>)}
Values == {K(2), K(3), Rd(K(9)), Rd(Op("word", Byte * Byte, <<V(1), K(2)>>)), Lut, Aget,
           Byte2("add", K(3), V(0)), Byte2("add", K(1), V(1)), Byte2("sub", V(0), K(2)),
           Byte2("sub", V(0), V(1)), Op("neg", Byte, <<V(0)>>), Op("not", Byte, <<V(1)>>),
           Op("hi", Byte, <<Op("word", Byte * Byte, <<V(0), V(1)>>)>>),
           Op("ite", Byte, <<V(0), V(1), Rd(Far)>>)}

Assign(n, v) == [is |-> "set", n |-> n, v |-> v]
Wr(a, v) == [is |-> "wr", a |-> a, v |-> v]
When(c, then, orelse) == [is |-> "if", c |-> c, then |-> then, orelse |-> orelse]
Loop(c, body) == [is |-> "loop", c |-> c, body |-> body, bound |-> 2]
Finish == [is |-> "finish"]
Call(p) == [is |-> "call", proc |-> p]
Step(action, out) == [is |-> "obj", obj |-> [kind |-> "counter", cell |-> <<9>>, delta |-> 1, gated |-> FALSE], owns |-> {},
                      action |-> action, out |-> out, ops |-> <<Byte2("add", V(0), K(1)), K(2)>>]

Procs == << <<Assign(1, Byte2("sub", V(1), K(1)))>>,
            <<When(V(0), <<Finish>>, <<>>), Wr(K(10), V(1)), Call(1)>> >>

Statements ==
    {Assign(2, v) : v \in Values} \union {Wr(K(10), v) : v \in Values}
    \union {Wr(Far, K(1)), Wr(Op("word", Byte * Byte, <<V(1), V(0)>>), V(0)), Finish, Call(1), Call(2),
            Step("up", <<1>>), Step("down", <<>>), Step("reset", <<>>)}
    \union {[is |-> "assert", c |-> c] : c \in Conds}
    \union {When(c, <<Assign(2, K(1))>>, <<Finish>>) : c \in Conds}
    \union {When(c, <<Call(2), Wr(K(11), K(2))>>, <<>>) : c \in Conds}
    \union {Loop(c, <<Call(1)>>) : c \in Conds}
    \union {Loop(V(1), <<Loop(V(0), <<Assign(0, Byte2("sub", V(0), K(1)))>>), Call(1)>>),
            [is |-> "fire", body |-> <<Wr(K(9), V(0)), When(V(1), <<Finish>>, <<>>)>>]}

Programs == {[body |-> <<a, b>>, procs |-> Procs, vars |-> 3] : a, b \in Statements}
Controls == {(0 :> c[1]) @@ (1 :> c[2]) : c \in {<<0, 0>>, <<1, 3>>, <<2, 1>>, <<3, 2>>}}
Filled == [a \in Memory |-> a % Byte]

ProgramInit ==
    \E program \in Programs, controls \in Controls :
        /\ state = [area |-> "program", program |-> program, controls |-> controls]
        /\ \E code \in {encode(program)} :
              VmLoad([code |-> code, vars |-> Variables(program, code), mem |-> Filled, controls |-> controls])

\* Streams the encoder would not write: whatever the core verifies, it runs.
Vocabulary ==
    {[op |-> op, k |-> 2, to |-> 0] : op \in {"Konst", "Add", "Assert", "Ret", "Halt"}}
    \union {[op |-> op, k |-> 0, to |-> 0] : op \in {"Var", "Set"}}
    \union {[op |-> op, k |-> 0, to |-> to] : op \in {"Jmp", "Jz", "JnzKeep", "JLt", "Call"}, to \in 1..5}
Streams ==
    {push \o body \o <<[op |-> "Halt", k |-> 0, to |-> 0]>> :
        push \in {<<>>, <<[op |-> "Konst", k |-> 1, to |-> 0]>>}, body \in [1..3 -> Vocabulary]}
MCLoads == {[code |-> code, vars |-> {0}, mem |-> Filled, controls |-> <<>>] : code \in Streams}

StreamInit == state = [area |-> "stream"] /\ VmInit

Execute == Len(vm.calls) <= MaxCalls /\ VmStep /\ UNCHANGED state

\* A frame the native machine finishes leaves the memory and the controls as
\* the Python function leaves them; it bails on a range or an assertion only
\* where Python raises; the code of a program is one the core takes.
RunsAsPython ==
    state.area = "program" =>
      LET py == PyFrame(state.program, Filled, state.controls) IN
      /\ found.ok /\ Ended(stream)
      /\ vm.why = "done" => /\ py.why \in {"", "finish"}
                            /\ vm.mem = py.mem
                            /\ \A n \in 0..(state.program.vars - 1) : vm.vars[n] = py.vars[n]
      /\ vm.why \in {"range", "spec"} => py.why = "raise"
-----------------------------------------------------------------------------
NoMachine == /\ stream = <<>> /\ found = Refused
             /\ vm = [why |-> "done", calls |-> <<>>]
Init == (ObjectsInit /\ NoMachine) \/ ProgramInit \/ StreamInit
Next == (ObjectsNext /\ UNCHANGED vmVars) \/ Execute
Spec == Init /\ [][Next]_<<state, vmVars>>

MCPyFrame(program, mem, controls) == LET run == frame(program, mem, controls) IN run
=============================================================================
