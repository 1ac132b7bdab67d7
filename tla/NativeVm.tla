------------------------------ MODULE NativeVm ------------------------------
(***************************************************************************)
(* The virtual machine of the native core (vm.rs): what it verifies of an  *)
(* instruction stream before it takes it, and how it runs one, with no     *)
(* check of its stack.                                                     *)
(*                                                                         *)
(* An instruction is a record [op, k, to]: k is its operand (the fields an *)
(* argument packs are a sequence here, a note table its items, an object   *)
(* its reaction) and to the place a jump goes to, counted from 1.  A       *)
(* machine is a record [pc, stack, calls, vars, mem, why]; why is "" while *)
(* it runs, "done", or the reason it bails.                                *)
(***************************************************************************)
EXTENDS NativeObjects

CONSTANTS Ports,        \* the registers of the CPU port
          Loads         \* the streams a core may be given: records [code, vars, mem, controls]

ASSUME LoadsAssumption ==
    \A load \in Loads :
      LET code == load.code IN
      /\ code \in Seq({code[n] : n \in DOMAIN code})
      /\ \A n \in DOMAIN code : code[n].op = "Obj" => code[n].k.operands \in Nat

VARIABLES stream,       \* the code of the core that was made
          found,        \* what it verified of it
          vm            \* the machine that runs it

vmVars == <<stream, found, vm>>

-----------------------------------------------------------------------------
(* What the core verifies: how deep the stack is before each instruction.  *)

Compares == {"JEq", "JNe", "JLt", "JLe", "JGe", "JGt"}
ComparesK == {"JEqK", "JNeK", "JLtK", "JLeK", "JGeK", "JGtK"}
Jumping == Compares \union ComparesK \union {"Jmp", "Jz", "Jnz", "JzKeep", "JnzKeep", "Call"}
\* The mutant of is_jump: a jump is forgotten.
is_jump_but_one(op) == op \in Jumping \ {"JnzKeep"}

is_jump(op) == op \in Jumping
Keeps(op) == op \in {"JzKeep", "JnzKeep"}

\* What an instruction pops and pushes.
Binaries == {"Add", "Sub", "Eq", "Ne", "Ult", "Ule", "Slt", "Word"}
Takes(op) ==
    IF op \in Binaries \union Compares \union {"Wr"} THEN 2
    ELSE IF op \in {"Konst", "Var", "RdK", "JzKeep", "JnzKeep", "Jmp",
                    "SetK", "Call", "Ret", "Halt", "Fail"} THEN 0
    ELSE 1
pops(i) == IF i.op = "Obj" THEN i.k.operands ELSE Takes(i.op)
Ends(i) == i.op \in {"Wr", "WrK", "Set", "Assert", "SetK", "Call", "Ret", "Halt", "Fail", "Obj"}
pushes(i) == IF Ends(i) \/ i.op \in Jumping THEN 0 ELSE 1
Falls(i) == i.op \notin {"Jmp", "Ret", "Halt", "Fail"}

OperandInRange(i, vars, len) ==
    /\ i.op \in {"Var", "Set"} => i.k \in vars
    /\ i.op = "SetK" => i.k[1] \in vars
    /\ i.op = "VarX" => \A n \in 0..(i.k[2] - 1) : i.k[1] + n \in vars
    /\ is_jump(i.op) => i.to \in 1..len

\* The state of the pass: depth is how deep the code so far leaves the stack, where it is
\* live, and expect how deep the jumps so far leave it at a place, None where none goes.
None == -1
Unread(len) == [ok |-> TRUE, live |-> TRUE, depth |-> 0, deepest |-> 0,
                before |-> [n \in 1..len |-> 0], expect |-> [n \in 1..len |-> None]]
Refused == [ok |-> FALSE]
DepthAt(v, at) ==
    IF v.live THEN v.depth ELSE IF v.expect[at] = None THEN 0 ELSE v.expect[at]

\* An instruction the pass takes when it finds the stack depth deep.
Takeable(i, vars, len, v, at, depth) ==
    LET after == depth - pops(i) + pushes(i) IN
    /\ OperandInRange(i, vars, len)
    /\ v.live => v.expect[at] \in {None, v.depth}
    /\ depth >= pops(i)
    /\ Keeps(i.op) => depth >= 1
    /\ i.op = "Call" => after = 0
    /\ is_jump(i.op) => IF i.to > at THEN v.expect[i.to] \in {None, after}
                        ELSE after = IF i.to = at THEN depth ELSE v.before[i.to]
    /\ Ends(i) => after = 0
Read(i, v, at, depth) ==
    LET after == depth - pops(i) + pushes(i) IN
    [ok      |-> TRUE,
     live    |-> Falls(i),
     depth   |-> after - Flag(Keeps(i.op)),
     deepest |-> IF after > v.deepest THEN after ELSE v.deepest,
     before  |-> [v.before EXCEPT ![at] = depth],
     expect  |-> IF is_jump(i.op) /\ i.to > at THEN [v.expect EXCEPT ![i.to] = after] ELSE v.expect]

ReadNext(code, vars, v, at) ==
    IF v.ok /\ Takeable(code[at], vars, Len(code), v, at, DepthAt(v, at))
    THEN Read(code[at], v, at, DepthAt(v, at))
    ELSE Refused

\* The pass after the first n instructions.
ReadTo(code, vars, n) ==
    LET to[k \in 0..Len(code)] ==
            IF k = 0 THEN Unread(Len(code)) ELSE ReadNext(code, vars, to[k - 1], k)
    IN  to[n]

\* [ok, before, deepest] of a code the core takes.
verify(code, vars) ==
    LET last == ReadTo(code, vars, Len(code))
    IN  IF last.ok /\ (last.live => last.depth = 0)
        THEN [ok |-> TRUE, before |-> last.before, deepest |-> last.deepest]
        ELSE Refused

-----------------------------------------------------------------------------
(* How it runs. *)

Machine(vars, mem, controls) ==
    [pc |-> 1, stack |-> <<>>, calls |-> <<>>, mem |-> mem, why |-> "",
     vars |-> [n \in vars |-> IF n \in DOMAIN controls THEN controls[n] ELSE 0]]

Compare(op, a, b) ==
    CASE op \in {"JEq", "JEqK"} -> a = b  [] op \in {"JNe", "JNeK"} -> a # b
      [] op \in {"JLt", "JLtK"} -> a < b  [] op \in {"JLe", "JLeK"} -> a <= b
      [] op \in {"JGe", "JGeK"} -> a >= b [] op \in {"JGt", "JGtK"} -> a > b

\* What an instruction makes of the values on top of the stack: x under y.
Binary(i, x, y) ==
    CASE i.op = "Add" -> (x + y) % i.k [] i.op = "Sub" -> (x - y) % i.k
      [] i.op = "Eq" -> Flag(x = y)   [] i.op = "Ne" -> Flag(x # y)
      [] i.op = "Ult" -> Flag(x < y)  [] i.op = "Ule" -> Flag(x <= y)
      [] i.op = "Word" -> x + Byte * y
      [] i.op = "Slt" -> Flag((x + i.k) % (2 * i.k) < (y + i.k) % (2 * i.k))
Unary(i, x) ==
    CASE i.op = "AddK" -> (x + i.k[2]) % i.k[1] [] i.op = "SubK" -> (x - i.k[2]) % i.k[1]
      [] i.op = "EqK" -> Flag(x = i.k)  [] i.op = "NeK" -> Flag(x # i.k)
      [] i.op = "UltK" -> Flag(x < i.k) [] i.op = "UleK" -> Flag(x <= i.k)
      [] i.op = "Not" -> i.k - 1 - x     [] i.op = "Neg" -> (-x) % i.k
      [] i.op = "Lo" -> x % Byte         [] i.op = "Hi" -> x \div Byte
      [] i.op = "Lnot" -> Flag(x = 0)

\* What an instruction leaves of the stack, and the machine past it.
Top(r) == Last(r.stack)
Under(r) == r.stack[Len(r.stack) - 1]
Rest(i, r) == SubSeq(r.stack, 1, Len(r.stack) - pops(i))
On(i, r) == [r EXCEPT !.pc = @ + 1, !.stack = Rest(i, r)]
Bail(r, why) == [r EXCEPT !.why = why]
Push(i, r, v) == [r EXCEPT !.pc = @ + 1, !.stack = Append(Rest(i, r), v)]
Goto(i, r, p) == IF p THEN [On(i, r) EXCEPT !.pc = i.to] ELSE On(i, r)

ReadAt(i, r, a) ==
    IF a \notin DOMAIN r.mem THEN Bail(r, "range")
    ELSE IF a \in Devices THEN Bail(r, "device") ELSE Push(i, r, r.mem[a])
StoreAt(i, r, a, v) ==
    IF a \notin DOMAIN r.mem \/ v \notin 0..(Byte - 1) THEN Bail(r, "range")
    ELSE IF a \in Ports THEN Bail(r, "port") ELSE [On(i, r) EXCEPT !.mem[a] = v]
object(i, r) ==
    LET ops  == SubSeq(r.stack, Len(r.stack) - pops(i) + 1, Len(r.stack))
        step == native_counter(i.k.obj, i.k.action, r.mem, ops[1], ops[2])
    IN  [On(i, r) EXCEPT !.mem = step.m,
                         !.vars = IF i.k.out = <<>> THEN @ ELSE [@ EXCEPT ![i.k.out[1]] = step.flag]]

\* An instruction that pushes a value, one that ends a statement, one that jumps.
exec_value(i, r) ==
    CASE i.op = "Konst" -> Push(i, r, i.k)
      [] i.op = "Var"   -> Push(i, r, r.vars[i.k])
      [] i.op = "RdK"   -> ReadAt(i, r, i.k)
      [] i.op = "Rd"    -> ReadAt(i, r, Top(r))
      [] i.op = "Note"  -> IF Top(r) + 1 \notin DOMAIN i.k THEN Bail(r, "range")
                           ELSE Push(i, r, i.k[Top(r) + 1])
      [] i.op = "VarX"  -> IF Top(r) \notin 0..(i.k[2] - 1) THEN Bail(r, "range")
                           ELSE Push(i, r, r.vars[i.k[1] + Top(r)])
      [] i.op \in Binaries -> Push(i, r, Binary(i, Under(r), Top(r)))
      [] OTHER -> Push(i, r, Unary(i, Top(r)))
exec_end(i, r) ==
    CASE i.op = "Wr"   -> StoreAt(i, r, Under(r), Top(r))
      [] i.op = "WrK"  -> StoreAt(i, r, i.k, Top(r))
      [] i.op = "Set"  -> [On(i, r) EXCEPT !.vars[i.k] = Top(r)]
      [] i.op = "SetK" -> [On(i, r) EXCEPT !.vars[i.k[1]] = i.k[2]]
      [] i.op = "Assert" -> IF Top(r) = 0 THEN Bail(r, "spec") ELSE On(i, r)
      [] i.op = "Obj"  -> object(i, r)
      [] i.op = "Ret"  -> IF r.calls = <<>> THEN Bail(r, "spec")
                          ELSE [On(i, r) EXCEPT !.pc = Last(r.calls), !.calls = Front(@)]
      [] i.op = "Halt" -> Bail(r, "done")
      [] i.op = "Fail" -> Bail(r, "spec")
exec_jump(i, r) ==
    CASE i.op = "Jmp"   -> Goto(i, r, TRUE)
      [] i.op = "Jz"    -> Goto(i, r, Top(r) = 0)
      [] i.op = "Jnz"   -> Goto(i, r, Top(r) # 0)
      [] Keeps(i.op)    -> IF i.op = "JzKeep" <=> Top(r) = 0 THEN Goto(i, r, TRUE)
                           ELSE [On(i, r) EXCEPT !.stack = Front(r.stack)]
      [] i.op \in Compares  -> Goto(i, r, Compare(i.op, Under(r), Top(r)))
      [] i.op \in ComparesK -> Goto(i, r, Compare(i.op, Top(r), i.k))
      [] i.op = "Call"  -> [On(i, r) EXCEPT !.calls = Append(@, r.pc + 1), !.pc = i.to]

\* One instruction of a machine that still runs.
exec(code, r) ==
    LET i == code[r.pc] IN
    IF i.op \in Jumping THEN exec_jump(i, r) ELSE IF Ends(i) THEN exec_end(i, r) ELSE exec_value(i, r)

-----------------------------------------------------------------------------
(* A core that is made of a stream and the frame it runs. *)

VmLoad(load) ==
    /\ stream = load.code
    /\ found = verify(load.code, load.vars)
    /\ vm = Machine(load.vars, load.mem, load.controls)

\* The encoder ends the body in a Halt and each proc in a Ret (native.py, encode).
Ended(code) == code # <<>> /\ ~Falls(code[Len(code)])

\* A core is only made of a stream that verifies (Vm::new).
VmInit == (\E load \in Loads : VmLoad(load)) /\ found.ok

VmStep == vm.why = "" /\ vm' = exec(stream, vm) /\ UNCHANGED <<stream, found>>

VmSpec == VmInit /\ [][VmStep]_vmVars

\* A machine runs with no check of its stack: before each instruction it stands
\* in the code and the stack is as deep as verify found, so that it never pops
\* an empty one, never passes the deepest and never names a variable the
\* program does not have (vm.rs, Vm::exec, the comment on its unsafe blocks).
StackAsVerified ==
    vm.why = "" =>
      /\ vm.pc \in DOMAIN stream
      /\ Len(vm.stack) = found.before[vm.pc]
      /\ Len(vm.stack) <= found.deepest
      /\ Len(vm.stack) >= pops(stream[vm.pc])
      /\ OperandInRange(stream[vm.pc], DOMAIN vm.vars, Len(stream))
=============================================================================
