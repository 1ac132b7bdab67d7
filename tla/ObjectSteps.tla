---------------------------- MODULE ObjectSteps ----------------------------
(***************************************************************************)
(* The objects of a specification in use: a cursor that reactions step,    *)
(* settle and reset over the memory its rows are in, and a counter, owner  *)
(* or accumulator that any of its reactions steps with any operands, in    *)
(* Python (playspec/objects.py), whatever the core would do beside it      *)
(* (objects.rs).                                                           *)
(***************************************************************************)
EXTENDS NativeObjects

CONSTANTS
    Cursors,    \* cursors, what their reactions pass and the memory they begin in: [obj, ops, m]
    Scalars     \* counters, owners and accumulators: [kind, cell], and what the kind has

VARIABLE state

Memory == 0..(Address - 1)

-----------------------------------------------------------------------------
(* Where a row ends and the next may begin.  A node is a place and the     *)
(* byte that a jump left for it to be read as.                             *)

At(c, place) == <<place % Room(c.obj.pos), <<>>>>
NodeColumns(c, node) == [j \in 1..Len(c.obj.tabs) |-> fetch(c.obj, c.m, j, c.ops[j] + node[1])]
NodeRow(c, node) ==
    Row_(c.obj, IF node[2] = <<>> THEN NodeColumns(c, node)[1] ELSE node[2][1], NodeColumns(c, node))
NodePast(c, node) == \E j \in 1..Len(c.obj.tabs) : Past(c.obj, j, c.ops[j] + node[1])
NodeTarget(c, node) == xf(NodeRow(c, node).to_, NodeColumns(c, node))
Leads(c, place, row, target) ==
    CASE row.kind = "stop"   -> {At(c, place)}
      [] row.kind = "jump"   -> {At(c, target)} \union
                                (IF target = place THEN {} ELSE {<<target, row.via>>})
      [] row.kind = "call"   -> {At(c, target), At(c, place + c.obj.width)}
      [] row.kind = "return" -> {}
      [] row.kind \in {"sweep", "delay"} -> {At(c, place), At(c, place + c.obj.width)}
      [] row.kind \in {"set", "end"} -> {At(c, place + row.take)}
      [] row.kind = "run"    -> {At(c, place + 1)}
Follows(c, node) ==
    IF NodePast(c, node) THEN {} ELSE Leads(c, node[1], NodeRow(c, node), NodeTarget(c, node))

\* The nodes that rows lead to from where a reset puts the cursor; there are no more
\* than every place and each row's byte for it, so that as many rounds find them.
Rounds(c) == Room(c.obj.pos) * (Len(c.obj.rows) + 1)
Nodes(c) ==
    LET found[n \in 0..Rounds(c)] ==
            IF n = 0 THEN {At(c, Last(c.ops))}
            ELSE LET before == found[n - 1] IN before \union UNION {Follows(c, node) : node \in before}
    IN  found[Rounds(c)]
Places(c) == {node[1] : node \in Nodes(c)}

\* No byte a cursor keeps its place in is kept twice or is a value of its own, none it
\* keeps anything in is a row's; and a return that no call went before goes to a row.
Apart(loc) == \A i, k \in DOMAIN loc : loc[i] = loc[k] => i = k
CellsApart(obj) ==
    LET rest == Range(obj.cnt) \union Range(obj.run) \union UNION {Range(obj.values[i]) : i \in DOMAIN obj.values}
    IN  /\ Apart(obj.pos) /\ Apart(obj.ret)
        /\ Range(obj.pos) \cap Range(obj.ret) = {}
        /\ (Range(obj.pos) \union Range(obj.ret)) \cap rest = {}
Cells(obj) == Range(obj.pos) \union Range(obj.ret) \union Range(obj.cnt) \union Range(obj.run)
                \union UNION {Range(obj.values[i]) : i \in DOMAIN obj.values}
RowsApart(c) ==
    \A node \in Nodes(c), j \in 1..Len(c.obj.tabs) :
        c.obj.tabs[j] = <<>> => (c.ops[j] + node[1]) % Address \notin Cells(c.obj)
ReturnsToRow(c) == c.obj.ret # <<>> => <<Load(c.m, c.obj.ret), <<>>>> \in Nodes(c)

ASSUME CursorsAssumption ==
    \A c \in Cursors :
        /\ IsCursor(Memory, c.obj) /\ Parses(c.obj, Len(c.ops)) /\ c.obj.adv \in {"post", "pre", "settle"}
        /\ c.ops \in Seq(Int) /\ c.m \in [Memory -> Bytes]
        /\ CellsApart(c.obj) /\ RowsApart(c) /\ ReturnsToRow(c)

ASSUME ScalarsAssumption ==
    /\ Byte % 2 = 0
    /\ \A obj \in Scalars :
          /\ obj.kind \in {"counter", "owner", "accum"} /\ IsCell(Memory, obj.cell)
          /\ obj.kind = "counter" => obj.delta \in Int /\ obj.gated \in BOOLEAN
          /\ obj.kind = "accum" => IsCell(Memory, obj.dir)

-----------------------------------------------------------------------------
(* A cursor. *)

CursorInit ==
    \E c \in Cursors :
       state = [area |-> "cursor", c |-> c, ok |-> TRUE, settled |-> TRUE,
                m |-> reset(c.obj, c.m, Last(c.ops)).m]

CursorStep ==
    /\ state.area = "cursor" /\ state.ok /\ state.settled
    /\ \E step \in {walk(state.c.obj, state.m, state.c.ops)} :
          state' = [state EXCEPT !.m = step.m, !.ok = step.ok, !.settled = state.c.obj.adv # "settle"]

CursorSettle ==
    /\ state.area = "cursor" /\ state.ok /\ ~state.settled
    /\ state' = [state EXCEPT !.m = settle(state.c.obj, state.m).m, !.settled = TRUE]

CursorReset ==
    /\ state.area = "cursor" /\ state.ok /\ state.settled
    /\ state' = [state EXCEPT !.m = reset(state.c.obj, state.m, Last(state.c.ops)).m]

\* Where the next step of a cursor reads: past the byte an advance still owes.
Owed(v) == \/ v.c.obj.adv = "pre"
           \/ v.c.obj.adv = "settle" /\ (~v.settled \/ (v.c.obj.run # <<>> /\ v.m[v.c.obj.run[1]] # 0))
Stands(v) == (Load(v.m, v.c.obj.pos) + Flag(Owed(v))) % Room(v.c.obj.pos)

-----------------------------------------------------------------------------
(* Counters, owners and accumulators. *)

Reactions(obj) == CASE obj.kind = "counter" -> {"reset", "up", "down"}
                    [] obj.kind = "owner"   -> {"claim", "release"}
                    [] obj.kind = "accum"   -> {"ramp", "to", "tri", "flip"}
Python(obj, reaction, m, x, y) ==
    CASE obj.kind = "counter" -> counter(obj, reaction, m, x, y)
      [] obj.kind = "owner"   -> owner(obj, reaction, m, x, y, x % 2)
      [] obj.kind = "accum"   -> accum(obj, reaction, m, x, y)
Native(obj, reaction, m, x, y) ==
    CASE obj.kind = "counter" -> native_counter(obj, CounterCode(obj, reaction), m, x, y)
      [] obj.kind = "owner"   -> native_owner(obj, reaction = "release", m, x, y, x % 2)
      [] obj.kind = "accum"   -> native_accum(obj, AccumCode(reaction), m, x, y)

ScalarInit == \E obj \in Scalars : state = [area |-> "scalar", obj |-> obj, m |-> [a \in Memory |-> 0]]
ScalarStep ==
    /\ state.area = "scalar"
    /\ \E reaction \in Reactions(state.obj), x, y \in 0..(Room(state.obj.cell) - 1) :
          state' = [state EXCEPT !.m = Python(state.obj, reaction, state.m, x, y).m]

-----------------------------------------------------------------------------
ObjectsInit == CursorInit \/ ScalarInit
ObjectsNext == CursorStep \/ CursorSettle \/ CursorReset \/ ScalarStep
ObjectsSpec == ObjectsInit /\ [][ObjectsNext]_state

\* A cursor stands at the first byte of a row, whatever rows, jumps, calls and
\* runs it went through and however it advances (objects.py, walk).
RowsOf == [c \in Cursors |-> Places(c)]
OnRow == state.area = "cursor" /\ state.ok => Stands(state) \in RowsOf[state.c]

\* Every step, reset and settle of an object does the same in the core as in
\* Python, from every state a sequence of steps leaves, the core giving up where
\* Python raises; and a cursor stands on a row (objects.py, objects.rs).
ObjectsAgree ==
    /\ OnRow
    /\ state.area = "cursor" =>
          LET obj == state.c.obj
              ops == state.c.ops
          IN  /\ \A py \in {walk(obj, state.m, ops)}, core \in {native_cursor(obj, 0, state.m, ops)} :
                    core.ok = py.ok /\ (py.ok => core = py)
              /\ native_cursor(obj, 1, state.m, ops) = reset(obj, state.m, Last(ops))
              /\ native_cursor(obj, 2, state.m, ops) = settle(obj, state.m)
    /\ state.area = "scalar" =>
          \A reaction \in Reactions(state.obj), x, y \in 0..(Room(state.obj.cell) - 1) :
             Python(state.obj, reaction, state.m, x, y) = Native(state.obj, reaction, state.m, x, y)
=============================================================================
