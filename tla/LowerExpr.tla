------------------------------ MODULE LowerExpr ------------------------------
(***************************************************************************)
(* The specification compiler (playspec/lower.py, lowerops.py,             *)
(* lowerarray.py, lowerview.py, lowerobj.py): a parsed specification, bound to a *)
(* layout, is checked and lowered to a program SpecProgram runs.           *)
(*                                                                         *)
(* A node of the syntax is a record named by its tag, its operands in a.   *)
(* A width is how many values it has: 1 for a static integer without one.  *)
(* A lowered expression is [e, bad, reads]: the expression, whether a      *)
(* diagnostic was recorded, and the latched cells it reads.  The record S  *)
(* of an elaboration is                                                    *)
(*   b        what is bound: layout, constants, cells, states, instances   *)
(*   uid      the last variable made        bad   whether it is refused    *)
(*   ran      the instances that have run   writers  <<cell, instance>>    *)
(*   procs    the bodies lowered            lowered  what each call made   *)
(*   latched  latched cells read            ret   where a return goes      *)
(*   inst, proc, stack   the instance, the proc and the procs open         *)
(***************************************************************************)
EXTENDS SpecProgram

Untyped == 1
Bool == 2
Word == Byte * Byte
Nibble == 16

Const(v, m) == [is |-> "K", v |-> v, m |-> m]
Var(n, m) == [is |-> "V", n |-> n, m |-> m]
Fixed(e) == e.is = "K"

Signed == {"slt", "sle"}        \* their node has the width of the operands
width(e) == IF e.is = "Rd" THEN Byte ELSE IF e.is = "Op" /\ e.op \in Signed THEN Bool ELSE e.m
Wider(m, n) == IF m > n THEN m ELSE n

\* An operator over constants; one over known operands folds (lowerops.mk).
evaluate(op, m, v) ==
    CASE op = "land" -> v[1] * v[2]
      [] op = "lor" -> Wider(v[1], v[2])
      [] op = "ite" -> IF v[1] # 0 THEN v[2] ELSE v[3]
      [] OTHER -> Apply(op, m, v)
mk(op, m, a) ==
    IF \A i \in DOMAIN a : Fixed(a[i])
    THEN Const(evaluate(op, m, [i \in DOMAIN a |-> a[i].v]), IF op \in Signed THEN Bool ELSE m)
    ELSE IF op \in {"land", "lor"} /\ \E i \in 1..2 : Fixed(a[i])
    THEN LET i == CHOOSE i \in 1..2 : Fixed(a[i])
         IN  IF (a[i].v # 0) = (op = "land") THEN a[3 - i] ELSE Const(Truth(op = "lor"), Bool)
    ELSE IF op = "lnot" /\ a[1].is = "Op" /\ a[1].op = "lnot" THEN a[1].a[1]
    ELSE Op(op, m, a)

-----------------------------------------------------------------------------
(* Lowered expressions. *)

Pure(e) == [e |-> e, bad |-> FALSE, reads |-> {}]
Over(xs, e) == [e |-> e, bad |-> \E i \in DOMAIN xs : xs[i].bad, reads |-> UNION {xs[i].reads : i \in DOMAIN xs}]
Refuse(xs, m) == [Over(xs, Const(0, m)) EXCEPT !.bad = TRUE]
build(op, m, xs) == Over(xs, mk(op, m, [i \in DOMAIN xs |-> xs[i].e]))
Require(p, x) == IF p THEN x ELSE [x EXCEPT !.bad = TRUE]
Exactly(v, m) == Pure(Const(v, m))
size(x) == width(x.e)

zext(x, m) ==
    IF size(x) = m THEN x
    ELSE IF size(x) = Untyped THEN [x EXCEPT !.e = Const(@.v % m, m)]
    ELSE build("zext", m, <<x>>)
word(lo, hi) == build("word", Word, <<lo, hi>>)
add16(base, index) == build("add", Word, <<base, zext(index, Word)>>)
After(x) == build("add", Word, <<x, Exactly(1, Word)>>)

\* x as a value of width m: widening is implicit, narrowing is refused.
coerce(x, m) ==
    IF size(x) = m THEN x
    ELSE IF size(x) = Untyped THEN
         IF m = Bool \/ x.e.v <= -m \/ x.e.v >= m THEN Refuse(<<x>>, m)
         ELSE [x EXCEPT !.e = Const(@.v % m, m)]
    ELSE IF Bool \in {size(x), m} \/ size(x) > m THEN Refuse(<<x>>, m)
    ELSE zext(x, m)
unify(x, y) ==
    LET m == Wider(size(x), size(y)) IN
    IF size(x) = size(y) THEN <<x, y>>
    ELSE IF Bool \in {size(x), size(y)} THEN <<Refuse(<<x>>, m), Refuse(<<y>>, m)>>
    ELSE <<coerce(x, m), coerce(y, m)>>
\* Two operands at one width, a byte unless they are typed integers.
Bytewise(x, y) ==
    LET u == unify(x, y) IN
    IF size(u[1]) \in {Untyped, Bool} THEN <<coerce(u[1], Byte), coerce(u[2], Byte)>> ELSE u

-----------------------------------------------------------------------------
(* Operators and builtin functions of operands already lowered. *)

Arith == [o \in {"+", "-", "*", "&", "|", "^"} |->
             CASE o = "+" -> "add" [] o = "-" -> "sub" [] o = "*" -> "mul"
               [] o = "&" -> "and" [] o = "|" -> "or" [] o = "^" -> "xor"]
Compares == [o \in {"==", "!=", "<", "<=", ">", ">="} |->
             CASE o = "==" -> "eq" [] o = "!=" -> "ne" [] o \in {"<", ">"} -> "ult" [] OTHER -> "ule"]

eval_static(o, v, w) ==
    CASE o = "+" -> v + w [] o = "-" -> v - w [] o = "*" -> v * w
      [] o = "&" -> v & w [] o = "|" -> v | w [] o = "^" -> v ^^ w
eval_compare(o, v, w) ==
    CASE o = "==" -> v = w [] o = "!=" -> v # w [] o = "<" -> v < w
      [] o = "<=" -> v <= w [] o = ">" -> v > w [] o = ">=" -> v >= w

arith(o, x, y) ==
    LET u == unify(x, y)
        m == size(u[1])
    IN  IF m = Untyped THEN Over(u, Const(eval_static(o, u[1].e.v, u[2].e.v), Untyped))
        ELSE Require(m # Bool, build(Arith[o], m, u))
compare(o, x, y) ==
    LET u == unify(x, y)
        m == size(u[1])
    IN  IF m = Untyped THEN Over(u, Const(Truth(eval_compare(o, u[1].e.v, u[2].e.v)), Bool))
        ELSE Require(m # Bool \/ o \in {"==", "!="},
                     build(Compares[o], Bool, IF o \in {">", ">="} THEN <<u[2], u[1]>> ELSE u))
shift(o, x, y) ==
    LET m == size(x) IN
    IF Bool \in {m, size(y)} \/ (m = Untyped /\ size(y) # Untyped) THEN Refuse(<<x, y>>, Wider(m, Byte))
    ELSE IF m = Untyped
    THEN Over(<<x, y>>, Const(IF o = "<<" THEN x.e.v * 2 ^ y.e.v ELSE x.e.v \div 2 ^ y.e.v, Untyped))
    ELSE build(IF o = "<<" THEN "shl" ELSE "shr", m,
               <<x, IF size(y) = Untyped THEN [y EXCEPT !.e.m = m] ELSE coerce(y, m)>>)
\* Nothing is known of a quotient by zero, which is no error.
divide(o, x, y) ==
    IF size(x) # Untyped \/ size(y) # Untyped THEN Refuse(<<x, y>>, Untyped)
    ELSE Over(<<x, y>>, Const(IF o = "/" THEN x.e.v \div y.e.v ELSE x.e.v % y.e.v, Untyped))
negate(o, x) ==
    IF size(x) = Untyped THEN Require(o # "~", [x EXCEPT !.e.v = -@])
    ELSE Require(size(x) # Bool, build(IF o = "~" THEN "not" ELSE "neg", size(x), <<x>>))

Test(x, v) == build("ne", Bool, <<build("and", size(x), <<x, Exactly(v, size(x))>>), Exactly(0, size(x))>>)
fn_neg(x) == IF size(x) \in {Untyped, Bool} THEN Refuse(<<x>>, Bool) ELSE Test(x, size(x) \div 2)
fn_bit(x, n) == IF size(n) # Untyped THEN Refuse(<<x, n>>, Bool) ELSE Test(coerce(x, Wider(size(x), Byte)), 2 ^ n.e.v)
fn_zp(x) == IF size(x) = Untyped THEN [x EXCEPT !.e.v = @ % Byte]
            ELSE build("and", size(x), <<x, coerce(Exactly(Byte - 1, Untyped), size(x))>>)
fn_ite(c, x, y) ==
    LET u == unify(x, y)
        w == IF size(u[1]) = Untyped THEN <<coerce(u[1], Byte), coerce(u[2], Byte)>> ELSE u
    IN  Require(size(c) = Bool, build("ite", size(w[1]), <<c>> \o w))
rotate(x, c, left) ==
    LET m == size(x)
        bit == build("zext", m, <<c>>)
        by(op, y, n) == build(op, m, <<y, Exactly(n, m)>>)
        top == IF m = Byte THEN 7 ELSE 15
    IN  IF m \in {Untyped, Bool} \/ size(c) # Bool THEN Refuse(<<x, c>>, Wider(m, Byte))
        ELSE build("or", m, IF left THEN <<by("shl", x, 1), bit>> ELSE <<by("shr", x, 1), by("shl", bit, top)>>)
fn_carry(x, y, c) ==
    LET u == Bytewise(x, y)
        m == size(u[1])
        total == build("add", m, u)
        full == build("eq", Bool, <<total, Exactly(m - 1, m)>>)
    IN  Require(size(c) = Bool,
                build("lor", Bool, <<build("ult", Bool, <<total, u[1]>>), build("land", Bool, <<c, full>>)>>))
fn_borrow(x, y, c) ==
    LET u == Bytewise(x, y) IN
    Require(size(c) = Bool,
            build("lor", Bool, <<build("ult", Bool, u), build("land", Bool, <<c, build("eq", Bool, u)>>)>>))
signed(op, x, y) == build(op, size(Bytewise(x, y)[1]), Bytewise(x, y))
rd(x) == Over(<<x>>, Rd(x.e))
fn_ind(zp, y) ==
    LET z == coerce(zp, Byte)
        hi == rd(zext(build("add", Byte, <<z, Exactly(1, Byte)>>), Word))
    IN  rd(add16(word(rd(zext(z, Word)), hi), coerce(y, Byte)))

Arity == [f \in {"lo", "hi", "u16", "u8", "neg", "sx", "zp"} |-> {1}]
         @@ [f \in {"word", "slt", "sle", "sgt", "sge", "bit", "ind", "rol", "ror", "owns"} |-> {2}]
         @@ [f \in {"ite"} |-> {3}] @@ [f \in {"carry", "borrow"} |-> {2, 3}]
builtin(f, x) ==
    LET no == Exactly(0, Bool)
        cin == IF Len(x) = 3 THEN x[3] ELSE no
    IN  CASE f \in {"lo", "hi"} -> build(f, Byte, <<coerce(x[1], Word)>>)
          [] f = "word" -> word(coerce(x[1], Byte), coerce(x[2], Byte))
          [] f = "u16" -> IF size(x[1]) = Bool THEN build("zext", Word, x) ELSE coerce(x[1], Word)
          [] f = "u8" -> IF size(x[1]) = Bool THEN build("zext", Byte, x) ELSE coerce(x[1], Byte)
          [] f = "neg" -> fn_neg(x[1])
          [] f = "sx" -> build("sext", Word, <<coerce(x[1], Byte)>>)
          [] f = "zp" -> fn_zp(x[1])
          [] f \in Signed -> signed(f, x[1], x[2])
          [] f = "sgt" -> signed("slt", x[2], x[1])
          [] f = "sge" -> signed("sle", x[2], x[1])
          [] f = "bit" -> fn_bit(x[1], x[2])
          [] f = "ind" -> fn_ind(x[1], x[2])
          [] f \in {"rol", "ror"} -> rotate(x[1], x[2], f = "rol")
          [] f = "owns" -> build("own", Bool, Bytewise(x[1], x[2]))
          [] f = "ite" -> fn_ite(x[1], x[2], x[3])
          [] f = "carry" -> fn_carry(x[1], x[2], cin)
          [] f = "borrow" -> fn_borrow(x[1], x[2], cin)

-----------------------------------------------------------------------------
(* Names, cells and arrays. *)

RECURSIVE expr(_, _, _)
Static(e, S, names) == expr(e, S, names).e.v
All(es, S, names) == [i \in DOMAIN es |-> expr(es[i], S, names)]

None == [is |-> "none"]
StaticName(v) == [is |-> "static", e |-> Const(v, Untyped)]
lookup(name, S, names) ==
    LET own == S.b.inst[S.inst]
        In(f) == name \in DOMAIN f
        cell(c) == [is |-> "cell", cell |-> c]
        static(e) == [is |-> "static", e |-> e]
    IN  CASE In(names) -> names[name]
          [] own.x # <<>> /\ own.index = name -> StaticName(own.x[1])
          [] In(own.signals) -> [is |-> "signal", inst |-> S.inst, name |-> name]
          [] In(own.states) -> own.states[name]
          [] In(own.cells) -> cell(own.cells[name])
          [] In(S.b.consts) -> static(S.b.consts[name])
          [] In(S.b.shared) -> cell(S.b.shared[name])
          [] In(S.b.states) -> S.b.states[name]
          [] OTHER -> None

\* L.name: a per_proc cell is placed by the field of the proc that names it, if there is one.
Field(name, S) == IF <<name, S.place>> \in DOMAIN S.b.layout THEN <<name, S.place>> ELSE <<name>>
layout(name, S) ==
    IF name \notin DOMAIN S.b.spec.layout \/ Field(name, S) \notin DOMAIN S.b.layout
       \/ S.b.spec.layout[name] = "list"
    THEN Refuse(<<>>, Untyped)
    ELSE Exactly(S.b.layout[Field(name, S)], IF S.b.spec.layout[name] = "flag" THEN Bool ELSE Untyped)
\* A static list, <<>> and refused where it is none.
list_value(e, S, names) ==
    CASE e.is = "irange" ->
           LET lo == Static(e.a[1], S, names) hi == Static(e.a[2], S, names)
           IN  [items |-> [i \in 1..(hi - lo) |-> lo + i - 1], bad |-> FALSE]
      [] e.is = "attr" /\ e.name = "L" /\ e.attr \in DOMAIN S.b.spec.layout
                       /\ S.b.spec.layout[e.attr] = "list" -> [items |-> S.b.layout[<<e.attr>>], bad |-> FALSE]
      [] OTHER -> [items |-> <<>>, bad |-> TRUE]

\* A latched cell is not read after another instance stored to it in the frame.
cell_key(cell) == <<cell.owner, cell.name>>
latched_alone(key, S) == \A w \in S.writers : w[1] # key
check_latched(key, S) == \A w \in S.writers : w[1] = key => w[2] = S.inst
in_proc(cell, S) == IF S.proc \in DOMAIN cell.variants THEN cell.variants[S.proc] ELSE cell.place
Indexable(x) == x = <<>> \/ size(x[1]) # Bool
index_expr(x) == IF size(x[1]) = Untyped THEN [x[1] EXCEPT !.e.m = Word] ELSE x[1]

\* The addresses of a cell's bytes, x its index or <<>>.
cell_access(cell, x, S) ==
    LET place == in_proc(cell, S)
        At(p) == Exactly(p % Word, Word)
        index == index_expr(x)
        double == build("shl", Word, <<zext(index, Word), Exactly(1, Word)>>)
        low == build("add", Word, <<At(place[1]), double>>)
    IN  IF (x = <<>>) # (cell.length = <<>>) THEN <<Refuse(x, Word)>>
        ELSE IF cell.typ = "u8" THEN <<IF x = <<>> THEN At(place[1]) ELSE add16(At(place[1]), index)>>
        ELSE IF Len(place) = 2 THEN [i \in 1..2 |-> IF x = <<>> THEN At(place[i]) ELSE add16(At(place[i]), index)]
        ELSE IF x = <<>> THEN <<At(place[1]), After(At(place[1]))>>
        ELSE <<low, After(low)>>

read_cell(cell, x, S) ==
    LET at == cell_access(cell, x, S)
        got == [i \in DOMAIN at |-> rd(at[i])]
        packed ==
            LET low == cell.pack[1]
                lo == build("and", Word, <<zext(got[1], Word), Exactly(2 ^ low - 1, Word)>>)
                hi == build("shl", Word, <<zext(got[2], Word), Exactly(low, Word)>>)
            IN  build("and", Word, <<build("or", Word, <<lo, hi>>), Exactly(2 ^ cell.pack[2] - 1, Word)>>)
        value == IF cell.pack # <<>> /\ Len(at) = 2 THEN packed
                 ELSE IF Len(at) = 2 THEN word(got[1], got[2]) ELSE got[1]
        seen == IF "latched" \in cell.attrs
                THEN [Require(check_latched(cell_key(cell), S), value) EXCEPT !.reads = @ \union {cell_key(cell)}] ELSE value
    IN  Require(Indexable(x), seen)

signal_read(ident, name, S) ==
    LET s == S.b.inst[ident].signals[name] IN
    Require(ident = S.inst \/ ident \in S.ran, Pure(Var(s.n, s.m)))

\* A constant index picks its item; another goes through lut or aget.
array_index(x, n) == IF size(x) = Untyped \/ n > Byte THEN zext(x, Word) ELSE x
array_read(arr, x) ==
    LET n == Len(arr.items)
        item(i) == IF arr.ro THEN Const(arr.items[i + 1], arr.m) ELSE Var(arr.items[i + 1], arr.m)
        at == array_index(x, n)
    IN  IF size(x) = Bool \/ (Fixed(x.e) /\ x.e.v \notin 0..(n - 1)) THEN Refuse(<<x>>, arr.m)
        ELSE IF Fixed(x.e) THEN Over(<<x>>, item(x.e.v))
        ELSE Over(<<at>>, IF arr.ro THEN [is |-> "Op", op |-> "lut", m |-> arr.m, items |-> arr.items, a |-> <<at.e>>]
                          ELSE [is |-> "Op", op |-> "aget", m |-> arr.m, slots |-> arr.items, a |-> <<at.e>>])
RoBytes(found) == found.is = "array" /\ found.ro /\ found.m = Byte
stream_read(stream, at) == IF stream.arr = <<>> THEN rd(at) ELSE array_read(stream.arr[1], at)

\* inst.attr, a signal, state or cell of an instance.
member(ident, attr, S) ==
    LET inst == S.b.inst[ident] IN
    CASE attr \in DOMAIN inst.signals -> signal_read(ident, attr, S)
      [] attr \in DOMAIN inst.states /\ inst.states[attr].is = "var" ->
           Pure(Var(inst.states[attr].n, inst.states[attr].m))
      [] attr \in DOMAIN inst.cells -> read_cell(inst.cells[attr], <<>>, S)
      [] OTHER -> Refuse(<<>>, Byte)
\* The instance a name (and a static index) names, <<>> after a diagnostic.
machine_instance(name, x, S) ==
    LET ident == IF x = <<>> THEN <<name>> ELSE <<name, x[1].e.v>> IN
    IF (x = <<>> \/ Fixed(x[1].e)) /\ ident \in DOMAIN S.b.inst THEN <<ident>> ELSE <<>>

name_value(name, S, names) ==
    LET found == lookup(name, S, names) IN
    CASE found.is = "var" -> Pure(Var(found.n, found.m))
      [] found.is = "static" -> Pure(found.e)
      [] found.is = "signal" -> signal_read(found.inst, name, S)
      [] found.is = "cell" -> read_cell(found.cell, <<>>, S)
      [] OTHER -> Refuse(<<>>, Byte)
index_value(name, x, S, names) ==
    LET found == lookup(name, S, names) IN
    CASE found.is = "stream" ->
           LET pos == build("add", Byte, <<Pure(Var(found.pos, Byte)), coerce(x, Byte)>>)
           IN  stream_read(found, add16(Pure(Var(found.base, Word)), pos))
      [] found.is = "cell" -> read_cell(found.cell, <<x>>, S)
      [] found.is = "array" -> array_read(found, x)
      [] OTHER -> Refuse(<<x>>, Byte)

-----------------------------------------------------------------------------
(* Nibbles, bit fields, views and tables. *)

num(v) == [is |-> "num", v |-> v]
named(name) == [is |-> "name", name |-> name]
made(x) == [is |-> "_v", x |-> x]
infix(o, l, r) == [is |-> o, a |-> <<l, r>>]

nibble_read(node, part) ==
    IF part = "hi" THEN infix(">>", node, num(4)) ELSE infix("&", node, num(Nibble - 1))
nibble_write(node, part, value) ==
    LET low == infix("&", value, num(Nibble - 1)) IN
    IF part = "hi" THEN infix("|", infix("&", node, num(Nibble - 1)), infix("<<", low, num(4)))
    ELSE infix("|", infix("&", node, num(Byte - Nibble)), low)
\* A u16 state, local or parameter has byte lanes; anything else has nibbles.
Lanes(node, S, names) ==
    node.is = "name" /\ lookup(node.name, S, names).is = "var" /\ size(expr(node, S, names)) = Word
nibble(node, part, S, names) ==
    LET x == expr(node, S, names) IN
    IF Lanes(node, S, names) THEN build(part, Byte, <<x>>)
    ELSE Require(size(x) \in {Untyped, Byte}, expr(nibble_read(node, part), S, names))

bit_cell(name, attr, S, names) ==
    LET found == lookup(name, S, names) IN
    IF found.is = "cell" /\ attr \in DOMAIN found.cell.bits THEN <<found.cell>> ELSE <<>>
CellWidth(cell) == IF cell.typ = "u8" THEN Byte ELSE Word
bit_span(cell, attr) == [low |-> cell.bits[attr][1], mask |-> 2 ^ (cell.bits[attr][2] - cell.bits[attr][1] + 1) - 1]
bit_value(cell, x, attr, S) ==
    LET m == CellWidth(cell)
        span == bit_span(cell, attr)
        moved == build("shr", m, <<read_cell(cell, x, S), Exactly(span.low, m)>>)
    IN  build("and", m, <<moved, Exactly(span.mask, m)>>)

\* The byte of a view's field, x the index of a view through a pointer table.
view_value(name, attr, x, S, names) ==
    LET view == S.b.spec.views[name]
        In16(e) == coerce(expr(e, S, names), Word)
        found == lookup(view.of, S, names)
        plus(start, e) == IF e = <<>> THEN start ELSE build("add", Word, <<start, In16(e[1])>>)
    IN  IF attr \notin DOMAIN view.fields \/ (view.is = "via") # (x # <<>>) THEN Refuse(x, Byte)
        ELSE CASE view.is = "in" ->
                    IF ~RoBytes(found) THEN Refuse(<<>>, Byte)
                    ELSE array_read(found, plus(In16(view.base[1]), <<view.fields[attr]>>))
               [] view.is = "via" ->
                    IF found.is # "cell" THEN Refuse(x, Byte)
                    ELSE IF found.cell.length = <<>> THEN Refuse(x, Byte)
                    ELSE rd(plus(plus(read_cell(found.cell, x, S), view.base), <<view.fields[attr]>>))
               [] OTHER -> rd(plus(In16(view.base[1]), <<view.fields[attr]>>))

\* The address (or array index) of a table's field, picks its indexes.
table_ref(name, picks, attr, S, names) ==
    LET t == S.b.spec.tables[name]
        where == S.b.tables[name][attr]
        found == IF t.via = <<>> THEN None ELSE lookup(t.via[1], S, names)
        within == t.within # <<>>
        state == found.is = "var" /\ found.m \in (IF within THEN {Byte, Word} ELSE {Word}) /\ found.n \in S.b.kept
        slots == found.is = "array" /\ within
        cell == found.is = "cell" /\ (within \/ found.cell.typ # "u8")
        wanted == IF slots \/ (cell /\ found.cell.length # <<>>) THEN 2 ELSE 1
        start == CASE t.base # <<>> -> coerce(expr(t.base[1], S, names), Word)
                   [] t.via = <<>> -> Exactly(0, Word)
                   [] state -> coerce(Pure(Var(found.n, found.m)), Word)
                   [] slots -> coerce(array_read(found, picks[1]), Word)
                   [] cell -> coerce(read_cell(found.cell, IF wanted = 2 THEN <<picks[1]>> ELSE <<>>, S), Word)
                   [] OTHER -> Refuse(<<>>, Word)
        moved == IF t.offset = <<>> THEN start
                 ELSE build("add", Word, <<start, coerce(expr(t.offset[1], S, names), Word)>>)
        row == Require(Indexable(<<Last(picks)>>), index_expr(<<Last(picks)>>))
        span == build("mul", Word, <<zext(row, Word), Exactly(Static(t.stride, S, names), Word)>>)
    IN  IF attr \notin DOMAIN S.b.tables[name] THEN Refuse(picks, Word)
        ELSE IF Len(picks) # wanted THEN Refuse(picks, Word)
        ELSE build("add", Word, <<build("add", Word, <<moved, span>>), Exactly(where.at, Word)>>)
Wide(name, attr, S) == attr \in DOMAIN S.b.tables[name] /\ S.b.tables[name][attr].m = Word
table_value(name, picks, attr, S, names) ==
    LET t == S.b.spec.tables[name]
        at == table_ref(name, picks, attr, S, names)
        found == IF t.within = <<>> THEN None ELSE lookup(t.within[1], S, names)
        read(x) == IF t.within = <<>> THEN rd(x) ELSE array_read(found, x)
    IN  IF t.within # <<>> /\ ~RoBytes(found) THEN Refuse(picks, Byte)
        ELSE IF Wide(name, attr, S) THEN word(read(at), read(After(at))) ELSE read(at)

-----------------------------------------------------------------------------
(* Objects in expressions.  A byte of a state is at an address of its own, *)
(* below those of the memory.                                              *)

Own(n, lane) == -(2 * n + lane)
loc_byte(a, S) ==
    LET state == CHOOSE v \in {S.b.controls[i] : i \in DOMAIN S.b.controls} : v.n = (-a) \div 2
        x == Pure(Var(state.n, state.m))
    IN  IF a >= 0 THEN rd(Exactly(a, Word))
        ELSE IF state.m = Byte THEN x ELSE build(IF a % 2 = 1 THEN "hi" ELSE "lo", Byte, <<x>>)

\* What a firing reaches: the shared objects and handlers, then the instance's.
visible_objects(S) ==
    S.b.inst[<<>>].objects \o (IF S.inst = <<>> THEN <<>> ELSE S.b.inst[S.inst].objects)
find_object(name, S) ==
    SelectSeq(visible_objects(S), LAMBDA o : o.is = "object" /\ o.name = name)
\* An operand; an owner's default id is the index of the instance reacting.
given(ast, S) ==
    LET own == S.b.inst[S.inst] IN
    IF ast # <<>> THEN ast[1] ELSE IF own.x # <<>> THEN named(own.index) ELSE made(Exactly(0, Byte))

owner_value(obj, attr, S, names) ==
    LET id == coerce(expr(given(obj.id, S), S, names), Byte)
        none == coerce(expr(obj.none, S, names), Byte)
        held == loc_byte(obj.step.cell[1], S)
    IN  CASE attr = "mine" -> [build("own", Bool, <<held, id>>) EXCEPT !.bad = @ \/ none.bad]
          [] attr = "free" -> [build("eq", Bool, <<held, none>>) EXCEPT !.bad = @ \/ id.bad]
          [] OTHER -> Refuse(<<>>, Bool)
\* The byte a cursor's next row has in a column, or whether no run is pending.
ColumnNames == <<"c0", "c1", "c2", "c3", "c4", "c5", "c6", "c7", "c8", "c9", "c10", "c11", "c12", "c13", "c14", "c15">>
cursor_value(obj, attr, S) ==
    LET column == IF attr = "ahead" THEN 1 ELSE SelectInSeq(ColumnNames, LAMBDA n : n = attr)
        start == coerce(expr(obj.bases[column], S, [n \in {} |-> 0]), Word)
        pos == build("add", Byte, <<loc_byte(obj.step.pos[1], S), Exactly(Truth(obj.step.adv # "post"), Byte)>>)
        at == add16(start, pos)
    IN  CASE attr = "idle" /\ obj.step.run = <<>> -> Exactly(1, Bool)
          [] attr = "idle" /\ obj.step.run # <<>> ->
               build("eq", Bool, <<loc_byte(obj.step.run[1], S), Exactly(0, Byte)>>)
          [] attr # "idle" /\ column \notin DOMAIN obj.bases -> Refuse(<<>>, Byte)
          [] attr # "idle" /\ column \in DOMAIN obj.bases ->
               IF obj.step.tabs[column] = <<>> THEN rd(at)
               ELSE Over(<<at>>, [is |-> "Op", op |-> "lut", m |-> Byte, items |-> obj.step.tabs[column], a |-> <<at.e>>])

\* left.attr: an entry register, a layout field, a stream's cursor, a field, an object or a member.
CpuVars == [a |-> 1, x |-> 2, y |-> 3, c |-> 4, z |-> 5, v |-> 6, n |-> 7, d |-> 8, i |-> 9]
CpuInputs == [r \in {"a", "x", "y"} |-> Byte] @@ [f \in {"c", "z", "v", "n", "d", "i"} |-> Bool]
attr_value(left, attr, S, names) ==
    LET stream == left \in DOMAIN names /\ names[left].is = "stream"
        bits == bit_cell(left, attr, S, names)
        ident == machine_instance(left, <<>>, S)
        object == find_object(left, S)
        kind == IF object = <<>> THEN "" ELSE Last(object).kind
    IN  CASE left = "cpu" -> IF attr \in DOMAIN CpuInputs THEN Pure(Var(S.b.inputs[attr], CpuInputs[attr]))
                             ELSE Refuse(<<>>, Byte)
          [] left = "L" -> layout(attr, S)
          [] stream -> IF attr = "base" THEN Pure(Var(names[left].base, Word))
                       ELSE Require(attr = "pos", Pure(Var(names[left].pos, Byte)))
          [] bits # <<>> -> bit_value(bits[1], <<>>, attr, S)
          [] left \in DOMAIN S.b.spec.views -> view_value(left, attr, <<>>, S, names)
          [] attr \in {"hi", "lo"} /\ lookup(left, S, names) # None -> nibble(named(left), attr, S, names)
          [] kind = "owner" -> owner_value(Last(object), attr, S, names)
          [] kind = "cursor" -> cursor_value(Last(object), attr, S)
          [] ident # <<>> -> member(ident[1], attr, S)
          [] OTHER -> Refuse(<<>>, Byte)
\* left[x].attr.
inst_attr(left, x, attr, S, names) ==
    LET bits == bit_cell(left, attr, S, names)
        ident == machine_instance(left, <<x>>, S)
    IN  CASE left \in DOMAIN S.b.spec.tables -> table_value(left, <<x>>, attr, S, names)
          [] left \in DOMAIN S.b.spec.views -> view_value(left, attr, <<x>>, S, names)
          [] bits # <<>> -> bit_value(bits[1], <<x>>, attr, S)
          [] ident # <<>> -> member(ident[1], attr, S)
          [] OTHER -> Refuse(<<x>>, Byte)

truth(e, S, names) ==
    LET x == expr(e, S, names) IN IF size(x) = Bool THEN x ELSE Refuse(<<x>>, Bool)
find_proc(name, S) ==
    LET own == S.b.inst[S.inst].procs IN
    IF name \in DOMAIN own THEN <<own[name]>>
    ELSE IF name \in DOMAIN S.b.spec.procs THEN <<S.b.spec.procs[name]>> ELSE <<>>
func(f, a, S, names) ==
    LET arr == IF a[1].is = "name" THEN lookup(a[1].name, S, names) ELSE None
        list == list_value(Last(a), S, names)
        key == expr(a[1], S, names)
        x == All(a, S, names)
    IN  CASE find_proc(f, S) # <<>> -> Refuse(<<>>, Byte)
          [] f = "len" /\ arr.is = "array" -> Exactly(Len(arr.items), Untyped)
          [] f = "len" -> Require(~list.bad, Exactly(Len(list.items), Untyped))
          [] f = "member" ->
               Require(~list.bad /\ Fixed(key.e), Exactly(Truth(key.e.v \in {list.items[i] : i \in DOMAIN list.items}), Bool))
          [] f \in DOMAIN Arity /\ Len(a) \in Arity[f] -> builtin(f, x)
          [] OTHER -> Refuse(<<>>, Byte)
list_item(e, S, names) ==
    LET list == list_value([e EXCEPT !.is = "attr"], S, names)
        i == Static(e.at, S, names)
    IN  IF list.bad \/ i \notin 0..(Len(list.items) - 1) THEN Refuse(<<>>, Untyped)
        ELSE Exactly(list.items[i + 1], Untyped)

expr(e, S, names) ==
    LET x == All(e.a, S, names) IN
    CASE e.is = "_v" -> e.x
      [] e.is = "num" -> Exactly(e.v, Untyped)
      [] e.is = "bool" -> Exactly(e.v, Bool)
      [] e.is = "name" -> name_value(e.name, S, names)
      [] e.is = "attr" -> attr_value(e.name, e.attr, S, names)
      [] e.is = "attr_index" -> list_item(e, S, names)
      [] e.is = "attr2" -> nibble([is |-> "attr", name |-> e.name, attr |-> e.attr], e.part, S, names)
      [] e.is = "index" -> index_value(e.name, expr(e.at, S, names), S, names)
      [] e.is = "row_attr" -> table_value(e.name, x, e.attr, S, names)
      [] e.is = "inst_attr" -> inst_attr(e.name, expr(e.at, S, names), e.attr, S, names)
      [] e.is = "mem" -> rd(coerce(x[1], Word))
      [] e.is = "mem16" -> word(rd(coerce(x[1], Word)), rd(After(coerce(x[1], Word))))
      [] e.is = "func" -> func(e.name, e.a, S, names)
      [] e.is \in {"&&", "||"} ->
           build(IF e.is = "&&" THEN "land" ELSE "lor", Bool, <<truth(e.a[1], S, names), truth(e.a[2], S, names)>>)
      [] e.is = "!" -> build("lnot", Bool, <<truth(e.a[1], S, names)>>)
      [] e.is \in {"~", "uminus"} -> negate(e.is, x[1])
      [] e.is \in {"<<", ">>"} -> shift(e.is, x[1], x[2])
      [] e.is \in {"/", "%"} -> divide(e.is, x[1], x[2])
      [] e.is \in DOMAIN Arith -> arith(e.is, x[1], x[2])
      [] e.is \in DOMAIN Compares -> compare(e.is, x[1], x[2])
=============================================================================
