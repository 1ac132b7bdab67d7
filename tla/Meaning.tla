------------------------------- MODULE Meaning -------------------------------
(***************************************************************************)
(* What docs/playspec.md promises of a specification, stated over its      *)
(* syntax: the reference the compiler's program is compared with.          *)
(*                                                                         *)
(* Nothing is lowered.  A name is looked up where it is used, a place is   *)
(* evaluated where a cell is accessed, a return ends its proc, a static    *)
(* for iterates.  A value is [v, m, bad]: m is how many values its width   *)
(* has, 1 for a static integer, and bad is "static" for what the documents *)
(* call an error of the specification, "raise" for a SpecRuntimeError.     *)
(*                                                                         *)
(* The record r of a run is                                                *)
(*   mem, log   memory, the stores in order                                *)
(*   kept       what each variable of the specification holds              *)
(*   slots      what locals and cursors hold, made in order                *)
(*   ran, wrote the instances that have run, <<cell, instance>> stored to  *)
(*   why        "" while it goes on, else finish, return, raise or static  *)
(*   value      what the last return gave                                  *)
(* The record c of a place in the text is the specification and its        *)
(* layout, the instance and the proc it is in, the names in scope there.   *)
(***************************************************************************)
EXTENDS SpecProgram

CONSTANTS Registers     \* how many bytes an output copies

Untyped == 1
Bool == 2
Word == Byte * Byte

Val(v, m) == [v |-> v, m |-> m, bad |-> ""]
Wrong(m) == [v |-> 0, m |-> m, bad |-> "static"]
Late(m) == [v |-> 0, m |-> m, bad |-> "raise"]
Worst(xs) == IF \E i \in DOMAIN xs : xs[i].bad = "static" THEN "static"
             ELSE IF \E i \in DOMAIN xs : xs[i].bad = "raise" THEN "raise" ELSE ""
\* y, which is computed from xs.
Given(xs, y) == IF Worst(xs) = "" THEN y ELSE [v |-> 0, m |-> xs[1].m, bad |-> Worst(xs)]
Truly(p) == Val(IF p THEN 1 ELSE 0, Bool)

\* Untyped literals take the other width, u8 widens to u16, narrowing is an error.
Fits(x, m) ==
    \/ x.m = m
    \/ x.m = Untyped /\ m # Bool /\ -m < x.v /\ x.v < m
    \/ x.m \notin {Untyped, Bool} /\ x.m < m
To(x, m) == IF x.m = m THEN x ELSE IF x.bad # "" THEN [x EXCEPT !.m = m] ELSE IF Fits(x, m) THEN Val(x.v % m, m) ELSE Wrong(m)
Common(x, y) == IF x.m > y.m THEN x.m ELSE y.m
Both(x, y) == LET m == Common(x, y) IN
              IF Bool \in {x.m, y.m} /\ x.m # y.m THEN <<Wrong(m), Wrong(m)>> ELSE <<To(x, m), To(y, m)>>
Typed(x, y) == LET m == Common(x, y) IN IF m \in {Untyped, Bool} THEN <<To(x, Byte), To(y, Byte)>> ELSE Both(x, y)

-----------------------------------------------------------------------------
(* Operators and builtin functions. *)

Wrap(v, m) == IF m = Untyped THEN v ELSE v % m
Times(v, w, m) ==
    IF m = Untyped THEN v * w ELSE (v * (w % Byte) + Byte * ((v * (w \div Byte)) % Byte)) % m
Arith(o, x, y) ==
    LET b == Both(x, y)
        m == Common(x, y)
        v == b[1].v
        w == b[2].v
    IN  IF m = Bool THEN Wrong(m)
        ELSE Given(b, Val(CASE o = "+" -> Wrap(v + w, m) [] o = "-" -> Wrap(v - w, m) [] o = "*" -> Times(v, w, m)
                            [] o = "&" -> v & w [] o = "|" -> v | w [] o = "^" -> v ^^ w, m))
Compare(o, x, y) ==
    LET b == Both(x, y)
        v == b[1].v
        w == b[2].v
    IN  IF Common(x, y) = Bool /\ o \notin {"==", "!="} THEN Wrong(Bool)
        ELSE Given(<<[b[1] EXCEPT !.m = Bool], b[2]>>,
                   Truly(CASE o = "==" -> v = w [] o = "!=" -> v # w [] o = "<" -> v < w
                           [] o = "<=" -> v <= w [] o = ">" -> v > w [] o = ">=" -> v >= w))
\* A shift has the width of what it shifts.
Shift(o, x, y) ==
    IF Bool \in {x.m, y.m} \/ (x.m = Untyped /\ y.m # Untyped) \/ (y.m # Untyped /\ ~Fits(y, x.m)) THEN Wrong(x.m)
    ELSE Given(<<x, y>>, IF o = "<<" THEN Val(Wrap(x.v * 2 ^ y.v, x.m), x.m) ELSE Val(x.v \div 2 ^ y.v, x.m))
Divide(o, x, y) ==
    IF x.m # Untyped \/ y.m # Untyped \/ y.v = 0 THEN Wrong(Untyped)
    ELSE Given(<<x, y>>, Val(IF o = "/" THEN x.v \div y.v ELSE x.v % y.v, Untyped))
Minus(x) == IF x.m = Bool THEN Wrong(x.m) ELSE Given(<<x>>, Val(Wrap(-x.v, x.m), x.m))
Complement(x) == IF x.m \in {Untyped, Bool} THEN Wrong(x.m) ELSE Given(<<x>>, Val(x.m - 1 - x.v, x.m))

Low(x) == Given(<<To(x, Word)>>, Val(To(x, Word).v % Byte, Byte))
High(x) == Given(<<To(x, Word)>>, Val(To(x, Word).v \div Byte, Byte))
Paired(lo, hi) == Given(<<To(lo, Byte), To(hi, Byte)>>, Val(To(lo, Byte).v + Byte * To(hi, Byte).v, Word))
Extended(x, m) == IF x.m = Bool THEN Given(<<x>>, Val(x.v, m)) ELSE To(x, m)
Negative(x) == IF x.m \in {Untyped, Bool} THEN Wrong(Bool) ELSE Given(<<x>>, Truly(2 * x.v >= x.m))
SignOf(x) == IF 2 * x.v >= x.m THEN x.v - x.m ELSE x.v
SignedLess(x, y, orEqual) ==
    LET b == Typed(x, y) IN
    Given(b, Truly(SignOf(b[1]) < SignOf(b[2]) \/ (orEqual /\ b[1].v = b[2].v)))
BitOf(x, n) == IF n.m # Untyped \/ x.m = Bool THEN Wrong(Bool)
               ELSE Given(<<x, n>>, Truly(((x.v % Word) \div 2 ^ n.v) % 2 = 1))
Rotated(x, c, left) ==
    IF x.m \in {Untyped, Bool} \/ c.m # Bool THEN Wrong(x.m)
    ELSE Given(<<x, c>>, Val(IF left THEN (2 * x.v + c.v) % x.m ELSE (x.v \div 2) + c.v * (x.m \div 2), x.m))
Carry(x, y, c) ==
    LET b == Typed(x, y) IN
    IF c.m # Bool THEN Wrong(Bool) ELSE Given(b \o <<c>>, Truly(b[1].v + b[2].v + c.v >= b[1].m))
Borrow(x, y, c) ==
    LET b == Typed(x, y) IN
    IF c.m # Bool THEN Wrong(Bool) ELSE Given(b \o <<c>>, Truly(b[1].v < b[2].v + c.v))
Either(c, x, y) ==
    LET b == IF Common(x, y) = Untyped THEN Typed(x, y) ELSE Both(x, y) IN
    IF c.m # Bool THEN Wrong(Common(x, y)) ELSE Given(<<b[1], b[2], c>>, IF c.v = 1 THEN b[1] ELSE b[2])
ZeroPage(x) == IF x.m = Bool THEN Wrong(Bool) ELSE Given(<<x>>, Val(x.v % Byte, x.m))

Builtins == {"lo", "hi", "word", "u16", "u8", "neg", "sx", "zp", "slt", "sle", "sgt", "sge", "bit", "rol", "ror",
             "owns", "ite", "carry", "borrow"}
Builtin(f, x) ==
    LET c == IF Len(x) = 3 THEN x[3] ELSE Val(0, Bool) IN
    CASE f = "lo" -> Low(x[1]) [] f = "hi" -> High(x[1]) [] f = "word" -> Paired(x[1], x[2])
      [] f = "u16" -> Extended(x[1], Word) [] f = "u8" -> Extended(x[1], Byte)
      [] f = "neg" -> Negative(x[1])
      [] f = "sx" -> Given(<<To(x[1], Byte)>>, Val(SignOf(To(x[1], Byte)) % Word, Word))
      [] f = "zp" -> ZeroPage(x[1])
      [] f \in {"slt", "sle"} -> SignedLess(x[1], x[2], f = "sle")
      [] f \in {"sgt", "sge"} -> SignedLess(x[2], x[1], f = "sge")
      [] f = "bit" -> BitOf(x[1], x[2])
      [] f \in {"rol", "ror"} -> Rotated(x[1], x[2], f = "rol")
      [] f = "owns" -> LET b == Typed(x[1], x[2]) IN Given(b, Truly(b[1].v = b[2].v))
      [] f = "ite" -> Either(x[1], x[2], x[3])
      [] f = "carry" -> Carry(x[1], x[2], c)
      [] f = "borrow" -> Borrow(x[1], x[2], c)

-----------------------------------------------------------------------------
(* Places: where the text is, what is in scope, what is declared there.    *)

In(c, name) == name \in DOMAIN c.names
Machine(c) == c.spec.machines[c.inst[1]]
Named(seq, name) == SelectSeq(seq, LAMBDA d : d.name = name)
\* An output is the cells of a register block.
OutputCells(spec) ==
    [i \in DOMAIN spec.outputs |->
        [name |-> spec.outputs[i].name, typ |-> "u8", place |-> <<spec.outputs[i].at>>, attrs |-> {"out"},
         size |-> <<[is |-> "num", v |-> Registers]>>, low |-> <<>>, bits |-> [f \in {} |-> 0], wide |-> 0]]
\* The fields of records are cells, one after the other where they are not placed.
FieldCell(f, place) ==
    [name |-> f.name, typ |-> f.typ, size |-> <<>>, place |-> <<place>>, low |-> <<>>, attrs |-> {},
     bits |-> [g \in {} |-> 0], wide |-> 0]
Added(l, r) == [is |-> "+", a |-> <<l, r>>]
RecordCells(records, index) ==
    LET Start_(d) == IF index = "" THEN d.base
                     ELSE Added(d.base, [is |-> "*", a |-> <<[is |-> "name", name |-> index], d.stride>>])
        Next_(w, f) == LET at == IF f.at = <<>> THEN w.at ELSE f.at[1].v IN
                       [w EXCEPT !.at = at + (IF f.typ = "u8" THEN 1 ELSE 2),
                                 !.cells = Append(@, FieldCell(f, Added(w.base, [is |-> "num", v |-> at])))]
        Of(d) == Through(Next_, [base |-> Start_(d), at |-> 0, cells |-> <<>>], d.fields).cells
    IN  FlattenSeq([i \in DOMAIN records |-> Of(records[i])])
MachineCells(m) == m.cells \o RecordCells(m.records, m.index)
\* The declarations a name can reach: the instance's, then the shared ones.
Declared(c, part, name) ==
    LET own == IF c.inst = <<>> \/ part \notin {"cells", "signals", "states", "controls"} THEN <<>>
               ELSE IF part = "cells" THEN Named(MachineCells(Machine(c)), name) ELSE Named(Machine(c)[part], name)
        shared == CASE part = "cells" -> Named(c.spec.cells \o OutputCells(c.spec) \o RecordCells(c.spec.records, ""), name)
                    [] part \in {"states", "consts"} -> Named(c.spec[part], name)
                    [] OTHER -> <<>>
    IN  IF own # <<>> THEN [home |-> c.inst, d |-> own]
        ELSE [home |-> <<>>, d |-> shared]
Has(c, part, name) == Declared(c, part, name).d # <<>>
\* The place of a declaration: its instance, no local names.
Inside(c, inst) == [c EXCEPT !.inst = inst, !.names = [n \in {} |-> 0]]
Indexed(c) == c.inst # <<>> /\ Len(c.inst) = 2

\* What the layout says of a field, for the proc a place is in.
LayoutField(c, f) ==
    LET key == IF <<f, c.place>> \in DOMAIN c.layout THEN <<f, c.place>> ELSE <<f>> IN
    IF f \notin DOMAIN c.spec.layout \/ key \notin DOMAIN c.layout THEN Wrong(Untyped)
    ELSE IF c.spec.layout[f] = "list" THEN Wrong(Untyped)
    ELSE IF c.spec.layout[f] = "flag" THEN Val(c.layout[key], Bool) ELSE Val(c.layout[key], Untyped)

Byte_(r, x) == IF x.bad # "" THEN [x EXCEPT !.m = Byte]
               ELSE IF x.v \notin DOMAIN r.mem THEN Late(Byte) ELSE Val(r.mem[x.v], Byte)
Off(x, k) == Given(<<x>>, Val((x.v + k) % Word, Word))
Plus(x, y) == Given(<<To(x, Word), To(y, Word)>>, Val((To(x, Word).v + To(y, Word).v) % Word, Word))

RECURSIVE Meant(_, _, _)

\* The items of an array as the run holds them: values where it is ro, else what is kept.
ItemCount(c, d) ==
    IF d.size # <<>> THEN Meant(d.size[1], c, [mem |-> <<>>]).v
    ELSE IF d.init.is = "alist" THEN Len(d.init.a) ELSE Len(c.layout[<<d.init.attr>>])
Initial(c, d, i) ==
    IF d.init.is = "alist" THEN Meant(d.init.a[i], c, [mem |-> <<>>]).v
    ELSE IF d.init.is = "attr" /\ d.init.name = "L" /\ c.spec.layout[d.init.attr] = "list" THEN c.layout[<<d.init.attr>>][i]
    ELSE Meant(d.init, c, [mem |-> <<>>]).v
Item(c, r, name, x) ==
    LET found == Declared(c, "states", name)
        d == found.d[1]
        n == ItemCount(Inside(c, found.home), d)
    IN  IF found.d = <<>> THEN Wrong(Byte)
        ELSE IF ~d.array \/ x.m = Bool THEN Wrong(d.m)
        ELSE IF x.bad # "" THEN [x EXCEPT !.m = d.m]
        ELSE IF x.v \notin 0..(n - 1) THEN (IF x.m = Untyped THEN Wrong(d.m) ELSE Late(d.m))
        ELSE IF d.ro THEN Val(Initial(Inside(c, found.home), d, x.v + 1), d.m)
        ELSE Val(r.kept[<<found.home, name, x.v>>], d.m)
RoItem(c, r, name, x) ==
    LET found == Declared(c, "states", name).d IN
    IF found = <<>> THEN Wrong(Byte)
    ELSE IF ~found[1].array \/ ~found[1].ro \/ found[1].m # Byte THEN Wrong(Byte) ELSE Item(c, r, name, x)

\* The addresses of the bytes of a cell, element x of an array.
Bytes(c, r, found, x) ==
    LET d == found.d[1]
        proc == IF "per_proc" \in d.attrs THEN c.proc ELSE ""
        there == [Inside(c, found.home) EXCEPT !.place = proc]
        at(i) == LET p == Meant(d.place[i], there, r) IN Val(p.v % Word, Word)
        k == IF x = <<>> THEN 0 ELSE x[1].v
    IN  IF d.typ = "u8" THEN <<Off(at(1), k)>>
        ELSE IF Len(d.place) = 2 THEN <<Off(at(1), k), Off(at(2), k)>>
        ELSE <<Off(at(1), 2 * k), Off(at(1), 2 * k + 1)>>
Shaped(d, x) == IF x = <<>> THEN d.size = <<>> ELSE d.size # <<>> /\ x[1].m # Bool
Split(d) == IF d.low = <<>> THEN 8 ELSE d.low[1].v
CellSize(d) == IF d.typ = "u8" THEN Byte ELSE Word
\* A latched cell is not read after another instance's store in the call.
Overwritten(r, c, found) == \E w \in r.wrote : w[1] = <<found.home, found.d[1].name>> /\ w[2] # c.who
ReadCell(c, r, found, x) ==
    LET d == found.d[1]
        at == Bytes(c, r, found, x)
        b == [i \in DOMAIN at |-> Byte_(r, at[i])]
        bad == Worst(b \o x)
    IN  IF ~Shaped(d, x) \/ ("latched" \in d.attrs /\ Overwritten(r, c, found)) THEN Wrong(CellSize(d))
        ELSE IF bad # "" THEN [Late(CellSize(d)) EXCEPT !.bad = bad]
        ELSE IF d.typ = "u8" THEN b[1]
        ELSE IF d.typ = "pack" THEN Val(((b[1].v % 2 ^ Split(d)) + b[2].v * 2 ^ Split(d)) % 2 ^ d.wide, Word)
        ELSE Val(b[1].v + Byte * b[2].v, Word)

Slot(r, n, m) == Val(r.slots[n], m)
StreamByte(c, r, stream, k) ==
    LET at == Plus(Slot(r, stream.base, Word), Val(k % Byte, Byte)) IN
    IF stream.within = <<>> THEN Byte_(r, at) ELSE RoItem(c, r, stream.within[1], at)

\* name, in the order the text can mean it.
Value(name, c, r) ==
    LET local == c.names[name]
        signal == Declared(c, "signals", name)
        state == Declared(c, "states", name)
    IN  CASE In(c, name) /\ local.is = "static" -> Val(local.v, Untyped)
          [] In(c, name) /\ local.is = "var" -> Slot(r, local.n, local.m)
          [] In(c, name) /\ local.is = "byte" -> Val(local.v, Byte)
          [] In(c, name) -> Wrong(Byte)
          [] Indexed(c) /\ Machine(c).index = name -> Val(c.inst[2], Untyped)
          [] signal.d # <<>> -> Val(r.kept[<<c.inst, name>>], signal.d[1].m)
          [] state.d # <<>> -> IF state.d[1].array THEN Wrong(state.d[1].m)
                               ELSE Val(r.kept[<<state.home, name>>], state.d[1].m)
          [] Has(c, "cells", name) -> ReadCell(c, r, Declared(c, "cells", name), <<>>)
          [] Has(c, "consts", name) -> Meant(Declared(c, "consts", name).d[1].e, Inside(c, <<>>), r)
          [] OTHER -> Wrong(Byte)
Element(name, x, c, r) ==
    CASE In(c, name) -> IF c.names[name].is # "stream" \/ ~Fits(x, Byte) THEN Wrong(Byte)
                        ELSE Given(<<x>>, StreamByte(c, r, c.names[name], Slot(r, c.names[name].pos, Byte).v + To(x, Byte).v))
      [] Has(c, "cells", name) -> ReadCell(c, r, Declared(c, "cells", name), <<x>>)
      [] Has(c, "states", name) -> Item(c, r, name, x)
      [] OTHER -> Wrong(Byte)

\* A signal of another instance is read after it has run.
Member(ident, attr, c, r) ==
    LET there == Inside(c, ident)
        signal == Named(c.spec.machines[ident[1]].signals, attr)
        state == Named(c.spec.machines[ident[1]].states, attr)
        cell == Named(MachineCells(c.spec.machines[ident[1]]), attr)
    IN  CASE signal # <<>> -> IF ident = c.who \/ ident \in r.ran THEN Val(r.kept[<<ident, attr>>], signal[1].m)
                              ELSE Wrong(signal[1].m)
          [] state # <<>> -> IF state[1].array THEN Wrong(state[1].m) ELSE Val(r.kept[<<ident, attr>>], state[1].m)
          [] cell # <<>> -> ReadCell(c, r, [home |-> ident, d |-> cell], <<>>)
          [] OTHER -> Wrong(Byte)
\* The instances of a machine of an index range lo..hi - 1.
Instances(c, name) ==
    LET m == c.spec.machines[name]
        at(e) == Meant(e, Inside(c, <<>>), [mem |-> <<>>]).v
    IN  IF m.index = "" THEN {<<name>>} ELSE {<<name, i>> : i \in at(m.lo)..(at(m.hi) - 1)}

BitRange(d, f) == [low |-> d.bits[f][1].v, size |-> 2 ^ (d.bits[f][2].v - d.bits[f][1].v + 1)]
HasBits(c, name, attr) ==
    /\ ~In(c, name) /\ Has(c, "cells", name)
    /\ attr \in DOMAIN Declared(c, "cells", name).d[1].bits
BitsValue(x, range) == Given(<<x>>, Val((x.v \div 2 ^ range.low) % range.size, x.m))
\* x.hi and x.lo: nibbles of a byte, bytes of a word the specification owns.
Lane(x, part, owned) ==
    IF x.bad # "" THEN x
    ELSE IF owned /\ x.m = Word THEN Val(IF part = "hi" THEN x.v \div Byte ELSE x.v % Byte, Byte)
    ELSE IF x.m \notin {Untyped, Byte} THEN Wrong(Byte)
    ELSE Val(IF part = "hi" THEN x.v \div 16 ELSE x.v % 16, x.m)
Owned(c, name) == IF In(c, name) THEN c.names[name].is = "var"
                  ELSE Has(c, "states", name) /\ ~Has(c, "signals", name)
Known(c, name) == \/ In(c, name) \/ (Indexed(c) /\ Machine(c).index = name)
                  \/ \E part \in {"signals", "states", "cells", "consts"} : Has(c, part, name)

\* A view: bytes at fixed offsets from an address, an array's index, a pointer.
ViewByte(name, attr, x, c, r) ==
    LET view == c.spec.views[name]
        base == Meant(view.base[1], c, r)
        off == Meant(view.fields[attr], c, r)
        from == IF Has(c, "cells", view.of) THEN ReadCell(c, r, Declared(c, "cells", view.of), x) ELSE Wrong(Word)
    IN  IF attr \notin DOMAIN view.fields \/ (x = <<>>) # (view.is # "via") THEN Wrong(Byte)
        ELSE CASE view.is = "at" -> Byte_(r, Plus(base, off))
               [] view.is = "in" -> RoItem(c, r, view.of, Plus(base, off))
               [] view.is = "via" -> Byte_(r, Plus(IF view.base = <<>> THEN from ELSE Plus(from, base), off))

\* t[p][i].f lies at start + i * stride + the offset of f; fields follow one another.
FieldAt(c, t, attr) ==
    LET Next(w, f) == IF w.done THEN w
                      ELSE [at |-> IF f.at = <<>> THEN w.end ELSE f.at[1], m |-> f.m, done |-> f.name = attr,
                            end |-> (IF f.at = <<>> THEN w.end ELSE f.at[1]) + (IF f.m = Byte THEN 1 ELSE 2)]
    IN  Through(Next, [at |-> 0, m |-> 0, done |-> FALSE, end |-> 0], t.fields)
RowStart(c, r, t, picks) ==
    LET name == t.via[1]
        array == IF Has(c, "states", name) THEN Declared(c, "states", name).d[1].array ELSE FALSE
        deep == array \/ (Has(c, "cells", name) /\ Declared(c, "cells", name).d[1].size # <<>>)
        start == CASE t.base # <<>> -> Meant(t.base[1], c, r)
                   [] t.via = <<>> -> Val(0, Word)
                   [] ~deep -> Value(name, c, r)
                   [] OTHER -> Element(name, picks[1], c, r)
        wide == t.within # <<>> \/ t.via = <<>> \/ (start.m = Word /\ ~array)
        count == IF t.via = <<>> THEN 1 ELSE IF deep THEN 2 ELSE 1
        at == IF t.offset = <<>> THEN start ELSE Plus(start, Meant(t.offset[1], c, r))
    IN  IF Len(picks) # count THEN Wrong(Word) ELSE IF ~wide THEN Wrong(Word) ELSE To(at, Word)
TableAt(name, picks, attr, c, r) ==
    LET t == c.spec.tables[name]
        f == FieldAt(c, t, attr)
        start == RowStart(c, r, t, picks)
        row == Last(picks)
        stride == Meant(t.stride, Inside(c, <<>>), r)
    IN  IF ~f.done \/ row.m = Bool THEN Wrong(Word)
        ELSE Given(<<start, row>>, Val((start.v + Times(row.v, stride.v, Word) + f.at) % Word, Word))
TableValue(name, picks, attr, c, r) ==
    LET t == c.spec.tables[name]
        at == TableAt(name, picks, attr, c, r)
        got(k) == IF t.within = <<>> THEN Byte_(r, Off(at, k)) ELSE RoItem(c, r, t.within[1], Off(at, k))
    IN  IF FieldAt(c, t, attr).m = Word THEN Paired(got(0), got(1)) ELSE got(0)

-----------------------------------------------------------------------------
(* Events and objects.  An object steps as SpecObjects steps it; here its   *)
(* clauses are read where it reacts.  The states it keeps are at addresses *)
(* of their own for the time of a step: below 0, two for each.             *)

All(c) == {<<>>} \union UNION {Instances(c, m) : m \in DOMAIN c.spec.machines}
Range_(seq) == {seq[i] : i \in DOMAIN seq}
Blank == [mem |-> <<>>]
Stop(r, why) == [r EXCEPT !.why = why]
Tree == [frame |-> "", tick |-> "frame", row |-> "tick", note |-> "row", legato |-> "row", instrument |-> "row"]
Events(c) == DOMAIN Tree \union {c.spec.events[i].name : i \in DOMAIN c.spec.events}
RECURSIVE Under(_, _, _)
Under(c, event, top) ==
    LET up == IF event \in DOMAIN Tree THEN Tree[event] ELSE Named(c.spec.events, event)[1].parent IN
    up # "" /\ (up = top \/ Under(c, up, top))
\* The objects and handlers a firing reaches: the shared ones, then its instance's.
Listeners(c) ==
    LET At(home, ds) == [i \in DOMAIN ds |-> [home |-> home, d |-> ds[i]]] IN
    At(<<>>, c.spec.objects) \o (IF c.inst = <<>> THEN <<>> ELSE At(c.inst, Machine(c).objects))
Scope(c, l) == [Inside(c, l.home) EXCEPT !.proc = l.d.name]
Firing(c, l) == [Inside(c, c.inst) EXCEPT !.proc = l.d.name]
Heard(d, event) == SelectSeq(d.on, LAMBDA on : \E i \in DOMAIN on.events : on.events[i] = event)

\* The names an object keeps bytes in.
Assigned(sets) == {sets[i].name : i \in DOMAIN sets}
RowNames(row) ==
    Assigned(row.then) \union (CASE row.act.is = "set" -> Assigned(row.act.sets)
                                 [] row.act.is = "sweep" -> {row.act.into.name}
                                 [] OTHER -> {})
Targets(d) == (Range_(d.values) \union UNION {RowNames(d.rows[i]) : i \in DOMAIN d.rows}) \ Range_(d.count)
Outs(d) == FlattenSeq([k \in DOMAIN d.fields |-> d.fields[k].outs])
CellNames(d) ==
    CASE d.is \in {"counter", "owner"} -> {d.cell}
      [] d.is = "accum" -> {d.cell} \union Range_(d.dir)
      [] d.is = "cursor" -> {d.pos} \union Targets(d) \union UNION {Range_(d.count), Range_(d.run), Range_(d.ret)}
      [] d.is = "stream" -> {d.pos} \union {Outs(d)[i].cell : i \in DOMAIN Outs(d)} \union {d.run[i].cell : i \in DOMAIN d.run}
Keys(c, d) ==
    SetToSeq({<<Declared(c, "states", n).home, n>> : n \in {n \in CellNames(d) : Has(c, "states", n)}})
\* The addresses of the bytes of a name.
Loc(c, keys, name) ==
    LET state == Declared(c, "states", name)
        k == SelectInSeq(keys, LAMBDA key : key = <<state.home, name>>)
        at == Bytes(c, Blank, Declared(c, "cells", name), <<>>)
    IN  IF state.d = <<>> THEN [i \in DOMAIN at |-> at[i].v]
        ELSE IF state.d[1].m = Byte THEN <<-(2 * k)>> ELSE <<-(2 * k), -(2 * k) - 1>>
Locs(c, keys, names) == IF names = <<>> THEN <<>> ELSE Loc(c, keys, names[1])
KeptBytes(r, keys) ==
    [a \in {-(2 * k) : k \in DOMAIN keys} \union {-(2 * k) - 1 : k \in DOMAIN keys} |->
        LET v == r.kept[keys[(-a) \div 2]] IN IF a % 2 = 0 THEN v % Byte ELSE v \div Byte]
Restored(r, keys, m) ==
    [r EXCEPT !.mem = [a \in DOMAIN r.mem |-> m[a]],
              !.kept = [k \in Range_(keys) |-> LET i == CHOOSE i \in DOMAIN keys : keys[i] = k
                                               IN  m[-(2 * i)] + Byte * m[-(2 * i) - 1]] @@ @]

\* What an expression over the bytes of a row gives for each byte, and what a test lets pass.
RECURSIVE Uses(_, _)
Uses(e, name) == IF e.is = "name" THEN e.name = name ELSE "a" \in DOMAIN e /\ \E i \in DOMAIN e.a : Uses(e.a[i], name)
ColumnNames == <<"c0", "c1", "c2", "c3", "c4", "c5", "c6", "c7", "c8", "c9", "c10", "c11", "c12", "c13", "c14", "c15">>
Column(e, columns) == SelectInSeq(columns, LAMBDA n : Uses(e, n))
OfByte(e, name, b, c) == Meant(e, [c EXCEPT !.names = (name :> [is |-> "byte", v |-> b]) @@ @], Blank)
RowValue(e, columns, c) ==
    LET col == Column(e, columns) IN
    [col |-> col, value |-> IF col = 0 THEN Meant(e, c, Blank).v ELSE 0,
     of |-> [b \in 0..(Byte - 1) |-> OfByte(e, columns[col], b, c).v]]
RowTest(e, columns, c) ==
    LET col == Column(e, columns) IN [col |-> col, in |-> {b \in 0..(Byte - 1) : OfByte(e, columns[col], b, c).v = 1}]
RECURSIVE Conjuncts(_)
Conjuncts(e) == IF e.is = "&&" THEN Conjuncts(e.a[1]) \o Conjuncts(e.a[2]) ELSE <<e>>
\* A false static if drops an arm or an item.
Live(seq, c) == SelectSeq(seq, LAMBDA x : x.cond = <<>> \/ Meant(x.cond[1], c, Blank).v # 0)

\* The arms of a cursor, targets in the order of its cells.
Arm(row, width, targets, columns, c) ==
    LET act == row.act
        num(e) == Meant(e, c, Blank).v
        of(e) == RowValue(e, columns, c)
        Index(name) == SelectInSeq(targets, LAMBDA n : n = name)
        Part(name) == CASE name = "lo" -> 1 [] name = "hi" -> 2 [] OTHER -> 0
        Item_(s) == [index |-> Index(s.name), part |-> Part(s.part), spec |-> of(s.e),
                     guard |-> [i \in DOMAIN s.when |-> RowTest(s.when[i], columns, c)]]
        Items_(sets) == LET live == Live(sets, c) IN [i \in DOMAIN live |-> Item_(live[i])]
        then == Items_(row.then)
        take == IF act.take = <<>> THEN width ELSE num(act.take[1])
        frac == IF act.frac = <<>> THEN 0 ELSE num(act.frac[1])
        lane == IF act.into.is = "attr" THEN Part(act.into.attr) ELSE 0
        tests == IF row.when = <<>> THEN <<>> ELSE Conjuncts(row.when[1])
    IN  [from |-> num(row.lo), to |-> num((<<row.lo>> \o row.hi)[1 + Len(row.hi)]), kind |-> act.is,
         tests |-> [i \in DOMAIN tests |-> RowTest(tests[i], columns, c)]] @@
        CASE act.is = "set" -> [sets |-> Items_(act.sets), take |-> take, then |-> then]
          [] act.is = "sweep" -> [into |-> Index(act.into.name), count |-> of(act.count), step |-> of(act.step),
                                  frac |-> IF frac = 0 THEN 0 ELSE 2 ^ frac,
                                  part |-> IF frac # 0 THEN 0 ELSE lane, then |-> then]
          [] act.is = "delay" -> [count |-> of(act.count), then |-> then]
          [] act.is = "end" -> [take |-> take, then |-> then]
          [] act.is = "jump" -> [to_ |-> of(act.to_), via |-> [i \in DOMAIN act.via |-> num(act.via[i])],
                                 hold |-> IF act.hold = <<>> THEN {} ELSE num(act.hold[1])..num(act.hold[2])]
          [] act.is = "call" -> [to_ |-> of(act.to_)]
          [] act.is = "run" -> [base |-> num(act.base), sets |-> then]
          [] act.is \in {"return", "stop"} -> [kind |-> act.is]

\* The columns of a cursor: interleaved rows (one base or array) or one each.
Width(d, c) == IF d.width = <<>> THEN 1 ELSE Meant(d.width[1], c, Blank).v
Single(d) == Len(d.bases) + Len(d.arrays) = 1
ColumnCount(d, c) == IF Single(d) THEN Width(d, c) ELSE Len(d.bases) + Len(d.arrays)
Bases(d, c, r) ==
    [j \in 1..ColumnCount(d, c) |->
        IF d.arrays # <<>> THEN Off(IF d.origin = <<>> THEN Val(0, Word) ELSE To(Meant(d.origin[1], c, r), Word),
                                    IF Single(d) THEN j - 1 ELSE 0)
        ELSE IF Single(d) THEN Off(To(Meant(d.bases[1], c, r), Word), j - 1) ELSE To(Meant(d.bases[j], c, r), Word)]
ArrayItems(name, c) ==
    LET found == Declared(c, "states", name)
        there == Inside(c, found.home)
    IN  [i \in 1..ItemCount(there, found.d[1]) |-> Initial(there, found.d[1], i)]
Advance(d) == LET settles == \E i \in DOMAIN d.on : d.on[i].action = "settle" IN
              IF d.is = "stream" THEN IF d.last THEN "settle" ELSE "post"
              ELSE IF d.adv # "pre" THEN "post" ELSE IF settles THEN "settle" ELSE "pre"

\* Fields are there while the test of the next one holds of the byte before it.
Fields(d, cols, c) ==
    LET Follows(k) == OfByte(d.fields[k].when[1], d.fields[k - 1].name, cols[k - 1], c).v = 1
        n == {n \in DOMAIN d.fields : \A k \in 2..n : d.fields[k].when = <<>> \/ Follows(k)}
    IN  CHOOSE k \in n : \A j \in n : j <= k
\* The assignments of field k, its byte b.
FieldSets(d, k, b, m, loc(_), c) ==
    LET f == d.fields[k]
        One(mem, out) == IF out.when # <<>> /\ OfByte(out.when[1], f.name, b, c).v = 0 THEN mem
                         ELSE Store(mem, loc(out.cell), OfByte(out.e, f.name, b, c).v)
    IN  Through(One, m, f.outs)
\* A step of a stream: a pending run counts down, else the fields of a row are read.
StreamStep(d, obj, m, ops, loc(_), c) ==
    LET run == IF d.run = <<>> THEN <<>> ELSE [i \in 1..3 |-> Meant(d.run[1].range[i], c, Blank).v]
        at == Load(m, obj.pos)
        cols == [j \in DOMAIN d.fields |-> fetch(obj, m, j, ops[j].v + at)]
        empty == run # <<>> /\ run[1] <= cols[1] /\ cols[1] <= run[2]
        n == IF empty THEN 1 ELSE Fields(d, cols, c)
        read == IF empty THEN FieldSets(d, 1, 0, Put(m, obj.run[1], (cols[1] - run[3]) % Byte), loc, c)
                ELSE Through(LAMBDA mem, k : FieldSets(d, k, cols[k], mem, loc, c), m, [k \in 1..n |-> k])
        pending == IF obj.run = <<>> THEN 0 ELSE m[obj.run[1]]
    IN  IF pending # 0 THEN Stepped(FieldSets(d, 1, 0, Put(m, obj.run[1], pending - 1), loc, c), 0)
        ELSE IF \E j \in DOMAIN d.fields : Past(obj, j, ops[j].v + at) THEN Raised(m)
        ELSE Stepped(Store(read, obj.pos, (at + n - Flag(d.last)) % Byte), 0)

\* The object a declaration stands for, loc its cells.
Made(d, scope, keys) ==
    LET loc(name) == Loc(scope, keys, name)
        some(names) == Locs(scope, keys, names)
        targets == SetToSeq(Targets(d))
        columns == SubSeq(ColumnNames, 1, ColumnCount(d, scope))
        live == Live(d.rows, scope)
    IN  CASE d.is \in {"counter", "owner"} -> [cell |-> loc(d.cell), gated |-> d.is = "counter" /\ d.gate # <<>>]
          [] d.is = "accum" -> [cell |-> loc(d.cell), dir |-> some(d.dir)]
          [] d.is = "cursor" ->
               [pos |-> loc(d.pos), cnt |-> some(d.count), run |-> some(d.run), ret |-> some(d.ret),
                values |-> [i \in DOMAIN targets |-> loc(targets[i])], adv |-> Advance(d), width |-> Width(d, scope),
                tabs |-> [j \in DOMAIN columns |-> IF d.arrays = <<>> THEN <<>>
                                                   ELSE ArrayItems(d.arrays[IF Single(d) THEN 1 ELSE j], scope)],
                rows |-> [i \in DOMAIN live |-> Arm(live[i], Width(d, scope), targets \o d.count, columns, scope)]]
          [] d.is = "stream" ->
               [pos |-> loc(d.pos), cnt |-> <<>>, run |-> some([i \in DOMAIN d.run |-> d.run[i].cell]), adv |-> Advance(d),
                tabs |-> [j \in DOMAIN d.fields |-> IF d.within = <<>> THEN <<>> ELSE ArrayItems(d.within[1], scope)]]

\* What a reaction takes: an operand of each width.
Widths(d, obj) ==
    LET m == IF Len(obj.cell) = 1 THEN Byte ELSE Word IN
    CASE d.is = "counter" -> <<IF obj.gated THEN Bool ELSE m, m>>
      [] d.is = "accum" -> <<m, m>>
      [] d.is = "owner" -> <<Byte, Byte, Bool>>
      [] OTHER -> [j \in DOMAIN obj.tabs |-> Word] \o <<IF Len(obj.pos) = 1 THEN Byte ELSE Word>>
Identity(d, c, r) == IF d.id # <<>> THEN Meant(d.id[1], c, r) ELSE IF Indexed(c) THEN Val(c.inst[2], Untyped) ELSE Val(0, Byte)
Nobody(d, c, r) == IF d.none = <<>> THEN Val(Byte - 1, Byte) ELSE Meant(d.none[1], c, r)
\* The operands the clauses state, read in the instance that fires.
Stated(d, on, obj, c, r) ==
    LET Either_(e, x) == IF e = <<>> THEN x ELSE Meant(e[1], c, r)
        m == Widths(d, obj)[2]
    IN  CASE d.is = "counter" -> <<IF obj.gated THEN Meant(d.gate[1], c, r) ELSE Either_(d.limit, Val(m - 1, m)), Either_(d.reload, Val(0, m))>>
          [] d.is = "accum" -> <<Either_(d.step, Val(1, m)), Either_(on.target, Val(0, m))>>
          [] d.is = "owner" -> <<Identity(d, c, r), Nobody(d, c, r), Either_(on.when, Val(1, Bool))>>
          [] d.is = "cursor" -> Bases(d, c, r) \o <<Either_(d.start, Val(0, Byte))>>
          [] d.is = "stream" -> [j \in DOMAIN d.fields |-> Off(To(Meant(d.base, c, r), Word), j - 1)] \o <<Val(0, Byte)>>
\* A reaction: [r, flag].
Reaction(l, on, given, c, r) ==
    LET d == l.d
        scope == Scope(c, l)
        keys == Keys(scope, d)
        obj == Made(d, scope, keys)
        widths == Widths(d, obj)
        x == IF given # <<>> THEN given[1] ELSE Stated(d, on, obj, Firing(c, l), r)
        ops == [i \in DOMAIN widths |-> To(x[i], widths[i])]
        v == [i \in DOMAIN ops |-> ops[i].v]
        m == KeptBytes(r, keys) @@ r.mem
        delta == Meant(on.amount, scope, Blank).v
        loc(name) == Loc(scope, keys, name)
        step == CASE d.is = "counter" ->
                       counter([cell |-> obj.cell, delta |-> IF on.op = "reset" THEN 0 ELSE delta, gated |-> obj.gated],
                               CASE on.op = "+=" -> "up" [] on.op = "-=" -> "down" [] OTHER -> "reset", m, v[1], v[2])
                  [] d.is = "accum" -> accum(obj, on.mode, m, v[1], v[2])
                  [] d.is = "owner" -> owner(obj, on.action, m, v[1], v[2], v[3])
                  [] on.action = "reset" -> reset(obj, m, Last(v))
                  [] on.action = "settle" -> settle(obj, m)
                  [] d.is = "cursor" -> walk(obj, m, v)
                  [] d.is = "stream" -> StreamStep(d, obj, m, ops, loc, scope)
        next == Restored(r, keys, step.m)
    IN  IF Len(x) # Len(widths) THEN [r |-> Stop(r, "static"), flag |-> 0]
        ELSE IF Worst(ops) # "" THEN [r |-> Stop(r, Worst(ops)), flag |-> 0]
        ELSE [r |-> IF step.ok THEN next ELSE Stop(next, "raise"), flag |-> step.flag]

\* name.attr of an object: a cursor's next row, what an owner's cell holds.
ObjectValue(l, attr, c, r) ==
    LET d == l.d
        scope == Scope(c, l)
        keys == Keys(scope, d)
        obj == Made(d, scope, keys)
        m == KeptBytes(r, keys) @@ r.mem
        id == To(Identity(d, c, r), Byte)
        none == To(Nobody(d, c, r), Byte)
        column == IF attr = "ahead" THEN 1 ELSE SelectInSeq(ColumnNames, LAMBDA n : n = attr)
        ops == Stated(d, d.on[1], obj, c, r)
        at == Off(To(ops[column], Word), (Load(m, obj.pos) + Flag(obj.adv # "post")) % Byte)
        row == obj.tabs[column]
    IN  CASE d.is = "owner" ->
               Given(<<[id EXCEPT !.m = Bool], none>>,
                     CASE attr = "mine" -> Truly(m[obj.cell[1]] = id.v) [] attr = "free" -> Truly(m[obj.cell[1]] = none.v)
                       [] OTHER -> Wrong(Bool))
          [] d.is \in {"cursor", "stream"} ->
               IF attr = "idle" THEN Truly(obj.run = <<>> \/ m[obj.run[1]] = 0)
               ELSE IF column \notin DOMAIN obj.tabs THEN Wrong(Byte)
               ELSE IF row = <<>> THEN Byte_(r, at)
               ELSE IF at.bad # "" THEN [at EXCEPT !.m = Byte]
               ELSE IF at.v >= Len(row) THEN Late(Byte) ELSE Val(row[at.v + 1], Byte)
          [] OTHER -> Wrong(Byte)

-----------------------------------------------------------------------------
(* The values of expressions. *)

AttrValue(left, attr, c, r) ==
    LET cell == Declared(c, "cells", left)
        object == SelectSeq(Listeners(c), LAMBDA l : l.d.name = left /\ l.d.is # "handler")
    IN
    CASE left = "L" -> LayoutField(c, attr)
      [] left = "cpu" -> IF attr \in DOMAIN r.entry THEN r.entry[attr] ELSE Wrong(Byte)
      [] In(c, left) /\ c.names[left].is = "stream" ->
           IF attr = "pos" THEN Slot(r, c.names[left].pos, Byte)
           ELSE IF attr = "base" THEN Slot(r, c.names[left].base, Word) ELSE Wrong(Byte)
      [] HasBits(c, left, attr) -> BitsValue(ReadCell(c, r, cell, <<>>), BitRange(cell.d[1], attr))
      [] left \in DOMAIN c.spec.views -> ViewByte(left, attr, <<>>, c, r)
      [] attr \in {"hi", "lo"} /\ Known(c, left) -> Lane(Value(left, c, r), attr, Owned(c, left))
      [] object # <<>> -> ObjectValue(object[1], attr, c, r)
      [] left \in DOMAIN c.spec.machines -> IF <<left>> \in Instances(c, left) THEN Member(<<left>>, attr, c, r) ELSE Wrong(Byte)
      [] OTHER -> Wrong(Byte)
RowAttr(left, x, attr, c, r) ==
    LET cell == Declared(c, "cells", left) IN
    CASE left \in DOMAIN c.spec.tables -> TableValue(left, <<x>>, attr, c, r)
      [] left \in DOMAIN c.spec.views -> ViewByte(left, attr, <<x>>, c, r)
      [] HasBits(c, left, attr) -> BitsValue(ReadCell(c, r, cell, <<x>>), BitRange(cell.d[1], attr))
      [] left \in DOMAIN c.spec.machines ->
           IF x.m = Untyped /\ <<left, x.v>> \in Instances(c, left) THEN Member(<<left, x.v>>, attr, c, r) ELSE Wrong(Byte)
      [] OTHER -> Wrong(Byte)

\* The values of a static list, none where it is no list.
Listed(e, c, r) ==
    CASE e.is = "irange" -> LET lo == Meant(e.a[1], c, r).v IN
                            << [i \in 1..(Meant(e.a[2], c, r).v - lo) |-> lo + i - 1] >>
      [] e.is \in {"attr", "attr_index"} ->
           IF e.name = "L" /\ e.attr \in DOMAIN c.spec.layout /\ <<e.attr>> \in DOMAIN c.layout THEN
                IF c.spec.layout[e.attr] = "list" THEN << c.layout[<<e.attr>>] >> ELSE <<>>
           ELSE <<>>
      [] OTHER -> <<>>
ProcOf(name, c) ==
    IF c.inst # <<>> /\ name \in DOMAIN Machine(c).procs THEN << [home |-> c.inst, p |-> Machine(c).procs[name]] >>
    ELSE IF name \in DOMAIN c.spec.procs THEN << [home |-> <<>>, p |-> c.spec.procs[name]] >> ELSE <<>>

Meant(e, c, r) ==
    LET x == [i \in DOMAIN e.a |-> Meant(e.a[i], c, r)]
        list == Listed(e, c, r)
        at == Meant(e.at, c, r)
        arg == Listed(Last(e.a), c, r)
        array == IF e.a[1].is = "name" THEN Declared(c, "states", e.a[1].name) ELSE [home |-> <<>>, d |-> <<>>]
    IN  CASE e.is = "num" -> Val(e.v, Untyped)
          [] e.is = "bool" -> Val(e.v, Bool)
          [] e.is = "name" -> Value(e.name, c, r)
          [] e.is = "attr" -> AttrValue(e.name, e.attr, c, r)
          [] e.is = "attr_index" ->
               IF list = <<>> \/ at.m # Untyped THEN Wrong(Untyped)
               ELSE IF at.v \notin 0..(Len(list[1]) - 1) THEN Wrong(Untyped) ELSE Val(list[1][at.v + 1], Untyped)
          [] e.is = "attr2" -> Lane(AttrValue(e.name, e.attr, c, r), e.part, FALSE)
          [] e.is = "index" -> Element(e.name, at, c, r)
          [] e.is = "row_attr" -> TableValue(e.name, x, e.attr, c, r)
          [] e.is = "inst_attr" -> RowAttr(e.name, at, e.attr, c, r)
          [] e.is = "mem" -> Byte_(r, To(x[1], Word))
          [] e.is = "mem16" -> Paired(Byte_(r, To(x[1], Word)), Byte_(r, Off(To(x[1], Word), 1)))
          [] e.is = "func" ->
               CASE ProcOf(e.name, c) # <<>> -> Wrong(Byte)
                 [] e.name = "ind" ->
                      LET z == To(x[1], Byte)
                          p == Paired(Byte_(r, z), Byte_(r, Given(<<z>>, Val((z.v + 1) % Byte, Byte))))
                      IN  Byte_(r, Plus(p, To(x[2], Byte)))
                 [] e.name = "len" -> IF array.d # <<>> THEN Val(ItemCount(Inside(c, array.home), array.d[1]), Untyped)
                                      ELSE IF arg = <<>> THEN Wrong(Untyped) ELSE Val(Len(arg[1]), Untyped)
                 [] e.name = "member" -> IF arg = <<>> THEN Wrong(Bool)
                                         ELSE Given(<<x[1]>>, Truly(\E i \in DOMAIN arg[1] : arg[1][i] = x[1].v))
                 [] e.name \in Builtins -> Builtin(e.name, x)
                 [] OTHER -> Wrong(Byte)
          [] e.is \in {"&&", "||"} ->
               IF x[1].m # Bool THEN Wrong(Bool)
               ELSE IF x[1].bad # "" THEN x[1]
               ELSE IF (x[1].v = 1) = (e.is = "||") THEN x[1]
               ELSE IF x[2].m # Bool THEN Wrong(Bool) ELSE x[2]
          [] e.is = "!" -> IF x[1].m # Bool THEN Wrong(Bool) ELSE Given(x, Val(1 - x[1].v, Bool))
          [] e.is = "~" -> Complement(x[1])
          [] e.is = "uminus" -> Minus(x[1])
          [] e.is \in {"<<", ">>"} -> Shift(e.is, x[1], x[2])
          [] e.is \in {"/", "%"} -> Divide(e.is, x[1], x[2])
          [] e.is \in {"+", "-", "*", "&", "|", "^"} -> Arith(e.is, x[1], x[2])
          [] e.is \in {"==", "!=", "<", "<=", ">", ">="} -> Compare(e.is, x[1], x[2])

-----------------------------------------------------------------------------
(* What a declaration of an object has to be. *)

Settled(e, c) == Meant(e, c, Blank).bad = ""
\* A u8 or u16 cell or state of at most a width.
Scalar(name, m, c) ==
    LET state == Declared(c, "states", name).d
        cell == Declared(c, "cells", name).d
    IN  /\ ~Has(c, "signals", name)
        /\ IF state # <<>> THEN ~state[1].array /\ state[1].m \in {Byte, Word} /\ state[1].m <= m
           ELSE IF cell = <<>> THEN FALSE
           ELSE cell[1].size = <<>> /\ cell[1].typ \in {"u8", "u16"} /\ "ro" \notin cell[1].attrs /\ CellSize(cell[1]) <= m
Wide(name, c) == ~Scalar(name, Byte, c)
Rows(name, c) == LET d == Declared(c, "states", name).d IN IF d = <<>> THEN FALSE ELSE d[1].array /\ d[1].ro /\ d[1].m = Byte
\* c0, c0 & k and one shift of them.
RECURSIVE Form(_, _, _)
Form(e, columns, c) ==
    IF Column(e, columns) = 0 THEN Settled(e, c)
    ELSE IF e.is = "name" THEN TRUE
    ELSE IF e.is = "&" THEN \E i \in {1, 2} : Column(e.a[3 - i], columns) = 0 /\ Settled(e.a[3 - i], c) /\ e.a[i].is \in {"name", "&"}
                                              /\ Form(e.a[i], columns, c)
    ELSE e.is \in {"<<", ">>"} /\ e.a[1].is \in {"name", "&"} /\ Form(e.a[1], columns, c) /\ Settled(e.a[2], c)
RECURSIVE TestForm(_, _, _)
\* c1 == k, (c1 & k) == v, neg(c1), bit(c1, n) and what they deny.
TestForm(e, column, c) ==
    CASE e.is = "!" -> TestForm(e.a[1], column, c)
      [] e.is = "func" -> e.name \in {"neg", "bit"} /\ e.a[1].is = "name" /\ e.a[1].name = column /\ \A i \in 2..Len(e.a) : Settled(e.a[i], c)
      [] e.is \in {"==", "!="} ->
           LET left == IF e.a[1].is = "&" THEN e.a[1].a[1] ELSE e.a[1]
           IN  left.is = "name" /\ left.name = column /\ Settled(e.a[2], c) /\ (e.a[1].is = "&" => Settled(e.a[1].a[2], c))
      [] OTHER -> FALSE
TestOf(e, columns, c) == Column(e, columns) # 0 /\ TestForm(e, columns[Column(e, columns)], c)
ItemsOK(sets, columns, c) ==
    \A s \in Range_(Live(sets, c)) : /\ Form(s.e, columns, c)
                                     /\ \A i \in DOMAIN s.when : TestOf(s.when[i], columns, c)
                                     /\ s.part = "hi" => Wide(s.name, c)
ArmOK(d, row, columns, c) ==
    LET act == row.act
        frac == act.frac # <<>> /\ Meant(act.frac[1], c, Blank).v # 0
    IN  /\ Settled(row.lo, c) /\ ItemsOK(row.then, columns, c)
        /\ \A i \in DOMAIN row.when : \A e \in Range_(Conjuncts(row.when[i])) : TestOf(e, columns, c)
        /\ CASE act.is = "set" -> ItemsOK(act.sets, columns, c)
             [] act.is = "sweep" -> /\ Form(act.count, columns, c) /\ Form(act.step, columns, c)
                                    /\ d.count # <<>> /\ Advance(d) = "post"
                                    /\ (frac \/ (act.into.is = "attr" /\ act.into.attr = "hi")) => Wide(act.into.name, c)
                                    /\ frac => ~(act.into.is = "attr" /\ act.into.attr = "lo")
             [] act.is = "delay" -> Form(act.count, columns, c) /\ d.count # <<>> /\ Advance(d) = "post"
             [] act.is = "call" -> Form(act.to_, columns, c) /\ d.ret # <<>>
             [] act.is = "jump" -> Form(act.to_, columns, c)
             [] act.is = "return" -> d.ret # <<>>
             [] act.is = "run" -> d.run # <<>> /\ Settled(act.base, c) /\ Meant(act.base, c, Blank).v <= Meant(row.lo, c, Blank).v
             [] OTHER -> TRUE
FieldOK(d, k, c) ==
    LET f == d.fields[k] IN
    /\ f.when # <<>> => k > 1 /\ TestForm(f.when[1], d.fields[k - 1].name, c)
    /\ \A out \in Range_(f.outs) : /\ Scalar(out.cell, Word, c) /\ Form(out.e, <<f.name>>, c)
                                   /\ out.when # <<>> => TestForm(out.when[1], f.name, c)
Steps_(d) ==        \* the reactions that may fire
    SelectSeq(d.on, LAMBDA on : CASE d.is = "counter" -> on.op # "reset" [] d.is = "accum" -> on.mode # "flip" [] OTHER -> on.action = "step")
ObjectOK(d, c) ==
    LET events == FlattenSeq([i \in DOMAIN d.on |-> d.on[i].events])
        count == ColumnCount(d, c)
        columns == SubSeq(ColumnNames, 1, IF count > 16 THEN 16 ELSE count)
        Some(names, m) == names # <<>> => Scalar(names[1], m, c)
    IN  /\ Range_(events) \subseteq Events(c) /\ Cardinality(Range_(events)) = Len(events)
        /\ d.is # "owner" /\ d.fires # <<>> =>
               d.fires[1] \in Events(c) /\ \A on \in Range_(Steps_(d)) : \A e \in Range_(on.events) : Under(c, d.fires[1], e)
        /\ CASE d.is = "counter" ->
                  /\ Scalar(d.cell, Word, c) /\ (d.gate = <<>> \/ d.limit = <<>>)
                  /\ \A on \in Range_(Steps_(d)) : on.op \in {"+=", "-="} /\ Settled(on.amount, c) /\ Meant(on.amount, c, Blank).v > 0
             [] d.is = "accum" -> /\ Scalar(d.cell, Word, c) /\ Some(d.dir, Byte)
                                  /\ d.dir = <<>> => \A on \in Range_(d.on) : on.mode \in {"ramp", "to"}
             [] d.is = "owner" -> Scalar(d.cell, Byte, c)
             [] d.is = "cursor" ->
                  /\ Scalar(d.pos, Word, c) /\ Some(d.count, Byte) /\ Some(d.run, Byte) /\ Some(d.ret, Word)
                  /\ \A n \in Targets(d) : Scalar(n, Word, c)
                  /\ \A n \in Range_(d.arrays) : Rows(n, c)
                  /\ count \in 1..16
                  /\ (\E on \in Range_(d.on) : on.action = "settle") => d.adv = "pre"
                  /\ \A row \in Range_(Live(d.rows, c)) : ArmOK(d, row, columns, c)
             [] d.is = "stream" ->
                  /\ Scalar(d.pos, Byte, c) /\ Len(d.fields) \in 1..16
                  /\ \A n \in Range_(d.within) : Rows(n, c)
                  /\ \A s \in Range_(d.run) : /\ Scalar(s.cell, Byte, c)
                                              /\ Meant(s.range[3], c, Blank).v <= Meant(s.range[1], c, Blank).v
                  /\ \A k \in DOMAIN d.fields : FieldOK(d, k, c)
\* Fields that follow one another do not overlap and stay in the stride.
RecordOK(d) ==
    LET Next_(w, f) ==
            LET at == IF f.at = <<>> THEN w.at ELSE f.at[1].v
                bytes == at..(at + (IF f.typ = "u8" THEN 0 ELSE 1))
            IN  [at |-> at + Cardinality(bytes), taken |-> w.taken \union bytes,
                 ok |-> w.ok /\ (f.at = <<>> => bytes \intersect w.taken = {} /\ at + Cardinality(bytes) <= d.stride.v)]
    IN  Through(Next_, [at |-> 0, taken |-> {}, ok |-> TRUE], d.fields).ok
\* The events and objects of a specification are ones a firing can follow.
WellFormed(c) ==
    LET events == c.spec.events IN
    /\ \A i \in DOMAIN events : /\ events[i].name \notin DOMAIN Tree \union {events[j].name : j \in 1..(i - 1)}
                                /\ events[i].parent \in DOMAIN Tree \union {events[j].name : j \in 1..(i - 1)}
    /\ \A d \in Range_(c.spec.records) \union UNION {Range_(c.spec.machines[m].records) : m \in DOMAIN c.spec.machines} : RecordOK(d)
    /\ \A i \in All(c) :
          LET seen == Listeners(Inside(c, i)) IN
          /\ Cardinality({l.d.name : l \in Range_(seen)}) = Len(seen)
          /\ \A l \in Range_(seen) : IF l.d.is = "handler" THEN l.d.events \subseteq Events(c) ELSE ObjectOK(l.d, Scope(c, l))

-----------------------------------------------------------------------------
(* Stores. *)

Static(r) == Stop(r, "static")
\* f(v) of a value, or what is wrong with it.
Need(r, x, next) == IF x.bad # "" THEN Stop(r, x.bad) ELSE next
Poke(r, at, b) ==
    IF Worst(<<at, b>>) # "" THEN Stop(r, Worst(<<at, b>>))
    ELSE IF at.v \notin DOMAIN r.mem THEN Stop(r, "raise")
    ELSE [r EXCEPT !.mem[at.v] = b.v, !.log = Append(@, <<at.v, b.v>>)]
PutWord(r, lo, hi, v) ==
    LET first == Poke(r, lo, Low(v)) IN IF first.why # "" THEN first ELSE Poke(first, hi, High(v))

WriteCell(c, r, found, x, value) ==
    LET d == found.d[1]
        at == Bytes(c, r, found, x)
        v == To(value, CellSize(d))
        low == Split(d)
        q == Val((v.v % 2 ^ low) + Byte * ((v.v \div 2 ^ low) % 2 ^ (d.wide - low)), Word)
        stored == [r EXCEPT !.wrote = @ \union {<<<<found.home, d.name>>, c.who>>}]
    IN  IF ~Shaped(d, x) \/ d.attrs \intersect {"ro", "volatile"} # {} \/ v.bad = "static" THEN Static(r)
        ELSE IF Worst(<<v>> \o at \o x) # "" THEN Stop(r, Worst(<<v>> \o at \o x))
        ELSE IF Len(at) = 1 THEN Poke(stored, at[1], v)
        ELSE PutWord(stored, at[1], at[2], IF d.typ = "pack" THEN q ELSE v)

Keep(r, key, x, m) == Need(r, To(x, m), [r EXCEPT !.kept[key] = To(x, m).v])
Hold(r, n, x, m) == Need(r, To(x, m), [r EXCEPT !.slots[n] = To(x, m).v])
\* A run-time index past the items is a SpecRuntimeError.
StoreItem(c, r, name, x, value) ==
    LET found == Declared(c, "states", name)
        d == found.d[1]
        v == To(value, d.m)
        n == ItemCount(Inside(c, found.home), d)
    IN  IF ~d.array \/ d.ro \/ x.m = Bool \/ (x.m = Untyped /\ x.v \notin 0..(n - 1)) THEN Static(r)
        ELSE IF Worst(<<x, v>>) # "" THEN Stop(r, Worst(<<x, v>>))
        ELSE IF x.v \notin 0..(n - 1) THEN Stop(r, "raise")
        ELSE [r EXCEPT !.kept[<<found.home, name, x.v>>] = v.v]

AssignName(name, v, c, r) ==
    LET signal == Declared(c, "signals", name)
        state == Declared(c, "states", name)
    IN  CASE In(c, name) -> IF c.names[name].is = "var" THEN Hold(r, c.names[name].n, v, c.names[name].m) ELSE Static(r)
          [] signal.d # <<>> -> Keep(r, <<c.inst, name>>, v, signal.d[1].m)
          [] state.d # <<>> -> IF state.d[1].array THEN Static(r) ELSE Keep(r, <<state.home, name>>, v, state.d[1].m)
          [] Has(c, "cells", name) -> WriteCell(c, r, Declared(c, "cells", name), <<>>, v)
          [] OTHER -> Static(r)
WriteBits(c, r, left, x, attr, v) ==
    LET found == Declared(c, "cells", left)
        d == found.d[1]
        range == BitRange(d, attr)
        now == ReadCell(c, r, found, x)
        put == To(v, CellSize(d))
        cleared == now.v - ((now.v \div 2 ^ range.low) % range.size) * 2 ^ range.low
    IN  WriteCell(c, r, found, x, Given(<<now, put>>, Val(cleared + (put.v % range.size) * 2 ^ range.low, CellSize(d))))
\* x.hi := v, x.lo := v.
WriteLane(c, r, left, part, v) ==
    LET now == Value(left, c, r)
        lanes == IF part = "lo" THEN Paired(To(v, Byte), High(now)) ELSE Paired(Low(now), To(v, Byte))
        low == Arith("&", v, Val(15, Untyped))
        nibbles == IF part = "lo" THEN Arith("|", Arith("&", now, Val(240, Untyped)), low)
                   ELSE Arith("|", Arith("&", now, Val(15, Untyped)), Shift("<<", low, Val(4, Untyped)))
    IN  IF Owned(c, left) /\ now.m = Word THEN AssignName(left, lanes, c, r)
        ELSE IF now.m # Byte THEN Static(r) ELSE AssignName(left, nibbles, c, r)
WriteTable(c, r, name, picks, attr, value) ==
    LET t == c.spec.tables[name]
        at == TableAt(name, picks, attr, c, r)
        m == FieldAt(c, t, attr).m
    IN  IF t.within # <<>> THEN Static(r)
        ELSE IF m = Word THEN Need(r, To(value, Word), PutWord(r, at, Off(at, 1), To(value, Word)))
        ELSE Poke(r, at, To(value, Byte))
\* Another instance's state or cell; its signals are its own to write.
WriteMember(c, r, ident, attr, v) ==
    LET state == Named(c.spec.machines[ident[1]].states, attr)
        cell == Named(MachineCells(c.spec.machines[ident[1]]), attr)
    IN  CASE state # <<>> -> IF state[1].array THEN Static(r) ELSE Keep(r, <<ident, attr>>, v, state[1].m)
          [] cell # <<>> -> WriteCell(c, r, [home |-> ident, d |-> cell], <<>>, v)
          [] OTHER -> Static(r)
AssignTo(l, v, c, r) ==
    LET at == Meant(l.at, c, r) IN
    CASE l.is = "name" -> AssignName(l.name, v, c, r)
      [] l.is = "mem" -> Poke(r, To(Meant(l.a[1], c, r), Word), To(v, Byte))
      [] l.is = "index" -> IF Has(c, "cells", l.name) THEN WriteCell(c, r, Declared(c, "cells", l.name), <<at>>, v)
                           ELSE IF Has(c, "states", l.name) THEN StoreItem(c, r, l.name, at, v) ELSE Static(r)
      [] l.is = "row_attr" -> WriteTable(c, r, l.name, [i \in DOMAIN l.a |-> Meant(l.a[i], c, r)], l.attr, v)
      [] l.is = "inst_attr" /\ l.name \in DOMAIN c.spec.tables -> WriteTable(c, r, l.name, <<at>>, l.attr, v)
      [] l.is = "inst_attr" /\ l.name \in DOMAIN c.spec.machines ->
           IF at.m = Untyped /\ <<l.name, at.v>> \in Instances(c, l.name) THEN WriteMember(c, r, <<l.name, at.v>>, l.attr, v)
           ELSE Static(r)
      [] l.is = "inst_attr" -> IF HasBits(c, l.name, l.attr) THEN WriteBits(c, r, l.name, <<at>>, l.attr, v) ELSE Static(r)
      [] l.is = "attr" ->
           CASE HasBits(c, l.name, l.attr) -> WriteBits(c, r, l.name, <<>>, l.attr, v)
             [] In(c, l.name) /\ c.names[l.name].is = "stream" ->
                  IF l.attr = "pos" THEN Hold(r, c.names[l.name].pos, v, Byte) ELSE Static(r)
             [] l.attr \in {"hi", "lo"} /\ Known(c, l.name) -> WriteLane(c, r, l.name, l.attr, v)
             [] OTHER -> Static(r)

-----------------------------------------------------------------------------
(* Statements.  A statement takes [r, c] to the run and the names after it. *)

RECURSIVE Fire(_, _, _), Do(_, _), Block(_, _, _), Arms(_, _, _, _), Loop(_, _, _, _), Each(_, _, _, _, _)
Goes(w) == w.r.why = ""
Ended(w, r) == [w EXCEPT !.r = r]
Declare(w, name, x) ==      \* a new variable
    [r |-> [w.r EXCEPT !.slots = Append(@, x.v)],
     c |-> [w.c EXCEPT !.names = (name :> [is |-> "var", n |-> Len(w.r.slots) + 1, m |-> x.m]) @@ @]]

\* A call: arguments in order, streams by reference, the body in the names of its home.
Call(e, w) ==
    LET c == w.c
        found == ProcOf(e.name, c)
        p == found[1].p
        Bind(b, i) ==
            LET x == Meant(e.a[i], c, b.r)
                v == To(x, p.params[i].m)
                stream == p.params[i].is = "stream"
                ok == e.a[i].is = "name" /\ In(c, e.a[i].name)
            IN  IF ~Goes(b) THEN b
                ELSE IF ~stream THEN IF v.bad # "" THEN Ended(b, Stop(b.r, v.bad)) ELSE Declare(b, p.params[i].name, v)
                ELSE IF ~ok THEN Ended(b, Static(b.r))
                ELSE IF c.names[e.a[i].name].is # "stream" THEN Ended(b, Static(b.r))
                ELSE [b EXCEPT !.c.names = (p.params[i].name :> c.names[e.a[i].name]) @@ @]
        inner == [c EXCEPT !.inst = found[1].home, !.proc = e.name, !.names = [n \in {} |-> 0],
                           !.gives = <<p.m>>, !.open = @ \union {<<c.inst, e.name>>}]
        bound == Through(Bind, [r |-> w.r, c |-> inner], [i \in DOMAIN e.a |-> i])
        done == Block(p.body, bound.c, bound.r)
    IN  IF found = <<>> THEN Static(w.r)
        ELSE IF Len(e.a) # Len(p.params) \/ <<c.inst, e.name>> \in c.open THEN Static(w.r)
        ELSE IF ~Goes(bound) THEN bound.r
        ELSE IF done.why = "return" THEN [done EXCEPT !.why = ""]
        ELSE [done EXCEPT !.value = Val(0, p.m)]
\* The value of a right-hand side: only a whole one may be a call.
Right(e, w) ==
    IF e.is = "func" /\ ProcOf(e.name, w.c) # <<>>
    THEN IF ProcOf(e.name, w.c)[1].p.m = Untyped THEN [r |-> Static(w.r), x |-> Wrong(Byte)]
         ELSE LET r == Call(e, w) IN [r |-> r, x |-> r.value]
    ELSE LET x == Meant(e, w.c, w.r) IN [r |-> Need(w.r, x, w.r), x |-> x]
\* next s: the byte at the cursor, which wraps at 8 bits as it moves on.
NextByte(name, w) ==
    LET s == w.c.names[name]
        x == StreamByte(w.c, w.r, s, w.r.slots[s.pos])
    IN  IF ~In(w.c, name) THEN [r |-> Static(w.r), x |-> Wrong(Byte)]
        ELSE IF s.is # "stream" THEN [r |-> Static(w.r), x |-> Wrong(Byte)]
        ELSE [r |-> Need(w.r, x, [w.r EXCEPT !.slots[s.pos] = (@ + 1) % Byte]), x |-> x]

DoLet(s, w) ==
    LET got == Right(s.rhs, w)
        m == IF s.m # Untyped THEN s.m ELSE IF got.x.m # Untyped THEN got.x.m
             ELSE IF got.x.v \in 0..(Byte - 1) THEN Byte ELSE Word
        x == To(got.x, m)
    IN  IF got.r.why # "" THEN Ended(w, got.r)
        ELSE IF x.bad # "" THEN Ended(w, Stop(w.r, x.bad)) ELSE Declare(Ended(w, got.r), s.name, x)
DoAssign(s, w) ==
    LET got == Right(s.rhs, w)
        both == Meant([is |-> s.op, a |-> <<s.lval, s.rhs>>], w.c, w.r)
    IN  IF s.op # ":=" THEN Need(w.r, both, AssignTo(s.lval, both, w.c, w.r))
        ELSE IF got.r.why # "" THEN got.r ELSE AssignTo(s.lval, got.x, w.c, got.r)
DoStream(s, w) ==
    LET base == To(Meant(s.base, w.c, w.r), Word)
        pos == To(Meant(s.pos, w.c, w.r), Byte)
        n == Len(w.r.slots)
        array == IF s.within = <<>> THEN <<>> ELSE Declared(w.c, "states", s.within[1]).d
        ok == s.within = <<>> \/ (IF array = <<>> THEN FALSE ELSE array[1].array /\ array[1].ro /\ array[1].m = Byte)
    IN  IF ~ok THEN Ended(w, Static(w.r))
        ELSE IF Worst(<<base, pos>>) # "" THEN Ended(w, Stop(w.r, Worst(<<base, pos>>)))
        ELSE [r |-> [w.r EXCEPT !.slots = @ \o <<base.v, pos.v>>],
              c |-> [w.c EXCEPT !.names = (s.name :> [is |-> "stream", base |-> n + 1, pos |-> n + 2, within |-> s.within]) @@ @]]

\* Controls: bits of a cell, or a variable of their own.
States(c, d) ==
    [i \in DOMAIN d.states |-> [name |-> d.states[i][1],
        v |-> IF d.states[i][2] = <<>> THEN i - 1 ELSE Meant(d.states[i][2][1], Inside(c, c.inst), [mem |-> <<>>]).v]]
MaskOf(c, d) == Meant(d.mask, Inside(c, c.inst), [mem |-> <<>>]).v
Current(c, r, d) ==
    IF d.cell = "" THEN Val(r.kept[<<c.inst, d.name>>], Byte)
    ELSE Arith("&", ReadCell(c, r, Declared(c, "cells", d.cell), <<>>), Val(MaskOf(c, d), Byte))
DoIn(s, w) ==
    LET d == Declared(w.c, "controls", s.name).d
        states == States(w.c, d[1])
        x == Current(w.c, w.r, d[1])
        At(name) == SelectSeq(states, LAMBDA t : t.name = name)
        hit == SelectSeq(s.arms, LAMBDA arm : At(arm[1])[1].v = x.v)
    IN  IF d = <<>> THEN Static(w.r)
        ELSE IF \E i \in DOMAIN s.arms : At(s.arms[i][1]) = <<>> THEN Static(w.r)
        ELSE Need(w.r, x, IF hit = <<>> THEN w.r ELSE Block(hit[1][2], w.c, w.r))
DoGoto(s, w) ==
    LET has == SelectSeq(IF w.c.inst = <<>> THEN <<>> ELSE Machine(w.c).controls,
                         LAMBDA d : \E i \in DOMAIN d.states : d.states[i][1] = s.state)
        d == has[1]
        v == (CHOOSE t \in {States(w.c, d)[i] : i \in DOMAIN d.states} : t.name = s.state).v
        mask == MaskOf(w.c, d)
        now == ReadCell(w.c, w.r, Declared(w.c, "cells", d.cell), <<>>)
    IN  IF Len(has) # 1 THEN Static(w.r)
        ELSE IF d.cell = "" THEN [w.r EXCEPT !.kept[<<w.c.inst, d.name>>] = v]
        ELSE Need(w.r, now, WriteCell(w.c, w.r, Declared(w.c, "cells", d.cell), <<>>,
                                      Val((now.v & (Byte - 1 - mask)) | (v & mask), Byte)))
\* A staging block is copied to the SID before a finish and at the end.
Flushed(c, r) ==
    LET out == c.spec.outputs[1]
        from == Meant(out.at, Inside(c, <<>>), r).v
        to == Meant(out.copy[1], Inside(c, <<>>), r).v
        Copy(q, k) == IF q.why # "" THEN q ELSE Poke(q, Val(to + k - 1, Word), Byte_(q, Val(from + k - 1, Word)))
    IN  IF c.spec.outputs = <<>> THEN r
        ELSE IF out.copy = <<>> THEN r ELSE Through(Copy, r, [k \in 1..Registers |-> k])

\* A firing runs what hears it, in declaration order; what wraps fires its own event.
Fire(event, c, r) ==
    LET React(got, d) == IF got.r.why # "" \/ got.flag = 0 \/ d.is = "owner" THEN got.r
                         ELSE IF d.fires = <<>> THEN got.r ELSE Fire(d.fires[1], c, got.r)
        One(q, l) ==
            IF q.why # "" THEN q
            ELSE IF l.d.is = "handler" THEN IF event \in l.d.events THEN Block(l.d.body, Firing(c, l), q) ELSE q
            ELSE IF Heard(l.d, event) = <<>> THEN q
            ELSE React(Reaction(l, Heard(l.d, event)[1], <<>>, c, q), l.d)
    IN  Through(One, r, Listeners(c))
DoFire(s, w) ==
    IF s.event \notin Events(w.c) THEN Static(w.r)
    ELSE IF s.body = <<>> THEN Fire(s.event, w.c, w.r) ELSE Block(s.body[1], w.c, w.r)
\* One reaction, its operands given or, for a cursor, those it states.
DoReact(s, w) ==
    LET found == SelectSeq(Listeners(w.c), LAMBDA l : l.d.name = s.name /\ l.d.is # "handler")
        on == Heard(found[1].d, s.event)
        own == s.a = <<>> /\ found[1].d.is \in {"cursor", "stream"}
        x == [i \in DOMAIN s.a |-> Meant(s.a[i], w.c, w.r)]
        got == Reaction(found[1], on[1], IF own THEN <<>> ELSE <<x>>, w.c, w.r)
        Boolean(name) == IF In(w.c, name) THEN w.c.names[name].is = "var" /\ w.c.names[name].m = Bool ELSE FALSE
    IN  IF found = <<>> THEN Static(w.r)
        ELSE IF on = <<>> \/ \E i \in DOMAIN s.out : ~Boolean(s.out[i]) THEN Static(w.r)
        ELSE IF got.r.why # "" \/ s.out = <<>> THEN got.r
        ELSE [got.r EXCEPT !.slots[w.c.names[s.out[1]].n] = got.flag]

DoReturn(s, w) ==
    LET x == Meant(s.value[1], w.c, w.r) IN
    IF w.c.gives = <<>> THEN Static(w.r)
    ELSE IF (s.value = <<>>) # (w.c.gives[1] = Untyped) THEN Static(w.r)
    ELSE IF s.value = <<>> THEN Stop(w.r, "return")
    ELSE Need(w.r, To(x, w.c.gives[1]), [w.r EXCEPT !.why = "return", !.value = To(x, w.c.gives[1])])

Do(s, w) ==
    LET got == NextByte(s.stream, w)
        x == Meant(s.c, w.c, w.r)
        list == Listed(s.list, w.c, w.r)
    IN  CASE s.is = "let" -> DoLet(s, w)
          [] s.is = "next_let" -> IF got.r.why # "" THEN Ended(w, got.r) ELSE Declare(Ended(w, got.r), s.name, got.x)
          [] s.is = "stream" -> DoStream(s, w)
          [] s.is = "group" -> LET Step(v, t) == IF Goes(v) THEN Do(t, v) ELSE v IN Through(Step, w, s.body)
          [] s.is = "label" -> Do(s.body[1], w)
          [] OTHER -> Ended(w,
               CASE s.is = "assign" -> DoAssign(s, w)
                 [] s.is = "next_set" -> IF got.r.why # "" THEN got.r ELSE AssignTo(s.lval, got.x, w.c, got.r)
                 [] s.is = "if" -> Arms(s.arms, s.other, w.c, w.r)
                 [] s.is = "while" -> Loop(s, s.bound, w.c, w.r)
                 [] s.is = "for" -> IF list = <<>> THEN Static(w.r) ELSE Each(s.name, list[1], s.body, w.c, w.r)
                 [] s.is = "return" -> DoReturn(s, w)
                 [] s.is = "assert" -> IF x.m # Bool THEN Static(w.r)
                                       ELSE Need(w.r, x, IF x.v = 0 THEN Stop(w.r, "raise") ELSE w.r)
                 [] s.is = "finish" -> LET r == Flushed(w.c, w.r) IN IF r.why # "" THEN r ELSE Stop(r, "finish")
                 [] s.is = "in" -> DoIn(s, w)
                 [] s.is = "goto" -> DoGoto(s, w)
                 [] s.is = "fire" -> DoFire(s, w)
                 [] s.is = "react" -> DoReact(s, w)
                 [] s.is = "call" -> Call(s, w))
Block(stmts, c, r) ==
    LET Step(w, i) ==
            IF ~Goes(w) THEN w
            ELSE IF stmts[i].is = "return" /\ i < Len(stmts) THEN Ended(w, Static(w.r)) ELSE Do(stmts[i], w)
    IN  Through(Step, [r |-> r, c |-> c], [i \in DOMAIN stmts |-> i]).r
Arms(arms, other, c, r) ==
    IF arms = <<>> THEN Block(other, c, r)
    ELSE LET x == Meant(arms[1][1], c, r) IN
         IF x.m # Bool THEN Static(r)
         ELSE Need(r, x, IF x.v = 1 THEN Block(arms[1][2], c, r) ELSE Arms(Tail(arms), other, c, r))
\* A while that would turn more often than its bound is a SpecRuntimeError.
Loop(s, n, c, r) ==
    LET x == Meant(s.c, c, r) IN
    IF r.why # "" THEN r
    ELSE IF x.m # Bool \/ s.bound <= 0 THEN Static(r)
    ELSE Need(r, x, IF x.v = 0 THEN r ELSE IF n = 0 THEN Stop(r, "raise") ELSE Loop(s, n - 1, c, Block(s.body, c, r)))
Each(name, values, body, c, r) ==
    IF values = <<>> \/ r.why # "" THEN r
    ELSE Each(name, Tail(values), body, c,
              Block(body, [c EXCEPT !.names = (name :> [is |-> "static", v |-> values[1]]) @@ @], r))

-----------------------------------------------------------------------------
(* A play call: the schedule's instances in order. *)

RECURSIVE Items(_, _, _), EachItem(_, _, _, _, _)
Items(items, c, r) ==
    LET item == items[1]
        at == Meant(item.at[1], c, r)
        ident == IF item.at = <<>> THEN <<item.name>> ELSE <<item.name, at.v>>
        known == item.name \in DOMAIN c.spec.machines /\ ident \in Instances(c, item.name)
        there == [Inside(c, ident) EXCEPT !.who = ident]
        step == Call([name |-> "step", a |-> <<>>], [r |-> r, c |-> there])
        x == Meant(item.c, c, r)
        list == Listed(item.list, c, r)
        next == CASE item.is = "inst" -> IF ~known THEN Static(r) ELSE [step EXCEPT !.ran = @ \union {ident}]
                  [] item.is = "sif" -> IF x.m # Bool THEN Static(r)
                                        ELSE Need(r, x, Items(IF x.v = 1 THEN item.then ELSE item.orelse, c, r))
                  [] item.is = "sfor" -> IF list = <<>> THEN Static(r) ELSE EachItem(item.name, list[1], item.items, c, r)
    IN  IF items = <<>> \/ r.why # "" THEN r ELSE Items(Tail(items), c, next)
EachItem(name, values, items, c, r) ==
    IF values = <<>> \/ r.why # "" THEN r
    ELSE EachItem(name, Tail(values), items, c,
                  Items(items, [c EXCEPT !.names = (name :> [is |-> "static", v |-> values[1]]) @@ @], r))

Root(spec, binding) ==
    [spec |-> spec, layout |-> binding, inst |-> <<>>, who |-> <<>>, proc |-> "", place |-> "", names |-> [n \in {} |-> 0],
     gives |-> <<>>, open |-> {}]
DeclaredIn(c, ident, part) ==
    IF ident # <<>> THEN Range_(c.spec.machines[ident[1]][part]) ELSE IF part = "states" THEN Range_(c.spec.states) ELSE {}
AsFunction(pairs) == [k \in {p[1] : p \in pairs} |-> (CHOOSE p \in pairs : p[1] = k)[2]]
FirstState(c, d) == States(c, d)[1].v
\* What the specification's own variables hold before the first call.
Start(spec, binding) ==
    LET c == Root(spec, binding)
        Now(i, d) == To(Meant(d.init, Inside(c, i), [mem |-> <<>>]), d.m).v
        items(i, d) == 0..(ItemCount(Inside(c, i), d) - 1)
    IN  AsFunction(
          UNION { {<<<<i, d.name>>, Now(i, d)>> : d \in {d \in DeclaredIn(c, i, "states") : ~d.array}} : i \in All(c)}
          \union UNION { UNION { {<<<<i, d.name, k>>, Initial(Inside(c, i), d, k + 1)>> : k \in items(i, d)}
                                 : d \in {d \in DeclaredIn(c, i, "states") : d.array /\ ~d.ro}} : i \in All(c)}
          \union UNION { {<<<<i, d.name>>, FirstState(Inside(c, i), d)>> : d \in {d \in DeclaredIn(c, i, "controls") : d.cell = ""}}
                         : i \in All(c)})
\* Signals take their defaults in every call.
Defaults(c) ==
    AsFunction(UNION { {<<<<i, d.name>>, To(Meant(d.init, Inside(c, i), [mem |-> <<>>]), d.m).v>> : d \in DeclaredIn(c, i, "signals")}
                       : i \in All(c)})
Played(spec, binding, mem, kept, entry) ==
    LET c == Root(spec, binding)
        r == [mem |-> mem, log |-> <<>>, kept |-> Defaults(c) @@ kept, slots |-> <<>>, ran |-> {}, wrote |-> {},
              why |-> "", value |-> Val(0, Untyped), entry |-> entry]
        w == IF WellFormed(c) THEN Items(spec.schedule, c, r) ELSE Static(r)
    IN  IF w.why = "" THEN Flushed(c, w) ELSE w
=============================================================================
