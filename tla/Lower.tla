-------------------------------- MODULE Lower --------------------------------
(***************************************************************************)
(* The statements, calls, declarations and schedule of a specification     *)
(* (playspec/lower.py, lowerarray.py, lowerview.py), lowered to a program.  *)
(***************************************************************************)
EXTENDS LowerObjects

CONSTANTS REGISTERS     \* how many registers an output block has (25)

-----------------------------------------------------------------------------
(* Stores.  What a statement lowers to is [out, st, names]: its statements, *)
(* and the elaboration and the names in scope after it.                     *)

Set(n, v) == [is |-> "set", n |-> n, v |-> v]
Wr(a, v) == [is |-> "wr", a |-> a, v |-> v]
If(c, then, orelse) == [is |-> "if", c |-> c, then |-> then, orelse |-> orelse]
Fired(event, body) == [is |-> "fire", event |-> event, body |-> body]
Guard(c) == [is |-> "assert", c |-> c]

Seen(S, xs) == [S EXCEPT !.bad = @ \/ \E i \in DOMAIN xs : xs[i].bad,
                         !.latched = @ \union UNION {xs[i].reads : i \in DOMAIN xs}]
Fail(S) == [S EXCEPT !.bad = TRUE]
Fresh(S, n) == [S EXCEPT !.uid = @ + n]
Did(out, S) == [out |-> out, st |-> S]
Then(pre, w) == [w EXCEPT !.out = pre \o @]
\* An operand that is used twice: a constant, a variable, or one set first.
Twice(x, S) == [pre |-> <<>>, x |-> x, st |-> S]
Once(x, S) ==
    IF x.e.is \in {"K", "V"} THEN [pre |-> <<>>, x |-> x, st |-> S]
    ELSE [pre |-> <<Set(S.uid + 1, x.e)>>, x |-> [x EXCEPT !.e = Var(S.uid + 1, size(x))], st |-> Fresh(S, 1)]

write_cell(cell, x, value, S) ==
    LET at == cell_access(cell, x, S)
        ok == cell.attrs \intersect {"ro", "volatile"} = {} /\ Indexable(x)
        v == coerce(value, IF Len(at) = 1 THEN Byte ELSE Word)
        wrote == [Seen(S, at \o <<v>>) EXCEPT !.bad = @ \/ ~ok, !.writers = @ \union {<<cell_key(cell), S.inst>>}]
        once == Once(v, wrote)
        low == cell.pack[1]
        part(op, y, n) == build("lo", Byte, <<build("and", Word, <<y, Exactly(2 ^ n - 1, Word)>>)>>)
        top == build("shr", Word, <<once.x, Exactly(low, Word)>>)
        bytes == IF cell.pack = <<>> THEN <<build("lo", Byte, <<once.x>>), build("hi", Byte, <<once.x>>)>>
                 ELSE <<part("lo", once.x, low), part("hi", top, cell.pack[2] - low)>>
    IN  IF Len(at) = 1 THEN Did(<<Wr(at[1].e, v.e)>>, wrote)
        ELSE Did(once.pre \o <<Wr(at[1].e, bytes[1].e), Wr(at[2].e, bytes[2].e)>>, once.st)

write_bits(cell, x, attr, value, S) ==
    LET m == CellWidth(cell)
        span == bit_span(cell, attr)
        keep == build("and", m, <<read_cell(cell, x, S), Exactly(m - 1 - span.mask * 2 ^ span.low, m)>>)
        put == build("and", m, <<coerce(value, m), Exactly(span.mask, m)>>)
        moved == build("shl", m, <<put, Exactly(span.low, m)>>)
    IN  write_cell(cell, x, build("or", m, <<keep, moved>>), S)

table_write(name, picks, attr, value, S, names) ==
    LET at == table_ref(name, picks, attr, S, names)
        wide == Wide(name, attr, S)
        v == coerce(value, IF wide THEN Word ELSE Byte)
        T == [Seen(S, <<at, v>>) EXCEPT !.bad = @ \/ S.b.spec.tables[name].within # <<>>]
        low == Once(v, T)
        addr == Once(at, low.st)
    IN  IF ~wide THEN Did(<<Wr(at.e, v.e)>>, T)
        ELSE Did(low.pre \o addr.pre
                 \o << Wr(addr.x.e, build("lo", Byte, <<low.x>>).e),
                       Wr(After(addr.x).e, build("hi", Byte, <<low.x>>).e) >>, addr.st)

\* The store to an element of an array: a tree of comparisons on the index.
RECURSIVE tree(_, _, _, _, _)
tree(items, index, v, lo, hi) ==
    LET mid == (lo + hi) \div 2 IN
    IF hi - lo = 1 THEN <<Set(items[lo + 1], v)>>
    ELSE <<If(mk("ult", Bool, <<index, Const(mid, width(index))>>),
              tree(items, index, v, lo, mid), tree(items, index, v, mid, hi))>>
array_write(arr, x, value, S) ==
    LET n == Len(arr.items)
        v == coerce(value, arr.m)
        into == Seen(S, <<x, v>>)
        held == Once(v, into)
        at == Once(array_index(x, n), held.st)
        inRange == IF n < size(at.x) THEN <<Guard(mk("ult", Bool, <<at.x.e, Const(n, size(at.x))>>))>> ELSE <<>>
    IN  IF arr.ro THEN Did(<<>>, Fail(S))
        ELSE IF Fixed(x.e) THEN
             IF x.e.v \in 0..(n - 1) THEN Did(<<Set(arr.items[x.e.v + 1], v.e)>>, into) ELSE Did(<<>>, Fail(into))
        ELSE IF size(x) = Bool THEN Did(<<>>, into)     \* the store is dropped, nothing is reported
        ELSE Did(held.pre \o at.pre \o inRange \o tree(arr.items, at.x.e, held.x.e, 0, n), at.st)

\* name := value.
name_assign(name, value, S, names) ==
    LET found == lookup(name, S, names)
        signal == S.b.inst[S.inst].signals[name]
        set(n, m) == Did(<<Set(n, coerce(value, m).e)>>, Seen(S, <<coerce(value, m)>>))
    IN  CASE found.is = "var" -> set(found.n, found.m)
          [] found.is = "signal" -> set(signal.n, signal.m)
          [] found.is = "cell" -> write_cell(found.cell, <<>>, value, S)
          [] OTHER -> Did(<<>>, Fail(S))
\* left.attr := value.
attr_assign(left, attr, value, S, names) ==
    LET bits == bit_cell(left, attr, S, names)
        node == named(left)
        current == expr(node, S, names)
        byte == coerce(value, Byte)
        lanes == IF attr = "lo" THEN word(byte, build("hi", Byte, <<current>>))
                 ELSE word(build("lo", Byte, <<current>>), byte)
        stream == left \in DOMAIN names /\ names[left].is = "stream" /\ attr = "pos"
    IN  CASE bits # <<>> -> write_bits(bits[1], <<>>, attr, value, S)
          [] attr \in {"hi", "lo"} /\ lookup(left, S, names) # None ->
               name_assign(left, IF Lanes(node, S, names) THEN lanes
                                 ELSE Require(~nibble(node, attr, S, names).bad,
                                              expr(nibble_write(node, attr, made(value)), S, names)), S, names)
          [] stream -> Did(<<Set(names[left].pos, byte.e)>>, Seen(S, <<byte>>))
          [] OTHER -> Did(<<>>, Fail(S))
\* left[x].attr := value.
inst_assign(left, x, attr, value, S, names) ==
    LET bits == bit_cell(left, attr, S, names)
        ident == machine_instance(left, <<x>>, S)
        inst == S.b.inst[ident[1]]
        state == inst.states[attr]
    IN  CASE left \in DOMAIN S.b.spec.tables -> table_write(left, <<x>>, attr, value, S, names)
          [] left \in DOMAIN S.b.spec.machines ->
               CASE ident = <<>> -> Did(<<>>, Fail(S))
                 [] attr \in DOMAIN inst.states /\ inst.states[attr].is = "var" ->
                      Did(<<Set(state.n, coerce(value, state.m).e)>>, Seen(S, <<coerce(value, state.m)>>))
                 [] attr \in DOMAIN inst.cells -> write_cell(inst.cells[attr], <<>>, value, S)
                 [] OTHER -> Did(<<>>, Fail(S))
          [] bits # <<>> -> write_bits(bits[1], <<x>>, attr, value, S)
          [] OTHER -> Did(<<>>, Fail(S))
assign_to(lval, value, S, names) ==
    LET at == expr(lval.at, S, names)
        found == lookup(lval.name, S, names)
        addr == coerce(expr(lval.a[1], S, names), Word)
        byte == coerce(value, Byte)
    IN  CASE lval.is = "mem" -> Did(<<Wr(addr.e, byte.e)>>, Seen(S, <<addr, byte>>))
          [] lval.is = "index" ->
               CASE found.is = "array" -> array_write(found, at, value, S)
                 [] found.is = "cell" -> write_cell(found.cell, <<at>>, value, S)
                 [] OTHER -> Did(<<>>, Fail(S))
          [] lval.is = "row_attr" -> table_write(lval.name, All(lval.a, S, names), lval.attr, value, S, names)
          [] lval.is = "inst_attr" -> inst_assign(lval.name, at, lval.attr, value, S, names)
          [] lval.is = "attr" -> attr_assign(lval.name, lval.attr, value, S, names)
          [] OTHER -> name_assign(lval.name, value, S, names)

-----------------------------------------------------------------------------
(* Statements. *)

StaticOk(x) == Fixed(x.e) /\ ~x.bad

RECURSIVE flat(_), returns(_), st_block(_, _, _), st_stmt(_, _, _), st_if(_, _, _, _), st_for(_, _, _, _, _), reactions_to(_, _)

\* Statements with labels stripped and groups spliced in: a group opens no scope.
flat(stmts) ==
    IF stmts = <<>> THEN <<>>
    ELSE LET s == Head(stmts) IN
         (IF s.is \in {"label", "group"} THEN flat(s.body) ELSE <<s>>) \o flat(Tail(stmts))
\* Whether a statement may execute a return.
returns(s) ==
    LET Some(stmts) == \E i \in DOMAIN stmts : returns(stmts[i]) IN
    CASE s.is = "return" -> TRUE
      [] s.is = "if" -> Some(s.other) \/ \E i \in DOMAIN s.arms : Some(s.arms[i][2])
      [] s.is \in {"while", "for", "label", "group"} -> Some(s.body)
      [] s.is = "in" -> \E i \in DOMAIN s.arms : Some(s.arms[i][2])
      [] s.is = "fire" -> s.body # <<>> /\ Some(s.body[1])
      [] OTHER -> FALSE
Returned(S) == Var(S.ret[1].flag, Bool)
NotReturned(S) == mk("lnot", Bool, <<Returned(S)>>)

\* A block: what follows a statement that may return runs unless it has.
st_block(stmts, S, names) ==
    IF stmts = <<>> THEN [out |-> <<>>, st |-> S, names |-> names]
    ELSE LET s == Head(stmts)
             rest == Tail(stmts)
             w == st_stmt(s, S, names)
             r == st_block(rest, w.st, w.names)
         IN  IF s.is = "return" THEN [w EXCEPT !.st.bad = @ \/ rest # <<>>]
             ELSE IF S.ret # <<>> /\ returns(s) /\ rest # <<>>
             THEN [r EXCEPT !.out = Append(w.out, If(NotReturned(S), @, <<>>))]
             ELSE Then(w.out, r)
Body(stmts, S, names) == st_block(flat(stmts), S, names)

-----------------------------------------------------------------------------
(* Calls: a proc is lowered once for each instance, its stream arguments   *)
(* and the instances that have run; a call sets its parameters and runs it. *)

Typed(proc) == SelectSeq(proc.params, LAMBDA p : p.is # "stream")
lower_proc(proc, home, key, inner, valued, S) ==
    LET typed == Typed(proc)
        n == Len(typed)
        args == [i \in 1..n |-> S.uid + i]
        names == [p \in {typed[i].name : i \in 1..n} |->
                     LET i == CHOOSE i \in 1..n : typed[i].name = p IN [is |-> "var", n |-> args[i], m |-> typed[i].m]]
        flag == S.uid + n + 1
        slot == IF valued THEN <<flag + 1>> ELSE <<>>
        into == [Fresh(S, n + 2) EXCEPT !.ret = <<[flag |-> flag, slot |-> slot, m |-> proc.m]>>, !.inst = home,
                                        !.proc = proc.name, !.latched = {}, !.stack = @ \union {key}]
        w == Body(proc.body, into, names @@ inner)
        prologue == (IF \E i \in DOMAIN proc.body : returns(proc.body[i]) THEN <<Set(flag, Const(0, Bool))>> ELSE <<>>)
                    \o (IF valued THEN <<Set(flag + 1, Const(0, proc.m))>> ELSE <<>>)
    IN  [made |-> [pid |-> Len(w.st.procs) + 1, args |-> args, slot |-> slot,
                   writes |-> w.st.writers \ S.writers, reads |-> w.st.latched],
         st |-> [w.st EXCEPT !.procs = Append(@, prologue \o w.out), !.ret = S.ret, !.inst = S.inst,
                             !.proc = S.proc, !.latched = S.latched, !.stack = S.stack]]

inline(proc, a, S, names, slot) ==
    LET key == <<S.inst, proc.name>>
        streams == {i \in DOMAIN proc.params : proc.params[i].is = "stream"}
        Given(i) == a[i].is = "name" /\ a[i].name \in DOMAIN names /\ names[a[i].name].is = "stream"
        inner == [p \in {proc.params[i].name : i \in streams} |->
                     names[a[CHOOSE i \in streams : proc.params[i].name = p].name]]
        order == SelectSeq([i \in DOMAIN a |-> i], LAMBDA i : proc.params[i].is # "stream")
        values == [k \in DOMAIN order |-> coerce(expr(a[order[k]], S, names), proc.params[order[k]].m)]
        home == IF proc.name \in DOMAIN S.b.inst[S.inst].procs THEN S.inst ELSE <<>>
        cache == <<home, proc.name, slot # <<>>, inner, S.ran>>
        fresh == lower_proc(proc, home, key, inner, slot # <<>>, Seen(S, values))
        known == S.lowered[cache]
        hit == cache \in DOMAIN S.lowered
        done == IF hit THEN known ELSE fresh.made
        T == IF hit THEN Seen(S, values) ELSE [fresh.st EXCEPT !.lowered = (cache :> done) @@ @]
        late == \E cell \in done.reads : ~check_latched(cell, T)
        after == [T EXCEPT !.bad = @ \/ late, !.writers = @ \union done.writes, !.latched = @ \union done.reads]
    IN  IF key \in S.stack \/ Len(a) # Len(proc.params) THEN Did(<<>>, Fail(S))
        ELSE IF \E i \in streams : ~Given(i) THEN Did(<<>>, Fail(S))
        ELSE Did([k \in DOMAIN order |-> Set(done.args[k], values[k].e)] \o << [is |-> "call", proc |-> done.pid] >>
                 \o (IF slot = <<>> THEN <<>> ELSE << Set(slot[1], Var(done.slot[1], proc.m)) >>), after)

\* A proc's value: [pre, x, st].
call_value(e, S, names) ==
    LET proc == find_proc(e.name, S)[1]
        slot == S.uid + 1
        w == inline(proc, e.a, Fresh(S, 1), names, <<slot>>)
    IN  IF proc.m = Untyped THEN [pre |-> <<>>, x |-> Exactly(0, Byte), st |-> Fail(S)]
        ELSE [pre |-> <<Set(slot, Const(0, proc.m))>> \o w.out, x |-> Pure(Var(slot, proc.m)), st |-> w.st]
Calls(e, S) == e.is = "func" /\ find_proc(e.name, S) # <<>>
\* The value assigned or bound: a proc's or an expression's.
rhs_value(e, S, names) ==
    IF Calls(e, S) THEN call_value(e, S, names)
    ELSE LET x == expr(e, S, names) IN [pre |-> <<>>, x |-> x, st |-> Seen(S, <<x>>)]

\* next: the byte at a stream's cursor, which moves on.
next_byte(name, S, names) ==
    LET stream == names[name]
        tmp == S.uid + 1
        pos == Pure(Var(stream.pos, Byte))
        got == stream_read(stream, add16(Pure(Var(stream.base, Word)), pos))
    IN  IF name \notin DOMAIN names THEN [pre |-> <<>>, x |-> Exactly(0, Byte), st |-> Fail(S)]
        ELSE IF stream.is # "stream" THEN [pre |-> <<>>, x |-> Exactly(0, Byte), st |-> Fail(S)]
        ELSE [pre |-> <<Set(tmp, got.e), Set(stream.pos, build("add", Byte, <<pos, Exactly(1, Byte)>>).e)>>,
              x |-> Pure(Var(tmp, Byte)), st |-> Seen(Fresh(S, 1), <<got>>)]

\* name bound to a new variable holding a value.
Bound(name, v, got, names) ==
    LET n == got.st.uid + 1 IN
    [out |-> got.pre \o <<Set(n, v.e)>>, st |-> Seen(Fresh(got.st, 1), <<v>>),
     names |-> (name :> [is |-> "var", n |-> n, m |-> size(v)]) @@ names]
st_let(s, S, names) ==
    LET got == rhs_value(s.rhs, S, names)
        m == IF s.m # Untyped THEN s.m ELSE IF size(got.x) # Untyped THEN size(got.x)
             ELSE IF got.x.e.v \in 0..(Byte - 1) THEN Byte ELSE Word
    IN  Bound(s.name, coerce(got.x, m), got, names)
st_assign(s, S, names) ==
    LET got == rhs_value(s.rhs, S, names)
        both == expr(infix(s.op, made(expr(s.lval, S, names)), made(got.x)), S, names)
    IN  IF s.op = ":=" THEN Then(got.pre, assign_to(s.lval, got.x, got.st, names))
        ELSE IF Calls(s.rhs, S) THEN Did(<<>>, Fail(S))
        ELSE assign_to(s.lval, both, Seen(got.st, <<both>>), names)
st_stream(s, S, names) ==
    LET found == IF s.within = <<>> THEN None ELSE lookup(s.within[1], S, names)
        base == coerce(expr(s.base, S, names), Word)
        pos == coerce(expr(s.pos, S, names), Byte)
        b == S.uid + 1
        ok == s.within = <<>> \/ (RoBytes(found) /\ ~(Fixed(base.e) /\ base.e.v > Len(found.items)))
        entry == [is |-> "stream", base |-> b, pos |-> b + 1, arr |-> IF RoBytes(found) THEN <<found>> ELSE <<>>]
        T == Seen(Fresh(S, 2), <<base, pos>>)
    IN  [out |-> <<Set(b, base.e), Set(b + 1, pos.e)>>, st |-> [T EXCEPT !.bad = @ \/ ~ok],
         names |-> (s.name :> entry) @@ names]

\* Arms left to right; a static test picks its arm, else the stores of both count.
st_if(arms, other, S, names) ==
    LET x == truth(arms[1][1], S, names)
        T == Seen(S, <<x>>)
        then == Body(arms[1][2], T, names)
        orelse == st_if(Tail(arms), other, [then.st EXCEPT !.writers = T.writers], names)
    IN  IF arms = <<>> THEN Body(other, S, names)
        ELSE IF Fixed(x.e) THEN IF x.e.v # 0 THEN then ELSE st_if(Tail(arms), other, T, names)
        ELSE Did(<<If(x.e, then.out, orelse.out)>>, [orelse.st EXCEPT !.writers = @ \union then.st.writers])
st_while(s, S, names) ==
    LET x == truth(s.c, S, names)
        w == Body(s.body, Seen(S, <<x>>), names)
        c == IF S.ret # <<>> /\ \E i \in DOMAIN s.body : returns(s.body[i])
             THEN mk("land", Bool, <<x.e, NotReturned(S)>>) ELSE x.e
    IN  Did(<< [is |-> "loop", c |-> c, bound |-> s.bound, body |-> w.out] >>, [w.st EXCEPT !.bad = @ \/ s.bound <= 0])
\* A static for is its body once for each item.
st_for(name, items, body, S, names) ==
    LET w == Body(body, S, (name :> StaticName(items[1])) @@ names)
        r == st_for(name, Tail(items), body, w.st, names)
    IN  IF items = <<>> THEN Did(<<>>, S) ELSE Then(w.out, r)
st_return(s, S, names) ==
    LET x == coerce(expr(s.value[1], S, names), S.ret[1].m)
        flag == Set(S.ret[1].flag, Const(1, Bool))
    IN  IF S.ret = <<>> THEN Did(<<>>, Fail(S))
        ELSE IF (s.value = <<>>) # (S.ret[1].slot = <<>>) THEN Did(<<flag>>, Fail(S))
        ELSE IF s.value = <<>> THEN Did(<<flag>>, S)
        ELSE Did(<<Set(S.ret[1].slot[1], x.e), flag>>, Seen(S, <<x>>))

\* A control: its states are bits of a cell, or a variable of its own.
CtlCell(ctl, S) ==
    LET own == S.b.inst[S.inst].cells IN IF ctl.ref \in DOMAIN own THEN own[ctl.ref] ELSE S.b.shared[ctl.ref]
control_value(ctl, S) ==
    IF ctl.is = "hidden" THEN Pure(Var(ctl.ref, Byte))
    ELSE build("and", Byte, <<read_cell(CtlCell(ctl, S), <<>>, S), Exactly(ctl.mask, Byte)>>)
st_in(s, S, names) ==
    LET controls == S.b.inst[S.inst].controls
        ctl == controls[s.name]
        x == control_value(ctl, S)
        arms == SelectSeq(s.arms, LAMBDA arm : arm[1] \in DOMAIN ctl.values)
        Arm(w, arm) ==      \* the last arm is lowered first
            LET then == Body(arm[2], w.st, names)
                test == build("eq", Bool, <<x, Exactly(ctl.values[arm[1]], Byte)>>)
            IN  Did(<<If(test.e, then.out, w.out)>>, then.st)
    IN  IF s.name \notin DOMAIN controls THEN Did(<<>>, Fail(S))
        ELSE Through(Arm, Did(<<>>, [Seen(S, <<x>>) EXCEPT !.bad = @ \/ Len(arms) # Len(s.arms)]), Reverse(arms))
st_goto(s, S) ==
    LET controls == S.b.inst[S.inst].controls
        owners == {c \in DOMAIN controls : s.state \in DOMAIN controls[c].values}
        ctl == controls[CHOOSE c \in owners : TRUE]
        cell == CtlCell(ctl, S)
        kept == build("and", Byte, <<read_cell(cell, <<>>, S), Exactly(ctl.mask ^^ (Byte - 1), Byte)>>)
        merged == build("or", Byte, <<kept, Exactly(ctl.values[s.state] & ctl.mask, Byte)>>)
    IN  IF Cardinality(owners) # 1 THEN Did(<<>>, Fail(S))
        ELSE IF ctl.is = "hidden" THEN Did(<<Set(ctl.ref, Const(ctl.values[s.state], Byte))>>, S)
        ELSE write_cell(cell, <<>>, merged, S)
\* The reactions to an event of the objects and handlers a firing reaches, in order;
\* one that wraps fires the event below.
reactions_to(event, S) ==
    LET Handled(w, h) ==
            LET b == Body(h.body, [w.st EXCEPT !.proc = h.name], Empty)
            IN  IF event \in h.events THEN Did(w.out \o b.out, [b.st EXCEPT !.proc = w.st.proc]) ELSE w
        Reacted(w, obj) ==
            LET flag == [i \in DOMAIN obj.fires |-> w.st.uid + 1]
                ops == operands(obj, event, w.st)
                out == Append(w.out, step_stmt(obj, event, ops, flag))
                T == Seen(Fresh(w.st, Len(flag)), ops)
                inner == reactions_to(obj.fires[1], T)
            IN  IF event \notin DOMAIN obj.reactions THEN w
                ELSE IF flag = <<>> THEN Did(out, T)
                ELSE Did(Append(out, If(Var(flag[1], Bool), <<Fired(obj.fires[1], inner.out)>>, <<>>)), inner.st)
        React(w, item) == IF item.is = "handler" THEN Handled(w, item) ELSE Reacted(w, item)
    IN  Through(React, Did(<<>>, S), visible_objects(S))
\* fire event; runs the reactions, fire event { ... } states them.
st_fire(s, S, names) ==
    LET w == IF s.body = <<>> THEN reactions_to(s.event, S) ELSE Body(s.body[1], S, names)
    IN  IF s.event \notin DOMAIN S.b.events THEN Did(<<>>, Fail(S)) ELSE Did(<<Fired(s.event, w.out)>>, w.st)
\* react object on event(operands) -> flag.
st_react(s, S, names) ==
    LET found == find_object(s.name, S)
        obj == Last(found)
        own == s.a = <<>> /\ obj.kind = "cursor"
        ops == IF own THEN operands(obj, s.event, S)
               ELSE [i \in DOMAIN s.a |-> coerce(expr(s.a[i], S, names), obj.widths[i])]
        flag == [i \in DOMAIN s.out |-> IF s.out[i] \in DOMAIN names THEN names[s.out[i]] ELSE None]
        odd == \E f \in Members(flag) : IF f.is = "var" THEN f.m # Bool ELSE TRUE
        known == IF found = <<>> THEN FALSE ELSE s.event \in DOMAIN obj.reactions
    IN  IF ~known THEN Did(<<>>, Fail(S))
        ELSE IF ~own /\ Len(s.a) # Len(obj.widths) THEN Did(<<>>, Fail(S))
        ELSE Did(<<step_stmt(obj, s.event, ops, IF odd THEN <<>> ELSE [i \in DOMAIN flag |-> flag[i].n])>>,
                 [Seen(S, ops) EXCEPT !.bad = @ \/ odd])

\* The statements copying a staging block to the SID, in register order.
flush(S) ==
    IF S.b.stage = <<>> THEN <<>>
    ELSE [r \in 1..REGISTERS |-> Wr(Const(S.b.sid + r - 1, Word), Rd(Const(S.b.stage[1] + r - 1, Word)))]

st_stmt(s, S, names) ==
    LET In(w) == [out |-> w.out, st |-> w.st, names |-> names]
        c == truth(s.c, S, names)
        got == next_byte(s.stream, S, names)
        proc == find_proc(s.name, S)
        list == list_value(s.list, S, names)
    IN  CASE s.is = "let" -> st_let(s, S, names)
          [] s.is = "next_let" -> Bound(s.name, got.x, got, names)
          [] s.is = "stream" -> st_stream(s, S, names)
          [] s.is = "assign" -> In(st_assign(s, S, names))
          [] s.is = "next_set" -> In(Then(got.pre, assign_to(s.lval, got.x, got.st, names)))
          [] s.is = "if" -> In(st_if(s.arms, s.other, S, names))
          [] s.is = "while" -> In(st_while(s, S, names))
          [] s.is = "for" -> In(st_for(s.name, list.items, s.body, [S EXCEPT !.bad = @ \/ list.bad], names))
          [] s.is = "return" -> In(st_return(s, S, names))
          [] s.is = "assert" -> In(Did(<<Guard(c.e)>>, Seen(S, <<c>>)))
          [] s.is = "finish" -> In(Did(Append(flush(S), [is |-> "finish"]), S))
          [] s.is = "in" -> In(st_in(s, S, names))
          [] s.is = "goto" -> In(st_goto(s, S))
          [] s.is = "fire" -> In(st_fire(s, S, names))
          [] s.is = "react" -> In(st_react(s, S, names))
          [] s.is = "call" -> In(IF proc = <<>> THEN Did(<<>>, Fail(S)) ELSE inline(proc[1], s.a, S, names, <<>>))

-----------------------------------------------------------------------------
(* Declarations, bound in the instance the elaboration is in. *)

Keep(S, kind, name, entry) ==
    IF S.inst = <<>> THEN [S EXCEPT !.b[kind] = (name :> entry) @@ @]
    ELSE [S EXCEPT !.b.inst[S.inst][kind] = (name :> entry) @@ @]

\* The layout fields an expression reads.
RECURSIVE layout_names(_)
layout_names(e) == IF e.is = "attr" THEN {e.attr}
                   ELSE IF e.is = "num" THEN {}
                   ELSE IF "a" \in DOMAIN e THEN UNION {layout_names(e.a[i]) : i \in DOMAIN e.a} ELSE {}

bind_bits(d, S) ==
    [f \in DOMAIN d.bits |-> [i \in 1..2 |-> Static(d.bits[f][i], S, Local(S))]]
bind_cell(S, d) ==
    LET Placed(p) == [i \in DOMAIN d.place |-> expr(d.place[i], [S EXCEPT !.place = p], Local(S))]
        At(p) == [i \in DOMAIN d.place |-> Placed(p)[i].e.v % Word]
        procs == {k[2] : k \in {k \in DOMAIN S.b.layout : Len(k) = 2}}
        moved == {p \in procs : \E i \in DOMAIN d.place : \E f \in layout_names(d.place[i]) : <<f, p>> \in DOMAIN S.b.layout}
        packed == d.typ = "pack"
        low == IF d.low = <<>> THEN 8 ELSE Static(d.low[1], S, Local(S))
        length == IF d.size = <<>> THEN <<>> ELSE <<Static(d.size[1], S, Local(S))>>
        bits == bind_bits(d, S)
        typ == IF packed \/ (d.typ = "ptr" /\ d.size = <<>>) THEN "u16" ELSE d.typ
        top == IF typ = "u8" THEN 8 ELSE 16
        bad == \/ d.typ = "bool" \/ {"ro", "out"} \subseteq d.attrs
               \/ (Len(d.place) = 2 /\ typ = "u8") \/ (~packed /\ d.low # <<>>)
               \/ packed /\ (d.size # <<>> \/ low \notin 1..8 \/ low + 8 < d.wide)
               \/ \E f \in DOMAIN bits : ~(0 <= bits[f][1] /\ bits[f][1] <= bits[f][2] /\ bits[f][2] < top)
               \/ \E i \in DOMAIN d.place : ~StaticOk(Placed("")[i])
    IN  Keep([S EXCEPT !.bad = @ \/ bad], IF S.inst = <<>> THEN "shared" ELSE "cells", d.name,
             [name |-> d.name, owner |-> S.inst, typ |-> typ, length |-> length, place |-> At(""),
              variants |-> [p \in IF "per_proc" \in d.attrs THEN moved ELSE {} |-> At(p)],
              attrs |-> d.attrs, bits |-> bits, pack |-> IF packed THEN <<low, d.wide>> ELSE <<>>])
\* A record's fields are cells at offsets that follow one another unless placed, within its stride.
bind_record(S, d) ==
    LET own == S.b.inst[S.inst]
        stride == static(d.stride, S)
        base == IF own.x = <<>> THEN d.base ELSE infix("+", d.base, infix("*", named(own.index), d.stride))
        cells == IF S.inst = <<>> THEN DOMAIN S.b.shared ELSE DOMAIN own.cells
        Next(w, f) ==
            LET placed == f.at # <<>>
                at == IF placed THEN static(f.at[1], S).v ELSE w.at
                bytes == at..(at + (IF f.typ = "u8" THEN 0 ELSE 1))
                place == infix("+", base, Constant(at, Untyped))
                bad == ~placed /\ (Max(bytes) >= stride.v \/ bytes \intersect w.taken # {})
            IN  [at |-> Max(bytes) + 1, taken |-> w.taken \union bytes,
                 st |-> bind_cell([w.st EXCEPT !.bad = @ \/ bad \/ f.name \in cells],
                                  [name |-> f.name, typ |-> f.typ, size |-> <<>>, place |-> <<place>>, low |-> <<>>,
                                   attrs |-> {}, bits |-> Empty, wide |-> 0])]
    IN  Through(Next, [at |-> 0, taken |-> {}, st |-> [S EXCEPT !.bad = @ \/ stride.bad]], d.fields).st
\* Every byte a cell spans.
extent(cell) ==
    LET count == IF cell.length = <<>> THEN 1 ELSE cell.length[1]
        each == IF cell.typ = "u8" \/ Len(cell.place) = 2 THEN count ELSE 2 * count
    IN  {(p + i) % Word : p \in {cell.place[k] : k \in DOMAIN cell.place}, i \in 0..(each - 1)}

\* A variable kept from call to call.
Kept(S, m, value) == [Fresh(S, 1) EXCEPT !.b.controls = Append(@, [n |-> S.uid + 1, m |-> m, init |-> value]),
                                         !.b.kept = @ \union {S.uid + 1}]
array_items(d, S) ==
    LET e == d.init
        each == IF e.is = "alist" THEN [i \in DOMAIN e.a |-> Static(e.a[i], S, Local(S))]
                ELSE S.b.layout[<<e.attr>>]
        one == <<Static(e, S, Local(S))>>
        listed == e.is = "alist" \/ (e.is = "attr" /\ e.name = "L" /\ S.b.spec.layout[e.attr] = "list")
        want == IF d.size = <<>> THEN Len(each) ELSE Static(d.size[1], S, Local(S))
    IN  IF listed THEN [items |-> each, bad |-> Len(each) # want]
        ELSE [items |-> [i \in 1..want |-> one[1]], bad |-> d.ro \/ d.size = <<>>]
bind_array(S, d) ==
    LET got == array_items(d, S)
        fits == \A i \in DOMAIN got.items : got.items[i] \in 0..(d.m - 1)
        T == IF d.ro THEN S ELSE Through(LAMBDA w, v : Kept(w, d.m, v), S, got.items)
        items == IF d.ro THEN got.items ELSE [i \in DOMAIN got.items |-> S.uid + i]
    IN  Keep([T EXCEPT !.bad = @ \/ got.bad \/ ~fits \/ d.m = Bool], "states", d.name,
             [is |-> "array", m |-> d.m, ro |-> d.ro, items |-> items])
bind_state(S, d) ==
    LET x == coerce(expr(d.init, S, Local(S)), d.m) IN
    IF d.array THEN bind_array(S, d)
    ELSE Keep([Kept(S, d.m, x.e.v) EXCEPT !.bad = @ \/ d.ro \/ ~StaticOk(x)], "states", d.name,
              [is |-> "var", n |-> S.uid + 1, m |-> d.m])
bind_signal(S, d) ==
    LET x == coerce(expr(d.init, S, Local(S)), d.m) IN
    Keep([Fresh(S, 1) EXCEPT !.bad = @ \/ ~StaticOk(x),
                             !.b.signals = Append(@, [n |-> S.uid + 1, m |-> d.m, init |-> x.e.v])],
         "signals", d.name, [n |-> S.uid + 1, m |-> d.m])
bind_control(S, d) ==
    LET values == [s \in {d.states[i][1] : i \in DOMAIN d.states} |->
                      LET i == CHOOSE i \in DOMAIN d.states : d.states[i][1] = s
                          v == d.states[i][2]
                      IN  IF v = <<>> THEN i - 1 ELSE Static(v[1], S, Local(S))]
        own == S.b.inst[S.inst].cells
        cell == IF d.cell \in DOMAIN own THEN own[d.cell] ELSE S.b.shared[d.cell]
        ok == IF d.cell \in DOMAIN own \union DOMAIN S.b.shared THEN cell.length = <<>> /\ cell.typ = "u8" ELSE FALSE
    IN  IF d.cell = "" THEN Keep(Kept(S, Byte, values[d.states[1][1]]), "controls", d.name,
                                 [is |-> "hidden", ref |-> S.uid + 1, mask |-> Byte - 1, values |-> values])
        ELSE Keep([S EXCEPT !.bad = @ \/ ~ok], "controls", d.name,
                  [is |-> "cell", ref |-> d.cell, mask |-> Static(d.mask, S, Local(S)), values |-> values])

\* A table's fields follow one another unless placed, within its stride.
bind_table(S, name) ==
    LET t == S.b.spec.tables[name]
        size2 == Static(t.stride, S, Empty)
        Next(w, f) == LET at == IF f.at = <<>> THEN w.at ELSE f.at[1]
                          bytes == at..(at + (IF f.m = Byte THEN 0 ELSE 1))
                      IN  [at |-> Max(bytes) + 1, taken |-> w.taken \union bytes,
                           bad |-> w.bad \/ bytes \intersect w.taken # {} \/ Max(bytes) >= size2,
                           fields |-> (f.name :> [at |-> at, m |-> f.m]) @@ w.fields]
        placed == Through(Next, [at |-> 0, taken |-> {}, bad |-> FALSE, fields |-> Empty], t.fields)
        based == (t.base # <<>>) # (t.via # <<>> \/ t.within # <<>>)
    IN  [S EXCEPT !.b.tables = (name :> placed.fields) @@ @,
                  !.bad = @ \/ placed.bad \/ ~based \/ name \in DOMAIN S.b.shared]
\* The register block, and for a staging copy the SID the frame ends by copying it to.
bind_output(S, d) ==
    LET T == bind_cell(S, [name |-> d.name, typ |-> "u8", size |-> <<num(REGISTERS)>>, place |-> <<d.at>>,
                           attrs |-> {"out"}, bits |-> Empty, low |-> <<>>, wide |-> 0])
        base == T.b.shared[d.name].place[1]
    IN  IF d.copy = <<>> THEN [T EXCEPT !.b.sid = base]
        ELSE [T EXCEPT !.b.sid = Static(d.copy[1], S, Empty), !.b.stage = <<base>>]
bind_const(S, d) ==
    LET x == expr(d.e, S, Empty) IN
    [S EXCEPT !.b.consts = (d.name :> x.e) @@ @, !.bad = @ \/ ~StaticOk(x)]

Instance_ == [x |-> <<>>, index |-> "", signals |-> Empty, states |-> Empty, cells |-> Empty, controls |-> Empty,
              procs |-> Empty, objects |-> <<>>]
bind_instance(S, ident) ==
    LET m == S.b.spec.machines[ident[1]]
        fresh == [Instance_ EXCEPT !.x = Tail(ident), !.index = m.index, !.procs = m.procs]
        into == [S EXCEPT !.inst = ident, !.b.inst = (ident :> fresh) @@ @]
        cells == Through(bind_record, Through(bind_cell, into, m.cells), m.records)
        signals == Through(bind_signal, cells, m.signals)
        states == Through(bind_state, signals, m.states)
        controls == Through(bind_control, states, m.controls)
    IN  [Through(declare_reacting, controls, m.objects) EXCEPT !.inst = S.inst]
Idents(S) ==
    LET spec == S.b.spec IN
    UNION {IF spec.machines[m].index = "" THEN {<<m>>}
           ELSE {<<m, i>> : i \in Static(spec.machines[m].lo, S, Empty)..(Static(spec.machines[m].hi, S, Empty) - 1)}
           : m \in DOMAIN spec.machines}

\* The elaboration once everything declared is bound.
Start(spec, binding) ==
    [b |-> [spec |-> spec, layout |-> binding, consts |-> Empty, shared |-> Empty, states |-> Empty, tables |-> Empty,
            inst |-> (<<>> :> Instance_), signals |-> <<>>, controls |-> <<>>, kept |-> {}, stage |-> <<>>, sid |-> 0,
            inputs |-> CpuVars, events |-> Empty],
     uid |-> 9, bad |-> FALSE, ran |-> {}, writers |-> {}, procs |-> <<>>, lowered |-> Empty, latched |-> {},
     ret |-> <<>>, inst |-> <<>>, proc |-> "", place |-> "", stack |-> {}]
Lowerer(spec, binding) ==
    LET consts == Through(bind_const, bind_events(Start(spec, binding)), spec.consts)
        cells == Through(bind_cell, consts, spec.cells)
        states == Through(bind_state, cells, spec.states)
        tables == Through(bind_table, states, SetToSeq(DOMAIN spec.tables))
        outputs == Through(bind_output, tables, spec.outputs)
        records == Through(bind_record, outputs, spec.records)
        objects == Through(declare_reacting, records, spec.objects)
        all == Through(bind_instance, objects, SetToSeq(Idents(objects)))
    IN  [all EXCEPT !.bad = @ \/ Len(spec.outputs) > 1]

-----------------------------------------------------------------------------
(* The schedule: an instance's step, an if on statics or signals, a static *)
(* for.  An instance has run after an if only where both arms ran it.      *)

run_instance(ident, S) ==
    LET procs == S.b.inst[ident].procs
        w == inline(procs["step"], <<>>, [S EXCEPT !.inst = ident], Empty, <<>>)
    IN  IF "step" \notin DOMAIN procs THEN Did(<<>>, Fail(S))
        ELSE Did(w.out, [w.st EXCEPT !.inst = S.inst, !.ran = @ \union {ident}])
RECURSIVE sitems(_, _, _), sfor(_, _, _, _, _)
sitems(items, S, names) ==
    LET item == Head(items)
        x == IF item.at = <<>> THEN <<>> ELSE <<expr(item.at[1], S, names)>>
        ident == machine_instance(item.name, x, S)
        c == truth(item.c, S, names)
        T == Seen(S, <<c>>)
        then == sitems(item.then, T, names)
        orelse == sitems(item.orelse, [then.st EXCEPT !.ran = S.ran], names)
        list == list_value(item.list, S, names)
        w == CASE item.is = "inst" -> IF ident = <<>> THEN Did(<<>>, Fail(S)) ELSE run_instance(ident[1], S)
               [] item.is = "sif" ->
                    IF Fixed(c.e) THEN sitems(IF c.e.v # 0 THEN item.then ELSE item.orelse, T, names)
                    ELSE Did(<<If(c.e, then.out, orelse.out)>>, [orelse.st EXCEPT !.ran = @ \intersect then.st.ran])
               [] item.is = "sfor" -> sfor(item.name, list.items, item.items, [S EXCEPT !.bad = @ \/ list.bad], names)
    IN  IF items = <<>> THEN Did(<<>>, S) ELSE Then(w.out, sitems(Tail(items), w.st, names))
sfor(name, values, items, S, names) ==
    LET w == sitems(items, S, (name :> StaticName(values[1])) @@ names) IN
    IF values = <<>> THEN Did(<<>>, S) ELSE Then(w.out, sfor(name, Tail(values), items, w.st, names))

\* No two instances of a machine share a byte of a private cell.
bind_checks(S) ==
    \A i, j \in DOMAIN S.b.inst :
        (i # j /\ i # <<>> /\ j # <<>> /\ i[1] = j[1]) =>
            \A c \in DOMAIN S.b.inst[i].cells :
                extent(S.b.inst[i].cells[c]) \intersect extent(S.b.inst[j].cells[c]) = {}
\* The play call of a specification, which reads what it declares: its signals' defaults,
\* its schedule and the staging copy.
elaborate(spec, binding) ==
    LET S == Lowerer(spec, binding)
        w == sitems(spec.schedule, S, Empty)
        defaults == [i \in DOMAIN S.b.signals |-> Set(S.b.signals[i].n, Const(S.b.signals[i].init, S.b.signals[i].m))]
    IN  [ok |-> ~w.st.bad /\ bind_checks(S), body |-> defaults \o w.out \o flush(S), procs |-> w.st.procs,
         controls |-> S.b.controls, vars |-> w.st.uid, b |-> S.b]
=============================================================================
