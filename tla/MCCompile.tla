------------------------------ MODULE MCCompile ------------------------------
(***************************************************************************)
(* Specifications ir of two machines, the steps of each taken from a     *)
(* pool of statements, are compiled for several layouts and played for two *)
(* calls from several memories, beside what their documents promise.       *)
(***************************************************************************)
EXTENDS Lower, TLC

CONSTANTS Compiled(_, _),           \* elaborate
          Began(_, _),              \* what a specification keeps before the first call
          Reference(_, _, _, _, _), \* one call of a specification, as documented
          Frames                    \* how many calls are played

VARIABLE st

M == INSTANCE Meaning WITH Registers <- REGISTERS

-----------------------------------------------------------------------------
(* Syntax. *)

N(v) == num(v)
X(name) == named(name)
Yes == [is |-> "bool", v |-> 1]
A(left, attr) == [is |-> "attr", name |-> left, attr |-> attr]
L(f) == A("L", f)
Part(left, attr, part) == [is |-> "attr2", name |-> left, attr |-> attr, part |-> part]
At(name, i) == [is |-> "index", name |-> name, at |-> i]
Row(name, i, attr) == [is |-> "inst_attr", name |-> name, at |-> i, attr |-> attr]
Rows(name, i, j, attr) == [is |-> "row_attr", name |-> name, a |-> <<i, j>>, attr |-> attr]
Mem(e) == [is |-> "mem", a |-> <<e>>]
F(f, args) == [is |-> "func", name |-> f, a |-> args]
Nay(e) == [is |-> "!", a |-> <<e>>]
Assign(l, o, e) == [is |-> "assign", lval |-> l, op |-> o, rhs |-> e]
To(l, e) == Assign(l, ":=", e)
Let(name, e) == [is |-> "let", name |-> name, m |-> Untyped, rhs |-> e]
LetAs(name, m, e) == [is |-> "let", name |-> name, m |-> m, rhs |-> e]
When(c, then, orelse) == [is |-> "if", arms |-> <<<<c, then>>>>, other |-> orelse]
While(c, n, body) == [is |-> "while", c |-> c, bound |-> n, body |-> body]
For(name, list, body) == [is |-> "for", name |-> name, list |-> list, body |-> body]
Span(lo, hi) == [is |-> "irange", a |-> <<N(lo), N(hi)>>]
Return == [is |-> "return", value |-> <<>>]
Give(e) == [is |-> "return", value |-> <<e>>]
Run(p, args) == [is |-> "call", name |-> p, a |-> args]
Stream(name, base, pos) == [is |-> "stream", name |-> name, base |-> base, pos |-> pos, within |-> <<>>]
StreamIn(name, array, base, pos) == [Stream(name, base, pos) EXCEPT !.within = <<array>>]
NextLet(name, stream) == [is |-> "next_let", name |-> name, stream |-> stream]
NextSet(l, stream) == [is |-> "next_set", lval |-> l, stream |-> stream]
Finish == [is |-> "finish"]
Goto(state) == [is |-> "goto", state |-> state]
On(control, arms) == [is |-> "in", name |-> control, arms |-> arms]
Claim(c) == [is |-> "assert", c |-> c]
Sum(l, r) == infix("+", l, r)
Less(l, r) == infix("<", l, r)
Is(l, r) == infix("==", l, r)

Cell(name, typ, place) ==
    [name |-> name, typ |-> typ, size |-> <<>>, place |-> place, low |-> <<>>, attrs |-> {}, bits |-> Empty, wide |-> 0]
Many(d, n) == [d EXCEPT !.size = <<N(n)>>]
With(d, attrs) == [d EXCEPT !.attrs = attrs]
Packed(name, place, low, wide) ==
    [Cell(name, "pack", place) EXCEPT !.low = IF low = 8 THEN <<>> ELSE <<N(low)>>, !.wide = wide]
State(name, m, init) == [name |-> name, m |-> m, init |-> init, size |-> <<>>, ro |-> FALSE, array |-> FALSE]
Items(name, m, init, count, ro) == [State(name, m, init) EXCEPT !.array = TRUE, !.size = count, !.ro = ro]
Listing(values) == [is |-> "alist", a |-> [i \in DOMAIN values |-> N(values[i])]]
Param(name, m) == [is |-> "value", name |-> name, m |-> m]
StreamParam(name) == [is |-> "stream", name |-> name, m |-> Byte]
Proc(name, params, m, body) == [name |-> name, params |-> params, m |-> m, body |-> body]
Procs(procs) == [n \in {p.name : p \in procs} |-> CHOOSE p \in procs : p.name = n]
Signal(name, m, init) == [name |-> name, m |-> m, init |-> init]
Hidden(name, states) == [name |-> name, cell |-> "", mask |-> N(0), states |-> states]
Field_(name, m, at) == [name |-> name, m |-> m, at |-> at]
Table(base, via, within) ==
    [base |-> base, via |-> via, within |-> within, stride |-> N(4), offset |-> <<>>,
     fields |-> <<Field_("wait", Byte, <<>>), Field_("pitch", Word, <<2>>)>>]
View(is, of, base, fields) == [is |-> is, of |-> of, base |-> base, fields |-> fields]
Inst(name, at) == [is |-> "inst", name |-> name, at |-> at]

-----------------------------------------------------------------------------
(* A player: a clock, then voices, in a memory of 64 bytes. *)

Fields == [base |-> "num", order |-> "list", fast |-> "flag", rate |-> "num"]
Layout(base, fast, rate) ==
    <<"base">> :> base @@ <<"order">> :> <<2, 0, 1>> @@ <<"fast">> :> fast @@ <<"rate">> :> rate
    @@ <<"base", "aside">> :> (base + 1)
Layouts == <<Layout(16, 1, 3), Layout(17, 0, 2)>>

Shared ==
    << Cell("tempo", "u8", <<L("base")>>),
       [Cell("flags", "u8", <<N(18)>>) EXCEPT !.bits = [low |-> <<N(0), N(1)>>, mid |-> <<N(2), N(5)>>]],
       Cell("acc", "u16", <<N(20)>>),
       Cell("freq", "u16", <<N(22), N(24)>>),
       Many(Cell("wave", "u8", <<N(26)>>), 3),
       [Many(Cell("wide", "u16", <<N(29)>>), 2) EXCEPT !.bits = [top |-> <<N(12), N(15)>>]],
       Packed("pulse", <<N(33), N(34)>>, 8, 12),
       Packed("cut", <<N(35), N(36)>>, 3, 11),
       With(Cell("gate", "u8", <<N(37)>>), {"latched"}),
       With(Cell("song", "u8", <<N(19)>>), {"ro"}),
       With(Cell("moved", "u8", <<Sum(L("base"), N(22))>>), {"per_proc"}),
       Cell("b1", "u8", <<N(64)>>), Cell("b2", "u8", <<N(65)>>), Cell("b3", "u8", <<N(66)>>), Cell("w1", "u16", <<N(67)>>),
       Cell("b5", "u8", <<N(69)>>), Cell("b6", "u8", <<N(70)>>), Cell("b7", "u8", <<N(71)>>), Cell("b4", "u8", <<N(72)>>),
       Cell("b8", "u8", <<N(73)>>), Cell("ptr", "ptr", <<N(2)>>),
       Many(Cell("ptrs", "ptr", <<N(4), N(6)>>), 2) >>
SharedStates ==
    << State("seen", Byte, N(5)), State("total", Word, N(300)), State("done", Bool, [is |-> "bool", v |-> 0]),
       Items("hist", Byte, N(9), <<N(3)>>, FALSE), Items("wides", Word, Listing(<<1, 400>>), <<>>, FALSE),
       Items("tune", Byte, Listing(<<99, 0, 1, 4, 6, 2, 8, 5, 0, 7, 1, 3, 8, 0>>), <<>>, TRUE), State("first_", Byte, N(1)),
       Items("data", Byte, Listing(<<7, 5, 0, 1, 2, 3, 44, 0>>), <<>>, TRUE), Items("turn", Byte, L("order"), <<>>, TRUE) >>
Tables == [rows |-> Table(<<N(44)>>, <<>>, <<>>), seqs |-> Table(<<>>, <<"ptr">>, <<>>),
           parts |-> Table(<<>>, <<"ptrs">>, <<>>), held |-> Table(<<>>, <<>>, <<"data">>)]
Views == [head |-> View("at", "", <<N(44)>>, [first |-> N(0), third |-> N(2)]),
          inside |-> View("in", "data", <<N(1)>>, [first |-> N(0), last |-> N(6)]),
          through |-> View("via", "ptrs", <<>>, [first |-> N(0), third |-> N(2)])]

Helpers ==
    Procs({ Proc("bump", <<Param("k", Byte)>>, Untyped,
                 <<When(Is(X("k"), N(0)), <<Return>>, <<>>), Assign(X("tempo"), "+", X("k"))>>),
            Proc("pick", <<Param("k", Byte), Param("w", Word)>>, Word,
                 << When(Less(X("k"), N(2)), <<Give(Sum(X("w"), X("k")))>>, <<>>), Give(N(258)) >>),
            Proc("take", <<StreamParam("from")>>, Untyped, <<NextSet(X("tempo"), "from"), NextSet(X("seen"), "from")>>),
            Proc("aside", <<>>, Untyped, <<Assign(X("moved"), "+", N(1))>>),
            Proc("again", <<>>, Untyped, <<Run("again", <<>>)>>) })
Clock(objects, body) ==
    [objects |-> objects, records |-> <<>>, index |-> "", lo |-> N(0), hi |-> N(1), cells |-> <<Cell("count", "u8", <<N(8)>>)>>,
     signals |-> <<Signal("beat", Bool, [is |-> "bool", v |-> 0]), Signal("step_", Byte, N(7))>>,
     states |-> <<State("left", Byte, N(1))>>,
     controls |-> << Hidden("phase", <<<<"idle", <<>>>>, <<"busy", <<>>>>>>),
                     [name |-> "mode", cell |-> "flags", mask |-> N(192), states |-> <<<<"off", <<N(0)>>>>, <<"on", <<N(128)>>>>>>] >>,
     procs |-> Procs({Proc("step", <<>>, Untyped, body)})]
Voice(objects, records, body) ==
    [objects |-> objects, records |-> records, index |-> "v", lo |-> N(0), hi |-> N(2), cells |-> <<Cell("note", "u8", <<Sum(N(10), X("v"))>>)>>,
     signals |-> <<Signal("on", Bool, [is |-> "bool", v |-> 0])>>,
     states |-> <<State("wait", Byte, N(2)), Items("own", Byte, Listing(<<4, 8>>), <<>>, FALSE)>>,
     controls |-> <<>>, procs |-> Procs({Proc("step", <<>>, Untyped, body), Proc("mark", <<>>, Untyped, <<To(X("on"), Yes)>>)})]
Voices == [is |-> "sfor", name |-> "k", list |-> Span(0, 2), items |-> <<Inst("voice", <<X("k")>>)>>]
OnBeat == [is |-> "sif", c |-> A("clock", "beat"), then |-> <<Inst("voice", <<N(1)>>)>>, orelse |-> <<>>]
Schedules == << <<Inst("clock", <<>>), Voices>>, <<Inst("clock", <<>>), Inst("voice", <<N(0)>>), OnBeat>>,
                <<Inst("voice", <<N(0)>>), Inst("clock", <<>>)>> >>
Outputs == << <<>>, << [name |-> "sid", at |-> N(40), copy |-> <<N(60)>>] >> >>
Player(first, second, schedule, outputs, cast) ==
    [events |-> cast.events, objects |-> cast.shared, records |-> <<>>, layout |-> Fields, consts |-> << [name |-> "Top", e |-> Sum(L("rate"), N(1))] >>, cells |-> Shared, states |-> SharedStates,
     tables |-> Tables, views |-> Views, outputs |-> outputs, machines |-> [clock |-> Clock(cast.clock, first), voice |-> Voice(cast.voice, cast.records, second)],
     procs |-> Helpers, schedule |-> schedule]

-----------------------------------------------------------------------------
(* What the steps do. *)

Neg(e) == F("neg", <<e>>)
Down(l) == Assign(l, "-", N(1))


Clocks ==
    << \* a countdown that reloads, and a signal
       <<Down(X("left")), When(Neg(X("left")), <<To(X("left"), X("Top")), To(X("beat"), Yes)>>, <<>>)>>,
       \* cells of two bytes, and an index that leaves its array
       <<Assign(X("acc"), "+", F("sx", <<X("flags")>>)), To(X("freq"), X("acc")), To(At("wide", X("left")), X("freq"))>>,
       <<To(At("wave", X("tempo")), Sum(At("wave", X("left")), X("tempo"))), To(X("acc"), At("wide", N(1)))>>,
       <<Assign(X("pulse"), "+", N(200)), To(X("cut"), X("pulse")), Assign(X("cut"), "-", N(5)), To(X("ptr"), X("cut"))>>,
       \* arrays of the specification's own
       <<To(At("hist", X("left")), X("tempo")), To(X("seen"), At("hist", infix("&", X("tempo"), N(3))))>>,
       <<To(At("wides", X("left")), X("acc")), To(X("total"), Sum(At("wides", N(0)), At("turn", X("left"))))>>,
       \* returns
       << [is |-> "if", arms |-> <<<<Is(X("tempo"), N(0)), <<Assign(X("tempo"), "+", N(1)), Return>>>>,
                                   <<Less(X("tempo"), N(9)), <<To(X("beat"), Yes)>>>>>>,
           other |-> <<When(L("fast"), <<Return>>, <<>>), Down(X("seen"))>>],
          Assign(X("acc"), "+", N(1)), When(X("beat"), <<Return>>, <<>>), Down(X("count")) >>,
       <<While(Less(X("seen"), N(8)), 4, <<Assign(X("seen"), "+", N(1)),
                                           When(Is(X("seen"), X("tempo")), <<Return>>, <<>>), Down(X("count"))>>),
         To(X("beat"), Yes)>>,
       <<Run("bump", <<X("left")>>), Let("w", F("pick", <<X("left"), X("acc")>>)), To(X("acc"), X("w")),
         To(X("freq"), F("pick", <<N(3), N(4)>>)), Run("bump", <<N(2)>>)>>,
       \* streams
       <<Stream("s", N(44), X("left")), NextLet("n", "s"), To(X("seen"), Sum(X("n"), At("s", N(1)))),
         Run("take", <<X("s")>>), To(X("count"), A("s", "pos"))>>,
       <<StreamIn("s", "data", N(4), N(0)), NextSet(X("seen"), "s"), Run("take", <<X("s")>>), To(A("s", "pos"), X("left")),
         NextSet(X("count"), "s"), When(infix("<", X("count"), N(4)), <<NextSet(X("tempo"), "s")>>, <<>>)>>,
       \* parts of values
       <<To(A("flags", "mid"), X("tempo")), Assign(A("flags", "low"), "+", N(1)), To(A("tempo", "hi"), A("flags", "mid")),
         To(A("total", "lo"), A("tempo", "hi")), Let("w", X("acc")), To(A("w", "hi"), A("w", "lo")), To(X("acc"), X("w"))>>,
       \* tables and views
       <<To(Row("rows", X("left"), "pitch"), Sum(Row("rows", N(0), "pitch"), N(300))),
         To(Row("seqs", N(1), "wait"), Row("held", N(1), "wait")), To(X("acc"), Rows("parts", X("left"), N(0), "pitch"))>>,
       <<To(X("seen"), A("head", "third")), To(X("count"), A("inside", "last")), To(X("tempo"), Row("through", X("left"), "first"))>>,
       \* controls
       <<On("phase", <<<<"idle", <<Goto("busy"), Goto("on")>>>>, <<"busy", <<To(X("beat"), Yes)>>>>>>),
         On("mode", <<<<"on", <<Down(X("seen"))>>>>>>), When(Is(X("seen"), N(3)), <<Goto("off"), Goto("idle")>>, <<>>)>>,
       \* a frame that ends early
       <<To(X("gate"), X("seen")), To(At("sid", N(1)), X("seen")), When(X("done"), <<Finish>>, <<>>), To(X("done"), Yes)>>,
       <<Run("aside", <<>>), Assign(X("moved"), "+", N(2)), For("i", L("order"), <<Assign(X("seen"), "+", X("i"))>>),
         For("i", Span(1, 3), <<To(At("wave", X("i")), Sum(X("i"), At("turn", X("i"))))>>), Claim(Less(X("seen"), N(12)))>>,
       \* operators
       <<To(X("tempo"), F("rol", <<X("seen"), F("carry", <<X("seen"), X("tempo")>>)>>)),
         To(X("acc"), F("ror", <<X("acc"), F("borrow", <<X("acc"), N(300), A("cpu", "c")>>)>>)),
         To(X("count"), F("ite", <<F("sgt", <<X("tempo"), X("count")>>), F("lo", <<X("acc")>>), F("hi", <<X("acc")>>)>>)),
         To(X("total"), infix("*", X("total"), F("word", <<X("tempo"), N(1)>>))), To(X("tempo"), A("cpu", "x"))>>,
       <<To(X("seen"), F("u8", <<F("bit", <<X("acc"), N(9)>>)>>)), To(X("tempo"), F("ind", <<N(2), infix("&", X("tempo"), N(1))>>)),
         To(X("ptr"), infix("|", F("zp", <<X("acc")>>), N(1))), To(X("count"), F("u8", <<F("owns", <<X("count"), N(255)>>)>>)),
         To(Mem(infix("&", Sum(X("left"), N(44)), N(63))), F("lo", <<[is |-> "mem16", a |-> <<N(44)>>]>>)),
         When([is |-> "&&", a |-> <<F("slt", <<X("seen"), X("tempo")>>), Nay(F("sle", <<X("count"), N(1)>>))>>], <<Down(X("seen"))>>, <<>>)>>,
       <<For("i", Span(0, 3), <<When(F("member", <<X("i"), Span(1, 3)>>), <<Assign(X("seen"), "*", Sum(X("i"), N(1)))>>, <<>>)>>),
         To(X("tempo"), infix("%", Sum(F("len", <<X("hist")>>), [A("L", "order") EXCEPT !.is = "attr_index"] @@ [at |-> N(0)]), N(4))),
         To(X("acc"), infix("<<", F("u16", <<X("seen")>>), infix("/", N(9), N(4)))), To(X("seen"), infix(">>", X("seen"), X("left"))),
         [is |-> "group", body |-> <<Let("w", [is |-> "~", a |-> <<X("acc")>>]), [is |-> "label", body |-> <<To(X("freq"), X("w"))>>]>>],
         To(X("acc"), infix("^", X("w"), F("sx", <<[is |-> "uminus", a |-> <<X("seen")>>]>>))),
         To(X("beat"), [is |-> "||", a |-> <<F("sge", <<X("acc"), N(0)>>), infix(">=", X("w"), X("acc"))>>])>>,
       <<To(A("total", "hi"), Part("flags", "mid", "lo")), To(Row("wide", N(1), "top"), A("tempo", "lo")),
         To(X("gate"), Sum(A("clock", "count"), A("inside", "first"))), To(X("seen"), X("gate")),
         To(A("seen", "lo"), Row("wide", X("left"), "top"))>>,
       \* errors
       <<LetAs("b", Byte, X("acc"))>>, <<When(X("tempo"), <<Return>>, <<>>)>>, <<To(X("song"), N(1))>>, <<To(X("seen"), At("turn", N(3)))>>,
       <<Run("again", <<>>)>>, <<Run("bump", <<N(1), N(2)>>)>>, <<To(X("seen"), X("pitch"))>>, <<To(X("seen"), N(256))>>,
       <<Return, Down(X("seen"))>>, <<To(X("data"), N(1))>>, <<Let("w", F("bump", <<N(1)>>))>>, <<To(Row("held", N(0), "wait"), N(1))>>,
       <<Goto("away")>>, <<To(X("acc"), F("word", <<X("acc"), N(1)>>))>>, <<To(X("beat"), Row("voice", N(0), "on"))>>,
       <<To(A("clock", "beat"), Yes)>>, <<To(X("tempo"), Sum(X("done"), N(1)))>>, <<To(X("done"), Nay(X("tempo")))>>,
       <<Stream("s", N(44), N(0)), Run("take", <<N(44)>>)>>, <<On("phase", <<<<"gone", <<>>>>>>)>>, <<Let("w", F("pick", <<N(1)>>))>> >>

Steps ==
    << <<Down(X("wait")), When(Neg(X("wait")), <<To(X("wait"), X("v")), Assign(X("note"), "+", N(1)), Run("mark", <<>>)>>, <<>>)>>,
       <<When(A("clock", "beat"), <<Assign(X("note"), "+", At("own", X("v"))), To(At("own", X("wait")), X("note"))>>, <<>>), Down(X("wait"))>>,
       <<To(X("note"), X("gate")), To(At("sid", X("v")), X("note"))>>,
       <<When(X("done"), <<Return>>, <<>>), To(X("gate"), X("v")), To(At("wave", X("v")), X("gate")), Run("aside", <<>>)>>,
       <<To(Row("voice", N(0), "wait"), X("v")), When(Less(Row("voice", N(0), "note"), N(3)), <<Assign(X("note"), "+", N(2)), Finish>>, <<>>)>>,
       <<When(Row("voice", N(0), "on"), <<Down(X("note"))>>, <<>>), Run("mark", <<>>)>> >>

-----------------------------------------------------------------------------
(* Objects. *)

When_(events, op, amount) == [events |-> events, op |-> op, amount |-> N(amount)]
Counter(name, cell, on) ==
    [is |-> "counter", name |-> name, cell |-> cell, on |-> on, limit |-> <<>>, gate |-> <<>>, fires |-> <<>>, reload |-> <<>>]
Moves(events, mode, target) == [events |-> events, mode |-> mode, target |-> target]
Accum(name, cell, on) == [is |-> "accum", name |-> name, cell |-> cell, dir |-> <<>>, step |-> <<>>, on |-> on, fires |-> <<>>]
Claims(events, action, when) == [events |-> events, action |-> action, when |-> when]
Owner_(name, cell, on) == [is |-> "owner", name |-> name, cell |-> cell, id |-> <<>>, none |-> <<>>, on |-> on]
Handler(name, events, body) == [is |-> "handler", name |-> name, events |-> events, body |-> body]
Does(events, action) == [events |-> events, action |-> action]
Walker(name, pos, on, rows) ==
    [is |-> "cursor", name |-> name, bases |-> <<N(44)>>, arrays |-> <<>>, origin |-> <<>>, width |-> <<>>, pos |-> pos,
     count |-> <<>>, run |-> <<>>, ret |-> <<>>, values |-> <<>>, start |-> <<>>, adv |-> "", on |-> on, fires |-> <<>>, rows |-> rows]
Over_(array, d) == [d EXCEPT !.bases = <<>>, !.arrays = <<array>>]
Case(lo, hi, act) == [lo |-> N(lo), hi |-> <<N(hi)>>, cond |-> <<>>, act |-> act, then |-> <<>>, when |-> <<>>]
Put_(name, e) == [name |-> name, part |-> "", e |-> e, cond |-> <<>>, when |-> <<>>]
Half(name, part, e) == [Put_(name, e) EXCEPT !.part = part]
Value_(sets) == [is |-> "set", sets |-> sets, take |-> <<>>]
Sweep(into, count, step) == [is |-> "sweep", into |-> into, count |-> count, step |-> step, frac |-> <<>>]
Hold_(count) == [is |-> "delay", count |-> count]
Jump_(e) == [is |-> "jump", to_ |-> e, hold |-> <<>>, via |-> <<>>]
End_ == [is |-> "end", take |-> <<>>]
Stop_ == [is |-> "stop"]
Feed(name, base, pos, fields) ==
    [is |-> "stream", name |-> name, base |-> base, within |-> <<>>, pos |-> pos, last |-> FALSE,
     on |-> <<Does(<<"row">>, "step")>>, run |-> <<>>, fields |-> fields, fires |-> <<>>]
Field2(name, when, outs) == [name |-> name, when |-> when, outs |-> outs]
Out_(cell, e, when) == [cell |-> cell, e |-> e, when |-> when]
Event(name, parent) == [name |-> name, parent |-> parent]
FireOf(event) == [is |-> "fire", event |-> event, body |-> <<>>]
By(event, body) == [is |-> "fire", event |-> event, body |-> <<body>>]
ReactTo(name, event, a, out) == [is |-> "react", name |-> name, event |-> event, a |-> a, out |-> out]
Flagged(name) == LetAs(name, Bool, [is |-> "bool", v |-> 0])
And_(c, n) == infix("&", X(c), N(n))
Cast(shared, clock, body, step) ==
    [events |-> <<Event("turn", "row"), Event("beaten", "turn")>>, shared |-> shared, clock |-> clock, voice |-> <<>>,
     records |-> <<>>, body |-> body, step |-> step]
NoCast == [Cast(<<>>, <<>>, <<>>, <<>>) EXCEPT !.events = <<>>]
Frame == <<FireOf("frame")>>
Idle == <<Down(X("wait"))>>
Idle_ == <<Down(X("left"))>>

Tempo == [Counter("speed", "tempo", <<When_(<<"frame">>, "-=", 1)>>) EXCEPT !.reload = <<X("seen")>>, !.fires = <<"tick">>]
Beats == [Counter("beats", "total", <<When_(<<"tick">>, "+=", 200), When_(<<"note">>, "reset", 0)>>)
             EXCEPT !.limit = <<infix("+", N(600), F("u16", <<X("seen")>>))>>, !.fires = <<"row">>]
Gated == [Counter("gated", "b1", <<When_(<<"frame", "row">>, "+=", 3)>>) EXCEPT !.gate = <<Is(X("b1"), X("tempo"))>>, !.fires = <<"turn">>]
Slide == [Accum("slide", "w1", <<Moves(<<"frame">>, "tri", <<>>), Moves(<<"turn">>, "flip", <<>>)>>)
             EXCEPT !.dir = <<"b2">>, !.step = <<X("freq")>>, !.fires = <<"row">>]
Glide == [Accum("glide", "seen", <<Moves(<<"row", "tick">>, "to", <<X("tempo")>>)>>) EXCEPT !.step = <<N(3)>>, !.fires = <<"note">>]
Holder == [Owner_("holder", "b3", <<Claims(<<"note">>, "claim", <<Less(X("tempo"), N(9))>>), Claims(<<"legato">>, "release", <<>>)>>)
              EXCEPT !.none = <<N(7)>>]
\* The pulse table: a row holds a value or a sweep.
PulseArms ==
    << [Case(0, 127, Sweep(X("w1"), And_("c0", 3), X("c1"))) EXCEPT !.then = <<Put_("b2", N(4))>>],
       [Case(128, 200, Value_(<<Half("w1", "hi", And_("c0", 127)), Half("w1", "lo", X("c1"))>>))
           EXCEPT !.when = <<Nay(F("neg", <<X("c2")>>))>>, !.then = <<[Put_("b1", X("c1")) EXCEPT !.when = <<F("bit", <<X("c1"), N(2)>>)>>]>>],
       [Case(128, 254, Hold_(infix(">>", And_("c1", 6), N(1)))) EXCEPT !.then = <<Put_("b5", N(1))>>], Case(255, 255, Stop_) >>
Pulse == [Walker("pulse", "b4", <<Does(<<"frame">>, "step"), Does(<<"note">>, "reset")>>, PulseArms)
             EXCEPT !.width = <<N(3)>>, !.count = <<"b5">>, !.start = <<And_("seen", 3)>>, !.fires = <<"tick">>]
Fine == [Pulse EXCEPT !.values = <<"w1">>, !.rows = <<[Case(0, 255, [Sweep(A("w1", "hi"), N(2), X("c1")) EXCEPT !.frac = <<F("ite", <<L("fast"), N(3), N(0)>>)>>])
                                     EXCEPT !.then = <<[Put_("b2", infix("<<", And_("c0", 15), N(4))) EXCEPT !.cond = <<L("fast")>>]>>]>>]
\* Rows of an array: pos rests on the row that was read.
TuneArms ==
    << [Case(0, 1, Value_(<<Put_("b1", X("c1")), Put_("w1", infix("&", N(5), X("c1")))>>)) EXCEPT !.act.take = <<N(2)>>],
       [Case(2, 2, Jump_(X("c1"))) EXCEPT !.act.hold = <<N(9), N(9)>>], [Case(3, 3, Jump_(N(8))) EXCEPT !.act.via = <<N(0)>>],
       [Case(4, 4, [is |-> "call", to_ |-> X("c1")]) EXCEPT !.cond = <<L("fast")>>], Case(5, 5, [is |-> "return"]),
       [Case(6, 7, [is |-> "run", base |-> N(6)]) EXCEPT !.then = <<Put_("b2", X("c1"))>>], Case(8, 8, End_) >>
Tune == Over_("tune", [Walker("tuner", "b8", <<Does(<<"frame">>, "step"), Does(<<"note">>, "reset")>>, TuneArms)
                          EXCEPT !.width = <<N(2)>>, !.run = <<"b6">>, !.ret = <<"b7">>, !.adv = "pre", !.fires = <<"row">>,
                                 !.origin = <<X("first_")>>])
Later == [Tune EXCEPT !.on = <<Does(<<"row">>, "step"), Does(<<"frame">>, "settle"), Does(<<"note">>, "reset")>>, !.fires = <<"legato">>]
Pair == [Walker("pair", "b4", <<Does(<<"tick">>, "step")>>, <<Case(0, 255, Value_(<<Put_("b1", X("c0")), Put_("b2", X("c1"))>>))>>)
            EXCEPT !.bases = <<X("ptr"), Sum(N(44), And_("b1", 15))>>]
\* A pattern: a note, a byte there is with some notes, and runs of rests.
Pattern ==
    [Feed("pattern", N(44), "b4",
          << Field2("n", <<>>, <<Out_("b1", X("n"), <<>>)>>),
             Field2("fx", <<Is(And_("n", 1), N(1))>>, <<Out_("b2", And_("fx", 15), <<F("neg", <<X("fx")>>)>>), Out_("w1", N(3), <<>>)>>),
             Field2("fy", <<Nay(Is(X("fx"), N(1)))>>, <<Out_("b5", infix(">>", X("fy"), N(1)), <<>>)>>) >>)
        EXCEPT !.run = <<[range |-> <<N(60), N(63), N(60)>>, cell |-> "b6"]>>, !.on[1].events = <<"row", "frame">>]
Rests == [Pattern EXCEPT !.within = <<"tune">>, !.base = X("first_"), !.last = TRUE,
                         !.on = @ \o <<Does(<<"tick">>, "settle"), Does(<<"note">>, "reset")>>, !.run[1].range = <<N(2), N(4), N(2)>>]

Tell == Handler("tell", {"row", "note"}, <<Assign(X("count"), "+", N(1)), When(Is(X("count"), N(3)), <<Run("bump", <<N(2)>>)>>, <<>>)>>)
Good ==
    << Cast(<<Tempo, Beats>>, <<Tell>>, Frame, <<When(Less(X("total"), N(400)), <<FireOf("note")>>, <<>>), To(X("note"), F("lo", <<X("total")>>))>>),
       Cast(<<Handler("first", {"tick"}, <<Down(X("seen"))>>), Tempo>>, <<Glide, Gated, Tell>>, Frame, Idle),
       Cast(<<Slide>>, <<[Gated EXCEPT !.fires = <<"beaten">>], Handler("turned", {"beaten"}, <<FireOf("legato"), To(X("beat"), Yes)>>)>>,
            <<FireOf("frame"), FireOf("turn"), FireOf("frame")>>, Idle),
       Cast(<<Pulse, Tempo>>, <<>>, Frame \o <<To(X("count"), A("pulse", "c1"))>>, <<FireOf("note")>>),
       Cast(<<[Pulse EXCEPT !.bases = <<N(54)>>, !.rows[2].when = <<F("neg", <<X("c2")>>)>>]>>, <<>>, Frame \o Frame \o Frame, <<FireOf("note")>>),
       Cast(<<Fine>>, <<Tell>>, Frame \o Frame, Idle),
       Cast(<<Tune>>, <<Tell>>, Frame \o Frame \o <<When(A("tuner", "idle"), <<To(X("count"), A("tuner", "ahead"))>>, <<>>)>>, <<FireOf("note")>>),
       Cast(<<Later>>, <<Tell>>, <<FireOf("note"), FireOf("frame"), FireOf("row"), FireOf("row")>>, Idle),
       Cast(<<Pair>>, <<>>, <<Flagged("f"), ReactTo("pair", "tick", <<>>, <<"f">>), ReactTo("pair", "tick", <<N(45), N(46), N(1)>>, <<>>),
                              To(X("beat"), X("f"))>>, Idle),
       Cast(<<Pattern>>, <<Tell>>, <<FireOf("row"), FireOf("frame"), To(X("count"), A("pattern", "c0"))>>, Idle),
       Cast(<<Rests>>, <<>>, <<FireOf("note"), FireOf("tick"), FireOf("row"), FireOf("tick"), FireOf("row")>>, Idle),
       Cast(<<Holder>>, <<>>, Idle_, <<When(Is(X("wait"), X("v")), <<FireOf("legato")>>, <<FireOf("note")>>), Down(X("wait")),
              When(A("holder", "mine"), <<Assign(X("note"), "+", N(1))>>, <<>>), When(A("holder", "free"), <<To(X("note"), N(9))>>, <<>>)>>),
       [Cast(<<Tempo>>, <<>>, << By("frame", <<Flagged("f"), ReactTo("speed", "frame", <<N(1), X("count")>>, <<"f">>),
                                               When(X("f"), <<By("tick", <<Down(X("left")), When(Is(X("left"), N(0)), <<Return>>, <<>>)>>)>>, <<>>)>>),
                                 To(X("beat"), Yes) >>, <<FireOf("frame"), FireOf("row")>>)
          EXCEPT !.voice = << [Counter("paced", "wait", <<When_(<<"frame">>, "-=", 2)>>) EXCEPT !.reload = <<Sum(X("v"), N(1))>>, !.fires = <<"row">>],
                              Counter("phased", "phase_", <<When_(<<"row">>, "+=", 90)>>), Handler("noted", {"row"}, <<To(X("note"), X("rate_")), Run("mark", <<>>)>>) >>,
                 !.records = << [base |-> N(76), stride |-> N(2), fields |-> << [name |-> "phase_", typ |-> "u8", at |-> <<>>],
                                                                               [name |-> "rate_", typ |-> "u8", at |-> <<>>] >>] >>] >>
\* Declarations that are errors, and uses of objects that are.
Odd(d) == Cast(<<d>>, <<>>, Frame, Idle)
Using(body) == Cast(<<Tempo, Pulse>>, <<>>, body, Idle)
Bad ==
    << [NoCast EXCEPT !.events = <<Event("row", "tick")>>], [NoCast EXCEPT !.events = <<Event("turn", "later")>>],
       Odd([Tempo EXCEPT !.fires = <<"frame">>]), Odd([Tempo EXCEPT !.fires = <<"gone">>]), Odd([Tempo EXCEPT !.cell = "wave"]),
       Odd([Tempo EXCEPT !.cell = "Top"]), Odd([Tempo EXCEPT !.on[1].events = <<"frame", "frame">>]), Odd([Tempo EXCEPT !.on[1].amount = N(0)]),
       Odd([Tempo EXCEPT !.on[1].amount = X("tempo")]), Odd([Tempo EXCEPT !.on[1].events = <<"later">>]), Odd([Gated EXCEPT !.limit = <<N(1)>>]),
       Odd([Slide EXCEPT !.dir = <<>>]), Odd([Slide EXCEPT !.dir = <<"w1">>]), Odd([Holder EXCEPT !.cell = "w1"]),
       Odd([Pulse EXCEPT !.count = <<>>]), Odd([Pulse EXCEPT !.adv = "pre"]), Odd([Pulse EXCEPT !.rows[1].act.count = Sum(X("c0"), N(1))]),
       Odd([Pulse EXCEPT !.rows[1].act.step = infix("<<", infix(">>", X("c1"), N(1)), N(1))]), Odd([Pulse EXCEPT !.rows[2].when = <<Is(X("c1"), X("c0"))>>]),
       Odd([Pulse EXCEPT !.rows[2].then[1].part = "hi"]), Odd([Pulse EXCEPT !.rows[1].act.into = A("b1", "hi")]), Odd([Pulse EXCEPT !.width = <<N(17)>>]),
       Odd([Tune EXCEPT !.run = <<>>]), Odd([Tune EXCEPT !.ret = <<>>]), Odd([Tune EXCEPT !.rows[6].act.base = N(7)]), Odd([Tune EXCEPT !.arrays = <<"hist">>]),
       Odd([Later EXCEPT !.adv = ""]), Odd([Pattern EXCEPT !.fields[1].when = <<F("neg", <<X("n")>>)>>]), Odd([Pattern EXCEPT !.run[1].range[3] = N(61)]),
       Odd([Pattern EXCEPT !.fields[2].when = <<Is(X("fx"), N(1))>>]), Odd([Pattern EXCEPT !.pos = "w1"]), Odd([Pattern EXCEPT !.fields[2].outs[1].e = X("n")]),
       Odd(Handler("tell", {"later"}, <<>>)), Cast(<<Tempo>>, <<[Beats EXCEPT !.name = "speed"]>>, Frame, Idle),
       [Cast(<<>>, <<>>, <<>>, Idle) EXCEPT !.records = << [base |-> N(76), stride |-> N(1), fields |-> << [name |-> "phase_", typ |-> "u16", at |-> <<>>] >>] >>],
       Using(<<FireOf("later")>>), Using(<<ReactTo("speed", "tick", <<N(1), N(1)>>, <<>>)>>), Using(<<ReactTo("speed", "frame", <<N(1)>>, <<>>)>>),
       Using(<<ReactTo("gone", "frame", <<>>, <<>>)>>), Using(<<ReactTo("speed", "frame", <<N(1), X("acc")>>, <<>>)>>),
       Using(<<ReactTo("speed", "frame", <<N(1), N(1)>>, <<"beat">>)>>), Using(<<To(X("count"), A("pulse", "c3"))>>), Using(<<To(X("count"), A("speed", "mine"))>>),
       Cast(<<Tempo>>, <<>>, Idle_, <<FireOf("frame"), To(X("left"), N(1))>>), Cast(<<Handler("tell", {"row"}, <<Down(X("left"))>>)>>, <<>>, Idle_, <<FireOf("row")>>) >>
Casts == Good \o Bad

Ram == 0..79 \union {Word - 2, Word - 1}
Pointers == [low |-> <<48, 0, 44, 0, 48, 0>>, high |-> <<44, 0, 44, 0, 45, 0>>]     \* from address 2
Places == <<0, 4, 0, 255>>      \* what the cursors' bytes hold, from address 70
Memory(pointers, Byte_(_)) == [a \in Ram |-> IF a \in 2..7 THEN Pointers[pointers][a - 1] ELSE IF a \in 70..73 THEN Places[a - 69] ELSE Byte_(a)]
Memories == << Memory("low", LAMBDA a : 0), Memory("high", LAMBDA a : (a * 7) % Byte), Memory("low", LAMBDA a : Byte - 1) >>
Entry == [r \in DOMAIN CpuInputs |-> [v |-> CpuVars[r] % 2, m |-> CpuInputs[r], bad |-> ""]]

-----------------------------------------------------------------------------

Spec_(pick) ==
    IF pick.cast # 0 THEN Player(Casts[pick.cast].body, Casts[pick.cast].step, Schedules[1], Outputs[1], Casts[pick.cast])
    ELSE Player(Clocks[pick.clock], Steps[pick.voice], Schedules[pick.order], Outputs[1 + (pick.voice % 2)], NoCast)
Inputs(ir) == [n \in 1..9 |-> Entry[CHOOSE r \in DOMAIN CpuVars : CpuVars[r] = n].v]
                @@ [n \in {ir.controls[i].n : i \in DOMAIN ir.controls} |->
                       ir.controls[CHOOSE i \in DOMAIN ir.controls : ir.controls[i].n = n].init]
Program(ir) == [body |-> ir.body, procs |-> ir.procs, vars |-> ir.vars + 1]

Init == st = [at |-> "root"]
Picks ==
    {[cast |-> n, clock |-> 1, voice |-> 1, order |-> 1] : n \in DOMAIN Casts}
    \union {p \in [cast : {0}, clock : DOMAIN Clocks, voice : DOMAIN Steps, order : DOMAIN Schedules] :
                ~(p.order = 2 /\ p.voice = 4)}      \* its error is on a path only some clocks take
\* A specification is put together and compiled.
Compile ==
    /\ st.at = "root"
    /\ \E pick \in Picks, l \in DOMAIN Layouts : st' = [at |-> "picked", pick |-> pick, layout |-> Layouts[l]]
Elaborate ==
    /\ st.at = "picked"
    /\ \E ir \in {Compiled(Spec_(st.pick), st.layout)} : st' = [at |-> "compiled", pick |-> st.pick, layout |-> st.layout, ir |-> ir]
\* The tune starts with a memory; both sides hold their initial values.
Begin ==
    /\ st.at = "compiled" /\ st.ir.ok
    /\ \E i \in DOMAIN Memories :
          st' = [at |-> "play", pick |-> st.pick, layout |-> st.layout, ir |-> st.ir, calls |-> 0,
                 left |-> [mem |-> Memories[i], vars |-> Inputs(st.ir), log |-> <<>>, why |-> ""],
                 right |-> [mem |-> Memories[i], kept |-> Began(Spec_(st.pick), st.layout), log |-> <<>>, why |-> ""]]
\* One call of the play routine.
Call ==
    /\ st.at = "play" /\ st.calls < Frames /\ st.left.why # "raise" /\ st.right.why \in {"", "finish"}
    /\ \E left \in {frame(Program(st.ir), st.left.mem, [n \in DOMAIN Inputs(st.ir) |-> st.left.vars[n]])},
          right \in {Reference(Spec_(st.pick), st.layout, st.right.mem, st.right.kept, Entry)} :
          st' = [st EXCEPT !.left = left, !.right = right, !.calls = @ + 1]

Next == Compile \/ Elaborate \/ Begin \/ Call
Spec == Init /\ [][Next]_st

-----------------------------------------------------------------------------
(* Properties. *)

\* The variable of the program that keeps what a variable of the specification holds.
Variable(key) ==
    LET b == st.ir.b
        home == b.inst[key[1]]
        entry == IF key[1] = <<>> THEN b.states[key[2]] ELSE home.states[key[2]]
    IN  CASE Len(key) = 3 -> entry.items[key[3] + 1]
          [] key[2] \in DOMAIN home.signals -> home.signals[key[2]].n
          [] key[2] \in DOMAIN home.controls -> home.controls[key[2]].ref
          [] OTHER -> entry.n

\* What the compiler accepts does in every call what docs/playspec.md says of the
\* specification: the same stores in the same order, the same memory, the same
\* values kept for the next call, and it ends the same way (lower.py, lowerops.py,
\* lowerarray.py, lowerview.py).
SameRun ==
    (st.at = "play" /\ st.right.why # "static") =>
        /\ st.left.log = st.right.log /\ st.left.mem = st.right.mem /\ st.left.why = st.right.why
        /\ st.left.why # "raise" => \A key \in DOMAIN st.right.kept : st.left.vars[Variable(key)] = st.right.kept[key]

\* A call, or a later one, meets an error of the specification.
RECURSIVE Meets(_, _, _, _)
Meets(spec, mem, kept, calls) ==
    \E run \in {Reference(spec, st.layout, mem, kept, Entry)} :
        \/ run.why = "static"
        \/ calls > 1 /\ run.why # "raise" /\ Meets(spec, run.mem, run.kept, calls - 1)

\* What it accepts never does, on any path a call takes, what the documents call an
\* error of the specification; and what it refuses is such an error: the calls from some
\* memory meet it (Diagnostics, lower.py).
Diagnosed ==
    /\ st.at = "play" => st.right.why # "static"
    /\ st.at = "compiled" /\ ~st.ir.ok =>
        \E spec \in {Spec_(st.pick)} : \E i \in DOMAIN Memories : Meets(spec, Memories[i], Began(spec, st.layout), Frames)

MCElaborate(spec, binding) == LET ir == elaborate(spec, binding) IN ir
MCStart(spec, binding) == LET kept == M!Start(spec, binding) IN kept
MCPlayed(spec, binding, mem, kept, entry) == LET run == M!Played(spec, binding, mem, kept, entry) IN run
=============================================================================
