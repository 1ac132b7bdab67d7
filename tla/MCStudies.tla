------------------------------ MODULE MCStudies ------------------------------
(***************************************************************************)
(* The survey and what studies its results.  The state s is one of the     *)
(* areas below, its area tells which.                                      *)
(***************************************************************************)
EXTENDS Studies, Paths, FaultLoc

-----------------------------------------------------------------------------
(* Survey: two runs of different renderers, a file comparison of a part of *)
(* the song and a lead table share a work directory, one subtune of which  *)
(* they are all about.                                                     *)

MCJobs == << Begun("run", "a", 1, 3, 3), Begun("run", "a", 2, 3, 3), Begun("run", "a", 1, 2, 2),
             Begun("file", "a", 2, 2, 2), Begun("leads", "a", 2, 3, 3) >>
MCGroups == {[n \in 1..3 |-> MCJobs[picked[n]]] : picked \in {<<1, 2, 4>>, <<1, 3, 4>>, <<1, 3, 5>>, <<2, 4, 5>>}}

-----------------------------------------------------------------------------
(* Tables: what a survey says of three subtunes; and an image that is      *)
(* matched with two of other loads.                                        *)

MCResults == {[verdict |-> v, min_bad |-> b, first |-> f] :
                <<v, b, f>> \in {<<"exact", 0, 0>>, <<"differs", 1, 2>>, <<"differs", 2, 1>>, <<"differs", NoBad, 1>>,
                              <<"library_error", NoBad, 0>>}}
Images(lengths) == UNION {[1..n -> {0, 1}] : n \in lengths}
MCMatches ==
    {[cands |-> <<abq[1], abq[2]>>, q |-> abq[3], width |-> 4, max_offset |-> 2, guard |-> 1] :
        abq \in Images(2..4) \X Images(2..4) \X Images(1..3)}

-----------------------------------------------------------------------------
(* Paths: a play call of four instructions runs, from the first of them;   *)
(* init enters at the first or the third.  Routines outside the span       *)
(* return to their caller.                                                 *)

MaxSteps == 8
I(mn, mode, length, to) == [mn |-> mn, mode |-> mode, length |-> length, to |-> to]
Plain == I("STA", "", 1, 0)
Rts == I("RTS", "", 1, 0)
Via == I("JMP", "ind", 3, 0)
Bne(n) == I("BNE", "rel", 2, n)
Jmp(n) == I("JMP", "abs", 3, n)
Jsr(n) == I("JSR", "abs", 3, n)
Slots == << {Plain, Bne(3), Jsr(3), Jsr(4), Jsr(0)}, {Rts, Jmp(1), Plain, Jmp(0), Via},
            {Plain, Bne(4), Bne(1), Jsr(4), Jmp(0), Via}, {Rts, Jmp(3), Plain} >>

\* The instructions in a row from address 1; to was the number of the target's.
Laid(is, smc) ==
    LET At(n) == IF n = 0 THEN 0 ELSE 1 + SumFunction([k \in 1..(n - 1) |-> is[k].length])
    IN  [lo |-> 1, hi |-> At(5), smc |-> {At(n) : n \in smc}, third |-> At(3),
         insn |-> [pc \in {At(n) : n \in 1..4} |->
                     LET i == is[CHOOSE n \in 1..4 : At(n) = pc] IN [i EXCEPT !.to = At(@)]]]

PathsInit ==
    \E a \in Slots[1], b \in Slots[2], c \in Slots[3], d \in Slots[4], smc \in {{}, {2}}, init \in BOOLEAN :
        LET p == Laid(<<a, b, c, d>>, smc)
            entries == {1} \union (IF init THEN {p.third} ELSE {})
        IN  s = [area |-> "paths", p |-> p, entries |-> entries, static |-> static_code(p, entries),
                 pc |-> 1, stack |-> <<>>, pcs |-> <<>>, wrote |-> <<>>, tail |-> FALSE, done |-> FALSE]

\* The CPU goes to pc with a stack of return sites; tail: it left by a jump or a fall.
Goes(pc, stack, done) ==
    s' = [s EXCEPT !.pcs = Append(@, s.pc), !.pc = pc, !.stack = stack, !.done = done,
                   !.wrote = IF inspan(s.p, s.pc) /\ ~Flows(s.p, s.pc)
                             THEN Append(@, <<Len(s.pcs) + 1, 0>>) ELSE @,
                   !.tail = @ \/ (/\ inspan(s.p, s.pc) /\ ~inspan(s.p, pc)
                                  /\ s.p.insn[s.pc].mn \notin {"JSR", "RTS"})]
Pops == IF s.stack = <<>> THEN Goes(s.pc, <<>>, TRUE) ELSE Goes(Last(s.stack), Front(s.stack), FALSE)
PathsStep ==
    /\ s.area = "paths" /\ ~s.done /\ Len(s.pcs) < MaxSteps
    /\ IF ~inspan(s.p, s.pc) THEN Pops
       ELSE LET i == s.p.insn[s.pc]
            IN  CASE i.mn = "RTS" -> Pops
                  [] i.mn = "JSR" -> Goes(i.to, Append(s.stack, After(s.p, s.pc)), FALSE)
                  [] i.mode = "ind" -> \E pc \in DOMAIN s.p.insn : Goes(pc, s.stack, FALSE)
                  [] OTHER -> \E pc \in Reaches(s.p, s.pc) : Goes(pc, s.stack, FALSE)

\* Every edge a play call takes is among those found without running it, unless it
\* went through an indirect jump or left the span by a jump, of which the static
\* code knows neither the target nor the return.
EdgesStatic ==
    s.area = "paths" /\ s.done =>
        \/ Edges(s.p, s.pcs) \subseteq s.static.edges
        \/ s.tail \/ \E n \in DOMAIN s.pcs :
                        inspan(s.p, s.pcs[n]) /\ s.p.insn[s.pcs[n]].mode = "ind"

\* What a run finds changes no static edge's digest, and its name only by the rank
\* among edges of the same digest; and a run names all its edges apart.
NamesStable ==
    s.area = "paths" /\ s.done =>
        \A ran \in {cpu_paths(s.p, s.entries, s.pcs, s.wrote)},
           static \in {edge_names(s.p, s.static, {})} :
            /\ \A e \in s.static.edges :
                  /\ ran.names[e][1] = static[e][1]
                  /\ ran.names[e] = static[e]
                       \/ \E d \in (DOMAIN ran.names) \ s.static.edges : ran.names[d][1] = static[e][1]
            /\ \A e, d \in DOMAIN ran.names : e # d => ran.names[e] # ran.names[d]
            /\ Range(ran.order) = 0..(Cardinality(DOMAIN ran.order) - 1)

-----------------------------------------------------------------------------
(* Recorder: f and g call each other and the untraced u, to a depth of     *)
(* three; line 1 branches, line 2 of f and line 3 of g store to a cell.    *)
(* Each activation in live says whether the recorder saw it start, which   *)
(* it does not of a generator that is resumed by a throw; such a one is    *)
(* not directly under an activation of the same code, which the recorder   *)
(* would take for it.                                                      *)

MaxEvents == 8
Branches == {1}
Stores == [f |-> (2 :> "c"), g |-> (2 :> "d" @@ 3 :> "c"), u |-> <<>>]
RecorderInit == s = [area |-> "recorder", rec |-> Idle, live |-> <<>>, want |-> {}, events |-> 0]

Event(rec, live, want) == s' = [s EXCEPT !.rec = rec, !.live = live, !.want = @ \union want, !.events = @ + 1]
Branched(a, to) == IF a.f # "u" /\ a.last \in Branches THEN {<<a.f, a.last, to>>} ELSE {}
Top ==
    LET traced == SelectSeq(s.live, LAMBDA a : a.f # "u")
    IN  IF traced = <<>> THEN "" ELSE Last(traced).f
RecorderStep ==
    /\ s.area = "recorder" /\ s.events < MaxEvents
    /\ \/ \E f \in {"f", "g", "u"}, thrown \in BOOLEAN :
            /\ Len(s.live) < 3
            /\ thrown => f = "g" /\ Top # "g"
            /\ Event(IF f = "u" \/ thrown THEN s.rec ELSE start(s.rec, f),
                     Append(s.live, [f |-> f, last |-> -1, seen |-> ~thrown]), {})
       \/ \E n \in 1..3 :
            /\ s.live # <<>>
            /\ LET a == Last(s.live)
               IN  Event(IF a.f = "u" THEN s.rec ELSE line(s.rec, a.f, n, Branches, Stores[a.f]),
                         Append(Front(s.live), [a EXCEPT !.last = n, !.seen = TRUE]), Branched(a, n))
       \/ /\ s.live # <<>>
          /\ LET a == Last(s.live)
             IN  Event(IF a.f = "u" THEN s.rec ELSE end(s.rec, a.f, Branches),
                       Front(s.live), Branched(a, EXIT))

\* The arcs of a frame are those its activations took, each from the line before
\* in its own activation, however calls, returns and exceptions nest; its features
\* are ranked apart.
ArcsTrue ==
    s.area = "recorder" =>
        /\ DOMAIN s.rec.arcs = s.want
        /\ LET traced == SelectSeq(s.live, LAMBDA a : a.f # "u" /\ a.seen)
           IN  s.rec.stack = [n \in DOMAIN traced |-> [code |-> traced[n].f, last |-> traced[n].last]]
        /\ LET order == _py_trace(s.rec, {"c"}).order
           IN  Range(order) = 0..(Cardinality(DOMAIN order) - 1)

\* The edges a run takes are those of the static code, under its names, and the arcs
\* of a recorded frame those of its own activations (paths.py).
GraphTrue == EdgesStatic /\ NamesStable /\ ArcsTrue

-----------------------------------------------------------------------------
(* Path differences: two sides of one register over six frames, of which   *)
(* three are recorded, and an oracle of these; or of a voice, from its     *)
(* onset.                                                                  *)

Frames == 3
Side(grid) ==
    [grid |-> grid, frames |-> [n \in DOMAIN grid |-> {n % 2} \union {2 + Last(grid[n])}],
     order |-> [n \in DOMAIN grid |-> [x \in 0..3 |-> IF x < 2 THEN 1 ELSE 0]],
     sites |-> [n \in DOMAIN grid |->
                  [r \in DOMAIN grid[n] |-> IF n = 1 \/ grid[n][r] # grid[n - 1][r] THEN "s" ELSE ""]]]
\* What is traced of a side for a number of reference frames.
Traced(side, mode, frames) ==
    LET n == frames + (IF mode = "lead" THEN LEAD ELSE 0)
    IN  [side EXCEPT !.grid = SubSeq(@, 1, n), !.frames = SubSeq(@, 1, n)]
Recorded(frames) ==
    record(Traced(s.left, s.mode, frames), Traced(s.right, s.mode, frames), s.mode, <<>>, s.ora, s.cpu)

Ones(n) == [1..n -> {<<0>>, <<1>>}]
Notes(n) == [1..n -> {<<0, h, g, 0, 0>> : h \in {0, 1}, g \in {0, 1}}]
DiffInit ==
    \/ \E l \in {g \in Ones(6) : g[1] = <<0>>}, r \in Ones(6) : \E ora \in {<<>>, <<<<0>>, <<1>>, <<1>>>>} :
          s = [area |-> "diff", mode |-> "lead", left |-> Side(l), right |-> Side(r), ora |-> ora,
               cpu |-> IF ora = <<>> THEN "" ELSE "left"]
    \/ \E l \in {g \in Notes(3) : g[1] = <<0, 0, 0, 0, 0>>}, r \in Notes(3) :
          s = [area |-> "diff", mode |-> "onset", left |-> Side(l), right |-> Side(r), ora |-> <<>>, cpu |-> ""]

\* The frames that pass are those both sides agree on, the failing one is where they
\* part, in the register recorded; and no frame is kept from where the CPU's side
\* parts from the oracle.
RowsTrue ==
    s.area = "diff" =>
        \A rec \in {Recorded(Frames)} :
        LET cut == rec.cut
            Agree(n) == s.left.grid[at(cut, FALSE, n)] = s.right.grid[at(cut, TRUE, n)]
        IN  /\ s.mode = "lead" => \A n \in 1..(rec.keep - Len(rec.rows.failing)) : Agree(n)
            /\ cut.frame # 0 =>
                  /\ s.left.grid[at(cut, FALSE, cut.frame)][cut.register]
                        # s.right.grid[at(cut, TRUE, cut.frame)][cut.register]
                  /\ _matrix(rec).onset = cut.frame
                  /\ rec.left # "" \/ rec.right # ""
            /\ _outcome(rec) = "agrees" => rec.keep = cut.size
            /\ s.ora # <<>> =>
                  \A host \in {verdict_lead(s.ora, SubSeq(s.left.grid, 1, Frames + LEAD), LEAD, 0)} :
                  host.ok \/ \A n \in 1..rec.keep :
                      LET c == at(cut, FALSE, n) - Most(host.lead, 0)
                      IN  c >= 1 => c < host.first /\ s.ora[c + Most(-host.lead, 0)]
                                                        = s.left.grid[at(cut, FALSE, n)]

\* A case is as long as its verdict needs: compared over its frames alone the sides
\* part where they did, at the same lead, whatever the frames after it hold, unless
\* a lead fits what was recorded and lost only for being the longer shift.
CaseHolds ==
    s.area = "diff" =>
        \A rec \in {Recorded(Frames)} :
        LET fits == s.mode = "lead" /\ verdict_lead(Traced(s.left, "lead", Frames).grid,
                                                    Traced(s.right, "lead", Frames).grid, LEAD, 0).min_bad = 0
            Short(n) == compare(Traced(s.left, s.mode, n).grid, Traced(s.right, s.mode, n).grid,
                                s.mode, <<>>)
        IN  rec.cut.frame # 0 /\ ~rec.host /\ ~fits =>
                \A short \in {Short(case_frames(rec, s.mode))} :
                    <<short.frame, short.register, short.lead>>
                        = <<rec.cut.frame, rec.cut.register, rec.cut.lead>>

\* The rows of a record and the frames of its case show its verdict (pathdiff.py).
CasesTrue == RowsTrue /\ CaseHolds

-----------------------------------------------------------------------------
(* The cache: the names of a tune; its tunes and comparisons are alike.    *)
(* The manifest: two cases, whose keys a corpus knows or not, and three    *)
(* ranked fixes.                                                           *)

Alike == Permutations(Tunes) \union Permutations(Modes)
MCNames == {<<>>, <<<<"a">>, <<"b">>>>, <<<<"c">>, <<"b">>>>}
MCManifests ==
    {[cases |-> (1 :> [key |-> 1, tune |-> "t"] @@ 2 :> [key |-> 2, tune |-> "u"]),
      w |-> [known |-> known, fails |-> fails, cands |-> cands, fixes |-> fixes, top |-> top,
             ids |-> <<1, 2, 3>>, representative |-> <<"t", "u", "v">>]] :
        <<known, fails, cands, fixes, top>> \in
            {x \in (SUBSET {1, 2, 3}) \X [{"t", "u", "v"} -> BOOLEAN]
                    \X [{"t", "u", "v"} -> {{}, {1}, {2, 3}, {1, 2}}] \X {<<1, 2, 3>>, <<1, 3>>, <<2, 3>>} \X {1, 3} :
                Range(x[4]) \subseteq x[1]}}

-----------------------------------------------------------------------------
(* Fuzzing: two branches, of which the first runs in all three frames and  *)
(* the second in the last, have an outcome each that nothing reached, 2    *)
(* and 3; a try may reach these and the right side's 5.  What is minimised *)
(* is a patch of five entries, two of which are for one offset and one of  *)
(* which changes nothing, or of none, or which bytes of the image to keep. *)

MCFuzzes ==
    {[frames |-> <<{1, 6}, {1}, {1, 4}>>, universe |-> 1 :> "a" @@ 2 :> "a" @@ 3 :> "b" @@ 4 :> "b" @@ 7 :> "c",
      gen |-> 2 :> mutations(<<1, 2>>, <<1>>, <<2, 1>>, <<<<3>>>>)
              @@ 3 :> mutations(<<1, 2>>, ranked, <<2, 1>>, [k \in DOMAIN ranked |-> <<>>])
              @@ 7 :> mutations(<<1, 2>>, <<1>>, <<2, 1>>, <<<<>>>>),
      budget |-> budget, margin |-> 0, error |-> error, features |-> {1, 2, 3, 5}, right |-> {5}] :
        ranked \in {<<1>>, <<2>>, <<2, 1>>}, budget \in {3, 9}, error \in BOOLEAN}

MCPatch == << <<0, 1>>, <<1, 5>>, <<0, 2>>, <<2, 0>>, <<3, 1>> >>
Zeros == [o \in 0..4 |-> 0]
Ones_ == [o \in 0..4 |-> IF o = 3 THEN 0 ELSE 1]
Asked(data, patched, patch, pred) ==
    [data |-> data, patched |-> patched, patch |-> patch, addrs |-> {9, 10, 11, 12, 13, 14}, header |-> 1, load |-> 10,
     neutral |-> 0, pred |-> pred, frames |-> 3]
Bytes_ == [0..4 -> 0..2]
\* The fault of the bytes in need, or of these alone, in some numbers of frames; and a
\* departure at the one register.
Fault_(need, alone, when) ==
    [b \in Bytes_ |-> LET on == {o \in 0..4 : b[o] # 0}
                      IN  IF need \subseteq on \/ on = alone THEN when ELSE {}]
Onset == [b \in Bytes_ |-> {n \in 1..3 : same_onset([k \in 1..3 |-> <<b[k]>>], [k \in 1..4 |-> <<0>>], 1, n)}]
MCKept == {<<{0}, {}>>, <<{1, 2}, {0, 3}>>, <<{0, 1, 3}, {1}>>, <<{0, 4}, {2, 4}>>, <<{1, 2, 4}, {1}>>, <<{}, {3}>>}
MCReductions ==
    [c \in {"patch", "none", "bytes"} \X (MCKept \X {{1, 2, 3}, {2, 3}, {1, 3}, {3}, {1}} \union {<<>>}) |->
       LET data == IF c[1] = "patch" THEN Zeros ELSE Ones_
       IN  Asked(data, c[1] # "bytes", IF c[1] = "patch" THEN MCPatch ELSE <<>>,
                 IF c[2] = <<>> THEN Onset ELSE Fault_(c[2][1][1], c[2][1][2], c[2][2]))]

-----------------------------------------------------------------------------
(* Faults: the right side runs what the left does, renamed, in the frames  *)
(* that pass; at the onset each runs features of its own in some order.    *)

Twin == "a" :> "A" @@ "b" :> "B" @@ "c" :> "C" @@ "A" :> "a" @@ "B" :> "b" @@ "C" :> "c"
Sides == [f \in DOMAIN Twin \union {"info"} |->
            CASE f \in {"a", "b", "c"} -> 1 [] f \in {"A", "B", "C"} -> 2 [] OTHER -> 0]
Both(fs) == fs \union {Twin[f] : f \in fs}
Orders == {<<>>, <<"a", "c">>, <<"b">>, <<"b", "a">>, <<"b", "c">>, <<"c", "b", "a">>}
Ranked(order) == [f \in Range(order) |-> Min({n \in DOMAIN order : order[n] = f})]
Sample(pass, l, r, known, relevant) ==
    LET right == [n \in DOMAIN r |-> Twin[r[n]]]
    IN  [frames |-> Append([n \in DOMAIN pass |-> Both(pass[n])], Range(l) \union Range(right)),
         onset |-> Len(pass) + 1, extra |-> {"info"}, relevant |-> relevant,
         rank |-> IF known THEN Ranked(l) @@ Ranked(right) ELSE <<>>]
FaultInit ==
    \E p \in {{}, {"a"}, {"a", "b"}, {"b", "c"}} \X {{"a"}, {"a", "b", "c"}}, l \in Orders, r \in Orders, relevant \in {{}, {"b", "A"}} :
    \E q \in {<<>>, <<{"b"}>>}, known \in BOOLEAN :
        s = [area |-> "fault",
             samples |-> << Sample(p, l, r, TRUE, relevant), Sample(q, <<"b", "c">>, <<"b">>, known, {}) >>]
Fault == build_spectrum(s.samples, Sides)
Causes(corr) ==
    [t \in DOMAIN s.samples |->
       candidates(Fault, corr, CHOOSE r \in fail_rows(Fault) : r.tune = t, {}, {"store"})]

\* Where a side is said to part is a feature of its own whose twin the other did not run,
\* and before it, or all along if there is none, the side ran nothing that departs from
\* the other, but what the diverging register does not depend on if it depends on some
\* departure of either; sides that ran twins only have no path for a cause.
PartsTrue ==
    s.area = "fault" =>
        \A corr \in {correspond(Fault)} : \A causes \in {Causes(corr)}, t \in DOMAIN s.samples :
            \A part \in {partings(Fault, corr, t, {})} :
               LET rank == s.samples[t].rank
                   ran  == Last(s.samples[t].frames)
                   away == {f \in DOMAIN rank : corr[f] # {} /\ corr[f] \intersect ran = {}}
                   due  == {f \in away : part.relevant => f \in s.samples[t].relevant}
                   First_(side, f) ==
                       /\ f # "" => f \in due /\ Sides[f] = side /\ Twin[f] \notin ran
                       /\ \A g \in due : Sides[g] = side => f # "" /\ rank[f] <= rank[g]
               IN  /\ First_(1, part.left) /\ First_(2, part.right)
                   /\ part.relevant = (away \intersect s.samples[t].relevant # {})
                   /\ (\A f \in ran : Twin[f] \in ran /\ corr[f] # {}) =>
                         \A key \in causes[t] : key[1] \in {"value", "info"}

-----------------------------------------------------------------------------
(* Covers: the candidates of four failing tunes, with their onsets.        *)

CoverInit ==
    \E cands \in [1..4 -> {{}, {1}, {2}, {1, 2}, {2, 3}, {3, 4}, {1, 3, 4}}],
       score \in {<<1, 1, 1, 1>>, <<1, 2, 3, 4>>}, onsets \in {<<3, 3, 1, 2>>} :
        s = [area |-> "cover", cands |-> cands, score |-> score, onsets |-> onsets]

\* The fixes explain once every failing tune that has a cause, by one of its
\* candidates and from its earliest onset on, and no fewer keys do; the cover past
\* the limit explains them too.
CoverTrue ==
    s.area = "cover" =>
        LET spec == [samples |-> [t \in 1..4 |-> [onset |-> s.onsets[t]]]]
            rows == [t \in 1..4 |-> [tune |-> t]]
            due  == {t \in 1..4 : s.cands[t] # {}}
        IN  \A limit \in {0, 4} :
               \A fixes \in {rank_fixes(spec, rows, s.cands, s.score, limit)} :
                   /\ due = UNION {fixes[n].tunes : n \in DOMAIN fixes}
                   /\ \A n \in DOMAIN fixes : \A t \in fixes[n].tunes :
                         /\ fixes[n].key \in s.cands[t]
                         /\ s.onsets[fixes[n].representative] <= s.onsets[t]
                         /\ \A m \in DOMAIN fixes \ {n} : t \notin fixes[m].tunes
                   /\ limit = 4 => \A keys \in SUBSET (1..4) :
                         (\A t \in due : keys \intersect s.cands[t] # {}) => Cardinality(keys) >= Len(fixes)

\* Partings and covers blame what ran, and explain each failing tune once (faultloc.py).
BlameTrue == PartsTrue /\ CoverTrue

-----------------------------------------------------------------------------
(* Why renders part: functions of five statements, with a parameter, a     *)
(* local, an attribute and a container; 6502 runs of four steps, of which  *)
(* some are branches and the last stores to a; a render and the 6502's     *)
(* against a reference of three frames and one register; and the states of *)
(* two sides, a family of two among them, that part in a fourth frame or   *)
(* before it.                                                              *)

Stmt(line_, reads, sets, control, fresh) ==
    [at |-> line_, reads |-> reads, sets |-> sets, control |-> control, fresh |-> fresh]
MCCode ==
    {Stmt(1, {Local("y"), Attribute("v")}, {}, 0, FALSE),
     Stmt(2, {Item("c", "0")}, {Attribute("v"), Local("y")}, 1, FALSE),
     Stmt(3, {Attribute("v")}, {Attribute("c")}, 0, TRUE),
     Stmt(4, {}, {Attribute("c")}, 0, FALSE),
     Stmt(5, {Local("x")}, {Item("c", "0")}, 1, TRUE)}

Kinds == {<<"a", {}>>, <<"a", {"b"}>>, <<"b", {"a"}>>, <<"a", {"a", "b"}>>, <<"PC", {"a"}>>, <<"PC", {"b"}>>}
Branches_(kinds) == {n \in DOMAIN kinds : kinds[n][1] = "PC"}
\* The step, 0 at entry, whose value a location has before step i.
Since(kinds, i, l) == Max({j \in 1..(i - 1) : kinds[j][1] = l} \union {0})
Step_(kinds, i) == [flow |-> kinds[i][1] :> kinds[i][2], reads |-> [l \in kinds[i][2] |-> Since(kinds, i, l)]]

Stored_(grid) == {f \in 2..Len(grid) : grid[f] # grid[f - 1]}
WhyInit ==
    \/ \E kinds \in {k \in [1..4 -> Kinds] : k[4][1] = "a"} :
       \E control \in {c \in [1..4 -> 0..3] : \A n \in 1..4 : c[n] \in {0} \union {b \in Branches_(kinds) : b < n}} :
          s = [area |-> "steps", kinds |-> kinds, control |-> control]
    \/ \E ref \in {<<0, 1, 0>>, <<0, 0, 1>>, <<1, 1, 0>>}, lib, jen \in [1..4 -> {0, 1}],
          more \in {{}, {1, 2, 3, 4}, {2}, {3}} :
          s = [area |-> "cell", ref |-> [f \in 1..3 |-> <<ref[f]>>], lib |-> [f \in 1..4 |-> <<lib[f]>>],
               jen |-> [f \in 1..4 |-> <<jen[f]>>], more |-> more]
    \/ \E mine \in [1..3 -> {0, 1}], theirs \in [1..3 -> {0, 1, 2}], also \in {<<0, 0, 1>>, <<1, 0, 1>>, <<0, 1, 1>>},
          later \in {3, 4}, sliced, family \in BOOLEAN :
          s = [area |-> "onset", mine |-> mine, theirs |-> theirs, also |-> also, later |-> later,
               sliced |-> sliced, family |-> family]

\* The slice of a step that stores, in the order that they run: what its value was made
\* of by the steps before it, and by the branches they ran under if these are asked for.
CpuTrue ==
    s.area = "steps" =>
        \A asked \in BOOLEAN :
        LET steps == [n \in 1..4 |-> Step_(s.kinds, n)]
            Under(i) == IF asked THEN s.control[i] ELSE 0
            \* The steps that the value of step i came from.
            from[i \in 0..4] ==
                IF i = 0 THEN {}
                ELSE {i} \union from[Under(i)] \union UNION {from[Since(s.kinds, i, l)] : l \in s.kinds[i][2]}
        IN  \A got \in {cpu_slice(steps, 4, {"a"}, IF asked THEN s.control ELSE <<>>)} :
               /\ got.keep = from[4]
               /\ DOMAIN got.live = UNION {{l \in s.kinds[i][2] : Since(s.kinds, i, l) = 0} : i \in from[4]}
               /\ \A l \in DOMAIN got.live : got.live[l] = 0

\* Where a render parts from a reference that the 6502 follows, neither shifted back, its
\* side and the 6502's have other values; what is traced of each stores the value that it
\* has there, unless no frame up to there stores the register.
CellTrue ==
    s.area = "cell" /\ (\A grid \in {s.lib, s.jen} : verdict_lead(s.ref, grid, LEAD, 0).lead >= 0) =>
        LET found == explain_divergence(s.ref, s.lib, s.jen, Stored_(s.lib) \union s.more, Stored_(s.jen), LEAD)
        IN  \A k \in DOMAIN found :
            LET d == found[k]
                Own(side, grid, stores) ==
                    /\ grid[side.traced][d.register] = side.value
                    /\ side.root \/ \A f \in 2..side.frame : f \notin stores
            IN  /\ d.agrees => d.left.value # d.right.value /\ d.right.value = d.reference
                /\ Own(d.left, s.lib, Stored_(s.lib)) /\ Own(d.right, s.jen, Stored_(s.jen))

\* Up to the onset that is explained every pair of states tracks, and there one parts, as
\* many frames before the left side's frame as before the right side's; and a state whose
\* history the right side has too, or whose family lies there in a layout, is not parted.
OnsetTrue ==
    s.area = "onset" =>
        LET back == s.later - 1
            Family == IF s.family THEN <<s.mine, s.theirs>> ELSE <<>>
            Read(name, history, siblings, sliced) ==
                [name |-> name, history |-> history, siblings |-> siblings, own |-> 1, sliced |-> sliced]
            left == [frame |-> 4, state |-> <<Read("v", s.mine, Family, TRUE), Read("w", <<0, 1, 1>>, <<>>, s.sliced)>>]
            Cell(n, history) == [name |-> <<"v", "w">>[n], cell |-> n, history |-> Ending(history, back), sliced |-> n = 1]
            right == [frame |-> s.later, state |-> <<Cell(1, s.theirs), Cell(2, s.also)>>,
                      ram |-> [n \in 1..2 |-> Ending(<<s.theirs, s.also>>[n], back)]]
            n == back
            Past(i) == Ending(left.state[i].history, n)
            Tracks(x, y, k) ==
                IF x[1] = y[1] THEN \A i \in 1..k : x[i] = y[i]
                ELSE \A i, j \in 1..k : x[i] = x[j] <=> y[i] = y[j]
        IN  \A found \in {explain_state(left, right, 2)[1]} :
            LET Same(i, j) == Past(i) = Ending(right.state[j].history, n)
                Held(i) == IF i = 1 /\ s.family THEN Same(1, 2) ELSE \E j \in 1..2 : Same(i, j)
            IN  /\ \A i \in DOMAIN found.parts :
                      /\ Held(i) => found.parts[i] = 0 /\ found.theirs[i] = Past(i)
                      /\ found.parts[i] = 0 <=> Tracks(Past(i), found.theirs[i], n)
                /\ found.why = None_ <=> \A i \in DOMAIN found.parts : found.parts[i] = 0
                /\ \A k \in DOMAIN found.why :
                      LET why == found.why[k]
                          to == n - (left.frame - why.left)
                      IN  /\ left.frame - why.left = right.frame - why.right
                          /\ \A i \in DOMAIN found.parts : Tracks(Past(i), found.theirs[i], to)
                          /\ ~Tracks(Past(why.state), found.theirs[why.state], to + 1)

\* Slices hold what a value came from, and no more; what is explained parts there and
\* not before (whydiff.py).
WhyTrue == SlicesTrue /\ CpuTrue /\ CellTrue /\ OnsetTrue

-----------------------------------------------------------------------------
Init == StudiesInit \/ PathsInit \/ RecorderInit \/ DiffInit \/ FaultInit \/ CoverInit \/ WhyInit
Next == StudiesNext \/ PathsStep \/ RecorderStep
Spec == Init /\ [][Next]_s
=============================================================================
