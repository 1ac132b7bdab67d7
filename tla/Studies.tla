------------------------------ MODULE Studies ------------------------------
(***************************************************************************)
(* What the studies of a tune list share and keep: the survey's work       *)
(* directory, on which several jobs are at once, its tables and matches    *)
(* (survey.py); the cache of a pair, which outlives its builds and their   *)
(* crashes; and the manifest that later analyses merge into (pathdiff.py). *)
(* The state s is one of these areas, its area tells which.                *)
(***************************************************************************)
EXTENDS Survey, PathDiff, PathFuzz, WhyDiff

CONSTANTS
    Songs,      \* the subtunes
    Renderers,  \* versions of the renderers, numbers from 1
    Groups,     \* functions to the jobs that share a work directory
    Listed,     \* the subtunes that results are about
    Results,    \* what a survey says of one
    Matches,    \* native files to match, [cands, q, width, max_offset, guard]
    Tunes,      \* the tunes of a pair
    Modes,      \* the comparisons that builds ask for
    NameLists,  \* the names a tune's record may have, in order
    MaxBuilds,  \* how many builds are begun
    Manifests,  \* a corpus w and the cases of a manifest it meets, [w, cases]
    Fuzzes,     \* requests to exercise, with the features that tries may reach
    Reductions, \* a function of names to requests to minimise
    MaxTrace,   \* how many events are traced
    MaxDepth    \* how deep its activations nest

Ops == {"run", "file", "leads"}
ASSUME SurveyAssumption ==
    /\ Renderers \subseteq Nat \ {0}
    /\ \A jobs \in Groups :
          /\ jobs = [n \in DOMAIN jobs |-> Begun(jobs[n].op, jobs[n].key, jobs[n].by, jobs[n].need, jobs[n].long)]
          /\ \A n \in DOMAIN jobs :
                /\ jobs[n].op \in Ops /\ jobs[n].key \in Songs /\ jobs[n].by \in Renderers
                /\ jobs[n].need \in Nat \ {0} /\ jobs[n].long \in Nat \ {0}

ASSUME TablesAssumption ==
    /\ NEAR \in Nat /\ IsFiniteSet(Listed)
    /\ \A x \in Results : x = [verdict |-> x.verdict, min_bad |-> x.min_bad, first |-> x.first] /\ x.min_bad \in Nat \union {NoBad}
    /\ \A x \in Matches :
          /\ x.cands \in Seq(Seq(Nat)) /\ x.q \in Seq(Nat) /\ Len(x.cands) > 0 /\ Len(x.q) > 0
          /\ x.width \in Nat \ {0} /\ x.max_offset \in Nat /\ x.guard \in Nat

ASSUME NameAssumption == \A names \in NameLists : names \in Seq(Range(names))

\* The ids of a manifest are those of its cases' keys.
ASSUME ManifestAssumption ==
    \A x \in Manifests :
        /\ Len(x.w.ids) \in Nat /\ Len(x.w.fixes) \in Nat /\ x.w.top \in Nat
        /\ DOMAIN x.w.ids = 1..Len(x.w.ids) /\ DOMAIN x.w.fixes = 1..Len(x.w.fixes)
        /\ DOMAIN x.cases \subseteq Range(x.w.ids)
        /\ \A id \in DOMAIN x.cases : x.cases[id] = [key |-> id, tune |-> x.cases[id].tune]

\* The features of the right side are those a try lacks if it fails.
ASSUME FuzzAssumption ==
    \A f \in Fuzzes :
        /\ f.frames \in Seq(SUBSET Int) /\ DOMAIN f.universe \subseteq Int /\ IsFiniteSet(DOMAIN f.universe)
        /\ f.margin \in Nat /\ f.budget \in Nat /\ f.right \subseteq f.features
        /\ \A n \in gaps(f.frames, f.universe) : DOMAIN f.gen[n].first \subseteq Nat

ASSUME ReductionAssumption ==
    /\ Bytes \in Nat \ {0}
    /\ \A k \in DOMAIN Reductions :
          LET r == Reductions[k] IN
          /\ IsFiniteSet(DOMAIN r.data) /\ DOMAIN r.data \subseteq Int
          /\ r.data \in [DOMAIN r.data -> 0..(Bytes - 1)]
          /\ r.patch \in Seq((DOMAIN r.data) \X Int)
          /\ r.header \in Nat /\ r.load \in Nat /\ r.addrs \subseteq Nat /\ r.neutral \in Int /\ r.frames \in Nat \ {0}

VARIABLE s

-----------------------------------------------------------------------------
(* Survey: jobs share a work directory, in which nothing is yet.  The jobs *)
(* whose renderer raised are raised, those whose oracle sidtrace could not *)
(* render are down, and short are those which a trace was shorter than     *)
(* when they or others left it there.                                      *)

Work == [trace |-> [k \in Songs |-> 0], render |-> [x \in Renderers \X Songs |-> 0],
         library |-> [k \in Songs |-> NoGrid]]

SurveyInit ==
    \E jobs \in Groups :
        s = [area |-> "survey", work |-> Work, jobs |-> jobs, short |-> {}, down |-> {}, raised |-> {}]

Shorter(work, jobs) == {n \in DOMAIN jobs : work.trace[jobs[n].key] \in 1..(jobs[n].need - 1)}

SurveyStep ==
    /\ s.area = "survey"
    /\ \E n \in DOMAIN s.jobs : \E works \in BOOLEAN, outcome \in {"grid", "not_decompiled", "library_error"} :
        /\ s.jobs[n].at # "done"
        /\ s.jobs[n].at # "oracle" => works
        /\ s.jobs[n].at # "render" => outcome = "grid"
        /\ LET next == check(s.work, s.jobs[n], works, outcome)
           IN  s' = [area |-> "survey", work |-> next.w, jobs |-> [s.jobs EXCEPT ![n] = next.job],
                     short |-> s.short \union Shorter(next.w, s.jobs),
                     down |-> IF works THEN s.down ELSE s.down \union {n},
                     raised |-> IF outcome = "library_error" THEN s.raised \union {n} ELSE s.raised]

\* The worker of a run dies or passes its deadline.
SurveyDies ==
    /\ s.area = "survey"
    /\ \E n \in DOMAIN s.jobs :
        /\ s.jobs[n].op = "run" /\ s.jobs[n].at # "done"
        /\ s' = [area |-> "survey", work |-> s.work, jobs |-> [s.jobs EXCEPT ![n] = _failed(@)],
                 short |-> s.short, down |-> s.down, raised |-> s.raised \union {n}]

\* A run's row is about its own renderer's grid, as long as its oracle and the
\* leads need, whatever the others keep meanwhile; a render fails only if the job's
\* renderer does, whatever length is cached; and a job has no oracle only if
\* sidtrace failed it or a trace shorter than it needs was cached (survey.py).
RowsOwn ==
    s.area = "survey" =>
        \A n \in DOMAIN s.jobs :
            LET job == s.jobs[n] IN
            /\ job.at = "done" /\ job.verdict = "compared" =>
                  /\ job.op # "leads" => job.seen.by = job.by
                  /\ job.trace >= job.need
                  /\ job.op # "leads" => job.seen.frames >= Wanted(job)
            /\ job.verdict = "oracle_error" => n \in s.down \union s.short
            /\ job.verdict = "library_error" => n \in s.raised

-----------------------------------------------------------------------------
(* Tables: the results of some subtunes before and after; and an image     *)
(* that is matched with candidates.                                        *)

TablesInit ==
    \/ \E old \in SUBSET Listed, new \in SUBSET Listed :
       \E base \in [old -> Results], now \in [new -> Results] :
          s = [area |-> "tables", base |-> base, now |-> now]
    \/ \E m \in Matches : s = [area |-> "match", m |-> m]

\* A subtune that is no longer exact is lost, or has gone and is a change; and the
\* moves, the tally and the near-exact rows count the subtunes alike, but that the
\* tally counts a row of an older survey among the near-exact ones.
CountsTrue ==
    s.area = "tables" =>
        LET moved == transitions(s.base, s.now)
            counted == tally(s.now, DOMAIN s.now)
            changed == changes(s.base, s.now)
            was == {k \in DOMAIN s.base : s.base[k].verdict = "exact"}
            is == {k \in DOMAIN s.now : s.now[k].verdict = "exact"}
            older == {k \in DOMAIN s.now : s.now[k].verdict = "differs" /\ s.now[k].min_bad = NoBad}
        IN  /\ was \ is = moved.lost \union (was \ DOMAIN s.now)
            /\ was \ is \subseteq changed
            /\ Cardinality(is \ was) = SumFunction([xy \in DOMAIN moved.moves |->
                   IF xy[1] # "exact" /\ xy[2] = "exact" THEN moved.moves[xy] ELSE 0])
            /\ SumFunction(counted.verdicts) = SumFunction(moved.moves)
            /\ Cardinality(near_exact(s.now)) + Cardinality(older) =
                   SumFunction([b \in DOMAIN counted.bad |-> IF b <= NEAR THEN counted.bad[b] ELSE 0])

\* A candidate of about the image's length holds the whole of it at an offset.
HoldsAt(m, c, d) ==
    /\ \A n \in DOMAIN m.q : n + d \in DOMAIN m.cands[c] /\ m.cands[c][n + d] = m.q[n]
    /\ Len(m.cands[c]) - Len(m.q) \in (-m.guard)..m.guard
\* An image that candidates hold whole, however far they are shifted, is matched to the
\* first of them, where it differs in no byte.
MatchTrue ==
    s.area = "match" =>
        \A got \in {match_images(s.m.cands, s.m.q, s.m.width, s.m.max_offset, s.m.guard)} :
        LET bound == Least(s.m.max_offset, s.m.width - 1)
            whole == {c \in DOMAIN s.m.cands : \E d \in (-bound)..bound : HoldsAt(s.m, c, d)}
        IN  whole # {} => /\ got.candidate = Min(whole) /\ got.ndiff = 0
                          /\ HoldsAt(s.m, got.candidate, got.offset)

\* The tables of a survey count its results alike, and files are matched with what
\* holds them (survey.py).
TablesTrue == CountsTrue /\ MatchTrue

-----------------------------------------------------------------------------
(* The cache: builds of some tunes, of this format of the code and the     *)
(* next, forced or not, which may die anywhere, one at a time.             *)

CacheInit ==
    s = [area |-> "cache", d |-> Empty, b |-> NoBuilder, format |-> 1, newest |-> <<>>, left |-> {},
         torn |-> FALSE, builds |-> 0]

\* newest are the names of each tune's newest record that was written whole; left are the
\* tunes a forced build has yet to come to.
Cached(next, newest, left, torn) ==
    s' = [area |-> "cache", d |-> next.d, b |-> next.b, format |-> s.format, newest |-> newest,
          left |-> left, torn |-> torn, builds |-> s.builds]
Steps(at_, next) == s.area = "cache" /\ s.b.at = at_ /\ Cached(next, s.newest, s.left, s.torn)

BuildBegins ==
    /\ s.area = "cache" /\ Quiet(s.b) /\ s.builds < MaxBuilds
    /\ \E force \in BOOLEAN, verdict \in [Tunes -> {"differs", "exact"}], mode \in Modes :
        LET new == build(s.d, select(verdict, {"differs"}), force,
                         [format |-> s.format, compare |-> mode, prefixes |-> FALSE])
        IN  s' = [area |-> "cache", d |-> new.d, b |-> new.b, format |-> s.format, newest |-> s.newest,
                  left |-> IF force THEN DOMAIN s.newest ELSE s.left, torn |-> s.torn,
                  builds |-> s.builds + 1]

MetaChecked == Steps("check", _meta(s.d, s.b))
MetaWritten == Steps("meta", MetaOf(s.d, s.b))
TuneRecorded ==
    /\ s.area = "cache"
    /\ \E key \in s.b.todo, names \in NameLists : Steps("build", Received(s.d, s.b, key, names))
NamesAppended == Steps("names", Named(s.d, s.b))
FileWritten ==
    /\ s.area = "cache" /\ s.b.at = "temp"
    /\ Cached(Zipped(s.d, s.b), Set(s.newest, s.b.rec[1], s.b.rec[2]), s.left, s.torn)
TuneKept ==
    /\ s.area = "cache" /\ s.b.at = "replace"
    /\ Cached(Replaced(s.d, s.b), s.newest, s.left \ {s.b.rec[1]}, s.torn)

\* A build dies; as it appends the names of a tune after some lines, of which the last
\* may be cut, or after no line, as where that ends.
BuildDies ==
    /\ s.area = "cache" /\ s.b.at \notin {"none", "refused"}
    /\ \/ s.b.at # "names" /\ Cached([d |-> s.d, b |-> NoBuilder], s.newest, s.left, s.torn)
       \/ /\ s.b.at = "names"
          /\ \E torn \in BOOLEAN : \E lines \in 0..Len(s.b.rec[2]) :
                /\ torn => lines > 0
                /\ Cached([d |-> Cut_(s.d, s.b, lines, torn), b |-> NoBuilder], s.newest, s.left,
                          s.torn \/ torn)

\* The code goes to the next format.
Upgraded ==
    /\ s.area = "cache" /\ Quiet(s.b) /\ s.format = 1
    /\ s' = [area |-> "cache", d |-> s.d, b |-> s.b, format |-> 2, newest |-> s.newest, left |-> s.left,
             torn |-> s.torn, builds |-> s.builds]

CacheStep ==
    \/ BuildBegins \/ MetaChecked \/ MetaWritten \/ TuneRecorded \/ NamesAppended
    \/ FileWritten \/ TuneKept \/ BuildDies \/ Upgraded

\* Wherever builds died, the analysis raises or reads each tune with the names it was
\* recorded with, unless a dying build left half a line; it reads the newest record that
\* was written whole, be it still a temporary file, or an older one only where that is an
\* error; and one of the meta's format and comparison, whose prefixes it has, unless a
\* forced build has not come to the tune.
CacheTrue ==
    s.area = "cache" =>
        \A k \in DOMAIN analyse(s.d, s.format) :
            /\ s.torn \/ analyse(s.d, s.format)[k] = Records(s.d)[k].names
            /\ s.newest[k] \in {Records(s.d)[k].names, <<>>}
            /\ k \in s.left \/ Records(s.d)[k].meta = s.d.meta

-----------------------------------------------------------------------------
(* The manifest: cases, whose keys a corpus knows or not, and ranked       *)
(* fixes.                                                                  *)

ManifestInit == \E x \in Manifests : s = [area |-> "manifest", cases |-> x.cases, w |-> x.w]
Merged == xfails(s.w, s.cases, TRUE, TRUE)
Live(id) == s.cases[id].key \in s.w.known /\ s.w.fails[s.cases[id].tune]

\* Every case of a merged manifest fails as it did, under the id of its key; a case
\* whose key the corpus knows and that still fails is there, unless another takes
\* its id; and so is every verified case of the top fixes.
ManifestTrue ==
    s.area = "manifest" =>
        /\ \A id \in DOMAIN Merged : Merged[id].key = id /\ s.w.fails[Merged[id].tune]
        /\ \A id \in DOMAIN s.cases : Live(id) => id \in DOMAIN Merged
        /\ \A n \in 1..Least(s.w.top, Len(s.w.fixes)) :
              LET k == s.w.fixes[n]
              IN  s.w.fails[s.w.representative[k]] /\ k \in s.w.cands[s.w.representative[k]]
                      => k \in DOMAIN Merged

\* What builds and merges leave on the disk is what they were given, under its own
\* names and keys (pathdiff.py).
KeptTrue == CacheTrue /\ ManifestTrue

-----------------------------------------------------------------------------
(* Fuzzing: a tune is exercised with the features that its tries may       *)
(* reach, and a change that shows a fault is minimised.                    *)

FuzzInit ==
    \/ \E f \in Fuzzes : \E x \in exercise(f) : s = [area |-> "exercise", x |-> x]
    \/ \E k \in DOMAIN Reductions : s = [area |-> "minimise", r |-> k, m |-> minimise(Reductions[k])]

TargetDropped ==
    /\ s.area = "exercise" /\ Trying(s.x) /\ Done(s.x)
    /\ s' = [area |-> "exercise", x |-> Dropped(s.x)]
MutationTried ==
    /\ s.area = "exercise" /\ Trying(s.x) /\ ~Done(s.x)
    /\ \E pick \in Picks(s.x.f.gen[Head(s.x.todo).name], s.x.tried), reached \in SUBSET s.x.f.features :
       \E fails, wrong \in BOOLEAN :
          /\ fails => reached \intersect s.x.f.right = {}
          /\ s' = [area |-> "exercise", x |-> Tried(s.x, pick, reached, fails, wrong)]

Minimises(m) == s' = [area |-> "minimise", r |-> s.r, m |-> m]
MinimiseStep ==
    /\ s.area = "minimise"
    /\ \/ Bisecting(s.m) /\ Minimises(Bisected(Reductions[s.r], s.m))
       \/ FramesFound(s.m) /\ Minimises(Found(Reductions[s.r], s.m))
       \/ s.m.at = "ddmin" /\ Minimises(Reduced(Reductions[s.r], s.m))
FuzzStep == TargetDropped \/ MutationTried \/ MinimiseStep

\* What the tries reached first is what their mutants hold, each feature once; no
\* target that is left to try had more turns than one before it, or two more than one
\* after it; and one that is no longer tried was reached or has no mutation untried.
ExerciseTrue ==
    s.area = "exercise" =>
        LET x == s.x
            base == covered(x.f.frames)
        IN  /\ x.seen = base \union UNION {x.mutants[k].new : k \in DOMAIN x.mutants}
            /\ \A k \in DOMAIN x.mutants :
                  /\ x.mutants[k].new # {} /\ x.mutants[k].new \intersect base = {}
                  /\ \A j \in 1..(k - 1) : x.mutants[j].new \intersect x.mutants[k].new = {}
                  /\ x.mutants[k].frames >= x.mutants[k].target.frame
            /\ Cardinality(x.tried) <= x.f.budget
            /\ \A i, j \in DOMAIN x.todo :
                  i < j => x.turns[x.todo[i]] \in {x.turns[x.todo[j]], x.turns[x.todo[j]] - 1}
            /\ \A t \in targets(x.f.frames, x.f.universe) :
                  \/ t \in Range(x.todo) \/ t.name \in x.seen
                  \/ Mutations(x.f.gen[t.name]) \subseteq x.tried

\* A fault that shows in some frames shows in all longer runs.
Monotone(r) ==
    \A kept \in SUBSET removable(r), k, n \in 1..r.frames : k <= n /\ Passes(r, kept, k) => Passes(r, kept, n)

\* The least patch shows the fault in the frames it is given with, without any one of
\* its entries it does not in those it was reduced for; and if longer runs show what
\* shorter ones do, no entry and no frame of them can be left out.
MinimiseTrue ==
    s.area = "minimise" =>
        LET r == Reductions[s.r]
            m == s.m
        IN  /\ m.at = "done" =>
                  /\ m.hi \in r.pred[Written(r.data, minimised(r, m))]
                  /\ m.items \subseteq removable(r)
                  /\ \A e \in m.items : ~Passes(r, m.items \ {e}, m.frames)
                  /\ Monotone(r) =>
                        /\ \A n \in 1..(m.hi - 1) : ~Passes(r, m.items, n)
                        /\ \A e \in m.items : ~Passes(r, m.items \ {e}, m.hi)
            /\ m.at = "refused" <=> ~Passes(r, removable(r), r.frames)

\* Every new path is kept once and every target has its turn; what is minimised still
\* shows the fault and is minimal (pathfuzz.py).
FuzzTrue == ExerciseTrue /\ MinimiseTrue

-----------------------------------------------------------------------------
(* Tracing: a program whose functions execute statements of the code in    *)
(* any order, call each other and untraced ones, yield, raise, and write   *)
(* SID registers.                                                          *)

HistoryInit == s = [area |-> "history", t |-> Entered0, w |-> Unrun]

Traced_ == s.area = "history" /\ Len(s.t.events) < MaxTrace
Running == s.w.stack # <<>> /\ Last(s.w.stack) # 0
Now == Last(s.w.stack)
NowDoing == s.w.at[Now]
History(t, stack, begun, doing, heap, origin, unsure) ==
    s' = [area |-> "history", t |-> t,
          w |-> Program(stack, begun, doing, heap, origin, unsure,
                        IF Len(t.events) = Len(s.t.events) THEN s.w.came ELSE Forward(s.w.came, t.events))]

Called ==
    /\ Traced_ /\ Len(s.w.stack) < MaxDepth
    /\ LET a == s.w.begun + 1
           n == Len(s.t.events) + 1
       IN  History(_global(s.t, s.w.stack, a, Params), Append(s.w.stack, a), a,
                   With(s.w.at, a, Doing(NoStatement, 0, "runs")), s.w.heap,
                   Mark({<<"L", a, x>> : x \in Params}, n, s.w.origin), s.w.unsure)

\* A generator that waits is resumed, and does not keep its serial.
Resumed ==
    /\ Traced_ /\ Len(s.w.stack) < MaxDepth
    /\ \E a \in DOMAIN s.w.at :
        LET d == s.w.at[a]
        IN  /\ d.how = "yielded"
            /\ History(_global(s.t, s.w.stack, a, Params), Append(s.w.stack, a), s.w.begun,
                       With(s.w.at, a, Doing(d.stmt, d.event, "late")), s.w.heap, s.w.origin,
                       s.w.unsure \union {<<"L", a, x>> : x \in Locals})

\* A line of the statement that is executed is no event.
Lined ==
    /\ Traced_ /\ Running
    /\ \E stmt \in Code \union {NoStatement}, obj \in Objects(s.w, Now) :
        /\ s.t.frames[Now].pending = 0 \/ s.t.frames[Now].stmt # stmt
        /\ LET new == Assigned(s.w, Now, obj)
               event == IF stmt = NoStatement THEN 0 ELSE Len(s.t.events) + 1
           IN  History(_line(s.t, new.heap, Now, stmt), s.w.stack, s.w.begun,
                       With(s.w.at, Now, Doing(stmt, event, "runs")), new.heap, new.origin, new.unsure)

Returned ==
    /\ Traced_ /\ Running
    /\ \E obj \in Objects(s.w, Now) :
        LET new == Assigned(s.w, Now, obj)
        IN  History(_return(s.t, new.heap, Front(s.w.stack), Now), Front(s.w.stack), s.w.begun,
                    Without(s.w.at, Now), new.heap, new.origin, new.unsure)

\* What its statement assigns is not yet assigned when the tracer stores it.
Yielded ==
    /\ Traced_ /\ Running /\ NowDoing.how # "failed"
    /\ History(_return(s.t, s.w.heap, Front(s.w.stack), Now), Front(s.w.stack), s.w.begun,
               With(s.w.at, Now, Doing(NowDoing.stmt, NowDoing.event, "yielded")), s.w.heap, s.w.origin,
               s.w.unsure \union {_key(Now, s.w.heap, n) : n \in NowDoing.stmt.sets})

Raised ==
    /\ Traced_ /\ Running /\ NowDoing.how # "failed"
    /\ History(_exception(s.t), s.w.stack, s.w.begun,
               With(s.w.at, Now, Doing(NowDoing.stmt, NowDoing.event, "failed")), s.w.heap, s.w.origin, s.w.unsure)

Wrote ==
    /\ Traced_
    /\ History(_write(s.t, s.w.stack), s.w.stack, s.w.begun, s.w.at, s.w.heap, s.w.origin, s.w.unsure)

\* Untraced code runs, and may assign attributes and items.
Entered ==
    /\ Traced_ /\ Len(s.w.stack) < MaxDepth /\ Running
    /\ History(s.t, Append(s.w.stack, 0), s.w.begun, s.w.at, s.w.heap, s.w.origin, s.w.unsure)
Left ==
    /\ Traced_ /\ s.w.stack # <<>> /\ Now = 0
    /\ History(s.t, Front(s.w.stack), s.w.begun, s.w.at, s.w.heap, s.w.origin, s.w.unsure)
Outside ==
    /\ Traced_ /\ s.w.stack # <<>> /\ Now = 0
    /\ \E n \in Names :
        /\ n.is # "N"
        /\ History(s.t, s.w.stack, s.w.begun, s.w.at,
                   [c \in Containers |-> IF n = Attribute(c) THEN 0 ELSE s.w.heap[c]], s.w.origin,
                   s.w.unsure \union {_key(0, s.w.heap, n)})
HistoryStep ==
    \/ Called \/ Resumed \/ Lined \/ Returned \/ Yielded \/ Raised \/ Wrote
    \/ Entered \/ Left \/ Outside

\* What a statement would depend on by a name it reads is the statement that last
\* assigned it, in its own activation if it is a local, however calls recurse, yield and
\* raise; nothing if none did since the trace began; and for an item that none assigned
\* the statement that made its container there (whydiff.py).
OriginsKnown ==
    s.area = "history" =>
        \A a \in DOMAIN s.t.frames : \A n \in Names :
            LET own == _key(a, s.w.heap, n)
                in == <<"A", 0, n.of>>
                hits == Hits(s.t, s.w.heap, s.t.frames[a].serial, n)
            IN  own \notin s.w.unsure =>
                    IF own \in DOMAIN s.w.origin THEN hits = {s.w.origin[own]}
                    ELSE IF n.is # "S" THEN hits = {}
                    ELSE in \notin s.w.unsure =>
                            IF in \notin DOMAIN s.w.origin THEN hits = {}
                            ELSE /\ hits \subseteq {s.w.origin[in]}
                                 /\ s.w.heap[n.of] = s.w.origin[in] => hits = {s.w.origin[in]}

\* Back from any event a slice comes to what came before it, or as many of these as its
\* limit.
SlicesTrue ==
    s.area = "history" =>
        \A i \in DOMAIN s.t.events :
            /\ slice(s.t.events, i, MaxTrace + 1) = s.w.came[i]
            /\ \A got \in {slice(s.t.events, i, 2)} :
                  got \subseteq s.w.came[i] /\ Cardinality(got) = Least(2, Cardinality(s.w.came[i]))

-----------------------------------------------------------------------------
StudiesInit == SurveyInit \/ TablesInit \/ CacheInit \/ ManifestInit \/ FuzzInit \/ HistoryInit
StudiesNext == SurveyStep \/ SurveyDies \/ CacheStep \/ FuzzStep \/ HistoryStep
StudiesSpec == StudiesInit /\ [][StudiesNext]_s
=============================================================================
