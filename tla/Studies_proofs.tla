--------------------------- MODULE Studies_proofs ---------------------------
(***************************************************************************)
(* Proofs that the rows of jobs that share a work directory are their own, *)
(* that the tables of two surveys count their results alike and a file is  *)
(* matched with the first candidate that holds it, that the cache of a     *)
(* pair gives back what it was given whichever of its builds died, that a  *)
(* merged manifest holds the cases that fail, that an                      *)
(* exercise keeps every new path once and what is minimised is minimal,    *)
(* and that the tracer credits a value to the statement that assigned it,  *)
(* for every number of jobs, subtunes, renderers, tunes, builds and cases, *)
(* every branch coverage, budget and candidates, every predicate, and      *)
(* every program and history of calls, yields and exceptions.              *)
(***************************************************************************)
EXTENDS Studies, FiniteSetTheorems, SequenceTheorems, WellFoundedInduction, TLAPS

(* Fuzzing has a state of its own.                                         *)
LEMMA FuzzApart ==
    /\ FuzzInit => s.area \in {"exercise", "minimise"}
    /\ FuzzStep => s.area \in {"exercise", "minimise"} /\ s'.area = s.area
  BY DEF FuzzInit, FuzzStep, TargetDropped, MutationTried, MinimiseStep, Minimises

(* So has the cache.                                                       *)
LEMMA CacheApart ==
    ASSUME CacheStep
    PROVE  s.area = "cache" /\ s'.area = "cache"
<1> USE DEF Cached, Steps
<1>1. CASE BuildBegins
  BY <1>1 DEF BuildBegins
<1>2. CASE MetaChecked \/ MetaWritten
  BY <1>2 DEF MetaChecked, MetaWritten
<1>3. CASE TuneRecorded
  BY <1>3 DEF TuneRecorded
<1>4. CASE NamesAppended \/ FileWritten
  BY <1>4 DEF NamesAppended, FileWritten
<1>5. CASE TuneKept
  BY <1>5 DEF TuneKept
<1>6. CASE BuildDies
  BY <1>6 DEF BuildDies
<1>7. CASE Upgraded
  BY <1>7 DEF Upgraded
<1> QED
  BY <1>1, <1>2, <1>3, <1>4, <1>5, <1>6, <1>7 DEF CacheStep

(* So has tracing a program.                                               *)
LEMMA HistoryApart ==
    /\ HistoryInit => s.area = "history"
    /\ HistoryStep => s.area = "history" /\ s'.area = s.area
<1>1. HistoryInit => s.area = "history"
  BY DEF HistoryInit
<1>2. ASSUME HistoryStep
      PROVE  s.area = "history" /\ s'.area = "history"
  <2> USE DEF History, Traced_
  <2>1. CASE Called
    BY <2>1 DEF Called
  <2>2. CASE Resumed
    BY <2>2 DEF Resumed
  <2>3. CASE Lined
    BY <2>3 DEF Lined
  <2>4. CASE Returned
    BY <2>4 DEF Returned
  <2>5. CASE Yielded
    BY <2>5 DEF Yielded
  <2>6. CASE Raised
    BY <2>6 DEF Raised
  <2>7. CASE Wrote
    BY <2>7 DEF Wrote
  <2>8. CASE Entered
    BY <2>8 DEF Entered
  <2>9. CASE Left
    BY <2>9 DEF Left
  <2>10. CASE Outside
    BY <2>10 DEF Outside
  <2> QED
    BY <1>2, <2>1, <2>2, <2>3, <2>4, <2>5, <2>6, <2>7, <2>8, <2>9, <2>10 DEF HistoryStep
<1> QED
  BY <1>1, <1>2

-----------------------------------------------------------------------------
(* The survey: what a job knows at each place of check.                    *)

Grids == [by : Renderers \union {0}, frames : Nat]
JobSet ==
    [op : Ops, at : {"oracle", "render", "put", "keep", "row", "done"}, key : Songs, by : Renderers,
     need : Nat \ {0}, long : Nat \ {0}, trace : Nat, seen : Grids,
     verdict : {"", "compared", "oracle_error", "library_error", "not_decompiled"},
     cache : {"", "hit", "miss"}]
WorkSet ==
    [trace : [Songs -> Nat], render : [Renderers \X Songs -> Nat], library : [Songs -> Grids]]

(* The grid a job has is its own renderer's and long enough, but for a lead *)
(* table's.                                                                 *)
Own(j) == j.op # "leads" => j.seen.by = j.by /\ j.seen.frames >= Wanted(j)
Known(j) ==
    /\ j.at = "render" => j.trace >= j.need
    /\ j.at \in {"put", "keep", "row"} \/ j.verdict = "compared" => j.trace >= j.need /\ Own(j)
    /\ j.at # "done" => j.verdict = ""
SameJob(j, k) == k.op = j.op /\ k.key = j.key /\ k.by = j.by /\ k.need = j.need

(* A step of check, from where it is: what it leaves and why it ends.      *)
Checked(w, j, works, outcome, next) ==
    /\ next.w \in WorkSet /\ next.job \in JobSet
    /\ SameJob(j, next.job) /\ Known(next.job)
    /\ next.job.verdict = "oracle_error" => ~works \/ next.w.trace[j.key] \in 1..(j.need - 1)
    /\ next.job.verdict = "library_error" => outcome = "library_error"

LEMMA CheckedBy ==
    ASSUME NEW w, NEW j, NEW works, NEW outcome, NEW v \in WorkSet, NEW k \in JobSet,
           SameJob(j, k), Known(k), NEW next, next = [w |-> v, job |-> k],
           k.verdict = "oracle_error" => ~works \/ v.trace[j.key] \in 1..(j.need - 1),
           k.verdict = "library_error" => outcome = "library_error"
    PROVE  Checked(w, j, works, outcome, next)
  BY DEF Checked

(* A job that ends with a verdict other than a comparison.                 *)
LEMMA Ended ==
    ASSUME NEW j \in JobSet, NEW v \in {"oracle_error", "library_error", "not_decompiled"}
    PROVE  Ends(j, v) \in JobSet /\ SameJob(j, Ends(j, v)) /\ Known(Ends(j, v)) /\ Ends(j, v).verdict = v
<1>1. Ends(j, v) \in JobSet /\ SameJob(j, Ends(j, v)) /\ Ends(j, v).verdict = v /\ Ends(j, v).at = "done"
  BY DEF Ends, JobSet, SameJob
<1> QED
  BY <1>1 DEF Known

(* A job that goes to its render, its row or the library.                  *)
LEMMA ToRender ==
    ASSUME NEW j \in JobSet, j.verdict = "", NEW n \in Nat, n >= j.need
    PROVE  LET k == [j EXCEPT !.trace = n, !.at = "render"]
           IN  k \in JobSet /\ SameJob(j, k) /\ Known(k) /\ k.verdict = ""
<1> DEFINE k == [j EXCEPT !.trace = n, !.at = "render"]
<1>1. k \in JobSet /\ SameJob(j, k) /\ k.verdict = "" /\ k.at = "render" /\ k.trace = n /\ k.need = j.need
  BY DEF JobSet, SameJob
<1> HIDE DEF k
<1>2. Known(k)
  BY <1>1 DEF Known
<1> QED
  BY <1>1, <1>2 DEF k

LEMMA ToRow ==
    ASSUME NEW j \in JobSet, j.at = "render", Known(j), NEW grid \in Grids,
           NEW place \in {"put", "keep", "row"}, NEW cache \in {"hit", "miss"},
           j.op # "leads" => grid.by = j.by /\ grid.frames >= Wanted(j),
           NEW k, k = [j EXCEPT !.at = place, !.cache = cache, !.seen = grid]
    PROVE  k \in JobSet /\ SameJob(j, k) /\ Known(k) /\ k.verdict = ""
<1>1. j.trace >= j.need /\ j.verdict = ""
  BY DEF Known
<1>2. /\ k \in JobSet /\ SameJob(j, k) /\ k.verdict = "" /\ k.at = place /\ k.trace = j.trace
      /\ k.seen = grid
  BY <1>1 DEF JobSet, SameJob
<1>3. Known(k)
  BY <1>1, <1>2 DEF Known, Own, SameJob, Wanted
<1> QED
  BY <1>2, <1>3

LEMMA TraceLeft ==
    ASSUME NEW w \in WorkSet, NEW k \in Songs, NEW n \in Nat
    PROVE  /\ [w EXCEPT !.trace[k] = n] \in WorkSet
           /\ [w EXCEPT !.trace[k] = n].trace[k] = n
  BY DEF WorkSet

LEMMA RowsRead ==
    ASSUME NEW w \in WorkSet, NEW j \in JobSet, NEW works \in BOOLEAN
    PROVE  LET t == oracle_rows(w, j, works)
           IN  /\ t.w \in WorkSet /\ t.calls \in Nat
               /\ t.error = "unavailable" => ~works
               /\ t.error # "unavailable" => t.w.trace[j.key] = t.calls /\ t.calls # 0
               /\ t.error = "short" => t.calls < j.need
<1> DEFINE calls == IF j.op = "file" THEN j.need ELSE 0
           fresh == w.trace[j.key] = 0 \/ w.trace[j.key] < calls
<1>1. j.key \in Songs /\ j.long \in Nat /\ j.long # 0 /\ j.need \in Nat
  BY DEF JobSet
<1>2. w.trace[j.key] \in Nat
  BY <1>1 DEF WorkSet
<1>3. CASE fresh /\ works
  BY <1>1, <1>3, TraceLeft DEF oracle_rows
<1>4. CASE fresh /\ ~works
  BY <1>1, <1>4 DEF oracle_rows
<1>5. CASE ~fresh
  BY <1>1, <1>2, <1>5 DEF oracle_rows
<1> QED
  BY <1>3, <1>4, <1>5

LEMMA OracleChecked ==
    ASSUME NEW w \in WorkSet, NEW j \in JobSet, j.at = "oracle", Known(j), NEW works \in BOOLEAN
    PROVE  Checked(w, j, works, "grid", oracle_frames(w, j, works))
<1> DEFINE t == oracle_rows(w, j, works)
           have == [j EXCEPT !.trace = t.calls, !.at = "render"]
           n == t.w.trace[j.key]
<1>1. t.w \in WorkSet /\ t.calls \in Nat
  BY RowsRead
<1>2. j.verdict = "" /\ j.need \in Nat /\ j.need >= j.need
  <2>1. j.need \in Nat
    BY DEF JobSet
  <2>2. j.need >= j.need
    BY <2>1
  <2>3. j.verdict = ""
    BY DEF Known
  <2> QED
    BY <2>1, <2>2, <2>3
<1>3. CASE t.error = "unavailable" /\ j.op = "file"
  <2>1. oracle_frames(w, j, works) = [w |-> t.w, job |-> [j EXCEPT !.trace = j.need, !.at = "render"]]
    BY <1>3 DEF oracle_frames
  <2> HIDE DEF t
  <2> DEFINE k == [j EXCEPT !.trace = j.need, !.at = "render"]
  <2>2. k \in JobSet /\ SameJob(j, k) /\ Known(k) /\ k.verdict = ""
    BY <1>2, ToRender
  <2> HIDE DEF k
  <2> QED
    BY <1>1, <2>1, <2>2, CheckedBy DEF k
<1>4. CASE ~(t.error = "unavailable" /\ j.op = "file") /\ (t.error # "" \/ t.calls < j.need)
  <2>1. oracle_frames(w, j, works) = [w |-> t.w, job |-> Ends(j, "oracle_error")]
    BY <1>4 DEF oracle_frames
  <2>2. t.error = "unavailable" => ~works
    BY RowsRead
  <2>3. t.error # "unavailable" => n = t.calls /\ t.calls # 0 /\ t.calls < j.need
    <3>1. t.error \in {"unavailable", "short", ""}
      BY DEF oracle_rows
    <3> QED
      BY <1>4, <3>1, RowsRead
  <2> HIDE DEF t, n
  <2>4. t.error # "unavailable" => n \in 1..(j.need - 1)
    <3>1. ASSUME NEW calls \in Nat, NEW need \in Nat, calls # 0, calls < need PROVE calls \in 1..(need - 1)
      BY <3>1
    <3> DEFINE calls == t.calls
    <3>2. calls \in Nat
      BY <1>1
    <3> QED
      BY <1>2, <2>3, <3>1, <3>2
  <2>5. ~works \/ n \in 1..(j.need - 1)
    BY <2>2, <2>4
  <2>6. /\ Ends(j, "oracle_error") \in JobSet /\ SameJob(j, Ends(j, "oracle_error"))
        /\ Known(Ends(j, "oracle_error")) /\ Ends(j, "oracle_error").verdict = "oracle_error"
    BY Ended
  <2> QED
    BY <1>1, <2>1, <2>5, <2>6, CheckedBy DEF n
<1>5. CASE ~(t.error = "unavailable" /\ j.op = "file") /\ ~(t.error # "" \/ t.calls < j.need)
  <2>1. oracle_frames(w, j, works) = [w |-> t.w, job |-> have]
    BY <1>5 DEF oracle_frames
  <2> DEFINE calls == t.calls
  <2>2. calls \in Nat /\ ~(calls < j.need)
    BY <1>1, <1>5
  <2> HIDE DEF calls
  <2>3. calls >= j.need
    <3>1. ASSUME NEW a \in Nat, NEW b \in Nat, ~(a < b) PROVE a >= b
      BY <3>1
    <3> QED
      BY <1>2, <2>2, <3>1
  <2> DEFINE k == [j EXCEPT !.trace = calls, !.at = "render"]
  <2>4. k \in JobSet /\ SameJob(j, k) /\ Known(k) /\ k.verdict = ""
    BY <1>2, <2>2, <2>3, ToRender
  <2>5. have = k
    BY DEF calls
  <2> HIDE DEF t, k, have
  <2> QED
    BY <1>1, <2>1, <2>4, <2>5, CheckedBy
<1> QED
  BY <1>3, <1>4, <1>5

LEMMA RenderPut ==
    ASSUME NEW w \in WorkSet, NEW v \in Renderers, NEW k \in Songs, NEW n \in Nat
    PROVE  put(w, v, k, n) \in WorkSet
  BY DEF put, WorkSet

LEMMA RenderChecked ==
    ASSUME NEW w \in WorkSet, NEW j \in JobSet, j.at = "render", Known(j),
           NEW outcome \in {"grid", "not_decompiled", "library_error"}
    PROVE  Checked(w, j, TRUE, outcome, rendered(w, j, outcome))
<1> DEFINE n == Wanted(j)
           hit == j.op = "run" /\ get(w, j.by, j.key, n)
           kept == j.op = "leads" /\ w.library[j.key] # NoGrid
           frames == IF hit THEN Least(n, w.render[<<j.by, j.key>>]) ELSE n
           grid == [by |-> j.by, frames |-> frames]
           cache == IF hit THEN "hit" ELSE "miss"
           place == IF j.op = "run" /\ ~hit THEN "put" ELSE "keep"
           next == [j EXCEPT !.at = place, !.cache = cache]
<1>1. /\ j.key \in Songs /\ j.by \in Renderers /\ n \in Nat
      /\ w.library[j.key] \in Grids
  <2>1. j.key \in Songs /\ j.by \in Renderers /\ j.need \in Nat
    BY DEF JobSet
  <2>2. n \in Nat
    BY <2>1, LeadAssumption DEF Wanted
  <2>3. w.library \in [Songs -> Grids]
    BY DEF WorkSet
  <2> QED
    BY <2>1, <2>2, <2>3
<1>2. frames = n
  <2>1. CASE hit
    <3>1. w.render[<<j.by, j.key>>] \in Nat /\ w.render[<<j.by, j.key>>] >= n
      BY <1>1, <2>1 DEF WorkSet, get
    <3> QED
      BY <1>1, <2>1, <3>1 DEF Least
  <2> QED
    BY <2>1
<1>3. grid \in Grids /\ grid.by = j.by /\ grid.frames = n
  BY <1>1, <1>2 DEF Grids
<1>4. rendered(w, j, outcome) =
        CASE kept -> [w |-> w, job |-> [next EXCEPT !.at = "row", !.seen = w.library[j.key]]]
          [] ~kept /\ outcome # "grid" -> [w |-> w, job |-> Ends(j, outcome)]
          [] ~kept /\ outcome = "grid" ->
                [w |-> w, job |-> IF grid.frames < n THEN Ends(j, "library_error")
                                  ELSE [next EXCEPT !.seen = grid]]
  BY DEF rendered
<1>5. cache \in {"hit", "miss"} /\ place \in {"put", "keep"}
  OBVIOUS
<1>6. /\ [next EXCEPT !.at = "row", !.seen = w.library[j.key]]
            = [j EXCEPT !.at = "row", !.cache = cache, !.seen = w.library[j.key]]
      /\ [next EXCEPT !.seen = grid] = [j EXCEPT !.at = place, !.cache = cache, !.seen = grid]
  BY DEF JobSet
<1> HIDE DEF hit, grid, next, n, cache, frames, place
<1>7. CASE kept
  <2> DEFINE last == [j EXCEPT !.at = "row", !.cache = cache, !.seen = w.library[j.key]]
  <2>1. rendered(w, j, outcome) = [w |-> w, job |-> last]
    BY <1>4, <1>6, <1>7
  <2>2. last \in JobSet /\ SameJob(j, last) /\ Known(last) /\ last.verdict = ""
    <3>1. last = [j EXCEPT !.at = "row", !.cache = cache, !.seen = w.library[j.key]]
      OBVIOUS
    <3> HIDE DEF last
    <3> QED
      BY <1>1, <1>5, <1>7, <3>1, ToRow
  <2> QED
    BY <2>1, <2>2, CheckedBy
<1>8. CASE ~kept /\ outcome # "grid"
  <2>1. rendered(w, j, outcome) = [w |-> w, job |-> Ends(j, outcome)]
    BY <1>4, <1>8
  <2> HIDE DEF kept
  <2>2. outcome \in {"library_error", "not_decompiled"}
    BY <1>8
  <2> QED
    BY <2>1, <2>2, Ended, CheckedBy
<1>9. CASE ~kept /\ outcome = "grid"
  <2> DEFINE last == [j EXCEPT !.at = place, !.cache = cache, !.seen = grid]
  <2>1. rendered(w, j, outcome) = [w |-> w, job |-> last]
    BY <1>1, <1>3, <1>4, <1>6, <1>9
  <2>3. last \in JobSet /\ SameJob(j, last) /\ Known(last) /\ last.verdict = ""
    <3>1. j.op # "leads" => grid.by = j.by /\ grid.frames >= Wanted(j)
      BY <1>1, <1>3 DEF n
    <3>2. last = [j EXCEPT !.at = place, !.cache = cache, !.seen = grid]
      OBVIOUS
    <3> HIDE DEF last
    <3> QED
      BY <1>3, <1>5, <3>1, <3>2, ToRow
  <2> HIDE DEF last
  <2> QED
    BY <2>1, <2>3, CheckedBy
<1> QED
  BY <1>7, <1>8, <1>9

LEMMA PutChecked ==
    ASSUME NEW w \in WorkSet, NEW j \in JobSet, j.at = "put", Known(j)
    PROVE  Checked(w, j, TRUE, "grid", Rendered(w, j))
<1> DEFINE left == put(w, j.by, j.key, j.seen.frames)
           last == [j EXCEPT !.at = "keep"]
<1>1. left \in WorkSet
  BY RenderPut DEF JobSet, Grids
<1>2. last \in JobSet /\ SameJob(j, last) /\ Known(last) /\ last.verdict = ""
  BY DEF JobSet, SameJob, Known, Own, Wanted
<1>3. Rendered(w, j) = [w |-> left, job |-> last]
  BY DEF Rendered
<1> HIDE DEF left, last
<1> QED
  BY <1>1, <1>2, <1>3, CheckedBy

LEMMA KeepChecked ==
    ASSUME NEW w \in WorkSet, NEW j \in JobSet, j.at = "keep", Known(j)
    PROVE  Checked(w, j, TRUE, "grid", Keep(w, j))
  BY DEF Keep, Checked, SameJob, Known, Own, Wanted, JobSet, WorkSet

LEMMA RowChecked ==
    ASSUME NEW w \in WorkSet, NEW j \in JobSet, j.at = "row", Known(j)
    PROVE  Checked(w, j, TRUE, "grid", [w |-> w, job |-> Ends(j, "compared")])
  BY DEF Checked, SameJob, Known, Own, Ends, Wanted, JobSet, WorkSet

LEMMA CheckChecked ==
    ASSUME NEW w \in WorkSet, NEW j \in JobSet, j.at # "done", Known(j), NEW works \in BOOLEAN,
           NEW outcome \in {"grid", "not_decompiled", "library_error"},
           j.at # "oracle" => works, j.at # "render" => outcome = "grid"
    PROVE  Checked(w, j, works, outcome, check(w, j, works, outcome))
<1>1. j.at \in {"oracle", "render", "put", "keep", "row"}
  BY DEF JobSet
<1>2. CASE j.at = "oracle"
  <2>1. check(w, j, works, outcome) = oracle_frames(w, j, works) /\ outcome = "grid"
    BY <1>2 DEF check
  <2> QED
    BY <1>2, <2>1, OracleChecked
<1>3. CASE j.at = "render"
  <2>1. check(w, j, works, outcome) = rendered(w, j, outcome) /\ works = TRUE
    BY <1>3 DEF check
  <2> QED
    BY <1>3, <2>1, RenderChecked
<1>4. CASE j.at = "keep"
  <2>1. check(w, j, works, outcome) = Keep(w, j) /\ works = TRUE /\ outcome = "grid"
    BY <1>4 DEF check
  <2> QED
    BY <1>4, <2>1, KeepChecked
<1>5. CASE j.at = "row"
  <2>1. /\ check(w, j, works, outcome) = [w |-> w, job |-> Ends(j, "compared")]
        /\ works = TRUE /\ outcome = "grid"
    BY <1>5 DEF check
  <2> QED
    BY <1>5, <2>1, RowChecked
<1>6. CASE j.at = "put"
  <2>1. check(w, j, works, outcome) = Rendered(w, j) /\ works = TRUE /\ outcome = "grid"
    BY <1>6 DEF check
  <2> QED
    BY <1>6, <2>1, PutChecked
<1> QED
  BY <1>1, <1>2, <1>3, <1>4, <1>5, <1>6

(* Every job knows what its place needs, and one that failed has a reason  *)
(* of its own.                                                             *)
Blamed(n, j, down, short, raised) ==
    /\ j.verdict = "oracle_error" => n \in down \union short
    /\ j.verdict = "library_error" => n \in raised
Told(work, jobs, down, short, raised) ==
    /\ work \in WorkSet /\ jobs \in [DOMAIN jobs -> JobSet]
    /\ \A n \in DOMAIN jobs : Known(jobs[n]) /\ Blamed(n, jobs[n], down, short, raised)
SurveyInv == s.area = "survey" => Told(s.work, s.jobs, s.down, s.short, s.raised)

(* A job moves on, and what the others are blamed for stays.               *)
LEMMA TellsOn ==
    ASSUME NEW work, NEW jobs, NEW down, NEW short, NEW raised, Told(work, jobs, down, short, raised),
           NEW n \in DOMAIN jobs, NEW v \in WorkSet, NEW k \in JobSet, Known(k),
           NEW down1, NEW short1, NEW raised1,
           down \subseteq down1, short \subseteq short1, raised \subseteq raised1,
           Blamed(n, k, down1, short1, raised1)
    PROVE  Told(v, [jobs EXCEPT ![n] = k], down1, short1, raised1)
<1> DEFINE next == [jobs EXCEPT ![n] = k]
<1>1. jobs \in [DOMAIN jobs -> JobSet]
  BY DEF Told
<1>2. next \in [DOMAIN jobs -> JobSet] /\ DOMAIN next = DOMAIN jobs
  BY <1>1
<1>3. \A m \in DOMAIN jobs : next[m] = IF m = n THEN k ELSE jobs[m]
  BY <1>1
<1>4. \A m \in DOMAIN jobs : Blamed(m, jobs[m], down1, short1, raised1)
  BY DEF Told, Blamed
<1>5. \A m \in DOMAIN jobs : Known(jobs[m])
  BY DEF Told
<1> HIDE DEF next
<1>6. \A m \in DOMAIN next : Known(next[m]) /\ Blamed(m, next[m], down1, short1, raised1)
  BY <1>2, <1>3, <1>4, <1>5
<1> QED
  BY <1>2, <1>6 DEF Told, next

LEMMA SurveyBegins ==
    ASSUME SurveyInit
    PROVE  SurveyInv
<1>1. PICK jobs \in Groups : s = [area |-> "survey", work |-> Work, jobs |-> jobs, short |-> {}, down |-> {}, raised |-> {}]
  BY DEF SurveyInit
<1>2. s.work = Work /\ s.jobs = jobs
  BY <1>1
<1>3. \A n \in DOMAIN jobs : jobs[n] \in JobSet /\ Known(jobs[n]) /\ jobs[n].verdict = ""
  <2> TAKE n \in DOMAIN jobs
  <2> DEFINE op == jobs[n].op  key == jobs[n].key  by == jobs[n].by  need == jobs[n].need  long == jobs[n].long
  <2>1. jobs[n] = Begun(op, key, by, need, long)
    BY SurveyAssumption
  <2>2. op \in Ops /\ key \in Songs /\ by \in Renderers /\ need \in Nat \ {0} /\ long \in Nat \ {0}
    BY SurveyAssumption
  <2> HIDE DEF op, key, by, need, long
  <2>3. Begun(op, key, by, need, long) \in JobSet
    BY <2>2 DEF Begun, JobSet, Grids, NoGrid
  <2>4. Known(Begun(op, key, by, need, long)) /\ Begun(op, key, by, need, long).verdict = ""
    BY DEF Begun, Known
  <2> QED
    BY <2>1, <2>3, <2>4
<1>4. jobs \in [DOMAIN jobs -> JobSet]
  BY <1>3, SurveyAssumption
<1>5. Work \in WorkSet
  BY DEF Work, WorkSet, Grids, NoGrid
<1>6. \A n \in DOMAIN jobs : Blamed(n, jobs[n], {}, {}, {})
  BY <1>3 DEF Blamed
<1>7. s.down = {} /\ s.short = {} /\ s.raised = {}
  BY <1>1
<1> QED
  BY <1>2, <1>3, <1>4, <1>5, <1>6, <1>7 DEF SurveyInv, Told

LEMMA SurveyStays ==
    ASSUME SurveyInv, [StudiesNext]_s
    PROVE  SurveyInv'
<1> DEFINE told == Told(s.work, s.jobs, s.down, s.short, s.raised)
<1>1. CASE SurveyStep
  <2>1. /\ s.area = "survey"
        /\ \E n \in DOMAIN s.jobs : \E works \in BOOLEAN, outcome \in {"grid", "not_decompiled", "library_error"} :
              /\ s.jobs[n].at # "done"
              /\ s.jobs[n].at # "oracle" => works
              /\ s.jobs[n].at # "render" => outcome = "grid"
              /\ LET next == check(s.work, s.jobs[n], works, outcome)
                 IN  s' = [area |-> "survey", work |-> next.w, jobs |-> [s.jobs EXCEPT ![n] = next.job],
                           short |-> s.short \union Shorter(next.w, s.jobs),
                           down |-> IF works THEN s.down ELSE s.down \union {n},
                           raised |-> IF outcome = "library_error" THEN s.raised \union {n} ELSE s.raised]
    BY <1>1 DEF SurveyStep
  <2>2. PICK n \in DOMAIN s.jobs, works \in BOOLEAN, outcome \in {"grid", "not_decompiled", "library_error"} :
              /\ s.jobs[n].at # "done"
              /\ s.jobs[n].at # "oracle" => works
              /\ s.jobs[n].at # "render" => outcome = "grid"
              /\ LET next == check(s.work, s.jobs[n], works, outcome)
                 IN  s' = [area |-> "survey", work |-> next.w, jobs |-> [s.jobs EXCEPT ![n] = next.job],
                           short |-> s.short \union Shorter(next.w, s.jobs),
                           down |-> IF works THEN s.down ELSE s.down \union {n},
                           raised |-> IF outcome = "library_error" THEN s.raised \union {n} ELSE s.raised]
    BY <2>1
  <2> DEFINE next == check(s.work, s.jobs[n], works, outcome)
             short == s.short \union Shorter(next.w, s.jobs)
             down == IF works THEN s.down ELSE s.down \union {n}
             raised == IF outcome = "library_error" THEN s.raised \union {n} ELSE s.raised
             jobs == [s.jobs EXCEPT ![n] = next.job]
  <2>3. s' = [area |-> "survey", work |-> next.w, jobs |-> jobs, short |-> short, down |-> down, raised |-> raised]
    BY <2>2
  <2>4. told /\ s.work \in WorkSet /\ s.jobs[n] \in JobSet /\ Known(s.jobs[n])
    BY <2>1 DEF SurveyInv, Told
  <2>5. Checked(s.work, s.jobs[n], works, outcome, next)
    BY <2>2, <2>4, CheckChecked
  <2>6. Blamed(n, next.job, down, short, raised)
    <3>1. next.job.verdict = "oracle_error" =>
             ~works \/ next.w.trace[s.jobs[n].key] \in 1..(s.jobs[n].need - 1)
      BY <2>5 DEF Checked
    <3>2. next.w.trace[s.jobs[n].key] \in 1..(s.jobs[n].need - 1) => n \in short
      BY DEF Shorter
    <3>3. ~works => n \in down
      OBVIOUS
    <3>4. next.job.verdict = "library_error" => n \in raised
      BY <2>5 DEF Checked
    <3> HIDE DEF next, down, short, raised
    <3> QED
      BY <3>1, <3>2, <3>3, <3>4 DEF Blamed
  <2>7. next.w \in WorkSet /\ next.job \in JobSet /\ Known(next.job)
    BY <2>5 DEF Checked
  <2>8. s.down \subseteq down /\ s.short \subseteq short /\ s.raised \subseteq raised
    OBVIOUS
  <2>9. Told(next.w, jobs, down, short, raised)
    <3> HIDE DEF next, down, short, raised
    <3> QED
      BY <2>4, <2>6, <2>7, <2>8, TellsOn
  <2> HIDE DEF next, down, short, raised, jobs
  <2> QED
    BY <2>3, <2>9 DEF SurveyInv
<1>2. CASE SurveyDies
  <2>1. /\ s.area = "survey"
        /\ \E n \in DOMAIN s.jobs :
              s' = [area |-> "survey", work |-> s.work, jobs |-> [s.jobs EXCEPT ![n] = _failed(s.jobs[n])],
                    short |-> s.short, down |-> s.down, raised |-> s.raised \union {n}]
    BY <1>2 DEF SurveyDies
  <2>2. PICK n \in DOMAIN s.jobs :
              s' = [area |-> "survey", work |-> s.work, jobs |-> [s.jobs EXCEPT ![n] = _failed(s.jobs[n])],
                    short |-> s.short, down |-> s.down, raised |-> s.raised \union {n}]
    BY <2>1
  <2> DEFINE job == _failed(s.jobs[n])  raised == s.raised \union {n}  jobs == [s.jobs EXCEPT ![n] = job]
  <2>3. told /\ s.work \in WorkSet /\ s.jobs[n] \in JobSet
    BY <2>1 DEF SurveyInv, Told
  <2>4. job \in JobSet /\ Known(job) /\ job.verdict = "library_error"
    BY <2>3, Ended DEF _failed
  <2>5. Blamed(n, job, s.down, s.short, raised)
    BY <2>4 DEF Blamed
  <2>6. Told(s.work, jobs, s.down, s.short, raised)
    <3> HIDE DEF job
    <3>1. s.raised \subseteq raised
      OBVIOUS
    <3> HIDE DEF raised
    <3> QED
      BY <2>3, <2>4, <2>5, <3>1, TellsOn
  <2> HIDE DEF job, raised, jobs
  <2>7. s' = [area |-> "survey", work |-> s.work, jobs |-> jobs, short |-> s.short, down |-> s.down, raised |-> raised]
    BY <2>2 DEF job, raised, jobs
  <2> QED
    BY <2>6, <2>7 DEF SurveyInv
<1>3. CASE CacheStep
  BY <1>3, CacheApart DEF SurveyInv
<1>4. CASE FuzzStep
  BY <1>4, FuzzApart DEF SurveyInv
<1>6. CASE HistoryStep
  BY <1>6, HistoryApart DEF SurveyInv
<1>5. CASE UNCHANGED s
  BY <1>5 DEF SurveyInv
<1> QED
  BY <1>1, <1>2, <1>3, <1>4, <1>5, <1>6 DEF StudiesNext

(* The rows of jobs that share a work directory are their own: a run's     *)
(* grid is its own renderer's and long enough, and a job that failed has   *)
(* itself or a trace that was too short to blame (survey.py).              *)
THEOREM RowsAreOwn == StudiesSpec => []RowsOwn
<1>1. StudiesInit => SurveyInv
  <2>1. ASSUME TablesInit \/ CacheInit \/ ManifestInit PROVE SurveyInv
    BY <2>1 DEF TablesInit, CacheInit, ManifestInit, SurveyInv
  <2>2. ASSUME FuzzInit PROVE SurveyInv
    BY <2>2, FuzzApart DEF SurveyInv
  <2>3. ASSUME HistoryInit PROVE SurveyInv
    BY <2>3, HistoryApart DEF SurveyInv
  <2> QED
    BY <2>1, <2>2, <2>3, SurveyBegins DEF StudiesInit
<1>2. SurveyInv /\ [StudiesNext]_s => SurveyInv'
  BY SurveyStays
<1>3. SurveyInv => RowsOwn
  <2> SUFFICES ASSUME SurveyInv, s.area = "survey", NEW n \in DOMAIN s.jobs
               PROVE  LET job == s.jobs[n] IN
                        /\ job.at = "done" /\ job.verdict = "compared" =>
                              /\ job.op # "leads" => job.seen.by = job.by
                              /\ job.trace >= job.need
                              /\ job.op # "leads" => job.seen.frames >= Wanted(job)
                        /\ job.verdict = "oracle_error" => n \in s.down \union s.short
                        /\ job.verdict = "library_error" => n \in s.raised
    BY DEF RowsOwn
  <2>1. Known(s.jobs[n]) /\ Blamed(n, s.jobs[n], s.down, s.short, s.raised)
    BY DEF SurveyInv, Told
  <2> QED
    BY <2>1 DEF Known, Own, Blamed
<1> QED
  BY <1>1, <1>2, <1>3, PTL DEF StudiesSpec

-----------------------------------------------------------------------------
(* Numbers by induction, as the set of those that have a property.         *)
LEMMA Induction ==
    ASSUME NEW S \in SUBSET Nat, 0 \in S, \A n \in S : n + 1 \in S
    PROVE  \A n \in Nat : n \in S
<1> SUFFICES ASSUME Nat \ S # {} PROVE FALSE
  OBVIOUS
<1> DEFINE less == OpToRel(<, Nat)
<1>1. \E n \in Nat \ S : \A k \in Nat \ S : <<k, n>> \notin less
  <2>1. IsWellFoundedOn(less, Nat)
    BY NatLessThanWellFounded, Zenon
  <2> HIDE DEF less
  <2> QED
    BY <2>1, WFMin
<1>2. PICK n \in Nat \ S : \A k \in Nat \ S : ~(k < n)
  BY <1>1 DEF OpToRel
<1> QED
  BY <1>2

-----------------------------------------------------------------------------
(* The names that are new: the sequences New recurs through.               *)

NewStep(ids, names, before, k) ==
    IF names[k] \in (DOMAIN ids) \union Range(before) THEN before ELSE Append(before, names[k])
NewRun(f, ids, names, n) ==
    f = [k \in 0..n |-> IF k = 0 THEN <<>> ELSE NewStep(ids, names, f[k - 1], k)]

(* There are such sequences, for any number of names.                      *)
LEMMA NewRuns ==
    ASSUME NEW ids, NEW names, NEW n \in Nat
    PROVE  \E f : NewRun(f, ids, names, n)
<1> DEFINE S == {k \in Nat : \E f : NewRun(f, ids, names, k)}
<1>1. 0 \in S
  <2>1. NewRun([k \in 0..0 |-> <<>>], ids, names, 0)
    BY DEF NewRun
  <2> QED
    BY <2>1
<1>2. ASSUME NEW k \in S PROVE k + 1 \in S
  <2>1. PICK f : NewRun(f, ids, names, k)
    OBVIOUS
  <2> DEFINE g == [l \in 0..(k + 1) |-> IF l = k + 1 THEN NewStep(ids, names, f[k], k + 1) ELSE f[l]]
  <2>2. NewRun(g, ids, names, k + 1)
    <3>1. ASSUME NEW l \in 0..(k + 1)
          PROVE  g[l] = IF l = 0 THEN <<>> ELSE NewStep(ids, names, g[l - 1], l)
      <4>1. CASE l = k + 1
        BY <4>1
      <4>2. CASE l # k + 1
        <5>1. l \in 0..k /\ g[l] = f[l] /\ (l # 0 => g[l - 1] = f[l - 1])
          BY <4>2
        <5>2. f[l] = IF l = 0 THEN <<>> ELSE NewStep(ids, names, f[l - 1], l)
          BY <2>1, <5>1 DEF NewRun
        <5> QED
          BY <5>1, <5>2
      <4> QED
        BY <4>1, <4>2
    <3>2. g = [l \in 0..(k + 1) |-> g[l]]
      OBVIOUS
    <3> HIDE DEF g
    <3> QED
      BY <3>1, <3>2 DEF NewRun
  <2> QED
    BY <2>2
<1> HIDE DEF S
<1>3. n \in S
  BY <1>1, <1>2, Induction DEF S
<1> QED
  BY <1>3 DEF S

Distinct(q) == \A i, j \in DOMAIN q : q[i] = q[j] => i = j
(* What New has of the first k names.                                      *)
Fresh(T, ids, names, q, k) ==
    q \in Seq(T) /\ Distinct(q) /\ Range(q) = {names[i] : i \in 1..k} \ DOMAIN ids

LEMMA FreshOn ==
    ASSUME NEW T, NEW ids, NEW names \in Seq(T), NEW q, NEW k \in 1..Len(names),
           Fresh(T, ids, names, q, k - 1)
    PROVE  Fresh(T, ids, names, NewStep(ids, names, q, k), k)
<1>1. q \in Seq(T) /\ Distinct(q) /\ Range(q) = {names[i] : i \in 1..(k - 1)} \ DOMAIN ids
  BY DEF Fresh
<1>2. {names[i] : i \in 1..k} = {names[i] : i \in 1..(k - 1)} \union {names[k]}
  <2>1. 1..k = (1..(k - 1)) \union {k}
    OBVIOUS
  <2> QED
    BY <2>1
<1>3. CASE names[k] \in (DOMAIN ids) \union Range(q)
  <2>1. NewStep(ids, names, q, k) = q
    BY <1>3 DEF NewStep
  <2> QED
    BY <1>1, <1>2, <1>3, <2>1 DEF Fresh
<1>4. CASE names[k] \notin (DOMAIN ids) \union Range(q)
  <2> DEFINE p == Append(q, names[k])
  <2>1. NewStep(ids, names, q, k) = p
    BY <1>4 DEF NewStep
  <2>2. names[k] \in T
    OBVIOUS
  <2>3. /\ p \in Seq(T) /\ DOMAIN p = 1..(Len(q) + 1) /\ p[Len(q) + 1] = names[k]
        /\ \A i \in 1..Len(q) : p[i] = q[i]
    BY <1>1, <2>2
  <2>4. DOMAIN q = 1..Len(q) /\ Len(q) \in Nat
    BY <1>1
  <2> HIDE DEF p
  <2>5. \A i \in DOMAIN q : q[i] # names[k]
    BY <1>4 DEF Range
  <2>6. Distinct(p)
    BY <1>1, <2>3, <2>4, <2>5 DEF Distinct
  <2>7. Range(p) = Range(q) \union {names[k]}
    <3>1. ASSUME NEW x \in Range(p) PROVE x \in Range(q) \union {names[k]}
      <4>1. PICK i \in DOMAIN p : x = p[i]
        BY DEF Range
      <4> QED
        BY <2>3, <2>4, <4>1 DEF Range
    <3>2. ASSUME NEW x \in Range(q) PROVE x \in Range(p)
      <4>1. PICK i \in DOMAIN q : x = q[i]
        BY DEF Range
      <4> QED
        BY <2>3, <2>4, <4>1 DEF Range
    <3>3. names[k] \in Range(p)
      BY <2>3, <2>4 DEF Range
    <3> QED
      BY <3>1, <3>2, <3>3
  <2> QED
    BY <1>1, <1>2, <1>4, <2>1, <2>3, <2>6, <2>7 DEF Fresh
<1> QED
  BY <1>3, <1>4

(* The new names are those that have no line, each once.                   *)
LEMMA NewNames ==
    ASSUME NEW T, NEW ids, NEW names \in Seq(T)
    PROVE  /\ New(ids, names) \in Seq(T) /\ Distinct(New(ids, names))
           /\ Range(New(ids, names)) = Range(names) \ DOMAIN ids
<1> DEFINE new[n \in 0..Len(names)] ==
             IF n = 0 THEN <<>>
             ELSE IF names[n] \in (DOMAIN ids) \union Range(new[n - 1]) THEN new[n - 1]
             ELSE Append(new[n - 1], names[n])
<1>0. Len(names) \in Nat
  OBVIOUS
<1>1. NewRun(new, ids, names, Len(names))
  <2>1. \E f : NewRun(f, ids, names, Len(names))
    BY <1>0, NewRuns
  <2> QED
    BY <2>1 DEF NewRun, NewStep
<1>2. New(ids, names) = new[Len(names)]
  BY DEF New
<1> HIDE DEF new
<1> DEFINE S == {k \in Nat : k <= Len(names) => Fresh(T, ids, names, new[k], k)}
<1>3. 0 \in S
  <2>1. new[0] = <<>>
    BY <1>0, <1>1 DEF NewRun
  <2>2. Fresh(T, ids, names, <<>>, 0)
    <3>1. Range(<<>>) = {} /\ {names[i] : i \in 1..0} = {} /\ Distinct(<<>>)
      BY DEF Range, Distinct
    <3> QED
      BY <3>1 DEF Fresh
  <2> QED
    BY <2>1, <2>2
<1>4. ASSUME NEW k \in S PROVE k + 1 \in S
  <2>1. CASE k + 1 \in 1..Len(names)
    <3>1. new[k + 1] = NewStep(ids, names, new[k], k + 1)
      BY <1>1, <2>1 DEF NewRun
    <3>2. Fresh(T, ids, names, new[k], (k + 1) - 1)
      BY <2>1
    <3> QED
      BY <2>1, <3>1, <3>2, FreshOn
  <2> QED
    BY <2>1
<1> HIDE DEF S
<1>5. Len(names) \in S
  BY <1>0, <1>3, <1>4, Induction DEF S
<1>6. Fresh(T, ids, names, new[Len(names)], Len(names))
  BY <1>5 DEF S
<1>7. Range(names) = {names[i] : i \in 1..Len(names)}
  BY DEF Range
<1> QED
  BY <1>2, <1>6, <1>7 DEF Fresh

-----------------------------------------------------------------------------
(* A vocabulary: its lines, and what lines are appended to it.             *)

LEMMA LineOf ==
    ASSUME NEW T, NEW v \in Seq(T), Distinct(v), NEW i \in DOMAIN v
    PROVE  Max({j \in DOMAIN v : v[j] = v[i]}) = i
<1>1. {j \in DOMAIN v : v[j] = v[i]} = {i}
  BY DEF Distinct
<1>2. i \in Nat
  OBVIOUS
<1>3. Max({i}) = i
  BY <1>2 DEF Max
<1> QED
  BY <1>1, <1>3

LEMMA LinesCounted ==
    ASSUME NEW T, NEW v \in Seq(T), Distinct(v)
    PROVE  Cardinality(Range(v)) = Len(v)
<1>1. v \in Surjection(1..Len(v), Range(v)) /\ v \in Injection(1..Len(v), Range(v))
  <2>1. v \in [1..Len(v) -> Range(v)] /\ DOMAIN v = 1..Len(v)
    BY DEF Range
  <2>2. \A x \in Range(v) : \E i \in 1..Len(v) : v[i] = x
    BY <2>1 DEF Range
  <2>3. \A i, j \in 1..Len(v) : v[i] = v[j] => i = j
    BY <2>1 DEF Distinct
  <2> QED
    BY <2>1, <2>2, <2>3 DEF Surjection, Injection, IsInjective
<1>2. IsFiniteSet(1..Len(v)) /\ Cardinality(1..Len(v)) = Len(v)
  <2>1. Len(v) \in Nat
    OBVIOUS
  <2> QED
    BY <2>1, FS_Interval
<1> QED
  BY <1>1, <1>2, FS_Surjection

(* Other names after a vocabulary leave its lines where they are.          *)
Grown(T, v, q, r) ==
    /\ r \in Seq(T) /\ Len(r) = Len(v) + Len(q) /\ Distinct(r) /\ Range(r) = Range(v) \union Range(q)
    /\ \A i \in DOMAIN v : i \in DOMAIN r /\ r[i] = v[i]
    /\ \A i \in DOMAIN q : Len(v) + i \in DOMAIN r /\ r[Len(v) + i] = q[i]

LEMMA Grows ==
    ASSUME NEW T, NEW v \in Seq(T), NEW q \in Seq(T), Distinct(v), Distinct(q),
           Range(v) \intersect Range(q) = {}
    PROVE  Grown(T, v, q, v \o q)
<1> DEFINE r == v \o q
<1>1. r \in Seq(T) /\ DOMAIN r = 1..(Len(v) + Len(q)) /\ Len(r) = Len(v) + Len(q)
  OBVIOUS
<1>2. /\ DOMAIN v = 1..Len(v) /\ Len(v) \in Nat /\ DOMAIN q = 1..Len(q) /\ Len(q) \in Nat
  OBVIOUS
<1>3. \A i \in DOMAIN v : i \in DOMAIN r /\ r[i] = v[i]
  BY <1>2
<1>4. \A i \in DOMAIN q : Len(v) + i \in DOMAIN r /\ r[Len(v) + i] = q[i]
  BY <1>2
<1> HIDE DEF r
<1>5. ASSUME NEW k \in DOMAIN r
      PROVE  \/ k \in DOMAIN v
             \/ \E i \in DOMAIN q : k = Len(v) + i
  <2>1. CASE k > Len(v)
    <3>1. k - Len(v) \in DOMAIN q /\ k = Len(v) + (k - Len(v))
      BY <1>1, <1>2, <2>1
    <3> QED
      BY <3>1
  <2> QED
    BY <1>1, <1>2, <2>1
<1>6. \A i \in DOMAIN v, j \in DOMAIN q : v[i] # q[j]
  BY DEF Range
<1>7. Distinct(r)
  <2> SUFFICES ASSUME NEW k \in DOMAIN r, NEW l \in DOMAIN r, r[k] = r[l] PROVE k = l
    BY DEF Distinct
  <2>1. CASE k \in DOMAIN v /\ l \in DOMAIN v
    BY <1>3, <2>1 DEF Distinct
  <2>2. CASE k \in DOMAIN v /\ \E i \in DOMAIN q : l = Len(v) + i
    BY <1>3, <1>4, <1>6, <2>2
  <2>3. CASE l \in DOMAIN v /\ \E i \in DOMAIN q : k = Len(v) + i
    BY <1>3, <1>4, <1>6, <2>3
  <2>4. CASE (\E i \in DOMAIN q : k = Len(v) + i) /\ (\E i \in DOMAIN q : l = Len(v) + i)
    BY <1>4, <2>4 DEF Distinct
  <2> QED
    BY <1>5, <2>1, <2>2, <2>3, <2>4
<1>8. Range(r) = Range(v) \union Range(q)
  <2>1. ASSUME NEW x \in Range(r) PROVE x \in Range(v) \union Range(q)
    <3>1. PICK k \in DOMAIN r : x = r[k]
      BY DEF Range
    <3> QED
      BY <1>3, <1>4, <1>5, <3>1 DEF Range
  <2>2. ASSUME NEW x \in Range(v) \union Range(q) PROVE x \in Range(r)
    BY <1>3, <1>4 DEF Range
  <2> QED
    BY <2>1, <2>2
<1> QED
  BY <1>1, <1>3, <1>4, <1>7, <1>8 DEF Grown, r

(* The line of each name of a vocabulary, which Lines gives.               *)
LinesOf(v) == [n \in Range(v) |-> Max({i \in DOMAIN v : v[i] = n})]

LEMMA LineRead ==
    ASSUME NEW T, NEW v \in Seq(T), Distinct(v), NEW i \in DOMAIN v
    PROVE  v[i] \in Range(v) /\ LinesOf(v)[v[i]] = i
<1>1. v[i] \in Range(v)
  BY DEF Range
<1> QED
  BY <1>1, LineOf DEF LinesOf

(* A builder that has the lines of its vocabulary still has them after it  *)
(* appended the names that are new.                                        *)
LEMMA VocabGrows ==
    ASSUME NEW T, NEW v \in Seq(T), Distinct(v), NEW names \in Seq(T)
    PROVE  /\ Grown(T, v, New(LinesOf(v), names), v \o New(LinesOf(v), names))
           /\ Range(names) \subseteq Range(v \o New(LinesOf(v), names))
           /\ _Vocab(LinesOf(v), names) = LinesOf(v \o New(LinesOf(v), names))
<1> DEFINE ids == LinesOf(v)
           new == New(ids, names)
           r == v \o new
<1>1. DOMAIN ids = Range(v)
  BY DEF LinesOf
<1>2. new \in Seq(T) /\ Distinct(new) /\ Range(new) = Range(names) \ Range(v)
  BY <1>1, NewNames
<1>3. _Vocab(ids, names) = [n \in (DOMAIN ids) \union Range(new) |->
                              IF n \in DOMAIN ids THEN ids[n]
                              ELSE Cardinality(DOMAIN ids) + Max({i \in DOMAIN new : new[i] = n})]
  BY DEF _Vocab
<1> HIDE DEF new
<1>4. Grown(T, v, new, r)
  BY <1>2, Grows
<1>5. Range(r) = Range(v) \union Range(new)
  BY <1>4 DEF Grown
<1>6. r \in Seq(T) /\ Distinct(r)
  BY <1>4 DEF Grown
<1> HIDE DEF r
<1>7. ASSUME NEW n \in Range(v) PROVE ids[n] = LinesOf(r)[n]
  <2>1. PICK i \in DOMAIN v : v[i] = n
    BY DEF Range
  <2>2. i \in DOMAIN r /\ r[i] = n
    BY <1>4, <2>1 DEF Grown
  <2>3. ids[n] = i
    BY <2>1, LineRead
  <2>4. LinesOf(r)[n] = i
    BY <1>6, <2>2, LineRead
  <2> QED
    BY <2>3, <2>4
<1>8. ASSUME NEW n \in Range(new), n \notin Range(v)
      PROVE  Len(v) + Max({i \in DOMAIN new : new[i] = n}) = LinesOf(r)[n]
  <2>1. PICK i \in DOMAIN new : new[i] = n
    BY DEF Range
  <2>2. Len(v) + i \in DOMAIN r /\ r[Len(v) + i] = n
    BY <1>4, <2>1 DEF Grown
  <2>3. Max({j \in DOMAIN new : new[j] = n}) = i
    BY <1>2, <2>1, LineOf
  <2> DEFINE k == Len(v) + i
  <2>4. k \in DOMAIN r /\ r[k] = n
    BY <2>2
  <2> HIDE DEF k
  <2>5. LinesOf(r)[n] = k
    BY <1>6, <2>4, LineRead
  <2> QED
    BY <2>3, <2>5 DEF k
<1>9. Cardinality(DOMAIN ids) = Len(v)
  BY <1>1, LinesCounted
<1>10. LinesOf(r) = [n \in Range(r) |-> LinesOf(r)[n]]
  BY DEF LinesOf
<1>11. _Vocab(ids, names) = LinesOf(r)
  <2> DEFINE left == [n \in Range(v) \union Range(new) |->
                        IF n \in Range(v) THEN ids[n] ELSE Len(v) + Max({i \in DOMAIN new : new[i] = n})]
             right == [n \in Range(v) \union Range(new) |-> LinesOf(r)[n]]
  <2>1. _Vocab(ids, names) = left
    BY <1>1, <1>3, <1>9
  <2>2. LinesOf(r) = right
    BY <1>5, <1>10
  <2>3. left = right
    BY <1>7, <1>8
  <2> QED
    BY <2>1, <2>2, <2>3
<1>12. Range(names) \subseteq Range(r)
  BY <1>2, <1>5
<1> QED
  BY <1>4, <1>11, <1>12 DEF r, new

-----------------------------------------------------------------------------
(* The cache.  Its fields, and those of a builder.                         *)

Disk(meta, vocab, torn, tunes, temps, cut) ==
    [meta |-> meta, vocab |-> vocab, torn |-> torn, tunes |-> tunes, temps |-> temps, cut |-> cut]
IsDisk(d) == d = Disk(d.meta, d.vocab, d.torn, d.tunes, d.temps, d.cut)
IsMeta(m) == m = [format |-> m.format, compare |-> m.compare, prefixes |-> m.prefixes]

LEMMA DiskIs ==
    ASSUME NEW m, NEW v, NEW t, NEW f, NEW g, NEW c, NEW d, d = Disk(m, v, t, f, g, c)
    PROVE  IsDisk(d) /\ d.meta = m /\ d.vocab = v /\ d.torn = t /\ d.tunes = f /\ d.temps = g /\ d.cut = c
  BY DEF Disk, IsDisk

LEMMA BuilderIs ==
    ASSUME NEW a, NEW t, NEW i, NEW m, NEW r, NEW b, b = Builder(a, t, i, m, r)
    PROVE  b.at = a /\ b.todo = t /\ b.ids = i /\ b.meta = m /\ b.rec = r
  BY DEF Builder

LEMMA MetaSet ==
    ASSUME NEW d, IsDisk(d), NEW x
    PROVE  [d EXCEPT !.meta = x] = Disk(x, d.vocab, d.torn, d.tunes, d.temps, d.cut)
  BY DEF Disk, IsDisk

LEMMA VocabSet ==
    ASSUME NEW d, IsDisk(d), NEW x, NEW y
    PROVE  [d EXCEPT !.vocab = x, !.torn = y] = Disk(d.meta, x, y, d.tunes, d.temps, d.cut)
<1> DEFINE e == [d EXCEPT !.vocab = x]
<1>1. e = Disk(d.meta, x, d.torn, d.tunes, d.temps, d.cut)
  BY DEF Disk, IsDisk
<1>2. [d EXCEPT !.vocab = x, !.torn = y] = [e EXCEPT !.torn = y]
  OBVIOUS
<1> HIDE DEF e
<1>3. [e EXCEPT !.torn = y] = Disk(d.meta, x, y, d.tunes, d.temps, d.cut)
  BY <1>1 DEF Disk
<1> QED
  BY <1>2, <1>3

LEMMA TempsSet ==
    ASSUME NEW d, IsDisk(d), NEW x, NEW y
    PROVE  [d EXCEPT !.temps = x, !.cut = y] = Disk(d.meta, d.vocab, d.torn, d.tunes, x, y)
<1> DEFINE e == [d EXCEPT !.temps = x]
<1>1. e = Disk(d.meta, d.vocab, d.torn, d.tunes, x, d.cut)
  BY DEF Disk, IsDisk
<1>2. [d EXCEPT !.temps = x, !.cut = y] = [e EXCEPT !.cut = y]
  OBVIOUS
<1> HIDE DEF e
<1>3. [e EXCEPT !.cut = y] = Disk(d.meta, d.vocab, d.torn, d.tunes, x, y)
  BY <1>1 DEF Disk
<1> QED
  BY <1>2, <1>3

LEMMA TunesSet ==
    ASSUME NEW d, IsDisk(d), NEW x, NEW y
    PROVE  [d EXCEPT !.tunes = x, !.temps = y] = Disk(d.meta, d.vocab, d.torn, x, y, d.cut)
<1> DEFINE e == [d EXCEPT !.tunes = x]
<1>1. e = Disk(d.meta, d.vocab, d.torn, x, d.temps, d.cut)
  BY DEF Disk, IsDisk
<1>2. [d EXCEPT !.tunes = x, !.temps = y] = [e EXCEPT !.temps = y]
  OBVIOUS
<1> HIDE DEF e
<1>3. [e EXCEPT !.temps = y] = Disk(d.meta, d.vocab, d.torn, x, y, d.cut)
  BY <1>1 DEF Disk
<1> QED
  BY <1>2, <1>3

LEMMA PrefixesSet ==
    ASSUME NEW m, IsMeta(m), NEW x, NEW n, n = [m EXCEPT !.prefixes = x]
    PROVE  IsMeta(n) /\ n.format = m.format /\ n.compare = m.compare /\ n.prefixes = x
<1>1. n = [format |-> m.format, compare |-> m.compare, prefixes |-> x]
  BY DEF IsMeta
<1> QED
  BY <1>1 DEF IsMeta

(* Lines that are appended leave a cache's other fields alone.             *)
LEMMA AppendedTo ==
    ASSUME NEW d, IsDisk(d), NEW lines
    PROVE  LET e == Appended(d, lines)
           IN  /\ e = Disk(d.meta, e.vocab, e.torn, d.tunes, d.temps, d.cut)
               /\ d.torn = FALSE => e.torn = FALSE /\ (e.vocab = IF lines = <<>> THEN d.vocab ELSE d.vocab \o lines)
<1> DEFINE v == IF d.torn THEN Front(d.vocab) \o <<Last(d.vocab) \o Head(lines)>> \o Tail(lines)
                ELSE d.vocab \o lines
           e == Disk(d.meta, v, FALSE, d.tunes, d.temps, d.cut)
<1>1. CASE lines = <<>>
  BY <1>1 DEF Appended, IsDisk
<1>2. CASE lines # <<>>
  <2>1. Appended(d, lines) = [d EXCEPT !.vocab = v, !.torn = FALSE]
    BY <1>2 DEF Appended
  <2>2. d.torn = FALSE => v = d.vocab \o lines
    OBVIOUS
  <2> HIDE DEF v
  <2>3. [d EXCEPT !.vocab = v, !.torn = FALSE] = e
    BY VocabSet
  <2>4. e.vocab = v /\ e.torn = FALSE
    BY DEF Disk
  <2> QED
    BY <1>2, <2>1, <2>2, <2>3, <2>4
<1> QED
  BY <1>1, <1>2

LEMMA AppendedWhole ==
    ASSUME NEW d, IsDisk(d), d.torn = FALSE, NEW T, d.vocab \in Seq(T), NEW lines \in Seq(T)
    PROVE  Appended(d, lines).torn = FALSE /\ Appended(d, lines).vocab = d.vocab \o lines
<1>1. d.vocab \o <<>> = d.vocab
  OBVIOUS
<1> QED
  BY <1>1, AppendedTo

(* A builder's record, and the metas: a builder that has checked the meta  *)
(* wants the one on the disk, or is writing it.                            *)
Checked_ == {"meta", "build", "names", "temp", "replace"}
Saving == {"names", "temp", "replace"}
Working(b) == b.at \in Checked_ \union {"check"}
RecOf(b) ==
    /\ b.rec = <<>> \/ b.rec[2] \in NameLists
    /\ b.at \in Saving => b.rec # <<>>
    /\ b.at = "check" => b.rec = <<>>
    /\ b.rec = <<>> \/ b.rec[2] = <<>> \/ b.meta.prefixes = TRUE
Metas(d, b) ==
    /\ IsMeta(d.meta) /\ IsMeta(b.meta)
    /\ Working(b) => b.meta.format # 0
    /\ b.at = "meta" => d.meta = TornMeta
    /\ b.at \in Saving \union {"build"} => d.meta = b.meta
    /\ b.at = "replace" => b.rec[1] \in DOMAIN d.temps /\ d.temps[b.rec[1]].meta = b.meta

(* A file has features if its record has names, and then the meta has the  *)
(* prefixes; that meta is the one on the disk and the one wanted, unless a *)
(* forced build has yet to come to the tune.                               *)
Meant(file, meta, b) ==
    meta # NoMeta /\ (meta.format # 0 => file.meta = meta) /\ (b.at \in Checked_ => file.meta = b.meta)
FileOf(k, file, meta, b, left) ==
    /\ (file.feat = <<>>) = (file.names = <<>>)
    /\ file.feat # <<>> => file.meta.prefixes = TRUE /\ (k \in left \/ Meant(file, meta, b))
FilesOf(files, meta, b, left) == \A k \in DOMAIN files : FileOf(k, files[k], meta, b, left)

(* The newest names are in the temporary file or, if none is there in      *)
(* part, in the tune's.                                                    *)
Newest(d, newest) ==
    /\ \A k \in DOMAIN d.temps : k \in DOMAIN newest /\ d.temps[k].names = newest[k]
    /\ \A k \in DOMAIN d.tunes : k \in DOMAIN newest /\ (k \in DOMAIN d.temps \union d.cut \/ d.tunes[k].names = newest[k])

(* While no dying build has left half a line: every line is a name's own,  *)
(* a builder has the lines, and a file's features are those of the names   *)
(* it was recorded with.                                                   *)
LineSet == UNION {Range(names) : names \in NameLists}
Reads(v, feat, names) ==
    /\ names = [i \in DOMAIN names |-> names[i]] /\ DOMAIN feat = DOMAIN names
    /\ \A i \in DOMAIN names : feat[i] \in DOMAIN v /\ v[feat[i]] = names[i]
FilesRead(v, files) == \A k \in DOMAIN files : Reads(v, files[k].feat, files[k].names)
Readable(d, b) ==
    /\ d.torn = FALSE /\ d.vocab \in Seq(LineSet) /\ Distinct(d.vocab)
    /\ Working(b) => b.ids = LinesOf(d.vocab)
    /\ b.at = "temp" => Range(b.rec[2]) \subseteq Range(d.vocab)
    /\ FilesRead(d.vocab, d.tunes) /\ FilesRead(d.vocab, d.temps)

Held(d, b, newest, left, torn) ==
    /\ IsDisk(d) /\ RecOf(b) /\ Metas(d, b)
    /\ FilesOf(d.tunes, d.meta, b, left) /\ FilesOf(d.temps, d.meta, b, left)
    /\ Newest(d, newest)
    /\ ~torn => Readable(d, b)
CacheInv == s.area = "cache" => Held(s.d, s.b, s.newest, s.left, s.torn) /\ s.format \in Nat \ {0}

LEMMA NamesTyped ==
    ASSUME NEW names \in NameLists
    PROVE  names \in Seq(LineSet) /\ Range(names) \subseteq LineSet
<1>1. Range(names) \subseteq LineSet
  BY DEF LineSet
<1>2. names \in Seq(Range(names))
  BY NameAssumption
<1> QED
  BY <1>1, <1>2

LEMMA NoMetaIs ==
    /\ IsMeta(NoMeta) /\ IsMeta(TornMeta) /\ NoMeta # TornMeta
    /\ NoMeta.format = 0 /\ TornMeta.format = 0 /\ NoMeta.prefixes = FALSE
<1>1. NoMeta.compare # TornMeta.compare
  BY DEF NoMeta, TornMeta
<1> QED
  BY <1>1 DEF IsMeta, NoMeta, TornMeta

LEMMA NoBuilderIs ==
    ASSUME NEW a \in {"none", "refused"}, NEW b, b = Ended_(a)
    PROVE  /\ b.at = a /\ RecOf(b) /\ ~Working(b) /\ b.at \notin Checked_ /\ IsMeta(b.meta)
           /\ b.at \notin {"check", "meta", "build", "names", "temp", "replace"} /\ b.rec = <<>>
<1>1. b.at = a /\ b.meta = NoMeta /\ b.rec = <<>>
  BY BuilderIs DEF Ended_
<1> QED
  BY <1>1, NoMetaIs DEF RecOf, Working, Checked_, Saving

LEMMA CacheEmpty ==
    ASSUME CacheInit
    PROVE  CacheInv
<1>1. /\ s.d = Empty /\ s.b = Ended_("none") /\ s.newest = <<>> /\ s.left = {} /\ s.format = 1
  BY DEF CacheInit, NoBuilder
<1>2. Empty = Disk(NoMeta, <<>>, FALSE, <<>>, <<>>, {})
  BY DEF Empty, Disk
<1> DEFINE d == Disk(NoMeta, <<>>, FALSE, <<>>, <<>>, {})  b == Ended_("none")
<1>3. /\ IsDisk(d) /\ d.meta = NoMeta /\ d.vocab = <<>> /\ d.torn = FALSE /\ d.tunes = <<>> /\ d.temps = <<>>
  BY DEF Disk, IsDisk
<1>4. /\ b.at = "none" /\ RecOf(b) /\ ~Working(b) /\ b.at \notin Checked_ /\ IsMeta(b.meta)
  BY NoBuilderIs
<1> HIDE DEF d, b
<1>5. DOMAIN d.tunes = {} /\ DOMAIN d.temps = {}
  BY <1>3
<1>6. Distinct(<<>>) /\ <<>> \in Seq(LineSet)
  BY DEF Distinct
<1>7. Readable(d, b)
  BY <1>3, <1>4, <1>5, <1>6 DEF Readable, FilesRead
<1>8. Metas(d, b)
  BY <1>3, <1>4, NoMetaIs DEF Metas, Checked_, Saving
<1>9. FilesOf(d.tunes, d.meta, b, {}) /\ FilesOf(d.temps, d.meta, b, {}) /\ Newest(d, <<>>)
  BY <1>5 DEF FilesOf, Newest
<1>10. Held(d, b, <<>>, {}, s.torn)
  BY <1>3, <1>4, <1>7, <1>8, <1>9 DEF Held
<1>11. s.d = d /\ s.b = b
  BY <1>1, <1>2 DEF d, b
<1> QED
  BY <1>1, <1>10, <1>11 DEF CacheInv

(* What a builder is bound to does not bind one that is gone.              *)
LEMMA FilesLeft ==
    ASSUME NEW files, NEW meta, NEW b, NEW left, FilesOf(files, meta, b, left), NEW c, c.at \notin Checked_
    PROVE  FilesOf(files, meta, c, left)
  BY DEF FilesOf, FileOf, Meant

LEMMA Quits ==
    ASSUME NEW d, NEW b, NEW newest, NEW left, NEW torn, Held(d, b, newest, left, torn),
           NEW a \in {"none", "refused"}, NEW c, c = Ended_(a)
    PROVE  Held(d, c, newest, left, torn)
<1>1. /\ c.at = a /\ RecOf(c) /\ ~Working(c) /\ c.at \notin Checked_ /\ IsMeta(c.meta)
      /\ c.at \notin {"check", "meta", "build", "names", "temp", "replace"}
  BY NoBuilderIs
<1>2. FilesOf(d.tunes, d.meta, c, left) /\ FilesOf(d.temps, d.meta, c, left)
  BY <1>1, FilesLeft DEF Held
<1>3. Metas(d, c)
  BY <1>1 DEF Held, Metas, Saving
<1>4. ~torn => Readable(d, c)
  BY <1>1 DEF Held, Readable
<1> QED
  BY <1>1, <1>2, <1>3, <1>4 DEF Held

(* A build begins with the lines of the vocabulary.                        *)
LEMMA Begins ==
    ASSUME NEW d, NEW b, NEW newest, NEW left, NEW torn, Held(d, b, newest, left, torn),
           NEW selected, NEW force \in BOOLEAN, NEW want, IsMeta(want), want.format # 0,
           NEW new, new = build(d, selected, force, want)
    PROVE  Held(new.d, new.b, newest, IF force THEN DOMAIN newest ELSE left, torn)
<1> DEFINE e == IF force THEN [d EXCEPT !.meta = NoMeta] ELSE d
           c == Builder("check", {k \in selected : force \/ k \notin DOMAIN d.tunes}, Lines(d), want, <<>>)
           to == IF force THEN DOMAIN newest ELSE left
<1>1. new.d = e /\ new.b = c
  BY DEF build
<1>2. /\ IsDisk(e) /\ e.vocab = d.vocab /\ e.torn = d.torn /\ e.tunes = d.tunes /\ e.temps = d.temps /\ e.cut = d.cut
      /\ force => e.meta = NoMeta
      /\ ~force => e.meta = d.meta
  <2>1. IsDisk(d)
    BY DEF Held
  <2>2. CASE force
    <3>1. e = Disk(NoMeta, d.vocab, d.torn, d.tunes, d.temps, d.cut)
      BY <2>1, <2>2, MetaSet
    <3> QED
      BY <2>2, <3>1, DiskIs
  <2>3. CASE ~force
    BY <2>1, <2>3
  <2> QED
    BY <2>2, <2>3
<1>3. c.at = "check" /\ c.ids = Lines(d) /\ c.meta = want /\ c.rec = <<>>
  BY BuilderIs
<1> HIDE DEF e, c
<1>4. RecOf(c) /\ c.at \notin Checked_
  BY <1>3 DEF RecOf, Saving, Checked_
<1>5. Metas(e, c)
  BY <1>2, <1>3, NoMetaIs DEF Held, Metas, Saving, Working
<1>6. FilesOf(e.tunes, e.meta, c, to) /\ FilesOf(e.temps, e.meta, c, to)
  <2>1. CASE force
    <3>1. DOMAIN e.tunes \subseteq to /\ DOMAIN e.temps \subseteq to
      BY <1>2, <2>1 DEF Held, Newest
    <3> HIDE DEF to
    <3> QED
      BY <1>2, <3>1 DEF Held, FilesOf, FileOf
  <2>2. CASE ~force
    BY <1>2, <1>4, <2>2, FilesLeft DEF Held
  <2> QED
    BY <2>1, <2>2
<1>7. Newest(e, newest)
  BY <1>2 DEF Held, Newest
<1>8. Lines(d) = LinesOf(d.vocab)
  BY DEF Lines, LinesOf
<1>9. ~torn => Readable(e, c)
  BY <1>2, <1>3, <1>8 DEF Held, Readable
<1>10. Held(e, c, newest, to, torn)
  BY <1>2, <1>4, <1>5, <1>6, <1>7, <1>9 DEF Held
<1> HIDE DEF to
<1> QED
  BY <1>1, <1>10 DEF to

(* The meta is checked: what it keeps of a cache is as it wants it.        *)
LEMMA Checks ==
    ASSUME NEW d, NEW b, NEW newest, NEW left, NEW torn, Held(d, b, newest, left, torn), b.at = "check",
           NEW new, new = _meta(d, b)
    PROVE  Held(new.d, new.b, newest, left, torn)
<1>1. CASE Refused(d.meta, b.meta)
  <2>1. new.d = d /\ new.b = Ended_("refused")
    BY <1>1 DEF _meta
  <2> QED
    BY <2>1, Quits
<1>2. CASE ~Refused(d.meta, b.meta)
  <2> DEFINE e == [d EXCEPT !.meta = TornMeta]
             m == [b.meta EXCEPT !.prefixes = d.meta.prefixes]
             c == Builder("meta", b.todo, b.ids, m, b.rec)
  <2>1. new.d = e /\ new.b = c
    BY <1>2 DEF _meta
  <2>2. IsDisk(d) /\ IsMeta(d.meta) /\ IsMeta(b.meta) /\ b.meta.format # 0 /\ b.rec = <<>>
    BY DEF Held, Metas, Working, RecOf
  <2>3. e = Disk(TornMeta, d.vocab, d.torn, d.tunes, d.temps, d.cut)
    BY <2>2, MetaSet
  <2>4. /\ IsDisk(e) /\ e.vocab = d.vocab /\ e.torn = d.torn /\ e.tunes = d.tunes /\ e.temps = d.temps
        /\ e.cut = d.cut /\ e.meta = TornMeta
    BY <2>3, DiskIs
  <2>5. IsMeta(m) /\ m.format = b.meta.format /\ m.compare = b.meta.compare /\ m.prefixes = d.meta.prefixes
    <3> DEFINE x == d.meta.prefixes
    <3> HIDE DEF x
    <3>1. m = [b.meta EXCEPT !.prefixes = x]
      BY DEF x
    <3> HIDE DEF m
    <3>2. IsMeta(m) /\ m.format = b.meta.format /\ m.compare = b.meta.compare /\ m.prefixes = x
      BY <2>2, <3>1, PrefixesSet
    <3> QED
      BY <3>2 DEF x
  <2>6. c.at = "meta" /\ c.ids = b.ids /\ c.meta = m /\ c.rec = b.rec
    BY BuilderIs
  <2> HIDE DEF e, c, m
  <2>7. d.meta # NoMeta => m = d.meta
    <3>1. d.meta # NoMeta => d.meta.format = b.meta.format /\ d.meta.compare = b.meta.compare
      BY <1>2 DEF Refused, _check_format
    <3> QED
      BY <2>2, <2>5, <3>1 DEF IsMeta
  <2>8. d.meta # NoMeta => d.meta.format # 0
    BY <2>2, <2>5, <2>7
  <2>9. ASSUME NEW files, FilesOf(files, d.meta, b, left) PROVE FilesOf(files, e.meta, c, left)
    <3> SUFFICES ASSUME NEW k \in DOMAIN files PROVE FileOf(k, files[k], TornMeta, c, left)
      BY <2>4 DEF FilesOf
    <3>1. FileOf(k, files[k], d.meta, b, left)
      BY <2>9 DEF FilesOf
    <3>2. ASSUME Meant(files[k], d.meta, b) PROVE Meant(files[k], TornMeta, c)
      BY <2>6, <2>7, <2>8, <3>2, NoMetaIs DEF Meant
    <3> QED
      BY <3>1, <3>2 DEF FileOf
  <2>10. RecOf(c)
    BY <2>2, <2>6 DEF RecOf, Saving
  <2>11. Metas(e, c)
    BY <2>2, <2>4, <2>5, <2>6, NoMetaIs DEF Metas, Saving
  <2>12. Newest(e, newest)
    BY <2>4 DEF Held, Newest
  <2>13. ~torn => Readable(e, c)
    BY <2>4, <2>6 DEF Held, Readable, Working
  <2> QED
    BY <2>1, <2>4, <2>9, <2>10, <2>11, <2>12, <2>13 DEF Held
<1> QED
  BY <1>1, <1>2

LEMMA Writes ==
    ASSUME NEW d, NEW b, NEW newest, NEW left, NEW torn, Held(d, b, newest, left, torn), b.at = "meta",
           NEW new, new = MetaOf(d, b)
    PROVE  Held(new.d, new.b, newest, left, torn)
<1> DEFINE e == [d EXCEPT !.meta = b.meta]
           to == IF b.rec = <<>> THEN "build" ELSE "names"
           c == Builder(to, b.todo, b.ids, b.meta, b.rec)
<1>1. new.d = e /\ new.b = c
  BY DEF MetaOf
<1>2. IsDisk(d) /\ IsMeta(b.meta) /\ b.meta.format # 0 /\ b.meta # NoMeta
  BY NoMetaIs DEF Held, Metas, Working, Checked_
<1>3. e = Disk(b.meta, d.vocab, d.torn, d.tunes, d.temps, d.cut)
  BY <1>2, MetaSet
<1>4. /\ IsDisk(e) /\ e.vocab = d.vocab /\ e.torn = d.torn /\ e.tunes = d.tunes /\ e.temps = d.temps
      /\ e.cut = d.cut /\ e.meta = b.meta
  BY <1>3, DiskIs
<1>5. c.at = to /\ c.ids = b.ids /\ c.meta = b.meta /\ c.rec = b.rec
  BY BuilderIs
<1>6. to \in {"build", "names"} /\ (to = "names" => b.rec # <<>>)
  OBVIOUS
<1> HIDE DEF e, c, to
<1>7. ASSUME NEW files, FilesOf(files, d.meta, b, left) PROVE FilesOf(files, e.meta, c, left)
  <2> SUFFICES ASSUME NEW k \in DOMAIN files PROVE FileOf(k, files[k], b.meta, c, left)
    BY <1>4 DEF FilesOf
  <2>1. FileOf(k, files[k], d.meta, b, left)
    BY <1>7 DEF FilesOf
  <2>2. ASSUME Meant(files[k], d.meta, b) PROVE Meant(files[k], b.meta, c)
    BY <1>2, <1>5, <2>2 DEF Meant, Checked_
  <2> QED
    BY <2>1, <2>2 DEF FileOf
<1>8. RecOf(c)
  BY <1>5, <1>6 DEF Held, RecOf, Saving
<1>9. Metas(e, c)
  BY <1>2, <1>4, <1>5, <1>6 DEF Metas, Saving
<1>10. Newest(e, newest)
  BY <1>4 DEF Held, Newest
<1>11. ~torn => Readable(e, c)
  BY <1>4, <1>5, <1>6 DEF Held, Readable, Working, Checked_
<1> QED
  BY <1>1, <1>4, <1>7, <1>8, <1>9, <1>10, <1>11 DEF Held

(* A record comes: the first that is no error has the prefixes written.    *)
LEMMA RecordComes ==
    ASSUME NEW d, NEW b, NEW newest, NEW left, NEW torn, Held(d, b, newest, left, torn), b.at = "build",
           NEW key, NEW names \in NameLists, NEW new, new = Received(d, b, key, names)
    PROVE  Held(new.d, new.b, newest, left, torn)
<1> DEFINE rec == <<key, names>>
<1>1. /\ IsDisk(d) /\ IsMeta(b.meta) /\ b.meta.format # 0 /\ d.meta = b.meta /\ rec # <<>> /\ rec[2] = names
  BY DEF Held, Metas, Working, Checked_, Saving
<1> HIDE DEF rec
<1>2. CASE names = <<>> \/ b.meta.prefixes
  <2> DEFINE c == Builder("names", b.todo \ {key}, b.ids, b.meta, rec)
  <2>1. new.d = d /\ new.b = c
    BY <1>2 DEF Received, rec
  <2>2. c.at = "names" /\ c.ids = b.ids /\ c.meta = b.meta /\ c.rec = rec
    BY BuilderIs
  <2> HIDE DEF c
  <2>3. RecOf(c)
    BY <1>1, <1>2, <2>2 DEF RecOf
  <2>4. Metas(d, c)
    BY <1>1, <2>2 DEF Metas
  <2>5. ASSUME NEW files, FilesOf(files, d.meta, b, left) PROVE FilesOf(files, d.meta, c, left)
    BY <2>2, <2>5 DEF FilesOf, FileOf, Meant, Checked_
  <2>6. ~torn => Readable(d, c)
    BY <2>2 DEF Held, Readable, Working, Checked_
  <2> QED
    BY <2>1, <2>3, <2>4, <2>5, <2>6 DEF Held
<1>3. CASE names # <<>> /\ ~b.meta.prefixes
  <2> DEFINE e == [d EXCEPT !.meta = TornMeta]
             m == [b.meta EXCEPT !.prefixes = TRUE]
             c == Builder("meta", b.todo \ {key}, b.ids, m, rec)
  <2>1. new.d = e /\ new.b = c
    BY <1>3 DEF Received, rec
  <2>2. e = Disk(TornMeta, d.vocab, d.torn, d.tunes, d.temps, d.cut)
    BY <1>1, MetaSet
  <2>3. /\ IsDisk(e) /\ e.vocab = d.vocab /\ e.torn = d.torn /\ e.tunes = d.tunes /\ e.temps = d.temps
        /\ e.cut = d.cut /\ e.meta = TornMeta
    BY <2>2, DiskIs
  <2>4. IsMeta(m) /\ m.format = b.meta.format /\ m.prefixes = TRUE
    BY <1>1, PrefixesSet
  <2>5. c.at = "meta" /\ c.ids = b.ids /\ c.meta = m /\ c.rec = rec
    BY BuilderIs
  <2> HIDE DEF e, c, m
  <2>6. RecOf(c)
    BY <1>1, <2>4, <2>5 DEF RecOf, Saving
  <2>7. Metas(e, c)
    BY <1>1, <2>3, <2>4, <2>5, NoMetaIs DEF Metas, Saving
  <2>8. ASSUME NEW files, FilesOf(files, d.meta, b, left) PROVE FilesOf(files, e.meta, c, left)
    <3> SUFFICES ASSUME NEW k \in DOMAIN files PROVE FileOf(k, files[k], e.meta, c, left)
      BY DEF FilesOf
    <3>1. FileOf(k, files[k], d.meta, b, left)
      BY <2>8 DEF FilesOf
    <3>2. ASSUME files[k].feat # <<>>, Meant(files[k], d.meta, b) PROVE FALSE
      <4>1. files[k].meta = b.meta /\ files[k].meta.prefixes = TRUE
        BY <3>1, <3>2 DEF FileOf, Meant, Checked_
      <4> QED
        BY <1>3, <4>1
    <3> QED
      BY <3>1, <3>2 DEF FileOf
  <2>9. Newest(e, newest)
    BY <2>3 DEF Held, Newest
  <2>10. ~torn => Readable(e, c)
    BY <2>3, <2>5 DEF Held, Readable, Working, Checked_
  <2> QED
    BY <2>1, <2>3, <2>6, <2>7, <2>8, <2>9, <2>10 DEF Held
<1> QED
  BY <1>2, <1>3

(* The names get their lines, and the temporary file is opened.            *)
LEMMA NamesOn ==
    ASSUME NEW d, NEW b, NEW newest, NEW left, NEW torn, Held(d, b, newest, left, torn), b.at = "names",
           NEW new, new = Named(d, b)
    PROVE  Held(new.d, new.b, newest, left, torn)
<1> DEFINE key == b.rec[1]
           names == b.rec[2]
           lines == New(b.ids, names)
           grown == Appended(d, lines)
           temps == Unset(d.temps, key)
           cut == d.cut \union {key}
           e == [grown EXCEPT !.temps = temps, !.cut = cut]
           c == Builder("temp", b.todo, _Vocab(b.ids, names), b.meta, b.rec)
<1>1. new.d = e /\ new.b = c
  BY DEF Named
<1>2. IsDisk(d) /\ names \in NameLists
  BY DEF Held, RecOf, Saving
<1>3. grown = Disk(d.meta, grown.vocab, grown.torn, d.tunes, d.temps, d.cut)
  BY <1>2, AppendedTo
<1>4. e = [grown EXCEPT !.temps = temps, !.cut = cut]
  OBVIOUS
<1>5. temps = Unset(d.temps, key)
  OBVIOUS
<1> HIDE DEF grown, e, temps, cut, key
<1>6. IsDisk(grown) /\ grown.meta = d.meta /\ grown.tunes = d.tunes
  BY <1>3, DiskIs
<1>7. e = Disk(d.meta, grown.vocab, grown.torn, d.tunes, temps, cut)
  <2>1. [grown EXCEPT !.temps = temps, !.cut = cut]
          = Disk(grown.meta, grown.vocab, grown.torn, grown.tunes, temps, cut)
    BY <1>6, TempsSet
  <2> QED
    BY <1>4, <1>6, <2>1
<1>8. /\ IsDisk(e) /\ e.vocab = grown.vocab /\ e.torn = grown.torn /\ e.tunes = d.tunes /\ e.temps = temps
      /\ e.cut = cut /\ e.meta = d.meta
  BY <1>7, DiskIs
<1>9. c.at = "temp" /\ c.ids = _Vocab(b.ids, names) /\ c.meta = b.meta /\ c.rec = b.rec
  BY BuilderIs
<1>10. DOMAIN temps = (DOMAIN d.temps) \ {key} /\ \A k \in DOMAIN d.temps : k # key => temps[k] = d.temps[k]
  BY <1>5 DEF Unset
<1> HIDE DEF c, lines
<1>11. RecOf(c)
  BY <1>9 DEF Held, RecOf, Saving
<1>12. Metas(e, c)
  BY <1>8, <1>9 DEF Held, Metas, Working, Checked_, Saving
<1>13. FilesOf(e.tunes, e.meta, c, left) /\ FilesOf(e.temps, e.meta, c, left)
  <2>1. FilesOf(d.tunes, d.meta, c, left) /\ FilesOf(d.temps, d.meta, c, left)
    BY <1>9 DEF Held, FilesOf, FileOf, Meant, Checked_
  <2> QED
    BY <1>8, <1>10, <2>1 DEF FilesOf
<1>14. Newest(e, newest)
  BY <1>8, <1>10 DEF Held, Newest, cut
<1>15. ASSUME ~torn PROVE Readable(e, c)
  <2>1. /\ d.torn = FALSE /\ d.vocab \in Seq(LineSet) /\ Distinct(d.vocab) /\ b.ids = LinesOf(d.vocab)
        /\ FilesRead(d.vocab, d.tunes) /\ FilesRead(d.vocab, d.temps)
    BY <1>15 DEF Held, Readable, Working, Checked_
  <2>2. names \in Seq(LineSet)
    BY <1>2, NamesTyped
  <2> DEFINE r == d.vocab \o lines
  <2>3. /\ Grown(LineSet, d.vocab, lines, r) /\ Range(names) \subseteq Range(r) /\ _Vocab(b.ids, names) = LinesOf(r)
    BY <2>1, <2>2, VocabGrows DEF lines
  <2>4. lines \in Seq(LineSet)
    BY <2>2, NewNames DEF lines
  <2>5. grown.torn = FALSE /\ grown.vocab = r
    BY <1>2, <2>1, <2>4, AppendedWhole DEF grown
  <2>6. /\ r \in Seq(LineSet) /\ Distinct(r)
        /\ \A i \in DOMAIN d.vocab : i \in DOMAIN r /\ r[i] = d.vocab[i]
    BY <2>3 DEF Grown
  <2> HIDE DEF r
  <2>7. FilesRead(r, d.tunes) /\ FilesRead(r, d.temps)
    BY <2>1, <2>6 DEF FilesRead, Reads
  <2>8. FilesRead(r, temps)
    BY <1>10, <2>7 DEF FilesRead
  <2> QED
    BY <1>8, <1>9, <2>3, <2>5, <2>6, <2>7, <2>8 DEF Readable
<1> QED
  BY <1>1, <1>8, <1>11, <1>12, <1>13, <1>14, <1>15 DEF Held

(* The temporary file is written, with the lines of its names.             *)
LEMMA Zips ==
    ASSUME NEW d, NEW b, NEW newest, NEW left, NEW torn, Held(d, b, newest, left, torn), b.at = "temp",
           NEW new, new = Zipped(d, b)
    PROVE  Held(new.d, new.b, Set(newest, b.rec[1], b.rec[2]), left, torn)
<1> DEFINE key == b.rec[1]
           names == b.rec[2]
           file == File(b)
           temps == Set(d.temps, key, file)
           cut == d.cut \ {key}
           e == [d EXCEPT !.temps = temps, !.cut = cut]
           c == Builder("replace", b.todo, b.ids, b.meta, b.rec)
           now == Set(newest, key, names)
<1>1. new.d = e /\ new.b = c
  BY DEF Zipped
<1>2. IsDisk(d) /\ names \in NameLists /\ (names = <<>> \/ b.meta.prefixes = TRUE) /\ b.rec # <<>>
  BY DEF Held, RecOf, Saving
<1>3. file.feat = [n \in DOMAIN names |-> b.ids[names[n]]] /\ file.names = names /\ file.meta = b.meta
  BY DEF File
<1>4. /\ e = [d EXCEPT !.temps = temps, !.cut = cut] /\ temps = Set(d.temps, key, file)
       /\ now = Set(newest, key, names) /\ cut = d.cut \ {key}
  OBVIOUS
<1> HIDE DEF file, e, temps, cut, now, key
<1>5. e = Disk(d.meta, d.vocab, d.torn, d.tunes, temps, cut)
  <2>1. [d EXCEPT !.temps = temps, !.cut = cut] = Disk(d.meta, d.vocab, d.torn, d.tunes, temps, cut)
    BY <1>2, TempsSet
  <2> QED
    BY <1>4, <2>1
<1>6. /\ IsDisk(e) /\ e.vocab = d.vocab /\ e.torn = d.torn /\ e.tunes = d.tunes /\ e.temps = temps
      /\ e.cut = cut /\ e.meta = d.meta
  BY <1>5, DiskIs
<1>7. c.at = "replace" /\ c.ids = b.ids /\ c.meta = b.meta /\ c.rec = b.rec
  BY BuilderIs
<1>8. DOMAIN temps = {key} \union DOMAIN d.temps /\ temps[key] = file /\ \A k \in DOMAIN d.temps : k # key => temps[k] = d.temps[k]
  BY <1>4 DEF Set
<1>9. DOMAIN now = {key} \union DOMAIN newest /\ now[key] = names /\ \A k \in DOMAIN newest : k # key => now[k] = newest[k]
  BY <1>4 DEF Set
<1> HIDE DEF c
<1>10. RecOf(c)
  BY <1>7 DEF Held, RecOf, Saving
<1>11. d.meta = b.meta /\ IsMeta(b.meta) /\ b.meta.format # 0 /\ b.meta # NoMeta
  BY NoMetaIs DEF Held, Metas, Working, Checked_, Saving
<1>12. Metas(e, c)
  BY <1>3, <1>6, <1>7, <1>8, <1>11 DEF Metas, key
<1>13. (file.feat = <<>>) = (file.names = <<>>)
  <2>1. names = <<>> \/ Len(names) > 0
    BY <1>2, NamesTyped
  <2>2. DOMAIN file.feat = 1..Len(names) /\ Len(names) \in Nat
    BY <1>2, <1>3, NamesTyped
  <2>3. ASSUME names = <<>> PROVE file.feat = <<>>
    BY <1>3, <2>3
  <2>4. ASSUME Len(names) > 0 PROVE file.feat # <<>>
    <3>1. 1 \in DOMAIN file.feat
      BY <2>2, <2>4
    <3> QED
      BY <3>1
  <2>5. Len(names) > 0 => names # <<>>
    OBVIOUS
  <2> QED
    BY <1>3, <2>1, <2>3, <2>4, <2>5
<1>14. FileOf(key, file, d.meta, c, left)
  <2>1. file.feat # <<>> => file.meta.prefixes = TRUE
    BY <1>2, <1>3, <1>13
  <2>2. Meant(file, d.meta, c)
    BY <1>3, <1>7, <1>11 DEF Meant
  <2> QED
    BY <1>13, <2>1, <2>2 DEF FileOf
<1>15. FilesOf(e.tunes, e.meta, c, left) /\ FilesOf(e.temps, e.meta, c, left)
  <2>1. FilesOf(d.tunes, d.meta, c, left) /\ FilesOf(d.temps, d.meta, c, left)
    BY <1>7 DEF Held, FilesOf, FileOf, Meant, Checked_
  <2> QED
    BY <1>6, <1>8, <1>14, <2>1 DEF FilesOf
<1>16. Newest(e, now)
  <2>1. Newest(d, newest)
    BY DEF Held
  <2>2. ASSUME NEW k \in DOMAIN temps PROVE k \in DOMAIN now /\ temps[k].names = now[k]
    BY <1>3, <1>8, <1>9, <2>1, <2>2 DEF Newest
  <2>3. ASSUME NEW k \in DOMAIN d.tunes
        PROVE  k \in DOMAIN now /\ (k \in DOMAIN temps \union cut \/ d.tunes[k].names = now[k])
    BY <1>8, <1>9, <1>4, <2>1, <2>3 DEF Newest
  <2> QED
    BY <1>6, <2>2, <2>3 DEF Newest
<1>17. ASSUME ~torn PROVE Readable(e, c)
  <2>1. /\ d.torn = FALSE /\ d.vocab \in Seq(LineSet) /\ Distinct(d.vocab) /\ b.ids = LinesOf(d.vocab)
        /\ FilesRead(d.vocab, d.tunes) /\ FilesRead(d.vocab, d.temps) /\ Range(names) \subseteq Range(d.vocab)
    BY <1>17 DEF Held, Readable, Working, Checked_
  <2> DEFINE v == d.vocab  feat == file.feat
  <2>2. Reads(v, feat, names)
    <3>1. names = [i \in DOMAIN names |-> names[i]]
      BY <1>2, NamesTyped
    <3>2. ASSUME NEW i \in DOMAIN names PROVE feat[i] \in DOMAIN v /\ v[feat[i]] = names[i]
      <4>1. names[i] \in Range(v)
        BY <2>1 DEF Range
      <4>2. PICK n \in DOMAIN v : v[n] = names[i]
        BY <4>1 DEF Range
      <4>3. LinesOf(v)[names[i]] = n
        BY <2>1, <4>2, LineRead
      <4>4. feat[i] = n
        BY <1>3, <2>1, <4>3
      <4> QED
        BY <4>2, <4>4
    <3>3. DOMAIN feat = DOMAIN names
      BY <1>3
    <3> QED
      BY <3>1, <3>2, <3>3 DEF Reads
  <2>3. FilesRead(v, temps)
    BY <1>3, <1>8, <2>1, <2>2 DEF FilesRead
  <2> QED
    BY <1>6, <1>7, <2>1, <2>3 DEF Readable
<1> QED
  BY <1>1, <1>6, <1>10, <1>12, <1>15, <1>16, <1>17 DEF Held, now, key

(* It replaces the tune's, and the forced build has come to the tune.      *)
LEMMA Replaces ==
    ASSUME NEW d, NEW b, NEW newest, NEW left, NEW torn, Held(d, b, newest, left, torn), b.at = "replace",
           NEW new, new = Replaced(d, b)
    PROVE  Held(new.d, new.b, newest, left \ {b.rec[1]}, torn)
<1> DEFINE key == b.rec[1]
           file == d.temps[key]
           tunes == Set(d.tunes, key, file)
           temps == Unset(d.temps, key)
           e == [d EXCEPT !.tunes = tunes, !.temps = temps]
           c == Builder("build", b.todo, b.ids, b.meta, <<>>)
<1>1. new.d = e /\ new.b = c
  BY DEF Replaced
<1>2. IsDisk(d) /\ key \in DOMAIN d.temps /\ file.meta = b.meta /\ d.meta = b.meta
  BY DEF Held, Metas, Saving
<1>3. /\ e = [d EXCEPT !.tunes = tunes, !.temps = temps] /\ tunes = Set(d.tunes, key, file)
       /\ temps = Unset(d.temps, key)
  OBVIOUS
<1> HIDE DEF e, temps, tunes, file, key
<1>4. e = Disk(d.meta, d.vocab, d.torn, tunes, temps, d.cut)
  BY <1>2, <1>3, TunesSet
<1>5. /\ IsDisk(e) /\ e.vocab = d.vocab /\ e.torn = d.torn /\ e.tunes = tunes /\ e.temps = temps
      /\ e.cut = d.cut /\ e.meta = d.meta
  BY <1>4, DiskIs
<1>6. c.at = "build" /\ c.ids = b.ids /\ c.meta = b.meta /\ c.rec = <<>>
  BY BuilderIs
<1>7. DOMAIN tunes = {key} \union DOMAIN d.tunes /\ tunes[key] = file /\ \A k \in DOMAIN d.tunes : k # key => tunes[k] = d.tunes[k]
  BY <1>3 DEF Set
<1>8. DOMAIN temps = (DOMAIN d.temps) \ {key} /\ \A k \in DOMAIN d.temps : k # key => temps[k] = d.temps[k]
  BY <1>3 DEF Unset
<1> DEFINE to == left \ {key}
<1> HIDE DEF c
<1>9. RecOf(c)
  BY <1>6 DEF RecOf, Saving
<1>10. IsMeta(b.meta) /\ b.meta.format # 0 /\ b.meta # NoMeta
  BY NoMetaIs DEF Held, Metas, Working, Checked_
<1>11. Metas(e, c)
  BY <1>2, <1>5, <1>6, <1>10 DEF Metas
<1>12. FilesOf(d.tunes, d.meta, c, left) /\ FilesOf(d.temps, d.meta, c, left)
  BY <1>6 DEF Held, FilesOf, FileOf, Meant, Checked_
<1>13. FileOf(key, file, d.meta, c, to)
  <2>1. FileOf(key, file, d.meta, c, left)
    BY <1>2, <1>12 DEF FilesOf, file
  <2>2. Meant(file, d.meta, c)
    BY <1>2, <1>6, <1>10 DEF Meant
  <2> QED
    BY <2>1, <2>2 DEF FileOf
<1>14. ASSUME NEW k, k # key, NEW x, FileOf(k, x, d.meta, c, left) PROVE FileOf(k, x, d.meta, c, to)
  BY <1>14 DEF FileOf
<1> HIDE DEF to
<1>15. FilesOf(e.tunes, e.meta, c, to) /\ FilesOf(e.temps, e.meta, c, to)
  BY <1>5, <1>7, <1>8, <1>12, <1>13, <1>14 DEF FilesOf
<1>16. Newest(e, newest)
  <2>1. Newest(d, newest) /\ file.names = newest[key] /\ key \in DOMAIN newest
    BY <1>2 DEF Held, Newest, file
  <2>2. ASSUME NEW k \in DOMAIN temps PROVE k \in DOMAIN newest /\ temps[k].names = newest[k]
    BY <1>8, <2>1, <2>2 DEF Newest
  <2>3. ASSUME NEW k \in DOMAIN tunes
        PROVE  k \in DOMAIN newest /\ (k \in DOMAIN temps \union d.cut \/ tunes[k].names = newest[k])
    BY <1>7, <1>8, <2>1, <2>3 DEF Newest
  <2> QED
    BY <1>5, <2>2, <2>3 DEF Newest
<1>17. ASSUME ~torn PROVE Readable(e, c)
  <2>1. /\ d.torn = FALSE /\ d.vocab \in Seq(LineSet) /\ Distinct(d.vocab) /\ b.ids = LinesOf(d.vocab)
        /\ FilesRead(d.vocab, d.tunes) /\ FilesRead(d.vocab, d.temps)
    BY <1>17 DEF Held, Readable, Working, Checked_
  <2>2. Reads(d.vocab, file.feat, file.names)
    BY <1>2, <2>1 DEF FilesRead, file
  <2>3. FilesRead(d.vocab, tunes) /\ FilesRead(d.vocab, temps)
    BY <1>7, <1>8, <2>1, <2>2 DEF FilesRead
  <2> QED
    BY <1>5, <1>6, <2>1, <2>3 DEF Readable
<1> QED
  BY <1>1, <1>5, <1>9, <1>11, <1>15, <1>16, <1>17 DEF Held, to, key

(* A build that dies leaves some of the lines, which no file has.          *)
LEMMA Cuts ==
    ASSUME NEW d, NEW b, NEW newest, NEW left, NEW torn, Held(d, b, newest, left, torn), b.at = "names",
           NEW half \in BOOLEAN, NEW lines \in Nat, NEW e, e = Cut_(d, b, lines, half)
    PROVE  Held(e, NoBuilder, newest, left, torn \/ half)
<1> DEFINE names == b.rec[2]
           all == New(b.ids, names)
           new == SubSeq(all, 1, Least(lines, Len(all)))
           cut == IF half /\ new # <<>> THEN Front(new) \o <<Last(new) \o <<"half">>>> ELSE new
           grown == Appended(d, cut)
           broke == IF new = <<>> THEN grown.torn ELSE half
           c == NoBuilder
<1>1. IsDisk(d) /\ names \in NameLists
  BY DEF Held, RecOf, Saving
<1>2. grown = Disk(d.meta, grown.vocab, grown.torn, d.tunes, d.temps, d.cut)
  BY <1>1, AppendedTo
<1>3. e = [grown EXCEPT !.torn = broke]
  BY DEF Cut_
<1>4. e = Disk(d.meta, grown.vocab, broke, d.tunes, d.temps, d.cut)
  <2> HIDE DEF grown, broke
  <2> QED
    BY <1>2, <1>3 DEF Disk
<1>5. /\ IsDisk(e) /\ e.vocab = grown.vocab /\ e.torn = broke /\ e.tunes = d.tunes /\ e.temps = d.temps
      /\ e.cut = d.cut /\ e.meta = d.meta
  <2> HIDE DEF grown, broke
  <2> QED
    BY <1>4, DiskIs
<1>6. /\ RecOf(c) /\ ~Working(c) /\ c.at \notin Checked_ /\ IsMeta(c.meta)
      /\ c.at \notin {"check", "meta", "build", "names", "temp", "replace"}
  BY NoBuilderIs DEF NoBuilder
<1> HIDE DEF c
<1>7. FilesOf(d.tunes, d.meta, c, left) /\ FilesOf(d.temps, d.meta, c, left)
  BY <1>6, FilesLeft DEF Held
<1>8. Metas(e, c) /\ Newest(e, newest)
  BY <1>5, <1>6 DEF Held, Metas, Saving, Newest
<1>9. ASSUME ~(torn \/ half) PROVE Readable(e, c)
  <2>1. /\ d.torn = FALSE /\ d.vocab \in Seq(LineSet) /\ Distinct(d.vocab)
        /\ b.ids = LinesOf(d.vocab) /\ FilesRead(d.vocab, d.tunes) /\ FilesRead(d.vocab, d.temps)
    BY <1>9 DEF Held, Readable, Working, Checked_
  <2>2. names \in Seq(LineSet)
    BY <1>1, NamesTyped
  <2>3. /\ all \in Seq(LineSet) /\ Distinct(all) /\ Range(all) = Range(names) \ DOMAIN b.ids
    BY <2>2, NewNames
  <2>4. DOMAIN b.ids = Range(d.vocab)
    BY <2>1 DEF LinesOf
  <2>5. cut = new
    BY <1>9
  <2> HIDE DEF all
  <2> DEFINE m == Least(lines, Len(all))
  <2>6. m \in 0..Len(all)
    BY <2>3 DEF Least
  <2> HIDE DEF m
  <2>7. /\ SubSeq(all, 1, m) \in Seq(LineSet) /\ DOMAIN SubSeq(all, 1, m) = 1..m
        /\ \A i \in 1..m : SubSeq(all, 1, m)[i] = all[i]
    BY <2>3, <2>6
  <2> DEFINE q == SubSeq(all, 1, m)
  <2>8. q \in Seq(LineSet) /\ DOMAIN q = 1..m /\ \A i \in 1..m : q[i] = all[i] /\ i \in DOMAIN all
    BY <2>3, <2>6, <2>7
  <2>9. new = q
    BY DEF m
  <2> HIDE DEF q
  <2>10. Distinct(q) /\ Range(q) \subseteq Range(all)
    BY <2>3, <2>8 DEF Distinct, Range
  <2>11. Range(d.vocab) \intersect Range(q) = {}
    BY <2>3, <2>4, <2>10
  <2> DEFINE r == d.vocab \o q
  <2>12. Grown(LineSet, d.vocab, q, r)
    BY <2>1, <2>8, <2>10, <2>11, Grows
  <2>13. grown = Appended(d, q)
    BY <2>5, <2>9
  <2> HIDE DEF grown, cut, new
  <2>14. grown.torn = FALSE /\ grown.vocab = r
    BY <1>1, <2>1, <2>8, <2>13, AppendedWhole
  <2>15. /\ r \in Seq(LineSet) /\ Distinct(r)
         /\ \A i \in DOMAIN d.vocab : i \in DOMAIN r /\ r[i] = d.vocab[i]
    BY <2>12 DEF Grown
  <2> HIDE DEF r
  <2>16. FilesRead(r, d.tunes) /\ FilesRead(r, d.temps)
    BY <2>1, <2>15 DEF FilesRead, Reads
  <2>17. broke = FALSE
    BY <1>9, <2>14
  <2> HIDE DEF broke
  <2> QED
    BY <1>5, <1>6, <2>14, <2>15, <2>16, <2>17 DEF Readable
<1> QED
  BY <1>5, <1>6, <1>7, <1>8, <1>9 DEF Held, c

(* The steps of a build that lead to a d and a b.                          *)
LEMMA StepsTo ==
    ASSUME CacheInv, NEW at_, NEW next, Steps(at_, next),
           Held(next.d, next.b, s.newest, s.left, s.torn)
    PROVE  CacheInv'
<1>1. s.area = "cache" /\ Cached(next, s.newest, s.left, s.torn)
  BY DEF Steps
<1>2. /\ s'.d = next.d /\ s'.b = next.b /\ s'.newest = s.newest /\ s'.left = s.left /\ s'.torn = s.torn
      /\ s'.format = s.format
  BY <1>1 DEF Cached
<1> QED
  BY <1>1, <1>2 DEF CacheInv

LEMMA CachedTo ==
    ASSUME CacheInv, s.area = "cache", NEW next, NEW newest, NEW left, NEW torn, Cached(next, newest, left, torn),
           Held(next.d, next.b, newest, left, torn)
    PROVE  CacheInv'
<1>1. /\ s'.d = next.d /\ s'.b = next.b /\ s'.newest = newest /\ s'.left = left /\ s'.torn = torn
      /\ s'.format = s.format
  BY DEF Cached
<1> QED
  BY <1>1 DEF CacheInv

LEMMA BuildStays ==
    ASSUME CacheInv, BuildBegins
    PROVE  CacheInv'
<1>1. s.area = "cache" /\ Held(s.d, s.b, s.newest, s.left, s.torn) /\ s.format \in Nat \ {0}
  BY DEF BuildBegins, CacheInv
<1>2. PICK force \in BOOLEAN, verdict \in [Tunes -> {"differs", "exact"}], mode \in Modes :
        \E new : /\ new = build(s.d, select(verdict, {"differs"}), force,
                                 [format |-> s.format, compare |-> mode, prefixes |-> FALSE])
                 /\ s' = [area |-> "cache", d |-> new.d, b |-> new.b, format |-> s.format, newest |-> s.newest,
                          left |-> IF force THEN DOMAIN s.newest ELSE s.left, torn |-> s.torn,
                          builds |-> s.builds + 1]
  BY DEF BuildBegins
<1> DEFINE selected == select(verdict, {"differs"})
<1> DEFINE want == [format |-> s.format, compare |-> mode, prefixes |-> FALSE]
<1>3. PICK new : /\ new = build(s.d, selected, force, want)
                 /\ s' = [area |-> "cache", d |-> new.d, b |-> new.b, format |-> s.format, newest |-> s.newest,
                          left |-> IF force THEN DOMAIN s.newest ELSE s.left, torn |-> s.torn,
                          builds |-> s.builds + 1]
  BY <1>2
<1>4. IsMeta(want) /\ want.format # 0
  BY <1>1 DEF IsMeta
<1> HIDE DEF want
<1> DEFINE left == IF force THEN DOMAIN s.newest ELSE s.left
<1>5. Held(new.d, new.b, s.newest, left, s.torn)
  BY <1>1, <1>3, <1>4, Begins
<1>6. /\ s'.d = new.d /\ s'.b = new.b /\ s'.newest = s.newest /\ s'.left = left /\ s'.torn = s.torn
      /\ s'.format = s.format
  BY <1>3
<1> HIDE DEF left
<1> QED
  BY <1>1, <1>5, <1>6 DEF CacheInv

LEMMA DeathStays ==
    ASSUME CacheInv, BuildDies
    PROVE  CacheInv'
<1>1. s.area = "cache" /\ Held(s.d, s.b, s.newest, s.left, s.torn)
  BY DEF BuildDies, CacheInv
<1>2. CASE Cached([d |-> s.d, b |-> NoBuilder], s.newest, s.left, s.torn)
  <2>1. Held(s.d, NoBuilder, s.newest, s.left, s.torn)
    BY <1>1, Quits DEF NoBuilder
  <2> DEFINE next == [d |-> s.d, b |-> NoBuilder]
  <2>2. next.d = s.d /\ next.b = NoBuilder
    OBVIOUS
  <2> HIDE DEF next
  <2>3. Cached(next, s.newest, s.left, s.torn)
    BY <1>2 DEF next
  <2> QED
    BY <1>1, <2>1, <2>2, <2>3, CachedTo
<1>3. ASSUME s.b.at = "names", NEW torn \in BOOLEAN, NEW lines \in 0..Len(s.b.rec[2]),
             Cached([d |-> Cut_(s.d, s.b, lines, torn), b |-> NoBuilder], s.newest, s.left, s.torn \/ torn)
      PROVE  CacheInv'
  <2> DEFINE next == [d |-> Cut_(s.d, s.b, lines, torn), b |-> NoBuilder]
  <2>1. next.d = Cut_(s.d, s.b, lines, torn) /\ next.b = NoBuilder /\ lines \in Nat
    OBVIOUS
  <2> HIDE DEF next
  <2>2. Held(next.d, NoBuilder, s.newest, s.left, s.torn \/ torn)
    BY <1>1, <1>3, <2>1, Cuts
  <2>3. Cached(next, s.newest, s.left, s.torn \/ torn)
    BY <1>3 DEF next
  <2> DEFINE broke == s.torn \/ torn
  <2>4. Held(next.d, NoBuilder, s.newest, s.left, broke) /\ Cached(next, s.newest, s.left, broke)
    BY <2>2, <2>3
  <2> HIDE DEF broke
  <2> QED
    BY <1>1, <2>1, <2>4, CachedTo
<1> QED
  BY <1>2, <1>3 DEF BuildDies

LEMMA CacheStays ==
    ASSUME CacheInv, [StudiesNext]_s
    PROVE  CacheInv'
<1> DEFINE held == Held(s.d, s.b, s.newest, s.left, s.torn)
<1>1. CASE BuildBegins
  BY <1>1, BuildStays
<1>2. CASE MetaChecked
  <2> DEFINE next == _meta(s.d, s.b)
  <2>1. Steps("check", next) /\ held /\ s.b.at = "check"
    BY <1>2 DEF MetaChecked, Steps, CacheInv
  <2> HIDE DEF next, held
  <2>2. Held(next.d, next.b, s.newest, s.left, s.torn)
    BY <2>1, Checks DEF next, held
  <2> QED
    BY <2>1, <2>2, StepsTo
<1>3. CASE MetaWritten
  <2> DEFINE next == MetaOf(s.d, s.b)
  <2>1. Steps("meta", next) /\ held /\ s.b.at = "meta"
    BY <1>3 DEF MetaWritten, Steps, CacheInv
  <2> HIDE DEF next, held
  <2>2. Held(next.d, next.b, s.newest, s.left, s.torn)
    BY <2>1, Writes DEF next, held
  <2> QED
    BY <2>1, <2>2, StepsTo
<1>4. CASE TuneRecorded
  <2>1. PICK key \in s.b.todo, names \in NameLists : Steps("build", Received(s.d, s.b, key, names))
    BY <1>4 DEF TuneRecorded
  <2> DEFINE next == Received(s.d, s.b, key, names)
  <2>2. Steps("build", next) /\ held /\ s.b.at = "build"
    BY <2>1 DEF Steps, CacheInv
  <2> HIDE DEF next, held
  <2>3. Held(next.d, next.b, s.newest, s.left, s.torn)
    BY <2>2, RecordComes DEF next, held
  <2> QED
    BY <2>2, <2>3, StepsTo
<1>5. CASE NamesAppended
  <2> DEFINE next == Named(s.d, s.b)
  <2>1. Steps("names", next) /\ held /\ s.b.at = "names"
    BY <1>5 DEF NamesAppended, Steps, CacheInv
  <2> HIDE DEF next, held
  <2>2. Held(next.d, next.b, s.newest, s.left, s.torn)
    BY <2>1, NamesOn DEF next, held
  <2> QED
    BY <2>1, <2>2, StepsTo
<1>6. CASE FileWritten
  <2> DEFINE next == Zipped(s.d, s.b)
             newest == Set(s.newest, s.b.rec[1], s.b.rec[2])
  <2>1. s.area = "cache" /\ Cached(next, newest, s.left, s.torn) /\ held /\ s.b.at = "temp"
    BY <1>6 DEF FileWritten, CacheInv
  <2> HIDE DEF next, newest, held
  <2>2. Held(next.d, next.b, newest, s.left, s.torn)
    BY <2>1, Zips DEF next, held, newest
  <2> QED
    BY <2>1, <2>2, CachedTo
<1>7. CASE TuneKept
  <2> DEFINE next == Replaced(s.d, s.b)
             left == s.left \ {s.b.rec[1]}
  <2>1. s.area = "cache" /\ Cached(next, s.newest, left, s.torn) /\ held /\ s.b.at = "replace"
    BY <1>7 DEF TuneKept, CacheInv
  <2> HIDE DEF next, left, held
  <2>2. Held(next.d, next.b, s.newest, left, s.torn)
    BY <2>1, Replaces DEF next, held, left
  <2> QED
    BY <2>1, <2>2, CachedTo
<1>8. CASE BuildDies
  BY <1>8, DeathStays
<1>9. CASE Upgraded
  BY <1>9 DEF Upgraded, CacheInv
<1>10. CASE SurveyStep \/ SurveyDies
  <2>1. s'.area = "survey"
    BY <1>10 DEF SurveyStep, SurveyDies
  <2> QED
    BY <2>1 DEF CacheInv
<1>11. CASE FuzzStep
  BY <1>11, FuzzApart DEF CacheInv
<1>12. CASE HistoryStep
  BY <1>12, HistoryApart DEF CacheInv
<1>13. CASE UNCHANGED s
  BY <1>13 DEF CacheInv
<1> QED
  BY <1>1, <1>2, <1>3, <1>4, <1>5, <1>6, <1>7, <1>8, <1>9, <1>10, <1>11, <1>12, <1>13 DEF StudiesNext, CacheStep

LEMMA CacheRead ==
    ASSUME CacheInv
    PROVE  CacheTrue
<1> SUFFICES ASSUME s.area = "cache", NEW k \in DOMAIN analyse(s.d, s.format)
             PROVE  /\ s.torn \/ analyse(s.d, s.format)[k] = Records(s.d)[k].names
                    /\ s.newest[k] \in {Records(s.d)[k].names, <<>>}
                    /\ k \in s.left \/ Records(s.d)[k].meta = s.d.meta
  BY DEF CacheTrue
<1> DEFINE d == s.d  file == Records(s.d)[k]
<1>1. Held(d, s.b, s.newest, s.left, s.torn) /\ s.format \in Nat \ {0}
  BY DEF CacheInv
<1>2. ~Raises(d, s.format) /\ analyse(d, s.format) = [j \in DOMAIN Records(d) |-> _load(d, Records(d)[j])]
  <2>1. DOMAIN <<>> = {}
    OBVIOUS
  <2> QED
    BY <2>1 DEF analyse
<1>3. k \in DOMAIN Records(d) /\ analyse(d, s.format)[k] = _load(d, file)
  BY <1>2
<1>4. d.meta.format = s.format /\ d.cut = {}
  BY <1>2 DEF Raises
<1>5. /\ k \in Good(d.temps) => file = d.temps[k]
      /\ k \in Good(d.tunes) \union Good(d.temps)
      /\ k \notin Good(d.temps) => file = d.tunes[k]
  BY <1>3 DEF Records
<1> HIDE DEF file
<1>6. /\ k \in Good(d.temps) => k \in DOMAIN d.temps /\ d.temps[k].feat # <<>>
      /\ k \in Good(d.tunes) => k \in DOMAIN d.tunes /\ d.tunes[k].feat # <<>>
      /\ k \notin Good(d.temps) => k \notin DOMAIN d.temps \/ d.temps[k].feat = <<>>
  BY DEF Good
<1>7. FileOf(k, file, d.meta, s.b, s.left) /\ file.feat # <<>>
  BY <1>1, <1>5, <1>6 DEF Held, FilesOf
<1>8. k \in s.left \/ file.meta = d.meta
  BY <1>1, <1>4, <1>7 DEF FileOf, Meant
<1>9. s.newest[k] \in {file.names, <<>>}
  <2>1. CASE k \in Good(d.temps)
    BY <1>1, <1>5, <1>6, <2>1 DEF Held, Newest
  <2>2. CASE k \notin Good(d.temps) /\ k \in DOMAIN d.temps
    <3>1. d.temps[k].names = <<>>
      BY <1>1, <1>6, <2>2 DEF Held, FilesOf, FileOf
    <3> QED
      BY <1>1, <2>2, <3>1 DEF Held, Newest
  <2>3. CASE k \notin DOMAIN d.temps
    BY <1>1, <1>4, <1>5, <1>6, <2>3 DEF Held, Newest
  <2> QED
    BY <2>1, <2>2, <2>3
<1>10. ASSUME ~s.torn PROVE _load(d, file) = file.names
  <2> DEFINE feat == file.feat  v == d.vocab  names == file.names
  <2>1. Reads(v, feat, names)
    BY <1>1, <1>5, <1>6, <1>10 DEF Held, Readable, FilesRead
  <2>2. _load(d, file) = [i \in DOMAIN feat |-> v[feat[i]]]
    BY DEF _load
  <2> HIDE DEF feat, v, names
  <2>3. names = [i \in DOMAIN feat |-> v[feat[i]]]
    BY <2>1 DEF Reads
  <2> QED
    BY <2>2, <2>3 DEF names
<1> QED
  BY <1>3, <1>8, <1>9, <1>10 DEF file

-----------------------------------------------------------------------------
(* The manifest: the cases rekey recurs through.                           *)

RekeyStep(w, cases, before, n) ==
    IF w.ids[n] \in DOMAIN cases THEN rekey_one(w, before, w.ids[n], cases[w.ids[n]]) ELSE before
RekeyRun(f, w, cases, n) ==
    f = [k \in 0..n |-> IF k = 0 THEN <<>> ELSE RekeyStep(w, cases, f[k - 1], k)]

LEMMA RekeyRuns ==
    ASSUME NEW w, NEW cases, NEW n \in Nat
    PROVE  \E f : RekeyRun(f, w, cases, n)
<1> DEFINE S == {k \in Nat : \E f : RekeyRun(f, w, cases, k)}
<1>1. 0 \in S
  <2>1. RekeyRun([k \in 0..0 |-> <<>>], w, cases, 0)
    BY DEF RekeyRun
  <2> QED
    BY <2>1
<1>2. ASSUME NEW k \in S PROVE k + 1 \in S
  <2>1. PICK f : RekeyRun(f, w, cases, k)
    OBVIOUS
  <2> DEFINE g == [l \in 0..(k + 1) |-> IF l = k + 1 THEN RekeyStep(w, cases, f[k], k + 1) ELSE f[l]]
  <2>2. RekeyRun(g, w, cases, k + 1)
    <3>1. ASSUME NEW l \in 0..(k + 1)
          PROVE  g[l] = IF l = 0 THEN <<>> ELSE RekeyStep(w, cases, g[l - 1], l)
      <4>1. CASE l = k + 1
        BY <4>1
      <4>2. CASE l # k + 1
        <5>1. l \in 0..k /\ g[l] = f[l] /\ (l # 0 => g[l - 1] = f[l - 1])
          BY <4>2
        <5>2. f[l] = IF l = 0 THEN <<>> ELSE RekeyStep(w, cases, f[l - 1], l)
          BY <2>1, <5>1 DEF RekeyRun
        <5> QED
          BY <5>1, <5>2
      <4> QED
        BY <4>1, <4>2
    <3>2. g = [l \in 0..(k + 1) |-> g[l]]
      OBVIOUS
    <3> HIDE DEF g
    <3> QED
      BY <3>1, <3>2 DEF RekeyRun
  <2> QED
    BY <2>2
<1> HIDE DEF S
<1>3. n \in S
  BY <1>1, <1>2, Induction DEF S
<1> QED
  BY <1>3 DEF S

(* Every case is filed under its key, and those of the first n ids that    *)
(* are known and fail are among them and fail.                             *)
Keyed(out) == \A id \in DOMAIN out : out[id].key = id
Lives(w, cases, id) == id \in DOMAIN cases /\ cases[id].key \in w.known /\ w.fails[cases[id].tune]
Rekeyed(w, cases, out, n) ==
    /\ Keyed(out)
    /\ \A k \in 1..n : Lives(w, cases, w.ids[k]) => w.ids[k] \in DOMAIN out /\ w.fails[out[w.ids[k]].tune]

LEMMA KeptKeyed ==
    ASSUME NEW w, NEW out, Keyed(out), NEW id, NEW case, case.key = id
    PROVE  /\ Keyed(Kept_(out, id, case))
           /\ \A k \in DOMAIN out : k \in DOMAIN Kept_(out, id, case)
           /\ w.fails[case.tune] =>
                 \A k \in DOMAIN out : w.fails[out[k].tune] => w.fails[Kept_(out, id, case)[k].tune]
<1> DEFINE next == Kept_(out, id, case)
<1>1. /\ DOMAIN next = {id} \union DOMAIN out /\ next[id] = case
      /\ \A k \in DOMAIN out : k # id => next[k] = out[k]
  BY DEF Kept_
<1> HIDE DEF next
<1>2. Keyed(next)
  BY <1>1 DEF Keyed
<1>3. ASSUME NEW k \in DOMAIN out, w.fails[case.tune], w.fails[out[k].tune] PROVE w.fails[next[k].tune]
  BY <1>1, <1>3
<1> QED
  BY <1>1, <1>2, <1>3 DEF next

LEMMA RekeyOn ==
    ASSUME NEW w, NEW cases, \A id \in DOMAIN cases : cases[id].key = id, NEW out, NEW n \in Nat \ {0},
           Rekeyed(w, cases, out, n - 1)
    PROVE  Rekeyed(w, cases, RekeyStep(w, cases, out, n), n)
<1> DEFINE id == w.ids[n]
           case == cases[id]
           fresh == w.cands[case.tune] \intersect Range(w.fixes)
           best == w.fixes[Min({m \in DOMAIN w.fixes : w.fixes[m] \in fresh})]
           moved == [key |-> best, tune |-> case.tune]
           next == RekeyStep(w, cases, out, n)
<1>1. Keyed(out)
  BY DEF Rekeyed
<1>2. \A k \in 1..(n - 1) : Lives(w, cases, w.ids[k]) => w.ids[k] \in DOMAIN out /\ w.fails[out[w.ids[k]].tune]
  BY DEF Rekeyed
<1>3. \A k \in 1..n : k = n \/ k \in 1..(n - 1)
  OBVIOUS
<1>4. CASE id \notin DOMAIN cases
  <2>1. next = out
    BY <1>4 DEF RekeyStep
  <2>2. ~Lives(w, cases, id)
    BY <1>4 DEF Lives
  <2> HIDE DEF next
  <2> QED
    BY <1>1, <1>2, <1>3, <2>1, <2>2 DEF Rekeyed, next
<1>5. CASE id \in DOMAIN cases /\ (case.key \in w.known \/ ~w.fails[case.tune] \/ fresh = {})
  <2>1. next = Kept_(out, id, case)
    BY <1>5 DEF RekeyStep, rekey_one
  <2>2. case.key = id
    BY <1>5
  <2> HIDE DEF case, id
  <2>3. /\ Keyed(Kept_(out, id, case)) /\ DOMAIN Kept_(out, id, case) = {id} \union DOMAIN out
        /\ Kept_(out, id, case)[id] = case
    <3>1. Keyed(Kept_(out, id, case))
      BY <1>1, <2>2, KeptKeyed
    <3> QED
      BY <3>1 DEF Kept_
  <2>4. \A k \in DOMAIN out : k # id => Kept_(out, id, case)[k] = out[k]
    BY DEF Kept_
  <2> HIDE DEF next
  <2>5. ASSUME NEW k \in 1..n, Lives(w, cases, w.ids[k])
        PROVE  w.ids[k] \in DOMAIN next /\ w.fails[next[w.ids[k]].tune]
    <3>1. CASE w.ids[k] = id
      BY <2>1, <2>3, <2>5, <3>1 DEF Lives, case
    <3>2. CASE w.ids[k] # id
      <4>1. k \in 1..(n - 1)
        BY <1>3, <3>2 DEF id
      <4> QED
        BY <1>2, <2>1, <2>3, <2>4, <2>5, <3>2, <4>1
    <3> QED
      BY <3>1, <3>2
  <2> QED
    BY <2>1, <2>3, <2>5 DEF Rekeyed, next
<1>6. CASE id \in DOMAIN cases /\ ~(case.key \in w.known \/ ~w.fails[case.tune] \/ fresh = {})
  <2>1. next = Kept_(out, best, moved)
    BY <1>6 DEF RekeyStep, rekey_one
  <2>2. moved.key = best /\ moved.tune = case.tune
    OBVIOUS
  <2>3. w.fails[moved.tune] /\ ~Lives(w, cases, id)
    BY <1>6, <2>2 DEF Lives
  <2> HIDE DEF next, moved, best
  <2>4. /\ Keyed(next) /\ \A k \in DOMAIN out : k \in DOMAIN next
        /\ \A k \in DOMAIN out : w.fails[out[k].tune] => w.fails[next[k].tune]
    BY <1>1, <2>1, <2>2, <2>3, KeptKeyed
  <2>5. ASSUME NEW k \in 1..n, Lives(w, cases, w.ids[k])
        PROVE  w.ids[k] \in DOMAIN next /\ w.fails[next[w.ids[k]].tune]
    <3>1. k \in 1..(n - 1)
      BY <1>3, <2>3, <2>5
    <3> QED
      BY <1>2, <2>4, <2>5, <3>1
  <2> QED
    BY <2>4, <2>5 DEF Rekeyed, next
<1> QED
  BY <1>4, <1>5, <1>6

LEMMA Rekeys ==
    ASSUME NEW w, Len(w.ids) \in Nat, NEW cases, \A id \in DOMAIN cases : cases[id].key = id
    PROVE  Rekeyed(w, cases, rekey(w, cases), Len(w.ids))
<1> DEFINE out[n \in 0..Len(w.ids)] ==
             IF n = 0 THEN <<>>
             ELSE IF w.ids[n] \in DOMAIN cases
                  THEN rekey_one(w, out[n - 1], w.ids[n], cases[w.ids[n]]) ELSE out[n - 1]
<1>1. RekeyRun(out, w, cases, Len(w.ids))
  <2>1. \E f : RekeyRun(f, w, cases, Len(w.ids))
    BY RekeyRuns
  <2> QED
    BY <2>1 DEF RekeyRun, RekeyStep
<1>2. rekey(w, cases) = out[Len(w.ids)]
  BY DEF rekey
<1> HIDE DEF out
<1> DEFINE S == {k \in Nat : k <= Len(w.ids) => Rekeyed(w, cases, out[k], k)}
<1>3. 0 \in S
  <2>1. out[0] = <<>>
    BY <1>1 DEF RekeyRun
  <2>2. Rekeyed(w, cases, <<>>, 0)
    BY DEF Rekeyed, Keyed
  <2> QED
    BY <2>1, <2>2
<1>4. ASSUME NEW k \in S PROVE k + 1 \in S
  <2>1. CASE k + 1 \in 1..Len(w.ids)
    <3>1. out[k + 1] = RekeyStep(w, cases, out[k], k + 1)
      BY <1>1, <2>1 DEF RekeyRun
    <3>2. Rekeyed(w, cases, out[k], (k + 1) - 1)
      BY <2>1
    <3>3. k + 1 \in Nat \ {0}
      OBVIOUS
    <3> QED
      BY <2>1, <3>1, <3>2, <3>3, RekeyOn
  <2> QED
    BY <2>1
<1> HIDE DEF S
<1>5. Len(w.ids) \in S
  BY <1>3, <1>4, Induction DEF S
<1> QED
  BY <1>2, <1>5 DEF S

ManifestInv == s.area = "manifest" => \E x \in Manifests : s.cases = x.cases /\ s.w = x.w

LEMMA ManifestStays ==
    ASSUME ManifestInv, [StudiesNext]_s
    PROVE  ManifestInv'
<1>1. ASSUME StudiesNext PROVE s'.area # "manifest"
  <2>1. CASE SurveyStep \/ SurveyDies
    BY <2>1 DEF SurveyStep, SurveyDies
  <2>2. CASE CacheStep
    BY <2>2, CacheApart
  <2>3. CASE FuzzStep
    BY <2>3, FuzzApart
  <2>4. CASE HistoryStep
    BY <2>4, HistoryApart
  <2> QED
    BY <1>1, <2>1, <2>2, <2>3, <2>4 DEF StudiesNext
<1>2. CASE UNCHANGED s
  BY <1>2 DEF ManifestInv
<1> QED
  BY <1>1, <1>2 DEF ManifestInv

LEMMA ManifestMerged ==
    ASSUME ManifestInv
    PROVE  ManifestTrue
<1> SUFFICES ASSUME s.area = "manifest"
             PROVE  /\ \A id \in DOMAIN Merged : Merged[id].key = id /\ s.w.fails[Merged[id].tune]
                    /\ \A id \in DOMAIN s.cases : Live(id) => id \in DOMAIN Merged
                    /\ \A n \in 1..Least(s.w.top, Len(s.w.fixes)) :
                          LET k == s.w.fixes[n]
                          IN  s.w.fails[s.w.representative[k]] /\ k \in s.w.cands[s.w.representative[k]]
                                  => k \in DOMAIN Merged
  BY DEF ManifestTrue
<1> DEFINE w == s.w
           cases == s.cases
           keyed == rekey(w, cases)
           left == {id \in DOMAIN keyed : w.fails[keyed[id].tune]}
           case(k) == [key |-> k, tune |-> w.representative[k]]
           made == {k \in {w.fixes[n] : n \in 1..Least(w.top, Len(w.fixes))} \ left :
                       w.fails[w.representative[k]] /\ verify_case(w, case(k))}
<1>1. PICK x \in Manifests : cases = x.cases /\ w = x.w
  BY DEF ManifestInv
<1>2. /\ Len(w.ids) \in Nat /\ DOMAIN w.ids = 1..Len(w.ids) /\ DOMAIN cases \subseteq Range(w.ids)
      /\ \A id \in DOMAIN cases : cases[id] = [key |-> id, tune |-> cases[id].tune]
  BY <1>1, ManifestAssumption
<1>3. ASSUME NEW id \in DOMAIN cases PROVE cases[id].key = id
  <2> DEFINE tune == cases[id].tune
  <2>1. cases[id] = [key |-> id, tune |-> tune]
    BY <1>2
  <2> HIDE DEF tune
  <2> QED
    BY <2>1
<1>4. Rekeyed(w, cases, keyed, Len(w.ids))
  BY <1>2, <1>3, Rekeys
<1>5. Merged = [id \in left \union made |-> IF id \in left THEN keyed[id] ELSE case(id)]
  BY DEF Merged, xfails
<1>6. DOMAIN Merged = left \union made
  BY <1>5
<1>7. ASSUME NEW id \in DOMAIN Merged PROVE Merged[id].key = id /\ w.fails[Merged[id].tune]
  <2>1. CASE id \in left
    <3>1. Merged[id] = keyed[id]
      BY <1>5, <2>1
    <3> QED
      BY <1>4, <2>1, <3>1 DEF Rekeyed, Keyed
  <2>2. CASE id \notin left /\ id \in made
    <3>1. Merged[id] = case(id)
      BY <1>5, <2>2
    <3>2. case(id).key = id /\ case(id).tune = w.representative[id]
      OBVIOUS
    <3>3. w.fails[w.representative[id]]
      BY <2>2
    <3> QED
      BY <3>1, <3>2, <3>3
  <2> QED
    BY <1>6, <2>1, <2>2
<1>8. ASSUME NEW id \in DOMAIN cases, Live(id) PROVE id \in DOMAIN Merged
  <2>1. PICK n \in 1..Len(w.ids) : w.ids[n] = id
    BY <1>2 DEF Range
  <2>2. Lives(w, cases, w.ids[n])
    BY <1>8, <2>1 DEF Live, Lives
  <2>3. id \in DOMAIN keyed /\ w.fails[keyed[id].tune]
    BY <1>4, <2>1, <2>2 DEF Rekeyed
  <2> QED
    BY <1>6, <2>3
<1>9. ASSUME NEW n \in 1..Least(w.top, Len(w.fixes)),
             w.fails[w.representative[w.fixes[n]]], w.fixes[n] \in w.cands[w.representative[w.fixes[n]]]
      PROVE  w.fixes[n] \in DOMAIN Merged
  <2> DEFINE k == w.fixes[n]
  <2>1. case(k).key = k /\ case(k).tune = w.representative[k]
    OBVIOUS
  <2>2. verify_case(w, case(k))
    BY <1>9, <2>1 DEF verify_case
  <2>3. k \in left \/ k \in made
    BY <1>9, <2>2
  <2> QED
    BY <1>6, <2>3
<1> HIDE DEF keyed, left, made
<1> QED
  BY <1>7, <1>8, <1>9

(* Whichever of a cache's builds died, its analysis reads every tune with  *)
(* the names it was recorded with, unless half a line was left, and a      *)
(* merged manifest holds the cases that still fail, under their own keys   *)
(* (pathdiff.py).                                                          *)
THEOREM KeptIsTrue == StudiesSpec => []KeptTrue
<1>1. StudiesInit => CacheInv /\ ManifestInv
  <2>1. ASSUME SurveyInit \/ TablesInit PROVE s.area \notin {"cache", "manifest"}
    BY <2>1 DEF SurveyInit, TablesInit
  <2>2. ASSUME CacheInit PROVE s.area = "cache"
    BY <2>2 DEF CacheInit
  <2>3. ASSUME ManifestInit PROVE s.area = "manifest" /\ \E x \in Manifests : s.cases = x.cases /\ s.w = x.w
    BY <2>3 DEF ManifestInit
  <2>4. ASSUME FuzzInit PROVE CacheInv /\ ManifestInv
    BY <2>4, FuzzApart DEF CacheInv, ManifestInv
  <2>5. ASSUME HistoryInit PROVE CacheInv /\ ManifestInv
    BY <2>5, HistoryApart DEF CacheInv, ManifestInv
  <2> QED
    BY <2>1, <2>2, <2>3, <2>4, <2>5, CacheEmpty DEF StudiesInit, CacheInv, ManifestInv
<1>2. CacheInv /\ ManifestInv /\ [StudiesNext]_s => CacheInv' /\ ManifestInv'
  BY CacheStays, ManifestStays
<1>3. CacheInv /\ ManifestInv => KeptTrue
  BY CacheRead, ManifestMerged DEF KeptTrue
<1> QED
  BY <1>1, <1>2, <1>3, PTL DEF StudiesSpec

-----------------------------------------------------------------------------
(* Minimising: the parts of a set of numbers.                              *)

(* The place of a number among those of a finite set is its own.           *)
LEMMA PlaceOwn ==
    ASSUME NEW S \in SUBSET Int, IsFiniteSet(S), NEW x \in S
    PROVE  /\ Place(S, x) \in 1..Cardinality(S)
           /\ \A y \in S : Place(S, y) = Place(S, x) => y = x
<1> DEFINE Below(y) == {z \in S : z <= y}
<1>1. \A y \in S : IsFiniteSet(Below(y)) /\ Cardinality(Below(y)) <= Cardinality(S)
  BY FS_Subset
<1>2. \A y \in S : Cardinality(Below(y)) \in Nat
  BY <1>1, FS_CardinalityType
<1>3. Cardinality(Below(x)) # 0
  <2>1. x \in Below(x)
    OBVIOUS
  <2> QED
    BY <2>1, <1>1, FS_EmptySet
<1>4. \A y, z \in S : y < z => Cardinality(Below(y)) # Cardinality(Below(z))
  <2> SUFFICES ASSUME NEW y \in S, NEW z \in S, y < z, Cardinality(Below(y)) = Cardinality(Below(z)) PROVE FALSE
    OBVIOUS
  <2>1. \A w \in S : w <= y => w <= z
    OBVIOUS
  <2>2. z <= z /\ ~(z <= y)
    OBVIOUS
  <2>3. Below(y) \subseteq Below(z) /\ z \in Below(z) /\ z \notin Below(y)
    BY <2>1, <2>2, Zenon
  <2> QED
    BY <2>3, <1>1, FS_Subset
<1>5. \A y \in S : Place(S, y) = Cardinality(Below(y))
  BY DEF Place
<1>6. Cardinality(S) \in Nat
  BY FS_CardinalityType
<1> HIDE DEF Below
<1>7. Place(S, x) \in 1..Cardinality(S)
  BY <1>1, <1>2, <1>3, <1>5, <1>6
<1>8. ASSUME NEW y \in S, Place(S, y) = Place(S, x) PROVE y = x
  BY <1>8, <1>4, <1>5
<1> QED
  BY <1>7, <1>8

(* As many parts as numbers have one number each.                          *)
LEMMA PartOwn ==
    ASSUME NEW S \in SUBSET Int, IsFiniteSet(S), NEW x \in S
    PROVE  Part(S, Cardinality(S), Place(S, x)) = {x}
<1> DEFINE c == Cardinality(S)
           p == Place(S, x)
<1>1. p \in 1..c /\ c \in Nat /\ c > 0
  BY PlaceOwn, FS_CardinalityType
<1>2. c \div c = 1 /\ c % c = 0
  BY <1>1
<1>3. \A j \in Nat : Upto(S, c, j) = j
  BY <1>1, <1>2 DEF Upto, Least
<1>4. p \in Nat /\ p - 1 \in Nat
  BY <1>1
<1>5. Upto(S, c, p) = p /\ Upto(S, c, p - 1) = p - 1
  BY <1>3, <1>4
<1>6. \A y \in S : Place(S, y) \in Nat
  BY PlaceOwn
<1>7. Part(S, c, p) = {y \in S : Place(S, y) = p}
  <2>1. \A y \in S : (p - 1 < Place(S, y) /\ Place(S, y) <= p) <=> Place(S, y) = p
    BY <1>4, <1>6
  <2> HIDE DEF p
  <2> QED
    BY <2>1, <1>5 DEF Part
<1> QED
  BY <1>7, PlaceOwn

(* Some numbers have a least, which Min is.                                *)
LEMMA LeastOf ==
    ASSUME NEW S \in SUBSET Nat, S # {}
    PROVE  \E x \in S : \A y \in S : x <= y
<1> DEFINE less == OpToRel(<, Nat)
<1>1. \A x, y \in Nat : x < y => <<x, y>> \in less
  BY DEF OpToRel
<1> HIDE DEF less
<1>2. PICK x \in S : \A y \in S : <<y, x>> \notin less
  BY NatLessThanWellFounded, WFMin DEF less
<1>3. \A y \in S : ~(y < x)
  BY <1>1, <1>2
<1>4. \A y \in S : x <= y
  BY <1>3
<1> QED
  BY <1>4

LEMMA LeastIn ==
    ASSUME NEW S \in SUBSET Nat, S # {}
    PROVE  Min(S) \in S
  BY LeastOf DEF Min

(* What can be removed are finitely many numbers.                          *)
LEMMA Removable ==
    ASSUME NEW k \in DOMAIN Reductions
    PROVE  LET r == Reductions[k]
           IN  removable(r) \in SUBSET Int /\ IsFiniteSet(removable(r)) /\ r.frames \in Nat \ {0}
<1> DEFINE r == Reductions[k]
<1>1. /\ IsFiniteSet(DOMAIN r.data) /\ DOMAIN r.data \subseteq Int /\ r.patch \in Seq((DOMAIN r.data) \X Int)
      /\ r.frames \in Nat \ {0}
  BY ReductionAssumption
<1>2. DOMAIN r.patch = 1..Len(r.patch) /\ Len(r.patch) \in Nat
  BY <1>1
<1>3. IsFiniteSet(DOMAIN r.patch) /\ DOMAIN r.patch \subseteq Int
  BY <1>2, FS_Interval
<1>4. addr_to_offset(r.data, r.header, r.load, r.addrs) \subseteq DOMAIN r.data
  BY DEF addr_to_offset
<1> QED
  BY <1>1, <1>3, <1>4, FS_Subset DEF removable

(* What is known of a minimising m of r: it is bisecting the frames of a   *)
(* change that shows the fault, lo being the least that may still do, or   *)
(* is reducing one of which nothing does not; after that, nothing can be   *)
(* left out of it.                                                         *)
MinSet(r) ==
    [at : {"frames", "ddmin", "again", "done", "refused"}, items : SUBSET removable(r),
     lo : Nat \ {0}, hi : Nat \ {0}, n : Nat, frames : Nat \ {0}]
Shows(r, m) == Passes(r, m.items, m.hi) /\ (Monotone(r) => \A k \in 1..(m.lo - 1) : ~Passes(r, m.items, k))
Tight(r, m) == \A e \in m.items : ~Passes(r, m.items \ {e}, m.frames)
Reducing(r, m) == Passes(r, m.items, m.frames) /\ ~Passes(r, {}, m.frames)
At(m, places) == m.at \in places
Minimising(r, m) ==
    /\ m \in MinSet(r)
    /\ m.lo <= m.hi /\ m.hi <= m.frames /\ m.frames <= r.frames /\ m.n >= 2
    /\ At(m, {"refused"}) <=> ~Passes(r, removable(r), r.frames)
    /\ At(m, {"frames"}) => m.items = removable(r)
    /\ At(m, {"frames", "again", "done"}) => Shows(r, m)
    /\ At(m, {"ddmin"}) => Reducing(r, m)
    /\ At(m, {"again", "done"}) => Tight(r, m)
    /\ At(m, {"done"}) => m.lo = m.hi

LEMMA MinBegins ==
    ASSUME NEW k \in DOMAIN Reductions
    PROVE  Minimising(Reductions[k], minimise(Reductions[k]))
<1> DEFINE r == Reductions[k]
           m == minimise(r)
<1>1. r.frames \in Nat \ {0} /\ removable(r) \in SUBSET removable(r)
  BY Removable
<1>2. m = [at |-> IF Passes(r, removable(r), r.frames) THEN "frames" ELSE "refused",
           items |-> removable(r), lo |-> 1, hi |-> r.frames, n |-> 2, frames |-> r.frames]
  BY DEF minimise
<1> HIDE DEF m, r
<1>3. m \in MinSet(r)
  BY <1>1, <1>2 DEF MinSet
<1>4. m.items = removable(r) /\ m.lo = 1 /\ m.hi = r.frames /\ m.n = 2 /\ m.frames = r.frames
  BY <1>2
<1>5. /\ At(m, {"refused"}) <=> ~Passes(r, removable(r), r.frames)
      /\ At(m, {"frames", "again", "done"}) <=> Passes(r, removable(r), r.frames)
      /\ ~At(m, {"again", "done"}) /\ ~At(m, {"done"}) /\ ~At(m, {"ddmin"})
  BY <1>2 DEF At
<1>6. Passes(r, removable(r), r.frames) => Shows(r, m)
  BY <1>4 DEF Shows
<1> QED
  BY <1>1, <1>3, <1>4, <1>5, <1>6 DEF Minimising, m, r

(* A bisection.                                                            *)
LEMMA MinBisects ==
    ASSUME NEW r, r.frames \in Nat, NEW m, Minimising(r, m), Bisecting(m)
    PROVE  Minimising(r, Bisected(r, m))
<1> DEFINE mid == (m.lo + m.hi) \div 2
           next == Bisected(r, m)
<1>1. m \in MinSet(r) /\ m.lo < m.hi /\ m.hi <= m.frames /\ m.frames <= r.frames /\ m.n >= 2
  BY DEF Minimising, Bisecting
<1>2. m.lo \in Nat \ {0} /\ m.hi \in Nat \ {0} /\ m.frames \in Nat \ {0}
  BY <1>1 DEF MinSet
<1>3. mid \in Nat \ {0} /\ m.lo <= mid /\ mid < m.hi
  BY <1>1, <1>2
<1>4. Shows(r, m) /\ At(m, {"frames", "again"})
  BY DEF Minimising, Bisecting, At
<1> HIDE DEF mid
<1>5. /\ next.at = m.at /\ next.items = m.items /\ next.n = m.n /\ next.frames = m.frames /\ next \in MinSet(r)
      /\ Passes(r, m.items, mid) => next.lo = m.lo /\ next.hi = mid
      /\ ~Passes(r, m.items, mid) => next.lo = mid + 1 /\ next.hi = m.hi
  BY <1>1, <1>2, <1>3 DEF MinSet, Bisected, mid
<1>6. Shows(r, next)
  <2>1. CASE Passes(r, m.items, mid)
    BY <2>1, <1>4, <1>5 DEF Shows
  <2>2. CASE ~Passes(r, m.items, mid)
    <3>1. ASSUME Monotone(r), NEW k \in 1..mid PROVE ~Passes(r, m.items, k)
      <4>1. k \in 1..r.frames /\ mid \in 1..r.frames /\ k <= mid /\ m.items \in SUBSET removable(r)
        BY <1>1, <1>2, <1>3 DEF MinSet
      <4> QED
        BY <4>1, <3>1, <2>2 DEF Monotone
    <3>2. next.lo - 1 = mid
      BY <2>2, <1>3, <1>5
    <3> QED
      BY <3>1, <3>2, <2>2, <1>4, <1>5 DEF Shows
  <2> QED
    BY <2>1, <2>2
<1>7. /\ \A places : At(next, places) <=> At(m, places)
      /\ At(m, {"again", "done"}) => Tight(r, next)
  BY <1>5 DEF At, Minimising, Tight
<1>8. ~At(m, {"ddmin"}) /\ ~At(m, {"done"})
  BY <1>4 DEF At
<1>9. next.lo <= next.hi /\ next.hi <= next.frames
  BY <1>1, <1>2, <1>3, <1>5
<1> HIDE DEF next
<1> QED
  BY <1>1, <1>5, <1>6, <1>7, <1>8, <1>9 DEF Minimising, next

(* Bisecting again.                                                        *)
LEMMA AgainIs ==
    ASSUME NEW r, NEW m, m \in MinSet(r), NEW items
    PROVE  Again(m, items) = [at |-> "again", items |-> items, lo |-> 1, hi |-> m.frames, n |-> m.n, frames |-> m.frames]
<1>1. m = [at |-> m.at, items |-> m.items, lo |-> m.lo, hi |-> m.hi, n |-> m.n, frames |-> m.frames]
  BY DEF MinSet
<1> DEFINE next == Again(m, items)
<1>2. DOMAIN m = {"at", "items", "lo", "hi", "n", "frames"}
  BY <1>1
<1>3. DOMAIN next = {"at", "items", "lo", "hi", "n", "frames"}
  BY <1>2 DEF Again
<1>4. /\ next.at = "again" /\ next.items = items /\ next.lo = 1 /\ next.hi = m.frames
      /\ next.n = m.n /\ next.frames = m.frames
  BY <1>2 DEF Again
<1>5. next = [x \in DOMAIN next |-> next[x]]
  BY DEF Again
<1> DEFINE want == [at |-> "again", items |-> items, lo |-> 1, hi |-> m.frames, n |-> m.n, frames |-> m.frames]
<1>6. DOMAIN want = DOMAIN next
  BY <1>3
<1>7. \A x \in DOMAIN next : want[x] = next[x]
  BY <1>3, <1>4
<1>8. want = [x \in DOMAIN want |-> want[x]]
  OBVIOUS
<1> HIDE DEF next, want
<1>9. next = want
  BY <1>5, <1>6, <1>7, <1>8
<1> QED
  BY <1>9 DEF next, want

(* The end of a bisection.                                                 *)
LEMMA MinFound ==
    ASSUME NEW r, r.frames \in Nat, NEW m, Minimising(r, m), FramesFound(m)
    PROVE  Minimising(r, Found(r, m))
<1>1. m \in MinSet(r) /\ m.lo = m.hi /\ m.hi <= m.frames /\ m.frames <= r.frames /\ m.n >= 2
  BY DEF Minimising, FramesFound, MinSet
<1>2. m.lo \in Nat \ {0} /\ m.hi \in Nat \ {0} /\ m.frames \in Nat \ {0} /\ m.items \in SUBSET removable(r)
  BY <1>1 DEF MinSet
<1>3. Shows(r, m)
  BY DEF Minimising, FramesFound, At
<1>4. Passes(r, m.items, m.hi)
  BY <1>3 DEF Shows
<1>5. At(m, {"refused"}) <=> ~Passes(r, removable(r), r.frames)
  BY DEF Minimising
<1>6. Passes(r, removable(r), r.frames)
  BY <1>5 DEF At, FramesFound
<1>7. CASE m.at = "again"
  <2> DEFINE next == [m EXCEPT !.at = "done"]
  <2>1. Found(r, m) = next
    BY <1>7 DEF Found
  <2>2. /\ next \in MinSet(r) /\ next.at = "done"
        /\ next.items = m.items /\ next.lo = m.lo /\ next.hi = m.hi /\ next.n = m.n /\ next.frames = m.frames
    BY <1>1 DEF MinSet
  <2> HIDE DEF next
  <2>3. Shows(r, next)
    BY <1>3, <2>2 DEF Shows
  <2>4. Tight(r, next)
    BY <1>7, <2>2 DEF Tight, Minimising, At
  <2>5. At(next, {"done"}) /\ ~At(next, {"refused"}) /\ ~At(next, {"frames"}) /\ ~At(next, {"ddmin"})
    BY <2>2 DEF At
  <2>6. Minimising(r, next)
    BY <1>1, <1>2, <1>6, <2>2, <2>3, <2>4, <2>5 DEF Minimising
  <2> QED
    BY <2>1, <2>6
<1>8. CASE m.at = "frames" /\ ~Passes(r, {}, m.hi)
  <2> DEFINE next == [m EXCEPT !.at = "ddmin", !.frames = m.hi]
  <2>1. Found(r, m) = next
    BY <1>8 DEF Found
  <2>2. /\ next \in MinSet(r) /\ next.at = "ddmin"
        /\ next.items = m.items /\ next.lo = m.lo /\ next.hi = m.hi /\ next.n = m.n /\ next.frames = m.hi
    BY <1>1, <1>2 DEF MinSet
  <2> HIDE DEF next
  <2>3. Reducing(r, next)
    BY <1>4, <1>8, <2>2 DEF Reducing
  <2>4. At(next, {"ddmin"}) /\ ~At(next, {"refused"}) /\ ~At(next, {"frames"}) /\ ~At(next, {"done"})
        /\ ~At(next, {"again", "done"}) /\ ~At(next, {"frames", "again", "done"})
    BY <2>2 DEF At
  <2>5. Minimising(r, next)
    BY <1>1, <1>2, <1>6, <2>2, <2>3, <2>4 DEF Minimising
  <2> QED
    BY <2>1, <2>5
<1>9. CASE m.at = "frames" /\ Passes(r, {}, m.hi)
  <2> DEFINE now == [m EXCEPT !.at = "ddmin", !.frames = m.hi]
             next == Again(now, {})
  <2>1. Found(r, m) = next
    BY <1>9 DEF Found
  <2>2. /\ next \in MinSet(r) /\ next.at = "again"
        /\ next.items = {} /\ next.lo = 1 /\ next.hi = m.hi /\ next.n = m.n /\ next.frames = m.hi
    <3>1. now \in MinSet(r) /\ now.n = m.n /\ now.frames = m.hi
      BY <1>1, <1>2 DEF MinSet
    <3>2. next = [at |-> "again", items |-> {}, lo |-> 1, hi |-> m.hi, n |-> m.n, frames |-> m.hi]
      BY <3>1, AgainIs
    <3>3. m.n \in Nat /\ {} \in SUBSET removable(r)
      BY <1>1 DEF MinSet
    <3> HIDE DEF next
    <3> QED
      BY <3>2, <3>3, <1>2 DEF MinSet
  <2> HIDE DEF next
  <2>3. Shows(r, next) /\ Tight(r, next)
    BY <1>9, <2>2 DEF Shows, Tight
  <2>4. At(next, {"again", "done"}) /\ ~At(next, {"refused"}) /\ ~At(next, {"frames"}) /\ ~At(next, {"done"})
        /\ ~At(next, {"ddmin"})
    BY <2>2 DEF At
  <2>5. Minimising(r, next)
    BY <1>1, <1>2, <1>6, <2>2, <2>3, <2>4 DEF Minimising
  <2> QED
    BY <2>1, <2>5
<1> QED
  BY <1>7, <1>8, <1>9 DEF FramesFound

(* The ddmin goes on with fewer items, or smaller parts.                   *)
LEMMA MinGoesOn ==
    ASSUME NEW r, NEW m, Minimising(r, m), m.at = "ddmin",
           NEW items \in SUBSET removable(r), Passes(r, items, m.frames), NEW n \in Nat, n >= 2
    PROVE  Minimising(r, [m EXCEPT !.items = items, !.n = n])
<1> DEFINE next == [m EXCEPT !.items = items, !.n = n]
<1>1. m \in MinSet(r) /\ m.lo <= m.hi /\ m.hi <= m.frames /\ m.frames <= r.frames
  BY DEF Minimising
<1>2. /\ next \in MinSet(r) /\ next.at = "ddmin"
      /\ next.items = items /\ next.lo = m.lo /\ next.hi = m.hi /\ next.n = n /\ next.frames = m.frames
  BY <1>1 DEF MinSet
<1> HIDE DEF next
<1>3. Reducing(r, m) /\ Passes(r, removable(r), r.frames)
  BY DEF Minimising, At
<1>4. Reducing(r, next)
  BY <1>2, <1>3 DEF Reducing
<1>5. At(next, {"ddmin"}) /\ ~At(next, {"refused"}) /\ ~At(next, {"frames"}) /\ ~At(next, {"done"})
      /\ ~At(next, {"again", "done"}) /\ ~At(next, {"frames", "again", "done"})
  BY <1>2 DEF At
<1> QED
  BY <1>1, <1>2, <1>3, <1>4, <1>5 DEF Minimising, next

(* The ddmin ends once no item can be left out.                            *)
LEMMA MinEnds ==
    ASSUME NEW r, NEW m, Minimising(r, m), m.at = "ddmin", Tight(r, m)
    PROVE  Minimising(r, Again(m, m.items))
<1> DEFINE next == Again(m, m.items)
<1>1. m \in MinSet(r) /\ m.frames <= r.frames /\ m.n >= 2
  BY DEF Minimising
<1>2. m.frames \in Nat \ {0}
  BY <1>1 DEF MinSet
<1>3. /\ next \in MinSet(r) /\ next.at = "again"
      /\ next.items = m.items /\ next.lo = 1 /\ next.hi = m.frames /\ next.n = m.n /\ next.frames = m.frames
  <2>1. next = [at |-> "again", items |-> m.items, lo |-> 1, hi |-> m.frames, n |-> m.n, frames |-> m.frames]
    BY <1>1, AgainIs
  <2>2. m.n \in Nat /\ m.items \in SUBSET removable(r)
    BY <1>1 DEF MinSet
  <2> HIDE DEF next
  <2> QED
    BY <2>1, <2>2, <1>2 DEF MinSet
<1> HIDE DEF next
<1>4. Reducing(r, m) /\ Passes(r, removable(r), r.frames)
  BY DEF Minimising, At
<1>5. Shows(r, next) /\ Tight(r, next)
  BY <1>3, <1>4 DEF Shows, Tight, Reducing
<1>6. At(next, {"again", "done"}) /\ ~At(next, {"refused"}) /\ ~At(next, {"frames"}) /\ ~At(next, {"done"})
      /\ ~At(next, {"ddmin"})
  BY <1>3 DEF At
<1> QED
  BY <1>1, <1>2, <1>3, <1>4, <1>5, <1>6 DEF Minimising, next

(* Where the parts have one item each, no part and no rest having the      *)
(* fault, no item can be left out.                                         *)
LEMMA SinglesTight ==
    ASSUME NEW r, NEW m, m.items \in SUBSET Int, IsFiniteSet(m.items), m.n \in Nat, m.n >= 2,
           m.n >= Cardinality(m.items), Cardinality(m.items) >= 2,
           \A j \in 1..Parts(m) : ~Passes(r, Part(m.items, Parts(m), j), m.frames),
           m.n > 2 => \A j \in 1..Parts(m) : ~Passes(r, m.items \ Part(m.items, Parts(m), j), m.frames)
    PROVE  Tight(r, m)
<1>1. Cardinality(m.items) \in Nat
  BY FS_CardinalityType
<1>2. Parts(m) = Cardinality(m.items)
  BY <1>1 DEF Parts, Least
<1>3. ASSUME NEW e \in m.items
      PROVE  Place(m.items, e) \in 1..Parts(m) /\ Part(m.items, Parts(m), Place(m.items, e)) = {e}
  BY <1>2, PlaceOwn, PartOwn
<1>4. ASSUME NEW e \in m.items PROVE ~Passes(r, m.items \ {e}, m.frames)
  <2>1. CASE m.n > 2
    BY <2>1, <1>3
  <2>2. CASE m.n = 2
    <3>1. Cardinality(m.items \ {e}) = 1 /\ IsFiniteSet(m.items \ {e})
      <4>1. Cardinality(m.items) = 2
        BY <2>2, <1>1
      <4>2. /\ IsFiniteSet(m.items \ {e})
            /\ Cardinality(m.items \ {e}) = Cardinality(m.items) - 1
        BY FS_RemoveElement
      <4> QED
        BY <4>1, <4>2
    <3>2. PICK f : m.items \ {e} = {f}
      BY <3>1, FS_Singleton
    <3>3. f \in m.items
      BY <3>2
    <3>4. ~Passes(r, {f}, m.frames)
      BY <3>3, <1>3
    <3> QED
      BY <3>2, <3>4
  <2> QED
    BY <2>1, <2>2
<1> QED
  BY <1>4 DEF Tight

(* A step of the ddmin.                                                    *)
LEMMA MinReduces ==
    ASSUME NEW r, removable(r) \in SUBSET Int, IsFiniteSet(removable(r)),
           NEW m, Minimising(r, m), m.at = "ddmin"
    PROVE  Minimising(r, Reduced(r, m))
<1>1. m \in MinSet(r) /\ m.n >= 2 /\ Reducing(r, m)
  BY DEF Minimising, At
<1>2. m.items \in SUBSET removable(r) /\ m.n \in Nat
  BY <1>1 DEF MinSet
<1>3. m.items \in SUBSET Int /\ IsFiniteSet(m.items)
  BY <1>2, FS_Subset
<1>4. Cardinality(m.items) \in Nat
  BY <1>3, FS_CardinalityType
<1>5. CASE Cardinality(m.items) < 2
  <2>1. ASSUME NEW e \in m.items PROVE m.items \ {e} = {}
    <3>1. Cardinality(m.items) # 0 /\ IsFiniteSet(m.items \ {e})
          /\ Cardinality(m.items \ {e}) = Cardinality(m.items) - 1
      BY <1>3, FS_EmptySet, FS_RemoveElement
    <3>2. Cardinality(m.items \ {e}) = 0
      BY <3>1, <1>4, <1>5
    <3> QED
      BY <3>1, <3>2, FS_EmptySet
  <2>2. Tight(r, m)
    BY <2>1, <1>1 DEF Tight, Reducing
  <2> QED
    BY <2>2, <1>5, MinEnds DEF Reduced
<1>6. CASE ~(Cardinality(m.items) < 2)
  <2> DEFINE chunk(j) == Part(m.items, Parts(m), j)
             chunks == {j \in 1..Parts(m) : Passes(r, chunk(j), m.frames)}
             rests == {j \in 1..Parts(m) : m.n > 2 /\ Passes(r, m.items \ chunk(j), m.frames)}
             next == Shrunk(r, m)
  <2>1. Reduced(r, m) = next
    BY <1>6 DEF Reduced
  <2>2. \A j : chunk(j) \in SUBSET removable(r) /\ m.items \ chunk(j) \in SUBSET removable(r)
    BY <1>2 DEF Part
  <2>3. Parts(m) \in Nat
    BY <1>2, <1>4 DEF Parts, Least
  <2>4. chunks \in SUBSET Nat /\ rests \in SUBSET Nat
    BY <2>3
  <2>9. 2 \in Nat /\ 2 >= 2
    OBVIOUS
  <2>5. CASE chunks # {}
    <3>1. Min(chunks) \in chunks
      BY <2>4, <2>5, LeastIn
    <3>2. Passes(r, chunk(Min(chunks)), m.frames)
      BY <3>1
    <3>3. next = [m EXCEPT !.items = chunk(Min(chunks)), !.n = 2]
      BY <2>5 DEF Shrunk
    <3> DEFINE items == chunk(Min(chunks))
    <3>4. items \in SUBSET removable(r) /\ Passes(r, items, m.frames)
      BY <2>2, <3>2
    <3> HIDE DEF items
    <3>5. Minimising(r, [m EXCEPT !.items = items, !.n = 2])
      BY <2>9, <3>4, MinGoesOn
    <3> QED
      BY <2>1, <3>3, <3>5 DEF items
  <2>6. CASE chunks = {} /\ rests # {}
    <3>1. Min(rests) \in rests
      BY <2>4, <2>6, LeastIn
    <3>2. Passes(r, m.items \ chunk(Min(rests)), m.frames)
      BY <3>1
    <3>3. next = [m EXCEPT !.items = m.items \ chunk(Min(rests)), !.n = Most(m.n - 1, 2)]
      BY <2>6 DEF Shrunk
    <3>4. Most(m.n - 1, 2) \in Nat /\ Most(m.n - 1, 2) >= 2
      BY <1>2 DEF Most
    <3> DEFINE items == m.items \ chunk(Min(rests))
               n == Most(m.n - 1, 2)
    <3>5. items \in SUBSET removable(r) /\ Passes(r, items, m.frames)
      BY <2>2, <3>2
    <3> HIDE DEF items, n
    <3>6. Minimising(r, [m EXCEPT !.items = items, !.n = n])
      BY <3>4, <3>5, MinGoesOn DEF n
    <3> QED
      BY <2>1, <3>3, <3>6 DEF items, n
  <2>7. CASE chunks = {} /\ rests = {} /\ m.n < Cardinality(m.items)
    <3>1. next = [m EXCEPT !.n = Least(2 * m.n, Cardinality(m.items))]
      BY <2>7 DEF Shrunk
    <3> DEFINE wide == Least(2 * m.n, Cardinality(m.items))
    <3>2. wide \in Nat /\ wide >= 2
      BY <1>1, <1>2, <1>4, <1>6 DEF Least
    <3>3. next = [m EXCEPT !.items = m.items, !.n = wide]
      BY <3>1, <1>1 DEF MinSet
    <3>4. Passes(r, m.items, m.frames)
      BY <1>1 DEF Reducing
    <3> HIDE DEF wide
    <3>5. Minimising(r, [m EXCEPT !.items = m.items, !.n = wide])
      BY <1>2, <3>2, <3>4, MinGoesOn
    <3> QED
      BY <2>1, <3>3, <3>5
  <2>8. CASE chunks = {} /\ rests = {} /\ ~(m.n < Cardinality(m.items))
    <3>1. next = Again(m, m.items)
      BY <2>8 DEF Shrunk
    <3>2. /\ \A j \in 1..Parts(m) : ~Passes(r, Part(m.items, Parts(m), j), m.frames)
          /\ m.n > 2 => \A j \in 1..Parts(m) : ~Passes(r, m.items \ Part(m.items, Parts(m), j), m.frames)
      BY <2>8
    <3>3. m.n >= Cardinality(m.items) /\ Cardinality(m.items) >= 2
      BY <1>2, <1>4, <1>6, <2>8
    <3>4. Tight(r, m)
      BY <1>1, <1>2, <1>3, <3>2, <3>3, SinglesTight
    <3> QED
      BY <2>1, <3>1, <3>4, MinEnds
  <2> QED
    BY <2>5, <2>6, <2>7, <2>8
<1> QED
  BY <1>5, <1>6

(* No other step leads to a state of fuzzing.                              *)
LEMMA OtherSteps ==
    ASSUME SurveyStep \/ SurveyDies \/ CacheStep
    PROVE  s'.area \notin {"exercise", "minimise", "history", "tables", "match"}
<1>1. CASE SurveyStep
  BY <1>1 DEF SurveyStep
<1>2. CASE SurveyDies
  BY <1>2 DEF SurveyDies
<1>3. CASE CacheStep
  BY <1>3, CacheApart
<1> QED
  BY <1>1, <1>2, <1>3

MinInv == s.area = "minimise" => s.r \in DOMAIN Reductions /\ Minimising(Reductions[s.r], s.m)

LEMMA MinStays ==
    /\ StudiesInit => MinInv
    /\ MinInv /\ [StudiesNext]_s => MinInv'
<1>1. ASSUME StudiesInit PROVE MinInv
  <2>1. ASSUME SurveyInit \/ TablesInit \/ CacheInit \/ ManifestInit PROVE s.area # "minimise"
    BY <2>1 DEF SurveyInit, TablesInit, CacheInit, ManifestInit
  <2>2. ASSUME NEW k \in DOMAIN Reductions, s = [area |-> "minimise", r |-> k, m |-> minimise(Reductions[k])] PROVE MinInv
    BY <2>2, MinBegins DEF MinInv
  <2>3. ASSUME NEW x, s = [area |-> "exercise", x |-> x] PROVE MinInv
    BY <2>3 DEF MinInv
  <2> QED
    BY <1>1, <2>1, <2>2, <2>3, HistoryApart DEF StudiesInit, FuzzInit, MinInv
<1>2. ASSUME MinInv, [StudiesNext]_s PROVE MinInv'
  <2>1. CASE UNCHANGED s
    BY <1>2, <2>1 DEF MinInv
  <2>2. ASSUME SurveyStep \/ SurveyDies \/ CacheStep PROVE s'.area # "minimise"
    BY <2>2, OtherSteps
  <2>3. ASSUME TargetDropped \/ MutationTried PROVE s'.area # "minimise"
    BY <2>3 DEF TargetDropped, MutationTried
  <2>4. CASE MinimiseStep
    <3> DEFINE r == Reductions[s.r]
    <3>1. s.r \in DOMAIN Reductions /\ Minimising(r, s.m)
      BY <1>2, <2>4 DEF MinInv, MinimiseStep
    <3>2. removable(r) \in SUBSET Int /\ IsFiniteSet(removable(r)) /\ r.frames \in Nat
      BY <3>1, Removable
    <3>3. ASSUME NEW m, Minimising(r, m), Minimises(m) PROVE MinInv'
      BY <3>1, <3>3 DEF MinInv, Minimises
    <3> HIDE DEF r
    <3>4. CASE Bisecting(s.m) /\ Minimises(Bisected(r, s.m))
      BY <3>1, <3>2, <3>3, <3>4, MinBisects
    <3>5. CASE FramesFound(s.m) /\ Minimises(Found(r, s.m))
      BY <3>1, <3>2, <3>3, <3>5, MinFound
    <3>6. CASE s.m.at = "ddmin" /\ Minimises(Reduced(r, s.m))
      BY <3>1, <3>2, <3>3, <3>6, MinReduces
    <3> QED
      BY <2>4, <3>4, <3>5, <3>6 DEF MinimiseStep, r
  <2> QED
    BY <1>2, <2>1, <2>2, <2>3, <2>4, HistoryApart DEF StudiesNext, FuzzStep, MinInv
<1> QED
  BY <1>1, <1>2

(* A patch that is made of what was built builds it again.                 *)
LEMMA Rebuilt ==
    ASSUME NEW r, NEW kept
    PROVE  Written(r.data, make_patch(r.data, built(r, kept))) = built(r, kept)
<1> DEFINE data == r.data
           made == built(r, kept)
           patch == make_patch(data, made)
<1>1. made = [o \in DOMAIN data |-> made[o]]
  <2> DEFINE change == IF r.patched THEN Restrict(r.patch, kept)
                       ELSE [o \in removable(r) \ kept |-> <<o, r.neutral>>]
             byte(o) == IF Entries(change, o) = {} THEN data[o] ELSE change[Max(Entries(change, o))][2] % Bytes
  <2>1. made = [o \in DOMAIN data |-> byte(o)]
    BY Zenon DEF built, apply_patch
  <2> HIDE DEF byte, made
  <2> QED
    BY <2>1
<1> HIDE DEF made
<1>2. ASSUME NEW o \in DOMAIN data PROVE (IF o \in DOMAIN patch THEN patch[o] ELSE data[o]) = made[o]
  BY <1>1 DEF make_patch
<1> HIDE DEF patch
<1>3. Written(data, patch) = [o \in DOMAIN data |-> made[o]]
  BY <1>2, Zenon DEF Written
<1> QED
  BY <1>1, <1>3 DEF made, patch

LEMMA MinHolds == MinInv => MinimiseTrue
<1> SUFFICES ASSUME MinInv, s.area = "minimise"
             PROVE  LET r == Reductions[s.r]
                        m == s.m
                    IN  /\ m.at = "done" =>
                              /\ m.hi \in r.pred[Written(r.data, minimised(r, m))]
                              /\ m.items \subseteq removable(r)
                              /\ \A e \in m.items : ~Passes(r, m.items \ {e}, m.frames)
                              /\ Monotone(r) =>
                                    /\ \A n \in 1..(m.hi - 1) : ~Passes(r, m.items, n)
                                    /\ \A e \in m.items : ~Passes(r, m.items \ {e}, m.hi)
                        /\ m.at = "refused" <=> ~Passes(r, removable(r), r.frames)
  BY DEF MinimiseTrue
<1> DEFINE r == Reductions[s.r]
           m == s.m
<1>1. s.r \in DOMAIN Reductions /\ Minimising(r, m)
  BY DEF MinInv
<1>2. r.frames \in Nat
  BY <1>1, Removable
<1> HIDE DEF r, m
<1>3. m.at = "refused" <=> ~Passes(r, removable(r), r.frames)
  BY <1>1 DEF Minimising, At
<1>4. ASSUME m.at = "done"
      PROVE  /\ m.hi \in r.pred[Written(r.data, minimised(r, m))]
             /\ m.items \subseteq removable(r)
             /\ \A e \in m.items : ~Passes(r, m.items \ {e}, m.frames)
             /\ Monotone(r) =>
                   /\ \A n \in 1..(m.hi - 1) : ~Passes(r, m.items, n)
                   /\ \A e \in m.items : ~Passes(r, m.items \ {e}, m.hi)
  <2>1. m \in MinSet(r) /\ m.lo = m.hi /\ m.hi <= m.frames /\ m.frames <= r.frames /\ Shows(r, m) /\ Tight(r, m)
    BY <1>1, <1>4 DEF Minimising, At
  <2>2. m.hi \in Nat \ {0} /\ m.frames \in Nat \ {0} /\ m.items \in SUBSET removable(r)
    BY <2>1 DEF MinSet
  <2>3. m.hi \in r.pred[Written(r.data, minimised(r, m))]
    <3>1. m.hi \in r.pred[built(r, m.items)]
      BY <2>1 DEF Shows, Passes
    <3> QED
      BY <3>1, Rebuilt DEF minimised
  <2>4. Monotone(r) => \A n \in 1..(m.hi - 1) : ~Passes(r, m.items, n)
    BY <2>1 DEF Shows
  <2>5. ASSUME Monotone(r), NEW e \in m.items PROVE ~Passes(r, m.items \ {e}, m.hi)
    <3>1. m.items \ {e} \in SUBSET removable(r) /\ m.hi \in 1..r.frames /\ m.frames \in 1..r.frames
      BY <1>2, <2>1, <2>2
    <3>2. Passes(r, m.items \ {e}, m.hi) => Passes(r, m.items \ {e}, m.frames)
      BY <2>1, <2>5, <3>1 DEF Monotone
    <3> QED
      BY <2>1, <3>2 DEF Tight
  <2>6. \A e \in m.items : ~Passes(r, m.items \ {e}, m.frames)
    BY <2>1 DEF Tight
  <2> QED
    BY <2>2, <2>3, <2>4, <2>5, <2>6
<1> QED
  BY <1>3, <1>4 DEF r, m

-----------------------------------------------------------------------------
(* Exercising: the targets, their turns, and what the mutants were the     *)
(* first to reach.                                                         *)

Targets(f) == targets(f.frames, f.universe)

LEMMA TargetsTyped ==
    ASSUME NEW f \in Fuzzes
    PROVE  /\ IsFiniteSet(Targets(f)) /\ Cardinality(Targets(f)) \in Nat
           /\ \A t \in Targets(f) : t.frame \in 1..Len(f.frames) /\ t.name \in gaps(f.frames, f.universe)
<1>1. /\ f.frames \in Seq(SUBSET Int) /\ IsFiniteSet(DOMAIN f.universe)
  BY FuzzAssumption
<1>2. Len(f.frames) \in Nat /\ DOMAIN f.frames = 1..Len(f.frames)
  BY <1>1
<1>3. ASSUME NEW t \in Targets(f)
      PROVE  /\ t \in [name : DOMAIN f.universe, frame : DOMAIN f.frames]
             /\ t.name \in gaps(f.frames, f.universe)
             /\ t.frame \in Member(f.frames, f.universe, t.name)
             /\ \A k \in Member(f.frames, f.universe, t.name) : t.frame <= k
  BY DEF Targets, targets
<1>4. ASSUME NEW t \in Targets(f), NEW u \in Targets(f), t.name = u.name PROVE t = u
  <2>1. t.frame \in Nat /\ u.frame \in Nat
    BY <1>2, <1>3
  <2>2. t.frame <= u.frame /\ u.frame <= t.frame
    BY <1>3, <1>4
  <2>3. t.frame = u.frame
    BY <2>1, <2>2
  <2> QED
    BY <1>3, <1>4, <2>3
<1> DEFINE name == [t \in Targets(f) |-> t.name]
<1>5. name \in Injection(Targets(f), DOMAIN f.universe)
  BY <1>3, <1>4 DEF Injection, IsInjective
<1>6. IsFiniteSet(Targets(f))
  BY <1>1, <1>5, FS_Injection
<1> QED
  BY <1>2, <1>3, <1>6, FS_CardinalityType

(* An element is appended to a sequence.                                   *)
LEMMA AppendOwn ==
    ASSUME NEW q, q \in Seq(Range(q)), NEW e
    PROVE  /\ Append(q, e) \in Seq(Range(Append(q, e)))
           /\ Len(q) \in Nat /\ DOMAIN q = 1..Len(q) /\ DOMAIN Append(q, e) = 1..(Len(q) + 1)
           /\ \A k \in 1..Len(q) : Append(q, e)[k] = q[k]
           /\ Append(q, e)[Len(q) + 1] = e
<1> DEFINE S == Range(q) \union {e}
           p == Append(q, e)
<1>1. q \in Seq(S)
  BY SeqMonotonic
<1>2. /\ p \in Seq(S) /\ Len(p) = Len(q) + 1 /\ Len(q) \in Nat /\ DOMAIN q = 1..Len(q)
      /\ \A k \in 1..Len(q) : p[k] = q[k]
      /\ p[Len(q) + 1] = e
  BY <1>1
<1>3. DOMAIN p = 1..Len(p) /\ \A k \in 1..Len(p) : p[k] \in Range(p)
  BY <1>2 DEF Range
<1> HIDE DEF p, S
<1>4. p \in Seq(Range(p))
  <2>1. p = [k \in 1..Len(p) |-> p[k]] /\ Len(p) \in Nat
    BY <1>2
  <2>2. p \in [1..Len(p) -> Range(p)]
    BY <1>3, <2>1
  <2> QED
    BY <2>1, <2>2, SeqDef
<1> QED
  BY <1>2, <1>3, <1>4 DEF p

(* What the mutants were the first to reach, after what is known.          *)
News(base, seen, mutants) ==
    /\ seen = base \union UNION {mutants[k].new : k \in DOMAIN mutants}
    /\ \A k \in DOMAIN mutants :
          /\ mutants[k].new # {} /\ mutants[k].new \intersect base = {}
          /\ \A j \in 1..(k - 1) : mutants[j].new \intersect mutants[k].new = {}

LEMMA NewsGrow ==
    ASSUME NEW base, NEW seen, NEW mutants, mutants \in Seq(Range(mutants)), News(base, seen, mutants),
           NEW m, m.new # {}, m.new \intersect seen = {}
    PROVE  News(base, seen \union m.new, Append(mutants, m))
<1> DEFINE more == Append(mutants, m)
           n == Len(mutants)
<1>1. /\ n \in Nat /\ DOMAIN mutants = 1..n /\ DOMAIN more = 1..(n + 1)
      /\ \A k \in 1..n : more[k] = mutants[k]
      /\ more[n + 1] = m
  BY AppendOwn
<1>2. seen = base \union UNION {mutants[k].new : k \in 1..n}
  BY <1>1 DEF News
<1>3. \A k \in 1..n : mutants[k].new \subseteq seen
  BY <1>2
<1> HIDE DEF more, n
<1>4. seen \union m.new = base \union UNION {more[k].new : k \in 1..(n + 1)}
  <2>1. ASSUME NEW a \in seen \union m.new PROVE a \in base \union UNION {more[k].new : k \in 1..(n + 1)}
    <3>1. CASE a \in m.new
      <4>1. n + 1 \in 1..(n + 1)
        BY <1>1
      <4> QED
        BY <1>1, <3>1, <4>1
    <3>2. CASE a \in base
      BY <3>2
    <3>3. CASE a \in UNION {mutants[k].new : k \in 1..n}
      <4>1. PICK k \in 1..n : a \in mutants[k].new
        BY <3>3
      <4>2. k \in 1..(n + 1)
        BY <1>1
      <4> QED
        BY <1>1, <4>1, <4>2
    <3> QED
      BY <1>2, <2>1, <3>1, <3>2, <3>3
  <2>2. ASSUME NEW k \in 1..(n + 1) PROVE more[k].new \subseteq seen \union m.new
    <3>1. k \in 1..n \/ k = n + 1
      BY <1>1
    <3> QED
      BY <1>1, <1>3, <3>1
  <2>3. base \subseteq seen
    BY <1>2
  <2> QED
    BY <2>1, <2>2, <2>3
<1>5. ASSUME NEW k \in 1..(n + 1)
      PROVE  /\ more[k].new # {} /\ more[k].new \intersect base = {}
             /\ \A j \in 1..(k - 1) : more[j].new \intersect more[k].new = {}
  <2>1. CASE k \in 1..n
    <3>1. \A j \in 1..(k - 1) : j \in 1..n
      BY <1>1
    <3> QED
      BY <1>1, <2>1, <3>1 DEF News
  <2>2. CASE k = n + 1
    <3>1. \A j \in 1..(k - 1) : j \in 1..n
      BY <1>1, <2>2
    <3>2. base \subseteq seen
      BY <1>2
    <3> QED
      BY <1>1, <1>3, <2>2, <3>1, <3>2
  <2> QED
    BY <1>1, <2>1, <2>2
<1> QED
  BY <1>1, <1>4, <1>5 DEF News, more

(* The turns of the targets that are left, each there once.                *)
Turned(todo, turns) ==
    \A i, j \in DOMAIN todo :
        i < j => todo[i] # todo[j] /\ turns[todo[i]] \in {turns[todo[j]], turns[todo[j]] - 1}

LEMMA TurnsDrop ==
    ASSUME NEW T, NEW todo \in Seq(T), todo # <<>>, NEW turns, Turned(todo, turns)
    PROVE  Tail(todo) \in Seq(T) /\ Turned(Tail(todo), turns) /\ Range(todo) = Range(Tail(todo)) \union {Head(todo)}
<1> DEFINE n == Len(todo)
           rest == Tail(todo)
<1>1. /\ n \in Nat \ {0} /\ DOMAIN todo = 1..n /\ Head(todo) = todo[1]
      /\ rest \in Seq(T) /\ DOMAIN rest = 1..(n - 1) /\ \A k \in 1..(n - 1) : rest[k] = todo[k + 1]
  <2>1. Len(todo) \in Nat \ {0} /\ DOMAIN todo = 1..Len(todo) /\ Head(todo) = todo[1]
    BY EmptySeq, LenProperties
  <2>2. rest \in Seq(T) /\ Len(rest) = Len(todo) - 1 /\ \A k \in 1..Len(rest) : rest[k] = todo[k + 1]
    BY HeadTailProperties
  <2>3. DOMAIN rest = 1..Len(rest)
    BY <2>2, LenProperties
  <2> HIDE DEF rest
  <2> QED
    BY <2>1, <2>2, <2>3
<1> HIDE DEF rest, n
<1>2. Turned(rest, turns)
  <2> SUFFICES ASSUME NEW i \in 1..(n - 1), NEW j \in 1..(n - 1), i < j
               PROVE  rest[i] # rest[j] /\ turns[rest[i]] \in {turns[rest[j]], turns[rest[j]] - 1}
    BY <1>1 DEF Turned
  <2>1. i + 1 \in 1..n /\ j + 1 \in 1..n /\ i + 1 < j + 1
    BY <1>1
  <2>2. todo[i + 1] # todo[j + 1] /\ turns[todo[i + 1]] \in {turns[todo[j + 1]], turns[todo[j + 1]] - 1}
    BY <1>1, <2>1 DEF Turned
  <2>3. rest[i] = todo[i + 1] /\ rest[j] = todo[j + 1]
    BY <1>1
  <2> QED
    BY <2>2, <2>3
<1>3. Range(todo) = Range(rest) \union {Head(todo)}
  <2>1. ASSUME NEW k \in 1..n PROVE todo[k] \in Range(rest) \union {Head(todo)}
    <3>1. CASE k = 1
      BY <1>1, <3>1
    <3>2. CASE k # 1
      <4>1. k - 1 \in 1..(n - 1) /\ (k - 1) + 1 = k
        BY <1>1, <3>2
      <4>2. rest[k - 1] = todo[k]
        BY <1>1, <4>1
      <4> QED
        BY <1>1, <4>1, <4>2 DEF Range
    <3> QED
      BY <3>1, <3>2
  <2>2. ASSUME NEW k \in 1..(n - 1) PROVE rest[k] \in Range(todo)
    <3>1. k + 1 \in 1..n
      BY <1>1
    <3> QED
      BY <1>1, <3>1 DEF Range
  <2>3. Head(todo) \in Range(todo)
    BY <1>1 DEF Range
  <2> QED
    BY <1>1, <2>1, <2>2, <2>3 DEF Range
<1> QED
  BY <1>1, <1>2, <1>3 DEF rest

LEMMA TurnsMove ==
    ASSUME NEW T, NEW todo \in Seq(T), todo # <<>>, NEW turns \in [T -> Nat], Turned(todo, turns)
    PROVE  /\ Append(Tail(todo), Head(todo)) \in Seq(T)
           /\ [turns EXCEPT ![Head(todo)] = @ + 1] \in [T -> Nat]
           /\ Turned(Append(Tail(todo), Head(todo)), [turns EXCEPT ![Head(todo)] = @ + 1])
           /\ Range(Append(Tail(todo), Head(todo))) = Range(todo)
<1> DEFINE t == Head(todo)
           rest == Tail(todo)
           n == Len(rest)
           next == Append(rest, t)
           more == [turns EXCEPT ![t] = @ + 1]
<1>1. /\ rest \in Seq(T) /\ Turned(rest, turns) /\ Range(todo) = Range(rest) \union {t} /\ t \in T
  BY TurnsDrop, HeadTailProperties
<1>2. /\ n \in Nat /\ DOMAIN rest = 1..n
      /\ \A k \in 1..n : rest[k] \in T /\ rest[k] # t /\ turns[t] \in {turns[rest[k]], turns[rest[k]] - 1}
  <2>1. /\ Len(todo) \in Nat \ {0} /\ DOMAIN todo = 1..Len(todo) /\ t = todo[1]
    BY EmptySeq, LenProperties
  <2>2. Len(rest) = Len(todo) - 1 /\ \A k \in 1..Len(rest) : rest[k] = todo[k + 1]
    BY HeadTailProperties
  <2>3. DOMAIN rest = 1..Len(rest) /\ \A k \in 1..Len(rest) : rest[k] \in T
    BY <1>1, LenProperties, ElementOfSeq
  <2> HIDE DEF rest, t
  <2>4. ASSUME NEW k \in 1..n PROVE todo[1] # todo[k + 1] /\ turns[todo[1]] \in {turns[todo[k + 1]], turns[todo[k + 1]] - 1}
    <3>1. 1 \in 1..Len(todo) /\ k + 1 \in 1..Len(todo) /\ 1 < k + 1
      BY <2>1, <2>2
    <3> QED
      BY <2>1, <3>1 DEF Turned
  <2> QED
    BY <2>1, <2>2, <2>3, <2>4
<1>3. more \in [T -> Nat] /\ more[t] = turns[t] + 1 /\ \A u \in T : u # t => more[u] = turns[u]
  BY <1>1
<1>4. /\ next \in Seq(T) /\ DOMAIN next = 1..(n + 1)
      /\ \A k \in 1..n : next[k] = rest[k]
      /\ next[n + 1] = t
  <2>1. next \in Seq(T) /\ Len(next) = n + 1 /\ \A k \in 1..n : next[k] = rest[k]
    BY <1>1
  <2>2. next[n + 1] = t
    BY <1>1
  <2>3. DOMAIN next = 1..Len(next)
    BY <2>1, LenProperties
  <2> HIDE DEF next, n
  <2> QED
    BY <2>1, <2>2, <2>3
<1> HIDE DEF rest, t, next, more, n
<1>5. Turned(next, more)
  <2> SUFFICES ASSUME NEW i \in 1..(n + 1), NEW j \in 1..(n + 1), i < j
               PROVE  next[i] # next[j] /\ more[next[i]] \in {more[next[j]], more[next[j]] - 1}
    BY <1>4 DEF Turned
  <2>1. i \in 1..n /\ next[i] = rest[i] /\ more[rest[i]] = turns[rest[i]]
    BY <1>2, <1>3, <1>4
  <2>2. CASE j \in 1..n
    <3>1. next[j] = rest[j] /\ more[rest[j]] = turns[rest[j]]
      BY <1>2, <1>3, <1>4, <2>2
    <3>2. i \in DOMAIN rest /\ j \in DOMAIN rest
      BY <1>2, <2>1, <2>2
    <3>3. rest[i] # rest[j] /\ turns[rest[i]] \in {turns[rest[j]], turns[rest[j]] - 1}
      BY <1>1, <3>2 DEF Turned
    <3> QED
      BY <2>1, <3>1, <3>3
  <2>3. CASE j = n + 1
    <3>1. next[j] = t /\ turns[t] \in Nat /\ turns[rest[i]] \in Nat
      BY <1>1, <1>2, <1>4, <2>1, <2>3
    <3> QED
      BY <1>2, <1>3, <2>1, <3>1
  <2> QED
    BY <1>2, <2>2, <2>3
<1>6. Range(next) = Range(todo)
  <2>1. ASSUME NEW k \in 1..(n + 1) PROVE next[k] \in Range(rest) \union {t}
    <3>1. k \in 1..n \/ k = n + 1
      BY <1>2
    <3> QED
      BY <1>2, <1>4, <3>1 DEF Range
  <2>2. ASSUME NEW k \in 1..n PROVE rest[k] \in Range(next)
    <3>1. k \in 1..(n + 1)
      BY <1>2
    <3> QED
      BY <1>4, <3>1 DEF Range
  <2>3. t \in Range(next)
    <3>1. n + 1 \in 1..(n + 1)
      BY <1>2
    <3> QED
      BY <1>4, <3>1 DEF Range
  <2>4. Range(next) \subseteq Range(rest) \union {t}
    BY <1>4, <2>1 DEF Range
  <2>5. Range(rest) \subseteq Range(next)
    BY <1>2, <2>2 DEF Range
  <2> QED
    BY <1>1, <2>3, <2>4, <2>5
<1> QED
  BY <1>3, <1>4, <1>5, <1>6 DEF rest, t, next, more

(* No candidate is left once none can be picked.                           *)
LEMMA Exhausted ==
    ASSUME NEW gen, DOMAIN gen.first \subseteq Nat, NEW tried, Picks(gen, tried) = {}
    PROVE  Mutations(gen) \subseteq tried
<1>1. Untried(gen, tried) = {}
  <2> SUFFICES ASSUME Untried(gen, tried) # {} PROVE FALSE
    OBVIOUS
  <2>1. Untried(gen, tried) \in SUBSET Nat
    BY DEF Untried
  <2>2. PICK n \in Untried(gen, tried) : \A j \in Untried(gen, tried) : n <= j
    BY <2>1, LeastOf
  <2>3. gen.first[n] \in Picks(gen, tried)
    BY <2>2 DEF Picks
  <2> QED
    BY <2>3
<1>2. gen.rest \ tried = {}
  BY <1>1 DEF Picks
<1> QED
  BY <1>1, <1>2 DEF Untried, Mutations, Range

(* What is known of an exercise x: no target is dropped that was not       *)
(* reached and has a candidate left.                                       *)
Long(mutants) == \A k \in DOMAIN mutants : mutants[k].frames >= mutants[k].target.frame
NoneLost(f, todo, seen, tried) ==
    \A t \in Targets(f) : t \in Range(todo) \/ t.name \in seen \/ Mutations(f.gen[t.name]) \subseteq tried
Exercising(x) ==
    /\ DOMAIN x = {"f", "todo", "seen", "tried", "mutants", "turns"}
    /\ x.f \in Fuzzes /\ x.todo \in Seq(Targets(x.f)) /\ x.turns \in [Targets(x.f) -> Nat]
    /\ Turned(x.todo, x.turns)
    /\ x.mutants \in Seq(Range(x.mutants)) /\ News(covered(x.f.frames), x.seen, x.mutants)
    /\ Long(x.mutants)
    /\ IsFiniteSet(x.tried) /\ Cardinality(x.tried) <= x.f.budget
    /\ NoneLost(x.f, x.todo, x.seen, x.tried)

LEMMA ExBegins ==
    ASSUME NEW f \in Fuzzes, NEW x \in exercise(f)
    PROVE  Exercising(x)
<1> DEFINE T == Targets(f)
           c == Cardinality(T)
<1>1. PICK todo \in Sorted(T) :
        x = [f |-> f, todo |-> todo, seen |-> covered(f.frames), tried |-> {}, mutants |-> <<>>, turns |-> [t \in T |-> 0]]
  BY DEF exercise, Targets
<1>2. c \in Nat /\ f.budget \in Nat
  BY TargetsTyped, FuzzAssumption
<1>3. /\ todo \in [1..c -> T] /\ T = {todo[n] : n \in 1..c}
      /\ \A m, n \in 1..c : m < n => todo[m] # todo[n]
  BY DEF Sorted
<1> HIDE DEF T, c
<1>4. todo \in Seq(T)
  BY <1>2, <1>3, SeqDef
<1>5. Turned(todo, x.turns)
  <2> SUFFICES ASSUME NEW i \in 1..c, NEW j \in 1..c, i < j
               PROVE  todo[i] # todo[j] /\ x.turns[todo[i]] \in {x.turns[todo[j]], x.turns[todo[j]] - 1}
    BY <1>3 DEF Turned
  <2>1. todo[i] \in T /\ todo[j] \in T
    BY <1>3
  <2>2. x.turns[todo[i]] = 0 /\ x.turns[todo[j]] = 0
    BY <1>1, <2>1
  <2> QED
    BY <1>3, <2>2
<1>6. <<>> \in Seq(Range(<<>>)) /\ DOMAIN <<>> = {}
  BY EmptySeq
<1>7. /\ DOMAIN x = {"f", "todo", "seen", "tried", "mutants", "turns"} /\ x.f = f /\ x.todo = todo
      /\ x.seen = covered(f.frames) /\ x.tried = {} /\ x.mutants = <<>> /\ x.turns \in [T -> Nat]
  BY <1>1
<1>8. News(covered(f.frames), x.seen, x.mutants) /\ Long(x.mutants)
  BY <1>6, <1>7 DEF News, Long
<1>9. NoneLost(f, todo, x.seen, x.tried)
  BY <1>3 DEF NoneLost, Range, T
<1>10. IsFiniteSet({}) /\ Cardinality({}) <= f.budget
  BY <1>2, FS_EmptySet
<1> QED
  BY <1>4, <1>5, <1>6, <1>7, <1>8, <1>9, <1>10 DEF Exercising, T

(* A target is dropped.                                                    *)
LEMMA ExDrops ==
    ASSUME NEW x, Exercising(x), x.todo # <<>>, Done(x)
    PROVE  Exercising(Dropped(x))
<1> DEFINE next == Dropped(x)
           t == Head(x.todo)
<1>1. /\ DOMAIN x = {"f", "todo", "seen", "tried", "mutants", "turns"}
      /\ x.f \in Fuzzes /\ x.todo \in Seq(Targets(x.f)) /\ Turned(x.todo, x.turns)
  BY DEF Exercising
<1>2. /\ DOMAIN next = {"f", "todo", "seen", "tried", "mutants", "turns"}
      /\ next.f = x.f /\ next.todo = Tail(x.todo) /\ next.seen = x.seen /\ next.tried = x.tried
      /\ next.mutants = x.mutants /\ next.turns = x.turns
  BY <1>1 DEF Dropped
<1>3. /\ next.todo \in Seq(Targets(x.f)) /\ Turned(next.todo, x.turns)
      /\ Range(x.todo) = Range(next.todo) \union {t}
  BY <1>1, <1>2, TurnsDrop
<1>4. t.name \in x.seen \/ Mutations(x.f.gen[t.name]) \subseteq x.tried
  <2>1. t \in Targets(x.f)
    BY <1>1, HeadTailProperties
  <2>2. t.name \in gaps(x.f.frames, x.f.universe)
    BY <1>1, <2>1, TargetsTyped
  <2>3. DOMAIN x.f.gen[t.name].first \subseteq Nat
    BY <1>1, <2>2, FuzzAssumption
  <2>4. t.name \in x.seen \/ Picks(x.f.gen[t.name], x.tried) = {}
    BY DEF Done
  <2> QED
    BY <2>3, <2>4, Exhausted
<1> HIDE DEF next, t
<1>5. NoneLost(x.f, next.todo, x.seen, x.tried)
  BY <1>3, <1>4 DEF NoneLost, Exercising
<1> QED
  BY <1>2, <1>3, <1>5 DEF Exercising, next

(* A mutation is tried for the first target.                               *)
LEMMA ExTries ==
    ASSUME NEW x, Exercising(x), Trying(x), NEW pick, NEW reached, NEW fails \in BOOLEAN, NEW wrong \in BOOLEAN
    PROVE  Exercising(Tried(x, pick, reached, fails, wrong))
<1> DEFINE next == Tried(x, pick, reached, fails, wrong)
           t == Head(x.todo)
           new == reached \ x.seen
           mutant == [patch |-> pick, target |-> t, frames |-> Length(x.f, t), hit |-> t.name \in new,
                      new |-> new, diverges |-> Departs(x.f, fails, wrong)]
           mutants == IF new # {} THEN Append(x.mutants, mutant) ELSE x.mutants
           base == covered(x.f.frames)
<1>1. /\ x.f \in Fuzzes /\ x.todo \in Seq(Targets(x.f)) /\ x.todo # <<>> /\ x.turns \in [Targets(x.f) -> Nat]
      /\ Turned(x.todo, x.turns) /\ x.mutants \in Seq(Range(x.mutants)) /\ News(base, x.seen, x.mutants)
      /\ Long(x.mutants) /\ IsFiniteSet(x.tried) /\ Cardinality(x.tried) < x.f.budget
      /\ NoneLost(x.f, x.todo, x.seen, x.tried)
  BY DEF Exercising, Trying
<1>2. /\ DOMAIN next = {"f", "todo", "seen", "tried", "mutants", "turns"}
      /\ next.f = x.f /\ next.todo = Append(Tail(x.todo), t) /\ next.seen = x.seen \union new
      /\ next.tried = x.tried \union {pick} /\ next.mutants = mutants
      /\ next.turns = [x.turns EXCEPT ![t] = @ + 1]
  BY DEF Tried, IsNew
<1>3. /\ next.todo \in Seq(Targets(x.f)) /\ next.turns \in [Targets(x.f) -> Nat]
      /\ Turned(next.todo, next.turns) /\ Range(next.todo) = Range(x.todo)
  <2>1. /\ Append(Tail(x.todo), Head(x.todo)) \in Seq(Targets(x.f))
        /\ [x.turns EXCEPT ![Head(x.todo)] = @ + 1] \in [Targets(x.f) -> Nat]
        /\ Turned(Append(Tail(x.todo), Head(x.todo)), [x.turns EXCEPT ![Head(x.todo)] = @ + 1])
        /\ Range(Append(Tail(x.todo), Head(x.todo))) = Range(x.todo)
    BY <1>1, TurnsMove
  <2>2. next.todo = Append(Tail(x.todo), Head(x.todo)) /\ next.turns = [x.turns EXCEPT ![Head(x.todo)] = @ + 1]
    BY <1>2
  <2> HIDE DEF next
  <2> QED
    BY <2>1, <2>2
<1>4. IsFiniteSet(next.tried) /\ Cardinality(next.tried) <= x.f.budget
  <2>1. IsFiniteSet(next.tried) /\ Cardinality(next.tried) <= Cardinality(x.tried) + 1
    <3>1. Cardinality(x.tried) \in Nat
      BY <1>1, FS_CardinalityType
    <3>2. /\ IsFiniteSet(x.tried \union {pick})
          /\ Cardinality(x.tried \union {pick})
                = IF pick \in x.tried THEN Cardinality(x.tried) ELSE Cardinality(x.tried) + 1
      BY <1>1, FS_AddElement
    <3>3. next.tried = x.tried \union {pick}
      BY <1>2
    <3> HIDE DEF next
    <3> QED
      BY <3>1, <3>2, <3>3
  <2>2. Cardinality(x.tried) \in Nat /\ Cardinality(next.tried) \in Nat /\ x.f.budget \in Nat
    BY <1>1, <2>1, FS_CardinalityType, FuzzAssumption
  <2> HIDE DEF next
  <2> QED
    BY <1>1, <2>1, <2>2
<1>5. NoneLost(x.f, next.todo, next.seen, next.tried)
  BY <1>1, <1>2, <1>3 DEF NoneLost
<1>6. mutant.new = new /\ mutant.frames = Length(x.f, t) /\ mutant.target = t
  OBVIOUS
<1>7. Length(x.f, t) >= t.frame
  <2>1. t \in Targets(x.f)
    BY <1>1, HeadTailProperties
  <2>2. t.frame \in 1..Len(x.f.frames)
    BY <1>1, <2>1, TargetsTyped
  <2>3. x.f.margin \in Nat /\ x.f.frames \in Seq(SUBSET Int)
    BY <1>1, FuzzAssumption
  <2>4. Len(x.f.frames) \in Nat
    BY <2>3, LenProperties
  <2> QED
    BY <2>2, <2>3, <2>4, LeadAssumption DEF Length, Least
<1> HIDE DEF mutant, t
<1>8. mutants \in Seq(Range(mutants)) /\ News(base, x.seen \union new, mutants) /\ Long(mutants)
  <2>1. CASE new = {}
    <3>1. mutants = x.mutants /\ x.seen \union new = x.seen
      BY <2>1
    <3> QED
      BY <1>1, <3>1
  <2>2. CASE new # {}
    <3>1. mutants = Append(x.mutants, mutant) /\ new \intersect x.seen = {}
      BY <2>2
    <3>2. /\ mutants \in Seq(Range(mutants)) /\ DOMAIN x.mutants = 1..Len(x.mutants) /\ Len(x.mutants) \in Nat
          /\ DOMAIN mutants = 1..(Len(x.mutants) + 1)
          /\ \A k \in 1..Len(x.mutants) : mutants[k] = x.mutants[k]
          /\ mutants[Len(x.mutants) + 1] = mutant
      <4>1. /\ Append(x.mutants, mutant) \in Seq(Range(Append(x.mutants, mutant)))
            /\ Len(x.mutants) \in Nat /\ DOMAIN x.mutants = 1..Len(x.mutants)
            /\ DOMAIN Append(x.mutants, mutant) = 1..(Len(x.mutants) + 1)
            /\ \A k \in 1..Len(x.mutants) : Append(x.mutants, mutant)[k] = x.mutants[k]
            /\ Append(x.mutants, mutant)[Len(x.mutants) + 1] = mutant
        BY <1>1, AppendOwn
      <4> HIDE DEF mutants, new
      <4> QED
        BY <3>1, <4>1
    <3> HIDE DEF mutants, new
    <3>3. News(base, x.seen \union new, mutants)
      BY <1>1, <1>6, <2>2, <3>1, NewsGrow
    <3>4. ASSUME NEW k \in 1..(Len(x.mutants) + 1) PROVE mutants[k].frames >= mutants[k].target.frame
      <4>1. CASE k \in 1..Len(x.mutants)
        BY <1>1, <3>2, <4>1 DEF Long
      <4>2. CASE k = Len(x.mutants) + 1
        BY <1>6, <1>7, <3>2, <4>2
      <4> QED
        BY <3>2, <4>1, <4>2
    <3> QED
      BY <3>2, <3>3, <3>4 DEF Long
  <2> QED
    BY <2>1, <2>2
<1> HIDE DEF next, mutants, new, base
<1> QED
  BY <1>1, <1>2, <1>3, <1>4, <1>5, <1>8 DEF Exercising, next, base

ExInv == s.area = "exercise" => Exercising(s.x)

LEMMA ExStays ==
    /\ StudiesInit => ExInv
    /\ ExInv /\ [StudiesNext]_s => ExInv'
<1>1. ASSUME StudiesInit PROVE ExInv
  <2>1. ASSUME SurveyInit \/ TablesInit \/ CacheInit \/ ManifestInit PROVE s.area # "exercise"
    BY <2>1 DEF SurveyInit, TablesInit, CacheInit, ManifestInit
  <2>2. ASSUME NEW f \in Fuzzes, NEW x \in exercise(f), s = [area |-> "exercise", x |-> x] PROVE ExInv
    BY <2>2, ExBegins DEF ExInv
  <2>3. ASSUME NEW k, s = [area |-> "minimise", r |-> k, m |-> minimise(Reductions[k])] PROVE ExInv
    BY <2>3 DEF ExInv
  <2> QED
    BY <1>1, <2>1, <2>2, <2>3, HistoryApart DEF StudiesInit, FuzzInit, ExInv
<1>2. ASSUME ExInv, [StudiesNext]_s PROVE ExInv'
  <2>1. CASE UNCHANGED s
    BY <1>2, <2>1 DEF ExInv
  <2>2. CASE SurveyStep \/ SurveyDies \/ CacheStep
    <3>1. s'.area # "exercise"
      BY <2>2, OtherSteps
    <3> QED
      BY <3>1 DEF ExInv
  <2>3. CASE MinimiseStep
    BY <2>3 DEF MinimiseStep, Minimises, ExInv
  <2>4. ASSUME NEW x, s.area = "exercise", Exercising(x), s' = [area |-> "exercise", x |-> x] PROVE ExInv'
    BY <2>4 DEF ExInv
  <2>5. CASE TargetDropped
    BY <1>2, <2>4, <2>5, ExDrops DEF TargetDropped, ExInv, Trying
  <2>6. CASE MutationTried
    <3>1. PICK pick \in Picks(s.x.f.gen[Head(s.x.todo).name], s.x.tried), reached \in SUBSET s.x.f.features,
               fails \in BOOLEAN, wrong \in BOOLEAN :
             s' = [area |-> "exercise", x |-> Tried(s.x, pick, reached, fails, wrong)]
      BY <2>6 DEF MutationTried
    <3> QED
      BY <1>2, <2>4, <2>6, <3>1, ExTries DEF MutationTried, ExInv
  <2>7. CASE HistoryStep
    BY <2>7, HistoryApart DEF ExInv
  <2> QED
    BY <1>2, <2>1, <2>2, <2>3, <2>5, <2>6, <2>7 DEF StudiesNext, FuzzStep
<1> QED
  BY <1>1, <1>2

LEMMA ExHolds == ExInv => ExerciseTrue
<1> SUFFICES ASSUME ExInv, s.area = "exercise" PROVE ExerciseTrue
  BY DEF ExerciseTrue
<1> DEFINE x == s.x
<1>1. Exercising(x)
  BY DEF ExInv
<1> HIDE DEF x
<1>2. News(covered(x.f.frames), x.seen, x.mutants) /\ Long(x.mutants) /\ Cardinality(x.tried) <= x.f.budget
  BY <1>1 DEF Exercising
<1>3. \A i, j \in DOMAIN x.todo : i < j => x.turns[x.todo[i]] \in {x.turns[x.todo[j]], x.turns[x.todo[j]] - 1}
  BY <1>1 DEF Exercising, Turned
<1>4. \A t \in targets(x.f.frames, x.f.universe) :
         t \in Range(x.todo) \/ t.name \in x.seen \/ Mutations(x.f.gen[t.name]) \subseteq x.tried
  BY <1>1 DEF Exercising, NoneLost, Targets
<1> QED
  BY <1>2, <1>3, <1>4 DEF ExerciseTrue, News, Long, x

(* Each new path is kept once, no target waits two turns for another, and  *)
(* none is dropped that was not reached and has a candidate left; what is  *)
(* minimised still shows its fault and nothing can be left out of it, and  *)
(* no frame if a longer run shows what a shorter one does (pathfuzz.py).   *)
THEOREM FuzzIsTrue == StudiesSpec => []FuzzTrue
<1>1. StudiesInit => ExInv /\ MinInv
  BY ExStays, MinStays
<1>2. ExInv /\ MinInv /\ [StudiesNext]_s => ExInv' /\ MinInv'
  BY ExStays, MinStays
<1>3. ExInv /\ MinInv => FuzzTrue
  BY ExHolds, MinHolds DEF FuzzTrue
<1> QED
  BY <1>1, <1>2, <1>3, PTL DEF StudiesSpec

-----------------------------------------------------------------------------
(* The tracer of Python code, and the program that it traces.              *)
(* Activations are where the stack and the statements that they execute say. *)
LiveOn(t, w) ==
    /\ w.begun \in Nat /\ DOMAIN w.at \subseteq 1..w.begun
    /\ DOMAIN t.frames = {a \in DOMAIN w.at : w.at[a].how # "yielded"}
    /\ w.stack \in Seq(Nat)
    /\ \A m \in DOMAIN w.stack : w.stack[m] # 0 =>
          /\ w.stack[m] \in DOMAIN t.frames
          /\ \A n \in DOMAIN w.stack : w.stack[n] = w.stack[m] => n = m

DoingOn(t, w) ==
    \A a \in DOMAIN w.at :
        LET d == w.at[a] IN
        /\ d.stmt \in Code \union {NoStatement} /\ d.event \in 0..Len(t.events)
        /\ d.event # 0 => \A b \in DOMAIN w.at : d.event = w.at[b].event => b = a
        /\ d.how = "runs" /\ d.event = 0 => d.stmt.sets = {}
        /\ d.how = "runs" /\ d.event # 0 =>
              /\ d.stmt.fresh => d.event \in t.fresh
              /\ \A c \in Containers : w.heap[c] # d.event

FramesOn(t, w) ==
    \A a \in DOMAIN t.frames :
        LET f == t.frames[a] IN
        /\ f.serial \in 1..Len(t.events)
        /\ \A b \in DOMAIN t.frames : f.serial = t.frames[b].serial => b = a
        /\ f.pending # 0 => f.pending = w.at[a].event /\ f.stmt = w.at[a].stmt
        /\ w.at[a].how = "runs" => f.pending = w.at[a].event

IsSeq(q) == \E S : q \in Seq(S)
Sized(t, w) ==
    /\ Len(t.events) \in Nat /\ IsSeq(t.events)
    /\ DOMAIN w.heap = Containers /\ \A c \in Containers : w.heap[c] \in 0..Len(t.events)
    /\ \A k \in DOMAIN t.last : k[1] = "L" => k[2] \in 1..Len(t.events)
    /\ \A k \in DOMAIN w.origin : k[1] = "L" => k[2] \in 1..w.begun

GlobalsAgree(t, w) ==
    \A k \in (DOMAIN t.last \union DOMAIN w.origin) \ w.unsure :
        k[1] # "L" => k \in DOMAIN t.last /\ k \in DOMAIN w.origin /\ t.last[k] = w.origin[k]
LocalsAgree(t, w) ==
    \A a \in DOMAIN t.frames, x \in Locals :
        LET own == <<"L", a, x>>
            key == <<"L", t.frames[a].serial, x>>
        IN  own \notin w.unsure =>
              /\ own \in DOMAIN w.origin <=> key \in DOMAIN t.last
              /\ own \in DOMAIN w.origin => t.last[key] = w.origin[own]
FreshKnown(t, w) ==
    \A c \in Containers :
        LET k == <<"A", 0, c>>
        IN  k \notin w.unsure /\ k \in DOMAIN w.origin /\ w.heap[c] = w.origin[k] => w.origin[k] \in t.fresh

HistoryOK(t, w) ==
    /\ LiveOn(t, w) /\ DoingOn(t, w) /\ FramesOn(t, w) /\ Sized(t, w)
    /\ GlobalsAgree(t, w) /\ LocalsAgree(t, w) /\ FreshKnown(t, w)

LEMMA OnStack ==
    ASSUME NEW t, NEW w, HistoryOK(t, w)
    PROVE  LiveOn(t, w) /\ w.stack \in Seq(Nat)
<1>1. LiveOn(t, w)
  BY DEF HistoryOK
<1> QED
  BY <1>1 DEF LiveOn

LEMMA WithOn ==
    ASSUME NEW f, NEW a, NEW v
    PROVE  /\ DOMAIN With(f, a, v) = {a} \union DOMAIN f /\ With(f, a, v)[a] = v
           /\ \A b \in DOMAIN f : b # a => With(f, a, v)[b] = f[b]
  BY DEF With

LEMMA WithoutOn ==
    ASSUME NEW f, NEW a
    PROVE  /\ DOMAIN Without(f, a) = DOMAIN f \ {a}
           /\ \A b \in DOMAIN f \ {a} : Without(f, a)[b] = f[b]
  BY DEF Without

LEMMA MarkOn ==
    ASSUME NEW keys, NEW e, NEW f
    PROVE  /\ DOMAIN Mark(keys, e, f) = keys \union DOMAIN f
           /\ \A k \in keys : Mark(keys, e, f)[k] = e
           /\ \A k \in DOMAIN f \ keys : Mark(keys, e, f)[k] = f[k]
  BY DEF Mark

Keys(serial, heap, names) == {_key(serial, heap, n) : n \in names}

LEMMA NamesAre ==
    ASSUME NEW n \in Names
    PROVE  /\ n.is \in {"N", "A", "S"}
           /\ n.is = "N" => n = Local(n.of) /\ n.of \in Locals
           /\ n.is = "A" => n = Attribute(n.of) /\ n.of \in Attributes
           /\ n.is = "S" => n.of \in Containers
<1>1. CASE \E x \in Locals : n = Local(x)
  <2>1. PICK x \in Locals : n = Local(x)
    BY <1>1
  <2> QED
    BY <2>1 DEF Local
<1>2. CASE \E v \in Attributes : n = Attribute(v)
  <2>1. PICK v \in Attributes : n = Attribute(v)
    BY <1>2
  <2> QED
    BY <2>1 DEF Attribute
<1>3. CASE \E ci \in Containers \X Indices : n = Item(ci[1], ci[2])
  <2>1. PICK ci \in Containers \X Indices : n = Item(ci[1], ci[2])
    BY <1>3
  <2> QED
    BY <2>1 DEF Item
<1> QED
  BY <1>1, <1>2, <1>3 DEF Names

LEMMA KeysAre ==
    ASSUME NEW serial, NEW heap, NEW names \in SUBSET Names
    PROVE  /\ \A b, x : <<"L", b, x>> \in Keys(serial, heap, names) <=> b = serial /\ Local(x) \in names
           /\ \A k \in Keys(serial, heap, names) :
                 k[1] = "L" => \E x \in Locals : k = <<"L", serial, x>> /\ Local(x) \in names
           /\ \A c : <<"A", 0, c>> \in Keys(serial, heap, names) <=> Attribute(c) \in names
           /\ \A other, k : k[1] # "L" => (k \in Keys(serial, heap, names) <=> k \in Keys(other, heap, names))
<1>1. ASSUME NEW b, NEW x, <<"L", b, x>> \in Keys(serial, heap, names)
      PROVE  b = serial /\ Local(x) \in names
  <2>1. PICK n \in names : <<"L", b, x>> = _key(serial, heap, n)
    BY <1>1 DEF Keys
  <2>2. n.is = "N"
    BY <2>1, NamesAre DEF _key
  <2> QED
    BY <2>1, <2>2, NamesAre DEF _key
<1>2. ASSUME NEW x, Local(x) \in names
      PROVE  <<"L", serial, x>> \in Keys(serial, heap, names)
  <2>1. _key(serial, heap, Local(x)) = <<"L", serial, x>>
    BY DEF _key, Local
  <2> QED
    BY <1>2, <2>1 DEF Keys
<1>3. ASSUME NEW k \in Keys(serial, heap, names), k[1] = "L"
      PROVE  \E x \in Locals : k = <<"L", serial, x>> /\ Local(x) \in names
  <2>1. PICK n \in names : k = _key(serial, heap, n)
    BY <1>3 DEF Keys
  <2>2. n.is = "N"
    BY <1>3, <2>1, NamesAre DEF _key
  <2> QED
    BY <2>1, <2>2, NamesAre DEF _key
<1>4. ASSUME NEW c, <<"A", 0, c>> \in Keys(serial, heap, names)
      PROVE  Attribute(c) \in names
  <2>1. PICK n \in names : <<"A", 0, c>> = _key(serial, heap, n)
    BY <1>4 DEF Keys
  <2>2. n.is = "A"
    BY <2>1, NamesAre DEF _key
  <2> QED
    BY <2>1, <2>2, NamesAre DEF _key
<1>5. ASSUME NEW c, Attribute(c) \in names
      PROVE  <<"A", 0, c>> \in Keys(serial, heap, names)
  <2>1. _key(serial, heap, Attribute(c)) = <<"A", 0, c>>
    BY DEF _key, Attribute
  <2> QED
    BY <1>5, <2>1 DEF Keys
<1>6. ASSUME NEW one, NEW other, NEW k, k[1] # "L", k \in Keys(one, heap, names)
      PROVE  k \in Keys(other, heap, names)
  <2>1. PICK n \in names : k = _key(one, heap, n)
    BY <1>6 DEF Keys
  <2>2. _key(one, heap, n) = _key(other, heap, n)
    BY <1>6, <2>1, NamesAre DEF _key
  <2> QED
    BY <2>1, <2>2 DEF Keys
<1> QED
  BY <1>1, <1>2, <1>3, <1>4, <1>5, <1>6

(* The statement that an activation executes ends, and is stored,        *)
LEMMA SettleIs ==
    ASSUME NEW t, NEW heap, NEW a \in DOMAIN t.frames
    PROVE  LET u == _settle(t, heap, a)
               f == t.frames[a]
           IN  /\ u.events = t.events /\ u.fresh = t.fresh
               /\ DOMAIN u.frames = DOMAIN t.frames
               /\ u.frames[a].serial = f.serial /\ u.frames[a].pending = 0
               /\ \A b \in DOMAIN t.frames \ {a} : u.frames[b] = t.frames[b]
               /\ f.pending = 0 => u.last = t.last
               /\ f.pending # 0 => u.last = Mark(Keys(f.serial, heap, f.stmt.sets), f.pending, t.last)
<1>1. CASE t.frames[a].pending = 0
  BY <1>1 DEF _settle
<1>2. CASE t.frames[a].pending # 0
  <2> DEFINE f == t.frames[a]
             new == Frame(f.serial, 0, NoStatement, f.branch)
  <2>1. _settle(t, heap, a)
          = PyTrace(t.events, Mark(Keys(f.serial, heap, f.stmt.sets), f.pending, t.last), t.fresh,
                    With(t.frames, a, new))
    BY <1>2 DEF _settle, Keys
  <2>2. new.serial = f.serial /\ new.pending = 0
    BY DEF Frame
  <2>3. /\ DOMAIN With(t.frames, a, new) = DOMAIN t.frames /\ With(t.frames, a, new)[a] = new
        /\ \A b \in DOMAIN t.frames \ {a} : With(t.frames, a, new)[b] = t.frames[b]
    <3> HIDE DEF new
    <3> QED
      BY DEF With
  <2> HIDE DEF new
  <2> QED
    BY <1>2, <2>1, <2>2, <2>3 DEF PyTrace
<1> QED
  BY <1>1, <1>2

LEMMA AssignedIs ==
    ASSUME NEW w, NEW a, NEW obj
    PROVE  LET new == Assigned(w, a, obj)
               d == w.at[a]
               on == Keys(a, new.heap, d.stmt.sets)
           IN  /\ DOMAIN new.heap = Containers
               /\ \A c \in Containers :
                     new.heap[c] = IF Attribute(c) \in d.stmt.sets /\ d.how # "failed" THEN obj ELSE w.heap[c]
               /\ new.origin = IF d.how = "failed" THEN w.origin ELSE Mark(on, d.event, w.origin)
               /\ new.unsure = IF d.how = "runs" THEN w.unsure \ on ELSE w.unsure \union on
  BY DEF Assigned, Keys

LEMMA ObjectsAre ==
    ASSUME NEW w, NEW a, NEW obj \in Objects(w, a), DOMAIN w.heap = Containers
    PROVE  \/ \A c \in Containers : Attribute(c) \notin w.at[a].stmt.sets
           \/ obj = 0 \/ \E c \in Containers : obj = w.heap[c]
           \/ obj = w.at[a].event /\ w.at[a].stmt.fresh
  BY DEF Objects, Range

Settled(w, a, new) ==
    Program(w.stack, w.begun, With(w.at, a, Doing(NoStatement, 0, "runs")), new.heap, new.origin, new.unsure, w.came)

LEMMA SettledIs ==
    ASSUME NEW w, NEW a \in DOMAIN w.at, NEW new
    PROVE  LET v == Settled(w, a, new)
           IN  /\ v.stack = w.stack /\ v.begun = w.begun /\ v.heap = new.heap /\ v.origin = new.origin
               /\ v.unsure = new.unsure /\ DOMAIN v.at = DOMAIN w.at
               /\ v.at[a].stmt = NoStatement /\ v.at[a].event = 0 /\ v.at[a].how = "runs"
               /\ \A b \in DOMAIN w.at \ {a} : v.at[b] = w.at[b]
<1> DEFINE do == Doing(NoStatement, 0, "runs")
<1>1. do.stmt = NoStatement /\ do.event = 0 /\ do.how = "runs"
  BY DEF Doing
<1>2. /\ DOMAIN With(w.at, a, do) = DOMAIN w.at /\ With(w.at, a, do)[a] = do
      /\ \A b \in DOMAIN w.at \ {a} : With(w.at, a, do)[b] = w.at[b]
  <2> HIDE DEF do
  <2> QED
    BY DEF With
<1> HIDE DEF do
<1>3. Settled(w, a, new) = Program(w.stack, w.begun, With(w.at, a, do), new.heap, new.origin, new.unsure, w.came)
  BY DEF Settled, do
<1> QED
  BY <1>1, <1>2, <1>3 DEF Program

LEMMA StmtSets ==
    ASSUME NEW x \in Code \union {NoStatement}
    PROVE  x.sets \in SUBSET Names
  BY CodeAssumption DEF Statement, NoStatement

LEMMA Settles ==
    ASSUME NEW t, NEW w, HistoryOK(t, w), NEW a \in DOMAIN t.frames, NEW obj \in Objects(w, a)
    PROVE  LET new == Assigned(w, a, obj)
           IN  HistoryOK(_settle(t, new.heap, a), Settled(w, a, new))
<1> DEFINE new == Assigned(w, a, obj)
           u == _settle(t, new.heap, a)
           v == Settled(w, a, new)
           d == w.at[a]
           f == t.frames[a]
           sets == d.stmt.sets
           on == Keys(a, new.heap, sets)
           keys == Keys(f.serial, new.heap, sets)
           size == Len(t.events)
<1>1. a \in DOMAIN w.at /\ d.stmt \in Code \union {NoStatement} /\ d.event \in 0..size
  BY DEF HistoryOK, LiveOn, DoingOn
<1>2. sets \in SUBSET Names
  BY <1>1, StmtSets
<1>u. /\ u.events = t.events /\ u.fresh = t.fresh
      /\ DOMAIN u.frames = DOMAIN t.frames
      /\ u.frames[a].serial = f.serial /\ u.frames[a].pending = 0
      /\ \A b \in DOMAIN t.frames \ {a} : u.frames[b] = t.frames[b]
      /\ f.pending = 0 => u.last = t.last
      /\ f.pending # 0 => u.last = Mark(keys, d.event, t.last)
  <2>1. f.pending # 0 => f.pending = d.event /\ f.stmt = d.stmt
    BY DEF HistoryOK, FramesOn
  <2> HIDE DEF new
  <2> QED
    BY <2>1, SettleIs
<1>n. /\ DOMAIN new.heap = Containers
      /\ \A c \in Containers :
            new.heap[c] = IF Attribute(c) \in sets /\ d.how # "failed" THEN obj ELSE w.heap[c]
      /\ new.origin = IF d.how = "failed" THEN w.origin ELSE Mark(on, d.event, w.origin)
      /\ new.unsure = IF d.how = "runs" THEN w.unsure \ on ELSE w.unsure \union on
  BY DEF Assigned, Keys
<1>v. /\ v.stack = w.stack /\ v.begun = w.begun /\ v.heap = new.heap /\ v.origin = new.origin
      /\ v.unsure = new.unsure /\ DOMAIN v.at = DOMAIN w.at
      /\ v.at[a].stmt = NoStatement /\ v.at[a].event = 0 /\ v.at[a].how = "runs"
      /\ \A b \in DOMAIN w.at \ {a} : v.at[b] = w.at[b]
  <2> HIDE DEF new
  <2> QED
    BY <1>1, SettledIs
<1>o. \/ \A c \in Containers : Attribute(c) \notin sets
      \/ obj = 0 \/ \E c \in Containers : obj = w.heap[c]
      \/ obj = d.event /\ d.stmt.fresh
  BY ObjectsAre DEF HistoryOK, Sized
<1>k. /\ \A b, x : <<"L", b, x>> \in on <=> b = a /\ Local(x) \in sets
      /\ \A k \in on : k[1] = "L" => \E x \in Locals : k = <<"L", a, x>> /\ Local(x) \in sets
      /\ \A b, x : <<"L", b, x>> \in keys <=> b = f.serial /\ Local(x) \in sets
      /\ \A k \in keys : k[1] = "L" => \E x \in Locals : k = <<"L", f.serial, x>> /\ Local(x) \in sets
      /\ \A c : <<"A", 0, c>> \in on <=> Attribute(c) \in sets
      /\ \A k : k[1] # "L" => (k \in on <=> k \in keys)
  <2> HIDE DEF new, sets
  <2>1. /\ \A b, x : <<"L", b, x>> \in on <=> b = a /\ Local(x) \in sets
        /\ \A k \in on : k[1] = "L" => \E x \in Locals : k = <<"L", a, x>> /\ Local(x) \in sets
        /\ \A c : <<"A", 0, c>> \in on <=> Attribute(c) \in sets
        /\ \A other, k : k[1] # "L" => (k \in on <=> k \in Keys(other, new.heap, sets))
    BY <1>2, KeysAre
  <2>2. /\ \A b, x : <<"L", b, x>> \in keys <=> b = f.serial /\ Local(x) \in sets
        /\ \A k \in keys : k[1] = "L" => \E x \in Locals : k = <<"L", f.serial, x>> /\ Local(x) \in sets
    BY <1>2, KeysAre
  <2> QED
    BY <2>1, <2>2
<1>m. /\ f.pending # 0 =>
            /\ DOMAIN u.last = keys \union DOMAIN t.last
            /\ \A k \in keys : u.last[k] = d.event
            /\ \A k \in DOMAIN t.last \ keys : u.last[k] = t.last[k]
      /\ d.how # "failed" =>
            /\ DOMAIN new.origin = on \union DOMAIN w.origin
            /\ \A k \in on : new.origin[k] = d.event
            /\ \A k \in DOMAIN w.origin \ on : new.origin[k] = w.origin[k]
  <2> HIDE DEF new, u, on, keys
  <2>1. /\ DOMAIN Mark(keys, d.event, t.last) = keys \union DOMAIN t.last
        /\ \A k \in keys : Mark(keys, d.event, t.last)[k] = d.event
        /\ \A k \in DOMAIN t.last \ keys : Mark(keys, d.event, t.last)[k] = t.last[k]
    BY DEF Mark
  <2>2. /\ DOMAIN Mark(on, d.event, w.origin) = on \union DOMAIN w.origin
        /\ \A k \in on : Mark(on, d.event, w.origin)[k] = d.event
        /\ \A k \in DOMAIN w.origin \ on : Mark(on, d.event, w.origin)[k] = w.origin[k]
    BY DEF Mark
  <2> QED
    BY <2>1, <2>2, <1>u, <1>n
<1>r. d.how = "runs" => f.pending = d.event /\ (d.event = 0 => sets = {})
  BY <1>1 DEF HistoryOK, FramesOn, DoingOn
<1> HIDE DEF new, u, v, on, keys, sets
<1>3. LiveOn(u, v)
  <2>1. \A b \in DOMAIN w.at : v.at[b].how # "yielded" <=> w.at[b].how # "yielded"
    BY <1>v DEF HistoryOK, LiveOn
  <2> QED
    BY <2>1, <1>u, <1>v DEF HistoryOK, LiveOn
<1>4. DoingOn(u, v)
  <2> SUFFICES ASSUME NEW b \in DOMAIN w.at
      PROVE  /\ v.at[b].stmt \in Code \union {NoStatement} /\ v.at[b].event \in 0..size
             /\ v.at[b].event # 0 => \A e \in DOMAIN w.at : v.at[b].event = v.at[e].event => e = b
             /\ v.at[b].how = "runs" /\ v.at[b].event = 0 => v.at[b].stmt.sets = {}
             /\ v.at[b].how = "runs" /\ v.at[b].event # 0 =>
                   /\ v.at[b].stmt.fresh => v.at[b].event \in t.fresh
                   /\ \A c \in Containers : v.heap[c] # v.at[b].event
    BY <1>u, <1>v DEF DoingOn
  <2>1. CASE b = a
    BY <2>1, <1>v, <1>1 DEF NoStatement
  <2>2. CASE b # a
    <3>1. v.at[b] = w.at[b]
      BY <2>2, <1>v
    <3>2. /\ w.at[b].stmt \in Code \union {NoStatement} /\ w.at[b].event \in 0..size
          /\ w.at[b].event # 0 => \A e \in DOMAIN w.at : w.at[b].event = w.at[e].event => e = b
          /\ w.at[b].how = "runs" /\ w.at[b].event = 0 => w.at[b].stmt.sets = {}
          /\ w.at[b].how = "runs" /\ w.at[b].event # 0 =>
                /\ w.at[b].stmt.fresh => w.at[b].event \in t.fresh
                /\ \A c \in Containers : w.heap[c] # w.at[b].event
      BY DEF HistoryOK, DoingOn
    <3>3. ASSUME w.at[b].how = "runs", w.at[b].event # 0, NEW c \in Containers
          PROVE  v.heap[c] # w.at[b].event
      BY <3>2, <3>3, <2>2, <1>n, <1>o, <1>v, <1>1
    <3>4. ASSUME w.at[b].event # 0, NEW e \in DOMAIN w.at, w.at[b].event = v.at[e].event
          PROVE  e = b
      <4>1. CASE e = a
        BY <4>1, <3>4, <1>v
      <4>2. CASE e # a
        BY <4>2, <3>4, <3>2, <1>v
      <4> QED
        BY <4>1, <4>2
    <3> QED
      BY <3>1, <3>2, <3>3, <3>4
  <2> QED
    BY <2>1, <2>2
<1>5. FramesOn(u, v)
  <2> SUFFICES ASSUME NEW b \in DOMAIN t.frames
      PROVE  /\ u.frames[b].serial \in 1..size
             /\ \A e \in DOMAIN t.frames : u.frames[b].serial = u.frames[e].serial => e = b
             /\ u.frames[b].pending # 0 =>
                   u.frames[b].pending = v.at[b].event /\ u.frames[b].stmt = v.at[b].stmt
             /\ v.at[b].how = "runs" => u.frames[b].pending = v.at[b].event
    BY <1>u DEF FramesOn
  <2>1. \A e \in DOMAIN t.frames : u.frames[e].serial = t.frames[e].serial
    BY <1>u
  <2>2. b \in DOMAIN w.at
    BY DEF HistoryOK, LiveOn
  <2>3. /\ t.frames[b].serial \in 1..size
        /\ \A e \in DOMAIN t.frames : t.frames[b].serial = t.frames[e].serial => e = b
        /\ t.frames[b].pending # 0 => t.frames[b].pending = w.at[b].event /\ t.frames[b].stmt = w.at[b].stmt
        /\ w.at[b].how = "runs" => t.frames[b].pending = w.at[b].event
    BY DEF HistoryOK, FramesOn
  <2>4. CASE b = a
    BY <2>1, <2>3, <2>4, <1>u, <1>v
  <2>5. CASE b # a
    BY <2>1, <2>2, <2>3, <2>5, <1>u, <1>v
  <2> QED
    BY <2>4, <2>5
<1>6. Sized(u, v)
  <2>1. \A c \in Containers : v.heap[c] \in 0..size
    BY <1>n, <1>v, <1>o, <1>1 DEF HistoryOK, Sized
  <2>2. \A k \in DOMAIN u.last : k[1] = "L" => k[2] \in 1..size
    BY <1>u, <1>m, <1>k DEF HistoryOK, Sized, FramesOn
  <2>3. \A k \in DOMAIN new.origin : k[1] = "L" => k[2] \in 1..w.begun
    BY <1>n, <1>m, <1>k, <1>1 DEF HistoryOK, Sized, LiveOn
  <2> QED
    BY <2>1, <2>2, <2>3, <1>u, <1>v, <1>n DEF HistoryOK, Sized
<1>7. GlobalsAgree(u, v)
  <2> SUFFICES ASSUME NEW k \in (DOMAIN u.last \union DOMAIN new.origin) \ new.unsure, k[1] # "L"
      PROVE  k \in DOMAIN u.last /\ k \in DOMAIN new.origin /\ u.last[k] = new.origin[k]
    BY <1>v DEF GlobalsAgree
  <2>1. k \in on <=> k \in keys
    BY <1>k
  <2>2. k \in (DOMAIN t.last \union DOMAIN w.origin) \ w.unsure
          => k \in DOMAIN t.last /\ k \in DOMAIN w.origin /\ t.last[k] = w.origin[k]
    BY DEF HistoryOK, GlobalsAgree
  <2>3. CASE k \in on
    <3>1. d.how = "runs" /\ f.pending # 0
      BY <2>3, <1>n, <1>r, <1>k, KeysAre DEF on, Keys
    <3> QED
      BY <3>1, <2>1, <2>3, <1>m
  <2>4. CASE k \notin on
    BY <2>4, <2>1, <2>2, <1>m, <1>n, <1>u
  <2> QED
    BY <2>3, <2>4
<1>8. LocalsAgree(u, v)
  <2> SUFFICES ASSUME NEW b \in DOMAIN t.frames, NEW x \in Locals, <<"L", b, x>> \notin new.unsure
      PROVE  LET own == <<"L", b, x>>
                 key == <<"L", u.frames[b].serial, x>>
             IN  /\ own \in DOMAIN new.origin <=> key \in DOMAIN u.last
                 /\ own \in DOMAIN new.origin => u.last[key] = new.origin[own]
    BY <1>u, <1>v DEF LocalsAgree
  <2> DEFINE own == <<"L", b, x>>
             key == <<"L", t.frames[b].serial, x>>
  <2>1. u.frames[b].serial = t.frames[b].serial
    BY <1>u
  <2>2. own \in on <=> key \in keys
    BY <1>k DEF HistoryOK, FramesOn
  <2>3. own \notin w.unsure => /\ own \in DOMAIN w.origin <=> key \in DOMAIN t.last
                               /\ own \in DOMAIN w.origin => t.last[key] = w.origin[own]
    BY DEF HistoryOK, LocalsAgree
  <2> HIDE DEF own, key
  <2>4. CASE own \in on
    <3>1. d.how = "runs" /\ f.pending # 0
      BY <2>4, <1>n, <1>r, own \notin new.unsure DEF on, Keys, own
    <3> QED
      BY <3>1, <2>1, <2>2, <2>4, <1>m DEF own, key
  <2>5. CASE own \notin on
    <3>1. own \notin w.unsure
      BY <2>5, <1>n DEF own
    <3> QED
      BY <3>1, <2>1, <2>2, <2>3, <2>5, <1>m, <1>n, <1>u DEF own, key
  <2> QED
    BY <2>4, <2>5
<1>9. FreshKnown(u, v)
  <2> SUFFICES ASSUME NEW c \in Containers, <<"A", 0, c>> \notin new.unsure, <<"A", 0, c>> \in DOMAIN new.origin,
                      new.heap[c] = new.origin[<<"A", 0, c>>]
      PROVE  new.origin[<<"A", 0, c>>] \in t.fresh
    BY <1>u, <1>v DEF FreshKnown
  <2>1. <<"A", 0, c>> \in on <=> Attribute(c) \in sets
    BY <1>k
  <2>2. CASE Attribute(c) \in sets
    <3>1. d.how = "runs"
      BY <2>1, <2>2, <1>n
    <3>2. d.event # 0 /\ d.event = obj
      BY <3>1, <2>1, <2>2, <1>n, <1>m, <1>r
    <3>3. d.stmt.fresh => d.event \in t.fresh
      BY <3>1, <3>2, <1>1 DEF HistoryOK, DoingOn
    <3>4. \A e \in Containers : w.heap[e] # d.event
      BY <3>1, <3>2, <1>1 DEF HistoryOK, DoingOn
    <3> QED
      BY <3>1, <3>2, <3>3, <3>4, <2>1, <2>2, <1>m, <1>o DEF sets
  <2>3. CASE Attribute(c) \notin sets
    <3>1. <<"A", 0, c>> \notin w.unsure /\ <<"A", 0, c>> \in DOMAIN w.origin
            /\ w.heap[c] = w.origin[<<"A", 0, c>>] /\ new.origin[<<"A", 0, c>>] = w.origin[<<"A", 0, c>>]
      BY <2>1, <2>3, <1>n, <1>m
    <3> QED
      BY <3>1 DEF HistoryOK, FreshKnown
  <2> QED
    BY <2>2, <2>3
<1> QED
  BY <1>3, <1>4, <1>5, <1>6, <1>7, <1>8, <1>9 DEF HistoryOK, new, u, v

(* it ends in a yield,                                                   *)
LEMMA SettlesUnsure ==
    ASSUME NEW t, NEW w, HistoryOK(t, w), NEW a \in DOMAIN t.frames, NEW v,
           v.stack = w.stack, v.begun = w.begun, v.heap = w.heap, v.origin = w.origin,
           v.unsure = w.unsure \union Keys(a, w.heap, w.at[a].stmt.sets),
           DOMAIN v.at = DOMAIN w.at, v.at[a].stmt = w.at[a].stmt, v.at[a].event = w.at[a].event,
           v.at[a].how = "late", \A b \in DOMAIN w.at \ {a} : v.at[b] = w.at[b]
    PROVE  HistoryOK(_settle(t, w.heap, a), v)
<1> DEFINE u == _settle(t, w.heap, a)
           d == w.at[a]
           f == t.frames[a]
           sets == d.stmt.sets
           on == Keys(a, w.heap, sets)
           keys == Keys(f.serial, w.heap, sets)
           size == Len(t.events)
<1>1. a \in DOMAIN w.at /\ d.stmt \in Code \union {NoStatement} /\ d.event \in 0..size
  BY DEF HistoryOK, LiveOn, DoingOn
<1>2. sets \in SUBSET Names
  BY <1>1, StmtSets
<1>u. /\ u.events = t.events /\ u.fresh = t.fresh
      /\ DOMAIN u.frames = DOMAIN t.frames
      /\ u.frames[a].serial = f.serial /\ u.frames[a].pending = 0
      /\ \A b \in DOMAIN t.frames \ {a} : u.frames[b] = t.frames[b]
      /\ f.pending = 0 => u.last = t.last
      /\ f.pending # 0 => u.last = Mark(keys, d.event, t.last)
  <2>1. f.pending # 0 => f.pending = d.event /\ f.stmt = d.stmt
    BY DEF HistoryOK, FramesOn
  <2> QED
    BY <2>1, SettleIs
<1>k. /\ \A b, x : <<"L", b, x>> \in on <=> b = a /\ Local(x) \in sets
      /\ \A b, x : <<"L", b, x>> \in keys <=> b = f.serial /\ Local(x) \in sets
      /\ \A k \in keys : k[1] = "L" => \E x \in Locals : k = <<"L", f.serial, x>> /\ Local(x) \in sets
      /\ \A k : k[1] # "L" => (k \in on <=> k \in keys)
  <2> HIDE DEF sets
  <2>1. /\ \A b, x : <<"L", b, x>> \in on <=> b = a /\ Local(x) \in sets
        /\ \A other, k : k[1] # "L" => (k \in on <=> k \in Keys(other, w.heap, sets))
    BY <1>2, KeysAre
  <2>2. /\ \A b, x : <<"L", b, x>> \in keys <=> b = f.serial /\ Local(x) \in sets
        /\ \A k \in keys : k[1] = "L" => \E x \in Locals : k = <<"L", f.serial, x>> /\ Local(x) \in sets
    BY <1>2, KeysAre
  <2> QED
    BY <2>1, <2>2
<1>m. f.pending # 0 =>
        /\ DOMAIN u.last = keys \union DOMAIN t.last
        /\ \A k \in DOMAIN t.last \ keys : u.last[k] = t.last[k]
  <2> HIDE DEF u, keys
  <2>1. /\ DOMAIN Mark(keys, d.event, t.last) = keys \union DOMAIN t.last
        /\ \A k \in DOMAIN t.last \ keys : Mark(keys, d.event, t.last)[k] = t.last[k]
    BY DEF Mark
  <2> QED
    BY <2>1, <1>u
<1> HIDE DEF u, on, keys, sets
<1>n. v.unsure = w.unsure \union on
  BY DEF on, sets
<1>3. LiveOn(u, v)
  <2>1. \A b \in DOMAIN w.at : v.at[b].how # "yielded" <=> w.at[b].how # "yielded"
    BY DEF HistoryOK, LiveOn
  <2> QED
    BY <2>1, <1>u DEF HistoryOK, LiveOn
<1>4. DoingOn(u, v)
  BY <1>u, <1>1 DEF HistoryOK, DoingOn
<1>5. FramesOn(u, v)
  <2> SUFFICES ASSUME NEW b \in DOMAIN t.frames
      PROVE  /\ u.frames[b].serial \in 1..size
             /\ \A e \in DOMAIN t.frames : u.frames[b].serial = u.frames[e].serial => e = b
             /\ u.frames[b].pending # 0 =>
                   u.frames[b].pending = v.at[b].event /\ u.frames[b].stmt = v.at[b].stmt
             /\ v.at[b].how = "runs" => u.frames[b].pending = v.at[b].event
    BY <1>u DEF FramesOn
  <2>1. \A e \in DOMAIN t.frames : u.frames[e].serial = t.frames[e].serial
    BY <1>u
  <2>2. b \in DOMAIN w.at
    BY DEF HistoryOK, LiveOn
  <2>3. /\ t.frames[b].serial \in 1..size
        /\ \A e \in DOMAIN t.frames : t.frames[b].serial = t.frames[e].serial => e = b
        /\ t.frames[b].pending # 0 => t.frames[b].pending = w.at[b].event /\ t.frames[b].stmt = w.at[b].stmt
        /\ w.at[b].how = "runs" => t.frames[b].pending = w.at[b].event
    BY DEF HistoryOK, FramesOn
  <2>4. CASE b = a
    BY <2>1, <2>3, <2>4, <1>u
  <2>5. CASE b # a
    BY <2>1, <2>2, <2>3, <2>5, <1>u
  <2> QED
    BY <2>4, <2>5
<1>6. Sized(u, v)
  <2>1. \A k \in DOMAIN u.last : k[1] = "L" => k[2] \in 1..size
    BY <1>u, <1>m, <1>k DEF HistoryOK, Sized, FramesOn
  <2> QED
    BY <2>1, <1>u DEF HistoryOK, Sized
<1>7. GlobalsAgree(u, v)
  <2> SUFFICES ASSUME NEW k \in (DOMAIN u.last \union DOMAIN w.origin) \ v.unsure, k[1] # "L"
      PROVE  k \in DOMAIN u.last /\ k \in DOMAIN w.origin /\ u.last[k] = w.origin[k]
    BY DEF GlobalsAgree
  <2>1. k \notin on /\ k \notin keys /\ k \notin w.unsure
    BY <1>k, <1>n
  <2> QED
    BY <2>1, <1>m, <1>u DEF HistoryOK, GlobalsAgree
<1>8. LocalsAgree(u, v)
  <2> SUFFICES ASSUME NEW b \in DOMAIN t.frames, NEW x \in Locals, <<"L", b, x>> \notin v.unsure
      PROVE  LET own == <<"L", b, x>>
                 key == <<"L", u.frames[b].serial, x>>
             IN  /\ own \in DOMAIN w.origin <=> key \in DOMAIN u.last
                 /\ own \in DOMAIN w.origin => u.last[key] = w.origin[own]
    BY <1>u DEF LocalsAgree
  <2> DEFINE own == <<"L", b, x>>
             key == <<"L", t.frames[b].serial, x>>
  <2>1. u.frames[b].serial = t.frames[b].serial
    BY <1>u
  <2>2. own \in on <=> key \in keys
    BY <1>k DEF HistoryOK, FramesOn
  <2>3. own \notin w.unsure /\ own \notin on
    BY <1>n
  <2>4. /\ own \in DOMAIN w.origin <=> key \in DOMAIN t.last
        /\ own \in DOMAIN w.origin => t.last[key] = w.origin[own]
    BY <2>3 DEF HistoryOK, LocalsAgree
  <2> QED
    BY <2>1, <2>2, <2>3, <2>4, <1>m, <1>u
<1>9. FreshKnown(u, v)
  BY <1>n, <1>u DEF HistoryOK, FreshKnown
<1> QED
  BY <1>3, <1>4, <1>5, <1>6, <1>7, <1>8, <1>9 DEF HistoryOK, u

(* more is traced,                                                       *)
AtAgain(v, w) ==
    /\ DOMAIN v.at = DOMAIN w.at
    /\ \A b \in DOMAIN w.at :
          /\ v.at[b].stmt = w.at[b].stmt /\ v.at[b].event = w.at[b].event
          /\ v.at[b].how = w.at[b].how \/ (v.at[b].how = "failed" /\ w.at[b].how # "yielded")

LEMMA EventsGrow ==
    ASSUME NEW t, NEW w, HistoryOK(t, w), NEW u, NEW v,
           u.last = t.last, u.fresh = t.fresh, u.frames = t.frames,
           Len(u.events) \in Nat, Len(t.events) <= Len(u.events), IsSeq(u.events),
           v.stack = w.stack, v.begun = w.begun, v.heap = w.heap, v.origin = w.origin, v.unsure = w.unsure,
           AtAgain(v, w)
    PROVE  HistoryOK(u, v)
<1> USE DEF AtAgain
<1>0. Len(t.events) \in Nat
  BY DEF HistoryOK, Sized
<1>1. LiveOn(u, v)
  <2>1. \A b \in DOMAIN w.at : v.at[b].how # "yielded" <=> w.at[b].how # "yielded"
    OBVIOUS
  <2> QED
    BY <2>1 DEF HistoryOK, LiveOn
<1>2. DoingOn(u, v)
  BY <1>0 DEF HistoryOK, DoingOn
<1>3. FramesOn(u, v)
  BY <1>0 DEF HistoryOK, FramesOn, LiveOn
<1>4. Sized(u, v)
  BY <1>0 DEF HistoryOK, Sized
<1>5. GlobalsAgree(u, v) /\ LocalsAgree(u, v) /\ FreshKnown(u, v)
  BY DEF HistoryOK, GlobalsAgree, LocalsAgree, FreshKnown
<1> QED
  BY <1>1, <1>2, <1>3, <1>4, <1>5 DEF HistoryOK

(* an activation leaves the stack, for good or until it is resumed,      *)
LEMMA FrontIs ==
    ASSUME NEW q \in Seq(Nat), q # <<>>
    PROVE  /\ Front(q) \in Seq(Nat)
           /\ \A m \in DOMAIN Front(q) : m \in DOMAIN q /\ Front(q)[m] = q[m] /\ m # Len(q)
           /\ Len(q) \in DOMAIN q /\ Last(q) = q[Len(q)]
<1>1. Len(q) \in Nat \ {0} /\ DOMAIN q = 1..Len(q)
  OBVIOUS
<1>2. Front(q) = SubSeq(q, 1, Len(q) - 1)
  BY DEF Front
<1>3. Front(q) \in Seq(Nat) /\ Len(Front(q)) = Len(q) - 1 /\ \A m \in 1..(Len(q) - 1) : Front(q)[m] = q[m]
  BY <1>1, <1>2
<1>4. DOMAIN Front(q) = 1..(Len(q) - 1)
  BY <1>3
<1>5. Last(q) = q[Len(q)]
  BY DEF Last
<1>6. ASSUME NEW m \in DOMAIN Front(q)
      PROVE  m \in DOMAIN q /\ Front(q)[m] = q[m] /\ m # Len(q)
  <2>1. m \in 1..(Len(q) - 1)
    BY <1>4
  <2>2. m \in 1..Len(q) /\ m # Len(q)
    BY <1>1, <2>1
  <2> QED
    BY <1>1, <1>3, <2>1, <2>2
<1>7. Len(q) \in DOMAIN q
  BY <1>1
<1> QED
  BY <1>3, <1>5, <1>6, <1>7

AtLeft(v, w, a) ==
    /\ \/ \A b : b \in DOMAIN v.at <=> b \in DOMAIN w.at /\ b # a
       \/ DOMAIN v.at = DOMAIN w.at /\ v.at[a].how = "yielded"
    /\ \A b \in DOMAIN v.at :
          /\ v.at[b].stmt = w.at[b].stmt /\ v.at[b].event = w.at[b].event
          /\ b # a => v.at[b].how = w.at[b].how

LEMMA Leaves ==
    ASSUME NEW t, NEW w, HistoryOK(t, w), NEW u, NEW v,
           w.stack # <<>>, Last(w.stack) \in DOMAIN t.frames,
           u.last = t.last, u.fresh = t.fresh, u.frames = Without(t.frames, Last(w.stack)),
           Len(u.events) \in Nat, Len(t.events) <= Len(u.events), IsSeq(u.events),
           v.stack = Front(w.stack), v.begun = w.begun, v.heap = w.heap, v.origin = w.origin, v.unsure = w.unsure,
           AtLeft(v, w, Last(w.stack))
    PROVE  HistoryOK(u, v)
<1> USE DEF AtLeft
<1> DEFINE a == Last(w.stack)
<1>0. Len(t.events) \in Nat /\ DOMAIN v.at \subseteq DOMAIN w.at
  BY DEF HistoryOK, Sized
<1>f. DOMAIN u.frames = DOMAIN t.frames \ {a} /\ \A b \in DOMAIN u.frames : u.frames[b] = t.frames[b]
  BY DEF Without
<1>s. /\ v.stack \in Seq(Nat)
      /\ \A m \in DOMAIN v.stack : m \in DOMAIN w.stack /\ v.stack[m] = w.stack[m] /\ m # Len(w.stack)
      /\ Len(w.stack) \in DOMAIN w.stack /\ a = w.stack[Len(w.stack)]
  <2>1. w.stack \in Seq(Nat)
    BY OnStack, Zenon
  <2>2. v.stack = Front(w.stack) /\ w.stack # <<>>
    OBVIOUS
  <2> QED
    BY <2>1, <2>2, FrontIs
<1>1. LiveOn(u, v)
  <2>1. a # 0
    BY DEF HistoryOK, LiveOn
  <2>2. \A m \in DOMAIN v.stack : v.stack[m] # a
    BY <2>1, <1>s DEF HistoryOK, LiveOn
  <2>3. DOMAIN u.frames = {b \in DOMAIN v.at : v.at[b].how # "yielded"}
    BY <1>f, <1>0 DEF HistoryOK, LiveOn
  <2> HIDE DEF a
  <2>4. \A m \in DOMAIN v.stack : v.stack[m] # 0 =>
            /\ v.stack[m] \in DOMAIN u.frames
            /\ \A n \in DOMAIN v.stack : v.stack[n] = v.stack[m] => n = m
    BY <2>2, <1>s, <1>f DEF HistoryOK, LiveOn
  <2> QED
    BY <2>3, <2>4, <1>s, <1>0 DEF HistoryOK, LiveOn
<1>2. DoingOn(u, v)
  <2> SUFFICES ASSUME NEW b \in DOMAIN v.at
      PROVE  /\ v.at[b].stmt \in Code \union {NoStatement} /\ v.at[b].event \in 0..Len(u.events)
             /\ v.at[b].event # 0 => \A e \in DOMAIN v.at : v.at[b].event = v.at[e].event => e = b
             /\ v.at[b].how = "runs" /\ v.at[b].event = 0 => v.at[b].stmt.sets = {}
             /\ v.at[b].how = "runs" /\ v.at[b].event # 0 =>
                   /\ v.at[b].stmt.fresh => v.at[b].event \in u.fresh
                   /\ \A c \in Containers : v.heap[c] # v.at[b].event
    BY DEF DoingOn
  <2>1. v.at[b].how = "runs" => w.at[b].how = "runs"
    BY DEF HistoryOK, LiveOn
  <2>2. b \in DOMAIN w.at /\ \A e \in DOMAIN v.at : e \in DOMAIN w.at
    BY <1>0
  <2> QED
    BY <2>1, <2>2, <1>0 DEF HistoryOK, DoingOn
<1>3. FramesOn(u, v)
  <2> HIDE DEF a
  <2> SUFFICES ASSUME NEW b \in DOMAIN u.frames
      PROVE  /\ u.frames[b].serial \in 1..Len(u.events)
             /\ \A e \in DOMAIN u.frames : u.frames[b].serial = u.frames[e].serial => e = b
             /\ u.frames[b].pending # 0 =>
                   u.frames[b].pending = v.at[b].event /\ u.frames[b].stmt = v.at[b].stmt
             /\ v.at[b].how = "runs" => u.frames[b].pending = v.at[b].event
    BY DEF FramesOn
  <2>1. /\ t.frames[b].serial \in 1..Len(t.events)
        /\ \A e \in DOMAIN t.frames : t.frames[b].serial = t.frames[e].serial => e = b
        /\ t.frames[b].pending # 0 => t.frames[b].pending = w.at[b].event /\ t.frames[b].stmt = w.at[b].stmt
        /\ w.at[b].how = "runs" => t.frames[b].pending = w.at[b].event
    BY <1>f DEF HistoryOK, FramesOn
  <2>2. b \in DOMAIN v.at /\ v.at[b].how = w.at[b].how
    BY <1>f DEF HistoryOK, LiveOn, a
  <2> QED
    BY <2>1, <2>2, <1>0, <1>f
<1>4. Sized(u, v)
  BY <1>0 DEF HistoryOK, Sized
<1>5. GlobalsAgree(u, v) /\ LocalsAgree(u, v) /\ FreshKnown(u, v)
  BY <1>f DEF HistoryOK, GlobalsAgree, LocalsAgree, FreshKnown
<1> QED
  BY <1>1, <1>2, <1>3, <1>4, <1>5 DEF HistoryOK

(* one enters it, with a serial of its own,                              *)
(* What entering one leaves of the others' storage, and gives its own.   *)
OthersStay(v, w, a) ==
    \A k : (k[1] = "L" => k[2] # a) =>
        /\ k \in DOMAIN v.origin <=> k \in DOMAIN w.origin
        /\ k \in DOMAIN w.origin => v.origin[k] = w.origin[k]
        /\ k \in v.unsure <=> k \in w.unsure
OwnGiven(v, a, n) ==
    \A x \in Locals : <<"L", a, x>> \notin v.unsure =>
        /\ <<"L", a, x>> \in DOMAIN v.origin <=> x \in Params
        /\ x \in Params => v.origin[<<"L", a, x>>] = n
AtElse(v, w, a) ==
    /\ \A b : b \in DOMAIN v.at <=> b = a \/ b \in DOMAIN w.at
    /\ \A b \in DOMAIN w.at : b # a => v.at[b] = w.at[b]
Args(serial) == {<<"L", serial, x>> : x \in Params}

LEMMA AppendIs ==
    ASSUME NEW q \in Seq(Nat), NEW x \in Nat
    PROVE  /\ Append(q, x) \in Seq(Nat) /\ Append(q, x)[Len(q) + 1] = x
           /\ Len(q) \in Nat /\ DOMAIN q = 1..Len(q) /\ DOMAIN Append(q, x) = 1..(Len(q) + 1)
           /\ \A m \in DOMAIN Append(q, x) : m \in DOMAIN q \/ m = Len(q) + 1
           /\ \A m \in DOMAIN q : Append(q, x)[m] = q[m]
  OBVIOUS

LEMMA Enters ==
    ASSUME NEW t, NEW w, HistoryOK(t, w), NEW u, NEW v, NEW n, NEW a, NEW new,
           n = Len(t.events) + 1, v.begun \in Nat, w.begun <= v.begun, a \in 1..v.begun, a \notin DOMAIN t.frames,
           Len(u.events) = n, IsSeq(u.events), u.fresh = t.fresh,
           u.last = Mark(Args(n), n, t.last),
           u.frames = With(t.frames, a, new), new.serial = n, new.pending = 0,
           v.stack = Append(w.stack, a), v.heap = w.heap, AtElse(v, w, a),
           \/ v.at[a].how = "runs" /\ v.at[a].stmt = NoStatement /\ v.at[a].event = 0
           \/ /\ v.at[a].how = "late" /\ a \in DOMAIN w.at
              /\ v.at[a].stmt = w.at[a].stmt /\ v.at[a].event = w.at[a].event,
           OthersStay(v, w, a), OwnGiven(v, a, n)
    PROVE  HistoryOK(u, v)
<1> DEFINE args == Args(n)
<1> USE DEF OthersStay, OwnGiven, AtElse
<1>0. Len(t.events) \in Nat /\ n \in Nat /\ w.begun \in Nat /\ a \in Nat \ {0}
  BY DEF HistoryOK, Sized, LiveOn
<1>f. /\ DOMAIN u.frames = {a} \union DOMAIN t.frames /\ u.frames[a].serial = n /\ u.frames[a].pending = 0
      /\ \A b \in DOMAIN t.frames : u.frames[b] = t.frames[b]
  BY DEF With
<1>m. /\ DOMAIN u.last = args \union DOMAIN t.last /\ \A k \in args : u.last[k] = n
      /\ \A k \in DOMAIN t.last \ args : u.last[k] = t.last[k]
  <2> HIDE DEF args
  <2>1. u.last = Mark(args, n, t.last)
    BY DEF args
  <2> QED
    BY <2>1 DEF Mark
<1>k. \A k \in args : k[1] = "L" /\ k[2] = n
  BY DEF Args
<1>x. /\ \A b, x : <<"L", b, x>> \in args <=> b = n /\ x \in Params
      /\ \A b, x : <<"L", b, x>> \in DOMAIN t.last => b # n
  <2>1. \A b, x : <<"L", b, x>> \in DOMAIN t.last => b \in 1..Len(t.events)
    BY DEF HistoryOK, Sized
  <2> QED
    BY <2>1, <1>0 DEF Args
<1> HIDE DEF args
<1>1. LiveOn(u, v)
  <2>1. DOMAIN u.frames = {b \in DOMAIN v.at : v.at[b].how # "yielded"}
    <3>1. v.at[a].how # "yielded"
      OBVIOUS
    <3>2. DOMAIN t.frames = {b \in DOMAIN w.at : w.at[b].how # "yielded"}
      BY DEF HistoryOK, LiveOn
    <3>3. \A b : b \in DOMAIN u.frames <=> b \in DOMAIN v.at /\ v.at[b].how # "yielded"
      BY <3>1, <3>2, <1>f
    <3> QED
      BY <3>3
  <2>2. DOMAIN v.at \subseteq 1..v.begun
    BY <1>0 DEF HistoryOK, LiveOn
  <2>3. /\ v.stack \in Seq(Nat) /\ DOMAIN v.stack = 1..(Len(w.stack) + 1)
        /\ v.stack[Len(w.stack) + 1] = a
        /\ DOMAIN w.stack = 1..Len(w.stack) /\ Len(w.stack) \in Nat
        /\ \A m \in DOMAIN w.stack : v.stack[m] = w.stack[m]
    <3>1. w.stack \in Seq(Nat)
      BY OnStack, Zenon
    <3>2. v.stack = Append(w.stack, a)
      OBVIOUS
    <3>3. a \in Nat
      BY <1>0
    <3> QED
      BY <3>1, <3>2, <3>3, AppendIs
  <2>4. \A m \in DOMAIN w.stack : w.stack[m] # a
    BY <1>0 DEF HistoryOK, LiveOn
  <2>7. \A m \in DOMAIN v.stack : m \in DOMAIN w.stack \/ m = Len(w.stack) + 1
    BY <2>3
  <2>5. \A m \in DOMAIN v.stack : v.stack[m] # 0 => v.stack[m] \in DOMAIN u.frames
    BY <2>3, <2>7, <1>f DEF HistoryOK, LiveOn
  <2>6. ASSUME NEW m \in DOMAIN v.stack, NEW l \in DOMAIN v.stack, v.stack[m] # 0, v.stack[m] = v.stack[l]
        PROVE  l = m
    <3>1. CASE m \in DOMAIN w.stack /\ l \in DOMAIN w.stack
      BY <3>1, <2>3, <2>6 DEF HistoryOK, LiveOn
    <3>0. v.stack[Len(w.stack) + 1] = a
      BY <2>3
    <3>2. CASE m = Len(w.stack) + 1 /\ l = Len(w.stack) + 1
      BY <3>2
    <3>3. CASE m \in DOMAIN w.stack /\ l = Len(w.stack) + 1
      <4>1. v.stack[m] # a
        BY <3>3, <2>3, <2>4
      <4>2. v.stack[l] = a
        BY <3>0, <3>3
      <4> QED
        BY <4>1, <4>2, <2>6
    <3>4. CASE m = Len(w.stack) + 1 /\ l \in DOMAIN w.stack
      <4>1. v.stack[l] # a
        BY <3>4, <2>3, <2>4
      <4>2. v.stack[m] = a
        BY <3>0, <3>4
      <4> QED
        BY <4>1, <4>2, <2>6
    <3> QED
      BY <3>1, <3>2, <3>3, <3>4, <2>7
  <2> QED
    BY <2>1, <2>2, <2>3, <2>5, <2>6 DEF LiveOn
<1>2. DoingOn(u, v)
  <2> SUFFICES ASSUME NEW b \in DOMAIN v.at
      PROVE  /\ v.at[b].stmt \in Code \union {NoStatement} /\ v.at[b].event \in 0..n
             /\ v.at[b].event # 0 => \A e \in DOMAIN v.at : v.at[b].event = v.at[e].event => e = b
             /\ v.at[b].how = "runs" /\ v.at[b].event = 0 => v.at[b].stmt.sets = {}
             /\ v.at[b].how = "runs" /\ v.at[b].event # 0 =>
                   /\ v.at[b].stmt.fresh => v.at[b].event \in u.fresh
                   /\ \A c \in Containers : v.heap[c] # v.at[b].event
    BY DEF DoingOn
  <2>1. \A e \in DOMAIN v.at : v.at[e].event # 0 => e \in DOMAIN w.at /\ v.at[e].event = w.at[e].event
    OBVIOUS
  <2>2. CASE v.at[b].how = "runs" /\ b = a
    BY <2>2, <1>0 DEF NoStatement
  <2>3. CASE b \in DOMAIN w.at /\ v.at[b].stmt = w.at[b].stmt /\ v.at[b].event = w.at[b].event
             /\ (v.at[b].how = "runs" => w.at[b].how = "runs")
    <3>1. /\ w.at[b].stmt \in Code \union {NoStatement} /\ w.at[b].event \in 0..Len(t.events)
          /\ w.at[b].event # 0 => \A e \in DOMAIN w.at : w.at[b].event = w.at[e].event => e = b
          /\ w.at[b].how = "runs" /\ w.at[b].event = 0 => w.at[b].stmt.sets = {}
          /\ w.at[b].how = "runs" /\ w.at[b].event # 0 =>
                /\ w.at[b].stmt.fresh => w.at[b].event \in t.fresh
                /\ \A c \in Containers : w.heap[c] # w.at[b].event
      BY <2>3 DEF HistoryOK, DoingOn
    <3> QED
      BY <3>1, <2>1, <2>3, <1>0
  <2> QED
    BY <2>2, <2>3
<1>3. FramesOn(u, v)
  <2> SUFFICES ASSUME NEW b \in DOMAIN u.frames
      PROVE  /\ u.frames[b].serial \in 1..n
             /\ \A e \in DOMAIN u.frames : u.frames[b].serial = u.frames[e].serial => e = b
             /\ u.frames[b].pending # 0 =>
                   u.frames[b].pending = v.at[b].event /\ u.frames[b].stmt = v.at[b].stmt
             /\ v.at[b].how = "runs" => u.frames[b].pending = v.at[b].event
    BY DEF FramesOn
  <2>1. \A e \in DOMAIN t.frames : t.frames[e].serial \in 1..Len(t.events) /\ e # a /\ v.at[e] = w.at[e]
    BY DEF HistoryOK, FramesOn, LiveOn
  <2>2. CASE b = a
    BY <2>1, <2>2, <1>0, <1>f
  <2>3. CASE b \in DOMAIN t.frames
    <3>1. /\ t.frames[b].serial \in 1..Len(t.events)
          /\ \A e \in DOMAIN t.frames : t.frames[b].serial = t.frames[e].serial => e = b
          /\ t.frames[b].pending # 0 => t.frames[b].pending = w.at[b].event /\ t.frames[b].stmt = w.at[b].stmt
          /\ w.at[b].how = "runs" => t.frames[b].pending = w.at[b].event
      BY <2>3 DEF HistoryOK, FramesOn
    <3>2. t.frames[b].serial # n /\ t.frames[b].serial \in 1..n
      BY <3>1, <1>0
    <3> QED
      BY <2>1, <2>3, <3>1, <3>2, <1>f
  <2> QED
    BY <2>2, <2>3, <1>f
<1>4. Sized(u, v)
  <2>1. \A k \in DOMAIN u.last : k[1] = "L" => k[2] \in 1..n
    BY <1>0, <1>m, <1>k DEF HistoryOK, Sized
  <2>2. \A k \in DOMAIN v.origin : k[1] = "L" => k[2] \in 1..v.begun
    <3>1. \A k \in DOMAIN w.origin : k[1] = "L" => k[2] \in 1..w.begun
      BY DEF HistoryOK, Sized
    <3> QED
      BY <3>1, <1>0
  <2> QED
    BY <2>1, <2>2, <1>0 DEF HistoryOK, Sized
<1>5. GlobalsAgree(u, v)
  BY <1>m, <1>k DEF HistoryOK, GlobalsAgree
<1>6. LocalsAgree(u, v)
  <2> SUFFICES ASSUME NEW b \in DOMAIN u.frames, NEW x \in Locals, <<"L", b, x>> \notin v.unsure
      PROVE  LET own == <<"L", b, x>>
                 key == <<"L", u.frames[b].serial, x>>
             IN  /\ own \in DOMAIN v.origin <=> key \in DOMAIN u.last
                 /\ own \in DOMAIN v.origin => u.last[key] = v.origin[own]
    BY DEF LocalsAgree
  <2>1. CASE b = a
    BY <2>1, <1>x, <1>m, <1>f
  <2>2. CASE b \in DOMAIN t.frames
    <3> DEFINE own == <<"L", b, x>>
               key == <<"L", t.frames[b].serial, x>>
    <3>1. own[1] = "L" /\ own[2] # a
      BY <2>2
    <3>2. /\ own \in DOMAIN v.origin <=> own \in DOMAIN w.origin
          /\ own \in DOMAIN w.origin => v.origin[own] = w.origin[own]
          /\ own \in v.unsure <=> own \in w.unsure
      <4> HIDE DEF own
      <4> QED
        BY <3>1
    <3>3. t.frames[b].serial \in 1..Len(t.events)
      BY <2>2 DEF HistoryOK, FramesOn
    <3>4. key \notin args
      BY <3>3, <1>x, <1>0
    <3>5. /\ own \in DOMAIN w.origin <=> key \in DOMAIN t.last
          /\ own \in DOMAIN w.origin => t.last[key] = w.origin[own]
      BY <2>2, <3>2 DEF HistoryOK, LocalsAgree
    <3>6. u.frames[b] = t.frames[b]
      BY <2>2, <1>f
    <3> QED
      BY <3>2, <3>4, <3>5, <3>6, <1>m
  <2> QED
    BY <2>1, <2>2, <1>f
<1>7. FreshKnown(u, v)
  BY DEF HistoryOK, FreshKnown
<1> QED
  BY <1>1, <1>2, <1>3, <1>4, <1>5, <1>6, <1>7 DEF HistoryOK

(* and it comes to a statement that is traced.                           *)
FreshGrows(u, t, stmt, n) == (\A k \in t.fresh : k \in u.fresh) /\ (stmt.fresh => n \in u.fresh)

LEMMA Comes ==
    ASSUME NEW t, NEW w, HistoryOK(t, w), NEW u, NEW v, NEW n, NEW a \in DOMAIN t.frames, NEW stmt \in Code, NEW new,
           n = Len(t.events) + 1, t.frames[a].pending = 0,
           Len(u.events) = n, IsSeq(u.events), u.last = t.last,
           FreshGrows(u, t, stmt, n),
           u.frames = With(t.frames, a, new),
           new.serial = t.frames[a].serial, new.pending = n, new.stmt = stmt,
           v.stack = w.stack, v.begun = w.begun, v.heap = w.heap, v.origin = w.origin, v.unsure = w.unsure,
           DOMAIN v.at = DOMAIN w.at, v.at[a].stmt = stmt, v.at[a].event = n, v.at[a].how = "runs", AtElse(v, w, a)
    PROVE  HistoryOK(u, v)
<1> USE DEF AtElse, FreshGrows
<1>0. Len(t.events) \in Nat /\ n \in Nat /\ a \in DOMAIN w.at
  BY DEF HistoryOK, Sized, LiveOn
<1>f. /\ DOMAIN u.frames = DOMAIN t.frames /\ u.frames[a].serial = t.frames[a].serial
      /\ u.frames[a].pending = n /\ u.frames[a].stmt = stmt
      /\ \A b \in DOMAIN t.frames \ {a} : u.frames[b] = t.frames[b]
  BY DEF With
<1>1. LiveOn(u, v)
  <2>1. \A b \in DOMAIN w.at : v.at[b].how # "yielded" <=> w.at[b].how # "yielded"
    BY DEF HistoryOK, LiveOn
  <2> QED
    BY <2>1, <1>f DEF HistoryOK, LiveOn
<1>2. DoingOn(u, v)
  <2> SUFFICES ASSUME NEW b \in DOMAIN w.at
      PROVE  /\ v.at[b].stmt \in Code \union {NoStatement} /\ v.at[b].event \in 0..n
             /\ v.at[b].event # 0 => \A e \in DOMAIN w.at : v.at[b].event = v.at[e].event => e = b
             /\ v.at[b].how = "runs" /\ v.at[b].event = 0 => v.at[b].stmt.sets = {}
             /\ v.at[b].how = "runs" /\ v.at[b].event # 0 =>
                   /\ v.at[b].stmt.fresh => v.at[b].event \in u.fresh
                   /\ \A c \in Containers : v.heap[c] # v.at[b].event
    BY DEF DoingOn
  <2>1. \A e \in DOMAIN w.at : w.at[e].event \in 0..Len(t.events)
    BY DEF HistoryOK, DoingOn
  <2>2. \A c \in Containers : w.heap[c] \in 0..Len(t.events)
    BY DEF HistoryOK, Sized
  <2>3. CASE b = a
    BY <2>1, <2>2, <2>3, <1>0
  <2>4. CASE b # a
    <3>1. /\ w.at[b].stmt \in Code \union {NoStatement} /\ w.at[b].event \in 0..Len(t.events)
          /\ w.at[b].event # 0 => \A e \in DOMAIN w.at : w.at[b].event = w.at[e].event => e = b
          /\ w.at[b].how = "runs" /\ w.at[b].event = 0 => w.at[b].stmt.sets = {}
          /\ w.at[b].how = "runs" /\ w.at[b].event # 0 =>
                /\ w.at[b].stmt.fresh => w.at[b].event \in t.fresh
                /\ \A c \in Containers : w.heap[c] # w.at[b].event
      BY DEF HistoryOK, DoingOn
    <3>2. ASSUME w.at[b].event # 0, NEW e \in DOMAIN w.at, w.at[b].event = v.at[e].event
          PROVE  e = b
      <4>1. CASE e = a
        BY <4>1, <3>1, <3>2, <1>0
      <4>2. CASE e # a
        BY <4>2, <3>1, <3>2
      <4> QED
        BY <4>1, <4>2
    <3> QED
      BY <3>1, <3>2, <2>4, <1>0
  <2> QED
    BY <2>3, <2>4
<1>3. FramesOn(u, v)
  <2> SUFFICES ASSUME NEW b \in DOMAIN t.frames
      PROVE  /\ u.frames[b].serial \in 1..n
             /\ \A e \in DOMAIN t.frames : u.frames[b].serial = u.frames[e].serial => e = b
             /\ u.frames[b].pending # 0 =>
                   u.frames[b].pending = v.at[b].event /\ u.frames[b].stmt = v.at[b].stmt
             /\ v.at[b].how = "runs" => u.frames[b].pending = v.at[b].event
    BY <1>f DEF FramesOn
  <2>1. \A e \in DOMAIN t.frames : u.frames[e].serial = t.frames[e].serial
    BY <1>f
  <2>2. b \in DOMAIN w.at
    BY DEF HistoryOK, LiveOn
  <2>3. /\ t.frames[b].serial \in 1..Len(t.events)
        /\ \A e \in DOMAIN t.frames : t.frames[b].serial = t.frames[e].serial => e = b
        /\ t.frames[b].pending # 0 => t.frames[b].pending = w.at[b].event /\ t.frames[b].stmt = w.at[b].stmt
        /\ w.at[b].how = "runs" => t.frames[b].pending = w.at[b].event
    BY DEF HistoryOK, FramesOn
  <2>4. CASE b = a
    BY <2>1, <2>3, <2>4, <1>0, <1>f
  <2>5. CASE b # a
    BY <2>1, <2>2, <2>3, <2>5, <1>0, <1>f
  <2> QED
    BY <2>4, <2>5
<1>4. Sized(u, v)
  BY <1>0 DEF HistoryOK, Sized
<1>5. GlobalsAgree(u, v)
  BY DEF HistoryOK, GlobalsAgree
<1>6. LocalsAgree(u, v)
  <2>1. \A b \in DOMAIN t.frames : u.frames[b].serial = t.frames[b].serial
    BY <1>f
  <2> QED
    BY <2>1, <1>f DEF HistoryOK, LocalsAgree
<1>7. FreshKnown(u, v)
  BY DEF HistoryOK, FreshKnown
<1> QED
  BY <1>1, <1>2, <1>3, <1>4, <1>5, <1>6, <1>7 DEF HistoryOK

(* What is emitted only lengthens the events.                            *)
LEMMA Emitted ==
    ASSUME NEW q, IsSeq(q), NEW x
    PROVE  Len(q) \in Nat /\ Len(Append(q, x)) = Len(q) + 1 /\ IsSeq(Append(q, x))
<1>1. PICK S : q \in Seq(S)
  BY DEF IsSeq
<1>2. q \in Seq(S \union {x})
  BY <1>1
<1>3. Append(q, x) \in Seq(S \union {x}) /\ Len(Append(q, x)) = Len(q) + 1
  BY <1>2
<1> QED
  BY <1>1, <1>3 DEF IsSeq

LEMMA Touched ==
    ASSUME NEW q, IsSeq(q), NEW i, NEW x
    PROVE  Len([q EXCEPT ![i] = x]) = Len(q) /\ IsSeq([q EXCEPT ![i] = x])
<1>1. PICK S : q \in Seq(S)
  BY DEF IsSeq
<1>2. q \in Seq(S \union {x})
  BY <1>1
<1> DEFINE T == S \union {x}
           r == [q EXCEPT ![i] = x]
<1>3. q \in [1..Len(q) -> T] /\ Len(q) \in Nat
  BY <1>2
<1>4. r \in [1..Len(q) -> T]
  BY <1>3
<1> HIDE DEF r, T
<1>5. r \in Seq(T) /\ Len(r) = Len(q)
  BY <1>3, <1>4
<1> QED
  BY <1>5 DEF IsSeq, r

LEMMA HistoryIs ==
    ASSUME NEW t, NEW stack, NEW begun, NEW do, NEW heap, NEW origin, NEW unsure,
           History(t, stack, begun, do, heap, origin, unsure)
    PROVE  /\ s'.area = "history" /\ s'.t = t /\ s'.w.stack = stack /\ s'.w.begun = begun /\ s'.w.at = do
           /\ s'.w.heap = heap /\ s'.w.origin = origin /\ s'.w.unsure = unsure
  BY DEF History, Program

LEMMA DoingIs ==
    ASSUME NEW f, NEW a, NEW stmt, NEW event, NEW how
    PROVE  LET g == With(f, a, Doing(stmt, event, how))
           IN  /\ \A b : b \in DOMAIN g <=> b = a \/ b \in DOMAIN f
               /\ g[a].stmt = stmt /\ g[a].event = event /\ g[a].how = how
               /\ \A b \in DOMAIN f : b # a => g[b] = f[b]
<1> DEFINE do == Doing(stmt, event, how)
<1>1. do.stmt = stmt /\ do.event = event /\ do.how = how
  BY DEF Doing
<1> HIDE DEF do
<1>2. /\ DOMAIN With(f, a, do) = {a} \union DOMAIN f /\ With(f, a, do)[a] = do
      /\ \A b \in DOMAIN f \ {a} : With(f, a, do)[b] = f[b]
  BY DEF With
<1> QED
  BY <1>1, <1>2 DEF do

LEMMA CalledKeeps ==
    ASSUME s.area = "history", HistoryOK(s.t, s.w), Called
    PROVE  HistoryOK(s'.t, s'.w)
<1> DEFINE a == s.w.begun + 1
           n == Len(s.t.events) + 1
           own == Args(a)
           new == Frame(n, 0, NoStatement, <<>>)
<1>1. /\ s'.t = _global(s.t, s.w.stack, a, Params) /\ s'.w.stack = Append(s.w.stack, a) /\ s'.w.begun = a
      /\ s'.w.at = With(s.w.at, a, Doing(NoStatement, 0, "runs")) /\ s'.w.heap = s.w.heap
      /\ s'.w.origin = Mark(own, n, s.w.origin) /\ s'.w.unsure = s.w.unsure
  BY DEF Called, History, Program, Args
<1>2. IsSeq(s.t.events)
  BY DEF HistoryOK, Sized
<1>3. /\ s'.t.last = Mark(Args(n), n, s.t.last) /\ s'.t.fresh = s.t.fresh
      /\ s'.t.frames = With(s.t.frames, a, new) /\ new.serial = n /\ new.pending = 0
      /\ s'.t.events = Append(s.t.events, PyEvent("call", {}, call_site(s.t, s.w.stack)))
  BY <1>1 DEF _global, PyTrace, Args, Frame
<1>4. Len(s'.t.events) = n /\ IsSeq(s'.t.events)
  BY <1>2, <1>3, Emitted
<1>5. /\ s.w.begun \in Nat /\ DOMAIN s.w.at \subseteq 1..s.w.begun /\ DOMAIN s.t.frames \subseteq DOMAIN s.w.at
      /\ \A k \in DOMAIN s.w.origin : k[1] = "L" => k[2] \in 1..s.w.begun
  BY DEF HistoryOK, LiveOn, Sized
<1>6. /\ AtElse(s'.w, s.w, a)
      /\ s'.w.at[a].stmt = NoStatement /\ s'.w.at[a].event = 0 /\ s'.w.at[a].how = "runs"
  <2> HIDE DEF a, own, n
  <2> QED
    BY <1>1, DoingIs DEF AtElse
<1>7. /\ DOMAIN s'.w.origin = own \union DOMAIN s.w.origin /\ \A k \in own : s'.w.origin[k] = n
      /\ \A k \in DOMAIN s.w.origin \ own : s'.w.origin[k] = s.w.origin[k]
  <2> HIDE DEF own
  <2> QED
    BY <1>1 DEF Mark
<1>8. /\ \A k \in own : k[1] = "L" /\ k[2] = a
      /\ \A x : <<"L", a, x>> \in own <=> x \in Params
      /\ \A x : <<"L", a, x>> \notin DOMAIN s.w.origin
  BY <1>5 DEF Args
<1> HIDE DEF own, n, new
<1>9. OthersStay(s'.w, s.w, a)
  BY <1>1, <1>7, <1>8 DEF OthersStay
<1>10. OwnGiven(s'.w, a, n)
  BY <1>7, <1>8 DEF OwnGiven
<1>11. /\ n = Len(s.t.events) + 1 /\ s'.w.begun \in Nat /\ s.w.begun <= s'.w.begun
       /\ a \in 1..s'.w.begun /\ a \notin DOMAIN s.t.frames
  BY <1>1, <1>5 DEF n
<1> HIDE DEF a
<1> QED
  BY <1>1, <1>3, <1>4, <1>6, <1>9, <1>10, <1>11, Enters

LEMMA ResumedKeeps ==
    ASSUME s.area = "history", HistoryOK(s.t, s.w), Resumed
    PROVE  HistoryOK(s'.t, s'.w)
<1>0. PICK a \in DOMAIN s.w.at :
        /\ s.w.at[a].how = "yielded"
        /\ History(_global(s.t, s.w.stack, a, Params), Append(s.w.stack, a), s.w.begun,
                   With(s.w.at, a, Doing(s.w.at[a].stmt, s.w.at[a].event, "late")), s.w.heap, s.w.origin,
                   s.w.unsure \union {<<"L", a, x>> : x \in Locals})
  BY DEF Resumed
<1> DEFINE n == Len(s.t.events) + 1
           new == Frame(n, 0, NoStatement, <<>>)
<1>1. /\ s'.t = _global(s.t, s.w.stack, a, Params) /\ s'.w.stack = Append(s.w.stack, a) /\ s'.w.begun = s.w.begun
      /\ s'.w.at = With(s.w.at, a, Doing(s.w.at[a].stmt, s.w.at[a].event, "late")) /\ s'.w.heap = s.w.heap
      /\ s'.w.origin = s.w.origin /\ s'.w.unsure = s.w.unsure \union {<<"L", a, x>> : x \in Locals}
  BY <1>0 DEF History, Program
<1>2. IsSeq(s.t.events)
  BY DEF HistoryOK, Sized
<1>3. /\ s'.t.last = Mark(Args(n), n, s.t.last) /\ s'.t.fresh = s.t.fresh
      /\ s'.t.frames = With(s.t.frames, a, new) /\ new.serial = n /\ new.pending = 0
      /\ s'.t.events = Append(s.t.events, PyEvent("call", {}, call_site(s.t, s.w.stack)))
  BY <1>1 DEF _global, PyTrace, Args, Frame
<1>4. Len(s'.t.events) = n /\ IsSeq(s'.t.events)
  BY <1>2, <1>3, Emitted
<1>5. s.w.begun \in Nat /\ a \in 1..s.w.begun /\ a \notin DOMAIN s.t.frames
  BY <1>0 DEF HistoryOK, LiveOn
<1>6. /\ AtElse(s'.w, s.w, a)
      /\ s'.w.at[a].stmt = s.w.at[a].stmt /\ s'.w.at[a].event = s.w.at[a].event /\ s'.w.at[a].how = "late"
  BY <1>1, DoingIs DEF AtElse
<1>7. OthersStay(s'.w, s.w, a)
  BY <1>1 DEF OthersStay
<1>8. OwnGiven(s'.w, a, n)
  BY <1>1 DEF OwnGiven
<1>9. n = Len(s.t.events) + 1 /\ s'.w.begun \in Nat /\ s.w.begun <= s'.w.begun /\ a \in 1..s'.w.begun
  BY <1>1, <1>5
<1> HIDE DEF n, new
<1> QED
  BY <1>1, <1>3, <1>4, <1>5, <1>6, <1>7, <1>8, <1>9, Enters

LEMMA NowLives ==
    ASSUME HistoryOK(s.t, s.w), s.w.stack # <<>>, Last(s.w.stack) # 0
    PROVE  Now \in DOMAIN s.t.frames /\ Now \in DOMAIN s.w.at /\ s.w.at[Now].how # "yielded"
<1>1. Len(s.w.stack) \in DOMAIN s.w.stack
  BY DEF HistoryOK, LiveOn
<1>2. Now = s.w.stack[Len(s.w.stack)] /\ Now # 0
  BY DEF Now, Last
<1> QED
  BY <1>1, <1>2 DEF HistoryOK, LiveOn

LEMMA LinedKeeps ==
    ASSUME s.area = "history", HistoryOK(s.t, s.w), Lined
    PROVE  HistoryOK(s'.t, s'.w)
<1>0. PICK stmt \in Code \union {NoStatement}, obj \in Objects(s.w, Now) :
        LET new == Assigned(s.w, Now, obj)
            event == IF stmt = NoStatement THEN 0 ELSE Len(s.t.events) + 1
        IN  History(_line(s.t, new.heap, Now, stmt), s.w.stack, s.w.begun,
                    With(s.w.at, Now, Doing(stmt, event, "runs")), new.heap, new.origin, new.unsure)
  BY DEF Lined
<1> DEFINE a == Now
           new == Assigned(s.w, a, obj)
           n == Len(s.t.events) + 1
           event == IF stmt = NoStatement THEN 0 ELSE n
           t == _settle(s.t, new.heap, a)
           w == Settled(s.w, a, new)
<1>l. a \in DOMAIN s.t.frames /\ a \in DOMAIN s.w.at
  BY NowLives DEF Lined, Running
<1>1. HistoryOK(t, w)
  BY <1>l, Settles
<1>2. /\ s'.t = _line(s.t, new.heap, a, stmt) /\ s'.w.stack = s.w.stack /\ s'.w.begun = s.w.begun
      /\ s'.w.at = With(s.w.at, a, Doing(stmt, event, "runs")) /\ s'.w.heap = new.heap
      /\ s'.w.origin = new.origin /\ s'.w.unsure = new.unsure
  <2>1. History(_line(s.t, new.heap, a, stmt), s.w.stack, s.w.begun, With(s.w.at, a, Doing(stmt, event, "runs")),
                new.heap, new.origin, new.unsure)
    BY <1>0
  <2> HIDE DEF new, a, event
  <2> QED
    BY <2>1 DEF History, Program
<1>3. /\ w.stack = s.w.stack /\ w.begun = s.w.begun /\ w.heap = new.heap /\ w.origin = new.origin
      /\ w.unsure = new.unsure /\ DOMAIN w.at = DOMAIN s.w.at
      /\ w.at[a].stmt = NoStatement /\ w.at[a].event = 0 /\ w.at[a].how = "runs"
      /\ \A b \in DOMAIN s.w.at \ {a} : w.at[b] = s.w.at[b]
  <2> HIDE DEF new
  <2> QED
    BY <1>l, SettledIs
<1>4. t.events = s.t.events /\ DOMAIN t.frames = DOMAIN s.t.frames /\ t.frames[a].pending = 0
  <2> HIDE DEF new
  <2> QED
    BY <1>l, SettleIs
<1>5. /\ \A b : b \in DOMAIN s'.w.at <=> b = a \/ b \in DOMAIN s.w.at
      /\ s'.w.at[a].stmt = stmt /\ s'.w.at[a].event = event /\ s'.w.at[a].how = "runs"
      /\ \A b \in DOMAIN s.w.at : b # a => s'.w.at[b] = s.w.at[b]
  <2> HIDE DEF event, a
  <2> QED
    BY <1>2, DoingIs
<1> DEFINE f == t.frames[a]
           m == Len(t.events) + 1
           ruling == IF stmt.control \in DOMAIN f.branch THEN {f.branch[stmt.control]} ELSE {}
           x == PyEvent("line", ruling \union UNION {Hits(t, new.heap, f.serial, r) : r \in stmt.reads}, 0)
           next == Frame(f.serial, m, stmt, (stmt.at :> m) @@ f.branch)
<1>6. /\ s'.t.events = Append(t.events, x) /\ s'.t.last = t.last
      /\ s'.t.fresh = IF stmt.fresh THEN t.fresh \union {m} ELSE t.fresh
      /\ s'.t.frames = IF stmt = NoStatement THEN t.frames
                       ELSE With(t.frames, a, next)
      /\ next.serial = f.serial /\ next.pending = m /\ next.stmt = stmt
  <2> DEFINE fresh == IF stmt.fresh THEN t.fresh \union {m} ELSE t.fresh
             frames == IF stmt = NoStatement THEN t.frames ELSE With(t.frames, a, next)
  <2>1. next.serial = f.serial /\ next.pending = m /\ next.stmt = stmt
    <3> DEFINE branch == (stmt.at :> m) @@ f.branch
    <3> HIDE DEF branch, f, m
    <3> QED
      BY DEF Frame
  <2>2. _line(s.t, new.heap, a, stmt) = PyTrace(Append(t.events, x), t.last, fresh, frames)
    <3> HIDE DEF new
    <3> QED
      BY DEF _line
  <2> HIDE DEF x, next, t, m, new
  <2> QED
    BY <1>2, <2>1, <2>2 DEF PyTrace
<1> HIDE DEF new, t, w, a, x, next, m, event
<1>7. /\ Len(t.events) \in Nat /\ Len(s'.t.events) = Len(t.events) + 1
      /\ IsSeq(s'.t.events)
  <2>1. IsSeq(t.events)
    BY <1>1 DEF HistoryOK, Sized
  <2>2. s'.t.events = Append(t.events, x)
    BY <1>6
  <2>3. Len(t.events) \in Nat /\ Len(Append(t.events, x)) = Len(t.events) + 1
    BY <2>1, Emitted
  <2>4. IsSeq(Append(t.events, x))
    BY <2>1, Emitted
  <2> QED
    BY <2>2, <2>3, <2>4
<1>8. CASE stmt = NoStatement
  <2>1. s'.t.fresh = t.fresh /\ s'.t.frames = t.frames
    BY <1>6, <1>8 DEF NoStatement
  <2>2. AtAgain(s'.w, w)
    <3>1. \A b : b \in DOMAIN s'.w.at <=> b \in DOMAIN w.at
      BY <1>l, <1>3, <1>5
    <3>2. ASSUME NEW b \in DOMAIN w.at
          PROVE  s'.w.at[b].stmt = w.at[b].stmt /\ s'.w.at[b].event = w.at[b].event /\ s'.w.at[b].how = w.at[b].how
      BY <1>l, <1>3, <1>5, <1>8 DEF event
    <3>3. DOMAIN s'.w.at = DOMAIN w.at
      BY <1>2, <1>l, <1>3 DEF With
    <3> QED
      BY <3>2, <3>3 DEF AtAgain
  <2>3. s'.t.last = t.last /\ Len(s'.t.events) \in Nat /\ Len(t.events) <= Len(s'.t.events) /\ IsSeq(s'.t.events)
    BY <1>6, <1>7
  <2>4. /\ s'.w.stack = w.stack /\ s'.w.begun = w.begun /\ s'.w.heap = w.heap
        /\ s'.w.origin = w.origin /\ s'.w.unsure = w.unsure
    BY <1>2, <1>3
  <2> QED
    BY <2>1, <2>2, <2>3, <2>4, <1>1, EventsGrow
<1>9. CASE stmt # NoStatement
  <2>1. stmt \in Code /\ m = Len(t.events) + 1 /\ event = m
    BY <1>4, <1>9 DEF event, m
  <2>2. s'.t.frames = With(t.frames, a, next)
    BY <1>6, <1>9
  <2>3. DOMAIN s'.w.at = DOMAIN w.at /\ AtElse(s'.w, w, a)
    <3>1. DOMAIN s'.w.at = DOMAIN w.at
      BY <1>2, <1>l, <1>3 DEF With
    <3> QED
      BY <3>1, <1>l, <1>3, <1>5 DEF AtElse
  <2>4. FreshGrows(s'.t, t, stmt, m)
    BY <1>6 DEF FreshGrows
  <2>5. /\ s'.w.stack = w.stack /\ s'.w.begun = w.begun /\ s'.w.heap = w.heap
        /\ s'.w.origin = w.origin /\ s'.w.unsure = w.unsure
    BY <1>2, <1>3
  <2>6. /\ s'.t.last = t.last /\ next.serial = t.frames[a].serial /\ next.pending = m /\ next.stmt = stmt
        /\ Len(s'.t.events) = m /\ IsSeq(s'.t.events) /\ a \in DOMAIN t.frames /\ t.frames[a].pending = 0
    BY <2>1, <1>l, <1>4, <1>6, <1>7
  <2>7. s'.w.at[a].stmt = stmt /\ s'.w.at[a].event = m /\ s'.w.at[a].how = "runs"
    BY <2>1, <1>5
  <2> QED
    BY <2>1, <2>2, <2>3, <2>4, <2>5, <2>6, <2>7, <1>1, Comes
<1> QED
  BY <1>8, <1>9

(* What returning emits.                                                 *)
LEMMA ReturnIs ==
    ASSUME NEW t, NEW heap, NEW stack, NEW a, IsSeq(_settle(t, heap, a).events)
    PROVE  LET u == _settle(t, heap, a)
               v == _return(t, heap, stack, a)
           IN  /\ v.last = u.last /\ v.fresh = u.fresh /\ v.frames = Without(u.frames, a)
               /\ Len(v.events) \in Nat /\ Len(u.events) <= Len(v.events) /\ IsSeq(v.events)
<1> DEFINE u == _settle(t, heap, a)
           n == Len(u.events) + 1
           site == call_site(u, stack)
           x == PyEvent("return", {t.frames[a].pending} \ {0}, 0)
           events == Append(u.events, x)
           more == [events[site] EXCEPT !.rets = @ \union {n}]
           all == IF site = 0 THEN events ELSE [events EXCEPT ![site] = more]
<1>1. _return(t, heap, stack, a) = PyTrace(all, u.last, u.fresh, Without(u.frames, a))
  BY DEF _return
<1> HIDE DEF u, x, more
<1>2. Len(u.events) \in Nat /\ Len(events) = Len(u.events) + 1 /\ IsSeq(events)
  <2>1. Len(u.events) \in Nat /\ Len(events) = Len(u.events) + 1
    BY Emitted DEF u
  <2>2. IsSeq(events)
    BY Emitted DEF u
  <2> QED
    BY <2>1, <2>2
<1> HIDE DEF events, site
<1>3. Len([events EXCEPT ![site] = more]) = Len(events) /\ IsSeq([events EXCEPT ![site] = more])
  BY <1>2, Touched
<1>4. Len(all) \in Nat /\ Len(u.events) <= Len(all) /\ IsSeq(all)
  <2>1. CASE site = 0
    BY <2>1, <1>2
  <2>2. CASE site # 0
    BY <2>2, <1>2, <1>3
  <2> QED
    BY <2>1, <2>2
<1> HIDE DEF all
<1> QED
  BY <1>1, <1>4 DEF PyTrace, u

LEMMA ReturnedKeeps ==
    ASSUME s.area = "history", HistoryOK(s.t, s.w), Returned
    PROVE  HistoryOK(s'.t, s'.w)
<1>0. PICK obj \in Objects(s.w, Now) :
        LET new == Assigned(s.w, Now, obj)
        IN  History(_return(s.t, new.heap, Front(s.w.stack), Now), Front(s.w.stack), s.w.begun,
                    Without(s.w.at, Now), new.heap, new.origin, new.unsure)
  BY DEF Returned
<1> DEFINE a == Now
           new == Assigned(s.w, a, obj)
           t == _settle(s.t, new.heap, a)
           w == Settled(s.w, a, new)
<1>l. a \in DOMAIN s.t.frames /\ a \in DOMAIN s.w.at /\ s.w.stack # <<>>
  BY NowLives DEF Returned, Running
<1>1. HistoryOK(t, w)
  BY <1>l, Settles
<1>2. /\ s'.t = _return(s.t, new.heap, Front(s.w.stack), a) /\ s'.w.stack = Front(s.w.stack)
      /\ s'.w.begun = s.w.begun /\ s'.w.at = Without(s.w.at, a) /\ s'.w.heap = new.heap
      /\ s'.w.origin = new.origin /\ s'.w.unsure = new.unsure
  <2>1. History(_return(s.t, new.heap, Front(s.w.stack), a), Front(s.w.stack), s.w.begun,
                Without(s.w.at, a), new.heap, new.origin, new.unsure)
    BY <1>0
  <2> HIDE DEF new, a
  <2> QED
    BY <2>1 DEF History, Program
<1>3. /\ w.stack = s.w.stack /\ w.begun = s.w.begun /\ w.heap = new.heap /\ w.origin = new.origin
      /\ w.unsure = new.unsure /\ DOMAIN w.at = DOMAIN s.w.at
      /\ \A b \in DOMAIN s.w.at \ {a} : w.at[b] = s.w.at[b]
  <2> HIDE DEF new
  <2> QED
    BY <1>l, SettledIs
<1>4. DOMAIN t.frames = DOMAIN s.t.frames
  <2> HIDE DEF new
  <2> QED
    BY <1>l, SettleIs
<1>5. /\ s'.t.last = t.last /\ s'.t.fresh = t.fresh /\ s'.t.frames = Without(t.frames, a)
      /\ Len(s'.t.events) \in Nat /\ Len(t.events) <= Len(s'.t.events) /\ IsSeq(s'.t.events)
  <2>1. IsSeq(t.events)
    BY <1>1 DEF HistoryOK, Sized
  <2> HIDE DEF new, a
  <2> QED
    BY <1>2, <2>1, ReturnIs
<1>6. AtLeft(s'.w, w, a)
  <2>1. /\ \A b : b \in DOMAIN s'.w.at <=> b \in DOMAIN w.at /\ b # a
        /\ \A b \in DOMAIN s'.w.at : s'.w.at[b] = s.w.at[b]
    BY <1>2, <1>3 DEF Without
  <2> QED
    BY <2>1, <1>3 DEF AtLeft
<1> HIDE DEF new, t, w
<1>7. a = Last(w.stack) /\ w.stack # <<>> /\ s'.w.stack = Front(w.stack)
  BY <1>l, <1>2, <1>3 DEF Now
<1>8. /\ s'.w.begun = w.begun /\ s'.w.heap = w.heap /\ s'.w.origin = w.origin /\ s'.w.unsure = w.unsure
      /\ a \in DOMAIN t.frames
  BY <1>l, <1>2, <1>3, <1>4
<1> HIDE DEF a
<1> QED
  BY <1>1, <1>5, <1>6, <1>7, <1>8, Leaves

LEMMA YieldedKeeps ==
    ASSUME s.area = "history", HistoryOK(s.t, s.w), Yielded
    PROVE  HistoryOK(s'.t, s'.w)
<1> DEFINE a == Now
           d == s.w.at[a]
           on == Keys(a, s.w.heap, d.stmt.sets)
           t == _settle(s.t, s.w.heap, a)
           do == With(s.w.at, a, Doing(d.stmt, d.event, "late"))
           w == Program(s.w.stack, s.w.begun, do, s.w.heap, s.w.origin, s.w.unsure \union on, s.w.came)
<1>l. a \in DOMAIN s.t.frames /\ a \in DOMAIN s.w.at /\ s.w.stack # <<>>
  BY NowLives DEF Yielded, Running
<1>1. /\ s'.t = _return(s.t, s.w.heap, Front(s.w.stack), a) /\ s'.w.stack = Front(s.w.stack)
      /\ s'.w.begun = s.w.begun /\ s'.w.at = With(s.w.at, a, Doing(d.stmt, d.event, "yielded"))
      /\ s'.w.heap = s.w.heap /\ s'.w.origin = s.w.origin /\ s'.w.unsure = s.w.unsure \union on
  <2>1. History(_return(s.t, s.w.heap, Front(s.w.stack), a), Front(s.w.stack), s.w.begun,
                With(s.w.at, a, Doing(d.stmt, d.event, "yielded")), s.w.heap, s.w.origin, s.w.unsure \union on)
    BY DEF Yielded, NowDoing, Keys
  <2> HIDE DEF a, on
  <2> QED
    BY <2>1 DEF History, Program
<1>2. /\ w.stack = s.w.stack /\ w.begun = s.w.begun /\ w.heap = s.w.heap /\ w.origin = s.w.origin
      /\ w.unsure = s.w.unsure \union on /\ w.at = do
  <2> HIDE DEF do, on
  <2> QED
    BY DEF Program
<1>3. /\ DOMAIN w.at = DOMAIN s.w.at /\ w.at[a].stmt = d.stmt /\ w.at[a].event = d.event /\ w.at[a].how = "late"
      /\ \A b \in DOMAIN s.w.at \ {a} : w.at[b] = s.w.at[b]
  <2>1. DOMAIN do = DOMAIN s.w.at
    BY <1>l DEF With
  <2> HIDE DEF w, a
  <2> QED
    BY <2>1, <1>2, DoingIs
<1>4. /\ DOMAIN s'.w.at = DOMAIN s.w.at /\ s'.w.at[a].stmt = d.stmt /\ s'.w.at[a].event = d.event
      /\ s'.w.at[a].how = "yielded" /\ \A b \in DOMAIN s.w.at \ {a} : s'.w.at[b] = s.w.at[b]
  <2>1. DOMAIN s'.w.at = DOMAIN s.w.at
    BY <1>l, <1>1 DEF With
  <2> HIDE DEF w, a
  <2> QED
    BY <2>1, <1>1, DoingIs
<1>5. HistoryOK(t, w)
  <2> HIDE DEF w, a
  <2> QED
    BY <1>l, <1>2, <1>3, SettlesUnsure
<1>6. DOMAIN t.frames = DOMAIN s.t.frames
  BY <1>l, SettleIs
<1>7. /\ s'.t.last = t.last /\ s'.t.fresh = t.fresh /\ s'.t.frames = Without(t.frames, a)
      /\ Len(s'.t.events) \in Nat /\ Len(t.events) <= Len(s'.t.events) /\ IsSeq(s'.t.events)
  <2>1. IsSeq(t.events)
    BY <1>5 DEF HistoryOK, Sized
  <2> HIDE DEF a
  <2> QED
    BY <1>1, <2>1, ReturnIs
<1>8. AtLeft(s'.w, w, a)
  <2> HIDE DEF w
  <2> QED
    BY <1>3, <1>4 DEF AtLeft
<1> HIDE DEF t, w, do
<1>9. a = Last(w.stack) /\ w.stack # <<>> /\ s'.w.stack = Front(w.stack)
  BY <1>l, <1>1, <1>2 DEF Now
<1>10. /\ s'.w.begun = w.begun /\ s'.w.heap = w.heap /\ s'.w.origin = w.origin /\ s'.w.unsure = w.unsure
       /\ a \in DOMAIN t.frames
  BY <1>l, <1>1, <1>2, <1>6
<1> HIDE DEF a
<1> QED
  BY <1>5, <1>7, <1>8, <1>9, <1>10, Leaves

LEMMA RaisedKeeps ==
    ASSUME s.area = "history", HistoryOK(s.t, s.w), Raised
    PROVE  HistoryOK(s'.t, s'.w)
<1> DEFINE a == Now
           d == s.w.at[a]
<1>l. a \in DOMAIN s.w.at /\ s.w.at[a].how # "yielded"
  BY NowLives DEF Raised, Running
<1>1. /\ s'.t = _exception(s.t) /\ s'.w.stack = s.w.stack /\ s'.w.begun = s.w.begun
      /\ s'.w.at = With(s.w.at, a, Doing(d.stmt, d.event, "failed"))
      /\ s'.w.heap = s.w.heap /\ s'.w.origin = s.w.origin /\ s'.w.unsure = s.w.unsure
  BY DEF Raised, NowDoing, History, Program
<1>2. AtAgain(s'.w, s.w)
  <2>1. DOMAIN s'.w.at = DOMAIN s.w.at
    BY <1>l, <1>1 DEF With
  <2>2. /\ s'.w.at[a].stmt = d.stmt /\ s'.w.at[a].event = d.event /\ s'.w.at[a].how = "failed"
        /\ \A b \in DOMAIN s.w.at : b # a => s'.w.at[b] = s.w.at[b]
    <3> HIDE DEF a
    <3> QED
      BY <1>1, DoingIs
  <2> QED
    BY <1>l, <2>1, <2>2 DEF AtAgain
<1>3. /\ s'.t.last = s.t.last /\ s'.t.fresh = s.t.fresh /\ s'.t.frames = s.t.frames
      /\ s'.t.events = Append(s.t.events, PyEvent("exception", {}, 0))
  BY <1>1 DEF _exception, _emit, PyTrace
<1>4. Len(s'.t.events) \in Nat /\ Len(s.t.events) <= Len(s'.t.events) /\ IsSeq(s'.t.events)
  <2>1. IsSeq(s.t.events)
    BY DEF HistoryOK, Sized
  <2>2. Len(s.t.events) \in Nat /\ Len(s'.t.events) = Len(s.t.events) + 1
    BY <1>3, <2>1, Emitted
  <2>3. IsSeq(s'.t.events)
    BY <1>3, <2>1, Emitted
  <2> QED
    BY <2>2, <2>3
<1> QED
  BY <1>1, <1>2, <1>3, <1>4, EventsGrow

LEMMA WroteKeeps ==
    ASSUME s.area = "history", HistoryOK(s.t, s.w), Wrote
    PROVE  HistoryOK(s'.t, s'.w)
<1>1. /\ s'.t = _write(s.t, s.w.stack) /\ s'.w.stack = s.w.stack /\ s'.w.begun = s.w.begun
      /\ s'.w.at = s.w.at /\ s'.w.heap = s.w.heap /\ s'.w.origin = s.w.origin /\ s'.w.unsure = s.w.unsure
  BY DEF Wrote, History, Program
<1>2. AtAgain(s'.w, s.w)
  BY <1>1 DEF AtAgain
<1>3. /\ s'.t.last = s.t.last /\ s'.t.fresh = s.t.fresh /\ s'.t.frames = s.t.frames
      /\ s'.t.events = Append(s.t.events, PyEvent("write", {}, call_site(s.t, s.w.stack)))
  BY <1>1 DEF _write, _emit, PyTrace
<1>4. Len(s'.t.events) \in Nat /\ Len(s.t.events) <= Len(s'.t.events) /\ IsSeq(s'.t.events)
  <2>1. IsSeq(s.t.events)
    BY DEF HistoryOK, Sized
  <2>2. Len(s.t.events) \in Nat /\ Len(s'.t.events) = Len(s.t.events) + 1
    BY <1>3, <2>1, Emitted
  <2>3. IsSeq(s'.t.events)
    BY <1>3, <2>1, Emitted
  <2> QED
    BY <2>2, <2>3
<1> QED
  BY <1>1, <1>2, <1>3, <1>4, EventsGrow

(* Untraced activations come and go on the stack.                          *)
LEMMA StackMoves ==
    ASSUME NEW t, NEW w, NEW v, LiveOn(t, w), v.begun = w.begun, v.at = w.at, v.stack \in Seq(Nat),
           \A m \in DOMAIN v.stack : v.stack[m] # 0 => m \in DOMAIN w.stack /\ v.stack[m] = w.stack[m]
    PROVE  LiveOn(t, v)
<1>1. ASSUME NEW m \in DOMAIN v.stack, v.stack[m] # 0
      PROVE  /\ v.stack[m] \in DOMAIN t.frames
             /\ \A n \in DOMAIN v.stack : v.stack[n] = v.stack[m] => n = m
  <2>1. m \in DOMAIN w.stack /\ v.stack[m] = w.stack[m]
    BY <1>1
  <2>2. w.stack[m] \in DOMAIN t.frames /\ \A n \in DOMAIN w.stack : w.stack[n] = w.stack[m] => n = m
    BY <1>1, <2>1 DEF LiveOn
  <2> QED
    BY <1>1, <2>1, <2>2
<1> QED
  BY <1>1 DEF LiveOn

(* Untraced code enters and leaves the stack, and what it assigns is unsure. *)
LEMMA UntracedKeeps ==
    ASSUME s.area = "history", HistoryOK(s.t, s.w), Entered \/ Left \/ Outside
    PROVE  HistoryOK(s'.t, s'.w)
<1>s. s.w.stack \in Seq(Nat)
  BY OnStack, Zenon
<1>1. CASE Entered
  <2>1. s'.t = s.t /\ s'.w.stack = Append(s.w.stack, 0) /\ s'.w.begun = s.w.begun /\ s'.w.at = s.w.at
        /\ s'.w.heap = s.w.heap /\ s'.w.origin = s.w.origin /\ s'.w.unsure = s.w.unsure
    BY <1>1 DEF Entered, History, Program
  <2>2. /\ s'.w.stack \in Seq(Nat) /\ s'.w.stack[Len(s.w.stack) + 1] = 0
        /\ \A m \in DOMAIN s'.w.stack : m \in DOMAIN s.w.stack \/ m = Len(s.w.stack) + 1
        /\ \A m \in DOMAIN s.w.stack : s'.w.stack[m] = s.w.stack[m]
    <3>1. s'.w.stack = Append(s.w.stack, 0)
      BY <2>1
    <3> QED
      BY <1>s, <3>1, AppendIs
  <2>3. LiveOn(s'.t, s'.w)
    <3>1. LiveOn(s'.t, s.w)
      BY <2>1 DEF HistoryOK
    <3>2. \A m \in DOMAIN s'.w.stack :
              s'.w.stack[m] # 0 => m \in DOMAIN s.w.stack /\ s'.w.stack[m] = s.w.stack[m]
      BY <2>2
    <3>3. s'.w.stack \in Seq(Nat) /\ s'.w.begun = s.w.begun /\ s'.w.at = s.w.at
      BY <2>1, <2>2
    <3> QED
      BY <3>1, <3>2, <3>3, StackMoves, Zenon
  <2> QED
    BY <2>1, <2>3 DEF HistoryOK, DoingOn, FramesOn, Sized, GlobalsAgree, LocalsAgree, FreshKnown
<1>2. CASE Left
  <2>1. s'.t = s.t /\ s'.w.stack = Front(s.w.stack) /\ s'.w.begun = s.w.begun /\ s'.w.at = s.w.at
        /\ s'.w.heap = s.w.heap /\ s'.w.origin = s.w.origin /\ s'.w.unsure = s.w.unsure
    BY <1>2 DEF Left, History, Program
  <2>2. /\ s'.w.stack \in Seq(Nat)
        /\ \A m \in DOMAIN s'.w.stack : m \in DOMAIN s.w.stack /\ s'.w.stack[m] = s.w.stack[m]
    <3>1. s.w.stack # <<>>
      BY <1>2 DEF Left
    <3> QED
      BY <1>s, <2>1, <3>1, FrontIs
  <2>3. LiveOn(s'.t, s'.w)
    <3>1. LiveOn(s'.t, s.w)
      BY <2>1 DEF HistoryOK
    <3>2. \A m \in DOMAIN s'.w.stack :
              s'.w.stack[m] # 0 => m \in DOMAIN s.w.stack /\ s'.w.stack[m] = s.w.stack[m]
      BY <2>2
    <3>3. s'.w.stack \in Seq(Nat) /\ s'.w.begun = s.w.begun /\ s'.w.at = s.w.at
      BY <2>1, <2>2
    <3> QED
      BY <3>1, <3>2, <3>3, StackMoves, Zenon
  <2> QED
    BY <2>1, <2>3 DEF HistoryOK, DoingOn, FramesOn, Sized, GlobalsAgree, LocalsAgree, FreshKnown
<1>3. CASE Outside
  <2>1. PICK n \in Names :
          /\ n.is # "N"
          /\ History(s.t, s.w.stack, s.w.begun, s.w.at,
                     [c \in Containers |-> IF n = Attribute(c) THEN 0 ELSE s.w.heap[c]], s.w.origin,
                     s.w.unsure \union {_key(0, s.w.heap, n)})
    BY <1>3 DEF Outside
  <2> DEFINE heap == [c \in Containers |-> IF n = Attribute(c) THEN 0 ELSE s.w.heap[c]]
             key == _key(0, s.w.heap, n)
  <2>2. s'.t = s.t /\ s'.w.stack = s.w.stack /\ s'.w.begun = s.w.begun /\ s'.w.at = s.w.at
        /\ s'.w.heap = heap /\ s'.w.origin = s.w.origin /\ s'.w.unsure = s.w.unsure \union {key}
    <3> HIDE DEF heap, key
    <3> QED
      BY <2>1 DEF History, Program, heap, key
  <2>3. /\ DOMAIN s'.w.heap = Containers
        /\ \A c \in Containers : s'.w.heap[c] = 0 \/ s'.w.heap[c] = s.w.heap[c]
        /\ \A c \in Containers : n # Attribute(c) => s'.w.heap[c] = s.w.heap[c]
    BY <2>2
  <2>4. ASSUME NEW c \in Containers, n = Attribute(c)
        PROVE  key = <<"A", 0, c>>
    <3>1. n.is = "A" /\ n.of = c
      BY <2>4 DEF Attribute
    <3> QED
      BY <3>1 DEF _key
  <2> HIDE DEF heap, key
  <2>5. LiveOn(s'.t, s'.w)
    BY <2>2 DEF HistoryOK, LiveOn
  <2>6. DoingOn(s'.t, s'.w) /\ FramesOn(s'.t, s'.w)
    BY <2>2, <2>3 DEF HistoryOK, DoingOn, FramesOn
  <2>7. Sized(s'.t, s'.w)
    BY <2>2, <2>3 DEF HistoryOK, Sized
  <2>8. GlobalsAgree(s'.t, s'.w) /\ LocalsAgree(s'.t, s'.w)
    BY <2>2 DEF HistoryOK, GlobalsAgree, LocalsAgree
  <2>9. FreshKnown(s'.t, s'.w)
    BY <2>2, <2>3, <2>4 DEF HistoryOK, FreshKnown
  <2> QED
    BY <2>5, <2>6, <2>7, <2>8, <2>9 DEF HistoryOK
<1> QED
  BY <1>1, <1>2, <1>3

LEMMA HistoryKeeps ==
    ASSUME s.area = "history", HistoryOK(s.t, s.w), HistoryStep
    PROVE  HistoryOK(s'.t, s'.w)
  BY CalledKeeps, ResumedKeeps, LinedKeeps, ReturnedKeeps, YieldedKeeps, RaisedKeeps, WroteKeeps, UntracedKeeps
     DEF HistoryStep

LEMMA HistoryStarts ==
    ASSUME HistoryInit
    PROVE  HistoryOK(s.t, s.w)
<1>1. /\ s.t.events = <<>> /\ s.t.last = <<>> /\ s.t.fresh = {} /\ s.t.frames = <<>>
      /\ s.w.stack = <<>> /\ s.w.begun = 0 /\ s.w.at = <<>> /\ s.w.heap = [c \in Containers |-> 0]
      /\ s.w.origin = <<>> /\ s.w.unsure = {}
  <2> DEFINE heap == [c \in Containers |-> 0]
  <2>1. Unrun = Program(<<>>, 0, <<>>, heap, <<>>, {}, <<>>)
    BY DEF Unrun
  <2> HIDE DEF heap
  <2> QED
    BY <2>1 DEF HistoryInit, Entered0, PyTrace, Program, heap
<1>2. DOMAIN s.t.frames = {} /\ DOMAIN s.w.at = {} /\ DOMAIN s.t.last = {} /\ DOMAIN s.w.origin = {}
      /\ DOMAIN s.w.stack = {}
  BY <1>1
<1>3. Len(s.t.events) = 0 /\ IsSeq(s.t.events) /\ s.w.stack \in Seq(Nat)
  BY <1>1 DEF IsSeq
<1>4. LiveOn(s.t, s.w)
  BY <1>1, <1>2, <1>3 DEF LiveOn
<1>5. DoingOn(s.t, s.w) /\ FramesOn(s.t, s.w)
  BY <1>2 DEF DoingOn, FramesOn
<1>6. Sized(s.t, s.w)
  <2>1. DOMAIN s.w.heap = Containers /\ \A c \in Containers : s.w.heap[c] = 0
    BY <1>1
  <2> QED
    BY <2>1, <1>2, <1>3 DEF Sized
<1>7. GlobalsAgree(s.t, s.w) /\ LocalsAgree(s.t, s.w) /\ FreshKnown(s.t, s.w)
  BY <1>2 DEF GlobalsAgree, LocalsAgree, FreshKnown
<1> QED
  BY <1>4, <1>5, <1>6, <1>7 DEF HistoryOK

(* What the invariant says of a name.                                    *)
LEMMA HistoryTells ==
    ASSUME HistoryOK(s.t, s.w)
    PROVE  OriginsKnown
<1> DEFINE t == s.t
           w == s.w
<1> SUFFICES ASSUME NEW a \in DOMAIN t.frames, NEW n \in Names,
                    _key(a, w.heap, n) \notin w.unsure
    PROVE  LET own == _key(a, w.heap, n)
               in == <<"A", 0, n.of>>
               hits == Hits(t, w.heap, t.frames[a].serial, n)
           IN  IF own \in DOMAIN w.origin THEN hits = {w.origin[own]}
               ELSE IF n.is # "S" THEN hits = {}
               ELSE in \notin w.unsure =>
                       IF in \notin DOMAIN w.origin THEN hits = {}
                       ELSE /\ hits \subseteq {w.origin[in]}
                            /\ w.heap[n.of] = w.origin[in] => hits = {w.origin[in]}
  BY DEF OriginsKnown
<1> DEFINE own == _key(a, w.heap, n)
           key == _key(t.frames[a].serial, w.heap, n)
           in == <<"A", 0, n.of>>
           hits == Hits(t, w.heap, t.frames[a].serial, n)
<1>1. hits = IF key \in DOMAIN t.last THEN {t.last[key]}
             ELSE IF n.is = "S" /\ in \in DOMAIN t.last /\ t.last[in] \in t.fresh THEN {t.last[in]}
             ELSE {}
  BY DEF Hits
<1>2. n.is \in {"N", "A", "S"} /\ (n.is = "N" => n.of \in Locals) /\ (n.is = "S" => n.of \in Containers)
  BY NamesAre
<1>3. own \in DOMAIN w.origin <=> key \in DOMAIN t.last
  <2>1. CASE n.is = "N"
    BY <2>1, <1>2 DEF _key, HistoryOK, LocalsAgree
  <2>2. CASE n.is # "N"
    <3>1. own = key /\ own[1] # "L"
      BY <2>2, <1>2 DEF _key
    <3> QED
      BY <3>1 DEF HistoryOK, GlobalsAgree
  <2> QED
    BY <2>1, <2>2
<1>4. own \in DOMAIN w.origin => t.last[key] = w.origin[own]
  <2>1. CASE n.is = "N"
    BY <2>1, <1>2 DEF _key, HistoryOK, LocalsAgree
  <2>2. CASE n.is # "N"
    <3>1. own = key /\ own[1] # "L"
      BY <2>2, <1>2 DEF _key
    <3> QED
      BY <3>1 DEF HistoryOK, GlobalsAgree
  <2> QED
    BY <2>1, <2>2
<1>5. in \notin w.unsure =>
        /\ in \in DOMAIN w.origin <=> in \in DOMAIN t.last
        /\ in \in DOMAIN w.origin => t.last[in] = w.origin[in]
  <2>1. in[1] # "L"
    OBVIOUS
  <2> QED
    BY <2>1 DEF HistoryOK, GlobalsAgree
<1>6. n.is = "S" /\ in \notin w.unsure /\ in \in DOMAIN w.origin /\ w.heap[n.of] = w.origin[in]
        => w.origin[in] \in t.fresh
  BY <1>2 DEF HistoryOK, FreshKnown
<1> HIDE DEF t, w, own, key, in, hits
<1> QED
  BY <1>1, <1>3, <1>4, <1>5, <1>6 DEF t, w, own, key, in, hits

HistoryInv == s.area = "history" => HistoryOK(s.t, s.w)

(* What a statement would depend on by a name it reads is the statement    *)
(* that last assigned it, in its own activation if it is a local, however  *)
(* calls recurse, yield and raise, for every program (whydiff.py).         *)
THEOREM OriginsAreKnown == StudiesSpec => []OriginsKnown
<1>1. StudiesInit => HistoryInv
  <2>1. ASSUME SurveyInit \/ TablesInit \/ CacheInit \/ ManifestInit \/ FuzzInit PROVE s.area # "history"
    BY <2>1, FuzzApart DEF SurveyInit, TablesInit, CacheInit, ManifestInit
  <2> QED
    BY <2>1, HistoryStarts DEF StudiesInit, HistoryInv
<1>2. HistoryInv /\ [StudiesNext]_s => HistoryInv'
  <2> SUFFICES ASSUME HistoryInv, [StudiesNext]_s PROVE HistoryInv'
    OBVIOUS
  <2>1. CASE SurveyStep \/ SurveyDies \/ CacheStep \/ FuzzStep
    <3>1. s'.area # "history"
      BY <2>1, OtherSteps, FuzzApart
    <3> QED
      BY <3>1 DEF HistoryInv
  <2>2. CASE HistoryStep
    BY <2>2, HistoryApart, HistoryKeeps DEF HistoryInv
  <2>3. CASE UNCHANGED s
    BY <2>3 DEF HistoryInv
  <2> QED
    BY <2>1, <2>2, <2>3 DEF StudiesNext
<1>3. HistoryInv => OriginsKnown
  BY HistoryTells DEF HistoryInv, OriginsKnown
<1> QED
  BY <1>1, <1>2, <1>3, PTL DEF StudiesSpec

-----------------------------------------------------------------------------
(* Sums: SumFunction takes its arguments one at a time.                    *)

Taken(T) == CHOOSE x \in T : TRUE
Summed(f, g, D) ==
    f = [T \in SUBSET D |-> IF T = {} THEN 0 ELSE g[Taken(T)] + f[T \ {Taken(T)}]]

(* The sums of sets of up to k arguments.                                  *)
SmallSets(D, k) == {T \in SUBSET D : Cardinality(T) <= k}
SummedUpto(f, g, D, k) ==
    f = [T \in SmallSets(D, k) |-> IF T = {} THEN 0 ELSE g[Taken(T)] + f[T \ {Taken(T)}]]

LEMMA TakenOf ==
    ASSUME NEW D, IsFiniteSet(D), NEW T \in SUBSET D, T # {}
    PROVE  /\ Taken(T) \in T /\ T \ {Taken(T)} \in SUBSET D /\ IsFiniteSet(T)
           /\ Cardinality(T) \in Nat \ {0} /\ Cardinality(T \ {Taken(T)}) = Cardinality(T) - 1
           /\ IsFiniteSet(T \ {Taken(T)})
<1>1. Taken(T) \in T
  BY DEF Taken
<1>2. IsFiniteSet(T) /\ Cardinality(T) \in Nat
  BY FS_Subset, FS_CardinalityType
<1>3. Cardinality(T) # 0
  BY <1>2, FS_EmptySet
<1>4. IsFiniteSet(T \ {Taken(T)}) /\ Cardinality(T \ {Taken(T)}) = Cardinality(T) - 1
  BY <1>1, <1>2, FS_RemoveElement
<1> QED
  BY <1>1, <1>2, <1>3, <1>4

LEMMA SumsUpto ==
    ASSUME NEW D, IsFiniteSet(D), NEW g, NEW n \in Nat
    PROVE  \E f : SummedUpto(f, g, D, n)
<1> DEFINE S == {k \in Nat : \E f : SummedUpto(f, g, D, k)}
<1>1. 0 \in S
  <2> DEFINE f == [T \in SmallSets(D, 0) |-> 0]
  <2>1. \A T \in SmallSets(D, 0) : T = {}
    BY FS_Subset, FS_EmptySet, FS_CardinalityType DEF SmallSets
  <2>2. f = [T \in SmallSets(D, 0) |-> IF T = {} THEN 0 ELSE g[Taken(T)] + f[T \ {Taken(T)}]]
    BY <2>1
  <2>3. SummedUpto(f, g, D, 0)
    BY <2>2 DEF SummedUpto
  <2> QED
    BY <2>3
<1>2. ASSUME NEW k \in S PROVE k + 1 \in S
  <2>1. PICK f : SummedUpto(f, g, D, k)
    OBVIOUS
  <2> DEFINE h == [T \in SmallSets(D, k + 1) |-> IF T = {} THEN 0 ELSE g[Taken(T)] + f[T \ {Taken(T)}]]
  <2>2. ASSUME NEW T \in SmallSets(D, k) PROVE T \in SmallSets(D, k + 1) /\ h[T] = f[T]
    <3>1. Cardinality(T) \in Nat /\ Cardinality(T) <= k
      BY FS_Subset, FS_CardinalityType DEF SmallSets
    <3>2. T \in SmallSets(D, k + 1)
      BY <3>1 DEF SmallSets
    <3>3. f[T] = IF T = {} THEN 0 ELSE g[Taken(T)] + f[T \ {Taken(T)}]
      BY <2>1 DEF SummedUpto
    <3> QED
      BY <3>2, <3>3
  <2>3. ASSUME NEW T \in SmallSets(D, k + 1)
        PROVE  h[T] = IF T = {} THEN 0 ELSE g[Taken(T)] + h[T \ {Taken(T)}]
    <3>1. CASE T = {}
      BY <3>1
    <3>2. CASE T # {}
      <4>1. Cardinality(T) <= k + 1 /\ T \in SUBSET D
        BY DEF SmallSets
      <4>2. T \ {Taken(T)} \in SmallSets(D, k)
        <5> DEFINE U == T \ {Taken(T)}
        <5>1. U \in SUBSET D /\ Cardinality(T) \in Nat \ {0} /\ Cardinality(U) = Cardinality(T) - 1
          BY <3>2, <4>1, TakenOf
        <5>2. k \in Nat
          OBVIOUS
        <5> HIDE DEF U
        <5> QED
          BY <4>1, <5>1, <5>2 DEF SmallSets, U
      <4>3. h[T \ {Taken(T)}] = f[T \ {Taken(T)}]
        BY <2>2, <4>2
      <4> QED
        BY <3>2, <4>3
    <3> QED
      BY <3>1, <3>2
  <2>4. h = [T \in SmallSets(D, k + 1) |-> h[T]]
    OBVIOUS
  <2> HIDE DEF h
  <2>5. SummedUpto(h, g, D, k + 1)
    BY <2>3, <2>4 DEF SummedUpto
  <2> QED
    BY <2>5
<1> HIDE DEF S
<1>3. n \in S
  BY <1>1, <1>2, Induction DEF S
<1> QED
  BY <1>3 DEF S

(* What SumFunction takes through is such sums.                            *)
LEMMA SumsOf ==
    ASSUME NEW g, IsFiniteSet(DOMAIN g)
    PROVE  \E f : /\ SumFunction(g) = f[DOMAIN g] /\ f[{}] = 0
                  /\ \A T \in (SUBSET DOMAIN g) \ {{}} : f[T] = g[Taken(T)] + f[T \ {Taken(T)}]
<1> DEFINE D == DOMAIN g
           it == CHOOSE f : Summed(f, g, D)
<1>1. Cardinality(D) \in Nat
  BY FS_CardinalityType
<1>2. SmallSets(D, Cardinality(D)) = SUBSET D
  BY FS_Subset DEF SmallSets
<1>3. \E f : Summed(f, g, D)
  <2>1. PICK f : SummedUpto(f, g, D, Cardinality(D))
    BY <1>1, SumsUpto
  <2>2. Summed(f, g, D)
    BY <1>2, <2>1 DEF Summed, SummedUpto
  <2> QED
    BY <2>2
<1>4. Summed(it, g, D)
  BY <1>3
<1>5. SumFunction(g) = it[D]
  BY DEF SumFunction, SumFunctionOnSet, FoldFunctionOnSet, MapThenFoldSet, Summed, Taken
<1> HIDE DEF it
<1>6. /\ it[{}] = 0
      /\ \A T \in (SUBSET D) \ {{}} : it[T] = g[Taken(T)] + it[T \ {Taken(T)}]
  BY <1>4 DEF Summed
<1> QED
  BY <1>5, <1>6

(* The sizes of the parts of a set by what a function says of its members  *)
(* add up to the set's.                                                    *)
LEMMA PartsAddUp ==
    ASSUME NEW W, IsFiniteSet(W), NEW h, NEW g, IsFiniteSet(DOMAIN g),
           \A k \in W : h[k] \in DOMAIN g,
           \A x \in DOMAIN g : g[x] = Cardinality({k \in W : h[k] = x})
    PROVE  SumFunction(g) = Cardinality(W)
<1> DEFINE D == DOMAIN g
           In(T) == {k \in W : h[k] \in T}
<1>1. PICK f : /\ SumFunction(g) = f[D] /\ f[{}] = 0
               /\ \A T \in (SUBSET D) \ {{}} : f[T] = g[Taken(T)] + f[T \ {Taken(T)}]
  BY SumsOf
<1> DEFINE S == {n \in Nat : \A T \in SUBSET D : Cardinality(T) = n => f[T] = Cardinality(In(T))}
<1>2. 0 \in S
  <2> SUFFICES ASSUME NEW T \in SUBSET D, Cardinality(T) = 0 PROVE f[T] = Cardinality(In(T))
    OBVIOUS
  <2>1. T = {}
    BY FS_Subset, FS_EmptySet
  <2>2. In(T) = {}
    BY <2>1
  <2> QED
    BY <1>1, <2>1, <2>2, FS_EmptySet
<1>3. ASSUME NEW n \in S PROVE n + 1 \in S
  <2> SUFFICES ASSUME NEW T \in SUBSET D, Cardinality(T) = n + 1 PROVE f[T] = Cardinality(In(T))
    OBVIOUS
  <2>1. T # {}
    <3>1. n \in Nat /\ Cardinality(T) # 0
      OBVIOUS
    <3> QED
      BY <3>1, FS_EmptySet
  <2> DEFINE x == Taken(T)
             U == T \ {x}
             P == {k \in W : h[k] = x}
  <2>2. x \in T /\ U \in SUBSET D /\ Cardinality(U) = n
    BY <2>1, TakenOf
  <2>3. f[T] = g[x] + f[U]
    BY <1>1, <2>1
  <2>4. f[U] = Cardinality(In(U))
    BY <2>2
  <2>5. g[x] = Cardinality(P)
    BY <2>2
  <2> HIDE DEF x
  <2>6. In(T) = P \union In(U) /\ P \intersect In(U) = {}
    BY <2>2
  <2>7. IsFiniteSet(P) /\ IsFiniteSet(In(U))
    BY FS_Subset
  <2>8. Cardinality(P) \in Nat /\ Cardinality(In(U)) \in Nat
    BY <2>7, FS_CardinalityType
  <2>9. Cardinality(In(T)) = Cardinality(P) + Cardinality(In(U))
    <3> DEFINE A == In(U)
               B == In(T)
    <3>1. B = P \union A /\ P \intersect A = {} /\ IsFiniteSet(P) /\ IsFiniteSet(A)
      BY <2>6, <2>7
    <3>2. Cardinality(P) \in Nat /\ Cardinality(A) \in Nat
      BY <2>8
    <3> HIDE DEF P, A, B
    <3>3. Cardinality(P \union A) = Cardinality(P) + Cardinality(A) - Cardinality(P \intersect A)
      BY <3>1, FS_Union
    <3>4. Cardinality(P \intersect A) = 0
      BY <3>1, FS_EmptySet
    <3>5. Cardinality(B) = Cardinality(P) + Cardinality(A)
      BY <3>1, <3>2, <3>3, <3>4
    <3> QED
      BY <3>5 DEF A, B
  <2> QED
    BY <2>3, <2>4, <2>5, <2>8, <2>9
<1> HIDE DEF S
<1>4. Cardinality(D) \in S
  BY <1>2, <1>3, FS_CardinalityType, Induction DEF S
<1>5. f[D] = Cardinality(In(D))
  BY <1>4 DEF S
<1>6. In(D) = W
  OBVIOUS
<1> QED
  BY <1>1, <1>5, <1>6

LEMMA ImageFinite ==
    ASSUME NEW W, IsFiniteSet(W), NEW h
    PROVE  IsFiniteSet({h[k] : k \in W})
<1> DEFINE f == [k \in W |-> h[k]]
           T == {h[k] : k \in W}
<1>1. f \in Surjection(W, T)
  BY DEF Surjection
<1> QED
  BY <1>1, FS_Surjection
-----------------------------------------------------------------------------
(* The tables.                                                             *)

TablesStart ==
    /\ s.area = "tables" =>
          \E old \in SUBSET Listed, new \in SUBSET Listed :
          \E base \in [old -> Results], now \in [new -> Results] :
             s = [area |-> "tables", base |-> base, now |-> now]
    /\ s.area = "match" => \E m \in Matches : s = [area |-> "match", m |-> m]

(* A tally of W by h: what it has of x in the names that a part of W has.  *)
LEMMA TallyOf ==
    ASSUME NEW W, IsFiniteSet(W), NEW h, NEW V \in SUBSET W, NEW g,
           DOMAIN g = {h[k] : k \in W},
           \A k \in W : g[h[k]] = Cardinality({j \in V : h[j] = h[k]})
    PROVE  SumFunction(g) = Cardinality(V)
<1>1. IsFiniteSet(DOMAIN g)
  BY ImageFinite
<1>2. IsFiniteSet(V)
  BY FS_Subset
<1>3. \A k \in V : h[k] \in DOMAIN g
  OBVIOUS
<1>4. ASSUME NEW x \in DOMAIN g PROVE g[x] = Cardinality({k \in V : h[k] = x})
  <2>1. PICK k \in W : x = h[k]
    OBVIOUS
  <2> QED
    BY <2>1
<1> QED
  BY <1>1, <1>2, <1>3, <1>4, PartsAddUp

(* Those that no longer are exact.                                         *)
LEMMA LostAreChanges ==
    ASSUME NEW base, NEW now
    PROVE  LET was == {k \in DOMAIN base : base[k].verdict = "exact"}
               is == {k \in DOMAIN now : now[k].verdict = "exact"}
           IN  /\ was \ is = transitions(base, now).lost \union (was \ DOMAIN now)
               /\ was \ is \subseteq changes(base, now)
  BY DEF transitions, changes, Verdict

(* The moves to exact are the subtunes that became it.                     *)
LEMMA MovesCounted ==
    ASSUME NEW base, NEW now, IsFiniteSet(DOMAIN now)
    PROVE  LET moves == transitions(base, now).moves
               was == {k \in DOMAIN base : base[k].verdict = "exact"}
               is == {k \in DOMAIN now : now[k].verdict = "exact"}
           IN  /\ SumFunction(moves) = Cardinality(DOMAIN now)
               /\ Cardinality(is \ was) = SumFunction([xy \in DOMAIN moves |->
                     IF xy[1] # "exact" /\ xy[2] = "exact" THEN moves[xy] ELSE 0])
<1> DEFINE W == DOMAIN now
           moves == transitions(base, now).moves
           was == {k \in DOMAIN base : base[k].verdict = "exact"}
           is == {k \in W : now[k].verdict = "exact"}
           h == [k \in W |-> <<Verdict(base, k), now[k].verdict>>]
           g == [xy \in DOMAIN moves |-> IF xy[1] # "exact" /\ xy[2] = "exact" THEN moves[xy] ELSE 0]
<1>1. moves = [x \in {h[k] : k \in W} |-> Cardinality({k \in W : h[k] = x})]
  <2>1. {<<Verdict(base, k), now[k].verdict>> : k \in W} = {h[k] : k \in W}
    OBVIOUS
  <2>2. \A x : {k \in W : <<Verdict(base, k), now[k].verdict>> = x} = {k \in W : h[k] = x}
    OBVIOUS
  <2> QED
    BY <2>1, <2>2 DEF transitions, Tallied
<1>2. SumFunction(moves) = Cardinality(W)
  <2> HIDE DEF h, moves
  <2> QED
    BY <1>1, TallyOf
<1> DEFINE V == is \ was
<1>3. ASSUME NEW k \in W PROVE g[h[k]] = Cardinality({j \in V : h[j] = h[k]})
  <2>1. h[k] = <<Verdict(base, k), now[k].verdict>> /\ h[k] \in DOMAIN moves
    BY <1>1
  <2>2. moves[h[k]] = Cardinality({j \in W : h[j] = h[k]})
    <3> HIDE DEF h, moves
    <3> QED
      BY <1>1
  <2>3. \A j \in W : j \in V <=> h[j][1] # "exact" /\ h[j][2] = "exact"
    BY DEF Verdict
  <2>4. CASE h[k][1] # "exact" /\ h[k][2] = "exact"
    <3>1. {j \in V : h[j] = h[k]} = {j \in W : h[j] = h[k]}
      <4> HIDE DEF h
      <4> QED
        BY <2>3, <2>4
    <3>2. g[h[k]] = moves[h[k]]
      <4> HIDE DEF h, moves
      <4> QED
        BY <2>1, <2>4
    <3> QED
      BY <2>2, <3>1, <3>2
  <2>5. CASE ~(h[k][1] # "exact" /\ h[k][2] = "exact")
    <3>1. {j \in V : h[j] = h[k]} = {}
      <4> HIDE DEF h
      <4> QED
        BY <2>3, <2>5
    <3>2. g[h[k]] = 0
      <4> HIDE DEF h, moves
      <4> QED
        BY <2>1, <2>5
    <3> QED
      BY <3>1, <3>2, FS_EmptySet
  <2> QED
    BY <2>4, <2>5
<1>4. DOMAIN g = {h[k] : k \in W}
  BY <1>1
<1>5. SumFunction(g) = Cardinality(V)
  <2>1. V \in SUBSET W /\ IsFiniteSet(W)
    OBVIOUS
  <2> HIDE DEF h, g, V, W
  <2> QED
    BY <1>3, <1>4, <2>1, TallyOf
<1> QED
  BY <1>2, <1>5

(* The verdicts of a tally are the subtunes, and its numbers of bad frames *)
(* that are near-exact the near-exact ones and those of older surveys.     *)
LEMMA TallyCounted ==
    ASSUME NEW now, IsFiniteSet(DOMAIN now), NEAR \in Nat,
           \A k \in DOMAIN now : now[k].min_bad \in Nat \union {NoBad}
    PROVE  LET counted == tally(now, DOMAIN now)
               older == {k \in DOMAIN now : now[k].verdict = "differs" /\ now[k].min_bad = NoBad}
           IN  /\ SumFunction(counted.verdicts) = Cardinality(DOMAIN now)
               /\ Cardinality(near_exact(now)) + Cardinality(older) =
                     SumFunction([b \in DOMAIN counted.bad |-> IF b <= NEAR THEN counted.bad[b] ELSE 0])
<1> DEFINE W == DOMAIN now
           counted == tally(now, W)
           h == [k \in W |-> Verdict(now, k)]
<1>1. counted.verdicts = [x \in {h[k] : k \in W} |-> Cardinality({k \in W : h[k] = x})]
  <2>1. {Verdict(now, k) : k \in W} = {h[k] : k \in W}
    OBVIOUS
  <2>2. \A x : {k \in W : Verdict(now, k) = x} = {k \in W : h[k] = x}
    OBVIOUS
  <2> QED
    BY <2>1, <2>2 DEF tally, Tallied
<1>2. SumFunction(counted.verdicts) = Cardinality(W)
  <2> DEFINE v == counted.verdicts
  <2>1. /\ DOMAIN v = {h[k] : k \in W}
        /\ \A k \in W : v[h[k]] = Cardinality({j \in W : h[j] = h[k]})
    <3> HIDE DEF h, counted
    <3> QED
      BY <1>1
  <2>2. W \in SUBSET W /\ IsFiniteSet(W)
    OBVIOUS
  <2>3. SumFunction(v) = Cardinality(W)
    <3> HIDE DEF h, v, W
    <3> QED
      BY <2>1, <2>2, TallyOf
  <2> QED
    BY <2>3
<1> DEFINE B == {k \in W : Verdict(now, k) = "differs"}
           l == [k \in B |-> Least(Bad(now[k]), NEAR + 1)]
           g == [b \in DOMAIN counted.bad |-> IF b <= NEAR THEN counted.bad[b] ELSE 0]
           older == {k \in W : now[k].verdict = "differs" /\ now[k].min_bad = NoBad}
           near == near_exact(now)
           V == near \union older
<1>3. counted.bad = [x \in {l[k] : k \in B} |-> Cardinality({k \in B : l[k] = x})]
  <2>1. {Least(Bad(now[k]), NEAR + 1) : k \in B} = {l[k] : k \in B}
    OBVIOUS
  <2>2. \A x : {k \in B : Least(Bad(now[k]), NEAR + 1) = x} = {k \in B : l[k] = x}
    OBVIOUS
  <2> QED
    BY <2>1, <2>2 DEF tally, Tallied
<1>4. V \in SUBSET B /\ \A k \in B : l[k] \in Nat /\ (k \in V <=> l[k] <= NEAR)
  BY DEF near_exact, Verdict, Least, Bad, NoBad
<1>5. ASSUME NEW k \in B PROVE g[l[k]] = Cardinality({j \in V : l[j] = l[k]})
  <2>1. l[k] \in DOMAIN counted.bad
    BY <1>3
  <2>2. counted.bad[l[k]] = Cardinality({j \in B : l[j] = l[k]})
    <3> HIDE DEF l, counted
    <3> QED
      BY <1>3
  <2>3. CASE l[k] <= NEAR
    <3>1. {j \in V : l[j] = l[k]} = {j \in B : l[j] = l[k]}
      <4> HIDE DEF l, V
      <4> QED
        BY <1>4, <2>3
    <3>2. g[l[k]] = counted.bad[l[k]]
      <4> HIDE DEF l, counted
      <4> QED
        BY <2>1, <2>3
    <3> QED
      BY <2>2, <3>1, <3>2
  <2>4. CASE ~(l[k] <= NEAR)
    <3>1. {j \in V : l[j] = l[k]} = {}
      <4> HIDE DEF l, V
      <4> QED
        BY <1>4, <2>4
    <3>2. g[l[k]] = 0
      <4> HIDE DEF l, counted
      <4> QED
        BY <2>1, <2>4
    <3> QED
      BY <3>1, <3>2, FS_EmptySet
  <2> QED
    BY <2>3, <2>4
<1>6. DOMAIN g = {l[k] : k \in B}
  BY <1>3
<1>7. SumFunction(g) = Cardinality(V)
  <2>1. IsFiniteSet(B)
    BY FS_Subset
  <2> HIDE DEF l, g, V, B
  <2> QED
    BY <1>4, <1>5, <1>6, <2>1, TallyOf
<1>8. Cardinality(V) = Cardinality(near) + Cardinality(older)
  <2>1. near \in SUBSET W /\ older \in SUBSET W /\ near \cap older = {}
    BY DEF near_exact
  <2>2. IsFiniteSet(near) /\ IsFiniteSet(older)
    BY <2>1, FS_Subset
  <2> HIDE DEF near, older
  <2>3. /\ Cardinality(V) = Cardinality(near) + Cardinality(older) - Cardinality(near \cap older)
        /\ Cardinality(near) \in Nat /\ Cardinality(older) \in Nat
    BY <2>2, FS_Union, FS_CardinalityType
  <2>4. Cardinality(near \cap older) = 0
    BY <2>1, FS_EmptySet
  <2> QED
    BY <2>3, <2>4
<1> QED
  BY <1>2, <1>7, <1>8

LEMMA CountsAreTrue == TablesStart => CountsTrue
<1> SUFFICES ASSUME TablesStart, s.area = "tables" PROVE CountsTrue
  BY DEF CountsTrue
<1>1. PICK old \in SUBSET Listed, new \in SUBSET Listed :
      \E base \in [old -> Results], now \in [new -> Results] :
         s = [area |-> "tables", base |-> base, now |-> now]
  BY DEF TablesStart
<1>2. PICK base \in [old -> Results], now \in [new -> Results] :
         s = [area |-> "tables", base |-> base, now |-> now]
  BY <1>1
<1>3. s.base = base /\ s.now = now
  BY <1>2
<1>4. IsFiniteSet(DOMAIN now)
  BY TablesAssumption, FS_Subset
<1>5. NEAR \in Nat /\ \A k \in DOMAIN now : now[k].min_bad \in Nat \union {NoBad}
  BY TablesAssumption
<1> QED
  <2> DEFINE moves == transitions(base, now).moves
             counted == tally(now, DOMAIN now)
             was == {k \in DOMAIN base : base[k].verdict = "exact"}
             is == {k \in DOMAIN now : now[k].verdict = "exact"}
             older == {k \in DOMAIN now : now[k].verdict = "differs" /\ now[k].min_bad = NoBad}
  <2>1. /\ was \ is = transitions(base, now).lost \union (was \ DOMAIN now)
        /\ was \ is \subseteq changes(base, now)
    BY LostAreChanges
  <2>2. /\ SumFunction(moves) = Cardinality(DOMAIN now)
        /\ Cardinality(is \ was) = SumFunction([xy \in DOMAIN moves |->
              IF xy[1] # "exact" /\ xy[2] = "exact" THEN moves[xy] ELSE 0])
    BY <1>4, MovesCounted
  <2>3. /\ SumFunction(counted.verdicts) = Cardinality(DOMAIN now)
        /\ Cardinality(near_exact(now)) + Cardinality(older) =
              SumFunction([b \in DOMAIN counted.bad |-> IF b <= NEAR THEN counted.bad[b] ELSE 0])
    BY <1>4, <1>5, TallyCounted
  <2>4. SumFunction(counted.verdicts) = SumFunction(moves)
    BY <2>2, <2>3
  <2> HIDE DEF moves, counted
  <2> QED
    BY <1>3, <2>1, <2>2, <2>3, <2>4 DEF CountsTrue, moves, counted
-----------------------------------------------------------------------------
(* Matching.                                                               *)

LEMMA MinIs ==
    ASSUME NEW S \in SUBSET Nat, S # {}
    PROVE  Min(S) \in S /\ \A y \in S : Min(S) <= y
  BY LeastOf DEF Min

(* Numbers with a bound below have a least.                                *)
LEMMA LeastAbove ==
    ASSUME NEW S \in SUBSET Int, S # {}, NEW lo \in Int, \A y \in S : lo <= y
    PROVE  \E x \in S : \A y \in S : x <= y
<1> DEFINE T == {n \in Nat : lo + n \in S}
<1>1. PICK z \in S : TRUE
  OBVIOUS
<1>2. z - lo \in T
  BY <1>1
<1>3. Min(T) \in T /\ \A y \in T : Min(T) <= y
  <2> HIDE DEF T
  <2>1. T # {}
    BY <1>2
  <2>2. T \in SUBSET Nat
    BY DEF T
  <2> QED
    BY <2>1, <2>2, MinIs
<1> DEFINE n == Min(T)
<1>4. n \in Nat /\ lo + n \in S
  BY <1>3
<1>5. ASSUME NEW y \in S PROVE lo + n <= y
  <2>1. y - lo \in T
    OBVIOUS
  <2>2. n <= y - lo
    BY <1>3, <2>1
  <2> HIDE DEF n
  <2> QED
    BY <1>4, <2>2
<1> QED
  BY <1>4, <1>5

(* A candidate at an offset.                                               *)
Holding(cand, q, d) == \A n \in DOMAIN q : n + d \in DOMAIN cand /\ cand[n + d] = q[n]

LEMMA OverlapIs ==
    ASSUME NEW cand \in Seq(Nat), NEW q \in Seq(Nat), Len(q) > 0, NEW d \in Int
    PROVE  LET o == _overlap(cand, q, d)
           IN  /\ o.m \in 0..Len(q) /\ o.eq \in 0..o.m
               /\ (o.eq = o.m /\ o.m = Len(q)) <=> Holding(cand, q, d)
<1> DEFINE from == Most(0, -d)
           m == IF d >= 0 THEN Most(0, Least(Len(q), Len(cand) - d))
                ELSE Most(0, Least(Len(q) + d, Len(cand)))
           E == {k \in 1..m : cand[Most(0, d) + k] = q[from + k]}
<1>1. _overlap(cand, q, d) = [m |-> m, eq |-> Cardinality(E)]
  BY DEF _overlap
<1>2. m \in 0..Len(q) /\ (d < 0 => m < Len(q))
  BY DEF Most, Least
<1>3. IsFiniteSet(1..m) /\ Cardinality(1..m) = m
  <2>1. ASSUME NEW n \in Nat PROVE IsFiniteSet(1..n) /\ Cardinality(1..n) = n
    <3>1. 1 \in Int /\ n \in Int
      OBVIOUS
    <3>2. IsFiniteSet(1..n) /\ Cardinality(1..n) = IF 1 > n THEN 0 ELSE n - 1 + 1
      BY <3>1, FS_Interval
    <3> QED
      BY <3>2
  <2>2. m \in Nat
    BY <1>2
  <2> HIDE DEF m
  <2> QED
    BY <2>1, <2>2
<1>4. IsFiniteSet(E) /\ Cardinality(E) \in Nat /\ Cardinality(E) <= m /\ (Cardinality(E) = m => E = 1..m)
  <2>1. E \in SUBSET (1..m)
    OBVIOUS
  <2> HIDE DEF E, m
  <2> QED
    BY <1>3, <2>1, FS_Subset, FS_CardinalityType
<1>5. ASSUME d >= 0, m = Len(q), Cardinality(E) = m PROVE Holding(cand, q, d)
  <2>1. from = 0 /\ Most(0, d) = d /\ Len(q) + d <= Len(cand)
    BY <1>5 DEF Most, Least
  <2>2. E = 1..m
    BY <1>4, <1>5
  <2>3. ASSUME NEW n \in DOMAIN q PROVE n + d \in DOMAIN cand /\ cand[n + d] = q[n]
    <3>1. n \in 1..Len(q)
      OBVIOUS
    <3>2. n \in E
      BY <1>5, <2>2, <3>1
    <3>3. cand[Most(0, d) + n] = q[from + n]
      BY <3>2
    <3>4. Most(0, d) + n = n + d /\ from + n = n
      BY <2>1, <3>1
    <3> HIDE DEF from, m, E
    <3>5. n + d \in 1..Len(cand)
      <4>1. d >= 0 /\ Len(q) + d <= Len(cand) /\ n \in 1..Len(q)
        BY <1>5, <2>1, <3>1
      <4>2. Len(q) \in Nat /\ Len(cand) \in Nat
        OBVIOUS
      <4>3. n + d >= 1 /\ n + d <= Len(cand)
        BY <4>1, <4>2
      <4> QED
        BY <4>1, <4>2, <4>3
    <3>6. cand[n + d] = q[n]
      BY <3>3, <3>4
    <3> QED
      BY <3>5, <3>6
  <2> QED
    BY <2>3 DEF Holding
<1>6. ASSUME Holding(cand, q, d) PROVE d >= 0 /\ m = Len(q) /\ Cardinality(E) = m
  <2>1. 1 \in DOMAIN q /\ Len(q) \in DOMAIN q
    OBVIOUS
  <2>2. 1 + d \in DOMAIN cand /\ Len(q) + d \in DOMAIN cand
    BY <1>6, <2>1 DEF Holding
  <2>3. d >= 0 /\ Len(q) + d <= Len(cand)
    BY <2>2
  <2>4. m = Len(q) /\ from = 0 /\ Most(0, d) = d
    BY <2>3 DEF Most, Least
  <2>5. ASSUME NEW k \in 1..m PROVE cand[Most(0, d) + k] = q[from + k]
    <3>1. k \in DOMAIN q
      BY <2>4
    <3>2. cand[k + d] = q[k]
      BY <1>6, <3>1 DEF Holding
    <3> QED
      BY <2>4, <3>1, <3>2
  <2>6. E = 1..m
    BY <2>5
  <2> QED
    BY <1>3, <2>3, <2>4, <2>6
<1> HIDE DEF E, m
<1> QED
  BY <1>1, <1>2, <1>4, <1>5, <1>6

(* What match_images has of a candidate at an offset.                      *)
Tried_(m, c, d) ==
    LET penalty == 3 * m.width + 1
        o == _overlap(m.cands[c], m.q, d)
    IN  [offset |-> d, eq |-> o.eq, ndiff |-> o.m - o.eq,
         score |-> (IF Abs(Len(m.cands[c]) - Len(m.q)) > m.guard THEN penalty ELSE 0)
                   + (IF o.m = 0 THEN penalty ELSE 0) - 2 * o.eq + o.m - o.eq]
Nearer(a, b) == \/ a.score < b.score
                \/ a.score = b.score /\ Abs(a.offset) < Abs(b.offset)
                \/ a.score = b.score /\ Abs(a.offset) = Abs(b.offset) /\ a.offset < b.offset
Bound(m) == Least(m.max_offset, m.width - 1)
Offsets(m) == (-Bound(m))..Bound(m)
Closest(m, c) == CHOOSE a \in {Tried_(m, c, d) : d \in Offsets(m)} : \A d \in Offsets(m) : ~Nearer(Tried_(m, c, d), a)

IsMatch(m) ==
    /\ m.cands \in Seq(Seq(Nat)) /\ m.q \in Seq(Nat) /\ Len(m.cands) > 0 /\ Len(m.q) > 0
    /\ m.width \in Nat \ {0} /\ m.max_offset \in Nat /\ m.guard \in Nat

LEMMA ScoreLeast ==
    ASSUME NEW L \in Nat \ {0}, NEW p \in Nat \ {0}, NEW n \in 0..L, NEW e \in 0..n, NEW far \in BOOLEAN
    PROVE  LET score == (IF far THEN p ELSE 0) + (IF n = 0 THEN p ELSE 0) - 2 * e + n - e
           IN  score \in Int /\ score >= -2 * L /\ (score = -2 * L <=> e = n /\ n = L /\ ~far)
<1>1. CASE far
  BY <1>1
<1>2. CASE ~far
  <2>1. CASE n = 0
    BY <1>2, <2>1
  <2>2. CASE n # 0
    BY <1>2, <2>2
  <2> QED
    BY <2>1, <2>2
<1> QED
  BY <1>1, <1>2

(* The least score is that of a candidate which holds the image.           *)
LEMMA TriedIs ==
    ASSUME NEW m, IsMatch(m), NEW c \in DOMAIN m.cands, NEW d \in Int
    PROVE  LET a == Tried_(m, c, d)
           IN  /\ a.offset = d /\ a.score \in Int /\ a.score >= -2 * Len(m.q)
               /\ a.score = -2 * Len(m.q) <=> HoldsAt(m, c, d)
               /\ HoldsAt(m, c, d) => a.ndiff = 0
<1> DEFINE cand == m.cands[c]
           o == _overlap(cand, m.q, d)
           penalty == 3 * m.width + 1
           L == Len(m.q)
           far == Abs(Len(cand) - L) > m.guard
           score == (IF far THEN penalty ELSE 0) + (IF o.m = 0 THEN penalty ELSE 0) - 2 * o.eq + o.m - o.eq
<1>1. cand \in Seq(Nat) /\ m.q \in Seq(Nat) /\ L \in Nat \ {0} /\ penalty \in Nat \ {0} /\ m.guard \in Nat
  <2>1. m.cands \in Seq(Seq(Nat)) /\ m.q \in Seq(Nat) /\ Len(m.q) > 0 /\ m.guard \in Nat /\ m.width \in Nat \ {0}
    BY DEF IsMatch
  <2>2. cand \in Seq(Nat)
    BY <2>1
  <2>3. L \in Nat \ {0}
    BY <2>1
  <2>4. penalty \in Nat \ {0}
    BY <2>1
  <2> QED
    BY <2>1, <2>2, <2>3, <2>4
<1>2. /\ o.m \in 0..L /\ o.eq \in 0..o.m
      /\ (o.eq = o.m /\ o.m = L) <=> Holding(cand, m.q, d)
  <2> DEFINE q == m.q
  <2>1. cand \in Seq(Nat) /\ q \in Seq(Nat) /\ Len(q) > 0 /\ L = Len(q)
    BY <1>1
  <2> HIDE DEF cand, L, q
  <2>2. LET p == _overlap(cand, q, d)
        IN  /\ p.m \in 0..Len(q) /\ p.eq \in 0..p.m
            /\ (p.eq = p.m /\ p.m = Len(q)) <=> Holding(cand, q, d)
    BY <2>1, OverlapIs
  <2> QED
    BY <2>1, <2>2 DEF q
<1>3. ~far <=> Len(cand) - L \in (-m.guard)..m.guard
  <2> DEFINE x == Len(cand) - L
  <2>1. x \in Int /\ m.guard \in Nat
    BY <1>1
  <2> HIDE DEF x
  <2>2. ~(Abs(x) > m.guard) <=> x \in (-m.guard)..m.guard
    BY <2>1 DEF Abs
  <2> QED
    BY <2>2 DEF x
<1>4. HoldsAt(m, c, d) <=> Holding(cand, m.q, d) /\ ~far
  BY <1>3 DEF HoldsAt, Holding
<1>5. Tried_(m, c, d) = [offset |-> d, eq |-> o.eq, ndiff |-> o.m - o.eq, score |-> score]
  BY DEF Tried_
<1>6. score \in Int /\ score >= -2 * L /\ (score = -2 * L <=> o.eq = o.m /\ o.m = L /\ ~far)
  <2>1. L \in Nat \ {0} /\ penalty \in Nat \ {0} /\ o.m \in 0..L /\ o.eq \in 0..o.m /\ far \in BOOLEAN
    BY <1>1, <1>2
  <2> DEFINE n == o.m
             e == o.eq
  <2>2. L \in Nat \ {0} /\ penalty \in Nat \ {0} /\ n \in 0..L /\ e \in 0..n /\ far \in BOOLEAN
    BY <2>1
  <2>3. score = (IF far THEN penalty ELSE 0) + (IF n = 0 THEN penalty ELSE 0) - 2 * e + n - e
    OBVIOUS
  <2> HIDE DEF score, n, e, o, L, far, penalty
  <2>4. score \in Int /\ score >= -2 * L /\ (score = -2 * L <=> e = n /\ n = L /\ ~far)
    BY <2>2, <2>3, ScoreLeast
  <2> QED
    BY <2>4 DEF n, e
<1> HIDE DEF o, score, far, cand
<1> QED
  BY <1>2, <1>4, <1>5, <1>6

(* There is a best offset of every candidate.                              *)
LEMMA BestIs ==
    ASSUME NEW m, IsMatch(m), NEW c \in DOMAIN m.cands
    PROVE  \E d \in Offsets(m) : /\ Closest(m, c) = Tried_(m, c, d)
                                 /\ \A e \in Offsets(m) : Tried_(m, c, d).score <= Tried_(m, c, e).score
<1> DEFINE D == Offsets(m)
           Of(d) == Tried_(m, c, d)
<1>1. Bound(m) \in Nat /\ D \in SUBSET Int /\ 0 \in D /\ \A d \in D : -Bound(m) <= d
  BY DEF IsMatch, Bound, Offsets, Least
<1>2. \A d \in D : Of(d).offset = d /\ Of(d).score \in Int /\ Of(d).score >= -2 * Len(m.q)
  BY <1>1, TriedIs
<1>3. -2 * Len(m.q) \in Int
  BY DEF IsMatch
<1> HIDE DEF D, Of
<1> DEFINE P == {Of(d).score : d \in D}
<1>4. PICK d1 \in D : \A e \in D : Of(d1).score <= Of(e).score
  <2>1. P \in SUBSET Int /\ P # {} /\ \A y \in P : -2 * Len(m.q) <= y
    BY <1>1, <1>2
  <2>2. \E x \in P : \A y \in P : x <= y
    <3> HIDE DEF P
    <3> QED
      BY <1>3, <2>1, LeastAbove
  <2> QED
    BY <2>2
<1> DEFINE D1 == {d \in D : Of(d).score = Of(d1).score}
           Q == {Abs(d) : d \in D1}
<1>5. PICK d2 \in D1 : \A e \in D1 : Abs(d2) <= Abs(e)
  <2>1. Q \in SUBSET Int /\ Q # {} /\ \A y \in Q : 0 <= y
    BY <1>1 DEF Abs
  <2>2. \E x \in Q : \A y \in Q : x <= y
    <3> HIDE DEF Q
    <3> QED
      BY <2>1, LeastAbove
  <2> QED
    BY <2>2
<1> DEFINE D2 == {d \in D1 : Abs(d) = Abs(d2)}
<1>6. PICK d3 \in D2 : \A e \in D2 : d3 <= e
  <2>1. D2 \in SUBSET Int /\ D2 # {} /\ \A y \in D2 : -Bound(m) <= y
    BY <1>1
  <2>2. -Bound(m) \in Int
    BY <1>1
  <2> HIDE DEF D2
  <2> QED
    BY <2>1, <2>2, LeastAbove
<1>7. d3 \in D /\ Of(d3).score = Of(d1).score /\ Abs(d3) = Abs(d2)
  OBVIOUS
<1>8. ASSUME NEW e \in D PROVE ~Nearer(Of(e), Of(d3))
  <2>1. Of(e).offset = e /\ Of(d3).offset = d3
    BY <1>2, <1>7
  <2>2. Of(e).score \in Int /\ Of(d3).score \in Int /\ Of(d3).score <= Of(e).score
    BY <1>2, <1>4, <1>7
  <2>3. Of(e).score = Of(d3).score => Abs(d3) <= Abs(e)
    BY <1>5, <1>7
  <2>4. Of(e).score = Of(d3).score /\ Abs(d3) = Abs(e) => d3 <= e
    BY <1>6, <1>7
  <2>5. e \in Int /\ d3 \in Int /\ Abs(e) \in Int /\ Abs(d3) \in Int
    BY <1>1, <1>7 DEF Abs
  <2> QED
    BY <2>1, <2>2, <2>3, <2>4, <2>5 DEF Nearer
<1>9. \E a \in {Of(d) : d \in D} : \A d \in D : ~Nearer(Of(d), a)
  BY <1>7, <1>8
<1>10. Closest(m, c) \in {Of(d) : d \in D} /\ \A d \in D : ~Nearer(Of(d), Closest(m, c))
  BY <1>9 DEF Closest, Of, D
<1>11. PICK d \in D : Closest(m, c) = Of(d)
  BY <1>10
<1>12. ASSUME NEW e \in D PROVE Of(d).score <= Of(e).score
  <2>1. ~Nearer(Of(e), Of(d))
    BY <1>10, <1>11
  <2> QED
    BY <1>2, <2>1 DEF Nearer
<1> QED
  BY <1>11, <1>12 DEF Of, D

(* What match_images gives.                                                *)
LEMMA MatchIs ==
    ASSUME NEW m, IsMatch(m)
    PROVE  LET got == match_images(m.cands, m.q, m.width, m.max_offset, m.guard)
               i == Min({c \in DOMAIN m.cands : \A e \in DOMAIN m.cands : Closest(m, c).score <= Closest(m, e).score})
           IN  /\ got.candidate = i
               /\ i \in DOMAIN m.cands => got.ndiff = Closest(m, i).ndiff /\ got.offset = Closest(m, i).offset
<1> DEFINE best == [c \in DOMAIN m.cands |-> Closest(m, c)]
           I == {c \in DOMAIN m.cands : \A e \in DOMAIN m.cands : best[c].score <= best[e].score}
           i == Min(I)
           got == match_images(m.cands, m.q, m.width, m.max_offset, m.guard)
<1>1. got = [candidate |-> i, length |-> Len(m.q), ndiff |-> best[i].ndiff, offset |-> best[i].offset,
             eq |-> best[i].eq]
  BY DEF match_images, Closest, Tried_, Nearer, Offsets, Bound
<1>2. I = {c \in DOMAIN m.cands : \A e \in DOMAIN m.cands : Closest(m, c).score <= Closest(m, e).score}
  OBVIOUS
<1>3. i \in DOMAIN m.cands => best[i] = Closest(m, i)
  OBVIOUS
<1> HIDE DEF got, best
<1>4. got.candidate = i /\ got.ndiff = best[i].ndiff /\ got.offset = best[i].offset
  BY <1>1
<1> HIDE DEF I
<1> QED
  BY <1>2, <1>3, <1>4 DEF got

LEMMA MatchesAreTrue == TablesStart => MatchTrue
<1> SUFFICES ASSUME TablesStart, s.area = "match" PROVE MatchTrue
  BY DEF MatchTrue
<1>1. PICK m \in Matches : s = [area |-> "match", m |-> m]
  BY DEF TablesStart
<1>2. s.m = m /\ IsMatch(m)
  BY <1>1, TablesAssumption DEF IsMatch
<1> DEFINE C == DOMAIN m.cands
           whole == {c \in C : \E d \in Offsets(m) : HoldsAt(m, c, d)}
           lo == -2 * Len(m.q)
           I == {c \in C : \A e \in C : Closest(m, c).score <= Closest(m, e).score}
           got == match_images(m.cands, m.q, m.width, m.max_offset, m.guard)
<1>3. lo \in Int /\ C \in SUBSET Nat /\ Offsets(m) \in SUBSET Int
  BY <1>2 DEF IsMatch, Offsets, Bound, Least
<1>4. ASSUME NEW c \in C
      PROVE  /\ Closest(m, c).score \in Int /\ Closest(m, c).score >= lo
             /\ c \in whole <=> Closest(m, c).score = lo
             /\ c \in whole => HoldsAt(m, c, Closest(m, c).offset) /\ Closest(m, c).ndiff = 0
  <2>1. PICK d \in Offsets(m) : /\ Closest(m, c) = Tried_(m, c, d)
                                /\ \A e \in Offsets(m) : Tried_(m, c, d).score <= Tried_(m, c, e).score
    BY <1>2, BestIs
  <2>2. ASSUME NEW e \in Offsets(m)
        PROVE  LET a == Tried_(m, c, e)
               IN  /\ a.offset = e /\ a.score \in Int /\ a.score >= lo
                   /\ a.score = lo <=> HoldsAt(m, c, e)
                   /\ HoldsAt(m, c, e) => a.ndiff = 0
    BY <1>2, <1>3, TriedIs
  <2>3. ASSUME c \in whole PROVE Closest(m, c).score = lo
    <3>1. PICK e \in Offsets(m) : HoldsAt(m, c, e)
      BY <2>3
    <3>2. Tried_(m, c, e).score = lo /\ Tried_(m, c, d).score <= Tried_(m, c, e).score
      BY <2>1, <2>2, <3>1
    <3>3. Tried_(m, c, d).score >= lo /\ Tried_(m, c, d).score \in Int
      BY <2>2
    <3> HIDE DEF lo
    <3> QED
      BY <1>3, <2>1, <3>2, <3>3
  <2>4. ASSUME Closest(m, c).score = lo
        PROVE  c \in whole /\ HoldsAt(m, c, Closest(m, c).offset) /\ Closest(m, c).ndiff = 0
    BY <2>1, <2>2, <2>4
  <2>5. Closest(m, c).score \in Int /\ Closest(m, c).score >= lo
    BY <2>1, <2>2
  <2> QED
    BY <2>3, <2>4, <2>5
<1>5. ASSUME whole # {}
      PROVE  got.candidate = Min(whole) /\ got.ndiff = 0 /\ HoldsAt(m, got.candidate, got.offset)
  <2>1. PICK w \in C : w \in whole
    BY <1>5
  <2>2. I = whole
    <3>1. ASSUME NEW c \in I PROVE c \in whole
      <4>1. Closest(m, w).score = lo /\ Closest(m, c).score <= Closest(m, w).score
        BY <1>4, <2>1
      <4>2. Closest(m, c).score \in Int /\ Closest(m, c).score >= lo
        BY <1>4
      <4>3. Closest(m, c).score = lo
        <5> HIDE DEF lo
        <5> QED
          BY <1>3, <4>1, <4>2
      <4> QED
        BY <1>4, <4>3
    <3>2. ASSUME NEW c \in whole PROVE c \in I
      <4>1. Closest(m, c).score = lo
        BY <1>4
      <4> QED
        BY <1>4, <4>1
    <3> QED
      BY <3>1, <3>2
  <2>3. Min(whole) \in whole
    <3>1. whole \in SUBSET Nat
      BY <1>3
    <3> HIDE DEF whole
    <3> QED
      BY <1>5, <3>1, MinIs
  <2>4. got.candidate = Min(I) /\ (Min(I) \in C => got.ndiff = Closest(m, Min(I)).ndiff /\ got.offset = Closest(m, Min(I)).offset)
    BY <1>2, MatchIs
  <2>5. Min(whole) \in C
    BY <2>3
  <2>6. HoldsAt(m, Min(whole), Closest(m, Min(whole)).offset) /\ Closest(m, Min(whole)).ndiff = 0
    BY <1>4, <2>3, <2>5
  <2> HIDE DEF whole, I, C, got
  <2> QED
    BY <2>2, <2>4, <2>5, <2>6
<1> QED
  BY <1>2, <1>5 DEF MatchTrue, Offsets, Bound

(* A survey's tables count its results alike, none that is no longer exact *)
(* goes unsaid, and a file is matched with the first candidate that holds  *)
(* the whole of it, for any results, images and bounds (survey.py).        *)
THEOREM TablesAreTrue == StudiesSpec => []TablesTrue
<1>1. StudiesInit => TablesStart
  <2>1. ASSUME SurveyInit \/ CacheInit \/ ManifestInit \/ FuzzInit \/ HistoryInit
        PROVE  s.area \notin {"tables", "match"}
    BY <2>1, FuzzApart, HistoryApart DEF SurveyInit, CacheInit, ManifestInit
  <2>2. ASSUME TablesInit PROVE TablesStart
    BY <2>2 DEF TablesInit, TablesStart
  <2> QED
    BY <2>1, <2>2 DEF StudiesInit, TablesStart
<1>2. TablesStart /\ [StudiesNext]_s => TablesStart'
  <2> SUFFICES ASSUME TablesStart, [StudiesNext]_s PROVE TablesStart'
    OBVIOUS
  <2>1. ASSUME StudiesNext PROVE s'.area \notin {"tables", "match"}
    <3>1. CASE SurveyStep \/ SurveyDies \/ CacheStep
      BY <3>1, OtherSteps
    <3>2. CASE FuzzStep \/ HistoryStep
      BY <3>2, FuzzApart, HistoryApart
    <3> QED
      BY <2>1, <3>1, <3>2 DEF StudiesNext
  <2>2. CASE UNCHANGED s
    BY <2>2 DEF TablesStart
  <2> QED
    BY <2>1, <2>2 DEF TablesStart
<1>3. TablesStart => TablesTrue
  BY CountsAreTrue, MatchesAreTrue DEF TablesTrue
<1> QED
  BY <1>1, <1>2, <1>3, PTL DEF StudiesSpec
=============================================================================
