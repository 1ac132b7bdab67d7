------------------------------- MODULE Survey -------------------------------
(***************************************************************************)
(* The survey (survey.py): every subtune of a tune list is compared with   *)
(* its oracle by a renderer of some version; traces, renders and library   *)
(* grids are kept under a work directory, which runs, file comparisons and *)
(* lead tables share (rendercache.py, snapshot.py), and the rows of the    *)
(* results are tallied.  Native files are matched with tunes by their      *)
(* images.                                                                 *)
(***************************************************************************)
EXTENDS GridCompare

CONSTANT NEAR      \* how many bad frames are near-exact

Abs(x) == IF x < 0 THEN -x ELSE x

-----------------------------------------------------------------------------
(* The work directory, a record                                            *)
(*   trace    the play calls the trace of each subtune covers, 0 for none  *)
(*   render   the frames kept of each <<version, subtune>>, 0 for none     *)
(*   library  the grid kept of each subtune, [by, frames]                  *)
(* and a job on it, a record [op, at, key, by, need, long, seen, verdict,  *)
(* cache]: what it is for, where it is, the renderer's version, the frames *)
(* to compare, how far a fresh trace reaches, the grid it has.             *)

NoGrid == [by |-> 0, frames |-> 0]
Begun(op, key, by, need, long) ==
    [op |-> op, at |-> "oracle", key |-> key, by |-> by, need |-> need, long |-> long,
     trace |-> 0, seen |-> NoGrid, verdict |-> "", cache |-> ""]
Ends(job, verdict) == [job EXCEPT !.at = "done", !.verdict = verdict]

\* The trace: cached, or rendered if there is none or it is known to be short; only a
\* file comparison says how many calls it needs.
oracle_rows(w, job, works) ==
    LET calls == IF job.op = "file" THEN job.need ELSE 0
        kept  == w.trace[job.key]
        fresh == kept = 0 \/ kept < calls
        have  == IF fresh THEN job.long ELSE kept
    IN  [w |-> IF fresh /\ works THEN [w EXCEPT !.trace[job.key] = job.long] ELSE w,
         error |-> IF fresh /\ ~works THEN "unavailable" ELSE IF have < calls THEN "short" ELSE "",
         calls |-> have]

\* The oracle's frames of a job; works tells whether sidtrace can render.  Without it a
\* file's own player is run instead.
oracle_frames(w, job, works) ==
    LET t == oracle_rows(w, job, works)
        alone == t.error = "unavailable" /\ job.op = "file"
        have == [job EXCEPT !.trace = IF alone THEN job.need ELSE t.calls, !.at = "render"]
    IN  [w |-> t.w,
         job |-> IF ~alone /\ (t.error # "" \/ t.calls < job.need) THEN Ends(job, "oracle_error") ELSE have]

\* The mutant of get: an entry is a hit whatever its length.
get_any(w, by, key, frames) == w.render[<<by, key>>] > 0

\* The render cache: an entry at least as long is a hit, another is replaced.
get(w, by, key, frames) == w.render[<<by, key>>] >= frames
put(w, by, key, frames) == [w EXCEPT !.render[<<by, key>>] = frames]

\* A lead table reads a library grid if there is one, a run looks for a render of its
\* version; else the renderer raises, is late, or yields the frames.
Wanted(job) == job.need + LEAD
rendered(w, job, outcome) ==
    LET n    == Wanted(job)
        hit  == job.op = "run" /\ get(w, job.by, job.key, n)
        grid == [by |-> job.by, frames |-> IF hit THEN Least(n, w.render[<<job.by, job.key>>]) ELSE n]
        kept == job.op = "leads" /\ w.library[job.key] # NoGrid
        next == [job EXCEPT !.at = IF job.op = "run" /\ ~hit THEN "put" ELSE "keep", !.cache = IF hit THEN "hit" ELSE "miss"]
    IN  CASE kept -> [w |-> w, job |-> [next EXCEPT !.at = "row", !.seen = w.library[job.key]]]
          [] ~kept /\ outcome # "grid" -> [w |-> w, job |-> Ends(job, outcome)]
          [] ~kept /\ outcome = "grid" ->
                [w |-> w, job |-> IF grid.frames < n THEN Ends(job, "library_error")
                                  ELSE [next EXCEPT !.seen = grid]]

\* What was rendered on a miss replaces what is there by now.
Rendered(w, job) ==
    [w |-> put(w, job.by, job.key, job.seen.frames), job |-> [job EXCEPT !.at = "keep"]]

\* write_grid, for a run and a lead table.
Keep(w, job) ==
    [w |-> IF job.op = "file" THEN w ELSE [w EXCEPT !.library[job.key] = job.seen],
     job |-> [job EXCEPT !.at = "row"]]

check(w, job, works, outcome) ==
    CASE job.at = "oracle" -> oracle_frames(w, job, works)
      [] job.at = "render" -> rendered(w, job, outcome)
      [] job.at = "put"    -> Rendered(w, job)
      [] job.at = "keep"   -> Keep(w, job)
      [] job.at = "row"    -> [w |-> w, job |-> Ends(job, "compared")]

\* The worker raised or died.
_failed(job) == Ends(job, "library_error")

-----------------------------------------------------------------------------
(* Tallies of results, functions of the subtunes to [verdict, min_bad,     *)
(* first]; the rows of older surveys have no min_bad.                      *)

NoBad == -1
Bad(row) == IF row.min_bad = NoBad THEN 0 ELSE row.min_bad

Verdict(rows, k) == IF k \in DOMAIN rows THEN rows[k].verdict ELSE "missing"
First(rows, k) == IF k \in DOMAIN rows THEN rows[k].first ELSE 0

Tallied(S, Of(_)) == [x \in {Of(k) : k \in S} |-> Cardinality({k \in S : Of(k) = x})]

tally(rows, keys) ==
    [verdicts |-> Tallied(keys, LAMBDA k : Verdict(rows, k)),
     bad |-> Tallied({k \in keys : Verdict(rows, k) = "differs"},
                     LAMBDA k : Least(Bad(rows[k]), NEAR + 1))]

transitions(base, rows) ==
    [moves |-> Tallied(DOMAIN rows, LAMBDA k : <<Verdict(base, k), rows[k].verdict>>),
     lost |-> {k \in (DOMAIN rows) \intersect (DOMAIN base) :
                 base[k].verdict = "exact" /\ rows[k].verdict # "exact"}]

changes(base, head) ==
    {k \in (DOMAIN base) \union (DOMAIN head) :
       Verdict(base, k) # Verdict(head, k) \/ First(base, k) # First(head, k)}

near_exact(rows) ==
    {k \in DOMAIN rows : /\ rows[k].verdict = "differs"
                         /\ rows[k].min_bad # NoBad /\ rows[k].min_bad <= NEAR}

-----------------------------------------------------------------------------
(* Matching: images are sequences of bytes in a body of Width.             *)

\* The mutant of _overlap: the bytes a candidate holds past the query's end count.
_overlap_past(cand, q, d) ==
    LET from == Most(0, -d)
        m == IF d >= 0 THEN Most(0, Len(cand) - d) ELSE Most(0, Least(Len(q) + d, Len(cand)))
    IN  [m |-> m, eq |-> Cardinality({k \in 1..m : from + k \in DOMAIN q /\ cand[Most(0, d) + k] = q[from + k]})]

\* How many bytes two images both hold at an offset, and how many of them agree.
_overlap(cand, q, d) ==
    LET from == Most(0, -d)     \* where the candidate's first compared byte meets the query
        m == IF d >= 0 THEN Most(0, Least(Len(q), Len(cand) - d))
             ELSE Most(0, Least(Len(q) + d, Len(cand)))
    IN  [m |-> m, eq |-> Cardinality({k \in 1..m : cand[Most(0, d) + k] = q[from + k]})]

\* The closest candidate, and the offset and the differing bytes it has there.
match_images(cands, q, width, max_offset, length_guard) ==
    LET bound == Least(max_offset, width - 1)
        penalty == 3 * width + 1
        At(c, d) ==
            LET o == _overlap(cands[c], q, d)
            IN  [offset |-> d, eq |-> o.eq, ndiff |-> o.m - o.eq,
                 score |-> (IF Abs(Len(cands[c]) - Len(q)) > length_guard THEN penalty ELSE 0)
                           + (IF o.m = 0 THEN penalty ELSE 0) - 2 * o.eq + o.m - o.eq]
        Before(a, b) == \/ a.score < b.score
                        \/ a.score = b.score /\ Abs(a.offset) < Abs(b.offset)
                        \/ a.score = b.score /\ Abs(a.offset) = Abs(b.offset) /\ a.offset < b.offset
        \* the offsets in the order of their size, the first of the best
        best == [c \in DOMAIN cands |->
                   CHOOSE a \in {At(c, d) : d \in (-bound)..bound} :
                       \A d \in (-bound)..bound : ~Before(At(c, d), a)]
        i == Min({c \in DOMAIN cands : \A e \in DOMAIN cands : best[c].score <= best[e].score})
    IN  [candidate |-> i, length |-> Len(q), ndiff |-> best[i].ndiff, offset |-> best[i].offset,
         eq |-> best[i].eq]
=============================================================================
