------------------------------ MODULE FaultLoc ------------------------------
(***************************************************************************)
(* Fault localisation (faultloc.py): the frames of a corpus of tunes, of   *)
(* which the onsets fail, score the features they run and pair those of    *)
(* the two sides; of each failing tune they tell where the sides part, and *)
(* so the keys that may be its cause, of which the fewest that explain all *)
(* tunes are the fixes.                                                    *)
(***************************************************************************)
EXTENDS Integers, Sequences, SequencesExt, FiniteSets, FiniteSetsExt, Functions

LOCAL SumOf(S, W(_)) == MapThenSumSet(W, S)
LOCAL Floor_(x) == CHOOSE r \in 0..1000 : r * r <= x /\ x < (r + 1) * (r + 1)

-----------------------------------------------------------------------------
(* A sample of a tune is [frames, onset, extra, rank, relevant]: the       *)
(* features of each frame, from 1, its failing frame or 0, the features    *)
(* every frame has, the rank of those that ran at the onset, and what the  *)
(* diverging register depends on.  A spectrum is [rows, samples, side]:    *)
(* weighted rows [tune, x, fail, weight], and each feature's side, 0, 1    *)
(* or 2.                                                                   *)

\* Frames after the onset are dropped, equal frames of a tune are one row.
Hit(sample) == 1 <= sample.onset /\ sample.onset <= Len(sample.frames)
build_spectrum(samples, side) ==
    LET Upto(t) == IF Hit(samples[t]) THEN samples[t].onset ELSE Len(samples[t].frames)
        Key(t, n) == <<samples[t].frames[n], Hit(samples[t]) /\ n = samples[t].onset>>
        Rows(t) == {[tune |-> t, x |-> k[1] \union samples[t].extra, fail |-> k[2],
                     weight |-> Cardinality({n \in 1..Upto(t) : Key(t, n) = k})] :
                      k \in {Key(t, n) : n \in 1..Upto(t)}}
    IN  [rows |-> UNION {Rows(t) : t \in DOMAIN samples}, samples |-> samples, side |-> side]
fail_rows(spec) == {r \in spec.rows : r.fail}
Passing(spec) == spec.rows \ fail_rows(spec)

counts(spec, f) ==
    [ef |-> SumOf({r \in fail_rows(spec) : f \in r.x}, LAMBDA r : r.weight),
     ep |-> SumOf({r \in Passing(spec) : f \in r.x}, LAMBDA r : r.weight),
     nfail |-> SumOf(fail_rows(spec), LAMBDA r : r.weight)]
\* In thousandths.
ochiai(spec, f) ==
    LET c == counts(spec, f)
    IN  IF c.ef = 0 THEN 0 ELSE Floor_((1000000 * c.ef * c.ef) \div (c.nfail * (c.ef + c.ep)))

-----------------------------------------------------------------------------
(* Pairs of the sides' features.                                           *)

Features(spec) == UNION {r.x : r \in spec.rows}
Indicator(spec, f) == {r \in Passing(spec) : f \in r.x}

\* Ten times the rows both run in, and ten times those either does, of the tunes both
\* run in.
Jaccard(spec, f, g) ==
    LET Blamed(h) == {r.tune : r \in Indicator(spec, h)}
        both == Blamed(f) \intersect Blamed(g)
        Mass(S) == SumOf({r \in S : r.tune \in both}, LAMBDA r : r.weight)
        inter == Mass(Indicator(spec, f) \intersect Indicator(spec, g))
    IN  [inter |-> inter,
         union |-> Mass(Indicator(spec, f)) + Mass(Indicator(spec, g)) - inter]
LOCAL Closer(a, b) == a.inter * b.union > b.inter * a.union

\* The partners of a feature: those of its own rows, else the closest, which agree in
\* nine rows of ten.
partners(spec, f) ==
    LET live == {g \in Features(spec) : spec.side[g] > 0 /\ Indicator(spec, g) # {}}
        other == {g \in live : spec.side[g] # spec.side[f]}
        exact == {g \in other : Indicator(spec, g) = Indicator(spec, f)}
        near  == {g \in other : LET j == Jaccard(spec, f, g)
                                IN  j.union > 0 /\ 10 * j.inter >= 9 * j.union}
    IN  IF f \notin live THEN {}
        ELSE IF exact # {} THEN exact
        ELSE {g \in near : \A h \in near : ~Closer(Jaccard(spec, f, h), Jaccard(spec, f, g))}
correspond(spec) == [f \in Features(spec) |-> partners(spec, f)]

-----------------------------------------------------------------------------
(* Causes.  Corr is the correspondence, stores the features that are       *)
(* stores.                                                                 *)

NoPart == [left |-> "", right |-> "", relevant |-> FALSE]

\* Mutant: the last of them.
_last_per(rank, on) == IF on = {} THEN "" ELSE CHOOSE f \in on : \A g \in on : rank[g] <= rank[f]
_first_per(rank, on) == IF on = {} THEN "" ELSE CHOOSE f \in on : \A g \in on : rank[f] <= rank[g]

\* Where each side first departs at the onset of a tune: by rank the first of its
\* features none of whose partners runs, of those that are relevant if any is.
partings(spec, corr, tune, stores) ==
    LET s    == spec.samples[tune]
        ran  == {f \in DOMAIN s.rank : corr[f] # {} /\ f \notin stores}
        away == {f \in ran : corr[f] \intersect ran = {}}
        rel  == away \intersect s.relevant
        from == IF rel # {} THEN rel ELSE away
        First_(d) == _first_per(s.rank, {f \in from : spec.side[f] = d})
    IN  [left |-> First_(1), right |-> First_(2), relevant |-> rel # {}]

\* Its candidate keys <<kind, name, partners>>; pair has the last stores to the register.
candidates(spec, corr, row, stores, pair) ==
    LET part == partings(spec, corr, row.tune, stores)
        seen == UNION {r.x : r \in {q \in Passing(spec) : q.tune = row.tune}}
        on   == {f \in row.x : spec.side[f] > 0}
        lone == {f \in on : corr[f] \intersect row.x = {} /\ (corr[f] # {} \/ f \notin seen)}
        Score(f) == ochiai(spec, f)
        from == IF lone # {} THEN lone ELSE on
        info == {f \in row.x \intersect spec.samples[row.tune].extra :
                   from = {} \/ Score(f) >= Max({Score(g) : g \in from})}
        paths == {<<"path", f, corr[f]>> : f \in lone}
    IN  IF part.left # "" \/ part.right # ""
        THEN {<<"first", f, {}>> : f \in {part.left, part.right} \ {""}}
        ELSE (IF paths # {} THEN paths ELSE IF pair = {} THEN {<<"unexplained", "", {}>>}
              ELSE {<<"value", "", pair>>})
             \union {<<"info", f, {}>> : f \in info}

key_names(key) == ({key[2]} \ {""}) \union (IF key[1] = "info" THEN {} ELSE key[3])
key_score(spec, key) ==
    Max({ochiai(spec, f) : f \in key_names(key) \intersect Features(spec)} \union {0})

-----------------------------------------------------------------------------
(* Fixes.  cands are the candidate sets of the failing rows, score a       *)
(* function of their keys.                                                 *)

Covers(cover, cands) == \A i \in DOMAIN cands : cands[i] = {} \/ cands[i] \intersect cover # {}
Covered(key, cands, left) == Cardinality({i \in left : key \in cands[i]})

\* The least cover, of the highest score among them.
_milp_cover(keys, cands, score) ==
    LET covers == {c \in SUBSET keys : Covers(c, cands)}
        least  == {c \in covers : \A d \in covers : Cardinality(c) <= Cardinality(d)}
        Total(c) == SumOf(c, LAMBDA k : score[k])
    IN  CHOOSE c \in least : \A d \in least : Total(d) <= Total(c)

RECURSIVE Greedy(_, _, _, _)
Greedy(keys, cands, score, left) ==
    IF left = {} THEN {}
    ELSE LET Over(a, b) == \/ Covered(a, cands, left) > Covered(b, cands, left)
                           \/ Covered(a, cands, left) = Covered(b, cands, left) /\ score[a] > score[b]
             k == CHOOSE a \in keys : \A b \in keys : ~Over(b, a)
         IN  {k} \union Greedy(keys, cands, score, {i \in left : k \notin cands[i]})

\* Exact to a limit of the keys; the cover in the order of the sets hit, then of score.
min_cover(cands, score, exact_limit) ==
    LET keys == UNION Range(cands)
        pick == IF Cardinality(keys) <= exact_limit THEN _milp_cover(keys, cands, score)
                ELSE Greedy(keys, cands, score, {i \in DOMAIN cands : cands[i] # {}})
        n(k) == Covered(k, cands, DOMAIN cands)
    IN  SortSeq(SetToSeq(pick), LAMBDA a, b : n(a) > n(b) \/ (n(a) = n(b) /\ score[a] > score[b]))

\* Each failing tune is credited to the first key of the cover that hits it; its
\* earliest onset represents a fix.
rank_fixes(spec, rows, cands, score, exact_limit) ==
    LET cover == min_cover(cands, score, exact_limit)
        Owner(i) == Min({n \in DOMAIN cover : cover[n] \in cands[i]})
        Owned(n) == {i \in DOMAIN cands : cands[i] # {} /\ Owner(i) = n}
        Onset(i) == spec.samples[rows[i].tune].onset
    IN  [n \in DOMAIN cover |->
           [key |-> cover[n], tunes |-> {rows[i].tune : i \in Owned(n)}, score |-> score[cover[n]],
            representative |->
               IF Owned(n) = {} THEN 0
               ELSE Min({rows[i].tune : i \in {j \in Owned(n) : \A k \in Owned(n) : Onset(j) <= Onset(k)}})]]
=============================================================================
