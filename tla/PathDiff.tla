------------------------------ MODULE PathDiff ------------------------------
(***************************************************************************)
(* Path differencing (pathdiff.py): where the register grids of two sides  *)
(* first part, the rows of features kept of the frames up to there, the    *)
(* cache of these records, which outlives its builds and their crashes,    *)
(* and the manifest of cases that later analyses merge into.               *)
(***************************************************************************)
EXTENDS GridCompare, Functions

-----------------------------------------------------------------------------
(* A trace of a side is [grid, frames, order, sites]: the registers after  *)
(* each call, the features it ran, the rank of each of them and the last   *)
(* site to store to each register, "" if none did.  Frames count from 1, a *)
(* cut's frame and register are 0 if the grids do not part.                *)

Voices(grid) == Len(grid[1]) \div VoiceRegs
gate_starts(grid) ==
    [v \in 1..Voices(grid) |->
       Min({f \in DOMAIN grid : grid[f][v * VoiceRegs] % 2 = 1} \union {Len(grid) + 1})
       % (Len(grid) + 1)]

\* A frame of the alignment on the left or right side.
at(cut, right, frame) == frame + Most(IF right THEN cut.lead ELSE -cut.lead, 0)

\* The first register that differs at a lead's first bad frame.
FirstReg(lg, rg, cut) ==
    LET l == lg[at(cut, FALSE, cut.frame)] r == rg[at(cut, TRUE, cut.frame)]
    IN  Min({k \in DOMAIN l : l[k] # r[k]})
compare(lg, rg, mode, starts) ==
    IF mode = "lead"
    THEN LET Cut(v) == [lead |-> v.lead, size |-> v.n - Most(-v.lead, 0), frame |-> v.first, register |-> 0]
             Found(cut) == IF cut.frame = 0 THEN cut ELSE [cut EXCEPT !.register = FirstReg(lg, rg, cut)]
         IN  Found(Cut(verdict_lead(lg, rg, LEAD, 0)))
    ELSE LET n == Least(Len(lg), Len(rg))
             left == SubSeq(lg, 1, n)
             From == IF starts = <<>> THEN gate_starts(left) ELSE starts
             Cut(onset) == [lead |-> 0, size |-> n,
                            frame |-> IF onset = None_ THEN 0 ELSE onset[1],
                            register |-> IF onset = None_ THEN 0 ELSE onset[2]]
         IN  Cut(verdict_onset(SubSeq(rg, 1, n), From, left, Voices(lg), "carry").onset)

_site(trace, frame, register) ==
    LET hits == {f \in 1..frame : trace.sites[f][register] # ""}
    IN  IF hits = {} THEN "" ELSE trace.sites[Max(hits)][register]

\* How many aligned frames come before the CPU's side parts from the oracle, if it
\* does; ora is <<>> if there is no trace of it or too short a one.
NoHost == <<>>
_host(ora, cpu, cut, right) ==
    IF ora = <<>> \/ Len(cpu) <= LEAD THEN NoHost
    ELSE LET Before(v) == IF v.ok THEN NoHost ELSE <<v.first - 1 + Most(v.lead, 0) - at(cut, right, 0)>>
         IN  Before(verdict_lead(ora, cpu, LEAD, 0))

\* Mutant: the onset itself is not kept.
KeptBefore(cut) == IF cut.frame = 0 THEN cut.size ELSE cut.frame - 1
Kept(cut) == IF cut.frame = 0 THEN cut.size ELSE cut.frame

\* Distinct passing rows with their counts, then the failing row.
_unique_rows(rows, fail) ==
    LET pass == IF fail THEN Front(rows) ELSE rows
    IN  [count |-> [r \in Range(pass) |-> Cardinality({n \in DOMAIN pass : pass[n] = r})],
         failing |-> IF fail THEN <<Last(rows)>> ELSE <<>>]

\* The record of the first keep frames of a cut; drop: its onset is not among them.
Rows_(tl, tr, cut, keep, drop) ==
    LET l(n)  == at(cut, FALSE, n)   r(n) == at(cut, TRUE, n)
        Row(n) == ({"l"} \X tl.frames[l(n)]) \union ({"r"} \X tr.frames[r(n)])
        fail  == cut.frame # 0
        onset == IF fail THEN Row(cut.frame) ELSE {}
    IN  [rows |-> _unique_rows([n \in 1..keep |-> Row(n)], fail),
         names |-> UNION {Row(n) : n \in 1..keep}, cut |-> cut, host |-> drop, keep |-> keep,
         rank |-> [x \in onset |-> IF x[1] = "l" THEN tl.order[l(cut.frame)][x[2]]
                                   ELSE tr.order[r(cut.frame)][x[2]]],
         left |-> IF fail THEN _site(tl, l(cut.frame), cut.register) ELSE "",
         right |-> IF fail THEN _site(tr, r(cut.frame), cut.register) ELSE ""]

\* Both sides' rows to their onset, of which those from where a CPU's side parts from
\* the oracle are dropped; cpu says which side it is, if any.
record(tl, tr, mode, starts, ora, cpu) ==
    LET Dropped(cut, host) ==
          IF host # NoHost /\ host[1] < Kept(cut)
          THEN Rows_(tl, tr, [cut EXCEPT !.frame = 0, !.register = 0], Most(host[1], 0), TRUE)
          ELSE Rows_(tl, tr, cut, Kept(cut), FALSE)
        At(cut) == Dropped(cut, IF cpu = "" THEN NoHost
                                ELSE _host(ora, IF cpu = "right" THEN tr.grid ELSE tl.grid, cut, cpu = "right"))
    IN  At(compare(tl.grid, tr.grid, mode, starts))

_outcome(rec) ==
    CASE rec.cut.frame # 0 -> "differs"
      [] rec.cut.frame = 0 /\ rec.host -> "host_mismatch"
      [] OTHER -> "agrees"

\* The frames of a record, without the order of the passing ones, and its onset.
_matrix(rec) ==
    [frames |-> rec.rows.count, failing |-> rec.rows.failing,
     onset |-> IF rec.rows.failing = <<>> THEN 0 ELSE 1 + SumFunction(rec.rows.count)]

\* The reference frames of a case.  Mutant: those to the onset.
OnsetFrames(rec, mode) == rec.cut.frame
case_frames(rec, mode) == rec.cut.frame + (IF mode = "lead" THEN 2 * LEAD ELSE 0)

-----------------------------------------------------------------------------
(* The cache of a pair: d is [meta, vocab, torn, tunes, temps, cut], torn if *)
(* the last line of the vocabulary lacks its end.  temps are the temporary  *)
(* files that builds have left whole, cut the keys of those they have left  *)
(* in part.  A tune's file has the line numbers of its features, none if it *)
(* is an error; the names and the meta it was recorded with are history.  A *)
(* name is a line of one part.                                              *)

NoMeta == [format |-> 0, compare |-> "", prefixes |-> FALSE]
TornMeta == [format |-> 0, compare |-> "torn", prefixes |-> FALSE]
Empty == [meta |-> NoMeta, vocab |-> <<>>, torn |-> FALSE, tunes |-> <<>>, temps |-> <<>>, cut |-> {}]

\* A builder: where it is, the tunes it has to record, the lines it knows, the meta it
\* wants and the record it has to keep, <<key, names>>.
Builder(at_, todo, ids, meta, rec) ==
    [at |-> at_, todo |-> todo, ids |-> ids, meta |-> meta, rec |-> rec]
Ended_(at_) == Builder(at_, {}, <<>>, NoMeta, <<>>)
NoBuilder == Ended_("none")
Quiet(b) == b.at \in {"none", "refused"} \/ (b.at = "build" /\ b.todo = {})

Lines(d) == [n \in Range(d.vocab) |-> Max({i \in DOMAIN d.vocab : d.vocab[i] = n})]

\* The rows of the results that are selected, a tune at a time.
select(verdict, wanted) == {k \in DOMAIN verdict : verdict[k] \in wanted}

\* Mutant: a forced build begins a vocabulary.
Rebuild(d, selected, force, want) ==
    LET bare == IF force THEN [d EXCEPT !.meta = NoMeta, !.vocab = <<>>, !.torn = FALSE] ELSE d
    IN  [d |-> bare,
         b |-> Builder("check", {k \in selected : force \/ k \notin DOMAIN d.tunes}, Lines(bare), want, <<>>)]
\* A build begins; if it is forced it removes the meta.
build(d, selected, force, want) ==
    LET todo == {k \in selected : force \/ k \notin DOMAIN d.tunes}
    IN  [d |-> IF force THEN [d EXCEPT !.meta = NoMeta] ELSE d,
         b |-> Builder("check", todo, Lines(d), want, <<>>)]

\* A cache of another format or comparison is refused, and one whose meta is torn.
_check_format(meta, format) == meta = NoMeta \/ meta.format = format
Refused(meta, want) ==
    ~(_check_format(meta, want.format) /\ (meta = NoMeta \/ meta.compare = want.compare))
\* The meta is checked and emptied ...
_meta(d, b) ==
    IF Refused(d.meta, b.meta) THEN [d |-> d, b |-> Ended_("refused")]
    ELSE [d |-> [d EXCEPT !.meta = TornMeta],
          b |-> Builder("meta", b.todo, b.ids, [b.meta EXCEPT !.prefixes = d.meta.prefixes], b.rec)]
\* ... and written.
MetaOf(d, b) ==
    [d |-> [d EXCEPT !.meta = b.meta],
     b |-> Builder(IF b.rec = <<>> THEN "build" ELSE "names", b.todo, b.ids, b.meta, b.rec)]

\* A worker's record comes; from the first that is no error the meta has the prefixes.
Received(d, b, key, names) ==
    LET Next(at_, meta) == Builder(at_, b.todo \ {key}, b.ids, meta, <<key, names>>)
    IN  IF names = <<>> \/ b.meta.prefixes THEN [d |-> d, b |-> Next("names", b.meta)]
        ELSE [d |-> [d EXCEPT !.meta = TornMeta], b |-> Next("meta", [b.meta EXCEPT !.prefixes = TRUE])]

\* The names that are new, each once.
New(ids, names) ==
    LET new[n \in 0..Len(names)] ==
            IF n = 0 THEN <<>>
            ELSE IF names[n] \in (DOMAIN ids) \union Range(new[n - 1]) THEN new[n - 1]
            ELSE Append(new[n - 1], names[n])
    IN  new[Len(names)]

\* Lines appended to the vocabulary; after a torn line the first of them ends it.
Appended(d, lines) ==
    IF lines = <<>> THEN d
    ELSE [d EXCEPT !.vocab = IF d.torn THEN Front(@) \o <<Last(@) \o Head(lines)>> \o Tail(lines)
                             ELSE @ \o lines,
                   !.torn = FALSE]
_Vocab(ids, names) ==
    LET new == New(ids, names)
    IN  [n \in (DOMAIN ids) \union Range(new) |->
           IF n \in DOMAIN ids THEN ids[n]
           ELSE Cardinality(DOMAIN ids) + Max({i \in DOMAIN new : new[i] = n})]

Set(f, key, file) == [k \in {key} \union DOMAIN f |-> IF k = key THEN file ELSE f[k]]
Unset(f, key) == [k \in (DOMAIN f) \ {key} |-> f[k]]

\* _save: the record's names get their lines, which are appended, and its temporary file
\* is opened ...
Named(d, b) ==
    LET names == b.rec[2]
        grown == Appended(d, New(b.ids, names))
    IN  [d |-> [grown EXCEPT !.temps = Unset(d.temps, b.rec[1]), !.cut = d.cut \union {b.rec[1]}],
         b |-> Builder("temp", b.todo, _Vocab(b.ids, names), b.meta, b.rec)]
\* ... and written, ...
File(b) ==
    [feat |-> [n \in DOMAIN b.rec[2] |-> b.ids[b.rec[2][n]]], names |-> b.rec[2], meta |-> b.meta]
Zipped(d, b) ==
    [d |-> [d EXCEPT !.temps = Set(d.temps, b.rec[1], File(b)), !.cut = d.cut \ {b.rec[1]}],
     b |-> Builder("replace", b.todo, b.ids, b.meta, b.rec)]
\* ... and replaces the tune's.
Replaced(d, b) ==
    [d |-> [d EXCEPT !.tunes = Set(d.tunes, b.rec[1], d.temps[b.rec[1]]), !.temps = Unset(d.temps, b.rec[1])],
     b |-> Builder("build", b.todo, b.ids, b.meta, <<>>)]

\* The process dies while it appends the lines, or before it opens the file.
Cut_(d, b, lines, torn) ==
    LET all == New(b.ids, b.rec[2])
        new == SubSeq(all, 1, Least(lines, Len(all)))
        cut == IF torn /\ new # <<>> THEN Front(new) \o <<Last(new) \o <<"half">>>> ELSE new
    IN  [Appended(d, cut) EXCEPT !.torn = IF new = <<>> THEN @ ELSE torn]

_load(d, file) == [i \in DOMAIN file.feat |-> d.vocab[file.feat[i]]]

\* The analysis loads every file under tunes/.  A temporary one comes after the tune's own
\* and overrides it; errors are left out.
Good(f) == {k \in DOMAIN f : f[k].feat # <<>>}
Records(d) ==
    [k \in Good(d.tunes) \union Good(d.temps) |-> IF k \in Good(d.temps) THEN d.temps[k] ELSE d.tunes[k]]
\* It raises if the meta is missing, torn or another format's, a file is torn, or a
\* feature has no line.
Raises(d, format) ==
    \/ d.meta.format # format \/ d.cut # {}
    \/ \E file \in Range(d.tunes) \union Range(d.temps) : ~(Range(file.feat) \subseteq DOMAIN d.vocab)
analyse(d, format) ==
    IF Raises(d, format) THEN <<>> ELSE [k \in DOMAIN Records(d) |-> _load(d, Records(d)[k])]

-----------------------------------------------------------------------------
(* The manifest, a function of the ids of keys to [key, tune].  Of each    *)
(* tune a world w knows whether a check of it fails and which keys a fresh *)
(* record of it has as candidates; keys that the corpus knows are ranked.  *)

verify_case(w, case) == w.fails[case.tune] /\ case.key \in w.cands[case.tune]

\* A stale case, of a key the corpus lacks, takes its best ranked candidate if it
\* still fails.
Kept_(out, id, case) == [k \in {id} \union DOMAIN out |-> IF k = id THEN case ELSE out[k]]
rekey_one(w, out, id, case) ==
    LET fresh == w.cands[case.tune] \intersect Range(w.fixes)
        best  == w.fixes[Min({n \in DOMAIN w.fixes : w.fixes[n] \in fresh})]
    IN  IF case.key \in w.known \/ ~w.fails[case.tune] \/ fresh = {} THEN Kept_(out, id, case)
        ELSE Kept_(out, best, [key |-> best, tune |-> case.tune])
rekey(w, cases) ==
    LET out[n \in 0..Len(w.ids)] ==
            IF n = 0 THEN <<>>
            ELSE IF w.ids[n] \in DOMAIN cases
                 THEN rekey_one(w, out[n - 1], w.ids[n], cases[w.ids[n]]) ELSE out[n - 1]
    IN  out[Len(w.ids)]

\* Merge the cases of the fixes' representatives; prune drops what a check passes.
xfails(w, cases, check, prune) ==
    LET keyed == IF check THEN rekey(w, cases) ELSE cases
        left  == IF prune /\ check THEN {id \in DOMAIN keyed : w.fails[keyed[id].tune]}
                 ELSE DOMAIN keyed
        case(k) == [key |-> k, tune |-> w.representative[k]]
        made  == {k \in {w.fixes[n] : n \in 1..Least(w.top, Len(w.fixes))} \ left :
                    w.fails[w.representative[k]] /\ (check => verify_case(w, case(k)))}
    IN  [id \in left \union made |-> IF id \in left THEN keyed[id] ELSE case(id)]
=============================================================================
