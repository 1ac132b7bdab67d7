---------------------------- MODULE GridCompare ----------------------------
(***************************************************************************)
(* The comparison of register grids (gridcmp.py, and aligned_match of      *)
(* oracle.py): kept as changes in a file, compared at every lead and from  *)
(* the onset of each voice.  Frames count from 1; a grid is a sequence of  *)
(* rows, a row a sequence of the bytes of the registers.                   *)
(***************************************************************************)
EXTENDS Integers, Sequences, SequencesExt, FiniteSets, FiniteSetsExt, TLC

CONSTANTS
    LEAD,           \* how far a render is shifted against the oracle
    VoiceRegs,      \* registers of a voice: the first two its frequency, low and high
    Bytes,          \* values of a byte
    FcLow           \* values of the low part of the cutoff

ASSUME LeadAssumption == LEAD \in Nat

Least(a, b) == IF a < b THEN a ELSE b
Most(a, b) == IF a > b THEN a ELSE b
None_ == <<>>

-----------------------------------------------------------------------------
(* The file: the changes <<frame, register, value>> of a grid.             *)

write_grid(grid) ==
    {<<x[1], x[2], grid[x[1]][x[2]]>> : x \in
        {c \in (DOMAIN grid) \X (DOMAIN grid[1]) : c[1] = 1 \/ grid[c[1]][c[2]] # grid[c[1] - 1][c[2]]}}

\* Read back to nframes, 0 to the last change, each register from its last change on.
read_grid(file, nregs, nframes) ==
    LET n == IF nframes = 0 THEN Max({c[1] : c \in file} \union {1}) ELSE nframes
        Last_(f, r) == {c \in file : c[2] = r /\ c[1] <= f}
        At(f, r) == CHOOSE c \in Last_(f, r) : \A d \in Last_(f, r) : d[1] <= c[1]
    IN  [f \in 1..n |-> [r \in 1..nregs |-> IF Last_(f, r) = {} THEN 0 ELSE At(f, r)[3]]]

-----------------------------------------------------------------------------
(* The leads.  A scan is a sequence of [lead, size, bad, first, regs], in  *)
(* the order of |lead|: the frames compared, which of them differ, the     *)
(* first of these (size + 1 if none) and the registers that do.            *)

\* The mutant of FirstBad: no difference looks like one in the last frame.
FirstBadWithin(bad, size) == Min(bad \union {size})

FirstBad(bad, size) == Min(bad \union {size + 1})

scan_leads(oracle, lib, max_lead) ==
    LET n == Len(oracle)
        shifts == (-Least(max_lead, n - 1))..max_lead
        \* Of two as far, the one back is first: the sort is stable.
        Far(x) == IF x < 0 THEN -(2 * x) - 1 ELSE 2 * x
        leads == [k \in 1..Cardinality(shifts) |->
                    CHOOSE x \in shifts : Cardinality({y \in shifts : Far(y) < Far(x)}) = k - 1]
        Of(lead) ==
            LET size == n - Most(-lead, 0)
                ne == {c \in (1..size) \X (DOMAIN oracle[1]) :
                         oracle[c[1] + Most(-lead, 0)][c[2]] # lib[c[1] + Most(lead, 0)][c[2]]}
                bad == {c[1] : c \in ne}
            IN  [lead |-> lead, size |-> size, bad |-> bad, regs |-> {c[2] : c \in ne},
                 first |-> FirstBad(bad, size)]
    IN  [k \in DOMAIN leads |-> Of(leads[k])]

\* The scan's first entry no other is better than.
Best(scan, Better(_, _)) ==
    scan[Min({k \in DOMAIN scan : \A j \in DOMAIN scan : ~Better(scan[j], scan[k])})]
latest(scan) == Best(scan, LAMBDA a, b : a.first > b.first)
min_lead(scan) == Best(scan, LAMBDA a, b : Cardinality(a.bad) < Cardinality(b.bad))

Fields(at, least) ==
    [verdict |-> IF at.bad = {} THEN "exact" ELSE "differs", lead |-> at.lead,
     first_diff |-> IF at.bad = {} THEN 0 ELSE at.first, diff_frames |-> Cardinality(at.bad),
     diff_regs |-> at.regs, min_lead |-> least.lead, min_bad |-> Cardinality(least.bad),
     min_first |-> IF least.bad = {} THEN 0 ELSE least.first, min_regs |-> least.regs]
verdict_fields(scan) == Fields(latest(scan), min_lead(scan))

\* The shifts compared leave the render max_shift frames past the oracle's last.
Compared(a, b, max_shift) == Least(Len(a), Len(b) - max_shift)
compare_grids(a, b, max_shift) ==
    verdict_fields(scan_leads(SubSeq(a, 1, Compared(a, b, max_shift)), b, max_shift))

\* The lead-criterion verdict; whole is the song's length, 0 if unknown.
verdict_lead(oracle, lib, max_lead, whole) ==
    LET n == Compared(oracle, lib, max_lead)
        Told(v) == [ok |-> v.verdict = "exact", error |-> "", n |-> n, lead |-> v.lead,
                    first |-> v.first_diff, nbad |-> v.diff_frames, min_bad |-> v.min_bad]
    IN  IF whole # 0 /\ (Len(oracle) < whole \/ Len(lib) < whole + max_lead)
        THEN [ok |-> FALSE, error |-> "IncompleteComparison"]
        ELSE IF n < 1 THEN [ok |-> FALSE, error |-> "ValueError"]
        ELSE Told(compare_grids(oracle, lib, max_lead))

\* The oracle after a lead-in of frames equal to the first.
aligned_match(oracle, rendered, max_lead) ==
    /\ rendered # <<>>
    /\ \E lead \in 0..max_lead :
        /\ lead <= Len(rendered)
        /\ \A k \in 1..lead : rendered[k] = rendered[1]
        /\ Len(rendered) >= lead + Len(oracle)
        /\ \A f \in DOMAIN oracle : oracle[f] = rendered[lead + f]

-----------------------------------------------------------------------------
(* The onsets.  starts has a first frame, or 0 for none, of each voice.    *)

\* Each voice's registers from its first note, the shared ones from the earliest.
onset_mask(grid, starts) ==
    LET begun == {starts[v] : v \in DOMAIN starts} \ {0}
        Shared(r) == r > VoiceRegs * Len(starts)
        Voice(r) == starts[((r - 1) \div VoiceRegs) + 1]
        In(f, r) == IF Shared(r) THEN begun # {} /\ f >= Min(begun) ELSE Voice(r) # 0 /\ f >= Voice(r)
    IN  {c \in (DOMAIN grid) \X (DOMAIN grid[1]) : In(c[1], c[2])}

\* The cells of a frequency, or of the cutoff after the voices, that differ by one.
carry(ours, theirs, voices) ==
    LET Off(a, b, m) == (a - b) % m = 1 \/ (b - a) % m = 1
        Freq(row, v) == row[(v - 1) * VoiceRegs + 2] * Bytes + row[(v - 1) * VoiceRegs + 1]
        lo == voices * VoiceRegs + 1
        Fc(row) == row[lo + 1] * FcLow + row[lo]
        Frames_ == (DOMAIN ours) \intersect (DOMAIN theirs)
    IN  (UNION {UNION {{<<f, (v - 1) * VoiceRegs + 1>>, <<f, (v - 1) * VoiceRegs + 2>>} :
                         f \in {g \in Frames_ : Off(Freq(ours[g], v), Freq(theirs[g], v), Bytes * Bytes)}} :
                  v \in 1..voices})
        \union (UNION {{<<f, lo>>, <<f, lo + 1>>} :
                         f \in {g \in Frames_ : Off(Fc(ours[g]), Fc(theirs[g]), FcLow * Bytes)}})

\* The differing cells <<frame, register, ours, theirs>>, in order; starts <<>> for every
\* register from the first frame.
cell_diff(ours, theirs, voices, starts, tol) ==
    LET n   == Least(Len(ours), Len(theirs))
        a   == SubSeq(ours, 1, n)   b == SubSeq(theirs, 1, n)
        all == {c \in (1..n) \X (IF n = 0 THEN {} ELSE DOMAIN a[1]) : a[c[1]][c[2]] # b[c[1]][c[2]]}
        in  == all \intersect (IF starts = <<>> \/ n = 0 THEN all ELSE onset_mask(a, starts))
        bad == in \ (IF tol = "carry" THEN carry(a, b, voices) ELSE {})
        Cell(cells, f, r) == IF <<f, r>> \in bad THEN Append(cells, <<f, r, a[f][r], b[f][r]>>) ELSE cells
        Row(cells, f) == FoldLeftDomain(LAMBDA g, r : Cell(g, f, r), cells, a[f])
    IN  FoldLeftDomain(Row, <<>>, a)
first_mismatch(cells) == IF cells = <<>> THEN None_ ELSE <<cells[1][1], cells[1][2]>>

\* The mutant of runs: a segment goes on while ours does.
runs_of_ours(cells, register) ==
    LET Add(rs, c) ==
            LET run == Last(rs) seg == Last(run.values) new == <<c[1], c[1], c[3], c[4]>>
            IN  IF c[2] # register THEN rs
                ELSE IF rs = <<>> \/ c[1] # run.to + 1
                THEN Append(rs, [from |-> c[1], to |-> c[1], values |-> <<new>>])
                ELSE Append(Front(rs),
                            [run EXCEPT !.to = c[1],
                                        !.values = IF seg[3] = c[3]
                                                   THEN Append(Front(@), [seg EXCEPT ![2] = c[1]])
                                                   ELSE Append(@, new)])
    IN  FoldLeft(Add, <<>>, cells)

\* The differing cells of a register as runs of frames [from, to, values], values the
\* segments <<from, to, ours, theirs>> of constant value.
runs(cells, register) ==
    LET Add(rs, c) ==
            LET run == Last(rs) seg == Last(run.values) new == <<c[1], c[1], c[3], c[4]>>
            IN  IF c[2] # register THEN rs
                ELSE IF rs = <<>> \/ c[1] # run.to + 1
                THEN Append(rs, [from |-> c[1], to |-> c[1], values |-> <<new>>])
                ELSE Append(Front(rs),
                            [run EXCEPT !.to = c[1],
                                        !.values = IF seg[3] = c[3] /\ seg[4] = c[4]
                                                   THEN Append(Front(@), [seg EXCEPT ![2] = c[1]])
                                                   ELSE Append(@, new)])
    IN  FoldLeft(Add, <<>>, cells)

verdict_onset(ours, starts, theirs, voices, tol) ==
    LET Told(cells, whole) ==
          [ok |-> cells = <<>> /\ Len(ours) = Len(theirs), played |-> Len(ours), n |-> Len(theirs),
           onset |-> first_mismatch(cells), whole |-> first_mismatch(whole), cells |-> cells]
    IN  Told(cell_diff(ours, theirs, voices, starts, tol), cell_diff(ours, theirs, voices, <<>>, tol))
=============================================================================
