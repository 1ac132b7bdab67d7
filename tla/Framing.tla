------------------------------ MODULE Framing ------------------------------
(***************************************************************************)
(* A trace of register writes and interrupts framed into a grid, one row a *)
(* play call: as the oracle frames a finished trace (oracle.py), as the    *)
(* interrupt host frames a tune while it runs (irqhost.py), and as a       *)
(* player's writes are logged and framed again (reglog.py, player.py).     *)
(*                                                                         *)
(* A trace is a sequence of rows [cycle, chip, reg, value] in the order    *)
(* they were logged; an interrupt's row has chip Irq, and value a raise, an *)
(* entry or "rti".  A grid is a sequence of functions of the registers.    *)
(***************************************************************************)
EXTENDS Integers, Sequences, SequencesExt, FiniteSets, FiniteSetsExt, TLC

CONSTANTS Registers,    \* the registers of a chip, 0..n
          MaxWait       \* frames without a raise after which the source is taken to have stopped

ASSUME FramingAssumption == Registers \subseteq Nat /\ MaxWait \in Nat

Irq == -1
RAISE_SOURCES == <<"video_irq", "cia_irq", "nmi">>
ENTRY_SOURCES == [e \in {"video_irq_entry", "cia_irq_entry", "nmi_entry"} |->
                    CASE e = "nmi_entry" -> "nmi" [] e = "cia_irq_entry" -> "cia_irq"
                      [] OTHER -> "video_irq"]
None == "none"

-----------------------------------------------------------------------------
(* Which source plays the tune.                                            *)

nested(rows) == \E n \in DOMAIN rows : rows[n].chip = Irq /\ rows[n].value = "rti"

Handling(stack, row) ==
    IF row.chip # Irq THEN stack
    ELSE CASE row.value = "rti" -> IF Len(stack) > 1 THEN Front(stack) ELSE stack
           [] row.value = "brk_entry" -> Append(stack, Last(stack))
           [] row.value \in DOMAIN ENTRY_SOURCES -> Append(stack, ENTRY_SOURCES[row.value])
           [] OTHER -> stack

handler_sources(rows) ==
    IF ~nested(rows) THEN [n \in DOMAIN rows |-> None]
    ELSE LET On(h, row) == LET stack == Handling(h.stack, row)
                           IN  [stack |-> stack, in |-> Append(h.in, Last(stack))]
         IN  FoldLeft(On, [stack |-> <<None>>, in |-> <<>>], rows).in

raise_cycles(rows, source) ==
    LET With(cycles, r) == IF r.chip = Irq /\ r.value = source THEN Append(cycles, r.cycle) ELSE cycles
    IN  FoldLeft(With, <<>>, rows)

\* How often a source is raised.
raised(rows, source) == Cardinality({n \in DOMAIN rows : rows[n].chip = Irq /\ rows[n].value = source})

\* Of the sources a row was logged in, the one that writes the most registers of the
\* chip, then the most often.
Busiest(rows, chip, in) ==
    LET Writes(s) == {n \in DOMAIN rows : in[n] = s /\ rows[n].chip = chip}
        Regs(s) == Cardinality({rows[n].reg : n \in Writes(s)})
        Below(s, q) == \/ Regs(s) < Regs(q)
                       \/ Regs(s) = Regs(q) /\ Cardinality(Writes(s)) < Cardinality(Writes(q))
        Able == SelectSeq(RAISE_SOURCES,
                          LAMBDA s : Writes(s) # {} /\ raised(rows, s) >= 1)
        Tops == SelectSeq(Able, LAMBDA s : \A q \in ToSet(Able) : ~Below(s, q))
    IN  IF Able = <<>> THEN None ELSE Head(Tops)
play_source(rows, chip) == Busiest(rows, chip, handler_sources(rows))

\* The source raised most often, the first raised among equals.
most_raised(rows) ==
    LET raises == SelectSeq(rows, LAMBDA r : r.chip = Irq /\ r.value \in ToSet(RAISE_SOURCES))
    IN  IF raises = <<>> THEN None
        ELSE SelectSeq(raises, LAMBDA r : \A q \in ToSet(raises) :
                                   raised(rows, q.value) <= raised(rows, r.value))[1].value

Source(rows, chip) == LET Or(played) == IF played = None THEN most_raised(rows) ELSE played
                      IN  Or(play_source(rows, chip))
Raises(rows, chip) == raise_cycles(rows, Source(rows, chip))

-----------------------------------------------------------------------------
(* Grids.                                                                  *)

Largest(a, b) == IF a > b THEN a ELSE b

\* How many frames the gap to a raise is at a cadence of cpf.
Gap(prev, at, cpf) == Largest(1, (at - prev + (cpf \div 2)) \div cpf)

\* The frame of each raise; cpf 0 is one frame a raise.
_raise_frames(raises, cpf) ==
    LET f[n \in DOMAIN raises] ==
            IF n = 1 THEN 0
            ELSE f[n - 1] + (IF cpf = 0 THEN 1 ELSE Gap(raises[n - 1], raises[n], cpf))
    IN  f

Zero == [r \in Registers |-> 0]

\* A write [frame, reg, value] after the rows up to its frame are filled.
Put(g, w) ==
    IF w.reg \notin Registers THEN g
    ELSE [rows |-> g.rows \o [n \in 1..Largest(w.frame - Len(g.rows), 0) |-> g.row],
          row |-> [g.row EXCEPT ![w.reg] = w.value]]

\* Rows forward-filled from writes in the order of their frames.
_frame_grid(framed) ==
    LET g == FoldLeft(Put, [rows |-> <<>>, row |-> Zero], framed) IN Append(g.rows, g.row)

\* Writes in the order of their frames, those of a frame as they came: sorted is stable.
Sorted(framed) ==
    LET Before(m, n) == \/ framed[m].frame < framed[n].frame
                        \/ framed[m].frame = framed[n].frame /\ m < n
    IN  [k \in DOMAIN framed |->
            framed[CHOOSE n \in DOMAIN framed : Cardinality({m \in DOMAIN framed : Before(m, n)}) = k - 1]]

\* The frame of a cycle: that of the last raise up to it, -1 before the first.
frame_of(raises, frames, cycle) ==
    LET i == Cardinality({n \in DOMAIN raises : raises[n] <= cycle})
    IN  IF i = 0 THEN -1 ELSE frames[i]

\* The grid of raises in frames.  A row of another chip writes no register of this one.
\* (Appended to <<>>, the sequence is evaluated once.)
Framed(rows, chip, raises, frames) ==
    _frame_grid(Sorted(<<>> \o [n \in DOMAIN rows |->
        [frame |-> frame_of(raises, frames, rows[n].cycle),
         reg |-> IF rows[n].chip = chip THEN rows[n].reg ELSE -1, value |-> rows[n].value]]))
sidtrace_grid(rows, chip, cpf) ==
    LET At(raises) == Framed(rows, chip, raises, _raise_frames(raises, cpf)) IN At(Raises(rows, chip))

\* The calls a trace covers: the last one may be cut short.
sidtrace_calls(rows, chip, cpf) ==
    LET Covered_(raises) == IF raises = <<>> THEN 0 ELSE _raise_frames(raises, cpf)[Len(raises)]
    IN  Covered_(Raises(rows, chip))

Filled(grid, n) == grid[IF n <= Len(grid) THEN n ELSE Len(grid)]

-----------------------------------------------------------------------------
(* The host frames the tune as it runs.  g is the generator's state and    *)
(* out the rows it has yielded; idle tells that some were yielded while no *)
(* raise was seen.  The host has logged the rows before its cycle.         *)

Started(cycle) == [cycle |-> cycle, pos |-> 0, scan |-> 0, prev |-> -1, state |-> Zero,
                   waited |-> 0, out |-> <<>>, idle |-> FALSE]

\* The rows logged before a cycle: they are in the order of their cycles.
Until(rows, cycle) == SubSeq(rows, 1, Cardinality({n \in DOMAIN rows : rows[n].cycle < cycle}))
Logged(log, g) == Until(log, g.cycle)

\* A row applied to the registers of a chip.
Wrote(chip, registers, r) ==
    IF r.chip = chip /\ r.reg \in Registers THEN [registers EXCEPT ![r.reg] = r.value] ELSE registers
Applied(chip, registers, rows) == FoldLeft(LAMBDA g, r : Wrote(chip, g, r), registers, rows)

\* The mutant of apply: a write at the cycle of a raise is applied before it.
apply_late(log, g, chip, until) ==
    LET raw  == Logged(log, g)
        pos  == Min({n \in (g.pos + 1)..Len(raw) : raw[n].cycle > until} \union {Len(raw) + 1}) - 1
    IN  [g EXCEPT !.pos = pos, !.state = Applied(chip, @, SubSeq(raw, g.pos + 1, pos))]

\* The writes logged before a cycle and not applied yet.
apply(log, g, chip, until) ==
    LET raw  == Logged(log, g)
        \* the first row at or past the cycle stops it
        pos  == Min({n \in (g.pos + 1)..Len(raw) : raw[n].cycle >= until} \union {Len(raw) + 1}) - 1
    IN  [g EXCEPT !.pos = pos, !.state = Applied(chip, @, SubSeq(raw, g.pos + 1, pos))]

\* The raise of row n ends the frames since the last one: the writes before it are their row.
at_raise(log, g, chip, n, cpf) ==
    LET at == Logged(log, g)[n].cycle
        up == apply(log, [g EXCEPT !.scan = n, !.waited = 0, !.cycle = Largest(@, at + 1)], chip, at)
    IN  [up EXCEPT !.prev = at,
                   !.out = IF g.prev = -1 THEN @
                           ELSE @ \o [k \in 1..Gap(g.prev, at, cpf) |-> up.state]]

\* The source has stopped: a frame of all that is written.
at_rest(log, g, chip, cpf) ==
    LET over == apply(log, g, chip, g.cycle + 1)
    IN  [over EXCEPT !.cycle = @ + cpf, !.out = Append(@, over.state), !.idle = TRUE]

\* One turn of the generator's loop: a raise is found, or the host runs a frame on.
_frames(log, g, chip, source, cpf) ==
    LET raw   == Logged(log, g)
        found == {n \in (g.scan + 1)..Len(raw) : raw[n].chip = Irq /\ raw[n].value = source}
        none  == [g EXCEPT !.scan = Len(raw)]
    IN  IF found # {} THEN at_raise(log, g, chip, Min(found), cpf)
        ELSE IF g.waited > MaxWait THEN at_rest(log, none, chip, cpf)
        ELSE [none EXCEPT !.cycle = @ + cpf, !.waited = @ + 1]

-----------------------------------------------------------------------------
(* A player's frames logged as writes, and framed again.                   *)

\* What a frame writes: every register the first time, then the ones that changed.
play_frame(rows, n) ==
    LET With(regs, r) == IF n = 1 \/ rows[n][r] # rows[n - 1][r] THEN Append(regs, r) ELSE regs
    IN  FoldLeft(With, <<>>, [k \in 1..Cardinality(Registers) |-> k - 1])

\* The mutant of frame_writes: the first frame's writes follow the registers at once.
frame_writes_early(rows, cpf, spacing) ==
    FlattenSeq([n \in DOMAIN rows |->
        LET regs == play_frame(rows, n)
        IN  [k \in DOMAIN regs |-> [clock |-> (n - 1) * cpf + (k - 1) * spacing,
                                    reg |-> regs[k], value |-> rows[n][regs[k]]]]])

frame_writes(rows, cpf, spacing) ==
    FlattenSeq([n \in DOMAIN rows |->
        LET regs == play_frame(rows, n)
        IN  [k \in DOMAIN regs |-> [clock |-> n * cpf + (k - 1) * spacing,
                                    reg |-> regs[k], value |-> rows[n][regs[k]]]]])

\* The registers before the first frame, at clock 0, then the frames from 1.
register_writes_from_player(regs, rows, cpf, spacing) ==
    [n \in 1..Cardinality(Registers) |-> [clock |-> (n - 1) * spacing, reg |-> n - 1, value |-> regs[n - 1]]]
    \o frame_writes(rows, cpf, spacing)

\* Frame 0 is the first write after a gap.
grid_from_writes(writes, cpf, gap) ==
    LET late == {n \in 2..Len(writes) : writes[n].clock - writes[n - 1].clock > gap}
        t0   == writes[IF late = {} THEN 1 ELSE Min(late)].clock
    IN  IF writes = <<>> THEN <<>>
        ELSE _frame_grid([n \in DOMAIN writes |->
                [frame |-> IF writes[n].clock < t0 THEN -1
                           ELSE (writes[n].clock - t0 + (cpf \div 2)) \div cpf,
                 reg |-> writes[n].reg, value |-> writes[n].value]])
=============================================================================
