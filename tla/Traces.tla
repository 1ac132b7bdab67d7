------------------------------- MODULE Traces -------------------------------
(***************************************************************************)
(* How traces become grids and grids are compared.  A tune is framed as it *)
(* is traced: the host yields rows while the trace grows (irqhost.py), the *)
(* oracle frames the finished trace (oracle.py), and a trace may be cut    *)
(* short anywhere.  A player's frames are logged and framed again          *)
(* (reglog.py).  Two grids are compared at every lead, or from the onsets  *)
(* of their voices (gridcmp.py).  The state s is one of the areas below,   *)
(* its area tells which.                                                   *)
(***************************************************************************)
EXTENDS Framing, GridCompare

CONSTANTS
    Logs,       \* finished traces, sequences of rows
    Chips,      \* the chips framed
    Probes,     \* the cycle the host has reached when it has found the source
    Cpf,        \* the cadence, cycles per frame
    Players,    \* players whose frames are logged, [regs, rows, cpf, spacing, gap]
    Renders,    \* grids compared at every lead, [oracle, lib]
    Voices,     \* the voices of the grids compared from their onsets,
    Sides       \* which are [ours, theirs, starts]

ASSUME CadenceAssumption == Cpf \in Nat \ {0} /\ Probes \subseteq Nat

\* The rows of a trace are in the order of their cycles.
ASSUME LogAssumption ==
    \A log \in Logs :
        /\ Len(log) \in Nat \ {0} /\ log = [n \in 1..Len(log) |-> log[n]]
        /\ \A n \in 1..Len(log) : log[n].cycle \in Nat /\ \A m \in 1..n : log[m].cycle <= log[n].cycle

\* Registers are numbered from 0, which a player has and its frames give a value.
ASSUME PlayerAssumption ==
    \A p \in Players :
        /\ Registers # {} /\ IsFiniteSet(Registers) /\ Registers = 0..(Cardinality(Registers) - 1)
        /\ p.rows \in Seq([Registers -> Range(p.regs) \union UNION {Range(p.rows[n]) : n \in DOMAIN p.rows}])
        /\ DOMAIN p.regs = Registers
        /\ p.cpf \in Nat \ {0} /\ p.spacing \in Nat \ {0} /\ p.gap \in Nat

\* A render is as long as the oracle at its last lead.
ASSUME RenderAssumption ==
    \A x \in Renders :
        /\ x.oracle \in Seq(Range(x.oracle)) /\ x.lib \in Seq(Range(x.lib))
        /\ Len(x.oracle) # 0 /\ Len(x.lib) >= Len(x.oracle) + LEAD

\* A row has the registers of the voices and the two of the cutoff, a frequency and the
\* cutoff a high and a low one.
Width == Voices * VoiceRegs + 2
ASSUME SideAssumption ==
    /\ Voices \in Nat \ {0} /\ VoiceRegs \in Nat \ {0, 1} /\ Bytes \in Nat \ {0, 1} /\ FcLow \in Nat \ {0}
    /\ \A x \in Sides :
          /\ x.ours \in Seq([1..Width -> 0..(Bytes - 1)]) /\ x.theirs \in Seq([1..Width -> 0..(Bytes - 1)])
          /\ x.ours # <<>> /\ (x.starts = <<>> \/ x.starts \in [1..Voices -> Nat])

VARIABLE s

\* The host frames at the source the oracle finds in the finished trace.
HostInit ==
    \E log \in Logs, chip \in Chips, probed \in Probes :
        s = [area |-> "host", log |-> log, chip |-> chip, source |-> Source(log, chip),
             grid |-> sidtrace_grid(log, chip, Cpf), host |-> Started(probed)]

HostFrames ==
    /\ s.area = "host" /\ ~s.host.idle
    /\ s' = [s EXCEPT !.host = _frames(s.log, @, s.chip, s.source, Cpf)]

LogInit == \E p \in Players : s = [area |-> "log", p |-> p]
LeadsInit == \E x \in Renders : s = [area |-> "leads", oracle |-> x.oracle, lib |-> x.lib]
CellsInit == \E x \in Sides : s = [area |-> "cells", ours |-> x.ours, theirs |-> x.theirs, starts |-> x.starts]

TracesInit == HostInit \/ LogInit \/ LeadsInit \/ CellsInit
TracesSpec == TracesInit /\ [][HostFrames]_s

-----------------------------------------------------------------------------

\* No wait for a raise, nor for the end of the trace, makes the host idle before.
Held(log, raises) ==
    /\ raises # <<>> /\ raises[1] <= Cpf * MaxWait
    /\ \A n \in 2..Len(raises) : raises[n] - raises[n - 1] <= Cpf * MaxWait
    /\ log[Len(log)].cycle - raises[Len(raises)] <= Cpf * MaxWait

\* The rows the host yields while its source raises are the oracle's of the
\* finished trace, however the calls are spaced, one for each call the trace covers;
\* then it repeats the last.
FramesAsOracle ==
    s.area = "host" /\ Held(s.log, Raises(s.log, s.chip)) =>
        LET played == IF s.host.idle THEN Len(s.host.out) - 1 ELSE Len(s.host.out)
        IN  /\ \A n \in 1..played : s.host.out[n] = Filled(s.grid, n)
            /\ s.host.idle => /\ played = sidtrace_calls(s.log, s.chip, Cpf)
                              /\ s.host.out[Len(s.host.out)] = s.grid[Len(s.grid)]

\* A trace cut short holds, of the calls it covers, the whole trace's rows.
CallsCovered ==
    s.area = "host" /\ s.host = Started(0) =>
        \A cut \in {s.log[n].cycle : n \in DOMAIN s.log} :
            \A rows \in {Until(s.log, cut)} :
                Source(rows, s.chip) = s.source =>
                    \A grid \in {sidtrace_grid(rows, s.chip, Cpf)} :
                        \A n \in 1..sidtrace_calls(rows, s.chip, Cpf) : Filled(grid, n) = Filled(s.grid, n)

\* Whoever frames a trace, and wherever it was cut, the rows are those of the
\* finished trace (irqhost.py, oracle.py).
FramesTrue == FramesAsOracle /\ CallsCovered

-----------------------------------------------------------------------------

\* A player's log, framed again, is the player's grid, if of all its gaps the one before
\* the first frame is the first that counts, and a frame's writes take less than half of it.
LogFramed ==
    s.area = "log" =>
        LET p == s.p
            spread == (Cardinality(Registers) - 1) * p.spacing
            grid == grid_from_writes(register_writes_from_player(p.regs, p.rows, p.cpf, p.spacing), p.cpf, p.gap)
        IN  p.spacing <= p.gap /\ p.gap < p.cpf - spread /\ spread < p.cpf - (p.cpf \div 2) =>
                \A n \in DOMAIN p.rows : Filled(grid, n) = p.rows[n]

-----------------------------------------------------------------------------

\* A render the test oracle matches after a silent lead-in is exact, here and on
\* every shorter part of the song; a lead that fits is only passed over if the
\* render starts late at it; the best of the leads is at least as good; and a render
\* that ends before the last lead's frames is never taken for the song.
LeadsCompared ==
    s.area = "leads" =>
        \A v \in {compare_grids(s.oracle, s.lib, LEAD)} :
        LET exact == v.verdict = "exact"
        IN  /\ aligned_match(s.oracle, s.lib, LEAD) => exact
            /\ \A n \in 1..(Len(s.oracle) - 1) :
                  exact /\ v.lead >= 0 => verdict_lead(SubSeq(s.oracle, 1, n), s.lib, LEAD, n).ok
            /\ ~exact /\ v.min_bad = 0 => v.min_lead < 0
            /\ v.min_bad <= v.diff_frames
            /\ ~verdict_lead(s.oracle, SubSeq(s.lib, 1, Len(s.oracle) + LEAD - 1), LEAD, Len(s.oracle)).ok

\* The cells that differ, those that count from the onsets, and those that a carry explains.
Differ == {c \in (1..Least(Len(s.ours), Len(s.theirs))) \X (1..Width) : s.ours[c[1]][c[2]] # s.theirs[c[1]][c[2]]}
Voice(v) == ((v - 1) * VoiceRegs + 1)..(v * VoiceRegs)
Heard(c) ==
    \/ s.starts = <<>>
    \/ \E v \in 1..Voices : /\ s.starts[v] # 0 /\ c[1] >= s.starts[v]
                            /\ c[2] \in Voice(v) \/ c[2] > Voices * VoiceRegs
Carried(c) ==
    \E k \in 1..(Voices + 1) :
        LET lo == (k - 1) * VoiceRegs + 1
            low == IF k > Voices THEN FcLow ELSE Bytes
            ours == s.ours[c[1]]
            theirs == s.theirs[c[1]]
            apart == (ours[lo + 1] - theirs[lo + 1]) * low + (ours[lo] - theirs[lo])
        IN  c[2] \in {lo, lo + 1} /\ apart % (low * Bytes) \in {1, low * Bytes - 1}

\* Runs of the frames in which a register differs, none next to another, in segments of
\* constant values, none like the one before it.
Maximal(rs, r, frames) ==
    /\ UNION {UNION {seg[1]..seg[2] : seg \in Range(rs[k].values)} : k \in DOMAIN rs} = frames
    /\ \A k \in DOMAIN rs :
          /\ k > 1 => rs[k].from > rs[k - 1].to + 1
          /\ rs[k].values[1][1] = rs[k].from /\ rs[k].values[Len(rs[k].values)][2] = rs[k].to
          /\ \A j \in DOMAIN rs[k].values :
                LET seg == rs[k].values[j]
                    last == rs[k].values[j - 1]
                IN  /\ seg[1] <= seg[2]
                    /\ \A f \in seg[1]..seg[2] : s.ours[f][r] = seg[3] /\ s.theirs[f][r] = seg[4]
                    /\ j > 1 => seg[1] = last[2] + 1 /\ <<seg[3], seg[4]>> # <<last[3], last[4]>>

\* A grid's file reads back as the grid; a verdict from the onset overlooks no
\* cell but those before it and those a carry explains, and its runs hold every
\* differing cell once.
CellsCompared ==
    s.area = "cells" =>
        \A v \in {verdict_onset(s.ours, s.starts, s.theirs, Voices, "carry")} :
        LET found == {<<v.cells[k][1], v.cells[k][2]>> : k \in DOMAIN v.cells}
        IN  /\ read_grid(write_grid(s.ours), Width, Len(s.ours)) = s.ours
            /\ found = {c \in Differ : Heard(c) /\ ~Carried(c)}
            /\ v.ok <=> found = {} /\ Len(s.ours) = Len(s.theirs)
            /\ \A r \in 1..Width : Maximal(runs(v.cells, r), r, {c[1] : c \in {x \in found : x[2] = r}})
            /\ v.onset # None_ => v.whole # None_ /\ v.whole[1] <= v.onset[1]

\* What is said of two grids, at a lead and from an onset, is true of their cells
\* (gridcmp.py).
GridsCompared == LeadsCompared /\ CellsCompared
=============================================================================
