------------------------------ MODULE Cadence ------------------------------
(***************************************************************************)
(* How often a tune is played (cadence.py): its interrupts are raised and  *)
(* taken while its code runs, and the source whose handlers drive the      *)
(* registers is measured.  The code runs an instruction at a time, or, on  *)
(* the native engine, to the next event.                                   *)
(*                                                                         *)
(* An instruction is a record [op, ...] of two cycles, accessing a         *)
(* register on its second.  A timer is a record [latch, on, once, chain];  *)
(* chain is Timer B counting the underflows of Timer A.                    *)
(***************************************************************************)
EXTENDS Integers, Sequences, SequencesExt, FiniteSets, FiniteSetsExt, TLC

CONSTANTS Frame,        \* cycles of a video frame; a raster line is one cycle
          MaxCycles,    \* where a tune that never idles is cut
          Frames,       \* frames run after the tune first idles
          IrqHandler, NmiHandler, BrkHandler, IrqRet, KernalBase    \* places in the code

Vic == <<-1, 0>>        \* the sources: the raster, and the timers of the two CIAs
Timers == {0, 1}

-----------------------------------------------------------------------------
(* A CIA: [timer, mask, flags, due]; mask and flags are sets of timers.    *)

Cia == [timer |-> [t \in Timers |-> [latch |-> Frame, on |-> FALSE, once |-> FALSE, chain |-> FALSE]],
        mask |-> {}, flags |-> {}, due |-> [t \in Timers |-> 0]]

period(cia, t) ==
    IF t = 1 /\ cia.timer[1].chain THEN (cia.timer[1].latch + 1) * (cia.timer[0].latch + 1)
    ELSE cia.timer[t].latch + 1

armed(cia, t) == cia.timer[t].on /\ t \in cia.mask

write_cr(cia, t, i, now) ==
    LET started == i.on /\ ~cia.timer[t].on
        set == [cia EXCEPT !.timer[t].on = i.on, !.timer[t].once = i.once]
    IN  IF started \/ i.load THEN [set EXCEPT !.due[t] = now + period(set, t)] ELSE set

\* An underflow due by now: the timer goes on, or stops if it runs once.
underflow(cia, t, now) ==
    LET next == cia.due[t] + period(cia, t) * (((now - cia.due[t]) \div period(cia, t)) + 1)
        flagged == [cia EXCEPT !.flags = @ \union {t}]
    IN  IF cia.timer[t].once THEN [flagged EXCEPT !.timer[t].on = FALSE]
        ELSE [flagged EXCEPT !.due[t] = next]
Asserts(cia, t, now) ==
    /\ cia.flags \intersect cia.mask = {}
    /\ underflow(cia, t, now).flags \intersect cia.mask # {}

\* Reading the interrupt data clears it, a timer due by now among it.
read_icr(cia, now) ==
    LET one(c, t) == IF c.timer[t].on /\ c.due[t] <= now THEN underflow(c, t, now) ELSE c
    IN  [one(one(cia, 0), 1) EXCEPT !.flags = {}]

-----------------------------------------------------------------------------
(* The machine: the CPU, the chips, the raises it logged and the handlers  *)
(* it is in (0 for none, else the raise one serves).                       *)

Boot(cias, vic_enable, raster) ==
    [cycles |-> 0, pc |-> 1, sp |-> 40, masked |-> FALSE,
     cias |-> cias, vic_enable |-> vic_enable, raster |-> raster, vic_flag |-> FALSE,
     events |-> <<>>, last |-> [line \in {-1, 0, 1} |-> 0], handlers |-> <<0>>, frames |-> <<99>>,
     mem |-> <<>>, dirty |-> TRUE, stop |-> FALSE, brk |-> FALSE]

next_match(m, now) == m.raster - ((m.raster - now - 1) \div Frame) * Frame

\* The earliest raise of an armed source: <<cycle, source>>, or <<>>.
pending(m, now) ==
    LET due == {<<Max({m.cias[c].due[t], now}), <<c, t>>>> :
                   <<c, t>> \in {x \in {0, 1} \X Timers : armed(m.cias[x[1]], x[2])}}
               \union IF m.vic_enable THEN {<<Max({next_match(m, now - 1), now}), Vic>>} ELSE {}
        Before(x, y) == \/ x[1] < y[1]
                        \/ x[1] = y[1] /\ x[2][1] < y[2][1]
                        \/ x[1] = y[1] /\ x[2][1] = y[2][1] /\ x[2][2] <= y[2][2]
    IN  IF due = {} THEN <<>> ELSE CHOOSE x \in due : \A y \in due : Before(x, y)

irq_line(m) == (m.vic_flag /\ m.vic_enable) \/ m.cias[0].flags \intersect m.cias[0].mask # {}

\* A raise is logged if it newly asserts its line.
Newly(m, when, source) ==
    IF source = Vic THEN ~m.vic_flag ELSE Asserts(m.cias[source[1]], source[2], when)
raise_(m, when, source) ==
    LET c == source[1] t == source[2]
        tag == IF source = Vic THEN m.raster ELSE period(m.cias[c], t)
        set == IF source = Vic THEN [m EXCEPT !.vic_flag = TRUE]
               ELSE [m EXCEPT !.cias[c] = underflow(@, t, when)]
    IN  IF ~Newly(m, when, source) THEN set
        ELSE [set EXCEPT !.events = Append(@, [when |-> when, source |-> source, wrote |-> {}, tag |-> tag]),
                         !.last[c] = Len(m.events) + 1]

\* The raise an entry serves: the NMI's, else the earliest still asserting the line.
entered(m, nmi) ==
    LET lines == (IF m.vic_flag /\ m.vic_enable THEN {-1} ELSE {})
                 \union (IF m.cias[0].flags \intersect m.cias[0].mask # {} THEN {0} ELSE {})
        held  == {m.last[line] : line \in lines} \ {0}
    IN  IF nmi THEN m.last[1]
        ELSE IF held = {} THEN 0
        ELSE CHOOSE e \in held : \A f \in held : m.events[e].when <= m.events[f].when

\* The stack holds where an interrupt came from, and its I flag.
Pushed(m) == [m EXCEPT !.mem = (m.sp - 3 :> <<m.pc, m.masked>>) @@ @, !.masked = TRUE]

\* The KERNAL's entry saves three registers more for an IRQ.
take(m, nmi) ==
    [Pushed(m) EXCEPT !.handlers = Append(@, entered(m, nmi)), !.frames = Append(@, m.sp - 3),
              !.sp = @ - (IF nmi THEN 3 ELSE 6), !.cycles = @ + 2,
              !.pc = IF nmi THEN NmiHandler ELSE IrqHandler]

RECURSIVE unwind(_)
unwind(m) ==
    IF Len(m.handlers) > 1 /\ m.sp > Last(m.frames)
    THEN unwind([m EXCEPT !.handlers = Front(@), !.frames = Front(@)]) ELSE m

\* One instruction of the code; a write or a read of the ICR marks the state dirty.
cpu(code, m) ==
    LET i    == code[m.pc]
        on   == [m EXCEPT !.pc = @ + 1, !.cycles = @ + 2]
        now  == m.cycles + 1
        Marked(n) == [n EXCEPT !.dirty = TRUE, !.stop = TRUE]
        h    == Last(m.handlers)
    IN  CASE i.op = "nop"  -> on
          [] i.op = "jmp"  -> [on EXCEPT !.pc = i.to]
          [] i.op = "sei"  -> [on EXCEPT !.masked = TRUE]
          [] i.op = "cli"  -> [on EXCEPT !.masked = FALSE]
          [] i.op = "pull" -> [on EXCEPT !.sp = @ + 3]
          [] i.op = "rti"  -> [on EXCEPT !.sp = @ + 3, !.pc = m.mem[m.sp][1], !.masked = m.mem[m.sp][2]]
          [] i.op = "brk"  -> [Pushed(on) EXCEPT !.sp = @ - 3, !.pc = BrkHandler, !.brk = TRUE, !.stop = TRUE]
          [] i.op = "sid"  -> IF h = 0 THEN on ELSE [on EXCEPT !.events[h].wrote = @ \union {i.reg}]
          [] i.op = "d019" -> Marked([on EXCEPT !.vic_flag = FALSE])
          [] i.op = "d01a" -> Marked([on EXCEPT !.vic_enable = i.on])
          [] i.op = "d012" -> Marked([on EXCEPT !.raster = i.line])
          [] i.op = "icr"  -> Marked([on EXCEPT !.cias[i.chip] = read_icr(@, now)])
          [] i.op = "mask" -> Marked([on EXCEPT !.cias[i.chip].mask =
                                         IF i.on THEN @ \union {i.timer} ELSE @ \ {i.timer}])
          [] i.op = "cr"   -> Marked([on EXCEPT !.cias[i.chip] = write_cr(@, i.timer, i, now)])

-----------------------------------------------------------------------------
(* The loops.  A run is [m, end, nmi, due, irq, over]: until when it goes, *)
(* whether an NMI waits, the earliest raise and the IRQ line as last seen. *)

Begin(m) == [m |-> m, end |-> MaxCycles, nmi |-> FALSE, due |-> <<>>, irq |-> FALSE, over |-> FALSE]

Looked(r) == IF r.m.dirty THEN [r EXCEPT !.due = pending(r.m, r.m.cycles), !.irq = irq_line(r.m),
                                         !.m.dirty = FALSE]
             ELSE r
Kernal(m) == Len(m.handlers) > 1 /\ m.pc >= KernalBase
Brk(m) == IF m.brk THEN [m EXCEPT !.handlers = Append(@, Last(@)), !.frames = Append(@, m.sp),
                                  !.brk = FALSE]
          ELSE m

\* What both loops do before any code runs; Run is what runs it.
Raised_(l, now, raised) ==
    [l EXCEPT !.m = raised, !.due = pending(raised, now + 1), !.irq = irq_line(raised),
              !.nmi = @ \/ (Newly(l.m, l.due[1], l.due[2]) /\ l.due[2][1] = 1)]
Turn(r, Run(_)) ==
    LET On(l) ==
          IF l.due # <<>> /\ r.m.cycles >= l.due[1]
          THEN Raised_(l, r.m.cycles, raise_(l.m, l.due[1], l.due[2]))
          ELSE IF l.nmi \/ (l.irq /\ ~l.m.masked) THEN [l EXCEPT !.m = take(@, l.nmi), !.nmi = FALSE]
          ELSE IF Kernal(l.m) THEN [l EXCEPT !.m.pc = IrqRet]
          ELSE Run(l)
    IN  IF r.m.cycles >= r.end THEN [r EXCEPT !.over = TRUE] ELSE On(Looked(r))

\* A tune that idles is run to the next raise; the first time sets the end.
Idled(r) ==
    LET ended == [r EXCEPT !.end = Min({@, r.m.cycles + Frames * Frame})]
    IN  IF r.due = <<>> THEN [ended EXCEPT !.over = TRUE]
        ELSE [ended EXCEPT !.m.cycles = Max({@, r.due[1]})]

\* The reference loop: one instruction.
Step(code, r) ==
    LET Stepped(m) == IF m.pc = r.m.pc /\ m.sp = r.m.sp THEN Idled([r EXCEPT !.m = m])
                      ELSE [r EXCEPT !.m = m]
    IN  Stepped(unwind(Brk([cpu(code, r.m) EXCEPT !.stop = FALSE])))
execute_stepped(code, r) == Turn(r, LAMBDA l : Step(code, l))

\* The mutant of run_until: code that unmasks a waiting interrupt runs on.
run_until_masked(code, m, limit, irq) ==
    LET go[k \in 0..MaxCycles] ==
          LET a == IF k = 0 THEN <<m, FALSE, FALSE>> ELSE go[k - 1]
              n == a[1]
              ran == cpu(code, n)
          IN  IF a[3] THEN a
              ELSE IF \/ n.stop
                      \/ Len(m.handlers) > 1 /\ n.sp > Last(n.frames)
                      \/ n.cycles > limit
                      \/ Kernal(n)
              THEN <<n, FALSE, TRUE>>
              ELSE <<ran, ran.pc = n.pc /\ ran.sp = n.sp, ran.pc = n.pc /\ ran.sp = n.sp>>
    IN  <<go[MaxCycles][1], go[MaxCycles][2]>>

\* The native engine: instructions until a stop; <<m, idle>>.
RECURSIVE run_until(_, _, _, _)
run_until(code, m, limit, irq) ==
    LET inside == Len(m.handlers) > 1
        Idles(ran) == ran.pc = m.pc /\ ran.sp = m.sp
        Ran(ran) == IF Idles(ran) THEN <<ran, TRUE>> ELSE run_until(code, ran, limit, irq)
    IN  IF \/ m.stop
           \/ inside /\ m.sp > Last(m.frames)
           \/ m.cycles > limit
           \/ Kernal(m)
           \/ irq /\ ~m.masked
        THEN <<m, FALSE>>
        ELSE Ran(cpu(code, m))

Events(code, r) ==
    LET limit == (IF r.due = <<>> THEN r.end ELSE Min({r.end, r.due[1]})) - 1
        Left(ran) ==
          LET left == [r EXCEPT !.m = unwind(Brk([ran[1] EXCEPT !.stop = FALSE]))]
          IN  IF ran[2] THEN Idled(left) ELSE left
    IN  Left(run_until(code, [r.m EXCEPT !.stop = FALSE], limit, r.irq))
execute_events(code, r) == Turn(r, LAMBDA l : Events(code, l))

Ended(r) == IF r.end = MaxCycles THEN r.m.cycles ELSE r.end

-----------------------------------------------------------------------------
(* What is measured: [source, cycles, calls], the calls of the frames      *)
(* after the first, where the play source is a raster.                     *)

Measured(r) ==
    LET m     == r.m
        start == Ended(r) - (Frames - 1) * Frame
        Of(s) == SelectSeq(m.events, LAMBDA e : e.source = s)
        Steady(s) == SelectSeq(Of(s), LAMBDA e : e.when >= start)
        Regs(s) == Cardinality(UNION {Of(s)[n].wrote : n \in DOMAIN Of(s)})
        Calls(s) == Cardinality({n \in DOMAIN Of(s) : Of(s)[n].wrote # {}})
        live  == {s \in {m.events[n].source : n \in DOMAIN m.events} : Len(Steady(s)) > 1 /\ Regs(s) > 0}
        tops  == {s \in live : \A q \in live :
                    Regs(q) < Regs(s) \/ (Regs(q) = Regs(s) /\ Calls(q) <= Calls(s))}
        best  == m.events[Min({n \in DOMAIN m.events : m.events[n].source \in tops})].source
        steady == Steady(best)
        timer == m.cias[best[1]].timer[best[2]]
        dynamic == \E n \in DOMAIN steady : steady[n].tag # steady[1].tag
        span == Last(steady).when - steady[1].when
    IN  IF live = {} THEN [source |-> <<>>, cycles |-> Frame, calls |-> 1]
        ELSE IF best = Vic THEN [source |-> best, cycles |-> (Frame * (Frames - 1)) \div Len(steady),
                                 calls |-> Len(steady)]
        ELSE [source |-> best, calls |-> Len(steady),
              cycles |-> IF dynamic \/ timer.once THEN span \div (Len(steady) - 1)
                         ELSE period(m.cias[best[1]], best[2])]
=============================================================================
