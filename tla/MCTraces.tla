------------------------------ MODULE MCTraces ------------------------------
(***************************************************************************)
(* How tunes are traced, framed and compared.  The state s is one of the   *)
(* areas below, its area tells which.                                      *)
(***************************************************************************)
EXTENDS Cadence, Traces

-----------------------------------------------------------------------------
(* Cadence: a tune of a few instructions, its interrupts raised and taken  *)
(* by the reference loop (by = "stepped") and by the native one.           *)

I(op) == [op |-> op]
Sid(r) == [op |-> "sid", reg |-> r]
Jmp(to) == [op |-> "jmp", to |-> to]
Icr(chip) == [op |-> "icr", chip |-> chip]
Again == [op |-> "cr", chip |-> 0, timer |-> 0, on |-> TRUE, once |-> TRUE, load |-> TRUE]
Mask(on) == [op |-> "mask", chip |-> 0, timer |-> 1, on |-> on]

Place(at, instructions) == [n \in at..(at + Len(instructions) - 1) |-> instructions[n - at + 1]]
Idle(at) == Place(at, <<Jmp(at)>>)

Mains == {<<>>, <<I("sei"), I("nop")>>, <<I("sei"), I("nop"), I("cli")>>, <<Sid(0), I("brk")>>,
          <<Mask(TRUE), Sid(1)>>, <<I("nop"), [op |-> "d012", line |-> 4], I("nop")>>}
Bodies == {<<x, y>> : x, y \in {Sid(0), Sid(1), I("d019"), Icr(0), I("cli"), Again,
                                [op |-> "d012", line |-> 2]}}
Exits == {<<I("pull"), I("rti")>>, <<Jmp(KernalBase)>>}

Code(main, body, exit) ==
    Place(1, main) @@ Idle(Len(main) + 1) @@ Place(IrqHandler, body \o exit)
    @@ Place(NmiHandler, <<Sid(2), Icr(1), I("rti")>>) @@ Place(BrkHandler, <<I("rti")>>)
    @@ Place(IrqRet, <<Icr(0), I("pull"), I("rti")>>)

Timer(latch, once) == [Cia EXCEPT !.timer[0] = [latch |-> latch, on |-> TRUE, once |-> once, chain |-> FALSE],
                                  !.mask = {0}, !.due[0] = latch + 1]
Chained(cia) == [cia EXCEPT !.timer[1] = [latch |-> 1, on |-> TRUE, once |-> FALSE, chain |-> TRUE],
                            !.due[1] = 2 * (cia.timer[0].latch + 1)]
Setups ==
    { [cias |-> (0 :> Cia) @@ (1 :> Cia), vic |-> TRUE],
      [cias |-> (0 :> Chained(Timer(8, FALSE))) @@ (1 :> Cia), vic |-> FALSE],
      [cias |-> (0 :> Timer(7, TRUE)) @@ (1 :> Timer(10, FALSE)), vic |-> FALSE],
      [cias |-> (0 :> Timer(13, FALSE)) @@ (1 :> Cia), vic |-> TRUE],
      [cias |-> (0 :> Cia) @@ (1 :> Timer(6, FALSE)), vic |-> TRUE] }

CadenceInit ==
    \E main \in Mains, body \in Bodies, exit \in Exits, setup \in Setups :
        LET r == Begin(Boot(setup.cias, setup.vic, 3))
        IN  s = [area |-> "cadence", code |-> Code(main, body, exit), stepped |-> r, events |-> r]

CadenceStepped ==
    /\ s.area = "cadence" /\ ~s.stepped.over
    /\ s' = [s EXCEPT !.stepped = execute_stepped(s.code, @)]

CadenceEvents ==
    /\ s.area = "cadence" /\ s.stepped.over /\ ~s.events.over
    /\ s' = [s EXCEPT !.events = execute_events(s.code, @)]

\* The loop that runs to the next event logs the raises, attributes the writes
\* and measures the cadence as the loop that runs an instruction at a time.
LoopsAgree ==
    s.area = "cadence" /\ s.events.over =>
        /\ s.events.m.events = s.stepped.m.events
        /\ s.events.m.handlers = s.stepped.m.handlers
        /\ Ended(s.events) = Ended(s.stepped)
        /\ Measured(s.events) = Measured(s.stepped)

-----------------------------------------------------------------------------
(* Traces of the calls of one source, at gaps from early to several        *)
(* frames, with what each handler writes and where, and another source's   *)
(* interrupts between them; and logs of a player.                          *)

Row(cycle, chip, reg, value) == [cycle |-> cycle, chip |-> chip, reg |-> reg, value |-> value]
IrqRow(cycle, value) == Row(cycle, Irq, -1, value)

Gaps == {5, 9, 12, 30}

\* A call raised at a cycle: its handler runs from the next one, writes and
\* returns; a write of the main loop ends at the cycle of the raise.
Call(at, n, kind) ==
    LET w(cycle, reg) == Row(cycle, 0, reg, n)
    IN  CASE kind = "plain"  -> <<IrqRow(at, "nmi"), IrqRow(at + 1, "nmi_entry"), w(at + 1, 0), w(at + 2, 1),
                                  IrqRow(at + 3, "rti")>>
          [] kind = "silent" -> <<IrqRow(at, "nmi"), IrqRow(at + 1, "nmi_entry"), IrqRow(at + 2, "rti")>>
          [] kind = "late"   -> <<IrqRow(at, "nmi"), IrqRow(at + 1, "video_irq"), IrqRow(at + 1, "nmi_entry"),
                                  IrqRow(at + 2, "rti"), IrqRow(at + 2, "video_irq_entry"),
                                  w(at + 4, 0), IrqRow(at + 4, "rti")>>
          [] kind = "main"   -> <<w(at, 0), IrqRow(at, "nmi"), IrqRow(at + 1, "nmi_entry"), IrqRow(at + 2, "brk_entry"),
                                  w(at + 2, 1), IrqRow(at + 3, "rti"), Row(at + 3, 1, 0, 9), IrqRow(at + 3, "rti")>>
Kinds == {"plain", "silent", "late", "main"}

Trace(gaps, kinds) ==
    LET at == [n \in 1..(Len(gaps) + 1) |-> 2 + FoldLeft(+, 0, SubSeq(gaps, 1, n - 1))]
    IN  FlattenSeq([n \in DOMAIN at |-> Call(at[n], n, kinds[n])])

MCLogs == {log \in {Trace(gaps, kinds) : gaps \in [1..2 -> Gaps], kinds \in [1..3 -> Kinds]} :
              Source(log, 0) = "nmi"}

MCPlayers ==
    {[rows |-> x[1], regs |-> x[2], cpf |-> x[3], spacing |-> x[4], gap |-> 6] :
        x \in [1..3 -> [Registers -> {0, 1}]] \X [Registers -> {0, 2}] \X {9, 12} \X {1, 2}}

-----------------------------------------------------------------------------
(* Comparing: grids of one register at every lead, and grids of a voice    *)
(* and the cutoff from its onset.                                          *)

MCRenders ==
    UNION {{[oracle |-> x[1], lib |-> x[2]] :
              x \in [1..n -> {<<0>>, <<1>>}] \X [1..(n + LEAD) -> {<<0>>, <<1>>}]} : n \in 2..4}

Rows == {<<0, 0, 1, 0, 0>>, <<3, 0, 1, 1, 1>>, <<0, 1, 2, 0, 1>>, <<3, 0, 0, 1, 0>>}
MCSides ==
    UNION {{[ours |-> x[1], theirs |-> x[2], starts |-> x[3]] :
              x \in [1..n -> Rows] \X [1..3 -> Rows] \X {<<>>, <<0>>, <<1>>, <<2>>}} : n \in 2..3}

-----------------------------------------------------------------------------
Init == CadenceInit \/ TracesInit
Next == CadenceStepped \/ CadenceEvents \/ HostFrames
Spec == Init /\ [][Next]_s
=============================================================================
