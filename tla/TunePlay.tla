------------------------------ MODULE TunePlay ------------------------------
(***************************************************************************)
(* A frame of a tune as pysidtracker.playspec.SpecPlayer plays it: its play *)
(* routine runs on the 6502, and every call it makes into a modelled entry  *)
(* runs that entry's spec instead.  The spec's stores land where a build    *)
(* routes them.                                                             *)
(*                                                                          *)
(* A routine, and a lowered spec, is the sequence of what it does to the    *)
(* machine; a byte is the set of its bits.  A spec counts in a control      *)
(* state (one stands for all), loads, stores, asks a device and runs native *)
(* code; the 6502's registers are one value, `acc`.  The stack is left out. *)
(***************************************************************************)
EXTENDS Integers, Sequences

CONSTANTS
    Bits,      \* the bits of a byte
    PortBits,  \* those of the CPU port that select a memory map
    Entry,     \* the modelled entry the play call reaches first
    Entries,   \* all that are modelled under some setting
    Modelled,  \* those modelled under each setting
    Plays,     \* the play addresses
    Code,      \* the play routine at each of them
    Own,       \* where the tune's own code at an entry stores
    Program,   \* the spec of each entry as bound under each setting
    Count,     \* what a spec's step makes of the control state
    Answer,    \* what a device answers
    Gate       \* the byte a muted register is given

Byte == SUBSET Bits
Settings == SUBSET PortBits

Port == 1   \* $01
Ram == 2    \* a byte of the tune
Sid == 3    \* a register of the SID
Copy == 4   \* the same register of the ghost
Cells == 1..4
Nowhere == 0

CodeStep == [op : {"poke", "peek", "device"}, at : Cells \ {Port}]
              \cup [op : {"port"}, put : Byte]
              \cup [op : {"call"}, to : Entries]

SpecStep == [op : {"count"}]
              \cup [op : {"load", "store", "device"}, at : Cells]
              \cup [op : {"native"}, at : Cells, escapes : BOOLEAN]

ASSUME TuneAssumption ==
    /\ PortBits \subseteq Bits
    /\ Entry \in Entries
    /\ Modelled \in [Settings -> SUBSET Entries]
    /\ Code \in [Plays -> Seq(CodeStep)]
    /\ Entry \in Plays => Code[Entry] = <<>>
    /\ Own \in [Entries -> Cells \ {Port}]
    /\ Program \in [Settings -> [Entries -> Seq(SpecStep)]]
    /\ Count \in [Byte -> Byte]
    /\ Answer \in Byte /\ Gate \in Byte

-----------------------------------------------------------------------------
(* Where the stores of a build land.                                       *)

Route == [to : Cells \cup {Nowhere}, keep : Byte, force : Byte]

IsBuild(b) ==
    /\ DOMAIN b.routes \subseteq Cells /\ DOMAIN b.muted \subseteq Cells
    /\ \A a \in DOMAIN b.routes : b.routes[a] \in Route
    /\ \A a \in DOMAIN b.muted : b.muted[a] \in BOOLEAN
    /\ b.ghost \in BOOLEAN

(* As a player begins.                                                     *)
Unrouted == [routes |-> <<>>, muted |-> <<>>, ghost |-> FALSE]

Straight(at) == [to |-> at, keep |-> Bits, force |-> {}]

RouteOf(b, at) == IF at \in DOMAIN b.routes THEN b.routes[at] ELSE Straight(at)
Muted(b, at) == at \in DOMAIN b.muted /\ b.muted[at]
Silent(b, at) == at \in DOMAIN b.muted /\ ~b.muted[at]

Ghosted(ghost, to) == IF ghost /\ to = Sid THEN Copy ELSE to

(* SpecPlayer._store: where a store of v to `at` lands, and what.          *)
Landing(b, at, v) ==
    LET r == RouteOf(b, at)
        given == IF Muted(b, at) THEN Gate ELSE v
    IN [to |-> IF Silent(b, at) THEN Nowhere ELSE Ghosted(b.ghost, r.to),
        byte |-> (given \cap r.keep) \cup r.force]

-----------------------------------------------------------------------------
(* A frame in Python: _frame_python, _call, _run, _frame_of.               *)

(* The machine: `writes` and `entered` as SpecPlayer lists them, `seen` the *)
(* settings whose entries were asked for and `ran` the specs that were run, *)
(* `gone` whether native code has returned from the spec's call.            *)
Machine ==
    [ram : [Cells -> Byte], ctl : Byte, acc : Byte, writes : Seq(Byte),
     entered : Seq(Entries), seen : SUBSET Settings, ran : SUBSET (Settings \X Entries),
     gone : BOOLEAN]

Setting(ram) == ram[Port] \cap PortBits

Asks(ram, at) == ram[at] # {}   \* whether code that may ask a device does

Stored(b, m, at, v) ==
    LET l == Landing(b, at, v) IN
    IF l.to = Nowhere THEN m
    ELSE [m EXCEPT !.ram[l.to] = l.byte,
                   !.writes = IF l.to = Sid THEN Append(@, l.byte) ELSE @]

(* One step of a spec.  Native code is given the state in a register and   *)
(* stores it; `escapes` is native code that returns to the spec's caller.   *)
SpecStepped(b, m, step) ==
    IF m.gone THEN m ELSE
    CASE step.op = "count" -> [m EXCEPT !.ctl = Count[@]]
      [] step.op = "load" -> [m EXCEPT !.ctl = m.ram[step.at]]
      [] step.op = "store" -> Stored(b, m, step.at, m.ctl)
      [] step.op = "device" ->
           IF Asks(m.ram, step.at) THEN [m EXCEPT !.ctl = Answer] ELSE m
      [] step.op = "native" ->
           [m EXCEPT !.acc = m.ctl, !.ram[step.at] = m.ctl, !.gone = step.escapes]

(* The machine after the first n steps of a spec that begins on m.         *)
SpecAfter(b, m, body, n) ==
    LET now[k \in 0..Len(body)] ==
          IF k = 0 THEN m ELSE SpecStepped(b, now[k - 1], body[k])
    IN now[n]

Arrived(b, m, e) ==
    [m EXCEPT !.entered = Append(@, e),
              !.ran = @ \cup {<<Setting(m.ram), e>>},
              !.ram[Sid] = IF b.ghost THEN m.ram[Copy] ELSE m.ram[Sid]]

(* _run: the spec at e, called or in place of the play routine.  The        *)
(* registers are given back unless native code returned to the caller.      *)
Ran(b, m, e, called) ==
    LET body == Program[Setting(m.ram)][e]
        last == SpecAfter(b, Arrived(b, m, e), body, Len(body))
    IN [last EXCEPT !.acc = IF last.gone /\ called THEN @ ELSE m.acc,
                    !.gone = FALSE]

(* One step of the play routine; _call asks for the entries wherever the    *)
(* CPU stops, a port write included.                                        *)
CodeStepped(b, m, step) ==
    LET n == CASE step.op = "poke" -> [m EXCEPT !.ram[step.at] = m.acc]
               [] step.op = "peek" -> [m EXCEPT !.acc = m.ram[step.at]]
               [] step.op = "device" ->
                    IF Asks(m.ram, step.at) THEN [m EXCEPT !.acc = Answer] ELSE m
               [] step.op = "port" -> [m EXCEPT !.ram[Port] = step.put]
               [] step.op = "call" ->
                    IF step.to \in Modelled[Setting(m.ram)]
                    THEN Ran(b, m, step.to, TRUE)
                    ELSE [m EXCEPT !.ram[Own[step.to]] = m.acc]
    IN [n EXCEPT !.seen = @ \cup {Setting(m.ram), Setting(n.ram)}]

Begun(ram, ctl, acc) ==
    [ram |-> ram, ctl |-> ctl, acc |-> acc, writes |-> <<>>, entered |-> <<>>,
     seen |-> {}, ran |-> {}, gone |-> FALSE]

(* The machine after the first n steps of a routine that begins on m.      *)
CodeAfter(b, m, body, n) ==
    LET now[k \in 0..Len(body)] ==
          IF k = 0 THEN m ELSE CodeStepped(b, now[k - 1], body[k])
    IN now[n]

Frame(b, play, ram, ctl, acc) ==
    LET m == Begun(ram, ctl, acc) IN
    IF play = Entry THEN Ran(b, m, Entry, FALSE)
    ELSE CodeAfter(b, m, Code[play], Len(Code[play]))

(* _tick: `after` is play_after, the count of frames and the play address   *)
(* then, or Never.                                                          *)
Never == [frames |-> 0 - 1, play |-> Entry]

Switches(after, frames) == after # Never /\ frames >= after.frames

PlayThen(play, after, frames) == IF Switches(after, frames) THEN after.play ELSE play
AfterThen(after, frames) == IF Switches(after, frames) THEN Never ELSE after
=============================================================================
