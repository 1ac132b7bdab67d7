---------------------------- MODULE NativePlayer ----------------------------
(***************************************************************************)
(* SpecPlayer with its native core (crates/specvm-core): runs of frames are *)
(* played by the core on the player's own memory.  A frame the core cannot  *)
(* finish is undone from a log of its stores and played by Python, and the  *)
(* core goes on from the frame after.                                       *)
(*                                                                          *)
(* Python's side and the core each keep their own CPU, control state, port  *)
(* setting and routes; _advance carries them over.                          *)
(***************************************************************************)
EXTENDS TunePlay

CONSTANTS
    BAILS, BAIL_FRAMES,  \* when bails are too frequent
    MaxFrames,           \* bound: the frames that are rendered
    Memories,            \* bound: the memory a tune's init leaves
    Builds,              \* bound: the builds the user changes between
    States,              \* bound: the control states the user sets
    Late                 \* bound: play_after may name a count already reached

ASSUME NativeAssumption ==
    /\ BAILS \in Nat /\ BAIL_FRAMES \in Nat
    /\ MaxFrames \in Nat
    /\ Memories \subseteq [Cells -> Byte]
    /\ (\A b \in Builds : IsBuild(b)) /\ States \subseteq Byte
    /\ Late \in BOOLEAN

VARIABLES
    \* Python's side
    pc,              \* where _advance, or the core's run, is
    ram,             \* the memory, which the core shares
    ctl, acc, bus,   \* _state, the CPU, the bus's port setting
    build, play, after, frames,
    known,           \* _entry_sets: the settings whose entries are known
    compiled,        \* _compiled: the specs that have been built
    routed,          \* whether the core has been told the routes
    fast, bails, native,  \* _fast, _bails, _played
    want,            \* the frames _advance has still to play
    writes, entered, \* of the last frame
    \* the core
    at,              \* the play address it was made for
    bits,            \* the setting its memory is mapped under
    cpu, store,      \* its CPU and control state
    banks, programs, \* what it has been given
    table,           \* its routes
    log,             \* the old value of every byte the frame has stored
    sid, calls,      \* the frame's SID writes, and the entries it entered
    saved,           \* the CPU, setting and control state the frame began with
    left, played,    \* the frames this run has still to play, and has played
    status,          \* how it ends: "ok", "need" or "bail"
    i, cur, j, kept, \* its place: in the routine, which spec and where in it,
                     \* the registers that spec gives back
    last             \* history: the last frame's row, writes and entered

machine == <<ram, ctl, acc, bus>>
user == <<build, play, after, frames>>
learned == <<known, compiled, routed>>
heur == <<fast, bails, native>>
told == <<at, banks, programs, table>>
place == <<i, cur, j, kept>>
frame == <<log, sid, calls, saved>>
vars == <<pc, machine, user, learned, heur, want, writes, entered, told, bits, cpu,
          store, frame, left, played, status, place, last>>

Statuses == {"ok", "need", "bail"}

(* Routes::new of _route_table: where the core lands a store.              *)
Table(b) ==
    [ghost |-> b.ghost,
     routes |->
       [a \in DOMAIN b.routes \cup DOMAIN b.muted |->
          LET r == RouteOf(b, a) IN
          IF Silent(b, a) \/ r.to = Nowhere
          THEN [to |-> Nowhere, keep |-> {}, force |-> {}]
          ELSE IF Muted(b, a)
          THEN [to |-> r.to, keep |-> {}, force |-> (Gate \cap r.keep) \cup r.force]
          ELSE r]]

(* Routes::apply                                                           *)
Applied(t, a, v) ==
    LET r == IF a \in DOMAIN t.routes THEN t.routes[a] ELSE Straight(a)
    IN [to |-> Ghosted(t.ghost, r.to), byte |-> (v \cap r.keep) \cup r.force]

Init ==
    /\ pc = "idle"
    /\ ram \in Memories /\ ctl = {} /\ acc = {} /\ bus = Setting(ram)
    /\ build = Unrouted /\ play \in Plays /\ after = Never /\ frames = 0
    /\ known = {bus} /\ compiled = {} /\ routed = FALSE
    /\ fast = TRUE /\ bails = 0 /\ native = 0
    /\ want = 0 /\ writes = <<>> /\ entered = <<>>
    /\ at = Nowhere /\ bits = bus /\ cpu = {} /\ store = {}
    /\ banks = {} /\ programs = {} /\ table = Table(build)
    /\ log = <<>> /\ sid = <<>> /\ calls = <<>>
    /\ saved = [cpu |-> {}, bits |-> bus, store |-> {}]
    /\ left = 0 /\ played = 0 /\ status = "ok"
    /\ i = 0 /\ cur = Entry /\ j = 0 /\ kept = {}
    /\ last = <<>>

-----------------------------------------------------------------------------
(* The user of the player, between its calls.                              *)

(* reroute                                                                 *)
Reroute(b) ==
    /\ pc = "idle"
    /\ build' = b
    /\ routed' = FALSE
    /\ UNCHANGED <<pc, machine, play, after, frames, known, compiled, heur, want,
                   writes, entered, told, bits, cpu, store, frame, left, played,
                   status, place, last>>

(* set_state                                                               *)
SetState(v) ==
    /\ pc = "idle"
    /\ ctl' = v
    /\ UNCHANGED <<pc, ram, acc, bus, user, learned, heur, want, writes, entered, told,
                   bits, cpu, store, frame, left, played, status, place, last>>

PlayAfter(n, p) ==
    /\ pc = "idle"
    /\ n > frames \/ Late
    /\ after' = [frames |-> n, play |-> p]
    /\ UNCHANGED <<pc, machine, build, play, frames, learned, heur, want, writes,
                   entered, told, bits, cpu, store, frame, left, played, status, place,
                   last>>

(* play_frame, or render_grid of n frames                                  *)
Render(n) ==
    /\ pc = "idle"
    /\ frames + n <= MaxFrames
    /\ want' = n
    /\ pc' = IF fast THEN "machine" ELSE "python"
    /\ UNCHANGED <<machine, user, learned, heur, writes, entered, told, bits, cpu,
                   store, frame, left, played, status, place, last>>

-----------------------------------------------------------------------------
(* _advance                                                                *)

(* Mutant: the frames asked for do not cap the run.                        *)
LimitUncapped(w) == IF after = Never THEN w ELSE after.frames - frames

LimitOf(w) ==
    IF after = Never THEN w
    ELSE LET due == IF after.frames - frames > 1 THEN after.frames - frames ELSE 1
         IN IF w < due THEN w ELSE due

(* Mutant: only the programs of the present setting are given.             *)
RegisteredHere(mapped) == {key \in compiled : key[1] \in mapped /\ key[1] = bus}

(* The programs the core has, when it has the maps `mapped`.               *)
Registered(mapped) == {key \in compiled : key[1] \in mapped}

(* _machine, with a new core if the play address has changed: it is given  *)
(* what it has not been given yet; then the CPU and the state, and run.     *)
Prepare ==
    /\ pc = "machine"
    /\ known' = known \cup {bus}
    /\ at' = play
    /\ banks' = known'
    /\ programs' = Registered(banks')
    /\ table' = IF at # play \/ ~routed THEN Table(build) ELSE table
    /\ routed' = TRUE
    /\ bits' = bus
    /\ cpu' = acc
    /\ store' = ctl
    /\ left' = LimitOf(want)
    /\ played' = 0
    /\ status' = "ok"
    /\ pc' = "frame"
    /\ UNCHANGED <<machine, user, compiled, heur, want, writes, entered, frame, place,
                   last>>

(* The run is over: CPU, state and port are taken from the core, the frames *)
(* counted, and Python plays the next one if the core could not.            *)
Return ==
    /\ pc = "return"
    /\ acc' = cpu
    /\ ctl' = store
    /\ bus' = Setting(ram)
    /\ want' = want - played
    /\ native' = native + played
    /\ frames' = frames + played
    /\ play' = PlayThen(play, after, frames')
    /\ after' = AfterThen(after, frames')
    /\ writes' = IF played > 0 THEN sid ELSE writes
    /\ entered' = IF played > 0 THEN calls ELSE entered
    /\ bails' = IF status = "bail" THEN bails + 1 ELSE bails
    /\ fast' = IF status = "bail"
               THEN bails' <= BAILS \/ bails' * BAIL_FRAMES < native' ELSE fast
    /\ pc' = IF status # "ok" THEN "python" ELSE IF want' = 0 THEN "idle" ELSE "machine"
    /\ played' = 0
    /\ UNCHANGED <<ram, build, learned, told, bits, cpu, store, frame, left, status,
                   place, last>>

(* _frame_python, and on with the core, or without it (_fallback).         *)
PlayPython ==
    LET m == Frame(build, play, ram, ctl, acc) IN
    /\ pc = "python"
    /\ ram' = m.ram /\ ctl' = m.ctl /\ acc' = m.acc /\ bus' = Setting(m.ram)
    /\ writes' = m.writes /\ entered' = m.entered
    /\ known' = known \cup m.seen
    /\ compiled' = compiled \cup m.ran
    /\ frames' = frames + 1
    /\ play' = PlayThen(play, after, frames')
    /\ after' = AfterThen(after, frames')
    /\ want' = want - 1
    /\ pc' = IF want' = 0 THEN "idle" ELSE IF fast THEN "machine" ELSE "python"
    /\ last' = <<m.ram[Sid], m.writes, m.entered>>
    /\ UNCHANGED <<build, routed, heur, told, bits, cpu, store, frame, left, played,
                   status, place>>

-----------------------------------------------------------------------------
(* Machine::run and frame                                                  *)

Python == <<machine, user, learned, heur, want, writes, entered>>
Core == <<told, left, played, status, last>>

(* Mutant: the log notes the byte after the store.                         *)
PutFirst(a, v) ==
    /\ ram' = [ram EXCEPT ![a] = v]
    /\ log' = Append(log, [cell |-> a, old |-> v])

(* The core stores a byte: its old value is logged.                        *)
Put(a, v) ==
    /\ ram' = [ram EXCEPT ![a] = v]
    /\ log' = Append(log, [cell |-> a, old |-> ram[a]])

(* The frame cannot be finished: its stores, CPU, map and state are to be   *)
(* given back.                                                              *)
Bail(why) == pc' = "undo" /\ status' = why

BeginFrame ==
    /\ pc = "frame" /\ left > 0
    /\ log' = <<>> /\ sid' = <<>> /\ calls' = <<>>
    /\ saved' = [cpu |-> cpu, bits |-> bits, store |-> store]
    /\ i' = 1 /\ j' = 0
    /\ cur' = Entry
    /\ pc' = IF at = Entry THEN "enter" ELSE "code"
    /\ UNCHANGED <<Python, Core, bits, cpu, store, kept>>

(* Mutant: the core forgets the frame's writes when the run ends.          *)
EndRunClean ==
    /\ pc = "frame" /\ left = 0
    /\ pc' = "return"
    /\ sid' = <<>>
    /\ UNCHANGED <<Python, Core, bits, cpu, store, log, calls, saved, place>>

EndRun ==
    /\ pc = "frame" /\ left = 0
    /\ pc' = "return"
    /\ UNCHANGED <<Python, Core, bits, cpu, store, frame, place>>

(* The registers go to the frame's row of the output.                      *)
EndFrame ==
    /\ pc = "code" /\ i > Len(Code[at])
    /\ left' = left - 1
    /\ played' = played + 1
    /\ last' = <<ram[Sid], sid, calls>>
    /\ pc' = "frame"
    /\ UNCHANGED <<Python, told, status, bits, cpu, store, frame, place>>

-----------------------------------------------------------------------------
(* call, cpu_until: the play routine on the core's CPU.                    *)

Do(step, op) == pc = "code" /\ i <= Len(Code[at]) /\ Code[at][i] = step /\ step.op = op

Poke(step) ==
    /\ Do(step, "poke")
    /\ Put(step.at, cpu)
    /\ i' = i + 1
    /\ UNCHANGED <<pc, ctl, acc, bus, user, learned, heur, want, writes, entered, Core,
                   bits, cpu, store, sid, calls, saved, cur, j, kept>>

Peek(step) ==
    /\ Do(step, "peek")
    /\ cpu' = ram[step.at]
    /\ i' = i + 1
    /\ UNCHANGED <<pc, Python, Core, bits, store, frame, cur, j, kept>>

(* Bail::Device                                                            *)
Ask(step) ==
    /\ Do(step, "device")
    /\ IF Asks(ram, step.at)
       THEN Bail("bail") /\ UNCHANGED i
       ELSE i' = i + 1 /\ UNCHANGED <<pc, status>>
    /\ UNCHANGED <<Python, told, left, played, last, bits, cpu, store, frame, cur, j,
                   kept>>

(* The port is written: another map is selected, or Bail::Bank.            *)
Bank(step) ==
    LET new == step.put \cap PortBits IN
    /\ Do(step, "port")
    /\ Put(Port, step.put)
    /\ IF new = bits \/ new \in banks
       THEN bits' = new /\ i' = i + 1 /\ UNCHANGED <<pc, status>>
       ELSE Bail("need") /\ UNCHANGED <<bits, i>>
    /\ UNCHANGED <<ctl, acc, bus, user, learned, heur, want, writes, entered, told, left,
                   played, last, cpu, store, sid, calls, saved, cur, j, kept>>

CallOwn(step) ==
    /\ Do(step, "call") /\ step.to \notin Modelled[bits]
    /\ Put(Own[step.to], cpu)
    /\ i' = i + 1
    /\ UNCHANGED <<pc, ctl, acc, bus, user, learned, heur, want, writes, entered, Core,
                   bits, cpu, store, sid, calls, saved, cur, j, kept>>

Call(step) ==
    /\ Do(step, "call") /\ step.to \in Modelled[bits]
    /\ cur' = step.to
    /\ pc' = "enter"
    /\ UNCHANGED <<Python, Core, bits, cpu, store, frame, i, j, kept>>

-----------------------------------------------------------------------------
(* spec, Vm::exec: a modelled entry's program.                             *)

(* Bail::Need, or the ghost's registers are copied.                        *)
EnterSpec ==
    /\ pc = "enter"
    /\ IF <<bits, cur>> \in programs
       THEN /\ calls' = Append(calls, cur)
            /\ IF table.ghost THEN Put(Sid, ram[Copy]) ELSE UNCHANGED <<ram, log>>
            /\ kept' = cpu
            /\ j' = 1
            /\ pc' = "spec"
            /\ UNCHANGED status
       ELSE /\ Bail("need")
            /\ UNCHANGED <<ram, log, calls, kept, j>>
    /\ UNCHANGED <<ctl, acc, bus, user, learned, heur, want, writes, entered, told, left,
                   played, last, bits, cpu, store, sid, saved, i, cur>>

Body == Program[bits][cur]
Does(step, op) == pc = "spec" /\ j <= Len(Body) /\ Body[j] = step /\ step.op = op

CountState(step) ==
    /\ Does(step, "count")
    /\ store' = Count[store]
    /\ j' = j + 1
    /\ UNCHANGED <<pc, Python, Core, bits, cpu, frame, i, cur, kept>>

Load(step) ==
    /\ Does(step, "load")
    /\ store' = ram[step.at]
    /\ j' = j + 1
    /\ UNCHANGED <<pc, Python, Core, bits, cpu, frame, i, cur, kept>>

(* vm::store; Bail::Port                                                   *)
Store(step) ==
    LET l == Applied(table, step.at, store) IN
    /\ Does(step, "store")
    /\ IF l.to = Port
       THEN Bail("bail") /\ UNCHANGED <<ram, log, sid, j>>
       ELSE /\ IF l.to = Nowhere THEN UNCHANGED <<ram, log>> ELSE Put(l.to, l.byte)
            /\ sid' = IF l.to = Sid THEN Append(sid, l.byte) ELSE sid
            /\ j' = j + 1
            /\ UNCHANGED <<pc, status>>
    /\ UNCHANGED <<ctl, acc, bus, user, learned, heur, want, writes, entered, told, left,
                   played, last, bits, cpu, store, calls, saved, i, cur, kept>>

AskSpec(step) ==
    /\ Does(step, "device")
    /\ IF Asks(ram, step.at)
       THEN Bail("bail") /\ UNCHANGED j
       ELSE j' = j + 1 /\ UNCHANGED <<pc, status>>
    /\ UNCHANGED <<Python, told, left, played, last, bits, cpu, store, frame, i, cur,
                   kept>>

(* CpuNative::run; native code that changes the map is Bail::Port, and     *)
(* native code that returns to the caller ends the spec.                    *)
RunNative(step) ==
    /\ Does(step, "native")
    /\ Put(step.at, store)
    /\ cpu' = IF step.escapes /\ at = Entry THEN kept ELSE store
    /\ IF step.at = Port /\ store \cap PortBits # bits
       THEN Bail("bail") /\ UNCHANGED <<i, j>>
       ELSE IF step.escapes
       THEN pc' = "code" /\ i' = i + 1 /\ j' = 0 /\ UNCHANGED status
       ELSE j' = j + 1 /\ UNCHANGED <<pc, status, i>>
    /\ UNCHANGED <<ctl, acc, bus, user, learned, heur, want, writes, entered, told, left,
                   played, last, bits, store, sid, calls, saved, cur, kept>>

(* The spec ends: the registers are given back.                            *)
EndSpec ==
    /\ pc = "spec" /\ j > Len(Body)
    /\ cpu' = kept
    /\ i' = i + 1 /\ j' = 0
    /\ pc' = "code"
    /\ UNCHANGED <<Python, Core, bits, store, frame, cur, kept>>

-----------------------------------------------------------------------------
(* The frame is undone, the last store first.                              *)
UndoStore ==
    LET entry == log[Len(log)] IN
    /\ pc = "undo" /\ log # <<>>
    /\ ram' = [ram EXCEPT ![entry.cell] = entry.old]
    /\ log' = SubSeq(log, 1, Len(log) - 1)
    /\ UNCHANGED <<pc, ctl, acc, bus, user, learned, heur, want, writes, entered, Core,
                   bits, cpu, store, sid, calls, saved, place>>

(* Mutant: the control state is not given back.                            *)
UndoneState ==
    /\ pc = "undo" /\ log = <<>>
    /\ cpu' = saved.cpu
    /\ bits' = saved.bits
    /\ pc' = "return"
    /\ UNCHANGED <<Python, Core, store, frame, place>>

Undone ==
    /\ pc = "undo" /\ log = <<>>
    /\ cpu' = saved.cpu
    /\ bits' = saved.bits
    /\ store' = saved.store
    /\ pc' = "return"
    /\ UNCHANGED <<Python, Core, frame, place>>

-----------------------------------------------------------------------------
CodeSteps == UNION {{Code[p][n] : n \in DOMAIN Code[p]} : p \in Plays}
SpecSteps ==
    UNION {UNION {{Program[b][e][n] : n \in DOMAIN Program[b][e]} : e \in Entries}
             : b \in Settings}

RunCode == \E step \in CodeSteps :
    Poke(step) \/ Peek(step) \/ Ask(step) \/ Bank(step) \/ CallOwn(step) \/ Call(step)

RunSpec == \E step \in SpecSteps :
    \/ CountState(step) \/ Load(step) \/ Store(step)
    \/ AskSpec(step) \/ RunNative(step)

Advance ==
    \/ Prepare \/ Return \/ PlayPython
    \/ BeginFrame \/ EndRun \/ EndFrame
    \/ RunCode
    \/ EnterSpec \/ RunSpec \/ EndSpec
    \/ UndoStore \/ Undone

User ==
    \/ \E b \in Builds : Reroute(b)
    \/ \E v \in States : SetState(v)
    \/ \E n \in 1..MaxFrames, p \in Plays : PlayAfter(n, p)
    \/ \E n \in 1..MaxFrames : Render(n)

(* All the frames have been rendered.                                      *)
Finished == pc = "idle" /\ frames = MaxFrames /\ UNCHANGED vars

Next == Advance \/ User \/ Finished

Spec == Init /\ [][Next]_vars

-----------------------------------------------------------------------------
LogEntry == [cell : Cells, old : Byte]

TypeOK ==
    /\ pc \in {"idle", "machine", "python", "frame", "code", "enter", "spec", "undo",
               "return"}
    /\ ram \in [Cells -> Byte] /\ ctl \in Byte /\ acc \in Byte /\ bus \in Settings
    /\ build \in Builds \cup {Unrouted} /\ play \in Plays /\ frames \in 0..MaxFrames
    /\ after \in [frames : 1..MaxFrames, play : Plays] \cup {Never}
    /\ known \subseteq Settings /\ compiled \subseteq Settings \X Entries
    /\ routed \in BOOLEAN /\ fast \in BOOLEAN /\ bails \in Nat /\ native \in Nat
    /\ want \in 0..MaxFrames
    /\ at \in Plays \cup {Nowhere} /\ bits \in Settings /\ cpu \in Byte
    /\ store \in Byte
    /\ banks \subseteq Settings /\ programs \subseteq Settings \X Entries
    /\ table.ghost \in BOOLEAN /\ DOMAIN table.routes \subseteq Cells
    /\ \A a \in DOMAIN table.routes : table.routes[a] \in Route
    /\ log \in Seq(LogEntry)
    /\ saved \in [cpu : Byte, bits : Settings, store : Byte]
    /\ left \in 0..MaxFrames /\ played \in 0..MaxFrames /\ status \in Statuses
    /\ i \in Nat /\ cur \in Entries /\ j \in Nat /\ kept \in Byte

(* What undoing a log leaves of a memory: the first value it has of a byte. *)
Logged(l, a) == {n \in DOMAIN l : l[n].cell = a}
First(l, a) == CHOOSE n \in Logged(l, a) : \A m \in Logged(l, a) : n <= m

Undoing(l, r) == [a \in Cells |-> IF Logged(l, a) = {} THEN r[a] ELSE l[First(l, a)].old]

Base == Undoing(log, ram)

(* A frame, its undoing included.                                          *)
InFrame == pc \in {"enter", "code", "spec", "undo"}
InRun == InFrame \/ pc \in {"frame", "return"}

(* "A frame that needs anything Python answers is undone from a log of its *)
(* stores": no step of a frame, and none of its undoing, stores a byte that *)
(* the log does not give back.                                              *)
Undoable == [][InFrame /\ pc' \in {"enter", "code", "spec", "undo"} => Base' = Base]_vars

(* "every result of the native machine is identical to" the Python         *)
(* executor's: whatever bails where, whatever the user changes in between,  *)
(* the frames are those PythonPlayer plays.  In the middle of a frame the   *)
(* player is where undoing the frame would put it.                          *)
Abstract == INSTANCE PythonPlayer WITH
    ram <- IF InFrame THEN Base ELSE ram,
    ctl <- IF InFrame THEN saved.store ELSE IF InRun THEN store ELSE ctl,
    acc <- IF InFrame THEN saved.cpu ELSE IF InRun THEN cpu ELSE acc,
    play <- IF played > 0 THEN PlayThen(play, after, frames + played) ELSE play,
    after <- IF played > 0 THEN AfterThen(after, frames + played) ELSE after,
    frames <- frames + played,
    asked <- want - played

PlaysAsPython == Abstract!PySpec

(* `writes` and `entered` are those of the last frame, whoever played it.  *)
LastReported ==
    pc = "idle" /\ frames > 0 => writes = last[2] /\ entered = last[3]

(* A frame given up for a spec or a memory map that has not been built is  *)
(* played by Python for the last time: it builds what was missing (such     *)
(* frames are not counted as bails).                                        *)
NeedTeaches ==
    [][pc = "python" /\ fast /\ status = "need" /\ frames' # frames
         => known' # known \/ compiled' # compiled]_vars
=============================================================================
