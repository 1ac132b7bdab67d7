# A TLA+ model of pysidtracker

`pysidtracker` reads tunes of C64 music players, compiles them to small `.play`
specifications, plays them in a virtual machine and judges the result against
a reference emulator.  Three kinds of its code are modelled here:

* where steps of several processes meet: the job pool every survey and test runs
  in, the downloads that all processes of a machine make from paced hosts, the
  caches those processes share, and the two executors of a specification, a
  native core and Python, that take a tune over from each other in the middle of
  a frame;
* where the same thing is written twice and must agree: the objects and programs
  of a specification in Python and in Rust, the two loops that measure a tune's
  cadence, the two framings of a trace, a specification and the program it is
  compiled to, a call and the same call with its writes in another order;
* where an index, a lead, a rank or a cut decides what a study of thousands of
  tunes reports: the comparison of grids, the survey's tables, path differencing
  and fault localisation.

Paths below are relative to the repository; its package is `src/pysidtracker`.

Run a module from this directory with

    tlc -workers 2 -config JobPool.cfg JobPool.tla
    tlapm JobPool_proofs.tla

## 1. Inventory

| component | state | operations | interacts with |
|---|---|---|---|
| **job pool** (`jobs.py`) | the parent's `todo`, `idle`, `busy`; per worker a process, a pipe, `job`, `until`, `fallback` | `imap`, `_ended`, `_Worker.start/kill`, `_serve`, `deadline` | survey, host checks, tests; nested pools |
| **downloads** (`testing.py`) | lock file and last-request time per host, lock file and cached file per archive | `_host_slot`, `_fetch`, `fetch_verified`, `fetch_archive_member`, `fetch_tune`, `fetch_disk` | every test and the survey, in many processes; CSDB fixtures |
| **CSDB fixtures cache** (`fixtures.py`) | pages, files, `SHA256SUMS` index, media index, its lock | `fetch_csdb`, `_scrape_release`, `_append_sums`, `index_media` | downloads |
| **oracle trace cache** (`survey.py`, `oracle.py`) | `STAMP`, one trace file per subtune | `oracle_cache`, `cached_sidtrace`, `run_sidtrace` | pool workers of one or several surveys; docker |
| **render cache** (`snapshot.py`) | content-addressed entries, snapshots | render, build, compare | survey |
| **oracle framing** (`oracle.py`, `sidtrace.py`, `gridcmp.py`) | none (functions of two traces) | split rows into frames, align two grids, score leads | survey, host checks |
| **survey** (`survey.py`) | reports written row by row | `check`, `library_row`, `results` | pool, oracle cache, players |
| **spec virtual machine** (`crates/specvm-core`: `vm.rs`, `objects.rs`) | cells, counters, owners, accumulators, cursors | one program per call, event cascade | the spec player |
| **spec player and native code** (`playspec/player.py`, `machine.rs`, `crates/specvm-py`) | CPU, control state, port setting, routes on either side; the core's maps, programs and undo log | `play_frame`, `render_grid`, `reroute`, `set_state`, `play_after`; run natively, give a frame up, undo it, hand over to Python and back | VM; 6502 |
| **spec compiler** (`playspec`: `lower*.py`, `emit*.py`) | none; while it compiles, the bound names, the signals and controls met, who writes and who reads each cell | parse, `elaborate`, print | VM, output order |
| **output order, translation validation** (`outorder`, `outproof`, `tv`) | none; SMT queries | reorder writes, prove chains | compiler, oracle |
| **path difference and fuzzing** (`paths`, `pathdiff`, `pathfuzz`, `faultloc`, `whydiff`) | queue of inputs, seen paths; of a traced program its events, who stored each name last, its activations | search loops; trace, slice backwards, explain | VM, oracle |
| **tune hosts, emulation** (`irqhost`, `cadence`, ...) | 6502 state, interrupt sources | deliver interrupts, measure cadence | survey |
| **player detection** (`automaton`, `detect`) | a compiled automaton | match signatures | survey |
| **formats, images, media; grammars, editors; audio, command lines; tools** | none | parse, print, render | everything |

### What is hard here, and what makes a component correct

* *Job pool.*  A worker is asked over a pipe, may die anywhere, may be killed
  for a deadline its job armed by a message that is still on its way, and is
  replaced; the consumer may stop at any result.  Correct means: each task is
  run at most once and reported at most once with a verdict that is true of it;
  exhaustion means all were reported; nothing of one job reaches the next one's
  record; no worker leaks; a job inside a deadline is ended; everything ends.
* *Downloads.*  Requests to a paced host from all processes of a machine must be
  one at a time and an interval apart; a pinned archive is to be fetched once
  for everybody; a call that returns has left the right file; a failure must be
  a real one; nobody waits for ever although two locks are held at once.
* *CSDB cache.*  A `fixtures fetch` may be killed anywhere and several may run:
  the next one must complete what is missing and give no file the same line twice;
  what it reports is there and indexed.
* *Oracle cache.*  It is wiped and stamped without a lock while other processes
  render into it: no trace may outlive its image under a new stamp.
* *Hand-over.*  A frame that needs Python is undone from a log and played
  again; the two sides keep their own CPU, state, map and routes.  Correct means
  that nobody can tell which of them played a frame.
* *Virtual machine.*  Two implementations, each with its own order of masks,
  wraps and stores to cells that may overlap; the core runs unchecked what it
  has verified once.  Correct means that no tune can tell them apart, and that
  the verified stack is the stack.
* *Cadence, framing.*  The native loop skips ahead between events; a trace is
  framed while it grows.  Correct means: the same raises, attributions and
  frames as one instruction at a time and as the finished trace.
* *Comparison, survey, path differencing.*  Leads of both signs, onsets, ties,
  merged rows, features ranked by first occurrence, a manifest that outlives the
  corpus it was made from, a cache built by processes that die; mutations whose
  tries reach each other's targets, reductions by parts of changing size.  Correct
  means that a reported frame, register, edge, cause or fix is what the traces show,
  and that a reduced input still shows its fault and cannot be reduced further.
* *Explaining a difference.*  A tracer sees lines, calls, returns and exceptions of
  some functions only, and takes what a statement assigned at the next of them; a
  generator leaves and comes back, a function recurses, a statement raises before it
  has assigned.  Correct means that a slice holds the statements that a value came
  from, and no others.

The hazards, each at its line, with the properties that cover it, are in
`PROJECT.json`.

## 2. Plan

Modules in order, and what each composes.

1. **`JobResults`** (abstract) and **`JobPool`** (detailed, implements it):
   runs, theorems.  *Done.*
2. **`HostSlot`** (the slot of a host), **`Fetch`** and **`Csdb`** (its
   callers, each extends it), **`Downloads`** (all of them in the processes of a
   machine).  The abstract specification is `HostSlot!SlotSpec`.  *Done.*
3. **`OracleCache`**, with its proofs.  *Done.*
4. **`TunePlay`** (what a frame does), **`PythonPlayer`** (abstract: every frame
   in Python) and **`NativePlayer`** (detailed: the core, its undo log and the
   hand-over; implements it).  *Done.*
5. **`SpecObjects`**, **`NativeObjects`** (counter, owner, accumulator, cursor
   in Python and in Rust), **`ObjectSteps`** (their reactions in any order),
   **`SpecProgram`** (pyexec), **`NativeVm`** (`verify` and `exec`) and
   **`NativeProgram`** (the encoder), checked together by `MCSpecVm`.
   *Done.*
6. **`Cadence`**, **`Framing`**, **`GridCompare`**, checked by `MCTraces`.  *Done.*
7. **`Survey`**, **`PathDiff`**, **`PathFuzz`** and **`WhyDiff`**, composed by **`Studies`**
   (what the studies of a tune list share, keep, search and trace); **`Paths`** and
   **`FaultLoc`**; all checked by `MCStudies`.  *Done.*
8. **`OrderIr`**, **`OrderPasses`**, **`OrderForward`** (the passes of the output
   order, over the statements of `SpecProgram`), checked by `MCOrder`.  *Done.*
9. **`LowerExpr`**, **`LowerObjects`**, **`Lower`** (the compiler) and
   **`Meaning`** (the reading of the language), checked by `MCCompile`.  *Done.*

Sequential algorithms share one MC module per group of components; its state
has an `area`, and each area its own `Init` and steps.  `Cadence`, `FaultLoc`,
`LowerExpr`, `LowerObjects`, `Lower`, `Meaning`, `NativeProgram`,
`OrderIr`, `OrderPasses`, `OrderForward`, `Paths` and `SpecProgram` use `RECURSIVE` and
are left to TLC; what is proved about is kept out of their reach (`NativeVm` of
`NativeProgram`, `Studies` of `Paths`).  Theorems wanted next: what a slice of a history holds
(`SlicesTrue`, by its events' numbers) and the recorder's arcs (`GraphTrue`).

## 3. The modules

### Job pool: `JobResults`, `JobPool`, `JobPool_proofs`

`JobPool` has one action per step at which the parent or a worker can be
interleaved with the others.

| code | actions |
|---|---|
| `_serve` | `Boot` (initializer run), `Receive` (a task or the `None` that ends it), `Finish` (the function returned or raised, "done" sent), `Orphan` (EOF) |
| `deadline` in a worker | `EnterDeadline`, `LeaveDeadline`: a message each |
| the job | `Fork` (a process in the worker's group), `Die` (anywhere) |
| `imap`, inner `while todo and idle` | `Assign`; `AssignBroken` where `send` raises; `Assigned` |
| `wait(...)` | `Wake`: a pipe, a sentinel or the earliest deadline |
| `for worker in list(busy)` | `Ask`, `Scanned` |
| `_ended` | `TakeDeadline`, `TakeDone`, `Drained`, then `StillRuns`, `Expired` or `Died` |
| `yield` | `Resume` (next result; a dead worker is replaced), `Close` |
| `finally` | `KillBusy`, `StopIdle`, `Join`, `Ended` |
| monotonic clock | `Tick`, for what the parent armed and for each deadline entered |

`idle`, `busy` and the copy of `busy` are lists in the code and sets here: all
orders are allowed.  A replaced worker keeps its name.  Values and exceptions are
left out: a "done" carries only whether there is a value, and a value that does not
pickle, for which `_serve` sends an error (jobs.py:64-67), counts as one raised.  `clock`
and `depth` are history of the deadlines a task entered; they are what
`KillIsDue` and `Late` are about and are forgotten when the task is reported.

`JobResults` is what a consumer relies on: tasks, how far each has come, which
had a deadline pass, and verdicts that must be honest.  `JobPool` implements it
with `late <- Late`.

### Downloads: `HostSlot`, `Fetch`, `Csdb`, `Downloads`, `Downloads_proofs`

`HostSlot` is `_fetch` with `_host_slot`: `Call`, `Grab` (flock returns and the
sleep is computed from the file), `Request`, `Answer` (which also empties the
file, the first half of the `finally`), `Release` (time written, lock closed),
`Retry`, `Return`, `SlotKill`, `SlotTick`.  Time is kept as ages up to the
interval.  `Fetch` adds `fetch_verified` (cached copy, lock, second look,
download, digest, replacement) and its users: `fetch_archive_member` raises after the
archive is there when that has no such member, has it as a directory or with another
checksum (the want "astray": which of the three, one archive with the pinned checksum
decides for good), `fetch_tune` and `fetch_disk` when the body is none of what they
expect (`Rejects`).  `Csdb` adds `fetch_csdb` with its lock, pages, files and indices.
A file of CSDB has no pin: a forced call may come back with another body or under
another name (`Served`), and its line in the index, the key that `_append_sums`
compares, is then another one.  So the cache holds *copies* (release, id, name, body),
each of which stands for its line; a copy under the same name is written over
(`replaced`), one under another stays.  An append is a read of the index and, a step
later, lines at its end, any first part of which a kill leaves (`Cut`): `tail` is how
the index ends, and `lost` are the lines that the next append ran together with what
stood there.  `Downloads` lets each process be in one call of
either kind, kills processes and starts them again.  Names that a module shares
with the code (`_fetch`, `_atomic_write`) appear without the underscore.

External and modelled only from how the code uses them: `flock` (exclusive,
dropped by the kernel with its process), `os.replace` (atomic), `urlopen`.

### Oracle cache: `OracleCache`

`Begin` (docker inspect), `Check` (STAMP read, traces listed), `Unlink` one by
one, `Stamp`, then `cached_sidtrace`: `Look`, `Render`, `Replace`, `Read`,
`Judge`; `Upgrade` is somebody pulling another image.  A trace is reduced to the
image it comes from and its length in play calls.  The proofs are in the same module,
after the model.

### Hand-over: `TunePlay`, `PythonPlayer`, `NativePlayer`, `MCNativePlayer`, `NativePlayer_proofs`

`TunePlay` says what a frame does: the play routine as a sequence of 6502 steps
(poke, peek, device read, port write, call), each modelled entry's spec under
each port setting as a sequence of steps (count in the control state, load,
store, device read, native code), and where a store lands (`Landing`).  Memory is
four cells: the port, a byte of the tune, a SID register and its ghost copy; a
byte is a set of bits, so that `and`/`or` masks are intersection and union.

| code | definitions of `NativePlayer` |
|---|---|
| `reroute`, `set_state`, `play_after`, `play_frame`/`render_grid` | `Reroute`, `SetState`, `PlayAfter`, `Render` |
| `_machine`, `set_cpu`, `set_store`, the limit | `Prepare`, `Registered`, `LimitOf` |
| after `core.run` | `Return`; then `PlayPython` (`_frame_python`, also for `_fallback`) |
| `Machine::run`, `frame` | `BeginFrame`, `EndFrame`, `EndRun`; the `is_err` branch: `UndoStore` one by one, `Undone` |
| `call`, `cpu_until`, `drive` | `Poke`, `Peek`, `Ask`, `Bank`, `CallOwn`, `Call` |
| `spec`, `Vm::exec` | `EnterSpec`, `CountState`, `Load`, `Store`, `AskSpec`, `RunNative`, `EndSpec` |
| `Routes::new`, `apply`; `_route_table` | `Applied`; `Table` |
| `Bail::Need`, `Bank` / `Port`, `Device` | `Bail("need")` / `Bail("bail")` |

`PythonPlayer` plays each frame of a call in one step.  `NativePlayer` implements
it: in the middle of a frame the player counts as being where undoing the frame
would put it (`Base`, the first value logged of each byte; `saved`), and a frame
counts as played when it ends.  The user acts only between calls on both
levels, so a half-restored frame cannot pass for a `set_state`.

External, modelled from its use: the 6502 (jennings), whose registers are one
value here.

### Virtual machine: `SpecObjects`, `NativeObjects`, `ObjectSteps`, `SpecProgram`, `NativeVm`, `NativeProgram`, `MCSpecVm`, `NativeVm_proofs`

`SpecObjects` has `objects.py`'s counter, owner, accumulator and cursor as
functions from a memory to a memory, a result and whether the step raised;
`NativeObjects` has `objects.rs`'s, from the numbers `native.py` describes an
object by, with `Parses` for what its parser refuses.  A cell is a byte or two
bytes of a memory of `Byte` values a byte; `walk` and `native_cursor` decode and
act on a row a turn, at most `JUMPS` of them.  `ObjectSteps` has the objects in use: a
cursor that is stepped, settled and reset in any order, any other object stepped by any
reaction with any operands, for the objects given in `Cursors` and `Scalars`; and the
rows a cursor can come to (`Nodes`, from where each row ends and what it jumps to).

`SpecProgram` executes statements as the Python that `pyexec.py` generates (`ex`,
`stmt`, `frame`, with `finishes` and `ends` deciding how a block is left); `NativeVm`
has the core's instructions, its `verify` (the states a stream is read through, in a
function of the number of instructions read) and its `exec`, an instruction a step;
`NativeProgram` the encoder of `native.py` operator by operator (`emit`, `expr`, `lazy`,
`branch`, `code_loop`, ...).  `Wide` has the constants that do not fit an immediate, so
that both forms of an instruction are met with small numbers.

### Traces: `Cadence`, `Framing`, `Traces`, `GridCompare`, `MCTraces`, `Traces_proofs`

`Cadence` has `_Machine` of `cadence.py`: CIAs with chained and one-shot timers,
the raster, `raise_`, `take`, `unwind`, and both loops, `execute_stepped` and
`execute_events` with the core's `run_until`.  The tune's code is a few
instructions that matter to interrupts (`cpu`); a cycle count is small.  `Framing`
has `oracle.py` from rows to frames, the frames of `irqhost.py` while the log
still grows, and `reglog.py` both ways.  `Traces` is the host as a machine that yields
what one pass of its loop yields in a step, beside the finished trace, which may be any
that is in the order of its cycles.  `GridCompare` has the lead scan and its verdict,
masks, carries, runs and the verdict from the onset.  `Traces` also states what logs and
comparisons promise, each on an area of states with nothing to do but be checked: a
player of `Players` is logged and framed again, an oracle and a render of `Renders` are
compared at every lead, and two grids of `Sides`, of so many `Voices`, cell by cell from
their onsets.  Its assumptions say what shape these have: registers numbered from 0, a
render as long as the oracle at its last lead, rows of bytes as wide as the voices and
the cutoff.  `MCTraces` gives them traces of three calls, and every grid of a few small
rows.

### Studies: `Survey`, `PathDiff`, `PathFuzz`, `WhyDiff`, `Studies`, `Paths`, `FaultLoc`, `MCStudies`, `Studies_proofs`

`Survey` has `check` with the render cache, a step a call that may find another
process's file (a run looks for its render, renders, and stores it in another step, over
what is there by then), and the tables made of its rows, those of older surveys, which
have no `min_bad`, among them (`NoBad`).  `Paths` has the static
search for edges, their names by digest and rank, what a recorded run took, and the
recorder of a Python player's arcs; `PathDiff` has `compare`, `record`, the
cache and its builds, and the manifest.  A build goes through these places, in each of
which it may die:

| code of `pathdiff.py` | definitions of `PathDiff` | steps of `Studies` |
|---|---|---|
| `build` to `_meta`: meta.json removed if forced, names read, tunes chosen | `build` | `BuildBegins` |
| `_meta`: checked, and emptied for writing | `_meta`, `Refused` | `MetaChecked` |
| meta.json written, again when the first record brings the prefixes | `MetaOf` | `MetaWritten` |
| a worker's record, or its error | `Received` | `TuneRecorded` |
| `_save`: new names appended, `<key>.tmp.npz` opened | `Named`; `Cut_` if it dies within | `NamesAppended` |
| `np.savez_compressed` | `Zipped` | `FileWritten` |
| `os.replace` | `Replaced` | `TuneKept` |

What is left is what a dying build leaves: a meta file in part (`TornMeta`), lines of
names without their tune, a last line without its end (`torn`), temporary files in part
(`cut`) or whole (`temps`).  The analysis loads every `*.npz`, a temporary file after
the tune's own (`Records`), and raises where the meta or a file is torn (`Raises`); an
error is a file without features.  The names and the meta a file was recorded with are
history.

`PathFuzz` has the branch outcomes a tune
does not take, the bytes to try for them, `exercise` (targets take turns, one try a
step, whose features are any that the request allows) and `minimise` (the bisection
of the frames, one test a step, and `ddmin`, one round of parts a step, for a
predicate that is a function of the bytes; no patch at all, which replaces the body, is
told from an empty one, which replaces nothing).  `Studies` has what outlives a study, as
processes find it: the survey's work directory with several jobs on it, the cache of
a pair over builds that die in it, the manifest later analyses merge into; the tables
of two surveys and the matching of an image, over any results and files; the two
searches of `PathFuzz`; and a program that is traced.  `FaultLoc` has the spectrum, the
correspondence of features, partings (of each side the departure of least rank among those
that count, `_first_per`), candidates, the cover and the ranking.
External, modelled from its use: SciPy's exact cover (`_milp_cover`) and sparse
matrices, which are sets of features a row.

`WhyDiff` has the tracer of Python code, the slices and what is explained with them.
The tracer `t` has its `events`, the event that stored each name last (`last`), the
events of statements that made what they store (`fresh`) and, for each activation it
traces, a serial, the statement under way with its event (`pending`) and the branches
met (`branch`).

| code of `whydiff.py` | definitions of `WhyDiff` | steps of `Studies` |
|---|---|---|
| `_global`, a call or a resumed generator | `_global`, `call_site` | `Called`, `Resumed` |
| `_local`, "line"; `_line` | `_line`, `Hits`, `_settle` | `Lined` |
| "return", which is also a yield | `_return` | `Returned`, `Yielded` |
| "exception"; a write of the SID | `_exception`; `_write` | `Raised`; `Wrote` |
| code that is not traced | none | `Entered`, `Left`, `Outside` |
| `slice`, `cpu_slice` | `slice` (`Sources`, `Come`), `cpu_slice` | |
| `last_change`, `python_side`, `cpu_side`, `explain_divergence` | the same | |
| `first_break`, `fit_family`, the pairing and onset of state | `first_break`, `fit_family`, `Partner`, `explain_state` | |

Beside the tracer runs the program `w`, which it does not see: the stack with what is
not traced in it, the statement each activation is at and how that is going, the
container each attribute holds, and, to judge the tracer by, which event last assigned
each name (`origin`), for which names it cannot tell (`unsure`) and what came before
each event (`came`).  A statement is the line it starts on, the names it reads and
assigns, its branch, and whether it makes a new object; the code is a set of these,
executed in any order.  A name is a local, an attribute or an item of a container.

### Output order: `OrderIr`, `OrderPasses`, `OrderForward`, `MCOrder`

A program's call writes the SID in the order of its statements; `outorder.py` rewrites
it so that it writes them in an order that is asked for.  `OrderIr` has the orders, what
a schedule keeps of a log of writes (`parse_order`, `kept`) and what every pass is built
from (`mk`, `rebuild`, `rewrite`, `inline`, `outlined`, `nest`).  `OrderPasses` has the
bounds of addresses and values (`span`, `bits`, `ranges`, `known_bits`), promotion of
frame-local cells, splitting, the edges of gate and test bits per path (`edges`, `peak`,
`native_regs`), staging (`instrument`), placing of the flushes (`place`) and the check
of every path (`flush_order`); `OrderForward` forwarding (`forward`, `kill`, `joined`),
reads of declared bytes, shared expressions, dead assignments and declarations.

`MCOrder` takes a program through the passes one at a time, with both attempts of
`reorder` (procs outlined, then inlined), and runs every form of it with the
statements of `SpecProgram`.  The names of variables are tuples; an address is a
number and the word of two bytes a pair's value; objects are one counter.

### Compiler: `LowerExpr`, `LowerObjects`, `Lower`, `Meaning`, `MCCompile`

`elaborate` turns a specification's syntax tree, bound to the addresses a player was
found at, into the program that the executors run: machines become instances, names
become addresses and variables, procs are inlined or called, returns become flags.
`LowerExpr` has the expressions (`expr`, `coerce`, `unify`, `cell_access`, views,
arrays, signals, `builtin`), `LowerObjects` the events and the objects (`bind_counter`,
`bind_accum`, `bind_owner`, `bind_cursor` with its rows, `reactions_to`), `Lower` the
statements, the declarations and the schedule
(`st_*`, `lower_proc`, `inline`, `machine_instance`, `bind_*`, `run_instance`,
`elaborate`).  What the compiler keeps as attributes of one object is a record `S` that
every operator takes and returns; a diagnostic is `S.bad`.  A syntax node is a record
named by its tag; names of variables are numbers.

`Meaning` is the reference: a reading of `docs/playspec.md` that runs the syntax tree of a call directly over the same memory,
with no widths inferred ahead, no inlining and no flags: a `return` leaves the proc, a
latched cell is read as it was at the start of the frame.  It translates no code and is
not in the map.

Left out of the compiler's diagnostics are those about reads that are declared and
never made (lower.py:1709-1710): every specification of the run reads what it declares.

`MCCompile` puts specifications together from pools of bodies of a machine that runs
once, of one with two instances, schedules and output declarations, binds them to two
memory layouts, and runs program and reading beside each other for two calls.

## 4. The runs

| run | instance | shows |
|---|---|---|
| `pool` | 2 tasks, 1 worker that is replaced, two nested deadlines of up to 2 ticks with and without fallback, a task that forks | `Inv`, the inductive invariant: the pipes are in step with the parent's record, a kill is armed only by a deadline of its job, no strays after a kill |
| `pool_live` | 2 tasks, 2 workers, fair | each task is held once; refinement of `JobResults`; an end is always reported, a deadline enforced, and everything ends |
| `downloads` | 2 processes on a paced host, 1 attempt each, one release of 2 files, the first of which may come back with another body, a pinned archive and members it has and has not, 1 kill, in an append too | requests exclude each other and are an interval apart; the archive is downloaded by one caller; returned calls delivered; no failure while a copy is there, but for a member that the archive has not; files not downloaded again, index lines neither doubled nor missing (`Filed`) |
| `downloads_live` | the same with 1 file, which may come back under another name too, fair, no kill | every call ends |
| `csdb_torn_page` | with a page torn by a kill | *violated*: a later fetch takes the torn page for complete |
| `oracle_cache` | 2 processes, 2 subtunes, 2 images, 1 kill; image changes between uses | STAMP is true of every trace; rows given out are of the image asked for |
| `native_player` | 3 frames, 3 play addresses, 2 entries, 2 port settings, 3 builds (routes, mutes, ghost), 2 memories | whatever the core gives up and the user changes in between: the undo log is whole, the frames are Python's, reports are the last frame's, and each "need" teaches |
| `spec_vm` | bytes of 4 values; 5 cursors from every table of 4 bytes; 10 scalar objects; programs of 2 statements; streams of 3 instructions | Python and the core agree on every step; a cursor stands on a row; the core's frames are Python's; the stack is as deep as `verify` says |
| `traces` | frames of 12 cycles, 3 frames, 5 set-ups of timers; traces of 3 calls; grids of 2 to 6 frames | both loops agree; frames, covered calls and logs are the finished trace's; verdicts at a lead and from an onset are of the cells that differ |
| `studies` | 3 jobs on one cache; tables of 3 tunes, also of older rows; code of 4 instructions; recorders of 8 events; sides of 6 frames; 3 builds of a cache of 2 tunes in 2 modes; manifests of 3 keys; 2 failing tunes; covers of 4 tunes; exercises of 3 frames, 3 targets and 9 tries; reductions of 5 bytes in 3 frames; histories of 5 events of a program of 5 statements, 3 activations deep; 6502 steps of 4; cells and onsets of grids and histories of 3 frames | rows are the job's own; edges, arcs and names are those of the run; the onset, its rows and its case; the names that the analysis of a cache reads, or that it raises; the manifest's keys; partings, causes and covers; new paths once, turns and targets; least patches and frames; values credited to the statement that assigned them; slices, cells and onsets that explain what parts |
| `order` | programs of a piece, or of 4 first pieces before any of 22; 2 procs; 5 orders of the slots of a voice and the song; nibbles; 9 starts | every form leaves memory, controls and writes as the program given, and in the order of the slots once they are placed; segments are never more than the slots; every path flushes in order; nothing is used that no path assigned |
| `compile` | every pair of bodies, 3 schedules, 2 kinds of outputs, 2 layouts; 3 memories; 2 calls | what is compiled runs as it reads: stores in order, memory, kept values, endings; what is refused is an error and what is let through is none |

**Bounds.**  Two processes, or a parent and one or two workers, are enough for
every race named in the hazards: each is between one step of one actor and a
window of another.  In `pool` one worker and two tasks make every job after the
first inherit a worker with a past (finished, killed, dead, replaced), and
depth 2 nests a deadline; `pool_live` has two workers so that the scan of
`busy` meets changes of `busy`.  One kill suffices because a killed process
starts again and meets its own leftovers.  An age or budget of 2 ticks tells
"before", "at" and "after".  In the hand-over a bail needs one frame, what it
teaches shows in the second, and two bails in three frames, with `BAILS` and
`BAIL_FRAMES` 1, exhaust the core's credit with a frame to spare; the routines and
specs of `MCNativePlayer` meet every kind of bail before and after stores, of the
same byte twice.  The sequential areas enumerate their inputs: two statements put
every form before and after every other, three calls put a gap on either side of
one, four instructions make a subroutine, a branch around it and a way out of the
span; five events make a call, a statement, a call in it, a statement of that and its end;
a byte of four values has a sign, a wrap and a half.  The pieces of `order`
hold one case of each pass (a loop that unrolls and one that does not, a proc
called twice, a store that may reach the file, a read of a register written
before, a finish in an arm, a declared byte that is stored); two of them make a
fact of the first meet the stores of the second.  Deadlock is checked in
every run of several processes; ends are explicit (`Terminated`, `AllEnded`,
`Finished`).  Another name of a CSDB file is served in `downloads_live` only, which
has the time for it; that the index is right whatever is served is the theorem
`OnceAndIndexed`.  The runs of the sequential areas stop where an input is done and say
`CHECK_DEADLOCK FALSE`.  The bounds are constants: `MaxBudget`, `MaxDepth`,
`MaxEnters`, `Fallbacks`, `Forkers`, `MaxKills`, `MaxCalls`, `MaxImages`,
`Releases`, `Ids`, `Names`, `Served`, `Leftovers`, `Retries`, `MaxFrames`, `Memories`,
`Builds`, `States`, `Late`, `TornPages`, `Loads`, `Songs`, `Renderers`, `Groups`, `Tunes`, `Modes`, `NameLists`, `MaxBuilds`,
`Manifests`, `Fuzzes`, `Reductions`, `MaxTrace`, `Locals`, `Params`, `Attributes`,
`Containers`, `Indices`, `Code`, `Cursors`, `Scalars`.  The theorems hold for all their values, within the assumptions of
section 5.  Permuting processes is a symmetry of `downloads` and `csdb_torn_page`,
and permuting the tunes of a cache, or the comparisons its builds ask for, one of
`studies`, whose definitions only tell these apart; none of the three has a liveness
property.

**Fairness.**  Pool: weak fairness of the parent's loop, of each worker's own
loop (`Serve`), of the consumer (it asks again or closes the iterator) and of
time.  None for a job: it may spin inside a deadline for ever, which is what the
deadline is for.  Downloads: weak fairness of time and of each process's steps:
`urlopen` has a timeout, so a request ends, and `flock` hands a free lock to a
waiter; whether one particular waiter is starved is not an issue in the model
because every call makes a bounded number of requests.

`Mortal` in `downloads` exempts two places from kills, a request under way and
the moment between emptying and writing the lock file: there the next process
follows without the interval, `Spaced` is false of the code, and
`PROJECT.json` lists it as a hazard.  `OneAtATime` is proved without the
exemption.  In `oracle_cache` the image changes only while no process uses the
cache (`AnyTime = FALSE`); with `TRUE` a render begun before lands under the new
stamp (section 6).

## 5. The proofs

All constants are arbitrary within the named `ASSUME`s, which give their types, say that
there is at least one task, worker, attempt and image, and shape the inputs a run may
begin with (a job of the survey has not begun; a tune's record is a sequence of names; a
manifest's ids are those of its cases; what is loaded into the core is a stream over its
variables; a statement starts on a line, parameters are locals, and none assigns a
container and an item of it at once; a cursor and its rows are apart; half the values of a
byte have the lowest bit set; a trace is in the order of its cycles, to which
`_sync` sorts it).  Some theorems have a hypothesis besides, named
with them below (`Undisturbed`, `~TornPages`, `~AnyTime`, `~Late`, `Ended`, `FracFits`),
because the code does not keep the promise without it: section 4 or 6 says what happens
then.  A run meets each.

* **`JobPool_proofs`.**  `PoolInvariant`: `Spec => []Inv`.  None of the pool's
  properties is inductive alone.  A "done" belongs to the job in the parent's
  record only because a worker with no job has empty pipes (`PipesInStep`),
  which needs that a task in `busy` is unreported (`BusyJobs`), held once
  (`EachTaskHeld`, `SoleHolder`), that tasks not handed out are untouched
  (`Untouched`), and where the loop is (`Loop`, `PoolWhole`); `KillIsDue` needs
  the same of the deadline messages that are still unread (`SentIsEntered`), and
  `NoStrays` follows from `GroupsHold`.  The properties follow
  (`TypeCorrect`, `WorkersConserved`, `RepliesInStep`, `TasksHeldOnce`,
  `KillsAreDue`, `GroupsEnd`), and with the invariant at hand
  `PoolImplementsResults`: every step of the pool is a step of `JobResults` or
  leaves its variables alone.
* **`Downloads_proofs`.**  `CallersKeepToTheSlot`: the composition implements
  `SlotSpec`, so that what is proved of `HostSlot` holds of all callers.
  `RequestsExclude` and `RequestsSpaced` rest on `SlotInv` (who holds the lock
  is between `Grab` and `Release`) and, for the second, `Pace` (the stamp is
  not older than the last request's end whenever the lock is free, and a
  holder's sleep covers what is missing), under `Undisturbed`, which says that
  `Mortal` leaves out those two places.  `FetchInv` says who holds the cache's
  lock and what is known of the copy at each place of `fetch_verified`; from it
  `ArchiveFetchedOnce`, `CallsDeliver`, `FailuresAreGenuine` (a call for the archive
  fails only while that is not cached; one for a member fails with the archive cached
  only if the archive has no such member).  Of the CSDB cache
  `Booked` says what a process knows at each place of `fetch_csdb`: the holder of
  the lock is the only one past it (`Owned`), what it downloads the cache lacks, unless
  it was told to (`Lacking`), the lines it is about to append are those of its copies
  that the index has not, and the rest are in the index or run into another line, which
  an append of `index_media`, outside the lock, may still do (`Kept`).  What an append
  does to the index, whole or cut off, is three lemmas (`AppendType`, `AppendOnce`,
  `AppendLists`).  From it `OnceAndIndexed`, with no hypothesis: no line of a file is
  there twice, and what a call reports is cached and indexed, a copy that a forced call
  wrote another body over and a line run into another excepted.  `CacheFiled` needs
  `Whole` too: a page that is cached lists every download, and a process has
  everything of the releases it is through with unless it missed something.  Its
  hypothesis is `~TornPages`, the run `csdb_torn_page` being what happens without it.
* **`OracleCache`.**  `CacheInv` adds to `StampTrue` that a process which
  knows an image knows the current one, that one past its check knows the
  stamp, and that what a wiping process has not listed is already of the new
  image or missing.  `StampIsTrue` and `RowsAreCurrent` assume `~AnyTime`.
* **`NativePlayer_proofs`.**  A frame in Python is a recursive
  function of the number of steps taken, in a routine and in each spec it calls;
  its first part has, by induction, its type and what it only ever adds to. `IInv`:
  types; the frames of a call add up (`Counts`); every logged byte has a first value
  (`Ordered`), without which `First` would choose nothing; the core still has the writes
  of a frame that ended (`Kept`).  From it `NativeTypes`, `NativeReports` and
  `FramesAreUndone`, by two lemmas on logs: a store that logs the old value first
  (`LoggedStore`) and the last store given back (`UndoneStore`) leave what the log gives
  back.  `RoutesAgree` is about data: the table the core is given lands every store
  where Python does. `CorePlaysAsPython`, the refinement, needs to know how far the core
  has got in the frame as Python plays it: `PlayInv` adds that the core has what
  `_machine` gives it (`Settled`), that no run goes past a change of the play address
  (`Due`), and that in the middle of a frame the core's machine is the one Python has
  after as many steps from where the frame began (`Following`, over `CodeAfter` and
  `SpecAfter`). Then a frame that ends is `Frame` of its beginning, giving one up leaves
  the abstract machine alone because undoing gives the beginning back, and playing it
  again in Python is the same `Frame`.  `NeedsTeach` needs `Taught`: what the core gave
  up for is missing on the Python side too while the frame is undone.  Both assume
  `~Late`, that is, `play_after` names a frame still to come; with `Late` the core
  changes the play address a frame early (section 6).
* **`NativeVm_proofs`.**  What `verify` found of a stream it found a step at a time:
  by induction over the instructions read, its pass never takes a height back
  (`Safe`: each instruction has one height, the same from all who lead to it, from
  which it pops no more than is there).  `VmInv`: while it goes, the machine stands at
  an instruction with the stack as high as was found.  From it `RunsWithin`.  Its
  hypothesis `Ended` says that the last instruction does not fall past the end, which
  `encode` sees to and `verify` does not ask for (section 6).
  Of the objects, `CountersAgree`, `OwnersAgree`, `AccumulatorsAgree` by
  arithmetic of remainders: Python wraps a sum once, Rust adds bytes and words that
  wrap.  `CursorsAgree` by induction over the rows a step decodes, each of which
  leaves a memory of bytes on both sides and ends both or neither (`StepsAgree`), and
  within a row over its assignments.  Its hypotheses: the cursor is one the compiler
  can make (`IsCursor`, which TLC evaluates for every cursor of `spec_vm`,
  `CursorsAssumption`; all of it is what `check_cursor` and the binding ensure but
  `FracFits`, a sweep's fraction of at most eight bits, section 6) and the core's parser
  takes (`Parses`, `Addressed`).

  `ObjectsAreAlike` is what these are for: in every state that steps, settles and resets
  lead to, the next ends the same on both sides, and a cursor stands at the first byte of
  a row.  The invariant is `ObjectsInv`: the memory is one of bytes; it holds at every
  address but the cursor's own what it held, so that a row stays the row it was, and the
  place a return goes to is one a row can be at (`Kept`); and so is what the cursor keeps
  as its place, with the byte an advance still owes (`Owed`, `StandsOnRow`).  That a step keeps
  it goes over the rows it decodes, each at a node of `Nodes` (`Stays`), and where each kind
  of row leads from there (`Led`, `TurningStays`), and the three ways of an advance
  (`PlaceBack`: what `reset` and `pre` take off is what the next step puts on).
  That `Nodes` is closed is by counting: each round that finds none is the last, and there
  are no more nodes than rounds (`NodesClosed`).  Its hypotheses beyond those of
  `CursorsAgree`, which it needs only to stand on a row, are that a cursor keeps its place,
  its return and its values in different bytes and none of them among its rows, and that
  its return, before any call, is a row (`CellsApart`, `RowsApart`, `ReturnsToRow`): a
  specification can break them and the compiler does not ask for them.
* **`Traces_proofs`.**  `FramesAreTrue`, in two parts.  A grid is a fold over the writes
  in the order of their frames; `PutRows` says without the fold what it is: row *f* holds
  of each register the last write of a frame up to *f*, and the last row is the last
  write of all.  `Sorted` keeps the writes of a frame in their order (`SortedIs`) and
  frames go up with cycles (`FrameOfMonotone`), so `TraceRows`: row *f* of a trace is
  what its writes before the first raise of a later frame leave, whatever follows.  From
  it `CallsAreCovered`: the raises of a trace cut short are the first ones of the whole
  (`RaisesOf`), with the same frames.  `HostFramesAsOracle` needs to know where the
  host is in the trace: `HostInv` says that of the rows it has looked at, all of them
  before the cycle it has run to, the last raise is the one it has framed up to: its
  registers are what the rows before that raise leave, and it has yielded a row of every
  frame before that raise's (`HostOK`).  When it gives up it has seen the whole trace,
  if `Held`, no wait longer than its patience (`RestAtEnd`), and repeats the last row
  (`IdleOK`).  The hypothesis is in the property: after a longer silence the host yields
  rows a frame each that the finished trace counts otherwise.
  `LogsAreFramed`: a log is its registers and then, in every frame, those that change
  (`FramesLog`, `WholeLog`); the first gap that counts is the one before the first frame
  (`FirstGap`) and a write is nearest to its own frame's call (`NearestIs`), so that the
  last write of a register before row *f* is filled is of the last frame up to *f* to
  change it (`LogRegister`, over the same `GridRows`).  Its hypotheses on spacing and gap
  are in the property.  `GridsAreCompared` is about every two grids.  The scan of leads
  has an entry of each lead and its verdict is of one that no other is later than
  (`LeadsTrue`).  The folds of `cell_diff` list the cells that differ in the order of
  their frames, and that of `runs` makes the last run, and the last segment of it, longer
  by a frame at a time, so that they are maximal (`CellsTrue`).
* **`Studies_proofs`.**  `RowsAreOwn`: a job knows what it has read (`Known`: past its
  oracle the trace is long enough for it; the grid it has is its own renderer's and
  long enough), which no other job takes from it, and a job that failed has itself
  or a trace that was short when it looked to blame (`Blamed`).  `KeptIsTrue`: the
  invariant of a cache and its builder is `Held`.  Until half a line was left, what the
  cache holds can be read back (`Readable`: the numbers of each file, temporary or not,
  are lines of a vocabulary with no line twice and only ever grown, `VocabGrows`, by
  which a build that runs numbers its names).  Whatever is left, a builder past its check
  has the meta it wrote (`Metas`); each file is of the meta's format and comparison, with
  its prefixes, unless a forced build has yet to come to the tune (`FilesOf`); and a
  tune's newest names are in its temporary file or, if there is none, in its own
  (`Newest`).  Each step of a build keeps all four (`Begins` to `Cuts`), and in such a
  cache the analysis raises or reads what `CacheTrue` says (`CacheRead`).  For the manifest, `Rekeys`: by induction over the ids of the
  corpus, what is re-keyed holds a case under the id of its key.  `FuzzIsTrue`: an
  exercise loses no target (`NoneLost`), a mutant's new features are disjoint from all
  that were known (`News`), and of the targets left an earlier one had as many turns as
  a later one or one less (`Turned`).  A reduction (`Minimising`) always has a change
  that shows the fault (`Shows` while it bisects, `Reducing` during the ddmin, which
  begins only if nothing does not show it); it leaves the ddmin when no part and no
  rest shows the fault although each part has one item (`PartOwn`, over the places of
  the items in their order), so that none can be left out (`Tight`).  `MinimiseTrue`
  says so of the frames the ddmin ran with; for the frames that are returned it has the
  hypothesis `Monotone`, which docs/pathfuzz.md asks of a predicate and the onset's is
  not (section 6).  `OriginsAreKnown`, of the tracer: `HistoryOK` ties the tracer to the
  program.  The activations it has are those on the stack (`LiveOn`); the statement and
  event it has pending for one are the program's, unless that raised or waits
  (`FramesOn`); no two activations have a serial or an event in common (both), so
  that a name of one is never taken for the other's; attributes and items under a key,
  and a local under its activation's serial, were last stored by the event that last
  assigned them (`GlobalsAgree`, `LocalsAgree`), outside `unsure`; and a container that
  an attribute still holds since it was made is known to be new (`FreshKnown`).  The
  central step, `Settles`, is that settling the pending statement after it has
  ended stores just what it assigned: the tracer looks its containers up only then,
  when the statement itself may have moved them.
  `TablesAreTrue`: a count is taken one argument at a time (`SumsOf`, by induction over
  the numbers of a finite set that `SumFunction` has taken), and the arguments with each
  value of a function add up to all (`PartsAddUp`), which the moves, the tally and the
  near-exact rows, with those of older surveys that only the tally takes for such, are
  instances of.  For a match, `-2` times the image's length is the
  least score there can be (`ScoreLeast`), some offset tried is best (`BestIs`) and has
  that score just if the candidate holds the image whole there (`TriedIs`), so that the
  first of the candidates with it is matched.

Induction over data is done with sets: `Induction` says that a set with 0 in it and
the successor of each of its numbers has all of them, and the recursive functions of
the models are handled as functions on `0..n` that satisfy their recursion
(`Readings`).

The proofs changed the models six times.  The CASE in `oracle_frames` had two arms that could
both hold, of which TLC took the first and TLA+ either; and the instances of the
hand-over are stated so that a frame's type is a theorem, where it had been assumed.  What frames a trace is written with folds and an explicit
stable order, where it had used a sort whose definition the provers cannot open.  And
what logs and comparisons promise was stated about the grids of `MCTraces`; it is now
stated in `Traces` about any, with the spacing, gap, voices and leads of the code as
constants, and `cell_diff`, `runs` and `play_frame` are the folds that the loops of the
code are.  And the tables of a survey were stated about the results of `MCStudies`;
`Studies` now states them about any (`Listed`, `Results`, `Matches`: finitely many
subtunes, an image and candidates that have bytes).  And the steps of objects were those of
the cursors of `MCSpecVm`, one of which no compiler makes (it settles and sweeps); they are
now those of any cursor in `ObjectSteps`, which says exactly where each row leads.

**Only model-checked:** everything under fairness (`EndReported`, `DeadlineEnforced`,
`AllEnd`, `CallsEnd`), deadlock freedom, and the sequential areas of which no theorem is
listed: `RunsAsPython`, `LoopsAgree`, `GraphTrue`, `CasesTrue`, `BlameTrue`, `WhyTrue`, `Reordered`, `SegmentsHeld`,
`WellPlaced`, `SameRun`, `Diagnosed`.  Most of these rest on `RECURSIVE`
operators over syntax and code, which is out of the prover's reach, as are liveness and
`ENABLED`.

## 6. Disagreements between the code and its documents

All are findings in `PROJECT.json`, with the lines that disagree.  One has a violation
run: a torn release page.  Four more are what the models of the oracle cache, the pool and the
hand-over do when their guards are lifted: a trace lands under the stamp of a newer
image (`AnyTime`), nested deadlines disarm each other (`MaxDepth` 2), a worker that dies
idle ends `imap` with `BrokenPipeError`, and a play address switches a frame early on
the native core (`Late`).  The others were met while translating the studies: a forced
build that is interrupted, a manifest case replaced by one re-keyed to its id, half a
line of a vocabulary, a temporary file of a cache that is read as a tune's or makes the
analysis raise, a meta file left in part, a row of an older survey that the tally takes
for near-exact, a line of the CSDB index appended to a part of one, a case too short for
its lead, the score of a matched image, the
frame number at a negative lead, the returns of a routine that jumps out of its span, an
onset that is no fault any more in a longer run, a cell explained at another frame than
the one that differs (negative leads), a last change taken for the last store, a
statement that raised or waits at a yield credited with its names, a resumed generator's
locals taken for state from before; the properties exempt them by name (`CacheTrue`,
`CountsTrue`, `Reported`, `CaseHolds`, `EdgesStatic`, `Monotone`, `CellTrue`, `unsure`).  Ten are the compiler's,
two of statements (a `return` inside a static `for` does not skip the iterations after
it, and a store under a truth value is dropped without a word) and eight of objects and
events (among them a reaction that fires itself without end, a `return` behind a fire
that is inlined, a read-only cell that an object stores to, columns and positions that
wrap in eight bits); no specification of `compile` has one of them.  Two are of the
machine: `verify` takes code whose last instruction falls past the end, which the
comment on the unsafe blocks denies, and a sweep with more than eight bits of fraction
keeps a remainder that no byte holds.  A bounded read of the SID is split with the
unsplit read left in it, which `instrument` refuses: such programs of `order` are
refused in the model as they are in the code.

`docs/native-spec.md:49` lists programs with `native` blocks as Python only; the
core runs them (`CpuNative`), and so does the model.

Known to be false of the code and therefore modelled, but not stated as
properties (hazards with a note): spacing after a kill inside a request;
a trace file that another process's wipe removes between a render and its read
(`vanished` in `OracleCache`); a call told "short" because of another process's
shorter render; a shorter survey's trace reused by the host checks, which do not
say how many calls they need.

## 7. Not modelled, and why

* `deadline` outside a worker (SIGALRM in the main thread) and `results`, which
  pairs `imap`'s output with its input.
* Contents: what a tune, a digest, a page or a row says beyond "the one
  expected" or "another".
* Of the hand-over: hosted tunes, `validate`, `inputs` and `transform` (Python only
  or before the frame), cycle limits, the stack, a program the encoder refuses
  (`Unsupported`: the player is then Python's for good), and exceptions out of a
  Python frame, after which a player is not used.
* Of the virtual machine: multiplication, shifts and native calls inside a program, bit
  operators in the core; hooks.  Of the traces: CSV, 6502 semantics, the KERNAL.  Of the
  studies: command lines, scopes, triage tables.
* Of the output order: volatile reads, tables, native code, hooks and lanes of
  cursors, and the proof that is made of every result (`prove`, `outproof`, `tv`),
  whose statement `Reordered` checks by running.
* Of the compiler: the parser (`syntax`), printing (`emit`), `unnative`, grammars of
  streams, note modes, `old()`, invariants, `native` statements, volatile cells,
  compilation without a binding.
* Of the fuzzing: how suspect addresses are ranked (`branch_slice`, `rank_reads`,
  `data_mask`: the candidates of a target are an input), `distil`.
* Of `whydiff`: the syntax tree that a line's statement is found in, bulk stores of
  generators (`_zips`, `_drawn`), the histories of lines executed, the paths that objects
  are named by, chasing an onset further back, generators that are thrown into, text.
* Detection and locating of players: not yet.
* Formats, grammars, editors, audio and command lines: parsing and printing
  without interleaving.  SMT queries, docker and the emulators: outside the
  model checker's reach, modelled by their outcomes where the code uses them.
