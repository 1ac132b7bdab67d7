---------------------------- MODULE PythonPlayer ----------------------------
(***************************************************************************)
(* SpecPlayer without its native core: every frame is played by Python.    *)
(*  "The Python executor is the oracle and the fallback: every result *)
(* of the native machine is identical to it" (docs/native-spec.md).         *)
(***************************************************************************)
EXTENDS TunePlay

VARIABLES
    ram, ctl, acc,  \* the machine between frames
    build,          \* routes, muted, ghost
    play, after,    \* the play address and play_after
    frames,         \* how many frames have been played
    asked,          \* how many the present call has still to play
    last            \* the last frame's register row, writes and entered

vars == <<ram, ctl, acc, build, play, after, frames, asked, last>>

PyInit ==
    /\ ram \in [Cells -> Byte]
    /\ ctl \in Byte /\ acc \in Byte
    /\ build = Unrouted
    /\ play \in Plays /\ after = Never
    /\ frames = 0 /\ asked = 0
    /\ last = <<>>

PlayFrame ==
    LET m == Frame(build, play, ram, ctl, acc) IN
    /\ asked > 0 /\ asked' = asked - 1
    /\ ram' = m.ram /\ ctl' = m.ctl /\ acc' = m.acc
    /\ last' = <<m.ram[Sid], m.writes, m.entered>>
    /\ frames' = frames + 1
    /\ play' = PlayThen(play, after, frames')
    /\ after' = AfterThen(after, frames')
    /\ UNCHANGED build

(* What the player's user may do between frames.                           *)
Render ==
    /\ asked = 0
    /\ asked' \in Nat
    /\ UNCHANGED <<ram, ctl, acc, build, play, after, frames, last>>

Reroute ==
    /\ asked = 0
    /\ IsBuild(build')
    /\ UNCHANGED <<ram, ctl, acc, play, after, frames, asked, last>>

SetState ==
    /\ asked = 0
    /\ ctl' \in Byte
    /\ UNCHANGED <<ram, acc, build, play, after, frames, asked, last>>

PlayAfter ==
    /\ asked = 0
    /\ after' \in [frames : Nat, play : Plays]
    /\ UNCHANGED <<ram, ctl, acc, build, play, frames, asked, last>>

PyNext == PlayFrame \/ Render \/ Reroute \/ SetState \/ PlayAfter

PySpec == PyInit /\ [][PyNext]_vars
=============================================================================
