---------------------------- MODULE OracleCache ----------------------------
(***************************************************************************)
(* pysidtracker.survey.oracle_cache, oracle.cached_sidtrace and             *)
(* run_sidtrace: the traces rendered by the sidtrace image are kept under   *)
(* work/oracle, whose STAMP names the image; processes that find another    *)
(* image empty the cache, without a lock, and render anew.                  *)
(*                                                                          *)
(* A trace is its image and the play calls it covers.  docker cannot run an *)
(* image it cannot inspect.                                                 *)
(***************************************************************************)
EXTENDS Integers, TLAPS

CONSTANTS
    Procs,      \* the processes that use the cache
    Traces,     \* the subtunes, each with one file in the cache
    MaxCalls,   \* bound: the longest render, in play calls
    MaxImages,  \* bound: how many sidtrace images there will have been
    MaxKills,   \* bound: how many processes are killed
    AnyTime     \* whether the image may change while the cache is in use

ASSUME CacheAssumption ==
    /\ MaxCalls \in Nat /\ MaxImages \in Nat \ {0} /\ MaxKills \in Nat
    /\ AnyTime \in BOOLEAN

Images == 1..MaxImages
None == 0  \* no docker, no stamp, no file, no rows

VARIABLES
    image,  \* the image sidtrace would run now
    stamp,  \* the image that STAMP names
    trace,  \* the cached file of each subtune
    at,     \* where each process is
    seen,   \* the image it was told of
    stale,  \* the files it has listed and not unlinked yet
    want,   \* what it was called for
    fresh,  \* whether it has rendered
    made,   \* the render it has in a directory of its own
    rows,   \* what it read
    kills

vars == <<image, stamp, trace, at, seen, stale, want, fresh, made, rows, kills>>

Trace == [by : Images, calls : 0..MaxCalls]
Missing == [by |-> None, calls |-> 0]
Wants == [trace : Traces, calls : 0..MaxCalls, length : 1..MaxCalls, force : BOOLEAN]

NoWant == [trace |-> None, calls |-> 0, length |-> 0, force |-> FALSE]

TypeOK ==
    /\ image \in Images
    /\ stamp \in Images \cup {None}
    /\ trace \in [Traces -> Trace \cup {Missing}]
    /\ at \in [Procs -> {"idle", "check", "wipe", "look", "render", "replace", "read",
                         "judge", "done", "short", "unavailable", "vanished"}]
    /\ seen \in [Procs -> Images \cup {None}]
    /\ stale \in [Procs -> SUBSET Traces]
    /\ want \in [Procs -> Wants \cup {NoWant}]
    /\ \A p \in Procs : at[p] # "idle" => want[p] \in Wants
    /\ fresh \in [Procs -> BOOLEAN]
    /\ made \in [Procs -> Trace \cup {Missing}]
    /\ rows \in [Procs -> Trace \cup {Missing}]
    /\ kills \in 0..MaxKills

Init ==
    /\ image = 1
    /\ stamp = None
    /\ trace = [t \in Traces |-> Missing]
    /\ at = [p \in Procs |-> "idle"]
    /\ seen = [p \in Procs |-> None]
    /\ stale = [p \in Procs |-> {}]
    /\ want = [p \in Procs |-> NoWant]
    /\ fresh = [p \in Procs |-> FALSE]
    /\ made = [p \in Procs |-> Missing]
    /\ rows = [p \in Procs |-> Missing]
    /\ kills = 0

Goto(p, label) == at' = [at EXCEPT ![p] = label]

Ended(p) == at[p] \in {"done", "short", "unavailable", "vanished"}
Active(p) == at[p] # "idle" /\ ~Ended(p)

(* docker inspects the image, or has none.                                 *)
Begin(p, w) ==
    /\ at[p] = "idle"
    /\ want' = [want EXCEPT ![p] = w]
    /\ \E i \in {image, None} : seen' = [seen EXCEPT ![p] = i]
    /\ Goto(p, "check")
    /\ UNCHANGED <<image, stamp, trace, stale, fresh, made, rows, kills>>

(* Mutants: the new stamp is put before the old traces are removed; a cache *)
(* without a stamp is taken as it is.                                       *)
CheckStampFirst(p) ==
    /\ at[p] = "check"
    /\ IF seen[p] = None \/ stamp = seen[p]
       THEN Goto(p, "look") /\ UNCHANGED <<stale, stamp>>
       ELSE /\ Goto(p, "wipe")
            /\ stale' = [stale EXCEPT ![p] = {t \in Traces : trace[t] # Missing}]
            /\ stamp' = seen[p]
    /\ UNCHANGED <<image, trace, seen, want, fresh, made, rows, kills>>

CheckTrusting(p) ==
    /\ at[p] = "check"
    /\ IF stamp \in {None, seen[p]}
       THEN Goto(p, "look") /\ UNCHANGED stale
       ELSE /\ Goto(p, "wipe")
            /\ stale' = [stale EXCEPT ![p] = {t \in Traces : trace[t] # Missing}]
    /\ UNCHANGED <<image, stamp, trace, seen, want, fresh, made, rows, kills>>

(* The stamp is read; the traces that another image left are listed.       *)
Check(p) ==
    /\ at[p] = "check"
    /\ IF seen[p] = None \/ stamp = seen[p]
       THEN Goto(p, "look") /\ UNCHANGED stale
       ELSE /\ Goto(p, "wipe")
            /\ stale' = [stale EXCEPT ![p] = {t \in Traces : trace[t] # Missing}]
    /\ UNCHANGED <<image, stamp, trace, seen, want, fresh, made, rows, kills>>

(* They are unlinked one by one, whatever is under their names by then ... *)
Unlink(p, t) ==
    /\ at[p] = "wipe" /\ t \in stale[p]
    /\ trace' = [trace EXCEPT ![t] = Missing]
    /\ stale' = [stale EXCEPT ![p] = @ \ {t}]
    /\ UNCHANGED <<image, stamp, at, seen, want, fresh, made, rows, kills>>

(* ... and the new stamp replaces the old one.                             *)
Stamp(p) ==
    /\ at[p] = "wipe" /\ stale[p] = {}
    /\ stamp' = seen[p]
    /\ Goto(p, "look")
    /\ UNCHANGED <<image, trace, seen, stale, want, fresh, made, rows, kills>>

(* cached_sidtrace: a render is forced, or there is no file.               *)
Look(p) ==
    /\ at[p] = "look"
    /\ LET render == want[p].force \/ trace[want[p].trace] = Missing IN
         /\ fresh' = [fresh EXCEPT ![p] = render]
         /\ Goto(p, IF render THEN "render" ELSE "read")
    /\ UNCHANGED <<image, stamp, trace, seen, stale, want, made, rows, kills>>

(* run_sidtrace: the container runs whatever image the tag names, and the  *)
(* tune may end before the time asked for ...                               *)
Render(p) ==
    /\ at[p] = "render"
    /\ IF seen[p] = None
       THEN Goto(p, "unavailable") /\ UNCHANGED made
       ELSE \/ Goto(p, "unavailable") /\ UNCHANGED made
            \/ /\ \E n \in 0..want[p].length :
                    made' = [made EXCEPT ![p] = [by |-> image, calls |-> n]]
               /\ Goto(p, "replace")
    /\ UNCHANGED <<image, stamp, trace, seen, stale, want, fresh, rows, kills>>

(* ... and its output replaces the cached file.                            *)
Replace(p) ==
    /\ at[p] = "replace"
    /\ trace' = [trace EXCEPT ![want[p].trace] = made[p]]
    /\ made' = [made EXCEPT ![p] = Missing]
    /\ Goto(p, "read")
    /\ UNCHANGED <<image, stamp, seen, stale, want, fresh, rows, kills>>

(* read_sidtrace, of whatever file is there by now, if any.                *)
Read(p) ==
    /\ at[p] = "read"
    /\ IF trace[want[p].trace] = Missing
       THEN Goto(p, "vanished") /\ UNCHANGED rows
       ELSE /\ rows' = [rows EXCEPT ![p] = trace[want[p].trace]]
            /\ Goto(p, "judge")
    /\ UNCHANGED <<image, stamp, trace, seen, stale, want, fresh, made, kills>>

(* Too short for the calls asked for: rendered once, then given up.        *)
Judge(p) ==
    /\ at[p] = "judge"
    /\ IF rows[p].calls >= want[p].calls
       THEN Goto(p, "done") /\ UNCHANGED fresh
       ELSE /\ Goto(p, IF fresh[p] THEN "short" ELSE "render")
            /\ fresh' = [fresh EXCEPT ![p] = TRUE]
    /\ UNCHANGED <<image, stamp, trace, seen, stale, want, made, rows, kills>>

(* The tag is pulled or built anew.                                        *)
Upgrade ==
    /\ image < MaxImages
    /\ AnyTime \/ \A p \in Procs : ~Active(p)
    /\ image' = image + 1
    /\ UNCHANGED <<stamp, trace, at, seen, stale, want, fresh, made, rows, kills>>

(* Mutant: a process that was killed goes on where it has no call.         *)
ForgetMidway(p) ==
    /\ Goto(p, "check")
    /\ seen' = [seen EXCEPT ![p] = None]
    /\ stale' = [stale EXCEPT ![p] = {}]
    /\ want' = [want EXCEPT ![p] = NoWant]
    /\ fresh' = [fresh EXCEPT ![p] = FALSE]
    /\ made' = [made EXCEPT ![p] = Missing]
    /\ rows' = [rows EXCEPT ![p] = Missing]
    /\ UNCHANGED <<image, stamp, trace>>

Forget(p) ==
    /\ Goto(p, "idle")
    /\ seen' = [seen EXCEPT ![p] = None]
    /\ stale' = [stale EXCEPT ![p] = {}]
    /\ want' = [want EXCEPT ![p] = NoWant]
    /\ fresh' = [fresh EXCEPT ![p] = FALSE]
    /\ made' = [made EXCEPT ![p] = Missing]
    /\ rows' = [rows EXCEPT ![p] = Missing]
    /\ UNCHANGED <<image, stamp, trace>>

(* The worker is killed at its deadline, or the survey is interrupted.     *)
Kill(p) == Active(p) /\ kills < MaxKills /\ kills' = kills + 1 /\ Forget(p)

(* The process goes on to its next subtune.                                *)
Again(p) == Ended(p) /\ Forget(p) /\ UNCHANGED kills

Step(p) ==
    \/ Check(p) \/ Stamp(p) \/ Look(p) \/ Render(p) \/ Replace(p) \/ Read(p) \/ Judge(p)
    \/ \E t \in Traces : Unlink(p, t)

Next ==
    \/ \E p \in Procs : (\E w \in Wants : w.calls <= w.length /\ Begin(p, w))
                        \/ Step(p) \/ Kill(p) \/ Again(p)
    \/ Upgrade

Spec == Init /\ [][Next]_vars

-----------------------------------------------------------------------------
(* "Cached oracle traces are reused while oracle/STAMP matches; a change of *)
(* sidtrace wipes and re-renders them" (docs/survey.md): every cached file  *)
(* comes from the image that STAMP names, through any crash half-way of a   *)
(* wipe and any number of processes wiping and rendering at once.           *)
StampTrue ==
    \A t \in Traces : trace[t] # Missing => trace[t].by = stamp

(* So nobody is given rows of another image than the one it asked docker    *)
(* for.                                                                     *)
RowsCurrent ==
    \A p \in Procs :
      at[p] = "done" /\ seen[p] # None => rows[p].by = seen[p]

-----------------------------------------------------------------------------
(* Proof that STAMP is true of every cached trace, for every number of     *)
(* processes and subtunes, while the image changes only between uses of    *)
(* the cache.                                                              *)

Trusting(p) ==
    /\ at[p] \in {"look", "render", "replace", "read", "judge"}
    /\ seen[p] # None

(* A process that is past its check has the stamp it saw; one that empties *)
(* the cache has listed every trace of another image; a render that is    *)
(* still to be put into the cache is the stamped image's.                  *)
CacheInv ==
    /\ TypeOK
    /\ StampTrue
    /\ RowsCurrent
    /\ \A p \in Procs :
         /\ Active(p) /\ seen[p] # None => seen[p] = image
         /\ at[p] = "wipe" => seen[p] # None
         /\ Trusting(p) => stamp = seen[p]
         /\ at[p] = "wipe" /\ stamp # seen[p] =>
              {t \in Traces : trace[t] # Missing} \subseteq stale[p]
         /\ at[p] = "replace" => seen[p] # None /\ made[p] \in Trace /\ made[p].by = seen[p]
         /\ at[p] = "judge" /\ seen[p] # None => rows[p].by = seen[p]

(* The invariant holds at the start,                                       *)
LEMMA CacheInitInv == Init => CacheInv
  BY CacheAssumption
  DEF Init, CacheInv, TypeOK, StampTrue, RowsCurrent, Active, Ended, Trusting, Images,
      Trace, Missing, None

(* What forgetting a process leaves true.                                  *)
LEMMA ForgetInv ==
    ASSUME CacheInv, NEW p \in Procs, Forget(p), kills' \in 0..MaxKills
    PROVE CacheInv'
  BY CacheAssumption
  DEF Forget, Goto, CacheInv, TypeOK, StampTrue, RowsCurrent, Active, Ended, Trusting,
      Images, Trace, Missing, None

(* at every step of a process,                                             *)
LEMMA CacheStepInv ==
    ASSUME CacheInv, NEW p \in Procs, Step(p)
    PROVE CacheInv'
<1> USE CacheAssumption
    DEF CacheInv, TypeOK, StampTrue, RowsCurrent, Active, Ended, Trusting, Goto,
        Images, Trace, Missing, None
<1>1. CASE Check(p)
  BY <1>1 DEF Check
<1>2. CASE Stamp(p)
  BY <1>2 DEF Stamp
<1>3. CASE Look(p)
  BY <1>3 DEF Look
<1>4. CASE Render(p)
  <2>1. CASE at'[p] = "unavailable"
    BY <1>4, <2>1 DEF Render
  <2>2. CASE at'[p] = "replace"
    <3>1. PICK n \in 0..want[p].length : made' = [made EXCEPT ![p] = [by |-> image, calls |-> n]]
      BY <1>4, <2>2 DEF Render
    <3>2. want[p].length \in 1..MaxCalls
      BY <1>4 DEF Render, Wants
    <3>3. [by |-> image, calls |-> n] \in Trace
      BY <3>2
    <3>4. /\ made' \in [Procs -> Trace \cup {Missing}]
          /\ made'[p] \in Trace /\ made'[p].by = image
          /\ \A q \in Procs \ {p} : made'[q] = made[q]
      BY <3>1, <3>3
    <3>5. seen[p] = image /\ stamp = seen[p]
      BY <1>4, <2>2 DEF Render
    <3>6. /\ at' = [at EXCEPT ![p] = "replace"]
          /\ UNCHANGED <<image, stamp, trace, seen, stale, want, fresh, rows, kills>>
      BY <1>4, <2>2 DEF Render
    <3> QED
      BY <1>4, <3>4, <3>5, <3>6 DEF Render
  <2> QED
    BY <1>4, <2>1, <2>2 DEF Render
<1>5. CASE Replace(p)
  BY <1>5 DEF Replace, Wants
<1>6. CASE Read(p)
  BY <1>6 DEF Read, Wants
<1>7. CASE Judge(p)
  <2>1. /\ fresh' \in [Procs -> BOOLEAN]
        /\ at' \in {[at EXCEPT ![p] = l] : l \in {"done", "short", "render"}}
    BY <1>7 DEF Judge
  <2>2. seen[p] # None => rows[p].by = seen[p]
    BY <1>7 DEF Judge
  <2> QED
    BY <1>7, <2>1, <2>2 DEF Judge
<1>8. ASSUME NEW t \in Traces, Unlink(p, t) PROVE CacheInv'
  BY <1>8 DEF Unlink
<1> QED
  BY <1>1, <1>2, <1>3, <1>4, <1>5, <1>6, <1>7, <1>8 DEF Step

(* and at every step while the image changes only between uses.            *)
LEMMA CacheNextInv == ~AnyTime /\ CacheInv /\ [Next]_vars => CacheInv'
<1> SUFFICES ASSUME ~AnyTime, CacheInv, [Next]_vars PROVE CacheInv'
  OBVIOUS
<1>1. ASSUME NEW p \in Procs, NEW w \in Wants, Begin(p, w) PROVE CacheInv'
  BY <1>1, CacheAssumption
  DEF Begin, Goto, CacheInv, TypeOK, StampTrue, RowsCurrent, Active, Ended, Trusting,
      Images, Trace, Missing, None
<1>2. ASSUME NEW p \in Procs, Kill(p) PROVE CacheInv'
  <2>1. kills' \in 0..MaxKills
    BY <1>2, CacheAssumption DEF Kill, CacheInv, TypeOK
  <2> QED
    BY <1>2, <2>1, ForgetInv DEF Kill
<1>3. ASSUME NEW p \in Procs, Again(p) PROVE CacheInv'
  BY <1>3, ForgetInv DEF Again, CacheInv, TypeOK
<1>4. CASE Upgrade
  BY <1>4, CacheAssumption
  DEF Upgrade, CacheInv, TypeOK, StampTrue, RowsCurrent, Active, Ended, Trusting,
      Images, Trace, Missing, None
<1>5. CASE UNCHANGED vars
  BY <1>5
  DEF vars, CacheInv, TypeOK, StampTrue, RowsCurrent, Active, Ended, Trusting, Missing
<1> QED
  BY <1>1, <1>2, <1>3, <1>4, <1>5, CacheStepInv DEF Next

(* It holds in every reachable state.                                      *)
THEOREM CacheInvariant == ASSUME ~AnyTime PROVE Spec => []CacheInv
<1>1. CacheInv /\ [Next]_vars => CacheInv'
  BY CacheNextInv
<1> QED
  BY CacheInitInv, <1>1, PTL DEF Spec

(* "Cached oracle traces are reused while oracle/STAMP matches; a change of *)
(* sidtrace wipes and re-renders them" (docs/survey.md).                    *)
THEOREM StampIsTrue == ASSUME ~AnyTime PROVE Spec => []StampTrue
<1>1. CacheInv => StampTrue
  BY DEF CacheInv
<1> QED
  BY CacheInvariant, <1>1, PTL

(* Nobody is given rows of another image than docker told it of.           *)
THEOREM RowsAreCurrent == ASSUME ~AnyTime PROVE Spec => []RowsCurrent
<1>1. CacheInv => RowsCurrent
  BY DEF CacheInv
<1> QED
  BY CacheInvariant, <1>1, PTL
=============================================================================
