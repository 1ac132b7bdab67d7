------------------------------ MODULE HostSlot ------------------------------
(***************************************************************************)
(* pysidtracker.testing._fetch and _host_slot: every download of every      *)
(* process.  A request that fails for the moment, or is answered with an    *)
(* empty body, is made again after a pause; the requests to a host of       *)
(* HOST_INTERVAL are made by one process of the machine at a time, an       *)
(* interval apart, through a lock file that holds when the last one ended.  *)
(*                                                                          *)
(* Processes take steps in any order, and may be killed: the kernel then    *)
(* drops their locks.  What a caller does with a body is left to the        *)
(* modules that extend this one.                                            *)
(***************************************************************************)
EXTENDS Integers

CONSTANTS
    Procs,     \* the processes that download
    Paced,     \* those whose URL is on a host of HOST_INTERVAL
    Nobody,    \* the holder of a free lock
    Interval,  \* that host's interval, in ticks
    Retries,   \* how many attempts a download is given
    Mortal     \* where in a download a process may be killed

Stages == {"off", "queue", "sleep", "request", "stamp", "backoff",
           "body", "gone", "failed"}

ASSUME SlotAssumption ==
    /\ Paced \subseteq Procs
    /\ Nobody \notin Procs
    /\ Interval \in Nat
    /\ Retries \in Nat \ {0}
    /\ Mortal \subseteq Stages

VARIABLES
    net,     \* where each process is in _fetch; "off" outside it
    tries,   \* the attempts it has begun
    answer,  \* what its request was answered, until _fetch returns it
    nap,     \* how long it has still to sleep in _host_slot
    slot,    \* who holds the lock on the host's lock file
    stamp,   \* how long ago the time in that file is; Interval: that or longer
    since    \* how long ago a request to the host last ended, likewise

slotVars == <<net, tries, answer, nap, slot, stamp, since>>

Ages == 0..Interval  \* bound: an age of Interval or more is Interval
Bodies == {"pinned", "other"}  \* what the caller expects, or something else
Answers == Bodies \cup {"empty", "transient", "404"}

SlotTypeOK ==
    /\ net \in [Procs -> Stages]
    /\ tries \in [Procs -> 0..Retries]
    /\ answer \in [Procs -> Answers \cup {"none"}]
    /\ nap \in [Procs -> Ages]
    /\ slot \in Procs \cup {Nobody}
    /\ stamp \in Ages
    /\ since \in Ages

(* The lock file may be old, missing or unreadable: `last` is long ago.    *)
SlotInit ==
    /\ net = [p \in Procs |-> "off"]
    /\ tries = [p \in Procs |-> 0]
    /\ answer = [p \in Procs |-> "none"]
    /\ nap = [p \in Procs |-> 0]
    /\ slot = Nobody
    /\ stamp = Interval
    /\ since = Interval

(* A caller calls _fetch.                                                  *)
Call(p) ==
    /\ net[p] = "off"
    /\ net' = [net EXCEPT ![p] = "queue"]
    /\ tries' = [tries EXCEPT ![p] = 1]
    /\ UNCHANGED <<answer, nap, slot, stamp, since>>

(* Mutant: the lock is not waited for.                                     *)
GrabAnyway(p) ==
    /\ net[p] = "queue" /\ p \in Paced
    /\ slot' = p
    /\ nap' = [nap EXCEPT ![p] = Interval - stamp]
    /\ net' = [net EXCEPT ![p] = "sleep"]
    /\ UNCHANGED <<tries, answer, stamp, since>>

(* flock(LOCK_EX) returns; the time in the file says how long to sleep.    *)
Grab(p) ==
    /\ net[p] = "queue" /\ p \in Paced
    /\ slot = Nobody
    /\ slot' = p
    /\ nap' = [nap EXCEPT ![p] = Interval - stamp]
    /\ net' = [net EXCEPT ![p] = "sleep"]
    /\ UNCHANGED <<tries, answer, stamp, since>>

(* urlopen, after the sleep or on a host that is not paced.                *)
Request(p) ==
    /\ IF p \in Paced THEN net[p] = "sleep" /\ nap[p] = 0 ELSE net[p] = "queue"
    /\ net' = [net EXCEPT ![p] = "request"]
    /\ UNCHANGED <<tries, answer, nap, slot, stamp, since>>

(* Where an attempt with this answer leaves the download.                  *)
Settled(p, a) ==
    IF a \in Bodies THEN "body"
    ELSE IF a = "404" THEN "gone"
    ELSE IF tries[p] < Retries THEN "backoff" ELSE "failed"

(* The request ends, with a body or an exception.  In the finally of       *)
(* _host_slot the lock file is emptied: a `last` of 0 is long ago.           *)
Answer(p, a) ==
    /\ net[p] = "request"
    /\ answer' = [answer EXCEPT ![p] = a]
    /\ IF p \in Paced
       THEN /\ net' = [net EXCEPT ![p] = "stamp"]
            /\ stamp' = Interval
            /\ since' = 0
       ELSE /\ net' = [net EXCEPT ![p] = Settled(p, a)]
            /\ UNCHANGED <<stamp, since>>
    /\ UNCHANGED <<tries, nap, slot>>

(* Mutant: the lock is given back before the time is written.              *)
ReleaseUnstamped(p) ==
    /\ net[p] = "stamp"
    /\ slot' = Nobody
    /\ net' = [net EXCEPT ![p] = Settled(p, answer[p])]
    /\ UNCHANGED <<tries, answer, nap, stamp, since>>

(* The time is written, the file closed and with it the lock given back.   *)
Release(p) ==
    /\ net[p] = "stamp"
    /\ stamp' = 0
    /\ slot' = Nobody
    /\ net' = [net EXCEPT ![p] = Settled(p, answer[p])]
    /\ UNCHANGED <<tries, answer, nap, since>>

(* The pause is over: the next attempt.                                    *)
Retry(p) ==
    /\ net[p] = "backoff"
    /\ tries' = [tries EXCEPT ![p] = @ + 1]
    /\ answer' = [answer EXCEPT ![p] = "none"]
    /\ net' = [net EXCEPT ![p] = "queue"]
    /\ UNCHANGED <<nap, slot, stamp, since>>

(* _fetch returns the body or raises TuneFetchError.                       *)
Return(p) ==
    /\ net[p] \in {"body", "gone", "failed"}
    /\ net' = [net EXCEPT ![p] = "off"]
    /\ tries' = [tries EXCEPT ![p] = 0]
    /\ answer' = [answer EXCEPT ![p] = "none"]
    /\ UNCHANGED <<nap, slot, stamp, since>>

(* The process is killed: its request is cut off, its lock given back, and *)
(* the lock file stays as it is.                                            *)
SlotKill(p) ==
    /\ net[p] \in Mortal
    /\ net' = [net EXCEPT ![p] = "off"]
    /\ tries' = [tries EXCEPT ![p] = 0]
    /\ answer' = [answer EXCEPT ![p] = "none"]
    /\ nap' = [nap EXCEPT ![p] = 0]
    /\ slot' = IF slot = p THEN Nobody ELSE slot
    /\ since' = IF p \in Paced /\ net[p] = "request" THEN 0 ELSE since
    /\ UNCHANGED stamp

(* Mutant: ages are not capped.                                            *)
OlderForever(age) == age + 1

(* A tick of the clock.                                                    *)
Older(age) == IF age < Interval THEN age + 1 ELSE age

SlotTick ==
    /\ stamp' = Older(stamp)
    /\ since' = Older(since)
    /\ nap' = [p \in Procs |-> IF nap[p] > 0 THEN nap[p] - 1 ELSE 0]
    /\ <<stamp', since', nap'>> # <<stamp, since, nap>>
    /\ UNCHANGED <<net, tries, answer, slot>>

SlotStep(p) ==
    \/ Grab(p) \/ Request(p)
    \/ \E a \in Answers : Answer(p, a)
    \/ Release(p) \/ Retry(p)

SlotNext ==
    \/ \E p \in Procs : Call(p) \/ SlotStep(p) \/ Return(p) \/ SlotKill(p)
    \/ SlotTick

SlotSpec == SlotInit /\ [][SlotNext]_slotVars

-----------------------------------------------------------------------------
(* "requests to a HOST_INTERVAL host from every process on this machine    *)
(* run one at a time" (_host_slot).                                         *)
OneAtATime ==
    \A p, q \in Paced :
      net[p] = "request" /\ net[q] = "request" => p = q

(* "... that interval apart": a request begins when the last one, whichever *)
(* process made it, ended at least an interval ago.  It rests on the time   *)
(* being written before the lock is given back, and holds while no process  *)
(* is killed between its request's start and that moment.                   *)
Spaced ==
    [][\A p \in Paced :
         net[p] # "request" /\ net'[p] = "request" => since >= Interval]_slotVars
=============================================================================
