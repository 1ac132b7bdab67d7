----------------------------- MODULE JobResults -----------------------------
(***************************************************************************)
(* What jobs.imap promises its consumer, without workers, pipes or          *)
(* processes: each of the tasks 1..N is run at most once, is reported at    *)
(* most once and truthfully, and the iterator is exhausted only when every  *)
(* task has been reported.                                                  *)
(***************************************************************************)
EXTENDS Naturals

CONSTANT N  \* how many tasks imap is given (JobPool assumes it positive)

VARIABLES
    fate,   \* how far fn(*task) has come, per task: "returned" a value to send
    late,   \* the unreported tasks one of whose deadlines has passed
    out,    \* what the iterator yielded for the task, "none" before
    how     \* "open", or how the iterator ended

avars == <<fate, late, out, how>>

Tasks == 1..N
Fates == {"todo", "running", "returned", "raised"}
Verdicts == {"value", "error", "fallback", "timeout", "died"}
Endings == {"open", "exhausted", "closed", "broken"}

ATypeOK ==
    /\ fate \in [Tasks -> Fates]
    /\ late \subseteq Tasks
    /\ out \in [Tasks -> Verdicts \cup {"none"}]
    /\ how \in Endings

AInit ==
    /\ fate = [t \in Tasks |-> "todo"]
    /\ late = {}
    /\ out = [t \in Tasks |-> "none"]
    /\ how = "open"

(* A verdict the consumer may be given of a task: a value only of a call   *)
(* that returned, an exception only of one that raised, and a time-out or   *)
(* the fallback only when a deadline of the task has passed.                *)
Honest(t, verdict) ==
    /\ verdict = "value" => fate[t] = "returned"
    /\ verdict = "error" => fate[t] = "raised"
    /\ verdict \in {"timeout", "fallback"} => t \in late

Begin(t) ==
    /\ fate[t] = "todo"
    /\ fate' = [fate EXCEPT ![t] = "running"]
    /\ UNCHANGED <<late, out, how>>

Complete(t, f) ==
    /\ fate[t] = "running"
    /\ fate' = [fate EXCEPT ![t] = f]
    /\ UNCHANGED <<late, out, how>>

(* Time passes: any of the tasks may become late.                          *)
Lapse ==
    /\ late' \in SUBSET Tasks
    /\ late \subseteq late'
    /\ UNCHANGED <<fate, out, how>>

Report(t, verdict) ==
    /\ how = "open"
    /\ out[t] = "none"
    /\ Honest(t, verdict)
    /\ out' = [out EXCEPT ![t] = verdict]
    /\ late' = late \ {t}
    /\ UNCHANGED <<fate, how>>

End(h) ==
    /\ how = "open"
    /\ h = "exhausted" => \A t \in Tasks : out[t] # "none"
    /\ how' = h
    /\ UNCHANGED <<fate, late, out>>

ANext ==
    \/ \E t \in Tasks :
         \/ Begin(t)
         \/ \E f \in {"returned", "raised"} : Complete(t, f)
         \/ \E verdict \in Verdicts : Report(t, verdict)
    \/ Lapse
    \/ \E h \in Endings \ {"open"} : End(h)

ASpec == AInit /\ [][ANext]_avars
=============================================================================
