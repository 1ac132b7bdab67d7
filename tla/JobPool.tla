------------------------------ MODULE JobPool ------------------------------
(***************************************************************************)
(* pysidtracker.jobs: imap hands tasks to worker processes over pipes and   *)
(* yields their results; a job's deadline arms its parent, which kills the  *)
(* worker (and its process group) when the time has run out.                *)
(*                                                                          *)
(* The parent, every worker, the job inside a worker, the consumer of the   *)
(* iterator and the clock take steps in any order.  The parent's lists      *)
(* idle, busy and the copy of busy it walks are sets: the model allows      *)
(* every order of them.  A worker that is replaced keeps its name.          *)
(***************************************************************************)
EXTENDS Integers, Sequences

CONSTANTS
    N,          \* how many tasks there are: 1..N in the order of `todo`
    Jobs,       \* the number of workers asked for
    Group,      \* whether a worker leads a process group (not a nested pool)
    MaxBudget,  \* bound: the longest deadline, in ticks
    MaxDepth,   \* bound: how deep a job nests its deadlines
    MaxEnters,  \* bound: how many deadlines a job enters
    Fallbacks,  \* bound: deadlines with (TRUE) or without (FALSE) a fallback
    Forkers     \* bound: the tasks that may start processes of their own

ASSUME PoolAssumption ==
    /\ N \in Nat \ {0}
    /\ Jobs \in Nat \ {0}
    /\ Group \in BOOLEAN
    /\ MaxBudget \in Nat \ {0}
    /\ MaxDepth \in Nat
    /\ MaxEnters \in Nat
    /\ Fallbacks \subseteq BOOLEAN
    /\ Forkers \subseteq 1..N

Tasks == 1..N
Workers == 1..(IF Jobs < N THEN Jobs ELSE N)  \* count = max(1, min(jobs, len(todo)))

Stop == 0               \* the None that ends a worker
Never == MaxBudget + 1  \* `until` is None
Nobody == 0             \* no worker is in the parent's hands

VARIABLES
    \* the parent
    pc,        \* where imap is
    next,      \* todo is next..N
    idle, busy,
    scan,      \* the rest of list(busy) that this round has still to ask
    cur,       \* the worker _ended looks at, or whose job is being yielded
    job,       \* _Worker.job
    until,     \* _Worker.until, in ticks from now
    fallback,  \* whether _Worker.fallback is set
    out,       \* what was yielded for each task
    how,       \* "open", or how the iterator ended
    lost,      \* workers in none of the parent's lists any more
    \* the pipes
    inbox, outbox,
    \* the workers and their jobs
    proc,      \* the worker process
    task,      \* the task it runs, or ran last
    kids,      \* the jobs that started processes living in the worker's group
    fate,      \* how far each task's function has come; one whose value does not
               \* pickle counts as "raised"
    clock,     \* the deadlines each task has entered, with the ticks left
    depth      \* how many of them it has not left
               \* (both are forgotten when the task is reported)

parent == <<pc, next, idle, busy, scan, cur, job, until, fallback, out, how, lost>>
worker == <<proc, task, kids>>
jobs == <<fate, clock, depth>>
vars == <<parent, inbox, outbox, worker, jobs>>

DeadlineMessage == [kind : {"deadline"}, left : 0..MaxBudget, fb : BOOLEAN]
DoneMessage == [kind : {"done"}, ok : BOOLEAN]
Deadline(left, fb) == [kind |-> "deadline", left |-> left, fb |-> fb]
Done(ok) == [kind |-> "done", ok |-> ok]

Alive(w) == proc[w] # "dead"

TypeOK ==
    /\ pc \in {"assign", "wait", "scan", "poll", "check", "yield", "final",
               "join", "ended"}
    /\ next \in 1..(N + 1)
    /\ idle \subseteq Workers
    /\ busy \subseteq Workers
    /\ scan \subseteq Workers
    /\ cur \in Workers \cup {Nobody}
    /\ job \in [Workers -> 0..N]
    /\ until \in [Workers -> 0..Never]
    /\ fallback \in [Workers -> BOOLEAN]
    /\ out \in [Tasks -> {"none", "value", "error", "fallback", "timeout", "died"}]
    /\ how \in {"open", "exhausted", "closed", "broken"}
    /\ lost \subseteq Workers
    /\ inbox \in [Workers -> Seq(Tasks \cup {Stop})]
    /\ outbox \in [Workers -> Seq(DeadlineMessage \cup DoneMessage)]
    /\ proc \in [Workers -> {"booting", "ready", "running", "dead"}]
    /\ task \in [Workers -> 0..N]
    /\ \A w \in Workers : proc[w] = "running" => task[w] \in Tasks
    /\ kids \in [Workers -> SUBSET Tasks]
    /\ fate \in [Tasks -> {"todo", "running", "returned", "raised"}]
    /\ clock \in [Tasks -> Seq([left : 0..MaxBudget, fb : BOOLEAN])]
    /\ depth \in [Tasks -> 0..MaxDepth]

Init ==
    /\ pc = "assign" /\ next = 1 /\ cur = Nobody /\ how = "open"
    /\ idle = Workers /\ busy = {} /\ scan = {} /\ lost = {}
    /\ job = [w \in Workers |-> 0]
    /\ until = [w \in Workers |-> Never]
    /\ fallback = [w \in Workers |-> FALSE]
    /\ out = [t \in Tasks |-> "none"]
    /\ inbox = [w \in Workers |-> <<>>]
    /\ outbox = [w \in Workers |-> <<>>]
    /\ proc = [w \in Workers |-> "booting"]
    /\ task = [w \in Workers |-> 0]
    /\ kids = [w \in Workers |-> {}]
    /\ fate = [t \in Tasks |-> "todo"]
    /\ clock = [t \in Tasks |-> <<>>]
    /\ depth = [t \in Tasks |-> 0]

-----------------------------------------------------------------------------
(* A worker: _serve and the job it runs.                                   *)

(* The spawned process has run its initializer and is at conn.recv().      *)
Boot(w) ==
    /\ proc[w] = "booting"
    /\ proc' = [proc EXCEPT ![w] = "ready"]
    /\ UNCHANGED <<parent, inbox, outbox, task, kids, jobs>>

Receive(w) ==
    /\ proc[w] = "ready"
    /\ inbox[w] # <<>>
    /\ inbox' = [inbox EXCEPT ![w] = Tail(@)]
    /\ IF Head(inbox[w]) = Stop
       THEN /\ proc' = [proc EXCEPT ![w] = "dead"]
            /\ UNCHANGED <<task, fate>>
       ELSE /\ proc' = [proc EXCEPT ![w] = "running"]
            /\ task' = [task EXCEPT ![w] = Head(inbox[w])]
            /\ fate' = [fate EXCEPT ![Head(inbox[w])] = "running"]
    /\ UNCHANGED <<parent, outbox, kids, clock, depth>>

(* The job enters `with deadline(left, fallback)`.                         *)
EnterDeadline(w, left, fb) ==
    LET t == task[w] IN
    /\ proc[w] = "running"
    /\ depth[t] < MaxDepth
    /\ Len(clock[t]) < MaxEnters
    /\ clock' = [clock EXCEPT ![t] = Append(@, [left |-> left, fb |-> fb])]
    /\ depth' = [depth EXCEPT ![t] = @ + 1]
    /\ outbox' = [outbox EXCEPT ![w] = Append(@, Deadline(left, fb))]
    /\ UNCHANGED <<parent, inbox, worker, fate>>

(* It leaves the innermost one, in whatever way: the finally of deadline.  *)
LeaveDeadline(w) ==
    LET t == task[w] IN
    /\ proc[w] = "running"
    /\ depth[t] > 0
    /\ depth' = [depth EXCEPT ![t] = @ - 1]
    /\ outbox' = [outbox EXCEPT ![w] = Append(@, Deadline(0, FALSE))]
    /\ UNCHANGED <<parent, inbox, worker, fate, clock>>

(* The task's function returns a value that pickles, or not: it raises, or  *)
(* its value does not pickle.  "done" is sent, with the value or, if there   *)
(* is none to send, the exception or a RuntimeError.                        *)
Finish(w, f) ==
    /\ proc[w] = "running"
    /\ depth[task[w]] = 0
    /\ fate' = [fate EXCEPT ![task[w]] = f]
    /\ outbox' = [outbox EXCEPT ![w] = Append(@, Done(f = "returned"))]
    /\ proc' = [proc EXCEPT ![w] = "ready"]
    /\ UNCHANGED <<parent, inbox, task, kids, clock, depth>>

(* The job starts a process, such as a nested pool; none ends by itself.   *)
Fork(w) ==
    /\ proc[w] = "running"
    /\ task[w] \in Forkers
    /\ kids' = [kids EXCEPT ![w] = @ \cup {task[w]}]
    /\ kids' # kids
    /\ UNCHANGED <<parent, inbox, outbox, proc, task, jobs>>

(* The process ends by itself, wherever it is: the initializer raises, the *)
(* job exits or crashes it, the kernel kills it.                            *)
Die(w) ==
    /\ Alive(w)
    /\ proc' = [proc EXCEPT ![w] = "dead"]
    /\ UNCHANGED <<parent, inbox, outbox, task, kids, jobs>>

(* A worker the parent has dropped reads EOF and ends.                     *)
Orphan(w) ==
    /\ w \in lost
    /\ proc[w] = "ready"
    /\ proc' = [proc EXCEPT ![w] = "dead"]
    /\ UNCHANGED <<parent, inbox, outbox, task, kids, jobs>>

(* Mutant: a deadline that has passed goes on counting.                    *)
EarlierWithoutEnd(n) == IF n = Never THEN n ELSE n - 1

(* One tick of the clock, for the parent's deadlines and the jobs'.        *)
Earlier(n) == IF n \in 1..MaxBudget THEN n - 1 ELSE n

Tick ==
    /\ until' = [w \in Workers |-> IF w \in busy THEN Earlier(until[w]) ELSE until[w]]
    /\ clock' = [t \in Tasks |->
                  [i \in DOMAIN clock[t] |->
                     [clock[t][i] EXCEPT !.left = Earlier(@)]]]
    /\ <<until', clock'>> # <<until, clock>>
    /\ UNCHANGED <<pc, next, idle, busy, scan, cur, job, fallback, out, how, lost,
                   inbox, outbox, worker, fate, depth>>

-----------------------------------------------------------------------------
(* The parent: imap, _ended and the methods of _Worker.                    *)

(* Mutant: only the worker itself is killed, not its group.                *)
KillWorkerOnly(w) ==
    /\ proc' = [proc EXCEPT ![w] = "dead"]
    /\ kids' = kids
    /\ inbox' = [inbox EXCEPT ![w] = <<>>]
    /\ outbox' = [outbox EXCEPT ![w] = <<>>]

(* _Worker.kill: SIGKILL to the group it leads, then to the process, join, *)
(* and the pipe closed.                                                     *)
Kill(w) ==
    /\ proc' = [proc EXCEPT ![w] = "dead"]
    /\ kids' = [kids EXCEPT ![w] = IF Group THEN {} ELSE @]
    /\ inbox' = [inbox EXCEPT ![w] = <<>>]
    /\ outbox' = [outbox EXCEPT ![w] = <<>>]

(* _Worker.__init__: a new process and pipe in place of w's.               *)
Spawn(w) ==
    /\ proc' = [proc EXCEPT ![w] = "booting"]
    /\ kids' = [kids EXCEPT ![w] = {}]
    /\ inbox' = [inbox EXCEPT ![w] = <<>>]
    /\ outbox' = [outbox EXCEPT ![w] = <<>>]
    /\ job' = [job EXCEPT ![w] = 0]
    /\ until' = [until EXCEPT ![w] = Never]
    /\ fallback' = [fallback EXCEPT ![w] = FALSE]

(* _Worker.start, the fields it sets before it sends the task.             *)
Start(w) ==
    /\ job' = [job EXCEPT ![w] = next]
    /\ until' = [until EXCEPT ![w] = Never]
    /\ fallback' = [fallback EXCEPT ![w] = FALSE]

(* todo.popleft(), idle.pop(), start; the worker is there to be sent to.   *)
Assign(w) ==
    /\ pc = "assign" /\ w \in idle /\ next <= N
    /\ Alive(w)
    /\ next' = next + 1
    /\ idle' = idle \ {w}
    /\ busy' = busy \cup {w}
    /\ Start(w)
    /\ inbox' = [inbox EXCEPT ![w] = Append(@, next)]
    /\ UNCHANGED <<pc, scan, cur, out, how, lost, outbox, worker, jobs>>

(* The worker has died in the meantime: conn.send raises BrokenPipeError   *)
(* out of imap, after the worker has left idle and before it joins busy.    *)
AssignBroken(w) ==
    /\ pc = "assign" /\ w \in idle /\ next <= N
    /\ ~Alive(w)
    /\ next' = next + 1
    /\ idle' = idle \ {w}
    /\ lost' = lost \cup {w}
    /\ Start(w)
    /\ how' = "broken"
    /\ pc' = "final"
    /\ UNCHANGED <<busy, scan, cur, out, inbox, outbox, worker, jobs>>

(* Mutant: the loop ends when nothing is left to hand out.                 *)
AssignedAll ==
    /\ pc = "assign"
    /\ idle = {} \/ next > N
    /\ IF next > N
       THEN pc' = "final" /\ how' = "exhausted"
       ELSE pc' = "wait" /\ UNCHANGED how
    /\ UNCHANGED <<next, idle, busy, scan, cur, job, until, fallback, out, lost,
                   inbox, outbox, worker, jobs>>

(* Every idle worker has a job, or nothing is left to hand out.            *)
Assigned ==
    /\ pc = "assign"
    /\ idle = {} \/ next > N
    /\ IF next > N /\ busy = {}
       THEN pc' = "final" /\ how' = "exhausted"
       ELSE pc' = "wait" /\ UNCHANGED how
    /\ UNCHANGED <<next, idle, busy, scan, cur, job, until, fallback, out, lost,
                   inbox, outbox, worker, jobs>>

(* Mutants: the wait leaves out the sentinels, or the deadlines.           *)
WakeFor(events) ==
    /\ pc = "wait"
    /\ events # {}
    /\ pc' = "scan"
    /\ scan' = busy
    /\ UNCHANGED <<next, idle, busy, cur, job, until, fallback, out, how, lost,
                   inbox, outbox, worker, jobs>>

WakeWithoutSentinels == WakeFor({w \in busy : outbox[w] # <<>> \/ until[w] = 0})
WakeWithoutDeadlines == WakeFor({w \in busy : outbox[w] # <<>> \/ ~Alive(w)})

(* wait() returns: a pipe is readable, a process has ended or the earliest *)
(* armed deadline has passed; list(busy) is copied.                         *)
Wake ==
    /\ pc = "wait"
    /\ \E w \in busy : outbox[w] # <<>> \/ ~Alive(w) \/ until[w] = 0
    /\ pc' = "scan"
    /\ scan' = busy
    /\ UNCHANGED <<next, idle, busy, cur, job, until, fallback, out, how, lost,
                   inbox, outbox, worker, jobs>>

Ask(w) ==
    /\ pc = "scan" /\ w \in scan
    /\ scan' = scan \ {w}
    /\ cur' = w
    /\ pc' = "poll"
    /\ UNCHANGED <<next, idle, busy, job, until, fallback, out, how, lost,
                   inbox, outbox, worker, jobs>>

Scanned ==
    /\ pc = "scan" /\ scan = {}
    /\ pc' = "assign"
    /\ cur' = Nobody
    /\ UNCHANGED <<next, idle, busy, scan, job, until, fallback, out, how, lost,
                   inbox, outbox, worker, jobs>>

(* Mutant: the worker stays in busy.                                       *)
YieldStillBusy(verdict) ==
    /\ busy' = busy
    /\ out' = [out EXCEPT ![job[cur]] = verdict]
    /\ pc' = "yield"
    /\ clock' = [clock EXCEPT ![job[cur]] = <<>>]
    /\ depth' = [depth EXCEPT ![job[cur]] = 0]

(* The worker in hand has ended its job: out of busy, and yielded.         *)
Yield(verdict) ==
    /\ busy' = busy \ {cur}
    /\ out' = [out EXCEPT ![job[cur]] = verdict]
    /\ pc' = "yield"
    /\ clock' = [clock EXCEPT ![job[cur]] = <<>>]
    /\ depth' = [depth EXCEPT ![job[cur]] = 0]

(* Mutant: the zero that disarms a kill is taken for a deadline.           *)
TakeDeadlineLiterally ==
    LET m == Head(outbox[cur]) IN
    /\ pc = "poll" /\ outbox[cur] # <<>>
    /\ m.kind = "deadline"
    /\ outbox' = [outbox EXCEPT ![cur] = Tail(@)]
    /\ until' = [until EXCEPT ![cur] = m.left]
    /\ fallback' = [fallback EXCEPT ![cur] = m.fb]
    /\ UNCHANGED <<pc, next, idle, busy, scan, cur, job, out, how, lost,
                   inbox, worker, jobs>>

(* _ended reads a "deadline" message: it arms or disarms the kill.         *)
TakeDeadline ==
    LET m == Head(outbox[cur]) IN
    /\ pc = "poll" /\ outbox[cur] # <<>>
    /\ m.kind = "deadline"
    /\ outbox' = [outbox EXCEPT ![cur] = Tail(@)]
    /\ until' = [until EXCEPT ![cur] = IF m.left = 0 THEN Never ELSE m.left]
    /\ fallback' = [fallback EXCEPT ![cur] = m.fb]
    /\ UNCHANGED <<pc, next, idle, busy, scan, cur, job, out, how, lost,
                   inbox, worker, jobs>>

(* _ended reads "done" and returns its value and error.                    *)
TakeDone ==
    LET m == Head(outbox[cur]) IN
    /\ pc = "poll" /\ outbox[cur] # <<>>
    /\ m.kind = "done"
    /\ outbox' = [outbox EXCEPT ![cur] = Tail(@)]
    /\ Yield(IF m.ok THEN "value" ELSE "error")
    /\ UNCHANGED <<next, idle, scan, cur, job, until, fallback, how, lost,
                   inbox, worker, fate>>

(* poll() is false, or recv() raises EOFError: nothing is left to read.    *)
Drained ==
    /\ pc = "poll" /\ outbox[cur] = <<>>
    /\ pc' = "check"
    /\ UNCHANGED <<next, idle, busy, scan, cur, job, until, fallback, out, how,
                   lost, inbox, outbox, worker, jobs>>

StillRuns ==
    /\ pc = "check" /\ Alive(cur) /\ until[cur] > 0
    /\ pc' = "scan"
    /\ UNCHANGED <<next, idle, busy, scan, cur, job, until, fallback, out, how,
                   lost, inbox, outbox, worker, jobs>>

(* Mutant: a job past its deadline is reported and left to run.            *)
ExpiredUnkilled ==
    /\ pc = "check" /\ Alive(cur) /\ until[cur] = 0
    /\ Yield(IF fallback[cur] THEN "fallback" ELSE "timeout")
    /\ UNCHANGED <<next, idle, scan, cur, job, until, fallback, how, lost,
                   inbox, outbox, worker, fate>>

Expired ==
    /\ pc = "check" /\ Alive(cur) /\ until[cur] = 0
    /\ Kill(cur)
    /\ Yield(IF fallback[cur] THEN "fallback" ELSE "timeout")
    /\ UNCHANGED <<next, idle, scan, cur, job, until, fallback, how, lost,
                   task, fate>>

Died ==
    /\ pc = "check" /\ ~Alive(cur)
    /\ Kill(cur)
    /\ Yield("died")
    /\ UNCHANGED <<next, idle, scan, cur, job, until, fallback, how, lost,
                   task, fate>>

(* Mutant: a killed worker is not replaced.                                *)
ResumeUnreplaced ==
    /\ pc = "yield"
    /\ idle' = IF Alive(cur) THEN idle \cup {cur} ELSE idle
    /\ pc' = "scan"
    /\ UNCHANGED <<next, busy, scan, cur, job, until, fallback, out, how, lost,
                   inbox, outbox, worker, jobs>>

(* The consumer asks for the next result: the worker is idle again, or a   *)
(* new one is spawned in its place.                                         *)
Resume ==
    /\ pc = "yield"
    /\ idle' = idle \cup {cur}
    /\ pc' = "scan"
    /\ IF Alive(cur)
       THEN UNCHANGED <<proc, kids, inbox, outbox, job, until, fallback>>
       ELSE Spawn(cur)
    /\ UNCHANGED <<next, busy, scan, cur, out, how, lost, task, jobs>>

(* The consumer gives the iterator up at the yield: the worker in hand is  *)
(* in neither list.                                                         *)
Close ==
    /\ pc = "yield"
    /\ how' = "closed"
    /\ lost' = lost \cup {cur}
    /\ pc' = "final"
    /\ UNCHANGED <<next, idle, busy, scan, cur, job, until, fallback, out,
                   inbox, outbox, worker, jobs>>

(* finally: the busy workers are killed ...                                *)
KillBusy(w) ==
    /\ pc = "final" /\ w \in busy
    /\ busy' = busy \ {w}
    /\ Kill(w)
    /\ UNCHANGED <<pc, next, idle, scan, cur, job, until, fallback, out, how,
                   lost, task, jobs>>

(* Mutant: the idle workers are joined without being told to stop.         *)
StopIdleSilently(w) ==
    /\ pc = "final" /\ busy = {} /\ w \in idle
    /\ cur' = w
    /\ pc' = "join"
    /\ UNCHANGED <<next, idle, busy, scan, job, until, fallback, out, how, lost,
                   inbox, outbox, worker, jobs>>

(* ... and each idle one is sent None (an OSError is ignored) ...          *)
StopIdle(w) ==
    /\ pc = "final" /\ busy = {} /\ w \in idle
    /\ inbox' = [inbox EXCEPT ![w] = IF Alive(w) THEN Append(@, Stop) ELSE @]
    /\ cur' = w
    /\ pc' = "join"
    /\ UNCHANGED <<next, idle, busy, scan, job, until, fallback, out, how, lost,
                   outbox, worker, jobs>>

(* ... and joined.                                                         *)
Join ==
    /\ pc = "join" /\ ~Alive(cur)
    /\ idle' = idle \ {cur}
    /\ pc' = "final"
    /\ UNCHANGED <<next, busy, scan, cur, job, until, fallback, out, how, lost,
                   inbox, outbox, worker, jobs>>

Ended ==
    /\ pc = "final" /\ busy = {} /\ idle = {}
    /\ pc' = "ended"
    /\ UNCHANGED <<next, idle, busy, scan, cur, job, until, fallback, out, how,
                   lost, inbox, outbox, worker, jobs>>

-----------------------------------------------------------------------------
Job(w) ==
    \/ \E left \in 1..MaxBudget, fb \in Fallbacks : EnterDeadline(w, left, fb)
    \/ LeaveDeadline(w)
    \/ \E f \in {"returned", "raised"} : Finish(w, f)
    \/ Fork(w)
    \/ Die(w)

Serve(w) == Boot(w) \/ Receive(w) \/ Orphan(w)

Imap ==
    \/ \E w \in Workers :
         \/ Assign(w) \/ AssignBroken(w) \/ Ask(w)
         \/ KillBusy(w) \/ StopIdle(w)
    \/ Assigned \/ Wake \/ Scanned
    \/ TakeDeadline \/ TakeDone \/ Drained
    \/ StillRuns \/ Expired \/ Died
    \/ Join \/ Ended

Consumer == Resume \/ Close

(* Nothing is left to do.                                                  *)
Terminated ==
    /\ pc = "ended"
    /\ \A w \in Workers : ~Alive(w)
    /\ UNCHANGED vars

Next ==
    \/ \E w \in Workers : Serve(w) \/ Job(w)
    \/ Imap
    \/ Consumer
    \/ Tick
    \/ Terminated

Spec == Init /\ [][Next]_vars

(* The parent and the loop of every worker run, the consumer asks again or *)
(* gives up, and time passes; a job owes nothing and may spin forever.      *)
Fairness ==
    /\ WF_vars(Imap)
    /\ WF_vars(Consumer)
    /\ WF_vars(Tick)
    /\ \A w \in Workers : WF_vars(Serve(w))

FairSpec == Spec /\ Fairness

-----------------------------------------------------------------------------
(* While the iterator is open every worker is idle, busy or in the hands   *)
(* of the loop that yields its result, never two of these: no worker leaks  *)
(* and the parent never waits for nobody (imap: the moves between idle,     *)
(* busy and the replacement).                                               *)
PoolWhole ==
    /\ idle \cap busy = {}
    /\ how = "open" =>
         /\ scan \subseteq busy \ {cur}
         /\ pc \in {"poll", "check"} => cur \in busy
         /\ IF pc = "yield"
            THEN cur \notin idle \cup busy /\ idle \cup busy \cup {cur} = Workers
            ELSE idle \cup busy = Workers
         /\ pc = "wait" => busy # {}

(* The pipes never carry anything over from one job to the next: a worker  *)
(* with no job has nothing to read and nothing unread, a task still in its  *)
(* pipe has not begun, and a "done" is the last word of the very job the    *)
(* parent has it down for (_serve, _Worker.start, _ended).                  *)
Quiet(w) ==
    /\ proc[w] # "running"
    /\ outbox[w] = <<>>
    /\ \/ inbox[w] = <<>>
       \/ inbox[w] = <<Stop>> /\ how # "open" /\ (w \in idle => pc = "join" /\ w = cur)

Unread(w) ==
    /\ inbox[w] = <<job[w]>>
    /\ outbox[w] = <<>>
    /\ proc[w] # "running"
    /\ fate[job[w]] = "todo"

Begun(w) ==
    /\ inbox[w] = <<>>
    /\ fate[job[w]] # "todo"
    /\ proc[w] = "running" => task[w] = job[w] /\ fate[job[w]] = "running"
    /\ \A i \in DOMAIN outbox[w] :
         outbox[w][i].kind = "done" =>
           /\ i = Len(outbox[w])
           /\ proc[w] # "running"
           /\ fate[job[w]] = IF outbox[w][i].ok THEN "returned" ELSE "raised"

PipesInStep ==
    \A w \in Workers : IF w \in busy THEN Unread(w) \/ Begun(w) ELSE Quiet(w)

(* Every task handed out and not reported is the job of exactly one busy   *)
(* worker: none is lost, none runs twice (imap: popleft, start, yield).     *)
EachTaskHeld ==
    how = "open" =>
      \A t \in Tasks :
        (t < next /\ out[t] = "none") <=> (\E w \in busy : job[w] = t)

SoleHolder ==
    \A v, w \in busy : job[v] = job[w] => v = w

(* A kill is armed only by a deadline its own job entered: it is not due   *)
(* before that deadline has passed, and the fallback is the one given with  *)
(* it (_ended arms, start clears what the worker's last job left behind).   *)
Entered(deadlines, left, fb) ==
    \E i \in DOMAIN deadlines : deadlines[i].left <= left /\ deadlines[i].fb = fb

KillIsDue ==
    \A w \in busy : until[w] # Never => Entered(clock[job[w]], until[w], fallback[w])

(* The rest of what the steps of the pool preserve, which the properties   *)
(* above rest on: where the loop is, whose jobs the busy workers hold, what *)
(* tasks not yet handed out look like, what a "deadline" on its way to the  *)
(* parent was sent for, and which jobs' processes a group holds.            *)
Loop ==
    /\ how = "open" <=> pc \notin {"final", "join", "ended"}
    /\ pc \in {"poll", "check", "yield", "join"} => cur \in Workers
    /\ pc = "join" => cur \in idle
    /\ pc \in {"assign", "wait"} => cur = Nobody

Untouched ==
    \A t \in Tasks :
      t >= next =>
        fate[t] = "todo" /\ clock[t] = <<>> /\ depth[t] = 0

BusyJobs ==
    /\ \A w \in busy : job[w] \in 1..(next - 1) /\ out[job[w]] = "none"
    /\ \A t \in Tasks : t >= next => out[t] = "none"

SentIsEntered ==
    \A w \in busy : \A m \in DOMAIN outbox[w] :
      outbox[w][m].kind = "deadline" /\ outbox[w][m].left > 0 =>
        Entered(clock[job[w]], outbox[w][m].left, outbox[w][m].fb)

GroupsHold ==
    Group =>
      \A w \in Workers : \A t \in kids[w] :
        out[t] \in {"value", "error"} \/ (w \in busy /\ job[w] = t)

Inv ==
    /\ TypeOK
    /\ Loop
    /\ PoolWhole
    /\ PipesInStep
    /\ Untouched
    /\ BusyJobs
    /\ EachTaskHeld
    /\ SoleHolder
    /\ SentIsEntered
    /\ KillIsDue
    /\ GroupsHold

(* Nothing a job started lives on in its worker's group once the job is    *)
(* reported as killed or its worker as dead (_Worker.kill).                 *)
NoStrays ==
    Group =>
      \A t \in Tasks, w \in Workers :
        out[t] \in {"timeout", "fallback", "died"} => t \notin kids[w]

(* imap keeps the promise of JobResults: each task is run and reported at  *)
(* most once, with a verdict that is true of it, and all of them are        *)
(* reported before the iterator is exhausted.                               *)
Late == {t \in Tasks : \E i \in DOMAIN clock[t] : clock[t][i].left = 0}

Results == INSTANCE JobResults WITH late <- Late

ResultsSpec == Results!ASpec

(* A busy worker whose job has ended, or that has died, is reported or     *)
(* killed (imap: the wait on pipes and sentinels misses neither).           *)
EndReported ==
    \A w \in Workers :
      (w \in busy /\ (~Alive(w) \/ \E i \in DOMAIN outbox[w] : outbox[w][i].kind = "done"))
        ~> w \notin busy

(* A job inside a deadline leaves it, or is ended from outside, wherever   *)
(* it spins (deadline: "End the enclosed work after seconds").              *)
DeadlineEnforced ==
    \A t \in Tasks : depth[t] > 0 ~> (depth[t] = 0 \/ pc = "ended")

(* However the iterator ends, imap ends, and with it every worker: those   *)
(* it killed or stopped and those that had left its lists.                  *)
AllEnd == pc = "final" ~> (pc = "ended" /\ \A w \in Workers : ~Alive(w))

(* "a ChildProcessError where its worker died. A killed or dead worker is  *)
(* replaced" (the docstring of imap): the death of a worker never breaks    *)
(* the iterator.                                                            *)
DeathIsReported == how # "broken"
=============================================================================
