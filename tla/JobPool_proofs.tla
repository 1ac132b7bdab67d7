--------------------------- MODULE JobPool_proofs ---------------------------
(***************************************************************************)
(* Proofs about JobPool, for every number of tasks and workers and every    *)
(* bound: type correctness, the inductive invariant Inv and the safety      *)
(* properties it implies.                                                   *)
(***************************************************************************)
EXTENDS JobPool, SequenceTheorems, TLAPS

(* What the messages on the pipes are made of.                             *)
Messages == DeadlineMessage \cup DoneMessage

(* What is in a pipe is a deadline or a "done".                           *)
LEMMA MessageTypes ==
    /\ \A left \in 0..MaxBudget, fb \in BOOLEAN : Deadline(left, fb) \in Messages
    /\ Deadline(0, FALSE) \in Messages
    /\ \A ok \in BOOLEAN : Done(ok) \in Messages
    /\ \A m \in Messages : m.kind = "deadline" => m.left \in 0..MaxBudget /\ m.fb \in BOOLEAN
    /\ \A m \in Messages : m.kind = "done" => m.ok \in BOOLEAN
    /\ \A m \in Messages : m.kind \in {"deadline", "done"}
  BY PoolAssumption DEF Messages, DeadlineMessage, DoneMessage, Deadline, Done

(* Sequences and their lengths.                                            *)
LEMMA EmptyByLength ==
    ASSUME NEW S, NEW s \in Seq(S)
    PROVE  /\ DOMAIN s = 1..Len(s) /\ Len(s) \in Nat
           /\ s = <<>> <=> Len(s) = 0
           /\ s = <<>> <=> DOMAIN s = {}
  <1>1. DOMAIN s = 1..Len(s) /\ Len(s) \in Nat
    BY LenProperties
  <1>2. s # <<>> => Len(s) \in Nat \ {0}
    BY EmptySeq
  <1>3. Len(<<>>) = 0
    OBVIOUS
  <1>4. s = <<>> <=> Len(s) = 0
    BY <1>2, <1>3
  <1>5. DOMAIN s = {} <=> Len(s) = 0
    <2>1. Len(s) # 0 => 1 \in 1..Len(s)
      BY <1>1
    <2> QED BY <1>1, <2>1
  <1> QED BY <1>1, <1>4, <1>5

(* Reading the only message leaves nothing.                               *)
LEMMA TailOfOne ==
    ASSUME NEW S, NEW s \in Seq(S), Len(s) = 1
    PROVE  Tail(s) = <<>>
  <1>1. s # <<>>
    OBVIOUS
  <1>2. Tail(s) \in Seq(S) /\ Len(Tail(s)) = 0
    BY <1>1, HeadTailProperties
  <1> QED BY <1>2, EmptyByLength

(* Ticking the deadlines of a job leaves a sequence of deadlines.          *)
LEMMA EarlierType ==
    ASSUME NEW n \in 0..Never
    PROVE  Earlier(n) \in 0..Never /\ Earlier(n) <= n /\ (n # Never => Earlier(n) \in 0..MaxBudget)
  BY PoolAssumption DEF Earlier, Never

(* The same of all the deadlines of every task.                           *)
LEMMA TickedClock ==
    ASSUME NEW s \in Seq([left : 0..MaxBudget, fb : BOOLEAN])
    PROVE  [i \in DOMAIN s |-> [s[i] EXCEPT !.left = Earlier(@)]]
             \in Seq([left : 0..MaxBudget, fb : BOOLEAN])
  <1> DEFINE D == [left : 0..MaxBudget, fb : BOOLEAN]
             r == [i \in DOMAIN s |-> [s[i] EXCEPT !.left = Earlier(@)]]
  <1>1. DOMAIN s = 1..Len(s) /\ Len(s) \in Nat
    BY LenProperties
  <1>2. ASSUME NEW i \in 1..Len(s) PROVE r[i] \in D
    <2>1. s[i] \in D
      BY ElementOfSeq
    <2>2. Earlier(s[i].left) \in 0..MaxBudget
      BY <2>1, EarlierType, PoolAssumption DEF Never, Earlier
    <2> QED BY <2>1, <2>2, <1>1
  <1>3. r \in [1..Len(s) -> D]
    BY <1>1, <1>2
  <1> QED BY <1>1, <1>3, SeqDef

-----------------------------------------------------------------------------
(* A worker's steps keep every variable in its type.                       *)
LEMMA WorkerTypes ==
    ASSUME TypeOK, NEW w \in Workers, Serve(w) \/ Job(w)
    PROVE  TypeOK'
  <1>1. CASE Boot(w)
    BY <1>1 DEF TypeOK, Boot, parent, jobs
  <1>2. CASE Receive(w)
    <2>1. Head(inbox[w]) \in Tasks \cup {Stop} /\ Tail(inbox[w]) \in Seq(Tasks \cup {Stop})
      BY <1>2 DEF TypeOK, Receive
    <2>2. Head(inbox[w]) # Stop => Head(inbox[w]) \in Tasks /\ Head(inbox[w]) \in 0..N
      BY <2>1, PoolAssumption DEF Tasks, Stop
    <2> QED BY <1>2, <2>1, <2>2 DEF TypeOK, Receive, parent
  <1>3. ASSUME NEW left \in 1..MaxBudget, NEW fb \in Fallbacks, EnterDeadline(w, left, fb)
        PROVE  TypeOK'
    <2> DEFINE t == task[w]
    <2>1. [left |-> left, fb |-> fb] \in [left : 0..MaxBudget, fb : BOOLEAN]
      BY PoolAssumption
    <2>2. Deadline(left, fb) \in DeadlineMessage \cup DoneMessage
      BY PoolAssumption, MessageTypes DEF Messages
    <2>3. t \in Tasks /\ depth[t] + 1 \in 0..MaxDepth
      BY <1>3, PoolAssumption DEF TypeOK, EnterDeadline
    <2>4. Append(clock[t], [left |-> left, fb |-> fb]) \in Seq([left : 0..MaxBudget, fb : BOOLEAN])
      BY <2>1, <2>3, AppendProperties DEF TypeOK
    <2>5. Append(outbox[w], Deadline(left, fb)) \in Seq(DeadlineMessage \cup DoneMessage)
      BY <2>2 DEF TypeOK
    <2> QED BY <1>3, <2>3, <2>4, <2>5 DEF TypeOK, EnterDeadline, parent, worker
  <1>4. CASE LeaveDeadline(w)
    <2> DEFINE t == task[w]
    <2>1. Deadline(0, FALSE) \in DeadlineMessage \cup DoneMessage
      BY MessageTypes DEF Messages
    <2>2. t \in Tasks /\ depth[t] - 1 \in 0..MaxDepth
      BY <1>4, PoolAssumption DEF TypeOK, LeaveDeadline
    <2>3. Append(outbox[w], Deadline(0, FALSE)) \in Seq(DeadlineMessage \cup DoneMessage)
      BY <2>1, AppendProperties DEF TypeOK
    <2> QED BY <1>4, <2>2, <2>3 DEF TypeOK, LeaveDeadline, parent, worker
  <1>5. ASSUME NEW f \in {"returned", "raised"}, Finish(w, f)
        PROVE  TypeOK'
    <2>1. Done(f = "returned") \in DeadlineMessage \cup DoneMessage
      BY MessageTypes DEF Messages
    <2>2. Append(outbox[w], Done(f = "returned")) \in Seq(DeadlineMessage \cup DoneMessage)
      BY <2>1 DEF TypeOK
    <2> QED BY <1>5, <2>2 DEF TypeOK, Finish, parent
  <1>6. CASE Fork(w)
    BY <1>6, PoolAssumption DEF TypeOK, Fork, parent, jobs, Tasks
  <1>7. CASE Die(w)
    BY <1>7 DEF TypeOK, Die, parent, jobs
  <1>8. CASE Orphan(w)
    BY <1>8 DEF TypeOK, Orphan, parent, jobs
  <1> QED BY <1>1, <1>2, <1>3, <1>4, <1>5, <1>6, <1>7, <1>8 DEF Serve, Job

(* What a kill, and the yield of a result, do to the types.                *)
LEMMA KillTypes ==
    ASSUME TypeOK, NEW w \in Workers, Kill(w)
    PROVE  /\ proc' \in [Workers -> {"booting", "ready", "running", "dead"}]
           /\ \A v \in Workers : proc'[v] = "running" => proc[v] = "running"
           /\ kids' \in [Workers -> SUBSET Tasks]
           /\ inbox' \in [Workers -> Seq(Tasks \cup {Stop})]
           /\ outbox' \in [Workers -> Seq(DeadlineMessage \cup DoneMessage)]
  <1>1. <<>> \in Seq(Tasks \cup {Stop}) /\ <<>> \in Seq(DeadlineMessage \cup DoneMessage)
    BY EmptySeq
  <1>2. inbox' \in [Workers -> Seq(Tasks \cup {Stop})]
    BY <1>1 DEF TypeOK, Kill
  <1>3. outbox' \in [Workers -> Seq(DeadlineMessage \cup DoneMessage)]
    BY <1>1 DEF TypeOK, Kill
  <1> QED BY <1>2, <1>3 DEF TypeOK, Kill

(* So does a new process.                                                 *)
LEMMA SpawnTypes ==
    ASSUME TypeOK, NEW w \in Workers, Spawn(w)
    PROVE  /\ proc' \in [Workers -> {"booting", "ready", "running", "dead"}]
           /\ \A v \in Workers : proc'[v] = "running" => proc[v] = "running"
           /\ kids' \in [Workers -> SUBSET Tasks]
           /\ inbox' \in [Workers -> Seq(Tasks \cup {Stop})]
           /\ outbox' \in [Workers -> Seq(DeadlineMessage \cup DoneMessage)]
           /\ job' \in [Workers -> 0..N]
           /\ until' \in [Workers -> 0..Never]
           /\ fallback' \in [Workers -> BOOLEAN]
  <1>1. <<>> \in Seq(Tasks \cup {Stop}) /\ <<>> \in Seq(DeadlineMessage \cup DoneMessage)
    BY EmptySeq
  <1>2. inbox' \in [Workers -> Seq(Tasks \cup {Stop})]
    BY <1>1 DEF TypeOK, Spawn
  <1>3. outbox' \in [Workers -> Seq(DeadlineMessage \cup DoneMessage)]
    BY <1>1 DEF TypeOK, Spawn
  <1>4. job' \in [Workers -> 0..N] /\ until' \in [Workers -> 0..Never]
    BY PoolAssumption DEF TypeOK, Spawn, Never
  <1>5. fallback' \in [Workers -> BOOLEAN] /\ kids' \in [Workers -> SUBSET Tasks]
    BY DEF TypeOK, Spawn
  <1> QED BY <1>2, <1>3, <1>4, <1>5 DEF TypeOK, Spawn

(* So does the yield of a result.                                         *)
LEMMA YieldTypes ==
    ASSUME TypeOK, cur \in Workers,
           NEW verdict \in {"value", "error", "fallback", "timeout", "died"}, Yield(verdict)
    PROVE  /\ pc' = "yield"
           /\ busy' \subseteq Workers
           /\ out' \in [Tasks -> {"none", "value", "error", "fallback", "timeout", "died"}]
           /\ clock' \in [Tasks -> Seq([left : 0..MaxBudget, fb : BOOLEAN])]
           /\ depth' \in [Tasks -> 0..MaxDepth]
  <1>1. <<>> \in Seq([left : 0..MaxBudget, fb : BOOLEAN])
    BY EmptySeq
  <1>2. 0 \in 0..MaxDepth
    BY PoolAssumption
  <1>3. clock' \in [Tasks -> Seq([left : 0..MaxBudget, fb : BOOLEAN])]
    BY <1>1 DEF TypeOK, Yield
  <1> QED BY <1>2, <1>3 DEF TypeOK, Yield

(* The parent's steps keep every variable in its type.                    *)
LEMMA ParentTypes ==
    ASSUME TypeOK, Loop, Imap \/ Consumer \/ Tick
    PROVE  TypeOK'
  <1>1. ASSUME NEW w \in Workers, Assign(w) PROVE TypeOK'
    <2>1. next \in Tasks /\ next \in 0..N /\ next + 1 \in 1..(N + 1) /\ Never \in 0..Never
      BY <1>1, PoolAssumption DEF TypeOK, Assign, Tasks, Never
    <2>2. inbox' \in [Workers -> Seq(Tasks \cup {Stop})]
      <3>1. Append(inbox[w], next) \in Seq(Tasks \cup {Stop})
        BY <2>1, AppendProperties DEF TypeOK
      <3> QED BY <3>1, <1>1 DEF TypeOK, Assign
    <2> QED BY <1>1, <2>1, <2>2 DEF TypeOK, Assign, Start, worker, jobs
  <1>2. ASSUME NEW w \in Workers, AssignBroken(w) PROVE TypeOK'
    <2>1. next \in 0..N /\ next + 1 \in 1..(N + 1) /\ Never \in 0..Never
      BY <1>2, PoolAssumption DEF TypeOK, AssignBroken, Tasks, Never
    <2> QED BY <1>2, <2>1 DEF TypeOK, AssignBroken, Start, worker, jobs
  <1>3. CASE Assigned
    BY <1>3, PoolAssumption DEF TypeOK, Loop, Assigned, worker, jobs
  <1>4. CASE Wake
    BY <1>4, PoolAssumption DEF TypeOK, Loop, Wake, worker, jobs
  <1>5. ASSUME NEW w \in Workers, Ask(w) PROVE TypeOK'
    BY <1>5, PoolAssumption DEF TypeOK, Loop, Ask, worker, jobs
  <1>6. CASE Scanned
    BY <1>6, PoolAssumption DEF TypeOK, Loop, Scanned, worker, jobs
  <1>7. CASE Drained
    BY <1>7, PoolAssumption DEF TypeOK, Loop, Drained, worker, jobs
  <1>8. CASE StillRuns
    BY <1>8, PoolAssumption DEF TypeOK, Loop, StillRuns, worker, jobs
  <1>9. CASE Expired
    <2>1. cur \in Workers
      BY <1>9 DEF Loop, Expired
    <2>2. /\ Kill(cur)
          /\ \E verdict \in {"fallback", "timeout"} : Yield(verdict)
      BY <1>9 DEF Expired
    <2> QED BY <1>9, <2>1, <2>2, KillTypes, YieldTypes DEF TypeOK, Expired
  <1>10. CASE Died
    <2>1. cur \in Workers
      BY <1>10 DEF Loop, Died
    <2>2. Kill(cur) /\ Yield("died")
      BY <1>10 DEF Died
    <2> QED BY <1>10, <2>1, <2>2, KillTypes, YieldTypes DEF TypeOK, Died
  <1>11. CASE TakeDone
    <2>1. cur \in Workers
      BY <1>11 DEF Loop, TakeDone
    <2>2. \E verdict \in {"value", "error"} : Yield(verdict)
      BY <1>11 DEF TakeDone
    <2>3. Tail(outbox[cur]) \in Seq(DeadlineMessage \cup DoneMessage)
      BY <2>1, <1>11, HeadTailProperties DEF TypeOK, TakeDone
    <2>4. outbox' \in [Workers -> Seq(DeadlineMessage \cup DoneMessage)]
      BY <2>3, <1>11 DEF TypeOK, TakeDone
    <2> QED BY <1>11, <2>1, <2>2, <2>4, YieldTypes DEF TypeOK, TakeDone, worker
  <1>12. CASE TakeDeadline
    <2>1. cur \in Workers /\ outbox[cur] \in Seq(Messages) /\ outbox[cur] # <<>>
      BY <1>12 DEF TypeOK, Loop, TakeDeadline, Messages
    <2>2. Tail(outbox[cur]) \in Seq(Messages) /\ Head(outbox[cur]) \in Messages
      BY <2>1, HeadTailProperties
    <2>3. Head(outbox[cur]).left \in 0..MaxBudget /\ Head(outbox[cur]).fb \in BOOLEAN
      BY <2>2, <1>12, MessageTypes DEF TakeDeadline
    <2>4. outbox' \in [Workers -> Seq(DeadlineMessage \cup DoneMessage)]
      BY <2>2, <1>12 DEF TypeOK, TakeDeadline, Messages
    <2>5. Head(outbox[cur]).left \in 0..Never /\ Never \in 0..Never
      BY <2>3, PoolAssumption DEF Never
    <2> QED BY <1>12, <2>1, <2>3, <2>4, <2>5 DEF TypeOK, TakeDeadline, worker, jobs
  <1>13. CASE Resume
    <2>1. cur \in Workers
      BY <1>13 DEF Loop, Resume
    <2>2. CASE Alive(cur)
      BY <1>13, <2>1, <2>2 DEF TypeOK, Resume, jobs
    <2>3. CASE ~Alive(cur)
      <3>1. Spawn(cur)
        BY <1>13, <2>3 DEF Resume
      <3> QED BY <1>13, <2>1, <3>1, SpawnTypes DEF TypeOK, Resume, jobs
    <2> QED BY <2>2, <2>3
  <1>14. CASE Close
    BY <1>14, PoolAssumption DEF TypeOK, Loop, Close, worker, jobs
  <1>15. ASSUME NEW w \in Workers, KillBusy(w) PROVE TypeOK'
    BY <1>15, KillTypes DEF TypeOK, KillBusy, jobs
  <1>16. ASSUME NEW w \in Workers, StopIdle(w) PROVE TypeOK'
    <2>1. Append(inbox[w], Stop) \in Seq(Tasks \cup {Stop})
      BY AppendProperties DEF TypeOK
    <2>2. inbox' \in [Workers -> Seq(Tasks \cup {Stop})]
      <3> DEFINE new == IF Alive(w) THEN Append(inbox[w], Stop) ELSE inbox[w]
      <3>1. new \in Seq(Tasks \cup {Stop}) /\ inbox' = [inbox EXCEPT ![w] = new]
        BY <1>16, <2>1 DEF TypeOK, StopIdle
      <3> QED BY <3>1 DEF TypeOK
    <2>3. cur' \in Workers /\ pc' = "join"
      BY <1>16 DEF StopIdle
    <2> QED BY <1>16, <2>2, <2>3 DEF TypeOK, StopIdle, worker, jobs
  <1>17. CASE Join
    BY <1>17, PoolAssumption DEF TypeOK, Loop, Join, worker, jobs
  <1>18. CASE Ended
    BY <1>18, PoolAssumption DEF TypeOK, Loop, Ended, worker, jobs
  <1>19. CASE Tick
    <2>1. until' \in [Workers -> 0..Never]
      BY <1>19, EarlierType DEF TypeOK, Tick
    <2>2. clock' \in [Tasks -> Seq([left : 0..MaxBudget, fb : BOOLEAN])]
      <3>1. ASSUME NEW t \in Tasks
            PROVE  [i \in DOMAIN clock[t] |-> [clock[t][i] EXCEPT !.left = Earlier(@)]]
                     \in Seq([left : 0..MaxBudget, fb : BOOLEAN])
        BY TickedClock DEF TypeOK
      <3> QED BY <1>19, <3>1 DEF Tick
    <2> QED BY <1>19, <2>1, <2>2 DEF TypeOK, Tick, worker
  <1> QED BY <1>1, <1>2, <1>3, <1>4, <1>5, <1>6, <1>7, <1>8, <1>9, <1>10, <1>11, <1>12, <1>13, <1>14, <1>15, <1>16, <1>17, <1>18, <1>19 DEF Imap, Consumer

-----------------------------------------------------------------------------
(* The part of the invariant that speaks of the parent's variables alone.  *)
ParentInv ==
    Loop /\ PoolWhole /\ BusyJobs /\ EachTaskHeld /\ SoleHolder

(* A worker's step leaves the parent's variables alone.                   *)
LEMMA WorkersLeaveParent ==
    ASSUME NEW w \in Workers, Serve(w) \/ Job(w)
    PROVE  UNCHANGED parent
  BY DEF Serve, Job, Boot, Receive, Orphan, EnterDeadline, LeaveDeadline, Finish, Fork, Die

(* The parent's part holds on while its variables do not change.          *)
LEMMA ParentFrame ==
    ASSUME ParentInv, UNCHANGED <<pc, next, idle, busy, scan, cur, job, out, how>>
    PROVE  ParentInv'
  BY DEF ParentInv, Loop, PoolWhole, BusyJobs, EachTaskHeld, SoleHolder

(* It holds on when the worker in hand is taken out of busy.              *)
LEMMA YieldParent ==
    ASSUME TypeOK, ParentInv, how = "open", cur \in busy,
           NEW verdict \in {"value", "error", "fallback", "timeout", "died"}, Yield(verdict),
           UNCHANGED <<next, idle, scan, cur, job, how>>
    PROVE  ParentInv'
  <1>1. job[cur] \in Tasks /\ cur \in Workers /\ how = "open"
    BY DEF ParentInv, TypeOK, BusyJobs, Tasks
  <1>2. \A w \in busy' : w \in busy /\ w # cur /\ job[w] # job[cur]
    BY DEF ParentInv, SoleHolder, Yield
  <1>3. /\ out'[job[cur]] = verdict
        /\ \A t \in Tasks : t # job[cur] => out'[t] = out[t]
    BY <1>1 DEF TypeOK, Yield
  <1>4. Loop' /\ PoolWhole'
    BY <1>1 DEF ParentInv, Loop, PoolWhole, Yield
  <1>5. BusyJobs'
    <2>1. \A w \in busy' : job[w] \in Tasks
      BY <1>2, PoolAssumption DEF ParentInv, BusyJobs, TypeOK, Tasks
    <2>2. job[cur] < next
      BY <1>1 DEF ParentInv, BusyJobs, TypeOK
    <2> QED BY <1>1, <1>2, <1>3, <2>1, <2>2 DEF ParentInv, BusyJobs, TypeOK, Tasks
  <1>6. EachTaskHeld'
    <2>1. ASSUME NEW t \in Tasks, t = job[cur]
          PROVE  (t < next' /\ out'[t] = "none") <=> (\E w \in busy' : job'[w] = t)
      BY <1>2, <1>3, <2>1
    <2>2. ASSUME NEW t \in Tasks, t # job[cur]
          PROVE  (t < next' /\ out'[t] = "none") <=> (\E w \in busy' : job'[w] = t)
      BY <1>1, <1>2, <1>3, <2>2 DEF ParentInv, EachTaskHeld, Yield
    <2> QED BY <2>1, <2>2 DEF EachTaskHeld
  <1>7. SoleHolder'
    BY <1>2 DEF ParentInv, SoleHolder
  <1> QED BY <1>4, <1>5, <1>6, <1>7 DEF ParentInv

(* It holds on at every step of the parent.                               *)
LEMMA ParentStep ==
    ASSUME TypeOK, ParentInv, Imap \/ Consumer \/ Tick
    PROVE  ParentInv'
  <1>1. ASSUME NEW w \in Workers, Assign(w) PROVE ParentInv'
    <2>1. next \in Tasks /\ out[next] = "none" /\ w \notin busy /\ how = "open"
      BY <1>1, PoolAssumption DEF ParentInv, BusyJobs, Loop, PoolWhole, TypeOK, Assign, Tasks
    <2>2. job'[w] = next /\ \A v \in busy : job'[v] = job[v] /\ v # w
      BY <1>1, <2>1 DEF TypeOK, Assign, Start
    <2>3. Loop'
      BY <1>1, <2>1, <2>2 DEF ParentInv, TypeOK, Assign, Loop, PoolWhole, Tasks
    <2>4. PoolWhole'
      BY <1>1, <2>1, <2>2 DEF ParentInv, TypeOK, Assign, Loop, PoolWhole, Tasks
    <2>5. BusyJobs'
      BY <1>1, <2>1, <2>2 DEF ParentInv, TypeOK, Assign, Loop, PoolWhole, Tasks, BusyJobs
    <2>6. EachTaskHeld'
      <3>1. ASSUME NEW t \in Tasks, t # next
            PROVE  (t < next' /\ out'[t] = "none") <=> (\E v \in busy' : job'[v] = t)
        <4>1. t < next' <=> t < next
          BY <1>1, <3>1, PoolAssumption DEF TypeOK, Assign, Tasks
        <4>2. (\E v \in busy' : job'[v] = t) <=> (\E v \in busy : job[v] = t)
          BY <1>1, <2>2, <3>1 DEF Assign
        <4> QED BY <1>1, <2>1, <4>1, <4>2 DEF ParentInv, EachTaskHeld, Assign
      <3>2. next < next' /\ out'[next] = "none" /\ w \in busy' /\ job'[w] = next
        BY <1>1, <2>1, <2>2, PoolAssumption DEF TypeOK, Assign
      <3> QED BY <3>1, <3>2 DEF EachTaskHeld
    <2>7. SoleHolder'
      BY <1>1, <2>1, <2>2 DEF ParentInv, TypeOK, Assign, Loop, PoolWhole, Tasks, SoleHolder, BusyJobs
    <2> QED BY <2>3, <2>4, <2>5, <2>6, <2>7 DEF ParentInv
  <1>2. ASSUME NEW w \in Workers, AssignBroken(w) PROVE ParentInv'
    <2>1. next \in Tasks /\ out[next] = "none" /\ w \notin busy /\ how = "open"
      BY <1>2, PoolAssumption DEF ParentInv, BusyJobs, Loop, PoolWhole, TypeOK, AssignBroken, Tasks
    <2>2. job'[w] = next /\ \A v \in busy : job'[v] = job[v] /\ v # w
      BY <1>2, <2>1 DEF TypeOK, AssignBroken, Start
    <2>3. Loop'
      BY <1>2, <2>1, <2>2 DEF ParentInv, TypeOK, AssignBroken, Loop, PoolWhole, Tasks
    <2>4. PoolWhole'
      BY <1>2, <2>1, <2>2 DEF ParentInv, TypeOK, AssignBroken, Loop, PoolWhole, Tasks
    <2>5. BusyJobs'
      BY <1>2, <2>1, <2>2 DEF ParentInv, TypeOK, AssignBroken, Loop, PoolWhole, Tasks, BusyJobs
    <2>6. EachTaskHeld'
      BY <1>2, <2>1, <2>2 DEF ParentInv, TypeOK, AssignBroken, Loop, PoolWhole, Tasks, EachTaskHeld, BusyJobs
    <2>7. SoleHolder'
      BY <1>2, <2>1, <2>2 DEF ParentInv, TypeOK, AssignBroken, Loop, PoolWhole, Tasks, SoleHolder, BusyJobs
    <2> QED BY <2>3, <2>4, <2>5, <2>6, <2>7 DEF ParentInv
  <1>3. CASE Assigned
    <2>1. Workers # {}
      BY PoolAssumption DEF Workers
    <2>2. Loop' /\ PoolWhole'
      BY <1>3, <2>1 DEF Assigned, ParentInv, Loop, PoolWhole
    <2>3. BusyJobs' /\ EachTaskHeld' /\ SoleHolder'
      BY <1>3 DEF Assigned, ParentInv, Loop, BusyJobs, EachTaskHeld, SoleHolder
    <2> QED BY <2>2, <2>3 DEF ParentInv
  <1>4. CASE Wake
    <2>1. cur \notin busy
      BY <1>4, PoolAssumption DEF Wake, ParentInv, Loop, TypeOK, Workers, Nobody
    <2>2. Loop' /\ PoolWhole'
      BY <1>4, <2>1 DEF Wake, ParentInv, Loop, PoolWhole
    <2>3. BusyJobs' /\ EachTaskHeld' /\ SoleHolder'
      BY <1>4 DEF Wake, ParentInv, BusyJobs, EachTaskHeld, SoleHolder
    <2> QED BY <2>2, <2>3 DEF ParentInv
  <1>5. ASSUME NEW w \in Workers, Ask(w) PROVE ParentInv'
    BY <1>5, PoolAssumption DEF Ask, ParentInv, Loop, PoolWhole, BusyJobs, EachTaskHeld, SoleHolder, TypeOK
  <1>6. CASE Scanned
    BY <1>6, PoolAssumption DEF Scanned, ParentInv, Loop, PoolWhole, BusyJobs, EachTaskHeld, SoleHolder, TypeOK
  <1>7. CASE Drained
    BY <1>7, PoolAssumption DEF Drained, ParentInv, Loop, PoolWhole, BusyJobs, EachTaskHeld, SoleHolder, TypeOK
  <1>8. CASE StillRuns
    BY <1>8, PoolAssumption DEF StillRuns, ParentInv, Loop, PoolWhole, BusyJobs, EachTaskHeld, SoleHolder, TypeOK
  <1>9. CASE Expired
    <2>1. how = "open" /\ cur \in busy
      BY <1>9 DEF ParentInv, Loop, PoolWhole, Expired
    <2>2. \E verdict \in {"fallback", "timeout"} : Yield(verdict)
      BY <1>9 DEF Expired
    <2> QED BY <1>9, <2>1, <2>2, YieldParent DEF Expired
  <1>10. CASE Died
    <2>1. how = "open" /\ cur \in busy
      BY <1>10 DEF ParentInv, Loop, PoolWhole, Died
    <2>2. \E verdict \in {"died"} : Yield(verdict)
      BY <1>10 DEF Died
    <2> QED BY <1>10, <2>1, <2>2, YieldParent DEF Died
  <1>11. CASE TakeDone
    <2>1. how = "open" /\ cur \in busy
      BY <1>11 DEF ParentInv, Loop, PoolWhole, TakeDone
    <2>2. \E verdict \in {"value", "error"} : Yield(verdict)
      BY <1>11 DEF TakeDone
    <2> QED BY <1>11, <2>1, <2>2, YieldParent DEF TakeDone
  <1>12. CASE TakeDeadline
    BY <1>12, ParentFrame DEF TakeDeadline
  <1>13. CASE Resume
    <2>1. cur \in Workers \ (idle \cup busy)
      BY <1>13 DEF Resume, ParentInv, Loop, PoolWhole
    <2>2. \A w \in busy : job'[w] = job[w]
      BY <1>13, <2>1 DEF Resume, Spawn, TypeOK
    <2>3. Loop' /\ PoolWhole'
      BY <1>13, <2>1 DEF Resume, ParentInv, Loop, PoolWhole
    <2>4. BusyJobs' /\ EachTaskHeld' /\ SoleHolder'
      BY <1>13, <2>2 DEF Resume, ParentInv, Loop, BusyJobs, EachTaskHeld, SoleHolder
    <2> QED BY <2>3, <2>4 DEF ParentInv
  <1>14. CASE Close
    BY <1>14, PoolAssumption DEF Close, ParentInv, Loop, PoolWhole, BusyJobs, EachTaskHeld, SoleHolder, TypeOK
  <1>15. ASSUME NEW w \in Workers, KillBusy(w) PROVE ParentInv'
    BY <1>15, PoolAssumption DEF KillBusy, ParentInv, Loop, PoolWhole, BusyJobs, EachTaskHeld, SoleHolder, TypeOK
  <1>16. ASSUME NEW w \in Workers, StopIdle(w) PROVE ParentInv'
    BY <1>16, PoolAssumption DEF StopIdle, ParentInv, Loop, PoolWhole, BusyJobs, EachTaskHeld, SoleHolder, TypeOK
  <1>17. CASE Join
    BY <1>17, PoolAssumption DEF Join, ParentInv, Loop, PoolWhole, BusyJobs, EachTaskHeld, SoleHolder, TypeOK
  <1>18. CASE Ended
    BY <1>18, PoolAssumption DEF Ended, ParentInv, Loop, PoolWhole, BusyJobs, EachTaskHeld, SoleHolder, TypeOK
  <1>19. CASE Tick
    BY <1>19, ParentFrame DEF Tick
  <1> QED BY <1>1, <1>2, <1>3, <1>4, <1>5, <1>6, <1>7, <1>8, <1>9, <1>10, <1>11, <1>12, <1>13, <1>14, <1>15, <1>16, <1>17, <1>18, <1>19 DEF Imap, Consumer

-----------------------------------------------------------------------------
(* The part of the invariant that speaks of the pipes and of the jobs.     *)
PipesInv == PipesInStep /\ Untouched

Place(w) == IF w \in busy THEN Unread(w) \/ Begun(w) ELSE Quiet(w)

(* A worker none of whose variables change, nor its task's, keeps in step. *)
LEMMA PlaceFrame ==
    ASSUME NEW w \in Workers, Place(w),
           inbox'[w] = inbox[w], outbox'[w] = outbox[w], proc'[w] = proc[w],
           task'[w] = task[w],
           w \in busy' <=> w \in busy,
           w \in busy => job'[w] = job[w] /\ fate'[job[w]] = fate[job[w]],
           how = "open" \/ UNCHANGED <<pc, how, cur, idle>>
    PROVE  Place(w)'
  BY DEF Place, Unread, Begun, Quiet

(* What is known of a busy worker, of one that runs, and of one that has something to   *)
(* read.                                                                    *)
LEMMA BusyTask ==
    ASSUME TypeOK, ParentInv, NEW w \in busy
    PROVE  w \in Workers /\ job[w] \in Tasks /\ job[w] < next /\ out[job[w]] = "none"
  BY PoolAssumption DEF TypeOK, ParentInv, BusyJobs, Tasks

(* A busy worker's task is not one of those still to be handed out.       *)
LEMMA LaterTask ==
    ASSUME TypeOK, NEW t \in Tasks, NEW u \in Tasks, u < next, t >= next
    PROVE  t # u
  BY PoolAssumption DEF TypeOK, Tasks

(* A running worker is busy with the task it runs.                        *)
LEMMA RunningBegun ==
    ASSUME TypeOK, ParentInv, PipesInStep, NEW w \in Workers, proc[w] = "running"
    PROVE  /\ w \in busy /\ Begun(w) /\ task[w] = job[w] /\ inbox[w] = <<>>
           /\ job[w] \in Tasks /\ job[w] < next
           /\ \A i \in DOMAIN outbox[w] : outbox[w][i].kind # "done"
  <1>1. w \in busy /\ Begun(w)
    BY DEF PipesInStep, Quiet, Unread
  <1>2. job[w] \in Tasks /\ job[w] < next
    BY <1>1, BusyTask
  <1> QED BY <1>1, <1>2 DEF Begun

(* A worker's steps keep the pipes in step.                               *)
LEMMA WorkerPipes ==
    ASSUME TypeOK, TypeOK', ParentInv, PipesInv, NEW w \in Workers, Serve(w) \/ Job(w)
    PROVE  PipesInv'
  <1>0. /\ UNCHANGED parent
        /\ \A v \in Workers : Place(v)
        /\ \A v \in busy : v # w /\ w \in busy => job[v] # job[w]
        /\ \A v \in busy : job[v] \in Tasks /\ job[v] < next
    BY WorkersLeaveParent, BusyTask DEF PipesInv, PipesInStep, Place, ParentInv, SoleHolder
  <1>1. CASE Boot(w) \/ Die(w) \/ Orphan(w)
    <2>1. /\ UNCHANGED <<parent, inbox, outbox, task, jobs>>
          /\ \E p \in {"ready", "dead"} : proc' = [proc EXCEPT ![w] = p]
          /\ proc[w] = "running" => ~Boot(w)
      BY <1>1 DEF Boot, Die, Orphan
    <2>2. ASSUME NEW v \in Workers PROVE Place(v)'
      BY <1>0, <2>1 DEF TypeOK, Place, Unread, Begun, Quiet, parent, jobs
    <2> QED BY <2>1, <2>2 DEF PipesInv, PipesInStep, Place, Untouched, parent, jobs
  <1>2. CASE Receive(w) /\ w \in busy
    <2>1. Unread(w)
      BY <1>0, <1>2 DEF Place, Begun, Receive
    <2>2. /\ Head(inbox[w]) = job[w] /\ Tail(inbox[w]) = <<>>
          /\ job[w] # Stop /\ job[w] \in Tasks /\ job[w] < next
      BY <1>0, <1>2, <2>1 DEF Unread, Stop, Tasks
    <2>3. /\ inbox'[w] = <<>> /\ proc'[w] = "running" /\ task'[w] = job[w]
          /\ fate' = [fate EXCEPT ![job[w]] = "running"]
          /\ UNCHANGED <<parent, outbox, clock, depth>>
      BY <1>2, <2>2 DEF Receive, TypeOK
    <2>4. Place(w)'
      BY <1>2, <2>1, <2>2, <2>3 DEF Place, Begun, Unread, TypeOK, parent
    <2>5. ASSUME NEW v \in Workers, v # w PROVE Place(v)'
      BY <1>0, <1>2, <2>2, <2>3, <2>5, PlaceFrame DEF Receive, TypeOK, parent
    <2>6. Untouched'
      BY <2>2, <2>3 DEF PipesInv, Untouched, TypeOK, Tasks, parent
    <2> QED BY <2>4, <2>5, <2>6 DEF PipesInv, PipesInStep, Place
  <1>3. CASE Receive(w) /\ w \notin busy
    <2>1. Quiet(w) /\ inbox[w] = <<Stop>>
      BY <1>0, <1>3 DEF Place, Quiet, Receive
    <2>2. /\ inbox'[w] = <<>> /\ proc'[w] = "dead"
          /\ UNCHANGED <<parent, outbox, task, fate, clock, depth>>
      BY <1>3, <2>1 DEF Receive, TypeOK
    <2>3. Place(w)'
      BY <1>3, <2>1, <2>2 DEF Place, Quiet, parent
    <2>4. ASSUME NEW v \in Workers, v # w PROVE Place(v)'
      BY <1>0, <1>3, <2>2, <2>4, PlaceFrame DEF Receive, TypeOK, parent
    <2> QED BY <2>2, <2>3, <2>4 DEF PipesInv, PipesInStep, Place, Untouched, parent
  <1>4. CASE \/ \E left \in 1..MaxBudget, fb \in Fallbacks : EnterDeadline(w, left, fb)
             \/ LeaveDeadline(w)
    <2>1. PICK m : m.kind = "deadline" /\ outbox' = [outbox EXCEPT ![w] = Append(@, m)]
      BY <1>4 DEF EnterDeadline, LeaveDeadline, Deadline
    <2>2. /\ UNCHANGED <<parent, inbox, worker, fate>>
          /\ proc[w] = "running"
          /\ \A t \in Tasks : t # task[w] => clock'[t] = clock[t] /\ depth'[t] = depth[t]
      <3>1. CASE LeaveDeadline(w)
        BY <3>1 DEF LeaveDeadline, TypeOK
      <3>2. ASSUME NEW left \in 1..MaxBudget, NEW fb \in Fallbacks, EnterDeadline(w, left, fb)
            PROVE  /\ UNCHANGED <<parent, inbox, worker, fate>>
                   /\ proc[w] = "running"
                   /\ \A t \in Tasks : t # task[w] => clock'[t] = clock[t] /\ depth'[t] = depth[t]
        BY <3>2 DEF EnterDeadline, TypeOK
      <3> QED BY <1>4, <3>1, <3>2
    <2>3. outbox[w] \in Seq(Messages) /\ outbox'[w] = Append(outbox[w], m)
      BY <2>1 DEF TypeOK, Messages
    <2>4. \A i \in DOMAIN outbox'[w] : outbox'[w][i].kind # "done"
      BY <2>1, <2>2, <2>3, RunningBegun DEF PipesInv
    <2>5. Place(w)'
      BY <2>2, <2>4, RunningBegun DEF PipesInv, Place, Begun, parent, worker
    <2>6. ASSUME NEW v \in Workers, v # w PROVE Place(v)'
      BY <1>0, <2>1, <2>2, <2>6, PlaceFrame DEF TypeOK, parent, worker
    <2>7. Untouched'
      <3>1. \A t \in Tasks : t >= next => t # task[w]
        BY <2>2, RunningBegun, LaterTask DEF PipesInv
      <3> QED BY <2>2, <3>1 DEF PipesInv, Untouched, parent
    <2> QED BY <2>5, <2>6, <2>7 DEF PipesInv, PipesInStep, Place
  <1>5. ASSUME NEW f \in {"returned", "raised"}, Finish(w, f) PROVE PipesInv'
    <2>1. /\ UNCHANGED <<parent, inbox, task, clock, depth>>
          /\ proc[w] = "running" /\ proc' = [proc EXCEPT ![w] = "ready"]
          /\ outbox' = [outbox EXCEPT ![w] = Append(@, Done(f = "returned"))]
          /\ task[w] = job[w] /\ fate' = [fate EXCEPT ![job[w]] = f]
      BY <1>5, RunningBegun DEF Finish, PipesInv
    <2>2. /\ outbox[w] \in Seq(Messages)
          /\ outbox'[w] = Append(outbox[w], Done(f = "returned"))
      BY <2>1 DEF TypeOK, Messages
    <2>3. \A i \in DOMAIN outbox'[w] :
            outbox'[w][i].kind = "done" =>
              i = Len(outbox'[w]) /\ outbox'[w][i].ok = (f = "returned")
      BY <2>1, <2>2, RunningBegun DEF PipesInv, Done
    <2>4. fate'[job[w]] = f /\ proc'[w] = "ready"
      BY <2>1, RunningBegun DEF PipesInv, TypeOK
    <2>5. Place(w)'
      BY <2>1, <2>3, <2>4, RunningBegun DEF PipesInv, Place, Begun, parent
    <2>6. ASSUME NEW v \in Workers, v # w PROVE Place(v)'
      <3>1. v \in busy => job[v] # job[w] /\ job[v] \in Tasks
        BY <1>0, <2>1, <2>6, RunningBegun DEF PipesInv
      <3>2. v \in busy => fate'[job[v]] = fate[job[v]]
        BY <2>1, <3>1 DEF TypeOK
      <3> QED BY <1>0, <2>1, <2>6, <3>2, PlaceFrame DEF TypeOK, parent
    <2>7. Untouched'
      <3>1. \A t \in Tasks : t >= next => t # job[w]
        BY <2>1, RunningBegun, LaterTask DEF PipesInv
      <3> QED BY <2>1, <3>1 DEF PipesInv, Untouched, TypeOK, parent
    <2> QED BY <2>5, <2>6, <2>7 DEF PipesInv, PipesInStep, Place
  <1>6. CASE Fork(w)
    BY <1>0, <1>6, PlaceFrame
    DEF Fork, PipesInv, PipesInStep, Place, Untouched, parent, jobs
  <1> QED BY <1>1, <1>2, <1>3, <1>4, <1>5, <1>6 DEF Serve, Job

(* The parent's steps that touch no pipe, no process and no job.           *)
LEMMA QuietFrame ==
    ASSUME PipesInv, ParentInv,
           UNCHANGED <<next, busy, job, inbox, outbox, proc, task, fate, clock, depth>>,
           \/ UNCHANGED <<pc, how, cur, idle>>
           \/ how = "open" /\ busy' = busy
           \/ UNCHANGED how /\ \A w \in idle' : inbox[w] = <<>>
    PROVE  PipesInv'
  <1>1. ASSUME NEW w \in busy \cap Workers PROVE (Unread(w) \/ Begun(w))'
    BY DEF PipesInv, PipesInStep, Unread, Begun
  <1>2. ASSUME NEW w \in Workers \ busy PROVE Quiet(w)'
    BY DEF PipesInv, PipesInStep, Quiet
  <1> QED BY <1>1, <1>2 DEF PipesInv, PipesInStep, Untouched

(* The parent takes the worker in hand out of busy with its pipes empty.   *)
LEMMA YieldPipes ==
    ASSUME TypeOK, ParentInv, PipesInv, how = "open", cur \in busy,
           NEW verdict \in {"value", "error", "fallback", "timeout", "died"}, Yield(verdict),
           UNCHANGED <<next, idle, cur, job, how, task, fate>>,
           \A v \in Workers : v # cur =>
             inbox'[v] = inbox[v] /\ outbox'[v] = outbox[v] /\ proc'[v] = proc[v],
           proc'[cur] # "running", outbox'[cur] = <<>>, inbox'[cur] = <<>>
    PROVE  PipesInv'
  <1>1. \A t \in Tasks : t >= next => t # job[cur]
    BY BusyTask, LaterTask
  <1>2. Untouched'
    BY <1>1 DEF PipesInv, Untouched, TypeOK, Yield
  <1>3. Quiet(cur)' /\ cur \notin busy'
    BY DEF Quiet, Yield
  <1>4. ASSUME NEW v \in Workers, v # cur PROVE Place(v)'
    BY <1>4, PlaceFrame DEF PipesInv, PipesInStep, Place, Yield
  <1> QED BY <1>2, <1>3, <1>4 DEF PipesInv, PipesInStep, Place

(* So do the parent's.                                                    *)
LEMMA ParentPipes ==
    ASSUME TypeOK, TypeOK', ParentInv, PipesInv, Imap \/ Consumer \/ Tick
    PROVE  PipesInv'
  <1>0. \A v \in Workers : Place(v)
    BY DEF PipesInv, PipesInStep, Place
  <1>1. ASSUME NEW w \in Workers, Assign(w) PROVE PipesInv'
    <2>1. /\ how = "open" /\ w \in idle /\ w \notin busy
          /\ next \in Tasks /\ fate[next] = "todo" /\ Quiet(w) /\ inbox[w] = <<>>
      BY <1>0, <1>1, PoolAssumption
      DEF Assign, ParentInv, Loop, PoolWhole, PipesInv, Untouched, TypeOK, Tasks, Place, Quiet
    <2>2. /\ job'[w] = next /\ inbox'[w] = <<next>> /\ w \in busy'
          /\ UNCHANGED <<how, outbox, worker, jobs>>
      BY <1>1, <2>1 DEF Assign, Start, TypeOK
    <2>3. Place(w)'
      BY <2>1, <2>2 DEF Place, Unread, Quiet, worker, jobs
    <2>4. ASSUME NEW v \in Workers, v # w PROVE Place(v)'
      BY <1>0, <1>1, <2>1, <2>2, <2>4, PlaceFrame DEF Assign, Start, TypeOK, worker, jobs
    <2>5. Untouched'
      <3>1. \A t \in Tasks : t >= next' => t >= next
        BY <1>1, PoolAssumption DEF Assign, TypeOK, Tasks
      <3> QED BY <1>1, <3>1 DEF Assign, PipesInv, Untouched, jobs
    <2> QED BY <2>3, <2>4, <2>5 DEF PipesInv, PipesInStep, Place
  <1>2. ASSUME NEW w \in Workers, AssignBroken(w) PROVE PipesInv'
    <2>1. how = "open" /\ w \notin busy
      BY <1>2 DEF AssignBroken, ParentInv, Loop, PoolWhole
    <2>2. ASSUME NEW v \in Workers PROVE Place(v)'
      BY <1>0, <1>2, <2>1 DEF AssignBroken, Start, TypeOK, Place, Unread, Begun, Quiet, worker, jobs
    <2>3. Untouched'
      <3>1. \A t \in Tasks : t >= next' => t >= next
        BY <1>2, PoolAssumption DEF AssignBroken, TypeOK, Tasks
      <3> QED BY <1>2, <3>1 DEF AssignBroken, PipesInv, Untouched, jobs
    <2> QED BY <2>2, <2>3 DEF PipesInv, PipesInStep, Place
  <1>3. CASE Assigned \/ Wake \/ Scanned \/ Drained \/ StillRuns \/ Close
    BY <1>3, QuietFrame
    DEF Assigned, Wake, Scanned, Drained, StillRuns, Close, ParentInv, Loop, worker, jobs
  <1>4. ASSUME NEW w \in Workers, Ask(w) PROVE PipesInv'
    BY <1>4, QuietFrame DEF Ask, ParentInv, Loop, worker, jobs
  <1>5. CASE Join \/ Ended
    <2>1. \A w \in idle' : w \in Workers /\ w \notin busy /\ inbox[w] = <<>>
      BY <1>0, <1>5 DEF Join, Ended, ParentInv, PoolWhole, TypeOK, Place, Quiet
    <2> QED BY <1>5, <2>1, QuietFrame DEF Join, Ended, worker, jobs
  <1>6. CASE Expired \/ Died
    <2>1. how = "open" /\ cur \in busy /\ cur \in Workers
      BY <1>6 DEF Expired, Died, ParentInv, Loop, PoolWhole
    <2>2. \E verdict \in {"fallback", "timeout", "died"} : Yield(verdict)
      BY <1>6 DEF Expired, Died
    <2>3. Kill(cur) /\ UNCHANGED <<next, idle, cur, job, how, task, fate>>
      BY <1>6 DEF Expired, Died
    <2>4. /\ \A v \in Workers : v # cur =>
               inbox'[v] = inbox[v] /\ outbox'[v] = outbox[v] /\ proc'[v] = proc[v]
          /\ proc'[cur] # "running" /\ outbox'[cur] = <<>> /\ inbox'[cur] = <<>>
      BY <2>1, <2>3 DEF Kill, TypeOK
    <2> QED BY <2>1, <2>2, <2>3, <2>4, YieldPipes
  <1>7. CASE TakeDone
    <2>1. how = "open" /\ cur \in busy /\ cur \in Workers
      BY <1>7 DEF TakeDone, ParentInv, Loop, PoolWhole
    <2>2. \E verdict \in {"value", "error"} : Yield(verdict)
      BY <1>7 DEF TakeDone
    <2>3. Begun(cur) /\ outbox[cur] \in Seq(Messages) /\ outbox[cur] # <<>> /\ outbox[cur][1].kind = "done"
      BY <1>0, <1>7, <2>1 DEF TakeDone, Place, Unread, TypeOK, Messages
    <2>4. Len(outbox[cur]) = 1 /\ proc[cur] # "running" /\ inbox[cur] = <<>>
      <3>1. 1 \in DOMAIN outbox[cur]
        BY <2>3, EmptyByLength
      <3> QED BY <2>3, <3>1 DEF Begun
    <2>5. Tail(outbox[cur]) = <<>>
      BY <2>3, <2>4, TailOfOne
    <2>6. /\ UNCHANGED <<next, idle, cur, job, how, task, fate, inbox, proc>>
          /\ outbox' = [outbox EXCEPT ![cur] = <<>>]
      BY <1>7, <2>5 DEF TakeDone, worker
    <2> QED BY <2>1, <2>2, <2>4, <2>6, YieldPipes DEF TypeOK
  <1>8. CASE TakeDeadline
    <2>1. how = "open" /\ cur \in busy /\ cur \in Workers
      BY <1>8 DEF TakeDeadline, ParentInv, Loop, PoolWhole
    <2>2. Begun(cur) /\ outbox[cur] \in Seq(Messages) /\ outbox[cur] # <<>>
      BY <1>0, <1>8, <2>1 DEF TakeDeadline, Place, Unread, TypeOK, Messages
    <2>3. /\ UNCHANGED <<pc, next, idle, busy, cur, job, how, inbox, proc, task, fate, clock, depth>>
          /\ outbox' = [outbox EXCEPT ![cur] = Tail(@)]
      BY <1>8 DEF TakeDeadline, worker, jobs
    <2>4. /\ outbox'[cur] = Tail(outbox[cur])
          /\ Len(outbox'[cur]) = Len(outbox[cur]) - 1
          /\ DOMAIN outbox'[cur] = 1..Len(outbox'[cur]) /\ DOMAIN outbox[cur] = 1..Len(outbox[cur])
          /\ \A i \in 1..Len(outbox'[cur]) : outbox'[cur][i] = outbox[cur][i + 1]
          /\ Len(outbox[cur]) \in Nat
      BY <2>1, <2>2, <2>3, HeadTailProperties, LenProperties DEF TypeOK
    <2>5. Place(cur)'
      <3>1. ASSUME NEW i \in DOMAIN outbox'[cur], outbox'[cur][i].kind = "done"
            PROVE  /\ i = Len(outbox'[cur]) /\ proc[cur] # "running"
                   /\ fate[job[cur]] = IF outbox'[cur][i].ok THEN "returned" ELSE "raised"
        <4>1. i + 1 \in DOMAIN outbox[cur] /\ outbox[cur][i + 1].kind = "done"
          BY <2>4, <3>1
        <4> QED BY <2>2, <2>4, <4>1, <3>1 DEF Begun
      <3> QED BY <2>1, <2>2, <2>3, <3>1 DEF Place, Begun
    <2>6. ASSUME NEW v \in Workers, v # cur PROVE Place(v)'
      BY <1>0, <2>1, <2>3, <2>6, PlaceFrame DEF TypeOK
    <2> QED BY <2>3, <2>5, <2>6 DEF PipesInv, PipesInStep, Place, Untouched
  <1>9. CASE Resume
    <2>1. cur \in Workers \ (idle \cup busy) /\ how = "open"
      BY <1>9 DEF Resume, ParentInv, Loop, PoolWhole
    <2>2. Quiet(cur) /\ inbox[cur] = <<>>
      BY <1>0, <2>1 DEF Place, Quiet
    <2>3. /\ UNCHANGED <<next, busy, how, cur, task, fate, clock, depth>>
          /\ Place(cur)'
      BY <1>9, <2>1, <2>2 DEF Resume, Spawn, Place, Quiet, TypeOK, jobs
    <2>4. ASSUME NEW v \in Workers, v # cur PROVE Place(v)'
      <3>1. inbox'[v] = inbox[v] /\ outbox'[v] = outbox[v] /\ proc'[v] = proc[v] /\ job'[v] = job[v]
        BY <1>9, <2>4 DEF Resume, Spawn, TypeOK
      <3> QED BY <1>0, <2>1, <2>3, <2>4, <3>1, PlaceFrame
    <2> QED BY <2>3, <2>4 DEF PipesInv, PipesInStep, Place, Untouched
  <1>10. ASSUME NEW w \in Workers, KillBusy(w) PROVE PipesInv'
    <2>1. /\ UNCHANGED <<pc, next, idle, cur, job, how, task, fate, clock, depth>>
          /\ Kill(w) /\ busy' = busy \ {w} /\ w \in busy
      BY <1>10 DEF KillBusy, jobs
    <2>2. Place(w)'
      BY <2>1 DEF Kill, Place, Quiet, TypeOK
    <2>3. ASSUME NEW v \in Workers, v # w PROVE Place(v)'
      BY <1>0, <2>1, <2>3, PlaceFrame DEF Kill, TypeOK
    <2> QED BY <2>1, <2>2, <2>3 DEF PipesInv, PipesInStep, Place, Untouched
  <1>11. ASSUME NEW w \in Workers, StopIdle(w) PROVE PipesInv'
    <2>1. /\ UNCHANGED <<next, idle, busy, job, how, outbox, worker, jobs>>
          /\ pc = "final" /\ busy = {} /\ w \in idle /\ cur' = w /\ pc' = "join"
      BY <1>11 DEF StopIdle
    <2>2. how # "open" /\ \A v \in idle : inbox[v] = <<>>
      BY <1>0, <2>1 DEF ParentInv, Loop, TypeOK, Place, Quiet
    <2>3. inbox'[w] \in {<<>>, <<Stop>>} /\ \A v \in Workers : v # w => inbox'[v] = inbox[v]
      <3>1. Append(inbox[w], Stop) = <<Stop>> /\ inbox[w] = <<>>
        <4>1. inbox[w] = <<>>
          BY <2>1, <2>2
        <4>2. Append(<<>>, Stop) = <<Stop>>
          BY DEF Stop
        <4> QED BY <4>1, <4>2
      <3>2. inbox' = [inbox EXCEPT ![w] = <<Stop>>] \/ inbox' = inbox
        BY <1>11, <3>1 DEF StopIdle, TypeOK
      <3> QED BY <3>1, <3>2 DEF TypeOK
    <2>4. ASSUME NEW v \in Workers PROVE Place(v)'
      BY <1>0, <2>1, <2>2, <2>3 DEF Place, Quiet, worker
    <2> QED BY <2>1, <2>4 DEF PipesInv, PipesInStep, Place, Untouched, jobs
  <1>12. CASE Tick
    <2>1. UNCHANGED <<pc, next, idle, busy, cur, job, how, inbox, outbox, proc, task, fate, depth>>
      BY <1>12 DEF Tick, worker
    <2>2. PipesInStep'
      BY <2>1 DEF PipesInv, PipesInStep, Unread, Begun, Quiet
    <2>3. ASSUME NEW t \in Tasks, clock[t] = <<>> PROVE clock'[t] = <<>>
      <3>1. DOMAIN clock'[t] = {} /\ clock'[t] \in Seq([left : 0..MaxBudget, fb : BOOLEAN])
        BY <1>12, <2>3 DEF Tick, TypeOK
      <3> QED BY <3>1, EmptyByLength
    <2> QED BY <2>1, <2>2, <2>3 DEF PipesInv, Untouched
  <1> QED BY <1>1, <1>2, <1>3, <1>4, <1>5, <1>6, <1>7, <1>8, <1>9, <1>10, <1>11, <1>12
          DEF Imap, Consumer

-----------------------------------------------------------------------------
(* The part of the invariant that speaks of deadlines.                     *)
DeadlineInv == SentIsEntered /\ KillIsDue

(* It holds on while messages and fields stay and deadlines only draw near.*)
LEMMA DeadlineFrame ==
    ASSUME DeadlineInv, busy' \subseteq busy,
           \A w \in busy' : job'[w] = job[w] /\ outbox'[w] = outbox[w] /\ until'[w] = until[w]
                            /\ fallback'[w] = fallback[w] /\ clock'[job[w]] = clock[job[w]]
    PROVE  DeadlineInv'
  BY DEF DeadlineInv, SentIsEntered, KillIsDue, Entered

(* A worker's steps keep the deadlines those of its job.                  *)
LEMMA WorkerDeadlines ==
    ASSUME TypeOK, TypeOK', ParentInv, PipesInv, DeadlineInv,
           NEW w \in Workers, Serve(w) \/ Job(w)
    PROVE  DeadlineInv'
  <1>0. /\ UNCHANGED <<busy, job, until, fallback>>
        /\ \A v \in busy : v \in Workers /\ job[v] \in Tasks
        /\ \A v \in busy : v # w /\ w \in busy => job[v] # job[w]
    BY WorkersLeaveParent, BusyTask DEF ParentInv, SoleHolder, parent
  <1>1. CASE Boot(w) \/ Receive(w) \/ Orphan(w) \/ Fork(w) \/ Die(w)
    <2>1. UNCHANGED <<outbox, clock>>
      BY <1>1 DEF Boot, Receive, Orphan, Fork, Die, jobs
    <2> QED BY <1>0, <2>1, DeadlineFrame
  <1>2. CASE LeaveDeadline(w) \/ \E f \in {"returned", "raised"} : Finish(w, f)
    <2>1. proc[w] = "running"
      BY <1>2 DEF LeaveDeadline, Finish
    <2>2. PICK m \in Messages :
            /\ m.kind = "done" \/ m.left = 0
            /\ outbox' = [outbox EXCEPT ![w] = Append(@, m)]
            /\ clock' = clock
      <3>1. CASE LeaveDeadline(w)
        BY <3>1, MessageTypes DEF LeaveDeadline, Deadline
      <3>2. ASSUME NEW f \in {"returned", "raised"}, Finish(w, f)
            PROVE  /\ Done(f = "returned") \in Messages /\ Done(f = "returned").kind = "done"
                   /\ outbox' = [outbox EXCEPT ![w] = Append(@, Done(f = "returned"))]
                   /\ clock' = clock
        BY <3>2, MessageTypes DEF Finish, Done
      <3> QED BY <1>2, <3>1, <3>2
    <2>3. /\ outbox[w] \in Seq(Messages) /\ outbox'[w] = Append(outbox[w], m)
          /\ \A v \in Workers : v # w => outbox'[v] = outbox[v]
      BY <2>2 DEF TypeOK, Messages
    <2>4. \A i \in DOMAIN outbox'[w] :
            \/ i \in DOMAIN outbox[w] /\ outbox'[w][i] = outbox[w][i]
            \/ outbox'[w][i] = m
      BY <2>3, AppendProperties, LenProperties
    <2>5. SentIsEntered'
      <3>1. ASSUME NEW v \in busy, NEW i \in DOMAIN outbox'[v],
                   outbox'[v][i].kind = "deadline", outbox'[v][i].left > 0
            PROVE  Entered(clock[job[v]], outbox'[v][i].left, outbox'[v][i].fb)
        <4>1. i \in DOMAIN outbox[v] /\ outbox'[v][i] = outbox[v][i]
          BY <1>0, <2>2, <2>3, <2>4, <3>1
        <4> QED BY <3>1, <4>1 DEF DeadlineInv, SentIsEntered
      <3> QED BY <1>0, <2>2, <3>1 DEF SentIsEntered, Entered
    <2> QED BY <1>0, <2>2, <2>5 DEF DeadlineInv, KillIsDue, Entered
  <1>3. ASSUME NEW left \in 1..MaxBudget, NEW fb \in Fallbacks, EnterDeadline(w, left, fb)
        PROVE  DeadlineInv'
    <2> DEFINE t == job[w]
               d == [left |-> left, fb |-> fb]
               D == [left : 0..MaxBudget, fb : BOOLEAN]
               m == Deadline(left, fb)
    <2>1. proc[w] = "running"
      BY <1>3 DEF EnterDeadline
    <2>2. w \in busy /\ task[w] = t /\ t \in Tasks
      BY <2>1, RunningBegun DEF PipesInv
    <2>3. /\ d \in D /\ m \in Messages /\ m.left = left /\ m.fb = fb
      BY PoolAssumption, MessageTypes DEF Deadline
    <2>4. /\ clock[t] \in Seq(D) /\ clock'[t] = Append(clock[t], d)
          /\ \A u \in Tasks : u # t => clock'[u] = clock[u]
      BY <1>3, <2>2 DEF EnterDeadline, TypeOK
    <2>5. /\ outbox[w] \in Seq(Messages) /\ outbox'[w] = Append(outbox[w], m)
          /\ \A v \in Workers : v # w => outbox'[v] = outbox[v]
      BY <1>3 DEF EnterDeadline, TypeOK, Messages
    <2>6. \A i \in DOMAIN clock[t] : i \in DOMAIN clock'[t] /\ clock'[t][i] = clock[t][i]
      BY <2>3, <2>4, AppendProperties, LenProperties
    <2>7. Entered(clock'[t], left, fb)
      <3>1. Len(clock[t]) + 1 \in DOMAIN clock'[t] /\ clock'[t][Len(clock[t]) + 1] = d
        BY <2>3, <2>4, AppendProperties, LenProperties
      <3> QED BY <3>1, PoolAssumption DEF Entered
    <2>8. \A i \in DOMAIN outbox'[w] :
            \/ i \in DOMAIN outbox[w] /\ outbox'[w][i] = outbox[w][i]
            \/ outbox'[w][i] = m
      BY <2>3, <2>5, AppendProperties, LenProperties
    <2>9. \A u \in Tasks : \A l, b : Entered(clock[u], l, b) => Entered(clock'[u], l, b)
      BY <2>4, <2>6 DEF Entered
    <2>10. SentIsEntered'
      <3>1. ASSUME NEW v \in busy, NEW i \in DOMAIN outbox'[v],
                   outbox'[v][i].kind = "deadline", outbox'[v][i].left > 0
            PROVE  Entered(clock'[job[v]], outbox'[v][i].left, outbox'[v][i].fb)
        <4>1. CASE v = w /\ outbox'[v][i] = m
          BY <2>3, <2>7, <4>1
        <4>2. CASE i \in DOMAIN outbox[v] /\ outbox'[v][i] = outbox[v][i]
          BY <1>0, <2>9, <3>1, <4>2 DEF DeadlineInv, SentIsEntered
        <4> QED BY <1>0, <2>5, <2>8, <4>1, <4>2
      <3> QED BY <1>0, <3>1 DEF SentIsEntered
    <2>11. KillIsDue'
      BY <1>0, <2>9 DEF DeadlineInv, KillIsDue
    <2> QED BY <2>10, <2>11 DEF DeadlineInv
  <1> QED BY <1>1, <1>2, <1>3 DEF Serve, Job

(* So do the parent's.                                                    *)
LEMMA ParentDeadlines ==
    ASSUME TypeOK, TypeOK', ParentInv, PipesInv, DeadlineInv, Imap \/ Consumer \/ Tick
    PROVE  DeadlineInv'
  <1>0. \A w \in busy : w \in Workers /\ job[w] \in Tasks
    BY BusyTask
  <1>1. ASSUME NEW w \in Workers, Assign(w) PROVE DeadlineInv'
    <2>1. w \notin busy /\ Quiet(w)
      BY <1>1 DEF Assign, ParentInv, PoolWhole, PipesInv, PipesInStep
    <2>2. /\ UNCHANGED <<outbox, clock>> /\ busy' = busy \cup {w}
          /\ until'[w] = Never /\ outbox'[w] = <<>>
          /\ \A v \in busy : job'[v] = job[v] /\ until'[v] = until[v] /\ fallback'[v] = fallback[v]
      BY <1>0, <1>1, <2>1 DEF Assign, Start, TypeOK, Quiet, jobs
    <2>3. DOMAIN outbox'[w] = {}
      BY <2>2
    <2> QED BY <2>2, <2>3 DEF DeadlineInv, SentIsEntered, KillIsDue, Entered
  <1>2. ASSUME NEW w \in Workers, AssignBroken(w) PROVE DeadlineInv'
    <2>1. w \notin busy
      BY <1>2 DEF AssignBroken, ParentInv, PoolWhole
    <2> QED BY <1>0, <1>2, <2>1, DeadlineFrame DEF AssignBroken, Start, TypeOK, jobs
  <1>3. CASE Assigned \/ Wake \/ Scanned \/ Drained \/ StillRuns \/ Close \/ Join \/ Ended
    BY <1>3, DeadlineFrame
    DEF Assigned, Wake, Scanned, Drained, StillRuns, Close, Join, Ended, jobs
  <1>4. ASSUME NEW w \in Workers, Ask(w) \/ StopIdle(w) PROVE DeadlineInv'
    BY <1>4, DeadlineFrame DEF Ask, StopIdle, jobs
  <1>5. CASE Expired \/ Died \/ TakeDone
    <2>1. cur \in busy
      BY <1>5 DEF Expired, Died, TakeDone, ParentInv, PoolWhole, Loop
    <2>2. /\ busy' = busy \ {cur} /\ UNCHANGED <<job, until, fallback>>
          /\ clock' = [clock EXCEPT ![job[cur]] = <<>>]
          /\ \A v \in Workers : v # cur => outbox'[v] = outbox[v]
      BY <1>5 DEF Expired, Died, TakeDone, Yield, Kill, TypeOK
    <2>3. \A v \in busy' : clock'[job[v]] = clock[job[v]] /\ outbox'[v] = outbox[v]
      BY <1>0, <2>1, <2>2 DEF ParentInv, SoleHolder, TypeOK
    <2> QED BY <2>2, <2>3, DeadlineFrame
  <1>6. CASE TakeDeadline
    <2> DEFINE m == Head(outbox[cur])
    <2>1. cur \in busy
      BY <1>6 DEF TakeDeadline, ParentInv, PoolWhole, Loop
    <2>2. outbox[cur] \in Seq(Messages) /\ outbox[cur] # <<>> /\ m = outbox[cur][1] /\ m.kind = "deadline"
      BY <1>0, <1>6, <2>1 DEF TakeDeadline, TypeOK, Messages
    <2>3. /\ UNCHANGED <<busy, job, clock>>
          /\ outbox'[cur] = Tail(outbox[cur])
          /\ until'[cur] = (IF m.left = 0 THEN Never ELSE m.left) /\ fallback'[cur] = m.fb
          /\ \A v \in busy : v # cur => /\ outbox'[v] = outbox[v]
                                        /\ until'[v] = until[v]
                                        /\ fallback'[v] = fallback[v]
      BY <1>0, <1>6, <2>1 DEF TakeDeadline, TypeOK, jobs
    <2>4. /\ 1 \in DOMAIN outbox[cur] /\ m \in Messages
          /\ \A i \in DOMAIN outbox'[cur] :
               i + 1 \in DOMAIN outbox[cur] /\ outbox'[cur][i] = outbox[cur][i + 1]
      BY <2>2, <2>3, HeadTailProperties, EmptyByLength
    <2>5. SentIsEntered'
      <3>1. ASSUME NEW v \in busy, NEW i \in DOMAIN outbox'[v],
                   outbox'[v][i].kind = "deadline", outbox'[v][i].left > 0
            PROVE  Entered(clock[job[v]], outbox'[v][i].left, outbox'[v][i].fb)
        <4>1. \E k \in DOMAIN outbox[v] : outbox'[v][i] = outbox[v][k]
          BY <2>3, <2>4
        <4> QED BY <3>1, <4>1 DEF DeadlineInv, SentIsEntered
      <3> QED BY <2>3, <3>1 DEF SentIsEntered
    <2>6. m.left # 0 => Entered(clock[job[cur]], m.left, m.fb)
      BY <2>1, <2>2, <2>4, MessageTypes DEF DeadlineInv, SentIsEntered
    <2>7. KillIsDue'
      BY <2>1, <2>3, <2>6 DEF DeadlineInv, KillIsDue
    <2> QED BY <2>5, <2>7 DEF DeadlineInv
  <1>7. CASE Resume
    <2>1. cur \notin busy
      BY <1>7 DEF Resume, ParentInv, PoolWhole, Loop
    <2>2. \A v \in busy : /\ outbox'[v] = outbox[v] /\ job'[v] = job[v]
                          /\ until'[v] = until[v] /\ fallback'[v] = fallback[v]
      BY <1>0, <1>7, <2>1 DEF Resume, Spawn, TypeOK
    <2> QED BY <1>7, <2>2, DeadlineFrame DEF Resume, jobs
  <1>8. ASSUME NEW w \in Workers, KillBusy(w) PROVE DeadlineInv'
    BY <1>0, <1>8, DeadlineFrame DEF KillBusy, Kill, TypeOK, jobs
  <1>9. CASE Tick
    <2>1. UNCHANGED <<busy, job, outbox, fallback>>
      BY <1>9 DEF Tick
    <2>2. ASSUME NEW t \in Tasks, NEW left \in 0..Never, NEW fb \in BOOLEAN, Entered(clock[t], left, fb)
          PROVE  /\ Entered(clock'[t], left, fb)
                 /\ left # Never => Entered(clock'[t], Earlier(left), fb)
      <3>1. PICK i \in DOMAIN clock[t] : clock[t][i].left <= left /\ clock[t][i].fb = fb
        BY <2>2 DEF Entered
      <3>2. clock[t][i] \in [left : 0..MaxBudget, fb : BOOLEAN]
        <4>1. clock[t] \in Seq([left : 0..MaxBudget, fb : BOOLEAN])
          BY DEF TypeOK
        <4> QED BY <4>1, ElementOfSeq, LenProperties
      <3>3. /\ i \in DOMAIN clock'[t] /\ clock'[t][i].fb = fb
            /\ clock'[t][i].left = Earlier(clock[t][i].left)
        BY <1>9, <3>1, <3>2 DEF Tick
      <3>4. /\ Earlier(clock[t][i].left) <= left
            /\ left # Never => Earlier(clock[t][i].left) <= Earlier(left)
        BY <3>1, <3>2, PoolAssumption DEF Earlier, Never
      <3> QED BY <3>3, <3>4 DEF Entered
    <2>3. SentIsEntered'
      <3>1. ASSUME NEW w \in busy, NEW i \in DOMAIN outbox[w],
                   outbox[w][i].kind = "deadline", outbox[w][i].left > 0
            PROVE  Entered(clock'[job[w]], outbox[w][i].left, outbox[w][i].fb)
        <4>1. outbox[w] \in Seq(Messages)
          BY <1>0 DEF TypeOK, Messages
        <4>2. outbox[w][i] \in Messages
          BY <4>1, ElementOfSeq, LenProperties
        <4>3. outbox[w][i].left \in 0..Never /\ outbox[w][i].fb \in BOOLEAN
          BY <3>1, <4>2, MessageTypes, PoolAssumption DEF Never
        <4>4. Entered(clock[job[w]], outbox[w][i].left, outbox[w][i].fb)
          BY <3>1 DEF DeadlineInv, SentIsEntered
        <4> QED BY <1>0, <2>2, <4>3, <4>4
      <3> QED BY <2>1, <3>1 DEF SentIsEntered
    <2>4. KillIsDue'
      <3>1. ASSUME NEW w \in busy, until'[w] # Never
            PROVE  Entered(clock'[job[w]], until'[w], fallback[w])
        <4>1. until'[w] = Earlier(until[w]) /\ until[w] \in 0..Never
          BY <1>0, <1>9 DEF Tick, TypeOK
        <4>2. until[w] # Never
          BY <3>1, <4>1, PoolAssumption DEF Earlier, Never
        <4>3. Entered(clock[job[w]], until[w], fallback[w])
          BY <4>2 DEF DeadlineInv, KillIsDue
        <4>4. fallback[w] \in BOOLEAN
          BY <1>0 DEF TypeOK
        <4> QED BY <1>0, <2>2, <4>1, <4>2, <4>3, <4>4
      <3> QED BY <2>1, <3>1 DEF KillIsDue
    <2> QED BY <2>3, <2>4 DEF DeadlineInv
  <1> QED BY <1>1, <1>2, <1>3, <1>4, <1>5, <1>6, <1>7, <1>8, <1>9 DEF Imap, Consumer

-----------------------------------------------------------------------------
(* The part of the invariant that speaks of the processes jobs start.      *)
LEMMA WorkerGroups ==
    ASSUME TypeOK, ParentInv, PipesInv, GroupsHold, NEW w \in Workers, Serve(w) \/ Job(w)
    PROVE  GroupsHold'
  <1>0. UNCHANGED <<busy, job, out>>
    BY WorkersLeaveParent DEF parent
  <1>1. CASE Fork(w)
    <2>1. proc[w] = "running"
      BY <1>1 DEF Fork
    <2>2. w \in busy /\ task[w] = job[w]
      BY <2>1, RunningBegun DEF PipesInv
    <2>3. kids'[w] = kids[w] \cup {job[w]} /\ \A v \in Workers : v # w => kids'[v] = kids[v]
      BY <1>1, <2>2 DEF Fork, TypeOK
    <2> QED BY <1>0, <2>2, <2>3 DEF GroupsHold
  <1>2. CASE ~Fork(w)
    <2>1. UNCHANGED kids
      BY <1>2 DEF Serve, Job, Boot, Receive, Orphan, EnterDeadline, LeaveDeadline, Finish, Die, worker
    <2> QED BY <1>0, <2>1 DEF GroupsHold
  <1> QED BY <1>1, <1>2

(* The parent's kills and yields keep the groups' jobs accounted for.     *)
LEMMA ParentGroups ==
    ASSUME TypeOK, ParentInv, GroupsHold, Imap \/ Consumer \/ Tick
    PROVE  GroupsHold'
  <1>1. ASSUME NEW w \in Workers, Assign(w) \/ AssignBroken(w) PROVE GroupsHold'
    <2>1. w \notin busy /\ busy' \in {busy, busy \cup {w}} /\ UNCHANGED <<out, kids>>
      BY <1>1 DEF Assign, AssignBroken, ParentInv, PoolWhole, worker
    <2>2. \A v \in Workers : v # w => job'[v] = job[v]
      BY <1>1 DEF Assign, AssignBroken, Start, TypeOK
    <2> QED BY <2>1, <2>2 DEF GroupsHold
  <1>2. CASE Expired \/ Died
    <2>1. cur \in busy /\ cur \in Workers /\ job[cur] \in Tasks /\ out[job[cur]] = "none"
      BY <1>2, BusyTask DEF Expired, Died, ParentInv, PoolWhole, Loop
    <2>2. \E verdict \in {"fallback", "timeout", "died"} : out' = [out EXCEPT ![job[cur]] = verdict]
      BY <1>2 DEF Expired, Died, Yield
    <2>3. /\ busy' = busy \ {cur} /\ UNCHANGED job
          /\ Group => kids'[cur] = {}
          /\ \A v \in Workers : v # cur => kids'[v] = kids[v]
      BY <1>2, <2>1 DEF Expired, Died, Yield, Kill, TypeOK
    <2>4. ASSUME Group, NEW v \in Workers, NEW t \in kids'[v]
          PROVE  out'[t] \in {"value", "error"} \/ (v \in busy' /\ job'[v] = t)
      <3>1. v # cur /\ t \in kids[v] /\ t \in Tasks
        BY <2>3, <2>4 DEF TypeOK
      <3>2. out[t] \in {"value", "error"} \/ (v \in busy /\ job[v] = t)
        BY <2>4, <3>1 DEF GroupsHold
      <3>3. t # job[cur]
        BY <2>1, <3>1, <3>2 DEF ParentInv, SoleHolder
      <3> QED BY <2>2, <2>3, <3>1, <3>2, <3>3 DEF TypeOK
    <2> QED BY <2>4 DEF GroupsHold
  <1>3. CASE TakeDone
    <2>1. /\ \E verdict \in {"value", "error"} : out' = [out EXCEPT ![job[cur]] = verdict]
          /\ busy' = busy \ {cur} /\ UNCHANGED <<job, kids>>
      BY <1>3 DEF TakeDone, Yield, worker
    <2>2. ASSUME Group, NEW v \in Workers, NEW t \in kids[v]
          PROVE  out'[t] \in {"value", "error"} \/ (v \in busy' /\ job[v] = t)
      <3>1. t \in Tasks /\ (out[t] \in {"value", "error"} \/ (v \in busy /\ job[v] = t))
        BY <2>2 DEF GroupsHold, TypeOK
      <3> QED BY <2>1, <3>1 DEF TypeOK
    <2> QED BY <2>1, <2>2 DEF GroupsHold
  <1>4. CASE Resume
    <2>1. cur \notin busy /\ UNCHANGED <<busy, out>>
      BY <1>4 DEF Resume, ParentInv, PoolWhole, Loop
    <2>2. \A v \in Workers : kids'[v] \subseteq kids[v] /\ (v # cur => job'[v] = job[v])
      BY <1>4 DEF Resume, Spawn, TypeOK
    <2> QED BY <2>1, <2>2 DEF GroupsHold
  <1>5. ASSUME NEW w \in Workers, KillBusy(w) PROVE GroupsHold'
    <2>1. /\ UNCHANGED <<job, out>> /\ busy' = busy \ {w}
          /\ Group => kids'[w] = {}
          /\ \A v \in Workers : v # w => kids'[v] = kids[v]
      BY <1>5 DEF KillBusy, Kill, TypeOK
    <2> QED BY <2>1 DEF GroupsHold
  <1>6. ASSUME NEW w \in Workers, Ask(w) \/ StopIdle(w) PROVE GroupsHold'
    BY <1>6 DEF Ask, StopIdle, GroupsHold, worker
  <1>7. CASE \/ Assigned \/ Wake \/ Scanned \/ Drained \/ StillRuns \/ TakeDeadline
             \/ Close \/ Join \/ Ended \/ Tick
    <2>1. UNCHANGED <<busy, job, out, kids>>
      BY <1>7 DEF Assigned, Wake, Scanned, Drained, StillRuns, TakeDeadline, Close, Join,
                  Ended, Tick, worker
    <2> QED BY <2>1 DEF GroupsHold
  <1> QED BY <1>1, <1>2, <1>3, <1>4, <1>5, <1>6, <1>7 DEF Imap, Consumer

-----------------------------------------------------------------------------
(* The invariant is the four parts treated above.                         *)
LEMMA InvParts == Inv <=> TypeOK /\ ParentInv /\ PipesInv /\ DeadlineInv /\ GroupsHold
  BY DEF Inv, ParentInv, PipesInv, DeadlineInv

(* It holds at the start,                                                 *)
LEMMA InitInv == Init => Inv
  <1> SUFFICES ASSUME Init PROVE Inv
    OBVIOUS
  <1>1. TypeOK
    <2>1. <<>> \in Seq(Tasks \cup {Stop}) /\ <<>> \in Seq(DeadlineMessage \cup DoneMessage)
      BY EmptySeq
    <2>2. <<>> \in Seq([left : 0..MaxBudget, fb : BOOLEAN])
      BY EmptySeq
    <2>3. 0 \in 0..MaxDepth /\ 0 \in 0..N /\ Never \in 0..Never /\ 1 \in 1..(N + 1)
      BY PoolAssumption DEF Never
    <2> QED BY <2>1, <2>2, <2>3 DEF Init, TypeOK
  <1>2. ParentInv
    <2>1. \A t \in Tasks : ~(t < next)
      BY PoolAssumption DEF Init, Tasks
    <2>2. EachTaskHeld
      BY <2>1 DEF Init, EachTaskHeld
    <2> QED BY <2>2 DEF Init, ParentInv, Loop, PoolWhole, BusyJobs, SoleHolder
  <1>3. PipesInv /\ DeadlineInv /\ GroupsHold
    BY DEF Init, PipesInv, PipesInStep, Quiet, Untouched, DeadlineInv, SentIsEntered,
           KillIsDue, GroupsHold
  <1> QED BY <1>1, <1>2, <1>3, InvParts

(* and at every step.                                                     *)
LEMMA NextInv == Inv /\ [Next]_vars => Inv'
  <1> SUFFICES ASSUME Inv, [Next]_vars PROVE Inv'
    OBVIOUS
  <1>0. TypeOK /\ ParentInv /\ PipesInv /\ DeadlineInv /\ GroupsHold /\ Loop
    BY InvParts DEF ParentInv
  <1>1. ASSUME NEW w \in Workers, Serve(w) \/ Job(w) PROVE Inv'
    <2>1. TypeOK'
      BY <1>0, <1>1, WorkerTypes
    <2>2. ParentInv'
      BY <1>0, <1>1, WorkersLeaveParent, ParentFrame DEF parent
    <2>3. PipesInv' /\ DeadlineInv' /\ GroupsHold'
      BY <1>0, <1>1, <2>1, WorkerPipes, WorkerDeadlines, WorkerGroups
    <2> QED BY <2>1, <2>2, <2>3, InvParts DEF Inv, ParentInv, PipesInv, DeadlineInv
  <1>2. CASE Imap \/ Consumer \/ Tick
    <2>1. TypeOK' /\ ParentInv'
      BY <1>0, <1>2, ParentTypes, ParentStep
    <2>2. PipesInv' /\ DeadlineInv' /\ GroupsHold'
      BY <1>0, <1>2, <2>1, ParentPipes, ParentDeadlines, ParentGroups
    <2> QED BY <2>1, <2>2 DEF Inv, ParentInv, PipesInv, DeadlineInv
  <1>3. CASE UNCHANGED vars
    <2>1. UNCHANGED <<parent, inbox, outbox, proc, task, kids, fate, clock, depth>>
      BY <1>3 DEF vars, worker, jobs
    <2>2. TypeOK'
      BY <1>0, <2>1 DEF TypeOK, parent
    <2>3. ParentInv' /\ PipesInv' /\ DeadlineInv'
      BY <1>0, <2>1, ParentFrame, QuietFrame, DeadlineFrame DEF parent
    <2>4. GroupsHold'
      BY <1>0, <2>1 DEF GroupsHold, parent
    <2> QED BY <2>2, <2>3, <2>4 DEF Inv, ParentInv, PipesInv, DeadlineInv
  <1> QED BY <1>1, <1>2, <1>3 DEF Next, Terminated

(* The invariant holds in every reachable state.                           *)
THEOREM PoolInvariant == Spec => []Inv
  <1> QED BY InitInv, NextInv, PTL DEF Spec

(* Every variable keeps its type.                                          *)
THEOREM TypeCorrect == Spec => []TypeOK
  <1>1. Inv => TypeOK
    BY DEF Inv
  <1> QED BY <1>1, PoolInvariant, PTL

(* No worker leaks from an open iterator, and it never waits for nobody.   *)
THEOREM WorkersConserved == Spec => []PoolWhole
  <1>1. Inv => PoolWhole
    BY DEF Inv
  <1> QED BY <1>1, PoolInvariant, PTL

(* What the parent reads of a worker always belongs to the job it holds.   *)
THEOREM RepliesInStep == Spec => []PipesInStep
  <1>1. Inv => PipesInStep
    BY DEF Inv
  <1> QED BY <1>1, PoolInvariant, PTL

(* A task handed out and not reported is the job of one busy worker.       *)
THEOREM TasksHeldOnce == Spec => [](EachTaskHeld /\ SoleHolder)
  <1>1. Inv => EachTaskHeld /\ SoleHolder
    BY DEF Inv
  <1> QED BY <1>1, PoolInvariant, PTL

(* No kill is armed but by a deadline of the job it would end.             *)
THEOREM KillsAreDue == Spec => []KillIsDue
  <1>1. Inv => KillIsDue
    BY DEF Inv
  <1> QED BY <1>1, PoolInvariant, PTL

(* No process of a job reported killed or dead lives on in its group.      *)
THEOREM GroupsEnd == Spec => []NoStrays
  <1>1. Inv => NoStrays
    <2> SUFFICES ASSUME Inv, Group, NEW t \in Tasks, NEW w \in Workers,
                        out[t] \in {"timeout", "fallback", "died"}, t \in kids[w]
                 PROVE  FALSE
      BY DEF NoStrays
    <2>1. w \in busy /\ job[w] = t
      BY DEF Inv, GroupsHold
    <2> QED BY <2>1 DEF Inv, BusyJobs
  <1> QED BY <1>1, PoolInvariant, PTL

-----------------------------------------------------------------------------
(* The pool implements JobResults: every step of it is one of JobResults   *)
(* or leaves what the consumer can tell alone.                              *)
LEMMA LateFrame ==
    ASSUME \A t \in Tasks : clock'[t] = clock[t]
    PROVE  Late' = Late
  BY DEF Late

(* The start of the pool is a start of JobResults.                        *)
LEMMA AResultsInit == Init => Results!AInit
  <1> SUFFICES ASSUME Init PROVE Results!AInit
    OBVIOUS
  <1>1. Late = {}
    BY DEF Init, Late
  <1> QED BY <1>1 DEF Init, Results!AInit, Results!Tasks, Tasks

(* A worker's steps are steps of JobResults.                              *)
LEMMA WorkerResults ==
    ASSUME Inv, NEW w \in Workers, Serve(w) \/ Job(w)
    PROVE  [Results!ANext]_(Results!avars)
  <1>0. UNCHANGED <<out, how>> /\ TypeOK /\ ParentInv /\ PipesInv
    BY WorkersLeaveParent, InvParts DEF parent
  <1>1. CASE Boot(w) \/ Orphan(w) \/ Fork(w) \/ Die(w) \/ LeaveDeadline(w)
    <2>1. UNCHANGED <<fate, clock>>
      BY <1>1 DEF Boot, Orphan, Fork, Die, LeaveDeadline, jobs
    <2> QED BY <1>0, <2>1, LateFrame DEF Results!avars
  <1>2. CASE Receive(w)
    <2>1. CASE w \in busy
      <3>1. Unread(w)
        BY <1>0, <1>2, <2>1 DEF PipesInv, PipesInStep, Begun, Receive
      <3>2. Head(inbox[w]) = job[w] /\ job[w] # Stop /\ job[w] \in Tasks /\ fate[job[w]] = "todo"
        BY <1>0, <2>1, <3>1, BusyTask DEF Unread, Stop, Tasks
      <3>3. fate' = [fate EXCEPT ![job[w]] = "running"] /\ UNCHANGED clock
        BY <1>2, <3>2 DEF Receive
      <3>4. Results!Begin(job[w])
        BY <1>0, <3>2, <3>3, LateFrame DEF Results!Begin
      <3> QED BY <3>2, <3>4 DEF Results!ANext, Results!Tasks, Tasks
    <2>2. CASE w \notin busy
      <3>1. Head(inbox[w]) = Stop
        BY <1>0, <1>2, <2>2 DEF PipesInv, PipesInStep, Quiet, Receive
      <3>2. UNCHANGED <<fate, clock>>
        BY <1>2, <3>1 DEF Receive
      <3> QED BY <1>0, <3>2, LateFrame DEF Results!avars
    <2> QED BY <2>1, <2>2
  <1>3. ASSUME NEW f \in {"returned", "raised"}, Finish(w, f)
        PROVE  [Results!ANext]_(Results!avars)
    <2>1. /\ job[w] \in Tasks /\ fate[job[w]] = "running"
          /\ fate' = [fate EXCEPT ![job[w]] = f] /\ UNCHANGED clock
      BY <1>0, <1>3, RunningBegun DEF Finish, PipesInv, Begun
    <2>2. Results!Complete(job[w], f)
      BY <1>0, <2>1, LateFrame DEF Results!Complete
    <2> QED BY <2>1, <2>2 DEF Results!ANext, Results!Tasks, Tasks
  <1>4. ASSUME NEW left \in 1..MaxBudget, NEW fb \in Fallbacks, EnterDeadline(w, left, fb)
        PROVE  [Results!ANext]_(Results!avars)
    <2> DEFINE t == task[w]
               d == [left |-> left, fb |-> fb]
               D == [left : 0..MaxBudget, fb : BOOLEAN]
    <2>1. proc[w] = "running"
      BY <1>4 DEF EnterDeadline
    <2>2. t \in Tasks /\ clock[t] \in Seq(D) /\ d \in D /\ d.left # 0
      <3>1. t \in Tasks
        BY <1>0, <2>1, RunningBegun DEF PipesInv
      <3>2. clock[t] \in Seq(D)
        BY <1>0, <3>1 DEF TypeOK
      <3> QED BY <3>1, <3>2, PoolAssumption
    <2>3. /\ clock'[t] = Append(clock[t], d)
          /\ \A u \in Tasks : u # t => clock'[u] = clock[u]
      BY <1>0, <1>4, <2>2 DEF EnterDeadline, TypeOK
    <2>4. /\ \A i \in DOMAIN clock[t] : i \in DOMAIN clock'[t] /\ clock'[t][i] = clock[t][i]
          /\ \A i \in DOMAIN clock'[t] : i \in DOMAIN clock[t] \/ clock'[t][i] = d
      BY <2>2, <2>3, AppendProperties, LenProperties
    <2>5. Late' = Late
      <3>1. (\E i \in DOMAIN clock'[t] : clock'[t][i].left = 0)
              <=> (\E i \in DOMAIN clock[t] : clock[t][i].left = 0)
        BY <2>2, <2>4
      <3> QED BY <2>3, <3>1 DEF Late
    <2>6. UNCHANGED fate
      BY <1>4 DEF EnterDeadline
    <2> QED BY <1>0, <2>5, <2>6 DEF Results!avars
  <1> QED BY <1>1, <1>2, <1>3, <1>4 DEF Serve, Job

(* A truthful yield is a step of JobResults.                              *)
LEMMA YieldResults ==
    ASSUME TypeOK, how = "open", cur \in busy, job[cur] \in Tasks, out[job[cur]] = "none",
           NEW verdict \in Results!Verdicts, Yield(verdict), UNCHANGED <<fate, how>>,
           verdict = "value" => fate[job[cur]] = "returned",
           verdict = "error" => fate[job[cur]] = "raised",
           verdict \in {"timeout", "fallback"} => job[cur] \in Late
    PROVE  Results!ANext
  <1>1. /\ clock'[job[cur]] = <<>>
        /\ \A t \in Tasks : t # job[cur] => clock'[t] = clock[t]
    BY DEF Yield, TypeOK
  <1>2. Late' = Late \ {job[cur]}
    BY <1>1 DEF Late
  <1>3. Results!Report(job[cur], verdict)
    BY <1>2 DEF Results!Report, Results!Honest, Yield
  <1> QED BY <1>3 DEF Results!ANext, Results!Tasks, Tasks

(* The parent's steps are steps of JobResults.                            *)
LEMMA ParentResults ==
    ASSUME Inv, Imap \/ Consumer \/ Tick
    PROVE  [Results!ANext]_(Results!avars)
  <1>0. TypeOK /\ ParentInv /\ PipesInv /\ DeadlineInv
    BY InvParts
  <1>1. ASSUME NEW w \in Workers,
               Assign(w) \/ Ask(w) \/ KillBusy(w) \/ StopIdle(w)
        PROVE  UNCHANGED Results!avars
    BY <1>1, LateFrame DEF Assign, Ask, KillBusy, StopIdle, jobs, Results!avars
  <1>2. CASE Wake \/ Scanned \/ TakeDeadline \/ Drained \/ StillRuns \/ Join \/ Ended \/ Resume
    BY <1>2, LateFrame
    DEF Wake, Scanned, TakeDeadline, Drained, StillRuns, Join, Ended, Resume, jobs, Results!avars
  <1>3. ASSUME NEW h \in {"closed", "broken", "exhausted"}, how' = h,
               how = "open", UNCHANGED <<out, fate, clock>>,
               h = "exhausted" => \A t \in Tasks : out[t] # "none"
        PROVE  Results!ANext
    <2>1. Results!End(h)
      BY <1>3, LateFrame DEF Results!End, Results!Tasks, Tasks
    <2> QED BY <2>1 DEF Results!ANext, Results!Endings
  <1>4. ASSUME NEW w \in Workers, AssignBroken(w) PROVE Results!ANext
    BY <1>0, <1>3, <1>4 DEF AssignBroken, ParentInv, Loop, jobs
  <1>5. CASE Close
    BY <1>0, <1>3, <1>5 DEF Close, ParentInv, Loop, jobs
  <1>6. CASE Assigned
    <2>1. CASE next > N /\ busy = {}
      <3>1. ASSUME NEW t \in Tasks PROVE out[t] # "none"
        <4>1. t < next
          BY <1>0, <2>1, PoolAssumption DEF TypeOK, Tasks
        <4> QED BY <1>0, <1>6, <2>1, <4>1 DEF Assigned, ParentInv, Loop, EachTaskHeld
      <3> QED BY <1>0, <1>3, <1>6, <2>1, <3>1 DEF Assigned, ParentInv, Loop, jobs
    <2>2. CASE ~(next > N /\ busy = {})
      BY <1>6, <2>2, LateFrame DEF Assigned, jobs, Results!avars
    <2> QED BY <2>1, <2>2
  <1>7. CASE TakeDone
    <2>1. how = "open" /\ cur \in busy /\ cur \in Workers /\ job[cur] \in Tasks /\ out[job[cur]] = "none"
      BY <1>0, <1>7, BusyTask DEF TakeDone, ParentInv, Loop, PoolWhole
    <2>2. outbox[cur] \in Seq(Messages) /\ outbox[cur] # <<>> /\ Begun(cur)
      BY <1>0, <1>7, <2>1 DEF TakeDone, TypeOK, Messages, PipesInv, PipesInStep, Unread
    <2>3. 1 \in DOMAIN outbox[cur] /\ Head(outbox[cur]) = outbox[cur][1]
      BY <2>2, EmptyByLength
    <2>4. fate[job[cur]] = IF Head(outbox[cur]).ok THEN "returned" ELSE "raised"
      BY <1>7, <2>2, <2>3 DEF TakeDone, Begun
    <2>5. UNCHANGED <<fate, how>> /\ Yield(IF Head(outbox[cur]).ok THEN "value" ELSE "error")
      BY <1>7 DEF TakeDone
    <2> QED BY <1>0, <2>1, <2>4, <2>5, YieldResults DEF Results!Verdicts
  <1>8. CASE Expired \/ Died
    <2>1. how = "open" /\ cur \in busy /\ cur \in Workers /\ job[cur] \in Tasks /\ out[job[cur]] = "none"
      BY <1>0, <1>8, BusyTask DEF Expired, Died, ParentInv, Loop, PoolWhole
    <2>2. CASE Died
      BY <1>0, <2>1, <2>2, YieldResults DEF Died, Results!Verdicts
    <2>3. CASE Expired
      <3>1. until[cur] = 0 /\ until[cur] # Never
        BY <2>3, PoolAssumption DEF Expired, Never
      <3>2. PICK i \in DOMAIN clock[job[cur]] : clock[job[cur]][i].left <= 0
        BY <1>0, <2>1, <3>1 DEF DeadlineInv, KillIsDue, Entered
      <3>3. clock[job[cur]] \in Seq([left : 0..MaxBudget, fb : BOOLEAN])
        BY <1>0, <2>1 DEF TypeOK
      <3>4. clock[job[cur]][i] \in [left : 0..MaxBudget, fb : BOOLEAN]
        BY <3>2, <3>3, ElementOfSeq, LenProperties
      <3>5. clock[job[cur]][i].left = 0
        BY <3>2, <3>4, PoolAssumption
      <3>6. job[cur] \in Late
        BY <2>1, <3>2, <3>5 DEF Late
      <3> QED BY <1>0, <2>1, <2>3, <3>6, YieldResults DEF Expired, Results!Verdicts
    <2> QED BY <1>8, <2>2, <2>3
  <1>9. CASE Tick
    <2>1. ASSUME NEW t \in Late PROVE t \in Late'
      <3>1. PICK i \in DOMAIN clock[t] : clock[t][i].left = 0
        BY DEF Late
      <3>2. t \in Tasks /\ clock[t] \in Seq([left : 0..MaxBudget, fb : BOOLEAN])
        BY <1>0 DEF Late, TypeOK
      <3>3. clock[t][i] \in [left : 0..MaxBudget, fb : BOOLEAN]
        BY <3>2, ElementOfSeq, LenProperties
      <3>4. i \in DOMAIN clock'[t] /\ clock'[t][i].left = 0
        BY <1>9, <3>1, <3>2, <3>3, PoolAssumption DEF Tick, Earlier
      <3> QED BY <3>2, <3>4 DEF Late
    <2>2. Results!Lapse
      BY <1>9, <2>1 DEF Tick, Results!Lapse, Late, Results!Tasks, Tasks
    <2> QED BY <2>2 DEF Results!ANext
  <1> QED BY <1>1, <1>2, <1>4, <1>5, <1>6, <1>7, <1>8, <1>9 DEF Imap, Consumer

(* imap keeps the promise: tasks are run and reported at most once, with a *)
(* true verdict, and all of them before the iterator is exhausted.          *)
THEOREM PoolImplementsResults == Spec => ResultsSpec
  <1>1. Inv /\ [Next]_vars => [Results!ANext]_(Results!avars)
    <2> SUFFICES ASSUME Inv, [Next]_vars PROVE [Results!ANext]_(Results!avars)
      OBVIOUS
    <2>1. CASE UNCHANGED vars
      BY <2>1, LateFrame DEF vars, parent, jobs, Results!avars
    <2> QED BY <2>1, WorkerResults, ParentResults DEF Next, Terminated
  <1> QED BY <1>1, AResultsInit, PoolInvariant, PTL DEF Spec, ResultsSpec, Results!ASpec
=============================================================================
