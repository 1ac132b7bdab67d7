------------------------ MODULE NativePlayer_proofs ------------------------
(***************************************************************************)
(* Proofs about the native core and the hand-over, for every tune, build,  *)
(* memory and sequence of calls: its route table lands every store where   *)
(* Python lands it; a frame's log gives back every byte the frame stores;  *)
(* the writes reported are the last frame's; NativePlayer implements       *)
(* PythonPlayer, if play_after names a frame still to come; and a frame    *)
(* given up for what was not built teaches the player something.           *)
(*                                                                         *)
(* For the implementation the invariant says how far the core has got in   *)
(* the frame as Python plays it: its memory, state and registers in the    *)
(* middle of a frame are those of CodeAfter and SpecAfter at the step it   *)
(* has reached.                                                            *)
(***************************************************************************)
EXTENDS NativePlayer, TunePlay, WellFoundedInduction, TLAPS

-----------------------------------------------------------------------------
(* A frame in Python, for every tune and build: by induction over the steps *)
(* of a routine and of a spec, what the machine after them is, its type,    *)
(* and what is only ever added to it.                                       *)

(* A set that 0 is in, and the number after each of its numbers, has them   *)
(* all: induction as a statement about sets, which has no operator for the  *)
(* provers to find.                                                         *)
LEMMA Induction ==
    ASSUME NEW S \in SUBSET Nat, 0 \in S, \A n \in S : n + 1 \in S
    PROVE  \A n \in Nat : n \in S
<1> SUFFICES ASSUME Nat \ S # {} PROVE FALSE
  OBVIOUS
<1> DEFINE less == OpToRel(<, Nat)
<1>1. \E n \in Nat \ S : \A k \in Nat \ S : <<k, n>> \notin less
  <2>1. IsWellFoundedOn(less, Nat)
    BY NatLessThanWellFounded, Zenon
  <2> HIDE DEF less
  <2> QED
    BY <2>1, WFMin
<1>2. PICK n \in Nat \ S : \A k \in Nat \ S : ~(k < n)
  BY <1>1 DEF OpToRel
<1> QED
  BY <1>2

-----------------------------------------------------------------------------
(* A spec's steps.                                                         *)

(* The machines of the first n steps, as SpecAfter recurs through them.    *)
SpecRun(f, b, m, body, n) ==
    f = [k \in 0..n |-> IF k = 0 THEN m ELSE SpecStepped(b, f[k - 1], body[k])]

(* There are such machines, for any number of steps.                       *)
LEMMA SpecRuns ==
    ASSUME NEW b, NEW m, NEW body, NEW n \in Nat
    PROVE  \E f : SpecRun(f, b, m, body, n)
<1> DEFINE S == {k \in Nat : \E f : SpecRun(f, b, m, body, k)}
<1>1. 0 \in S
  <2>1. SpecRun([k \in 0..0 |-> m], b, m, body, 0)
    BY DEF SpecRun
  <2> QED
    BY <2>1
<1>2. ASSUME NEW k \in S PROVE k + 1 \in S
  <2>1. PICK f : SpecRun(f, b, m, body, k)
    OBVIOUS
  <2> DEFINE g == [l \in 0..(k + 1) |->
                     IF l = k + 1 THEN SpecStepped(b, f[k], body[k + 1]) ELSE f[l]]
  <2>2. SpecRun(g, b, m, body, k + 1)
    <3>1. ASSUME NEW l \in 0..(k + 1)
          PROVE  g[l] = IF l = 0 THEN m ELSE SpecStepped(b, g[l - 1], body[l])
      <4>1. CASE l = k + 1
        BY <4>1
      <4>2. CASE l # k + 1
        <5>1. l \in 0..k /\ g[l] = f[l]
          BY <4>2
        <5>2. f[l] = IF l = 0 THEN m ELSE SpecStepped(b, f[l - 1], body[l])
          BY <2>1, <5>1 DEF SpecRun
        <5> QED
          BY <4>2, <5>1, <5>2
      <4> QED
        BY <4>1, <4>2
    <3>2. g = [l \in 0..(k + 1) |-> g[l]]
      OBVIOUS
    <3> HIDE DEF g
    <3> QED
      BY <3>1, <3>2 DEF SpecRun
  <2> QED
    BY <2>2
<1> HIDE DEF S
<1>3. n \in S
  BY <1>1, <1>2, Induction DEF S
<1> QED
  BY <1>3 DEF S

(* SpecAfter is what its recursion says.                                   *)
LEMMA SpecRecurs ==
    ASSUME NEW b, NEW m, NEW body, Len(body) \in Nat, NEW n \in 0..Len(body)
    PROVE  SpecAfter(b, m, body, n) =
             IF n = 0 THEN m ELSE SpecStepped(b, SpecAfter(b, m, body, n - 1), body[n])
<1> DEFINE now[k \in 0..Len(body)] ==
             IF k = 0 THEN m ELSE SpecStepped(b, now[k - 1], body[k])
<1>1. now = [k \in 0..Len(body) |->
               IF k = 0 THEN m ELSE SpecStepped(b, now[k - 1], body[k])]
  <2>1. \E f : SpecRun(f, b, m, body, Len(body))
    BY SpecRuns
  <2> QED
    BY <2>1 DEF SpecRun
<1>2. \A k : SpecAfter(b, m, body, k) = now[k]
  BY DEF SpecAfter
<1> HIDE DEF now
<1>3. now[n] = IF n = 0 THEN m ELSE SpecStepped(b, now[n - 1], body[n])
  BY <1>1
<1> QED
  BY <1>2, <1>3

LEMMA SpecFirst ==
    ASSUME NEW b, NEW m, NEW body, Len(body) \in Nat
    PROVE  SpecAfter(b, m, body, 0) = m
  BY SpecRecurs

LEMMA SpecNext ==
    ASSUME NEW b, NEW m, NEW body, Len(body) \in Nat, NEW k \in 0..(Len(body) - 1)
    PROVE  SpecAfter(b, m, body, k + 1) =
             SpecStepped(b, SpecAfter(b, m, body, k), body[k + 1])
<1>1. k + 1 \in 0..Len(body) /\ k + 1 # 0 /\ (k + 1) - 1 = k
  OBVIOUS
<1>2. SpecAfter(b, m, body, k + 1) =
        IF k + 1 = 0 THEN m
        ELSE SpecStepped(b, SpecAfter(b, m, body, (k + 1) - 1), body[k + 1])
  BY <1>1, SpecRecurs
<1> QED
  BY <1>1, <1>2

(* Where a build lands a store.                                            *)
LEMMA LandingType ==
    ASSUME NEW b, IsBuild(b), NEW a \in Cells, NEW v \in Byte
    PROVE  Landing(b, a, v) \in [to : Cells \cup {Nowhere}, byte : Byte]
<1> DEFINE r == RouteOf(b, a)
<1>1. r \in Route
  BY DEF IsBuild, RouteOf, Route, Straight, Byte
<1>2. Gate \in Byte
  BY TuneAssumption
<1>3. ((IF Muted(b, a) THEN Gate ELSE v) \cap r.keep) \cup r.force \in Byte
  BY <1>1, <1>2 DEF Route, Byte
<1>4. Ghosted(b.ghost, r.to) \in Cells \cup {Nowhere}
  BY <1>1 DEF Route, Ghosted, Sid, Copy, Cells
<1> QED
  BY <1>3, <1>4 DEF Landing

(* A machine after a store is one, and what it has run is the same.        *)
LEMMA StoredType ==
    ASSUME NEW b, IsBuild(b), NEW m \in Machine, NEW a \in Cells, NEW v \in Byte
    PROVE  /\ Stored(b, m, a, v) \in Machine
           /\ Stored(b, m, a, v).ran = m.ran /\ Stored(b, m, a, v).seen = m.seen
           /\ Stored(b, m, a, v).gone = m.gone
<1> DEFINE l == Landing(b, a, v)
<1>1. l \in [to : Cells \cup {Nowhere}, byte : Byte]
  BY LandingType
<1> HIDE DEF l
<1>2. Stored(b, m, a, v) =
        IF l.to = Nowhere THEN m
        ELSE [m EXCEPT !.ram = [@ EXCEPT ![l.to] = l.byte],
                       !.writes = IF l.to = Sid THEN Append(@, l.byte) ELSE @]
  BY DEF Stored, l
<1>3. CASE l.to = Nowhere
  BY <1>2, <1>3
<1>4. CASE l.to # Nowhere
  <2>1. [m.ram EXCEPT ![l.to] = l.byte] \in [Cells -> Byte]
    BY <1>1, <1>4 DEF Machine
  <2>2. (IF l.to = Sid THEN Append(m.writes, l.byte) ELSE m.writes) \in Seq(Byte)
    BY <1>1 DEF Machine
  <2> QED
    BY <1>2, <1>4, <2>1, <2>2 DEF Machine
<1> QED
  BY <1>3, <1>4

(* So is one after a step of a spec; native code that has returned to the   *)
(* caller leaves the rest of the spec out.                                  *)
LEMMA SpecSteppedType ==
    ASSUME NEW b, IsBuild(b), NEW m \in Machine, NEW step \in SpecStep
    PROVE  /\ SpecStepped(b, m, step) \in Machine
           /\ SpecStepped(b, m, step).ran = m.ran
           /\ SpecStepped(b, m, step).seen = m.seen
           /\ m.gone => SpecStepped(b, m, step) = m
<1> USE TuneAssumption
<1>1. CASE m.gone
  BY <1>1 DEF SpecStepped
<1>2. CASE ~m.gone /\ step.op = "count"
  <2>1. SpecStepped(b, m, step) = [m EXCEPT !.ctl = Count[@]]
    BY <1>2 DEF SpecStepped
  <2> QED
    BY <1>2, <2>1 DEF Machine
<1>3. CASE ~m.gone /\ step.op = "load"
  <2>1. SpecStepped(b, m, step) = [m EXCEPT !.ctl = m.ram[step.at]] /\ step.at \in Cells
    BY <1>3 DEF SpecStepped, SpecStep
  <2> QED
    BY <1>3, <2>1 DEF Machine
<1>4. CASE ~m.gone /\ step.op = "store"
  <2>1. SpecStepped(b, m, step) = Stored(b, m, step.at, m.ctl) /\ step.at \in Cells
    BY <1>4 DEF SpecStepped, SpecStep
  <2>2. m.ctl \in Byte
    BY DEF Machine
  <2> QED
    BY <1>4, <2>1, <2>2, StoredType
<1>5. CASE ~m.gone /\ step.op = "device"
  <2>1. SpecStepped(b, m, step) =
          IF Asks(m.ram, step.at) THEN [m EXCEPT !.ctl = Answer] ELSE m
    BY <1>5 DEF SpecStepped
  <2> QED
    BY <1>5, <2>1 DEF Machine
<1>6. CASE ~m.gone /\ step.op = "native"
  <2>1. /\ SpecStepped(b, m, step) =
             [m EXCEPT !.acc = m.ctl, !.ram = [@ EXCEPT ![step.at] = m.ctl],
                       !.gone = step.escapes]
        /\ step.at \in Cells /\ step.escapes \in BOOLEAN
    BY <1>6 DEF SpecStepped, SpecStep
  <2>2. [m.ram EXCEPT ![step.at] = m.ctl] \in [Cells -> Byte]
    BY <2>1 DEF Machine
  <2> QED
    BY <1>6, <2>1, <2>2 DEF Machine
<1>7. step.op \in {"count", "load", "store", "device", "native"}
  BY DEF SpecStep
<1> QED
  BY <1>1, <1>2, <1>3, <1>4, <1>5, <1>6, <1>7

(* And so after any number of them.                                        *)
LEMMA SpecAfterType ==
    ASSUME NEW b, IsBuild(b), NEW m \in Machine, NEW body \in Seq(SpecStep),
           NEW n \in 0..Len(body)
    PROVE  /\ SpecAfter(b, m, body, n) \in Machine
           /\ SpecAfter(b, m, body, n).ran = m.ran
           /\ SpecAfter(b, m, body, n).seen = m.seen
<1> DEFINE Good(k) == /\ SpecAfter(b, m, body, k) \in Machine
                      /\ SpecAfter(b, m, body, k).ran = m.ran
                      /\ SpecAfter(b, m, body, k).seen = m.seen
           S == {k \in Nat : k <= Len(body) => Good(k)}
<1>0. Len(body) \in Nat
  OBVIOUS
<1>1. 0 \in S
  BY <1>0, SpecFirst
<1>2. ASSUME NEW k \in S PROVE k + 1 \in S
  <2>1. CASE k + 1 <= Len(body)
    <3>1. SpecAfter(b, m, body, k + 1) =
            SpecStepped(b, SpecAfter(b, m, body, k), body[k + 1])
      <4>1. k \in 0..(Len(body) - 1)
        BY <1>0, <2>1
      <4> QED
        BY <1>0, <4>1, SpecNext
    <3>2. Good(k)
      BY <1>0, <2>1
    <3>3. body[k + 1] \in SpecStep
      BY <1>0, <2>1
    <3>4. Good(k + 1)
      BY <3>1, <3>2, <3>3, SpecSteppedType
    <3> QED
      BY <3>4
  <2>2. CASE ~(k + 1 <= Len(body))
    BY <2>2
  <2> QED
    BY <2>1, <2>2
<1>3. S \in SUBSET Nat
  OBVIOUS
<1> HIDE DEF S
<1>5. n \in S
  BY <1>0, <1>1, <1>2, <1>3, Induction
<1> QED
  BY <1>0, <1>5 DEF S

(* Native code that has returned to the caller ends the spec.              *)
LEMMA SpecEnds ==
    ASSUME NEW b, IsBuild(b), NEW m \in Machine, NEW body \in Seq(SpecStep),
           NEW d \in 0..Len(body), SpecAfter(b, m, body, d).gone
    PROVE  SpecAfter(b, m, body, Len(body)) = SpecAfter(b, m, body, d)
<1> DEFINE S == {k \in Nat : d + k <= Len(body) =>
                   SpecAfter(b, m, body, d + k) = SpecAfter(b, m, body, d)}
<1>0. Len(body) \in Nat
  OBVIOUS
<1>1. 0 \in S
  BY <1>0
<1>2. ASSUME NEW k \in S PROVE k + 1 \in S
  <2> SUFFICES ASSUME d + (k + 1) <= Len(body)
               PROVE  SpecAfter(b, m, body, d + (k + 1)) = SpecAfter(b, m, body, d)
    BY <1>0
  <2>1. /\ d + k \in 0..(Len(body) - 1) /\ (d + k) + 1 = d + (k + 1)
        /\ d + (k + 1) \in 1..Len(body)
    BY <1>0
  <2>2. SpecAfter(b, m, body, (d + k) + 1) =
          SpecStepped(b, SpecAfter(b, m, body, d + k), body[(d + k) + 1])
    BY <1>0, <2>1, SpecNext
  <2>3. SpecAfter(b, m, body, d + k) = SpecAfter(b, m, body, d)
    BY <1>0, <2>1
  <2>4. body[d + (k + 1)] \in SpecStep /\ SpecAfter(b, m, body, d) \in Machine
    BY <2>1, SpecAfterType
  <2> QED
    BY <2>1, <2>2, <2>3, <2>4, SpecSteppedType
<1>3. S \in SUBSET Nat
  OBVIOUS
<1> HIDE DEF S
<1>5. Len(body) - d \in S
  BY <1>0, <1>1, <1>2, <1>3, Induction
<1> QED
  BY <1>0, <1>5 DEF S

-----------------------------------------------------------------------------
(* A spec that is run.                                                     *)

(* The machine a spec begins on.                                           *)
LEMMA ArrivedType ==
    ASSUME NEW b, NEW m \in Machine, ~m.gone, NEW e \in Entries
    PROVE  /\ Arrived(b, m, e) \in Machine
           /\ Arrived(b, m, e).ran = m.ran \cup {<<Setting(m.ram), e>>}
           /\ Arrived(b, m, e).seen = m.seen /\ ~Arrived(b, m, e).gone
           /\ Arrived(b, m, e).acc = m.acc
<1> DEFINE mem == [m.ram EXCEPT ![Sid] = IF b.ghost THEN m.ram[Copy] ELSE m.ram[Sid]]
<1>1. Arrived(b, m, e) =
        [m EXCEPT !.entered = Append(m.entered, e),
                  !.ran = m.ran \cup {<<Setting(m.ram), e>>}, !.ram = mem]
  BY DEF Arrived, Machine
<1>2. mem \in [Cells -> Byte]
  BY DEF Machine, Sid, Copy, Cells
<1>3. m.ran \cup {<<Setting(m.ram), e>>} \in SUBSET (Settings \X Entries)
  BY DEF Setting, Settings, Machine
<1>4. Append(m.entered, e) \in Seq(Entries)
  BY DEF Machine
<1> HIDE DEF mem
<1> QED
  BY <1>1, <1>2, <1>3, <1>4 DEF Machine

(* The machine it leaves: its key is among those that were run.            *)
LEMMA RanType ==
    ASSUME NEW b, IsBuild(b), NEW m \in Machine, ~m.gone, NEW e \in Entries,
           NEW called
    PROVE  /\ Ran(b, m, e, called) \in Machine
           /\ Ran(b, m, e, called).ran = m.ran \cup {<<Setting(m.ram), e>>}
           /\ Ran(b, m, e, called).seen = m.seen /\ ~Ran(b, m, e, called).gone
<1> DEFINE body == Program[Setting(m.ram)][e]
           final == SpecAfter(b, Arrived(b, m, e), body, Len(body))
<1>1. body \in Seq(SpecStep)
  <2>1. Setting(m.ram) \in Settings
    BY DEF Setting, Settings
  <2> QED
    BY <2>1, TuneAssumption
<1>2. Len(body) \in 0..Len(body)
  BY <1>1
<1>3. /\ final \in Machine /\ final.ran = m.ran \cup {<<Setting(m.ram), e>>}
      /\ final.seen = m.seen
  <2> HIDE DEF body
  <2>1. /\ Arrived(b, m, e) \in Machine /\ Arrived(b, m, e).seen = m.seen
        /\ Arrived(b, m, e).ran = m.ran \cup {<<Setting(m.ram), e>>}
    BY ArrivedType
  <2> QED
    BY <1>1, <1>2, <2>1, SpecAfterType
<1>4. Ran(b, m, e, called) =
        [final EXCEPT !.acc = IF final.gone /\ called THEN @ ELSE m.acc, !.gone = FALSE]
  BY DEF Ran
<1> HIDE DEF final
<1> QED
  BY <1>3, <1>4 DEF Machine

-----------------------------------------------------------------------------
(* A routine's steps.                                                      *)

(* The same recursion, over a routine.                                     *)
CodeRun(f, b, m, body, n) ==
    f = [k \in 0..n |-> IF k = 0 THEN m ELSE CodeStepped(b, f[k - 1], body[k])]

LEMMA CodeRuns ==
    ASSUME NEW b, NEW m, NEW body, NEW n \in Nat
    PROVE  \E f : CodeRun(f, b, m, body, n)
<1> DEFINE S == {k \in Nat : \E f : CodeRun(f, b, m, body, k)}
<1>1. 0 \in S
  <2>1. CodeRun([k \in 0..0 |-> m], b, m, body, 0)
    BY DEF CodeRun
  <2> QED
    BY <2>1
<1>2. ASSUME NEW k \in S PROVE k + 1 \in S
  <2>1. PICK f : CodeRun(f, b, m, body, k)
    OBVIOUS
  <2> DEFINE g == [l \in 0..(k + 1) |->
                     IF l = k + 1 THEN CodeStepped(b, f[k], body[k + 1]) ELSE f[l]]
  <2>2. CodeRun(g, b, m, body, k + 1)
    <3>1. ASSUME NEW l \in 0..(k + 1)
          PROVE  g[l] = IF l = 0 THEN m ELSE CodeStepped(b, g[l - 1], body[l])
      <4>1. CASE l = k + 1
        BY <4>1
      <4>2. CASE l # k + 1
        <5>1. l \in 0..k /\ g[l] = f[l]
          BY <4>2
        <5>2. f[l] = IF l = 0 THEN m ELSE CodeStepped(b, f[l - 1], body[l])
          BY <2>1, <5>1 DEF CodeRun
        <5> QED
          BY <4>2, <5>1, <5>2
      <4> QED
        BY <4>1, <4>2
    <3>2. g = [l \in 0..(k + 1) |-> g[l]]
      OBVIOUS
    <3> HIDE DEF g
    <3> QED
      BY <3>1, <3>2 DEF CodeRun
  <2> QED
    BY <2>2
<1> HIDE DEF S
<1>3. n \in S
  BY <1>1, <1>2, Induction DEF S
<1> QED
  BY <1>3 DEF S

LEMMA CodeRecurs ==
    ASSUME NEW b, NEW m, NEW body, Len(body) \in Nat, NEW n \in 0..Len(body)
    PROVE  CodeAfter(b, m, body, n) =
             IF n = 0 THEN m ELSE CodeStepped(b, CodeAfter(b, m, body, n - 1), body[n])
<1> DEFINE now[k \in 0..Len(body)] ==
             IF k = 0 THEN m ELSE CodeStepped(b, now[k - 1], body[k])
<1>1. now = [k \in 0..Len(body) |->
               IF k = 0 THEN m ELSE CodeStepped(b, now[k - 1], body[k])]
  <2>1. \E f : CodeRun(f, b, m, body, Len(body))
    BY CodeRuns
  <2> QED
    BY <2>1 DEF CodeRun
<1>2. \A k : CodeAfter(b, m, body, k) = now[k]
  BY DEF CodeAfter
<1> HIDE DEF now
<1>3. now[n] = IF n = 0 THEN m ELSE CodeStepped(b, now[n - 1], body[n])
  BY <1>1
<1> QED
  BY <1>2, <1>3

LEMMA CodeFirst ==
    ASSUME NEW b, NEW m, NEW body, Len(body) \in Nat
    PROVE  CodeAfter(b, m, body, 0) = m
  BY CodeRecurs

LEMMA CodeNext ==
    ASSUME NEW b, NEW m, NEW body, Len(body) \in Nat, NEW k \in 0..(Len(body) - 1)
    PROVE  CodeAfter(b, m, body, k + 1) =
             CodeStepped(b, CodeAfter(b, m, body, k), body[k + 1])
<1>1. k + 1 \in 0..Len(body) /\ k + 1 # 0 /\ (k + 1) - 1 = k
  OBVIOUS
<1>2. CodeAfter(b, m, body, k + 1) =
        IF k + 1 = 0 THEN m
        ELSE CodeStepped(b, CodeAfter(b, m, body, (k + 1) - 1), body[k + 1])
  BY <1>1, CodeRecurs
<1> QED
  BY <1>1, <1>2

(* A machine after a step of a routine is one; what was run and asked for   *)
(* stays so, and the settings before and after the step are asked for.      *)
LEMMA CodeSteppedType ==
    ASSUME NEW b, IsBuild(b), NEW m \in Machine, ~m.gone, NEW step \in CodeStep
    PROVE  LET n == CodeStepped(b, m, step) IN
           /\ n \in Machine /\ ~n.gone
           /\ m.ran \subseteq n.ran /\ m.seen \subseteq n.seen
           /\ Setting(m.ram) \in n.seen /\ Setting(n.ram) \in n.seen
<1> DEFINE n == CASE step.op = "poke" -> [m EXCEPT !.ram[step.at] = m.acc]
                  [] step.op = "peek" -> [m EXCEPT !.acc = m.ram[step.at]]
                  [] step.op = "device" ->
                       IF Asks(m.ram, step.at) THEN [m EXCEPT !.acc = Answer] ELSE m
                  [] step.op = "port" -> [m EXCEPT !.ram[Port] = step.put]
                  [] step.op = "call" ->
                       IF step.to \in Modelled[Setting(m.ram)]
                       THEN Ran(b, m, step.to, TRUE)
                       ELSE [m EXCEPT !.ram[Own[step.to]] = m.acc]
<1>1. n \in Machine /\ ~n.gone /\ m.ran \subseteq n.ran /\ n.seen = m.seen
  <2>1. CASE step.op = "poke"
    <3>1. n = [m EXCEPT !.ram = [@ EXCEPT ![step.at] = m.acc]] /\ step.at \in Cells
      BY <2>1 DEF CodeStep
    <3>2. [m.ram EXCEPT ![step.at] = m.acc] \in [Cells -> Byte]
      BY <3>1 DEF Machine
    <3> QED
      BY <3>1, <3>2 DEF Machine
  <2>2. CASE step.op = "peek"
    <3>1. n = [m EXCEPT !.acc = m.ram[step.at]] /\ step.at \in Cells
      BY <2>2 DEF CodeStep
    <3> HIDE DEF n
    <3> QED
      BY <3>1 DEF Machine
  <2>3. CASE step.op = "device"
    <3>1. n = IF Asks(m.ram, step.at) THEN [m EXCEPT !.acc = Answer] ELSE m
      BY <2>3
    <3> HIDE DEF n
    <3> QED
      BY <3>1, TuneAssumption DEF Machine
  <2>4. CASE step.op = "port"
    <3>1. n = [m EXCEPT !.ram = [@ EXCEPT ![Port] = step.put]] /\ step.put \in Byte
      BY <2>4 DEF CodeStep
    <3>2. [m.ram EXCEPT ![Port] = step.put] \in [Cells -> Byte]
      BY <3>1 DEF Machine
    <3> QED
      BY <3>1, <3>2 DEF Machine
  <2>5. CASE step.op = "call" /\ step.to \in Modelled[Setting(m.ram)]
    <3>1. n = Ran(b, m, step.to, TRUE) /\ step.to \in Entries
      BY <2>5 DEF CodeStep
    <3> HIDE DEF n
    <3>2. \A c : /\ Ran(b, m, step.to, c) \in Machine /\ ~Ran(b, m, step.to, c).gone
                 /\ Ran(b, m, step.to, c).ran = m.ran \cup {<<Setting(m.ram), step.to>>}
                 /\ Ran(b, m, step.to, c).seen = m.seen
      BY <3>1, RanType
    <3> QED
      BY <3>1, <3>2
  <2>6. CASE step.op = "call" /\ step.to \notin Modelled[Setting(m.ram)]
    <3>1. n = [m EXCEPT !.ram = [@ EXCEPT ![Own[step.to]] = m.acc]] /\ step.to \in Entries
      BY <2>6 DEF CodeStep
    <3>2. [m.ram EXCEPT ![Own[step.to]] = m.acc] \in [Cells -> Byte]
      BY <3>1, TuneAssumption DEF Machine
    <3> QED
      BY <3>1, <3>2 DEF Machine
  <2>7. step.op \in {"poke", "peek", "device", "port", "call"}
    BY DEF CodeStep
  <2> QED
    BY <2>1, <2>2, <2>3, <2>4, <2>5, <2>6, <2>7
<1>2. CodeStepped(b, m, step) =
        [n EXCEPT !.seen = @ \cup {Setting(m.ram), Setting(n.ram)}]
  BY DEF CodeStepped
<1> HIDE DEF n
<1>3. Setting(m.ram) \in Settings /\ Setting(n.ram) \in Settings
  BY DEF Setting, Settings
<1> QED
  BY <1>1, <1>2, <1>3 DEF Machine

(* So is one after any number of them.                                     *)
LEMMA CodeAfterType ==
    ASSUME NEW b, IsBuild(b), NEW m \in Machine, ~m.gone, NEW body \in Seq(CodeStep),
           NEW n \in 0..Len(body)
    PROVE  CodeAfter(b, m, body, n) \in Machine /\ ~CodeAfter(b, m, body, n).gone
<1> DEFINE Good(k) == CodeAfter(b, m, body, k) \in Machine /\ ~CodeAfter(b, m, body, k).gone
           S == {k \in Nat : k <= Len(body) => Good(k)}
<1>0. Len(body) \in Nat
  OBVIOUS
<1>1. 0 \in S
  BY <1>0, CodeFirst
<1>2. ASSUME NEW k \in S PROVE k + 1 \in S
  <2>1. CASE k + 1 <= Len(body)
    <3>1. CodeAfter(b, m, body, k + 1) =
            CodeStepped(b, CodeAfter(b, m, body, k), body[k + 1])
      <4>1. k \in 0..(Len(body) - 1)
        BY <1>0, <2>1
      <4> QED
        BY <1>0, <4>1, CodeNext
    <3>2. Good(k) /\ body[k + 1] \in CodeStep
      BY <1>0, <2>1
    <3>3. Good(k + 1)
      BY <3>1, <3>2, CodeSteppedType
    <3> QED
      BY <3>3
  <2>2. CASE ~(k + 1 <= Len(body))
    BY <2>2
  <2> QED
    BY <2>1, <2>2
<1>3. S \in SUBSET Nat
  OBVIOUS
<1> HIDE DEF S
<1>4. n \in S
  BY <1>0, <1>1, <1>2, <1>3, Induction
<1> QED
  BY <1>0, <1>4 DEF S

(* What was run and asked for in the first d steps stays so to the end.    *)
LEMMA CodeGrows ==
    ASSUME NEW b, IsBuild(b), NEW m \in Machine, ~m.gone, NEW body \in Seq(CodeStep),
           NEW d \in 0..Len(body)
    PROVE  LET now == CodeAfter(b, m, body, d)
               end == CodeAfter(b, m, body, Len(body))
           IN now.ran \subseteq end.ran /\ now.seen \subseteq end.seen
<1> DEFINE now == CodeAfter(b, m, body, d)
           Good(k) == /\ now.ran \subseteq CodeAfter(b, m, body, d + k).ran
                      /\ now.seen \subseteq CodeAfter(b, m, body, d + k).seen
           S == {k \in Nat : d + k <= Len(body) => Good(k)}
<1>0. Len(body) \in Nat
  OBVIOUS
<1>1. 0 \in S
  BY <1>0
<1>2. ASSUME NEW k \in S PROVE k + 1 \in S
  <2> SUFFICES ASSUME d + (k + 1) <= Len(body) PROVE Good(k + 1)
    BY <1>0
  <2>1. /\ d + k \in 0..(Len(body) - 1) /\ (d + k) + 1 = d + (k + 1)
        /\ d + (k + 1) \in 1..Len(body) /\ d + k \in 0..Len(body)
    BY <1>0
  <2>2. CodeAfter(b, m, body, (d + k) + 1) =
          CodeStepped(b, CodeAfter(b, m, body, d + k), body[(d + k) + 1])
    BY <1>0, <2>1, CodeNext
  <2>3. Good(k)
    BY <1>0, <2>1
  <2>4. /\ body[(d + k) + 1] \in CodeStep
        /\ CodeAfter(b, m, body, d + k) \in Machine
        /\ ~CodeAfter(b, m, body, d + k).gone
    BY <2>1, CodeAfterType
  <2>5. /\ CodeAfter(b, m, body, d + k).ran \subseteq CodeAfter(b, m, body, (d + k) + 1).ran
        /\ CodeAfter(b, m, body, d + k).seen \subseteq CodeAfter(b, m, body, (d + k) + 1).seen
    BY <2>2, <2>4, CodeSteppedType
  <2> QED
    BY <2>1, <2>3, <2>5
<1>3. S \in SUBSET Nat
  OBVIOUS
<1> HIDE DEF S
<1>4. Len(body) - d \in S
  BY <1>0, <1>1, <1>2, <1>3, Induction
<1>5. d + (Len(body) - d) = Len(body)
  BY <1>0
<1> QED
  BY <1>0, <1>4, <1>5 DEF S

-----------------------------------------------------------------------------
(* A frame in Python, from whatever memory, leaves a machine.              *)
LEMMA BegunType ==
    ASSUME NEW r \in [Cells -> Byte], NEW c \in Byte, NEW a \in Byte
    PROVE  Begun(r, c, a) \in Machine /\ ~Begun(r, c, a).gone
  BY DEF Begun, Machine

LEMMA FrameType ==
    ASSUME NEW b, IsBuild(b), NEW p \in Plays, NEW r \in [Cells -> Byte],
           NEW c \in Byte, NEW a \in Byte
    PROVE  Frame(b, p, r, c, a) \in Machine
<1>1. CASE p = Entry
  BY <1>1, BegunType, RanType, TuneAssumption DEF Frame
<1>2. CASE p # Entry
  <2>1. Code[p] \in Seq(CodeStep)
    BY TuneAssumption
  <2>2. Len(Code[p]) \in 0..Len(Code[p])
    BY <2>1
  <2> QED
    BY <1>2, <2>1, <2>2, BegunType, CodeAfterType DEF Frame
<1> QED
  BY <1>1, <1>2

-----------------------------------------------------------------------------
(* Landing a store.                                                        *)

(* The table Routes::new is given lands every byte where                   *)
(* SpecPlayer._store lands it.                                              *)
THEOREM RoutesAgree ==
    ASSUME NEW b, IsBuild(b), NEW a \in Cells, NEW v \in Byte
    PROVE  LET l == Landing(b, a, v)
               c == Applied(Table(b), a, v)
           IN IF l.to = Nowhere THEN c.to = Nowhere ELSE c = l
<1> DEFINE t == Table(b)
           r == RouteOf(b, a)
<1>1. /\ t.ghost = b.ghost
      /\ DOMAIN t.routes = DOMAIN b.routes \cup DOMAIN b.muted
      /\ a \in DOMAIN t.routes =>
           t.routes[a] =
             IF Silent(b, a) \/ r.to = Nowhere
             THEN [to |-> Nowhere, keep |-> {}, force |-> {}]
             ELSE IF Muted(b, a)
             THEN [to |-> r.to, keep |-> {}, force |-> (Gate \cap r.keep) \cup r.force]
             ELSE r
  BY DEF Table
<1> HIDE DEF t
<1>2. Ghosted(b.ghost, Nowhere) = Nowhere
  BY DEF Ghosted, Nowhere, Sid
<1>3. CASE a \notin DOMAIN t.routes
  <2>1. r = Straight(a) /\ ~Silent(b, a) /\ ~Muted(b, a)
    BY <1>1, <1>3 DEF RouteOf, Silent, Muted
  <2> QED
    BY <1>1, <1>3, <2>1 DEF Landing, Applied, t
<1>4. CASE a \in DOMAIN t.routes /\ (Silent(b, a) \/ r.to = Nowhere)
  <2>1. Applied(t, a, v).to = Nowhere
    BY <1>1, <1>2, <1>4 DEF Applied
  <2>2. Landing(b, a, v).to = Nowhere
    BY <1>2, <1>4 DEF Landing
  <2> QED
    BY <2>1, <2>2 DEF t
<1>5. CASE a \in DOMAIN t.routes /\ ~Silent(b, a) /\ r.to # Nowhere
  <2>1. CASE Muted(b, a)
    <3>1. t.routes[a] =
            [to |-> r.to, keep |-> {}, force |-> (Gate \cap r.keep) \cup r.force]
      BY <1>1, <1>5, <2>1
    <3>2. Applied(t, a, v) = [to |-> Ghosted(b.ghost, r.to),
                              byte |-> (Gate \cap r.keep) \cup r.force]
      BY <1>1, <1>5, <3>1 DEF Applied
    <3>3. Landing(b, a, v) = [to |-> Ghosted(b.ghost, r.to),
                              byte |-> (Gate \cap r.keep) \cup r.force]
      BY <1>5, <2>1 DEF Landing
    <3> QED
      BY <3>2, <3>3 DEF t
  <2>2. CASE ~Muted(b, a)
    <3>1. t.routes[a] = r
      BY <1>1, <1>5, <2>2
    <3> QED
      BY <1>1, <1>5, <2>2, <3>1 DEF Landing, Applied, t
  <2> QED
    BY <2>1, <2>2
<1> QED
  BY <1>3, <1>4, <1>5

(* The table of a build is a table,                                        *)
LEMMA TableType ==
    ASSUME NEW b, IsBuild(b)
    PROVE  /\ Table(b).ghost \in BOOLEAN /\ DOMAIN Table(b).routes \subseteq Cells
           /\ \A a \in DOMAIN Table(b).routes : Table(b).routes[a] \in Route
<1> USE DEF IsBuild, Table, Route, RouteOf, Straight, Nowhere
<1>1. Gate \in Byte /\ Bits \in Byte /\ {} \in Byte
  BY TuneAssumption DEF Byte
<1>2. Table(b).ghost \in BOOLEAN /\ DOMAIN Table(b).routes \subseteq Cells
  OBVIOUS
<1>3. ASSUME NEW a \in DOMAIN Table(b).routes
      PROVE  Table(b).routes[a] \in Route
  <2>1. a \in Cells
    BY <1>2, <1>3
  <2>2. RouteOf(b, a) \in Route
    BY <1>1, <2>1
  <2>3. (Gate \cap RouteOf(b, a).keep) \cup RouteOf(b, a).force \in Byte
    BY <1>1, <2>2 DEF Byte
  <2> QED
    BY <1>1, <1>3, <2>1, <2>2, <2>3
<1> QED
  BY <1>2, <1>3

(* and lands a byte in a cell, or nowhere.                                 *)
LEMMA AppliedType ==
    ASSUME NEW t, t.ghost \in BOOLEAN, DOMAIN t.routes \subseteq Cells,
           \A a \in DOMAIN t.routes : t.routes[a] \in Route,
           NEW a \in Cells, NEW v \in Byte
    PROVE  Applied(t, a, v) \in [to : Cells \cup {Nowhere}, byte : Byte]
<1> DEFINE r == IF a \in DOMAIN t.routes THEN t.routes[a] ELSE Straight(a)
<1>1. r \in Route
  BY DEF Route, Straight, Byte
<1>2. (v \cap r.keep) \cup r.force \in Byte
  BY <1>1 DEF Route, Byte
<1>3. Ghosted(t.ghost, r.to) \in Cells \cup {Nowhere}
  BY <1>1 DEF Route, Ghosted, Sid, Copy, Cells
<1> QED
  BY <1>2, <1>3 DEF Applied

-----------------------------------------------------------------------------
(* The log.                                                                *)

(* Every byte the log has a value of has a first one.                      *)
Ordered(l) ==
    \A a \in Cells : Logged(l, a) # {} =>
        \E n \in Logged(l, a) : \A m \in Logged(l, a) : n <= m

(* First is that one.                                                      *)
LEMMA FirstIs ==
    ASSUME NEW l \in Seq(LogEntry), NEW a, NEW n \in Logged(l, a),
           \A m \in Logged(l, a) : n <= m
    PROVE  First(l, a) = n
<1>1. Logged(l, a) \subseteq Nat
  BY DEF Logged
<1>2. /\ First(l, a) \in Logged(l, a)
      /\ \A m \in Logged(l, a) : First(l, a) <= m
  BY DEF First
<1> QED
  BY <1>1, <1>2

Logs(l, r, k, s, a, v) ==
    /\ k = Append(l, [cell |-> a, old |-> r[a]])
    /\ s = [r EXCEPT ![a] = v]

(* A store that logs the old value of its byte leaves the log giving the   *)
(* same memory back.                                                        *)
LEMMA LoggedStore ==
    ASSUME NEW l \in Seq(LogEntry), Ordered(l), NEW r \in [Cells -> Byte],
           NEW a \in Cells, NEW v, NEW k, NEW s,
           Logs(l, r, k, s, a, v)
    PROVE  Ordered(k) /\ Undoing(k, s) = Undoing(l, r)
<1>1. /\ s = [r EXCEPT ![a] = v] /\ k \in Seq(LogEntry) /\ Len(k) = Len(l) + 1 /\ Len(l) \in Nat
      /\ DOMAIN l = 1..Len(l) /\ DOMAIN k = 1..(Len(l) + 1)
      /\ \A n \in DOMAIN l : k[n] = l[n]
      /\ k[Len(l) + 1] = [cell |-> a, old |-> r[a]]
  BY DEF LogEntry, Logs
<1>2. ASSUME NEW c \in Cells, Logged(l, c) # {}
      PROVE  /\ First(k, c) = First(l, c) /\ First(l, c) \in DOMAIN l
             /\ First(l, c) \in Logged(k, c)
             /\ \A m \in Logged(k, c) : First(l, c) <= m
  <2>1. PICK n \in Logged(l, c) : \A m \in Logged(l, c) : n <= m
    BY <1>2 DEF Ordered
  <2>2. n \in Logged(k, c) /\ \A m \in Logged(k, c) : n <= m
    BY <1>1, <2>1 DEF Logged
  <2>3. First(l, c) = n /\ First(k, c) = n
    BY <1>1, <2>1, <2>2, FirstIs
  <2> QED
    BY <2>1, <2>2, <2>3 DEF Logged
<1>3. ASSUME NEW c \in Cells, Logged(l, c) = {}
      PROVE  Logged(k, c) = IF c = a THEN {Len(l) + 1} ELSE {}
  BY <1>1, <1>3 DEF Logged
<1>4. ASSUME Logged(l, a) = {}
      PROVE  First(k, a) = Len(l) + 1
  <2>1. Len(l) + 1 \in Logged(k, a) /\ \A m \in Logged(k, a) : Len(l) + 1 <= m
    BY <1>1, <1>3, <1>4
  <2> QED
    BY <1>1, <2>1, FirstIs
<1>5. Ordered(k)
  <2> SUFFICES ASSUME NEW c \in Cells, Logged(k, c) # {}
               PROVE  \E n \in Logged(k, c) : \A m \in Logged(k, c) : n <= m
    BY DEF Ordered
  <2>1. CASE Logged(l, c) # {}
    BY <1>2, <2>1
  <2>2. CASE Logged(l, c) = {}
    BY <1>1, <1>3, <2>2
  <2> QED
    BY <2>1, <2>2
<1>6. ASSUME NEW c \in Cells
      PROVE  Undoing(k, s)[c] = Undoing(l, r)[c]
  <2>1. CASE Logged(l, c) # {}
    BY <1>1, <1>2, <2>1 DEF Undoing
  <2>2. CASE Logged(l, c) = {} /\ c = a
    <3>1. First(k, a) = Len(l) + 1 /\ Logged(k, a) = {Len(l) + 1}
      BY <1>3, <1>4, <2>2
    <3>3. Logged(k, a) # {} /\ k[First(k, a)].old = r[a]
      BY <1>1, <3>1
    <3>2. Undoing(k, s)[a] = r[a] /\ Undoing(l, r)[a] = r[a]
      BY <2>2, <3>3 DEF Undoing
    <3> QED
      BY <2>2, <3>2
  <2>3. CASE Logged(l, c) = {} /\ c # a
    BY <1>1, <1>3, <2>3 DEF Undoing
  <2> QED
    BY <2>1, <2>2, <2>3
<1>7. Undoing(k, s) = Undoing(l, r)
  BY <1>6 DEF Undoing
<1> QED
  BY <1>5, <1>7

(* So does giving the last store of the log back.                          *)
LEMMA UndoneStore ==
    ASSUME NEW l \in Seq(LogEntry), Ordered(l), l # <<>>, NEW r \in [Cells -> Byte]
    PROVE  LET k == SubSeq(l, 1, Len(l) - 1)
               s == [r EXCEPT ![l[Len(l)].cell] = l[Len(l)].old]
           IN Ordered(k) /\ Undoing(k, s) = Undoing(l, r)
<1> DEFINE k == SubSeq(l, 1, Len(l) - 1)
           e == l[Len(l)]
           s == [r EXCEPT ![e.cell] = e.old]
<1>1. /\ k \in Seq(LogEntry) /\ Len(l) \in Nat \ {0}
      /\ DOMAIN l = 1..Len(l) /\ DOMAIN k = 1..(Len(l) - 1)
      /\ \A n \in DOMAIN k : k[n] = l[n]
  OBVIOUS
<1>0. e \in LogEntry
  BY <1>1
<1> HIDE DEF k
<1>8. e.cell \in Cells
  BY <1>0 DEF LogEntry
<1>2. ASSUME NEW c \in Cells, Logged(k, c) # {}
      PROVE  /\ First(k, c) = First(l, c) /\ First(l, c) \in DOMAIN k
             /\ First(l, c) \in Logged(k, c)
             /\ \A m \in Logged(k, c) : First(l, c) <= m
             /\ Logged(l, c) # {}
  <2>1. Logged(k, c) \subseteq Logged(l, c)
    BY <1>1 DEF Logged
  <2>2. PICK n \in Logged(l, c) : \A m \in Logged(l, c) : n <= m
    BY <1>2, <2>1 DEF Ordered
  <2>3. PICK o \in Logged(k, c) : TRUE
    BY <1>2
  <2>4. n \in Nat /\ o \in 1..(Len(l) - 1) /\ n <= o /\ n >= 1
    BY <1>1, <2>1, <2>2, <2>3 DEF Logged
  <2>5. n \in Logged(k, c) /\ \A m \in Logged(k, c) : n <= m
    BY <1>1, <2>1, <2>2, <2>4 DEF Logged
  <2>6. First(l, c) = n /\ First(k, c) = n
    BY <1>1, <2>2, <2>5, FirstIs
  <2> QED
    BY <2>2, <2>5, <2>6 DEF Logged
<1>3. ASSUME NEW c \in Cells, Logged(k, c) = {}
      PROVE  Logged(l, c) = IF c = e.cell THEN {Len(l)} ELSE {}
  BY <1>1, <1>3 DEF Logged
<1>4. ASSUME Logged(k, e.cell) = {}
      PROVE  First(l, e.cell) = Len(l) /\ Logged(l, e.cell) # {}
  <2>1. Len(l) \in Logged(l, e.cell) /\ \A m \in Logged(l, e.cell) : Len(l) <= m
    BY <1>1, <1>3, <1>4, <1>8
  <2> QED
    BY <1>1, <2>1, FirstIs
<1>5. Ordered(k)
  BY <1>2 DEF Ordered
<1>6. ASSUME NEW c \in Cells
      PROVE  Undoing(k, s)[c] = Undoing(l, r)[c]
  <2>1. CASE Logged(k, c) # {}
    BY <1>1, <1>2, <2>1 DEF Undoing
  <2>2. CASE Logged(k, c) = {} /\ c = e.cell
    BY <1>1, <1>4, <1>8, <2>2 DEF Undoing
  <2>3. CASE Logged(k, c) = {} /\ c # e.cell
    BY <1>1, <1>3, <2>3 DEF Undoing
  <2> QED
    BY <2>1, <2>2, <2>3
<1>7. Undoing(k, s) = Undoing(l, r)
  BY <1>6 DEF Undoing
<1> QED
  BY <1>5, <1>7 DEF k
-----------------------------------------------------------------------------
(* The invariant: the frames of a call add up; every logged byte has a      *)
(* first value; and the core keeps the writes of a frame that ended.        *)
Counts ==
    /\ frames + want <= MaxFrames
    /\ pc \in {"machine", "python"} => want >= 1
    /\ InRun => played + left <= want
    /\ ~InRun => played = 0
    /\ InFrame => left >= 1
    /\ pc \in {"frame", "code", "enter", "spec"} => status = "ok"
    /\ pc = "undo" => status # "ok"
    /\ pc = "return" /\ status # "ok" => left >= 1

Kept ==
    /\ LastReported
    /\ pc = "frame" => played + left >= 1
    /\ pc = "return" /\ status = "ok" => left = 0 /\ played >= 1
    /\ \/ pc = "frame" /\ played > 0
       \/ pc = "return" /\ status = "ok"
       => sid = last[2] /\ calls = last[3]

IInv == TypeOK /\ Counts /\ Ordered(log) /\ Kept

Places == {"idle", "machine", "python", "frame", "code", "enter", "spec", "undo",
           "return"}

(* Each step of a routine, and of a spec, is one.                          *)
LEMMA StepTypes == CodeSteps \subseteq CodeStep /\ SpecSteps \subseteq SpecStep
<1>1. CodeSteps \subseteq CodeStep
  <2>1. ASSUME NEW p \in Plays, NEW n \in DOMAIN Code[p]
        PROVE  Code[p][n] \in CodeStep
    <3>1. Code[p] \in Seq(CodeStep)
      BY TuneAssumption
    <3> QED
      BY <2>1, <3>1
  <2> QED
    BY <2>1 DEF CodeSteps
<1>2. SpecSteps \subseteq SpecStep
  <2>1. ASSUME NEW b \in Settings, NEW e \in Entries, NEW n \in DOMAIN Program[b][e]
        PROVE  Program[b][e][n] \in SpecStep
    <3>1. Program[b][e] \in Seq(SpecStep)
      BY TuneAssumption
    <3> QED
      BY <2>1, <3>1
  <2> QED
    BY <2>1 DEF SpecSteps
<1> QED
  BY <1>1, <1>2

(* A store to a cell, or nowhere, keeps memory and log in type.            *)
LEMMA PutType ==
    ASSUME TypeOK, NEW a \in Cells, NEW v \in Byte, Put(a, v)
    PROVE  ram' \in [Cells -> Byte] /\ log' \in Seq(LogEntry)
<1>1. [cell |-> a, old |-> ram[a]] \in LogEntry
  BY DEF TypeOK, LogEntry
<1> QED
  BY <1>1 DEF TypeOK, Put

(* Where the play address and play_after are after a number of frames.     *)
LEMMA SwitchType ==
    ASSUME TypeOK, NEW n \in Nat
    PROVE  /\ PlayThen(play, after, n) \in Plays
           /\ AfterThen(after, n) \in [frames : 1..MaxFrames, play : Plays] \cup {Never}
  BY DEF TypeOK, PlayThen, AfterThen, Switches

(* The invariant holds at the start,                                       *)
LEMMA InitInv == Init => IInv
<1> SUFFICES ASSUME Init PROVE IInv
  OBVIOUS
<1>1. {} \in Byte /\ ram \in [Cells -> Byte] /\ Setting(ram) \in Settings
  BY NativeAssumption DEF Init, Byte, Setting, Settings
<1>2. IsBuild(Unrouted)
  BY DEF IsBuild, Unrouted
<1>6. /\ table.ghost \in BOOLEAN /\ DOMAIN table.routes \subseteq Cells
      /\ \A a \in DOMAIN table.routes : table.routes[a] \in Route
  <2>1. table = Table(Unrouted)
    BY DEF Init
  <2> QED
    BY <1>2, <2>1, TableType
<1>7. log \in Seq(LogEntry) /\ saved \in [cpu : Byte, bits : Settings, store : Byte]
  BY <1>1 DEF Init
<1>3. TypeOK
  <2>1. Entry \in Entries /\ MaxFrames \in Nat
    BY TuneAssumption, NativeAssumption
  <2>2. /\ pc = "idle" /\ ctl \in Byte /\ acc \in Byte /\ bus \in Settings
        /\ build \in Builds \cup {Unrouted} /\ play \in Plays /\ frames \in 0..MaxFrames
        /\ after = Never
    BY <1>1, <2>1 DEF Init
  <2>3. /\ known \subseteq Settings /\ compiled \subseteq Settings \X Entries
        /\ bails \in Nat /\ native \in Nat /\ want \in 0..MaxFrames
    BY <1>1, <2>1 DEF Init
  <2>6. routed \in BOOLEAN /\ fast \in BOOLEAN
    BY DEF Init
  <2>4. /\ at \in Plays \cup {Nowhere} /\ bits \in Settings /\ cpu \in Byte
        /\ store \in Byte
        /\ banks \subseteq Settings /\ programs \subseteq Settings \X Entries
    BY <1>1, <2>1 DEF Init
  <2>5. /\ left \in 0..MaxFrames /\ played \in 0..MaxFrames /\ status \in Statuses
        /\ i \in Nat /\ cur \in Entries /\ j \in Nat /\ kept \in Byte
    BY <1>1, <2>1 DEF Init, Statuses
  <2> QED
    BY <1>1, <1>6, <1>7, <2>2, <2>3, <2>4, <2>5, <2>6 DEF TypeOK
<1>4. Counts /\ Kept
  BY NativeAssumption DEF Init, Counts, Kept, InFrame, InRun, LastReported
<1>5. Ordered(log)
  BY DEF Init, Ordered, Logged
<1> QED
  BY <1>3, <1>4, <1>5 DEF IInv

(* Every step keeps the types:                                             *)
LEMMA UserType == ASSUME TypeOK, User PROVE TypeOK'
<1> USE NativeAssumption DEF TypeOK, machine, user, learned, heur, told, place, frame
<1>1. ASSUME NEW b \in Builds, Reroute(b) PROVE TypeOK'
  BY <1>1 DEF Reroute
<1>2. ASSUME NEW v \in States, SetState(v) PROVE TypeOK'
  BY <1>2 DEF SetState
<1>3. ASSUME NEW n \in 1..MaxFrames, NEW p \in Plays, PlayAfter(n, p) PROVE TypeOK'
  BY <1>3 DEF PlayAfter
<1>4. ASSUME NEW n \in 1..MaxFrames, Render(n) PROVE TypeOK'
  BY <1>4 DEF Render
<1> QED
  BY <1>1, <1>2, <1>3, <1>4 DEF User

LEMMA RunCodeType == ASSUME TypeOK, RunCode PROVE TypeOK'
<1> PICK step \in CodeSteps :
      Poke(step) \/ Peek(step) \/ Ask(step) \/ Bank(step) \/ CallOwn(step) \/ Call(step)
  BY DEF RunCode
<1>0. step \in CodeStep
  BY StepTypes
<1> USE DEF TypeOK, machine, user, learned, heur, told, place, frame, Python, Core, Do,
            Bail, Statuses
<1>1. CASE Poke(step)
  BY <1>0, <1>1, PutType DEF Poke, CodeStep
<1>2. CASE Peek(step)
  BY <1>0, <1>2 DEF Peek, CodeStep
<1>3. CASE Ask(step)
  BY <1>3 DEF Ask
<1>4. CASE Bank(step)
  <2>1. step.put \in Byte /\ step.put \cap PortBits \in Settings
    BY <1>0, <1>4 DEF Bank, CodeStep, Settings
  <2>2. Put(Port, step.put) /\ Port \in Cells
    BY <1>4 DEF Bank, Port, Cells
  <2>3. ram' \in [Cells -> Byte] /\ log' \in Seq(LogEntry)
    BY <2>1, <2>2, PutType
  <2>4. bits' \in Settings /\ i' \in Nat /\ pc' \in {"code", "undo"} /\ status' \in Statuses
    <3>1. \/ bits' = step.put \cap PortBits /\ i' = i + 1 /\ pc' = pc /\ status' = status
          \/ pc' = "undo" /\ status' = "need" /\ bits' = bits /\ i' = i
      BY <1>4 DEF Bank
    <3>2. pc = "code" /\ i \in Nat /\ bits \in Settings /\ status \in Statuses
      BY <1>4 DEF Bank
    <3>3. i' \in Nat
      BY <3>1, <3>2
    <3>4. bits' \in Settings
      BY <2>1, <3>1, <3>2
    <3> QED
      BY <3>1, <3>2, <3>3, <3>4
  <2>5. UNCHANGED <<ctl, acc, bus, user, learned, heur, want, writes, entered, told, left,
                    played, last, cpu, store, sid, calls, saved, cur, j, kept>>
    BY <1>4 DEF Bank
  <2> QED
    BY <2>3, <2>4, <2>5
<1>5. CASE CallOwn(step)
  <2>1. step.to \in Entries
    BY <1>0, <1>5 DEF CallOwn, CodeStep
  <2>2. Own[step.to] \in Cells
    BY <2>1, TuneAssumption
  <2>3. ram' \in [Cells -> Byte] /\ log' \in Seq(LogEntry)
    BY <1>5, <2>2, PutType DEF CallOwn
  <2> QED
    BY <1>5, <2>3 DEF CallOwn
<1>6. CASE Call(step)
  BY <1>0, <1>6 DEF Call, CodeStep
<1> QED
  BY <1>1, <1>2, <1>3, <1>4, <1>5, <1>6

LEMMA RunSpecType == ASSUME TypeOK, RunSpec PROVE TypeOK'
<1> PICK step \in SpecSteps :
      CountState(step) \/ Load(step) \/ Store(step) \/ AskSpec(step) \/ RunNative(step)
  BY DEF RunSpec
<1>0. step \in SpecStep
  BY StepTypes
<1> USE DEF TypeOK, machine, user, learned, heur, told, place, frame, Python, Core, Does,
            Bail, Statuses
<1>1. CASE CountState(step)
  <2>1. Count[store] \in Byte
    BY TuneAssumption
  <2> QED
    BY <1>1, <2>1 DEF CountState
<1>2. CASE Load(step)
  BY <1>0, <1>2 DEF Load, SpecStep
<1>3. CASE Store(step)
  <2> DEFINE l == Applied(table, step.at, store)
  <2>1. l \in [to : Cells \cup {Nowhere}, byte : Byte]
    <3>1. step.at \in Cells
      BY <1>0, <1>3 DEF Store, SpecStep
    <3> QED
      BY <3>1, AppliedType
  <2> HIDE DEF l
  <2>2. \/ ram' = ram /\ log' = log
        \/ l.to \in Cells /\ Put(l.to, l.byte)
    BY <1>3, <2>1 DEF Store, l
  <2>3. ram' \in [Cells -> Byte] /\ log' \in Seq(LogEntry)
    BY <2>1, <2>2, PutType
  <2> QED
    BY <1>3, <2>3 DEF Store
<1>4. CASE AskSpec(step)
  BY <1>4 DEF AskSpec
<1>5. CASE RunNative(step)
  <2>1. step.at \in Cells
    BY <1>0, <1>5 DEF RunNative, SpecStep
  <2>2. ram' \in [Cells -> Byte] /\ log' \in Seq(LogEntry)
    BY <1>5, <2>1, PutType DEF RunNative
  <2> QED
    BY <1>5, <2>2 DEF RunNative
<1> QED
  BY <1>1, <1>2, <1>3, <1>4, <1>5

LEMMA CoreType ==
    ASSUME TypeOK, Counts,
           BeginFrame \/ EndRun \/ EndFrame \/ EnterSpec \/ EndSpec \/ UndoStore \/ Undone
    PROVE  TypeOK'
<1> USE DEF TypeOK, machine, user, learned, heur, told, place, frame, Python, Core,
            Bail, Statuses
<1>1. CASE BeginFrame
  <2>1. Entry \in Entries
    BY TuneAssumption
  <2>2. /\ log' \in Seq(LogEntry)
        /\ saved' \in [cpu : Byte, bits : Settings, store : Byte]
    BY <1>1 DEF BeginFrame
  <2> QED
    BY <1>1, <2>1, <2>2 DEF BeginFrame
<1>2. CASE EndRun
  BY <1>2 DEF EndRun
<1>3. CASE EndFrame
  BY <1>3, NativeAssumption DEF EndFrame, Counts, InRun, InFrame
<1>4. CASE EnterSpec
  <2>1. ram' \in [Cells -> Byte] /\ log' \in Seq(LogEntry)
    <3>1. Sid \in Cells /\ ram[Copy] \in Byte
      BY DEF Sid, Copy, Cells
    <3> QED
      BY <1>4, <3>1, PutType DEF EnterSpec
  <2> QED
    BY <1>4, <2>1 DEF EnterSpec
<1>5. CASE EndSpec
  BY <1>5 DEF EndSpec
<1>6. CASE UndoStore
  <2>1. /\ log[Len(log)] \in LogEntry
        /\ SubSeq(log, 1, Len(log) - 1) \in Seq(LogEntry)
    BY <1>6 DEF UndoStore
  <2>2. ram' \in [Cells -> Byte] /\ log' \in Seq(LogEntry)
    BY <1>6, <2>1 DEF UndoStore, LogEntry
  <2> QED
    BY <1>6, <2>2 DEF UndoStore
<1>7. CASE Undone
  BY <1>7 DEF Undone
<1> QED
  BY <1>1, <1>2, <1>3, <1>4, <1>5, <1>6, <1>7

(* What the player is routed by is a build.                                *)
LEMMA BuildType == ASSUME TypeOK PROVE IsBuild(build)
<1>1. IsBuild(Unrouted)
  BY DEF IsBuild, Unrouted
<1> QED
  BY <1>1, NativeAssumption DEF TypeOK

LEMMA AdvanceType ==
    ASSUME TypeOK, Counts, Prepare \/ Return \/ PlayPython
    PROVE  TypeOK'
<1> USE DEF TypeOK, machine, user, learned, heur, told, place, frame, Statuses
<1>1. CASE Prepare
  <2>1. /\ table'.ghost \in BOOLEAN /\ DOMAIN table'.routes \subseteq Cells
        /\ \A a \in DOMAIN table'.routes : table'.routes[a] \in Route
    BY <1>1, BuildType, TableType DEF Prepare
  <2>2. LimitOf(want) \in 0..MaxFrames
    BY NativeAssumption DEF LimitOf
  <2>3. routed' \in BOOLEAN
    BY <1>1 DEF Prepare
  <2> QED
    BY <1>1, <2>1, <2>2, <2>3, NativeAssumption DEF Prepare, Registered
<1>2. CASE Return
  <2>1. fast' \in BOOLEAN
    BY <1>2 DEF Return
  <2>2. Setting(ram) \in Settings
    BY DEF Setting, Settings
  <2>3. /\ frames' \in 0..MaxFrames /\ want' \in 0..MaxFrames /\ played' = 0
        /\ bails' \in Nat /\ native' \in Nat
    BY <1>2, NativeAssumption DEF Return, Counts, InRun, InFrame
  <2>4. /\ play' \in Plays
        /\ after' \in [frames : 1..MaxFrames, play : Plays] \cup {Never}
    BY <1>2, <2>3, SwitchType DEF Return
  <2> QED
    BY <1>2, <2>1, <2>2, <2>3, <2>4, NativeAssumption DEF Return
<1>3. CASE PlayPython
  <2> DEFINE m == Frame(build, play, ram, ctl, acc)
  <2>1. m \in Machine
    BY BuildType, FrameType
  <2> HIDE DEF m
  <2>2. /\ m.ram \in [Cells -> Byte] /\ m.ctl \in Byte /\ m.acc \in Byte
        /\ m.seen \subseteq Settings /\ m.ran \subseteq Settings \X Entries
        /\ Setting(m.ram) \in Settings
    BY <2>1 DEF Machine, Setting, Settings
  <2>3. frames' \in 0..MaxFrames /\ want' \in 0..MaxFrames
    BY <1>3, NativeAssumption DEF PlayPython, Counts
  <2>4. /\ play' \in Plays
        /\ after' \in [frames : 1..MaxFrames, play : Plays] \cup {Never}
    BY <1>3, <2>3, SwitchType DEF PlayPython
  <2>5. /\ ram' = m.ram /\ ctl' = m.ctl /\ acc' = m.acc /\ bus' = Setting(m.ram)
        /\ known' = known \cup m.seen /\ compiled' = compiled \cup m.ran
        /\ pc' \in {"idle", "machine", "python"}
        /\ UNCHANGED <<build, routed, heur, told, bits, cpu, store, frame, left, played,
                       status, place>>
    BY <1>3 DEF PlayPython, m
  <2> QED
    BY <2>2, <2>3, <2>4, <2>5
<1> QED
  BY <1>1, <1>2, <1>3

LEMMA NextType == ASSUME TypeOK, Counts, [Next]_vars PROVE TypeOK'
<1>1. CASE Advance
  BY <1>1, AdvanceType, CoreType, RunCodeType, RunSpecType DEF Advance
<1>2. CASE User
  BY <1>2, UserType
<1>3. CASE UNCHANGED vars
  BY <1>3 DEF vars, machine, user, learned, heur, told, place, frame, TypeOK
<1> QED
  BY <1>1, <1>2, <1>3 DEF Next, Finished

(* the frames add up,                                                      *)
LEMMA NextCounts == ASSUME TypeOK, Counts, [Next]_vars PROVE Counts'
<1> USE NativeAssumption
    DEF TypeOK, Counts, InFrame, InRun, machine, user, learned, heur, told, place, frame,
        Python, Core
<1>1. CASE User
  BY <1>1 DEF User, Reroute, SetState, PlayAfter, Render
<1>2. CASE Prepare
  <2>1. LimitOf(want) <= want /\ LimitOf(want) \in Int
    BY DEF LimitOf
  <2> QED
    BY <1>2, <2>1 DEF Prepare
<1>3. CASE Return
  BY <1>3 DEF Return
<1>4. CASE PlayPython
  BY <1>4 DEF PlayPython
<1>5. CASE BeginFrame \/ EndRun \/ EndFrame
  BY <1>5 DEF BeginFrame, EndRun, EndFrame
<1>6. CASE RunCode
  BY <1>6 DEF RunCode, Poke, Peek, Ask, Bank, CallOwn, Call, Do, Bail
<1>7. CASE EnterSpec \/ EndSpec
  BY <1>7 DEF EnterSpec, EndSpec, Bail
<1>8. CASE RunSpec
  BY <1>8 DEF RunSpec, CountState, Load, Store, AskSpec, RunNative, Does, Bail
<1>9. CASE UndoStore \/ Undone
  BY <1>9 DEF UndoStore, Undone
<1>10. CASE UNCHANGED vars
  BY <1>10 DEF vars
<1> QED
  BY <1>1, <1>2, <1>3, <1>4, <1>5, <1>6, <1>7, <1>8, <1>9, <1>10 DEF Next, Advance, Finished

(* the writes of a frame that ended are kept,                              *)
LEMMA NextKept == ASSUME TypeOK, Counts, Kept, [Next]_vars PROVE Kept'
<1> USE NativeAssumption
    DEF TypeOK, Counts, Kept, LastReported, InFrame, InRun, machine, user, learned, heur,
        told, place, frame, Python, Core
<1>1. CASE User
  BY <1>1 DEF User, Reroute, SetState, PlayAfter, Render
<1>2. CASE Prepare
  <2>1. LimitOf(want) >= 1 /\ LimitOf(want) \in Int
    BY <1>2 DEF LimitOf, Prepare
  <2> QED
    BY <1>2, <2>1 DEF Prepare
<1>3. CASE Return
  BY <1>3 DEF Return
<1>4. CASE PlayPython
  BY <1>4 DEF PlayPython
<1>5. CASE BeginFrame \/ EndRun \/ EndFrame
  BY <1>5 DEF BeginFrame, EndRun, EndFrame
<1>6. CASE RunCode
  BY <1>6 DEF RunCode, Poke, Peek, Ask, Bank, CallOwn, Call, Do, Bail
<1>7. CASE EnterSpec \/ EndSpec
  BY <1>7 DEF EnterSpec, EndSpec, Bail
<1>8. CASE RunSpec
  BY <1>8 DEF RunSpec, CountState, Load, Store, AskSpec, RunNative, Does, Bail
<1>9. CASE UndoStore \/ Undone
  BY <1>9 DEF UndoStore, Undone
<1>10. CASE UNCHANGED vars
  BY <1>10 DEF vars
<1> QED
  BY <1>1, <1>2, <1>3, <1>4, <1>5, <1>6, <1>7, <1>8, <1>9, <1>10 DEF Next, Advance, Finished

(* the log keeps a first value of every byte it has, and undoing it leaves   *)
(* the same memory before and after a step of a frame.                      *)
LEMMA NextLog ==
    ASSUME TypeOK, Ordered(log), [Next]_vars
    PROVE  /\ Ordered(log)'
           /\ InFrame /\ pc' \in {"enter", "code", "spec", "undo"} => Base' = Base
<1> DEFINE Goal == /\ Ordered(log)'
                   /\ InFrame /\ pc' \in {"enter", "code", "spec", "undo"} => Base' = Base
<1>1. CASE log' = log /\ ram' = ram
  BY <1>1 DEF Ordered, Base, Undoing, Logged, First
<1>2. CASE \E a \in Cells, v \in Byte : Put(a, v)
  <2> PICK a \in Cells, v \in Byte : Put(a, v)
    BY <1>2
  <2>1. /\ log \in Seq(LogEntry) /\ ram \in [Cells -> Byte]
        /\ Logs(log, ram, log', ram', a, v)
    BY DEF TypeOK, Put, Logs
  <2>2. Ordered(log') /\ Undoing(log', ram') = Undoing(log, ram)
    BY <2>1, LoggedStore
  <2> QED
    BY <2>2 DEF Base, Ordered, Undoing, Logged, First
<1>3. CASE UndoStore
  <2>1. /\ log \in Seq(LogEntry) /\ log # <<>> /\ ram \in [Cells -> Byte]
        /\ log' = SubSeq(log, 1, Len(log) - 1)
        /\ ram' = [ram EXCEPT ![log[Len(log)].cell] = log[Len(log)].old]
    BY <1>3 DEF TypeOK, UndoStore
  <2>2. Ordered(log') /\ Undoing(log', ram') = Undoing(log, ram)
    BY <2>1, UndoneStore
  <2> QED
    BY <2>2 DEF Base, Ordered, Undoing, Logged, First
<1>4. CASE BeginFrame
  BY <1>4 DEF BeginFrame, InFrame, Ordered, Logged
<1>5. CASE PlayPython
  BY <1>5 DEF PlayPython, InFrame, frame, Ordered, Logged
<1>6. CASE RunCode
  <2> PICK step \in CodeSteps :
        Poke(step) \/ Peek(step) \/ Ask(step) \/ Bank(step) \/ CallOwn(step) \/ Call(step)
    BY <1>6 DEF RunCode
  <2>0. step \in CodeStep
    BY StepTypes
  <2>1. CASE Poke(step)
    BY <1>2, <2>0, <2>1 DEF Poke, Do, CodeStep, TypeOK
  <2>2. CASE Peek(step) \/ Ask(step) \/ Call(step)
    BY <1>1, <2>2 DEF Peek, Ask, Call, Python, machine, frame
  <2>3. CASE Bank(step)
    BY <1>2, <2>0, <2>3 DEF Bank, Do, CodeStep, Port, Cells
  <2>4. CASE CallOwn(step)
    <3>1. step.to \in Entries
      BY <2>0, <2>4 DEF CallOwn, Do, CodeStep
    <3>2. Own[step.to] \in Cells
      BY <3>1, TuneAssumption
    <3> QED
      BY <1>2, <2>4, <3>2 DEF CallOwn, TypeOK
  <2> QED
    BY <2>1, <2>2, <2>3, <2>4
<1>7. CASE EnterSpec
  <2>1. Sid \in Cells /\ Copy \in Cells
    BY DEF Sid, Copy, Cells
  <2> QED
    BY <1>1, <1>2, <1>7, <2>1 DEF EnterSpec, TypeOK
<1>8. CASE RunSpec
  <2> PICK step \in SpecSteps :
        CountState(step) \/ Load(step) \/ Store(step) \/ AskSpec(step) \/ RunNative(step)
    BY <1>8 DEF RunSpec
  <2>0. step \in SpecStep
    BY StepTypes
  <2>1. CASE CountState(step) \/ Load(step) \/ AskSpec(step)
    BY <1>1, <2>1 DEF CountState, Load, AskSpec, Python, machine, frame
  <2>2. CASE Store(step)
    <3> DEFINE l == Applied(table, step.at, store)
    <3>1. l \in [to : Cells \cup {Nowhere}, byte : Byte]
      <4>1. step.at \in Cells
        BY <2>0, <2>2 DEF Store, Does, SpecStep
      <4> QED
        BY <4>1, AppliedType DEF TypeOK
    <3> HIDE DEF l
    <3>2. \/ ram' = ram /\ log' = log
          \/ l.to \in Cells /\ Put(l.to, l.byte)
      BY <2>2, <3>1 DEF Store, l
    <3> QED
      BY <1>1, <1>2, <3>1, <3>2
  <2>3. CASE RunNative(step)
    <3>1. step.at \in Cells
      BY <2>0, <2>3 DEF RunNative, Does, SpecStep
    <3> QED
      BY <1>2, <2>3, <3>1 DEF RunNative, TypeOK
  <2> QED
    BY <2>1, <2>2, <2>3
<1>9. CASE User \/ Prepare \/ Return \/ EndRun \/ EndFrame \/ EndSpec \/ Undone \/ UNCHANGED vars
  BY <1>1, <1>9
  DEF User, Reroute, SetState, PlayAfter, Render, Prepare, Return, EndRun, EndFrame,
      EndSpec, Undone, Python, machine, frame, vars
<1> QED
  BY <1>3, <1>4, <1>5, <1>6, <1>7, <1>8, <1>9 DEF Next, Advance, Finished

LEMMA NextInv == IInv /\ [Next]_vars => IInv'
  BY NextType, NextCounts, NextKept, NextLog DEF IInv

-----------------------------------------------------------------------------
(* The invariant holds in every state.                                     *)
LEMMA Invariant == Spec => []IInv
<1> QED
  BY InitInv, NextInv, PTL DEF Spec

(* Every variable of the player and the core keeps its type: no run plays   *)
(* more frames than are left to play.                                       *)
THEOREM NativeTypes == Spec => []TypeOK
<1>1. IInv => TypeOK
  BY DEF IInv
<1> QED
  BY <1>1, Invariant, PTL

(* `writes` and `entered` are those of the last frame, whoever played it.  *)
THEOREM NativeReports == Spec => []LastReported
<1>1. IInv => LastReported
  BY DEF IInv, Kept
<1> QED
  BY <1>1, Invariant, PTL

(* However a frame goes, and wherever it is given up, its log gives every   *)
(* byte back.                                                               *)
THEOREM FramesAreUndone == Spec => Undoable
<1>1. IInv /\ [Next]_vars =>
        [InFrame /\ pc' \in {"enter", "code", "spec", "undo"} => Base' = Base]_vars
  BY NextLog DEF IInv
<1> QED
  BY <1>1, Invariant, PTL DEF Spec, Undoable


-----------------------------------------------------------------------------
(* The instance's frame is the frame: its definitions are those of TunePlay *)
(* once more, equal to them one by one.                                     *)

LEMMA SameSpecStepped ==
    ASSUME NEW b, NEW m, NEW s
    PROVE  Abstract!SpecStepped(b, m, s) = SpecStepped(b, m, s)
  BY DEF Abstract!SpecStepped, SpecStepped, Abstract!Stored, Stored, Abstract!Landing,
         Landing, Abstract!RouteOf, RouteOf, Abstract!Straight, Straight, Abstract!Muted,
         Muted, Abstract!Silent, Silent, Abstract!Ghosted, Ghosted, Abstract!Asks, Asks,
         Abstract!Sid, Sid, Abstract!Copy, Copy, Abstract!Nowhere, Nowhere

LEMMA SameSpecAfter ==
    ASSUME NEW b, NEW m, NEW s, NEW n
    PROVE  Abstract!SpecAfter(b, m, s, n) = SpecAfter(b, m, s, n)
  BY SameSpecStepped DEF SpecAfter, Abstract!SpecAfter

LEMMA SameRan ==
    ASSUME NEW b, NEW m, NEW e, NEW c
    PROVE  Abstract!Ran(b, m, e, c) = Ran(b, m, e, c)
<1>1. Abstract!Setting(m.ram) = Setting(m.ram)
  BY DEF Setting, Abstract!Setting, Port, Abstract!Port
<1>2. Abstract!Arrived(b, m, e) = Arrived(b, m, e)
  BY <1>1 DEF Arrived, Abstract!Arrived, Sid, Abstract!Sid, Copy, Abstract!Copy
<1>3. ASSUME NEW k, NEW s
      PROVE  Abstract!SpecAfter(b, k, s, Len(s)) = SpecAfter(b, k, s, Len(s))
  BY SameSpecAfter
<1> QED
  BY <1>1, <1>2, <1>3 DEF Ran, Abstract!Ran

LEMMA SameCodeStepped ==
    ASSUME NEW b, NEW m, NEW s
    PROVE  Abstract!CodeStepped(b, m, s) = CodeStepped(b, m, s)
<1>1. \A e : Abstract!Ran(b, m, e, TRUE) = Ran(b, m, e, TRUE)
  BY SameRan
<1> QED
  BY <1>1 DEF Abstract!CodeStepped, CodeStepped, Abstract!Asks, Asks, Abstract!Setting,
              Setting, Abstract!Port, Port

LEMMA SameCodeAfter ==
    ASSUME NEW b, NEW m, NEW s, NEW n
    PROVE  Abstract!CodeAfter(b, m, s, n) = CodeAfter(b, m, s, n)
  BY SameCodeStepped DEF CodeAfter, Abstract!CodeAfter

LEMMA SameFrame ==
    ASSUME NEW b, NEW p, NEW r, NEW c, NEW a
    PROVE  Abstract!Frame(b, p, r, c, a) = Frame(b, p, r, c, a)
  BY SameRan, SameCodeAfter DEF Abstract!Frame, Frame, Abstract!Begun, Begun

-----------------------------------------------------------------------------
(* The invariant.                                                          *)

(* What a frame in Python learns that is not known.                        *)
Missing(p, r, c, a) ==
    LET m == Frame(build, p, r, c, a)
    IN ~(m.seen \subseteq known) \/ ~(m.ran \subseteq compiled)

(* The machine the frame began with, and Python's before the step of the    *)
(* routine the core is at.                                                  *)
Start == Begun(Base, saved.store, saved.cpu)
Before == CodeAfter(build, Start, Code[at], i - 1)

(* The core is where Python's machine m is.                                *)
Alike(m) ==
    /\ m.ram = ram /\ m.ctl = store /\ m.acc = cpu
    /\ m.writes = sid /\ m.entered = calls /\ ~m.gone

(* The core has what _machine gives it, and runs under the memory's own     *)
(* setting; between calls no frame is wanted.                               *)
Settled ==
    /\ pc = "idle" => want = 0
    /\ ~InRun => bus = Setting(ram)
    /\ pc \in {"frame", "code", "enter", "spec"} => bits = Setting(ram) /\ bits \in banks
    /\ routed => table = Table(build)
    /\ InRun => routed /\ at = play /\ banks = known /\ programs = Registered(banks)

(* No run goes past the frame the play address changes at.                 *)
Due ==
    after # Never =>
      /\ after.frames > frames
      /\ InRun => frames + played + left <= after.frames

(* The spec the core is in, or about to enter, is the one the routine calls. *)
Entering ==
    IF at = Entry THEN i = 1 /\ cur = Entry
    ELSE /\ i \in 1..Len(Code[at])
         /\ Code[at][i].op = "call" /\ Code[at][i].to = cur
         /\ cur \in Modelled[Setting(Before.ram)]

Following ==
    /\ pc = "code" =>
         IF at = Entry THEN i > 0 /\ Alike(Ran(build, Start, Entry, FALSE))
         ELSE i \in 1..(Len(Code[at]) + 1) /\ Alike(Before)
    /\ pc = "enter" => Entering /\ Alike(Before)
    /\ pc = "spec" =>
         /\ Entering
         /\ Setting(Before.ram) = bits /\ kept = Before.acc
         /\ j \in 1..(Len(Body) + 1)
         /\ Alike(SpecAfter(build, Arrived(build, Before, cur), Body, j - 1))

(* A frame given up for what was not built has something to teach.         *)
Taught ==
    status = "need" =>
      /\ pc = "undo" => Missing(play, Base, saved.store, saved.cpu)
      /\ pc = "return" => Missing(play, ram, store, cpu)
      /\ pc = "python" /\ fast => Missing(play, ram, ctl, acc)

PlayInv == IInv /\ Settled /\ Due /\ Following /\ Taught

-----------------------------------------------------------------------------
(* Machines in the middle of a frame.                                      *)

(* Undoing an empty log changes nothing.                                   *)
LEMMA NothingUndone ==
    ASSUME NEW r \in [Cells -> Byte]
    PROVE  Undoing(<<>>, r) = r
<1>1. \A a : Logged(<<>>, a) = {}
  BY DEF Logged
<1> QED
  BY <1>1 DEF Undoing

(* The log gives a memory back.                                            *)
LEMMA UndoingType ==
    ASSUME NEW l \in Seq(LogEntry), Ordered(l), NEW r \in [Cells -> Byte]
    PROVE  Undoing(l, r) \in [Cells -> Byte]
<1>1. ASSUME NEW a \in Cells, Logged(l, a) # {}
      PROVE  l[First(l, a)].old \in Byte
  <2>1. PICK n \in Logged(l, a) : \A m \in Logged(l, a) : n <= m
    BY <1>1 DEF Ordered
  <2>2. First(l, a) = n
    BY <2>1, FirstIs
  <2>3. l[n] \in LogEntry
    BY DEF Logged
  <2> QED
    BY <2>2, <2>3 DEF LogEntry
<1> QED
  BY <1>1 DEF Undoing

(* What a frame begins on, and each machine of its routine, is one.        *)
LEMMA StartType ==
    ASSUME IInv
    PROVE  /\ Base \in [Cells -> Byte] /\ Start \in Machine /\ ~Start.gone
           /\ IsBuild(build)
<1>1. Base \in [Cells -> Byte]
  BY UndoingType DEF IInv, TypeOK, Base
<1>2. saved.store \in Byte /\ saved.cpu \in Byte
  BY DEF IInv, TypeOK
<1>3. Start \in Machine /\ ~Start.gone
  BY <1>1, <1>2, BegunType DEF Start
<1> QED
  BY <1>1, <1>3, BuildType DEF IInv

LEMMA CodeIs ==
    ASSUME NEW p \in Plays
    PROVE  Code[p] \in Seq(CodeStep) /\ Len(Code[p]) \in Nat
<1>1. Code[p] \in Seq(CodeStep)
  BY TuneAssumption
<1> QED
  BY <1>1

LEMMA BeforeType ==
    ASSUME IInv, at \in Plays, i \in 1..(Len(Code[at]) + 1)
    PROVE  Before \in Machine /\ ~Before.gone
<1>1. i - 1 \in 0..Len(Code[at])
  BY CodeIs
<1> QED
  BY <1>1, CodeIs, StartType, CodeAfterType DEF Before

(* A frame whose routine is not an entry is the machine after its last step. *)
LEMMA FrameOfCode ==
    ASSUME at # Entry
    PROVE  Frame(build, at, Base, saved.store, saved.cpu) =
             CodeAfter(build, Start, Code[at], Len(Code[at]))
  BY DEF Frame, Start

LEMMA FrameOfEntry ==
    Frame(build, Entry, Base, saved.store, saved.cpu) = Ran(build, Start, Entry, FALSE)
  BY DEF Frame, Start

(* A step inside a frame leaves what the frame began on as it is.          *)
LEMMA StartHeld ==
    ASSUME IInv, [Next]_vars, InFrame, pc' \in {"enter", "code", "spec", "undo"},
           saved' = saved
    PROVE  Base' = Base /\ Start' = Start
<1>1. Base' = Base
  BY NextLog DEF IInv
<1> QED
  BY <1>1 DEF Start

(* What each step of a routine makes of a machine, but for what it learns.  *)
Became(s, r, c, a, w, n) ==
    s.ram = r /\ s.ctl = c /\ s.acc = a /\ s.writes = w /\ s.entered = n /\ ~s.gone

LEMMA Poked ==
    ASSUME NEW b, NEW m \in Machine, ~m.gone, NEW step, step.op = "poke"
    PROVE  Became(CodeStepped(b, m, step),
                  [m.ram EXCEPT ![step.at] = m.acc], m.ctl, m.acc, m.writes, m.entered)
  BY DEF Became, CodeStepped, Machine

LEMMA Peeked ==
    ASSUME NEW b, NEW m \in Machine, ~m.gone, NEW step, step.op = "peek"
    PROVE  Became(CodeStepped(b, m, step),
                  m.ram, m.ctl, m.ram[step.at], m.writes, m.entered)
  BY DEF Became, CodeStepped, Machine

LEMMA Quiet ==
    ASSUME NEW b, NEW m \in Machine, ~m.gone, NEW step, step.op = "device",
           ~Asks(m.ram, step.at)
    PROVE  Became(CodeStepped(b, m, step), m.ram, m.ctl, m.acc, m.writes, m.entered)
  BY DEF Became, CodeStepped, Machine

LEMMA Banked ==
    ASSUME NEW b, NEW m \in Machine, ~m.gone, NEW step, step.op = "port"
    PROVE  Became(CodeStepped(b, m, step),
                  [m.ram EXCEPT ![Port] = step.put], m.ctl, m.acc, m.writes, m.entered)
  BY DEF Became, CodeStepped, Machine

LEMMA CalledOwn ==
    ASSUME NEW b, NEW m \in Machine, ~m.gone, NEW step, step.op = "call",
           step.to \notin Modelled[Setting(m.ram)]
    PROVE  Became(CodeStepped(b, m, step),
                  [m.ram EXCEPT ![Own[step.to]] = m.acc], m.ctl, m.acc, m.writes, m.entered)
  BY DEF Became, CodeStepped, Machine

LEMMA Called ==
    ASSUME NEW b, IsBuild(b), NEW m \in Machine, ~m.gone, NEW step \in CodeStep,
           step.op = "call", step.to \in Modelled[Setting(m.ram)]
    PROVE  LET n == Ran(b, m, step.to, TRUE) IN
           /\ Became(CodeStepped(b, m, step), n.ram, n.ctl, n.acc, n.writes, n.entered)
           /\ n.ran \subseteq CodeStepped(b, m, step).ran
<1>1. step.to \in Entries
  BY DEF CodeStep
<1>2. \A c : Ran(b, m, step.to, c) \in Machine /\ ~Ran(b, m, step.to, c).gone
  BY <1>1, RanType
<1> QED
  BY <1>2 DEF Became, CodeStepped, Machine

(* The core's step of a routine moves on to Python's machine after it.     *)
LEMMA CodeOn ==
    ASSUME IInv, [Next]_vars, Following, pc = "code", at \in Plays,
           i <= Len(Code[at]), i' = i + 1, pc' = "code",
           UNCHANGED <<build, at, saved>>
    PROVE  /\ at # Entry /\ Code[at][i] \in CodeStep
           /\ Before \in Machine /\ Alike(Before)
           /\ i' \in 1..(Len(Code[at]) + 1)
           /\ Before' = CodeStepped(build, Before, Code[at][i])
<1>1. at # Entry
  <2> SUFFICES ASSUME at = Entry PROVE FALSE
    OBVIOUS
  <2>1. i > 0 /\ i \in Nat
    BY DEF Following, IInv, TypeOK
  <2>2. Code[at] = <<>>
    BY TuneAssumption
  <2> QED
    BY <2>1, <2>2
<1>2. i \in 1..Len(Code[at]) /\ Alike(Before) /\ Len(Code[at]) \in Nat
  BY <1>1, CodeIs DEF Following
<1>3. Code[at][i] \in CodeStep
  BY <1>2, CodeIs
<1>4. Start' = Start
  BY StartHeld DEF InFrame
<1>5. i - 1 \in 0..(Len(Code[at]) - 1) /\ (i - 1) + 1 = i /\ i' - 1 = i
  BY <1>2
<1>6. CodeAfter(build, Start, Code[at], (i - 1) + 1) =
        CodeStepped(build, CodeAfter(build, Start, Code[at], i - 1), Code[at][(i - 1) + 1])
  BY <1>2, <1>5, CodeNext
<1>7. Before' = CodeStepped(build, Before, Code[at][i])
  BY <1>4, <1>5, <1>6 DEF Before
<1>8. Before \in Machine
  BY <1>2, BeforeType
<1> QED
  BY <1>1, <1>2, <1>3, <1>7, <1>8

(* In a run the core plays what the player would.                          *)
LEMMA AtPlays == ASSUME IInv, Settled, InRun PROVE at \in Plays
  BY DEF IInv, TypeOK, Settled

(* A frame's first step, and the end of a frame or a run.                  *)
LEMMA BeginFollows == ASSUME IInv, Settled, BeginFrame PROVE Following'
<1>1. /\ log' = <<>> /\ ram' = ram /\ ram \in [Cells -> Byte]
      /\ saved'.store = store' /\ saved'.cpu = cpu' /\ sid' = <<>> /\ calls' = <<>>
      /\ i' = 1 /\ cur' = Entry /\ pc' = IF at = Entry THEN "enter" ELSE "code"
      /\ at' = at /\ build' = build /\ pc = "frame"
  BY DEF BeginFrame, Python, Core, machine, user, told, IInv, TypeOK
<1>2. Base' = ram'
  BY <1>1, NothingUndone DEF Base
<1>3. at \in Plays
  BY <1>1, AtPlays DEF InRun
<1>4. Len(Code[at]) \in Nat
  BY <1>3, CodeIs
<1>5. Alike(Start)'
  BY <1>1, <1>2 DEF Alike, Start, Begun
<1>6. Before' = Start'
  <2>1. i' - 1 = 0
    BY <1>1
  <2> QED
    BY <1>1, <1>4, <2>1, CodeFirst DEF Before
<1>7. Alike(Before)'
  BY <1>5, <1>6 DEF Alike
<1>8. CASE at = Entry
  BY <1>1, <1>7, <1>8 DEF Following, Entering
<1>9. CASE at # Entry
  BY <1>1, <1>4, <1>7, <1>9 DEF Following
<1> QED
  BY <1>8, <1>9

(* The steps of a routine.                                                 *)
LEMMA CodeFollows ==
    ASSUME IInv, Settled, Following, [Next]_vars, RunCode
    PROVE  Following'
<1> PICK step \in CodeSteps :
      Poke(step) \/ Peek(step) \/ Ask(step) \/ Bank(step) \/ CallOwn(step) \/ Call(step)
  BY DEF RunCode
<1>0. /\ pc = "code" /\ i <= Len(Code[at]) /\ Code[at][i] = step
      /\ UNCHANGED <<build, at, saved>>
  BY DEF Poke, Peek, Ask, Bank, CallOwn, Call, Do, Core, Python, frame, user, told
<1>1. at \in Plays
  BY <1>0, AtPlays DEF InRun, InFrame
<1>2. CASE pc' = "undo"
  BY <1>2 DEF Following
<1>3. CASE pc' = "code" /\ i' = i + 1
  <2>1. /\ at # Entry /\ step \in CodeStep /\ Before \in Machine /\ Alike(Before)
        /\ ~Before.gone /\ i' \in 1..(Len(Code[at]) + 1)
        /\ Before' = CodeStepped(build, Before, step)
    BY <1>0, <1>1, <1>3, CodeOn DEF Alike
  <2>2. SUFFICES Alike(Before)'
    BY <1>0, <1>3, <2>1 DEF Following
  <2>3. CASE Poke(step)
    <3>1. Became(Before', [Before.ram EXCEPT ![step.at] = Before.acc], Before.ctl,
                 Before.acc, Before.writes, Before.entered)
      BY <2>1, <2>3, Poked DEF Poke, Do
    <3> QED
      BY <2>1, <2>3, <3>1 DEF Alike, Became, Poke, Put, Core
  <2>4. CASE Peek(step)
    <3>1. Became(Before', Before.ram, Before.ctl, Before.ram[step.at], Before.writes,
                 Before.entered)
      BY <2>1, <2>4, Peeked DEF Peek, Do
    <3> QED
      BY <2>1, <2>4, <3>1 DEF Alike, Became, Peek, Python, machine, frame
  <2>5. CASE Ask(step)
    <3>1. ~Asks(Before.ram, step.at) /\ step.op = "device"
      BY <1>3, <2>1, <2>5 DEF Ask, Bail, Do, Alike
    <3>2. Became(Before', Before.ram, Before.ctl, Before.acc, Before.writes,
                 Before.entered)
      BY <2>1, <3>1, Quiet
    <3> QED
      BY <2>1, <2>5, <3>2 DEF Alike, Became, Ask, Python, machine, frame
  <2>6. CASE Bank(step)
    <3>1. Became(Before', [Before.ram EXCEPT ![Port] = step.put], Before.ctl,
                 Before.acc, Before.writes, Before.entered)
      BY <2>1, <2>6, Banked DEF Bank, Do
    <3> QED
      BY <2>1, <2>6, <3>1 DEF Alike, Became, Bank, Put
  <2>7. CASE CallOwn(step)
    <3>1. step.to \notin Modelled[Setting(Before.ram)] /\ step.op = "call"
      BY <1>0, <2>1, <2>7 DEF CallOwn, Do, Alike, Settled
    <3>2. Became(Before', [Before.ram EXCEPT ![Own[step.to]] = Before.acc], Before.ctl,
                 Before.acc, Before.writes, Before.entered)
      BY <2>1, <3>1, CalledOwn
    <3> QED
      BY <2>1, <2>7, <3>2 DEF Alike, Became, CallOwn, Put
  <2> QED
    BY <1>3, <2>3, <2>4, <2>5, <2>6, <2>7 DEF Call
<1>4. CASE Call(step)
  <2>1. /\ pc' = "enter" /\ cur' = step.to /\ step.to \in Modelled[bits]
        /\ step.op = "call"
        /\ UNCHANGED <<ram, store, cpu, sid, calls, i>>
    BY <1>4 DEF Call, Do, Python, machine, frame
  <2>2. at # Entry
    <3> SUFFICES ASSUME at = Entry PROVE FALSE
      OBVIOUS
    <3>1. i > 0 /\ i \in Nat /\ Code[at] = <<>>
      BY <1>0, <1>1, TuneAssumption DEF Following, IInv, TypeOK
    <3> QED
      BY <1>0, <3>1
  <2>3. i \in 1..Len(Code[at]) /\ Alike(Before)
    BY <1>0, <1>1, <2>2, CodeIs DEF Following
  <2>4. Start' = Start
    BY <1>0, <2>1, StartHeld DEF InFrame
  <2>5. Before' = Before
    BY <1>0, <2>1, <2>4 DEF Before
  <2>6. Alike(Before)' /\ cur' \in Modelled[Setting(Before'.ram)]
    BY <1>0, <2>1, <2>3, <2>5 DEF Alike, Settled
  <2> QED
    BY <1>0, <2>1, <2>2, <2>3, <2>6 DEF Following, Entering
<1>5. \/ pc' = "undo"
      \/ pc' = "code" /\ i' = i + 1
      \/ Call(step)
  <2>1. CASE Poke(step)
    BY <2>1 DEF Poke, Do
  <2>2. CASE Peek(step)
    BY <2>2 DEF Peek, Do
  <2>3. CASE Ask(step)
    BY <2>3 DEF Ask, Do, Bail
  <2>4. CASE Bank(step)
    BY <2>4 DEF Bank, Do, Bail
  <2>5. CASE CallOwn(step)
    BY <2>5 DEF CallOwn, Do
  <2> QED
    BY <2>1, <2>2, <2>3, <2>4, <2>5
<1> QED
  BY <1>2, <1>3, <1>4, <1>5

-----------------------------------------------------------------------------
(* The steps of a spec.                                                    *)

(* What each makes of a machine.                                           *)
LEMMA Counted ==
    ASSUME NEW b, NEW m \in Machine, ~m.gone, NEW step, step.op = "count"
    PROVE  Became(SpecStepped(b, m, step), m.ram, Count[m.ctl], m.acc, m.writes, m.entered)
  BY DEF Became, SpecStepped, Machine

LEMMA Loaded ==
    ASSUME NEW b, NEW m \in Machine, ~m.gone, NEW step, step.op = "load"
    PROVE  Became(SpecStepped(b, m, step), m.ram, m.ram[step.at], m.acc, m.writes,
                  m.entered)
  BY DEF Became, SpecStepped, Machine

LEMMA Silence ==
    ASSUME NEW b, NEW m \in Machine, ~m.gone, NEW step, step.op = "device",
           ~Asks(m.ram, step.at)
    PROVE  Became(SpecStepped(b, m, step), m.ram, m.ctl, m.acc, m.writes, m.entered)
  BY DEF Became, SpecStepped, Machine

LEMMA RanNative ==
    ASSUME NEW b, NEW m \in Machine, ~m.gone, NEW step, step.op = "native",
           step.escapes \in BOOLEAN
    PROVE  LET s == SpecStepped(b, m, step) IN
           /\ s.ram = [m.ram EXCEPT ![step.at] = m.ctl] /\ s.ctl = m.ctl /\ s.acc = m.ctl
           /\ s.writes = m.writes /\ s.entered = m.entered
           /\ s.gone <=> step.escapes
  BY DEF SpecStepped, Machine

(* A store lands where the core's table has it.                            *)
LEMMA StoredAsApplied ==
    ASSUME NEW b, IsBuild(b), NEW m \in Machine, ~m.gone, NEW step,
           step.op = "store", step.at \in Cells
    PROVE  LET l == Applied(Table(b), step.at, m.ctl) IN
           Became(SpecStepped(b, m, step),
                  IF l.to = Nowhere THEN m.ram ELSE [m.ram EXCEPT ![l.to] = l.byte],
                  m.ctl, m.acc,
                  IF l.to = Sid THEN Append(m.writes, l.byte) ELSE m.writes, m.entered)
<1> DEFINE l == Applied(Table(b), step.at, m.ctl)
           k == Landing(b, step.at, m.ctl)
<1>1. IF k.to = Nowhere THEN l.to = Nowhere ELSE l = k
  BY RoutesAgree DEF Machine
<1>2. SpecStepped(b, m, step) =
        IF k.to = Nowhere THEN m
        ELSE [m EXCEPT !.ram = [m.ram EXCEPT ![k.to] = k.byte],
                       !.writes = IF k.to = Sid THEN Append(m.writes, k.byte) ELSE m.writes]
  BY DEF SpecStepped, Stored, Machine
<1>3. Nowhere # Sid
  BY DEF Nowhere, Sid
<1> HIDE DEF l, k
<1>4. Became(SpecStepped(b, m, step),
             IF l.to = Nowhere THEN m.ram ELSE [m.ram EXCEPT ![l.to] = l.byte],
             m.ctl, m.acc,
             IF l.to = Sid THEN Append(m.writes, l.byte) ELSE m.writes, m.entered)
  <2>1. CASE k.to = Nowhere
    BY <1>1, <1>2, <1>3, <2>1 DEF Became
  <2>2. CASE k.to # Nowhere
    BY <1>1, <1>2, <2>2 DEF Became, Machine
  <2> QED
    BY <2>1, <2>2
<1> QED
  BY <1>4 DEF l

(* In a spec: what it began on and the machine it has come to.             *)
LEMMA InSpec ==
    ASSUME IInv, Settled, Following, pc = "spec"
    PROVE  LET m == SpecAfter(build, Arrived(build, Before, cur), Body, j - 1) IN
           /\ at \in Plays /\ Before \in Machine /\ ~Before.gone /\ IsBuild(build)
           /\ cur \in Entries /\ Arrived(build, Before, cur) \in Machine
           /\ Body \in Seq(SpecStep) /\ Len(Body) \in Nat
           /\ j - 1 \in 0..Len(Body)
           /\ m \in Machine /\ ~m.gone /\ Alike(m)
<1>1. at \in Plays /\ cur \in Entries /\ bits \in Settings
  BY AtPlays DEF InRun, InFrame, IInv, TypeOK
<1>2. i \in 1..(Len(Code[at]) + 1)
  BY <1>1, CodeIs DEF Following, Entering
<1>3. Before \in Machine /\ ~Before.gone /\ IsBuild(build)
  BY <1>1, <1>2, BeforeType, StartType
<1>4. Arrived(build, Before, cur) \in Machine
  BY <1>1, <1>3, ArrivedType
<1>5. Body \in Seq(SpecStep)
  BY <1>1, TuneAssumption DEF Body
<1>6. Len(Body) \in Nat
  BY <1>5
<1>7. j - 1 \in 0..Len(Body)
  BY <1>6 DEF Following
<1>8. SpecAfter(build, Arrived(build, Before, cur), Body, j - 1) \in Machine
  BY <1>3, <1>4, <1>5, <1>7, SpecAfterType
<1> QED
  BY <1>1, <1>3, <1>4, <1>5, <1>6, <1>7, <1>8 DEF Following, Alike

(* A step inside it moves on to Python's machine after the step.           *)
LEMMA SpecOn ==
    ASSUME IInv, [Next]_vars, Settled, Following, pc = "spec", j <= Len(Body),
           j' = j + 1, pc' = "spec",
           UNCHANGED <<build, at, saved, bits, cur, i, kept>>,
           Became(SpecStepped(build,
                              SpecAfter(build, Arrived(build, Before, cur), Body, j - 1),
                              Body[j]),
                  ram', store', cpu', sid', calls')
    PROVE  Following'
<1>1. Before' = Before /\ Body' = Body
  <2>1. Start' = Start
    BY StartHeld DEF InFrame
  <2> QED
    BY <2>1 DEF Before, Body
<1>2. j - 1 \in 0..(Len(Body) - 1) /\ (j - 1) + 1 = j /\ j' - 1 = j /\ Len(Body) \in Nat
      /\ j' \in 1..(Len(Body) + 1)
  <2>1. Len(Body) \in Nat /\ j \in 1..(Len(Body) + 1)
    BY InSpec DEF Following
  <2> QED
    BY <2>1
<1>3. SpecAfter(build, Arrived(build, Before, cur), Body, (j - 1) + 1) =
        SpecStepped(build, SpecAfter(build, Arrived(build, Before, cur), Body, j - 1),
                    Body[(j - 1) + 1])
  BY <1>2, SpecNext
<1>4. Alike(SpecAfter(build, Arrived(build, Before, cur), Body, j - 1))'
  BY <1>1, <1>2, <1>3 DEF Alike, Became
<1>5. Entering'
  BY <1>1 DEF Following, Entering
<1> QED
  BY <1>1, <1>2, <1>4, <1>5 DEF Following

(* A spec that has returned leaves the core on Python's machine after the   *)
(* call, whether the routine called it or it stands in for the routine.     *)
LEMMA ReturnFollows ==
    ASSUME IInv, [Next]_vars, Settled, Following, pc = "spec", pc' = "code", i' = i + 1,
           UNCHANGED <<build, at, saved>>,
           LET m == Ran(build, Before, cur, at # Entry)
           IN Became(m, ram', store', cpu', sid', calls')
    PROVE  Following'
<1>1. Start' = Start
  BY StartHeld DEF InFrame
<1>2. CASE at = Entry
  <2>1. i = 1 /\ cur = Entry
    BY <1>2 DEF Following, Entering
  <2>2. Before = Start
    <3>1. Len(Code[at]) \in Nat
      BY InSpec, CodeIs
    <3>2. i - 1 = 0
      BY <2>1
    <3> QED
      BY <3>1, <3>2, CodeFirst DEF Before
  <2>3. Became(Ran(build, Start, Entry, FALSE), ram', store', cpu', sid', calls')
    <3>1. (at # Entry) = FALSE
      BY <1>2
    <3> QED
      BY <2>1, <2>2, <3>1
  <2>4. Alike(Ran(build, Start, Entry, FALSE))'
    BY <1>1, <2>3 DEF Became, Alike
  <2> QED
    <3>1. i' = 2 /\ at' = Entry /\ 2 > 0
      BY <1>2, <2>1
    <3>2. (IF at = Entry THEN i > 0 /\ Alike(Ran(build, Start, Entry, FALSE))
           ELSE i \in 1..(Len(Code[at]) + 1) /\ Alike(Before))'
      BY <2>4, <3>1
    <3> QED
      BY <3>2 DEF Following
<1>3. CASE at # Entry
  <2>1. /\ i \in 1..Len(Code[at]) /\ Code[at][i].op = "call" /\ Code[at][i].to = cur
        /\ cur \in Modelled[Setting(Before.ram)]
    BY <1>3 DEF Following, Entering
  <2>2. Code[at] \in Seq(CodeStep) /\ Len(Code[at]) \in Nat
    BY InSpec, CodeIs
  <2>3. Code[at][i] \in CodeStep
    BY <2>1, <2>2
  <2>4. i - 1 \in 0..(Len(Code[at]) - 1) /\ (i - 1) + 1 = i /\ i' - 1 = i
        /\ i' \in 1..(Len(Code[at]) + 1)
    BY <2>1, <2>2
  <2>5. CodeAfter(build, Start, Code[at], (i - 1) + 1) =
          CodeStepped(build, CodeAfter(build, Start, Code[at], i - 1),
                      Code[at][(i - 1) + 1])
    BY <2>2, <2>4, CodeNext
  <2>6. Before' = CodeStepped(build, Before, Code[at][i])
    BY <1>1, <2>4, <2>5 DEF Before
  <2>7. Became(Ran(build, Before, cur, TRUE), ram', store', cpu', sid', calls')
    <3>1. (at # Entry) = TRUE
      BY <1>3
    <3> QED
      BY <3>1
  <2>8. LET n == Ran(build, Before, cur, TRUE)
        IN Became(CodeStepped(build, Before, Code[at][i]), n.ram, n.ctl, n.acc, n.writes,
                  n.entered)
    BY <2>1, <2>3, InSpec, Called
  <2>9. Alike(Before)'
    BY <2>6, <2>7, <2>8 DEF Became, Alike
  <2> QED
    BY <1>3, <2>4, <2>9 DEF Following
<1> QED
  BY <1>2, <1>3

(* What _run leaves, when the spec's last machine is known.                *)
LEMMA RanLeaves ==
    ASSUME IInv, Settled, Following, pc = "spec", NEW called, NEW m \in Machine,
           SpecAfter(build, Arrived(build, Before, cur), Body, Len(Body)) = m
    PROVE  Became(Ran(build, Before, cur, called), m.ram, m.ctl,
                  IF m.gone /\ called THEN m.acc ELSE kept, m.writes, m.entered)
<1>1. Program[Setting(Before.ram)][cur] = Body /\ kept = Before.acc
  BY DEF Following, Body
<1>2. Ran(build, Before, cur, called) =
        [m EXCEPT !.acc = IF m.gone /\ called THEN m.acc ELSE kept, !.gone = FALSE]
  BY <1>1 DEF Ran
<1> QED
  BY <1>2 DEF Became, Machine

(* The core enters the spec Python runs, on the machine Python runs it on. *)
LEMMA EnterFollows ==
    ASSUME IInv, [Next]_vars, Settled, Following, EnterSpec
    PROVE  Following'
<1>1. CASE pc' = "undo"
  BY <1>1 DEF Following
<1>2. CASE pc' = "spec"
  <2>1. /\ pc = "enter" /\ calls' = Append(calls, cur) /\ kept' = cpu /\ j' = 1
        /\ ram' = IF table.ghost THEN [ram EXCEPT ![Sid] = ram[Copy]] ELSE ram
        /\ UNCHANGED <<store, cpu, sid, i, cur, bits, at, build, saved>>
    BY <1>2 DEF EnterSpec, Put, Bail, user, told
  <2>2. at \in Plays /\ cur \in Entries /\ bits \in Settings /\ ram \in [Cells -> Byte]
    BY <2>1, AtPlays DEF InRun, InFrame, IInv, TypeOK
  <2>3. i \in 1..(Len(Code[at]) + 1) /\ Alike(Before) /\ Entering
    BY <2>1, <2>2, CodeIs DEF Following, Entering
  <2>4. Before \in Machine /\ ~Before.gone
    BY <2>2, <2>3, BeforeType
  <2>5. Start' = Start
    BY <1>2, <2>1, StartHeld DEF InFrame
  <2>6. Before' = Before /\ Body' = Body
    BY <2>1, <2>5 DEF Before, Body
  <2>7. table.ghost = build.ghost /\ bits = Setting(ram)
    <3>1. table = Table(build)
      BY <2>1 DEF Settled, InRun, InFrame
    <3>2. bits = Setting(ram)
      BY <2>1 DEF Settled
    <3> QED
      BY <3>1, <3>2 DEF Table
  <2>8. Body \in Seq(SpecStep) /\ Len(Body) \in Nat
    <3>1. Body \in Seq(SpecStep)
      BY <2>2, TuneAssumption DEF Body
    <3> QED
      BY <3>1
  <2>9. SpecAfter(build, Arrived(build, Before, cur), Body, 0) = Arrived(build, Before, cur)
    BY <2>8, SpecFirst
  <2>10. Became(Arrived(build, Before, cur), ram', store', cpu', sid', calls')
    <3> DEFINE m == Arrived(build, Before, cur)
    <3>1. m = [Before EXCEPT
                 !.entered = Append(Before.entered, cur),
                 !.ran = Before.ran \cup {<<Setting(Before.ram), cur>>},
                 !.ram = [Before.ram EXCEPT
                            ![Sid] = IF build.ghost THEN Before.ram[Copy]
                                     ELSE Before.ram[Sid]]]
      BY <2>4 DEF Arrived, Machine
    <3>2. /\ m.ram = [ram EXCEPT ![Sid] = IF build.ghost THEN ram[Copy] ELSE ram[Sid]]
          /\ m.ctl = store /\ m.acc = cpu /\ m.writes = sid
          /\ m.entered = Append(calls, cur) /\ ~m.gone
      BY <2>3, <2>4, <3>1 DEF Alike, Machine
    <3>3. m.ram = ram'
      BY <2>1, <2>2, <2>7, <3>2
    <3> QED
      BY <2>1, <3>2, <3>3 DEF Became
  <2>11. j' - 1 = 0 /\ j' \in 1..(Len(Body) + 1)
    BY <2>1, <2>8
  <2>12. Alike(SpecAfter(build, Arrived(build, Before, cur), Body, j - 1))'
    BY <2>1, <2>6, <2>9, <2>10, <2>11 DEF Alike, Became
  <2>13. Entering'
    BY <2>1, <2>3, <2>6 DEF Entering
  <2>14. (Setting(Before.ram) = bits /\ kept = Before.acc)'
    BY <2>1, <2>3, <2>6, <2>7 DEF Alike
  <2> QED
    BY <1>2, <2>6, <2>11, <2>12, <2>13, <2>14 DEF Following
<1> QED
  BY <1>1, <1>2 DEF EnterSpec, Bail

(* The steps of a spec.                                                    *)
LEMMA SpecFollows ==
    ASSUME IInv, [Next]_vars, Settled, Following, RunSpec
    PROVE  Following'
<1> PICK step \in SpecSteps :
      CountState(step) \/ Load(step) \/ Store(step) \/ AskSpec(step) \/ RunNative(step)
  BY DEF RunSpec
<1> DEFINE m == SpecAfter(build, Arrived(build, Before, cur), Body, j - 1)
<1>0. /\ pc = "spec" /\ j <= Len(Body) /\ Body[j] = step /\ step \in SpecStep
      /\ UNCHANGED <<build, at, saved, bits, cur, kept>>
  BY StepTypes
  DEF CountState, Load, Store, AskSpec, RunNative, Does, Core, Python, frame, user, told
<1>1. m \in Machine /\ ~m.gone /\ Alike(m) /\ IsBuild(build)
  BY <1>0, InSpec
<1>2. CASE pc' = "undo"
  BY <1>2 DEF Following
<1>3. ASSUME pc' = "spec", j' = j + 1, i' = i,
             Became(SpecStepped(build, m, step), ram', store', cpu', sid', calls')
      PROVE  Following'
  BY <1>0, <1>3, SpecOn
<1> HIDE DEF m
<1>4. CASE CountState(step)
  <2>1. Became(SpecStepped(build, m, step), m.ram, Count[m.ctl], m.acc, m.writes, m.entered)
    BY <1>1, <1>4, Counted DEF CountState, Does
  <2> QED
    BY <1>0, <1>1, <1>3, <1>4, <2>1
    DEF CountState, Alike, Became, Python, machine, frame
<1>5. CASE Load(step)
  <2>1. Became(SpecStepped(build, m, step), m.ram, m.ram[step.at], m.acc, m.writes,
               m.entered)
    BY <1>1, <1>5, Loaded DEF Load, Does
  <2> QED
    BY <1>0, <1>1, <1>3, <1>5, <2>1 DEF Load, Alike, Became, Python, machine, frame
<1>6. CASE AskSpec(step) /\ pc' # "undo"
  <2>1. /\ ~Asks(m.ram, step.at) /\ step.op = "device" /\ pc' = "spec" /\ j' = j + 1
        /\ UNCHANGED <<ram, store, cpu, sid, calls, i>>
    BY <1>0, <1>1, <1>6 DEF AskSpec, Bail, Does, Alike, Python, machine, frame
  <2>2. Became(SpecStepped(build, m, step), m.ram, m.ctl, m.acc, m.writes, m.entered)
    BY <1>1, <2>1, Silence
  <2> QED
    BY <1>1, <1>3, <2>1, <2>2 DEF Alike, Became
<1>7. CASE Store(step) /\ pc' # "undo"
  <2> DEFINE l == Applied(table, step.at, store)
  <2>1. /\ step.op = "store" /\ step.at \in Cells /\ pc' = "spec" /\ j' = j + 1
        /\ ram' = IF l.to = Nowhere THEN ram ELSE [ram EXCEPT ![l.to] = l.byte]
        /\ sid' = IF l.to = Sid THEN Append(sid, l.byte) ELSE sid
        /\ UNCHANGED <<store, cpu, calls, i>>
    BY <1>0, <1>7 DEF Store, Bail, Does, Put, SpecStep
  <2>2. table = Table(build)
    BY <1>0 DEF Settled, InRun, InFrame
  <2>3. LET k == Applied(Table(build), step.at, m.ctl) IN
        Became(SpecStepped(build, m, step),
               IF k.to = Nowhere THEN m.ram ELSE [m.ram EXCEPT ![k.to] = k.byte],
               m.ctl, m.acc,
               IF k.to = Sid THEN Append(m.writes, k.byte) ELSE m.writes, m.entered)
    BY <1>1, <2>1, StoredAsApplied
  <2>4. Became(SpecStepped(build, m, step), ram', store', cpu', sid', calls')
    BY <1>1, <2>1, <2>2, <2>3 DEF Alike, Became
  <2> QED
    BY <1>3, <2>1, <2>4
<1>8. CASE RunNative(step) /\ pc' # "undo"
  <2>1. /\ step.op = "native" /\ step.escapes \in BOOLEAN
        /\ ram' = [ram EXCEPT ![step.at] = store]
        /\ cpu' = IF step.escapes /\ at = Entry THEN kept ELSE store
        /\ UNCHANGED <<store, sid, calls>>
    BY <1>0, <1>8 DEF RunNative, Does, Put, SpecStep
  <2>2. LET s == SpecStepped(build, m, step) IN
        /\ s.ram = [m.ram EXCEPT ![step.at] = m.ctl] /\ s.ctl = m.ctl /\ s.acc = m.ctl
        /\ s.writes = m.writes /\ s.entered = m.entered
        /\ s.gone <=> step.escapes
    BY <1>1, <2>1, RanNative
  <2>3. CASE ~step.escapes
    <3>1. pc' = "spec" /\ j' = j + 1 /\ i' = i
      BY <1>0, <1>8, <2>3 DEF RunNative, Bail
    <3>2. Became(SpecStepped(build, m, step), ram', store', cpu', sid', calls')
      BY <1>1, <2>1, <2>2, <2>3 DEF Alike, Became
    <3> QED
      BY <1>3, <3>1, <3>2
  <2>4. CASE step.escapes
    <3>1. pc' = "code" /\ i' = i + 1
      BY <1>8, <2>4 DEF RunNative, Bail
    <3> DEFINE on == Arrived(build, Before, cur)
               s == SpecAfter(build, on, Body, j)
    <3>2. /\ on \in Machine /\ Body \in Seq(SpecStep) /\ Len(Body) \in Nat
          /\ j - 1 \in 0..(Len(Body) - 1) /\ (j - 1) + 1 = j /\ j \in 0..Len(Body)
      <4>1. on \in Machine /\ Body \in Seq(SpecStep) /\ Len(Body) \in Nat
        BY <1>0, InSpec
      <4>2. j \in 1..(Len(Body) + 1)
        BY <1>0 DEF Following
      <4> QED
        BY <1>0, <4>1, <4>2
    <3>3. s = SpecStepped(build, m, step)
      <4>1. SpecAfter(build, on, Body, (j - 1) + 1) =
              SpecStepped(build, SpecAfter(build, on, Body, j - 1), Body[(j - 1) + 1])
        BY <3>2, SpecNext
      <4> QED
        BY <1>0, <3>2, <4>1 DEF m
    <3>4. s \in Machine
      BY <1>1, <3>2, SpecAfterType
    <3>5. s.gone
      BY <2>2, <2>4, <3>3
    <3>6. SpecAfter(build, on, Body, Len(Body)) = s
      BY <1>1, <3>2, <3>5, SpecEnds
    <3> HIDE DEF s
    <3>7. \A c : Became(Ran(build, Before, cur, c), s.ram, s.ctl,
                        IF s.gone /\ c THEN s.acc ELSE kept, s.writes, s.entered)
      BY <1>0, <3>4, <3>6, RanLeaves
    <3>8. Became(Ran(build, Before, cur, at # Entry), ram', store', cpu', sid', calls')
      <4>1. Became(Ran(build, Before, cur, at # Entry), s.ram, s.ctl,
                   IF s.gone /\ at # Entry THEN s.acc ELSE kept, s.writes, s.entered)
        BY <3>7
      <4> QED
        BY <1>1, <2>1, <2>2, <2>4, <3>3, <3>5, <4>1 DEF Alike, Became
    <3> QED
      BY <1>0, <3>1, <3>8, ReturnFollows
  <2> QED
    BY <2>1, <2>3, <2>4
<1> QED
  BY <1>2, <1>4, <1>5, <1>6, <1>7, <1>8

LEMMA EndSpecFollows ==
    ASSUME IInv, [Next]_vars, Settled, Following, EndSpec
    PROVE  Following'
<1> DEFINE on == Arrived(build, Before, cur)
           m == SpecAfter(build, on, Body, Len(Body))
<1>1. /\ pc = "spec" /\ pc' = "code" /\ i' = i + 1 /\ cpu' = kept /\ j > Len(Body)
      /\ UNCHANGED <<build, at, saved, ram, store, sid, calls>>
  BY DEF EndSpec, Python, Core, machine, frame, user, told
<1>2. SpecAfter(build, on, Body, j - 1) = m
  <2>1. Len(Body) \in Nat /\ j \in 1..(Len(Body) + 1)
    BY <1>1, InSpec DEF Following
  <2>2. j - 1 = Len(Body)
    BY <1>1, <2>1
  <2> QED
    BY <2>2
<1>3. m \in Machine /\ ~m.gone /\ Alike(m)
  BY <1>1, <1>2, InSpec
<1> HIDE DEF m
<1>4. \A c : Became(Ran(build, Before, cur, c), m.ram, m.ctl,
                    IF m.gone /\ c THEN m.acc ELSE kept, m.writes, m.entered)
  BY <1>1, <1>3, RanLeaves DEF m
<1>5. Became(Ran(build, Before, cur, at # Entry), ram', store', cpu', sid', calls')
  <2>1. Became(Ran(build, Before, cur, at # Entry), m.ram, m.ctl,
               IF m.gone /\ at # Entry THEN m.acc ELSE kept, m.writes, m.entered)
    BY <1>4
  <2> QED
    BY <1>1, <1>3, <2>1 DEF Alike, Became
<1> QED
  BY <1>1, <1>5, ReturnFollows

-----------------------------------------------------------------------------
(* The invariant holds: at the start,                                      *)
LEMMA InitPlay == Init => PlayInv
<1> SUFFICES ASSUME Init PROVE PlayInv
  OBVIOUS
<1>1. Settled /\ Due /\ Following /\ Taught
  BY DEF Init, Settled, Due, Following, Taught, InRun, InFrame
<1> QED
  BY <1>1, InitInv DEF PlayInv

(* and after every step the core is where Python would be,                 *)
LEMMA NextFollows ==
    ASSUME PlayInv, [Next]_vars
    PROVE  Following'
<1> USE DEF PlayInv
<1>1. CASE BeginFrame
  BY <1>1, BeginFollows
<1>2. CASE RunCode
  BY <1>2, CodeFollows
<1>3. CASE EnterSpec
  BY <1>3, EnterFollows
<1>4. CASE RunSpec
  BY <1>4, SpecFollows
<1>5. CASE EndSpec
  BY <1>5, EndSpecFollows
<1>6. CASE pc' \notin {"code", "enter", "spec"}
  BY <1>6 DEF Following
<1>7. CASE User \/ Prepare \/ Return \/ PlayPython \/ EndRun \/ EndFrame \/ UndoStore
           \/ Undone
  BY <1>6, <1>7
  DEF User, Reroute, SetState, PlayAfter, Render, Prepare, Return, PlayPython, EndRun,
      EndFrame, UndoStore, Undone
<1>8. CASE UNCHANGED vars
  <2>1. UNCHANGED <<pc, ram, build, at, bits, cpu, store, log, sid, calls, saved, i, cur, j,
                    kept>>
    BY <1>8 DEF vars, machine, user, told, place, frame
  <2>2. Start' = Start
    BY <2>1 DEF Start, Base, Undoing, Logged, First
  <2>3. Before' = Before /\ Body' = Body
    BY <2>1, <2>2 DEF Before, Body
  <2>4. Entering' <=> Entering
    BY <2>1, <2>3 DEF Entering
  <2> QED
    BY <2>1, <2>2, <2>3, <2>4 DEF Following, Alike
<1> QED
  BY <1>1, <1>2, <1>3, <1>4, <1>5, <1>7, <1>8 DEF Next, Advance, Finished

(* no run goes past a change of the play address,                          *)
LEMMA NextDue ==
    ASSUME ~Late, PlayInv, [Next]_vars
    PROVE  Due'
<1>0. /\ frames \in Nat /\ played \in Nat /\ left \in Nat /\ want \in Nat
      /\ after # Never => after.frames \in Nat
      /\ pc \in {"machine", "python"} => want >= 1
      /\ InRun => played + left <= want
      /\ InFrame => left >= 1
      /\ ~InRun => played = 0
  BY NativeAssumption DEF PlayInv, IInv, TypeOK, Counts
<1> USE DEF InRun, InFrame
<1>1. CASE User
  BY <1>0, <1>1
  DEF PlayInv, Due, User, Reroute, SetState, PlayAfter, Render, user
<1>2. CASE Prepare
  <2>1. after # Never => LimitOf(want) \in Nat /\ frames + LimitOf(want) <= after.frames
    BY <1>0, <1>2 DEF PlayInv, Due, LimitOf, Prepare
  <2> QED
    BY <1>0, <1>2, <2>1 DEF PlayInv, Due, Prepare, user
<1>3. CASE Return
  BY <1>0, <1>3 DEF PlayInv, Due, Return, AfterThen, Switches
<1>4. CASE PlayPython
  BY <1>0, <1>4 DEF PlayInv, Due, PlayPython, AfterThen, Switches
<1>5. CASE EndFrame
  BY <1>0, <1>5 DEF PlayInv, Due, EndFrame, Python, user
<1>6. CASE BeginFrame \/ EndRun \/ EndSpec \/ EnterSpec \/ UndoStore \/ Undone
  BY <1>0, <1>6
  DEF PlayInv, Due, BeginFrame, EndRun, EndSpec, EnterSpec, UndoStore, Undone, Bail,
      Python, Core, user
<1>7. CASE RunCode
  BY <1>0, <1>7
  DEF PlayInv, Due, RunCode, Poke, Peek, Ask, Bank, CallOwn, Call, Do, Bail, Python,
      Core, user
<1>8. CASE RunSpec
  BY <1>0, <1>8
  DEF PlayInv, Due, RunSpec, CountState, Load, Store, AskSpec, RunNative, Does, Bail,
      Python, Core, user
<1>9. CASE UNCHANGED vars
  BY <1>9 DEF PlayInv, Due, vars, user
<1> QED
  BY <1>1, <1>2, <1>3, <1>4, <1>5, <1>6, <1>7, <1>8, <1>9 DEF Next, Advance, Finished

(* A store to any cell but the port leaves the setting.                    *)
LEMMA SameSetting ==
    ASSUME NEW r \in [Cells -> Byte], NEW a, a # Port, NEW v
    PROVE  Setting([r EXCEPT ![a] = v]) = Setting(r)
  BY DEF Setting, Port, Cells

(* What the core is given for a run, and what it was taken from.           *)
given == <<build, play, routed, table, at, banks, programs, known, compiled>>

(* A step inside a frame that leaves them, and the setting, keeps Settled. *)
LEMMA CoreSettled ==
    ASSUME PlayInv, [Next]_vars, InFrame, pc' \in {"code", "spec", "enter", "undo"},
           UNCHANGED given,
           pc' # "undo" => bits' = Setting(ram') /\ bits' \in banks
    PROVE  Settled'
  BY DEF PlayInv, Settled, InRun, InFrame, Registered, given

(* the core has what it was given, and runs under the memory's setting,     *)
LEMMA NextSettled ==
    ASSUME PlayInv, [Next]_vars
    PROVE  Settled'
<1>0. ram \in [Cells -> Byte] /\ Setting(ram) = ram[Port] \cap PortBits
  BY DEF PlayInv, IInv, TypeOK, Setting
<1>11. /\ InRun => routed /\ at = play /\ banks = known /\ programs = Registered(banks)
       /\ routed => table = Table(build)
       /\ pc \in {"frame", "code", "enter", "spec"} => bits = Setting(ram) /\ bits \in banks
       /\ ~InRun => bus = Setting(ram)
       /\ pc = "idle" => want = 0
  BY DEF PlayInv, Settled
<1>1. CASE User
  BY <1>1, <1>11
  DEF Settled, User, Reroute, SetState, PlayAfter, Render, InRun, InFrame, machine, user,
      learned, told, given, Registered
<1>2. CASE Prepare
  BY <1>2, <1>11 DEF Settled, Prepare, InRun, InFrame, machine, user, Registered
<1>3. CASE Return
  BY <1>3, <1>11 DEF Settled, Return, InRun, InFrame, learned, told, given
<1>4. CASE PlayPython
  BY <1>4, <1>11 DEF Settled, PlayPython, InRun, InFrame, told
<1>5. CASE BeginFrame \/ EndRun \/ EndFrame \/ Undone
  BY <1>5, <1>11
  DEF Settled, BeginFrame, EndRun, EndFrame, Undone, InRun, InFrame, Python, Core, machine,
      user, learned, told, given, Registered
<1>6. CASE EnterSpec
  <2>1. /\ pc = "enter" /\ pc' \in {"undo", "spec"} /\ UNCHANGED <<given, bits>>
        /\ ram' = ram \/ ram' = [ram EXCEPT ![Sid] = ram[Copy]]
    BY <1>6 DEF EnterSpec, Put, Bail, user, learned, told, given
  <2>2. Setting(ram') = Setting(ram)
    BY <1>0, <2>1, SameSetting DEF Sid, Port
  <2> QED
    BY <1>11, <2>1, <2>2, CoreSettled DEF InFrame
<1>10. CASE EndSpec \/ UndoStore
  BY <1>10, <1>11, CoreSettled
  DEF EndSpec, UndoStore, InFrame, Python, Core, machine, user, learned, told, given
<1>7. CASE RunCode
  <2> PICK step \in CodeSteps :
        Poke(step) \/ Peek(step) \/ Ask(step) \/ Bank(step) \/ CallOwn(step) \/ Call(step)
    BY <1>7 DEF RunCode
  <2>0. step \in CodeStep /\ Port \in Cells
    BY StepTypes DEF Port, Cells
  <2>1. CASE Poke(step)
    <3>1. step.at # Port
      BY <2>0, <2>1 DEF Poke, Do, CodeStep
    <3> QED
      BY <2>1, <3>1, <1>11, <1>0, CoreSettled, SameSetting
      DEF Poke, Do, Put, Core, user, learned, told, given, InFrame
  <2>2. CASE Peek(step) \/ Call(step)
    BY <2>2, <1>11, CoreSettled
    DEF Peek, Call, Do, Python, Core, user, learned, told, given, machine, frame,
        InFrame
  <2>3. CASE Ask(step)
    BY <2>3, <1>11, CoreSettled
    DEF Ask, Do, Bail, Python, user, learned, told, given, machine, InFrame
  <2>4. CASE Bank(step)
    <3>1. ram'[Port] = step.put
      BY <1>0, <2>0, <2>4 DEF Bank, Put
    <3> QED
      BY <2>4, <3>1, <1>11, CoreSettled
      DEF Bank, Do, Bail, Setting, user, learned, told, given, InFrame
  <2>5. CASE CallOwn(step)
    <3>1. step.to \in Entries
      BY <2>0, <2>5 DEF CallOwn, Do, CodeStep
    <3>2. Own[step.to] # Port
      BY <3>1, TuneAssumption
    <3> QED
      BY <2>5, <3>2, <1>11, <1>0, CoreSettled, SameSetting
      DEF CallOwn, Do, Put, Core, user, learned, told, given, InFrame
  <2> QED
    BY <2>1, <2>2, <2>3, <2>4, <2>5
<1>8. CASE RunSpec
  <2> PICK step \in SpecSteps :
        CountState(step) \/ Load(step) \/ Store(step) \/ AskSpec(step) \/ RunNative(step)
    BY <1>8 DEF RunSpec
  <2>1. CASE CountState(step) \/ Load(step)
    BY <2>1, <1>11, CoreSettled
    DEF CountState, Load, Does, Python, Core, user, learned, told, given, machine, frame,
        InFrame
  <2>2. CASE AskSpec(step)
    BY <2>2, <1>11, CoreSettled
    DEF AskSpec, Does, Bail, Python, user, learned, told, given, machine, InFrame
  <2>3. CASE Store(step)
    <3> DEFINE l == Applied(table, step.at, store)
    <3>1. /\ pc = "spec" /\ UNCHANGED <<given, bits>>
          /\ \/ pc' = "undo"
             \/ /\ pc' = "spec" /\ l.to # Port
                /\ ram' = IF l.to = Nowhere THEN ram ELSE [ram EXCEPT ![l.to] = l.byte]
      BY <2>3 DEF Store, Does, Bail, Put, user, learned, told, given
    <3> HIDE DEF l
    <3> QED
      BY <3>1, <1>11, <1>0, CoreSettled, SameSetting DEF InFrame
  <2>4. CASE RunNative(step)
    <3>1. /\ pc = "spec" /\ UNCHANGED <<given, bits>>
          /\ ram' = [ram EXCEPT ![step.at] = store]
          /\ \/ pc' = "undo"
             \/ pc' \in {"spec", "code"} /\ (step.at = Port => store \cap PortBits = bits)
      BY <2>4 DEF RunNative, Does, Bail, Put, user, learned, told, given
    <3>2. CASE step.at = Port
      <4>1. ram'[Port] = store
        BY <1>0, <3>1, <3>2 DEF Port, Cells
      <4> QED
        BY <3>1, <3>2, <4>1, <1>11, CoreSettled DEF InFrame, Setting
    <3>3. CASE step.at # Port
      BY <3>1, <3>3, <1>11, <1>0, CoreSettled, SameSetting DEF InFrame
    <3> QED
      BY <3>2, <3>3
  <2> QED
    BY <2>1, <2>2, <2>3, <2>4
<1>9. CASE UNCHANGED vars
  BY <1>9 DEF vars, machine, user, learned, told, given, PlayInv, Settled, InRun, InFrame,
              Registered
<1> QED
  BY <1>1, <1>2, <1>3, <1>4, <1>5, <1>6, <1>7, <1>8, <1>9, <1>10 DEF Next, Advance, Finished

-----------------------------------------------------------------------------
(* What a frame that is given up has to teach.                             *)

(* A frame whose routine comes to a setting, or a spec, that is not known   *)
(* misses it.                                                               *)
LEMMA FrameComes ==
    ASSUME IInv, at \in Plays, at # Entry, NEW k \in 0..Len(Code[at])
    PROVE  LET m == CodeAfter(build, Start, Code[at], k)
               f == Frame(build, at, Base, saved.store, saved.cpu)
           IN m.seen \subseteq f.seen /\ m.ran \subseteq f.ran
<1>1. /\ Code[at] \in Seq(CodeStep)
      /\ IsBuild(build) /\ Start \in Machine /\ ~Start.gone
  BY CodeIs, StartType
<1> QED
  BY <1>1, CodeGrows, FrameOfCode

LEMMA BankMisses ==
    ASSUME PlayInv, [Next]_vars, NEW step \in CodeSteps, Bank(step), pc' = "undo"
    PROVE  Missing(play, Base, saved.store, saved.cpu)
<1>1. /\ pc = "code" /\ i <= Len(Code[at]) /\ Code[at][i] = step /\ step.op = "port"
      /\ step.put \cap PortBits \notin banks
  BY DEF Bank, Do, Bail
<1>2. at \in Plays /\ at = play /\ banks = known
  BY <1>1, AtPlays DEF PlayInv, Settled, InRun, InFrame
<1>3. at # Entry
  <2> SUFFICES ASSUME at = Entry PROVE FALSE
    OBVIOUS
  <2>1. i > 0 /\ i \in Nat /\ Code[at] = <<>>
    BY <1>1, <1>2, TuneAssumption DEF PlayInv, Following, IInv, TypeOK
  <2> QED
    BY <1>1, <2>1
<1>4. i \in 1..Len(Code[at]) /\ Alike(Before) /\ Len(Code[at]) \in Nat
  BY <1>1, <1>2, <1>3, CodeIs DEF PlayInv, Following
<1>5. /\ Before \in Machine /\ ~Before.gone /\ step \in CodeStep /\ IsBuild(build)
      /\ i - 1 \in 0..(Len(Code[at]) - 1) /\ (i - 1) + 1 = i /\ i \in 0..Len(Code[at])
  BY <1>2, <1>4, BeforeType, StartType, StepTypes DEF PlayInv
<1> DEFINE n == CodeAfter(build, Start, Code[at], i)
<1>6. n = CodeStepped(build, Before, step)
  <2>1. CodeAfter(build, Start, Code[at], (i - 1) + 1) =
          CodeStepped(build, CodeAfter(build, Start, Code[at], i - 1),
                      Code[at][(i - 1) + 1])
    BY <1>4, <1>5, CodeNext
  <2> QED
    BY <1>1, <1>5, <2>1 DEF Before
<1>7. n.ram = [Before.ram EXCEPT ![Port] = step.put]
  BY <1>1, <1>5, <1>6, Banked DEF Became
<1>8. Setting(n.ram) = step.put \cap PortBits
  BY <1>5, <1>7 DEF Setting, Machine, Port, Cells
<1>9. Setting(n.ram) \in n.seen
  BY <1>5, <1>6, CodeSteppedType
<1>10. n.seen \subseteq Frame(build, at, Base, saved.store, saved.cpu).seen
  BY <1>2, <1>3, <1>5, FrameComes DEF PlayInv
<1> QED
  BY <1>1, <1>2, <1>8, <1>9, <1>10 DEF Missing

LEMMA EnterMisses ==
    ASSUME PlayInv, [Next]_vars, EnterSpec, pc' = "undo"
    PROVE  Missing(play, Base, saved.store, saved.cpu)
<1>1. pc = "enter" /\ <<bits, cur>> \notin programs
  BY DEF EnterSpec
<1>2. /\ at \in Plays /\ at = play /\ banks = known /\ programs = Registered(banks)
      /\ bits = Setting(ram) /\ bits \in banks /\ cur \in Entries
      /\ Entering /\ Alike(Before)
  BY <1>1, AtPlays DEF PlayInv, Settled, Following, InRun, InFrame, IInv, TypeOK
<1>3. <<bits, cur>> \notin compiled
  BY <1>1, <1>2 DEF Registered
<1>4. IsBuild(build) /\ Start \in Machine /\ ~Start.gone
  BY StartType DEF PlayInv
<1>5. <<bits, cur>> \in Frame(build, at, Base, saved.store, saved.cpu).ran
  <2>1. CASE at = Entry
    <3>1. Before = Start
      <4>1. Len(Code[at]) \in Nat /\ i - 1 = 0
        BY <1>2, <2>1, CodeIs DEF Entering
      <4> QED
        BY <4>1, CodeFirst DEF Before
    <3>2. Start.ram = ram /\ cur = Entry
      BY <1>2, <2>1, <3>1 DEF Alike, Entering
    <3>3. \A c : Ran(build, Start, Entry, c).ran =
                   Start.ran \cup {<<Setting(Start.ram), Entry>>}
      BY <1>4, RanType, TuneAssumption
    <3>4. <<bits, cur>> \in Ran(build, Start, Entry, FALSE).ran
      BY <1>2, <3>2, <3>3
    <3> QED
      BY <2>1, <3>4, FrameOfEntry
  <2>2. CASE at # Entry
    <3>1. /\ i \in 1..Len(Code[at]) /\ Code[at][i].op = "call" /\ Code[at][i].to = cur
          /\ cur \in Modelled[Setting(Before.ram)]
          /\ Code[at] \in Seq(CodeStep) /\ Len(Code[at]) \in Nat
      BY <1>2, <2>2, CodeIs DEF Entering
    <3>2. /\ Before \in Machine /\ ~Before.gone /\ Code[at][i] \in CodeStep
          /\ i - 1 \in 0..(Len(Code[at]) - 1) /\ (i - 1) + 1 = i /\ i \in 0..Len(Code[at])
      BY <1>2, <3>1, BeforeType DEF PlayInv
    <3> DEFINE n == CodeAfter(build, Start, Code[at], i)
    <3>3. n = CodeStepped(build, Before, Code[at][i])
      <4>1. CodeAfter(build, Start, Code[at], (i - 1) + 1) =
              CodeStepped(build, CodeAfter(build, Start, Code[at], i - 1),
                          Code[at][(i - 1) + 1])
        BY <3>1, <3>2, CodeNext
      <4> QED
        BY <3>2, <4>1 DEF Before
    <3>4. Ran(build, Before, cur, TRUE).ran \subseteq n.ran
      BY <1>4, <3>1, <3>2, <3>3, Called
    <3>5. \A c : Ran(build, Before, cur, c).ran =
                   Before.ran \cup {<<Setting(Before.ram), cur>>}
      BY <1>2, <1>4, <3>2, RanType
    <3>6. <<bits, cur>> \in Ran(build, Before, cur, TRUE).ran
      BY <1>2, <3>5 DEF Alike
    <3>7. n.ran \subseteq Frame(build, at, Base, saved.store, saved.cpu).ran
      BY <1>2, <2>2, <3>2, FrameComes DEF PlayInv
    <3> QED
      BY <3>4, <3>6, <3>7
  <2> QED
    BY <2>1, <2>2
<1> QED
  BY <1>2, <1>3, <1>5 DEF Missing

(* A step inside a frame that learns nothing misses what was missing.      *)
LEMMA MissingHeld ==
    ASSUME UNCHANGED <<build, known, compiled>>, NEW p, NEW r, NEW c, NEW a
    PROVE  Missing(p, r, c, a)' <=> Missing(p, r, c, a)
  BY DEF Missing

(* What it has to teach stays missing until Python plays the frame.        *)
LEMMA NextTaught ==
    ASSUME PlayInv, [Next]_vars
    PROVE  Taught'
<1>1. CASE User
  BY <1>1 DEF Taught, User, Reroute, SetState, PlayAfter, Render, heur
<1>2. CASE Prepare \/ BeginFrame \/ EndRun \/ EndFrame \/ EndSpec
  <2>1. status' # "need"
    <3>1. pc \in {"frame", "code", "spec"} => status = "ok"
      BY DEF PlayInv, IInv, Counts
    <3> QED
      BY <1>2, <3>1 DEF Prepare, BeginFrame, EndRun, EndFrame, EndSpec, Core
  <2> QED
    BY <2>1 DEF Taught
<1>3. CASE Return
  <2>1. SUFFICES ASSUME status = "need" PROVE Missing(play, ram, ctl, acc)'
    BY <1>3, <2>1 DEF Taught, Return
  <2>2. Missing(play, ram, store, cpu)
    BY <1>3, <2>1 DEF PlayInv, Taught, Return
  <2>3. play' = play
    <3>1. /\ frames \in Nat /\ played \in Nat /\ left \in Nat /\ left >= 1
          /\ after # Never => frames + played + left <= after.frames /\ after.frames \in Nat
      BY <1>3, <2>1 DEF PlayInv, IInv, TypeOK, Counts, Due, Return, InRun, InFrame
    <3> QED
      BY <1>3, <3>1 DEF Return, PlayThen, Switches
  <2>4. ram' = ram /\ ctl' = store /\ acc' = cpu /\ UNCHANGED <<build, known, compiled>>
    BY <1>3 DEF Return, learned
  <2> QED
    BY <2>2, <2>3, <2>4 DEF Missing
<1>4. CASE PlayPython
  BY <1>4 DEF Taught, PlayPython, heur
<1>5. CASE EnterSpec
  <2>1. CASE pc' = "undo"
    <3>1. Missing(play, Base, saved.store, saved.cpu)
      BY <1>5, <2>1, EnterMisses
    <3>2. UNCHANGED <<build, known, compiled, play, saved>> /\ pc = "enter"
      BY <1>5 DEF EnterSpec, user, learned
    <3>3. Base' = Base
      BY <2>1, <3>2, StartHeld DEF InFrame, PlayInv
    <3> QED
      BY <2>1, <3>1, <3>2, <3>3 DEF Taught, Missing
  <2>2. CASE pc' = "spec"
    BY <2>2 DEF Taught
  <2> QED
    BY <1>5, <2>1, <2>2 DEF EnterSpec, Bail
<1>6. CASE RunCode
  <2> PICK step \in CodeSteps :
        Poke(step) \/ Peek(step) \/ Ask(step) \/ Bank(step) \/ CallOwn(step) \/ Call(step)
    BY <1>6 DEF RunCode
  <2>1. CASE Bank(step) /\ pc' = "undo"
    <3>1. Missing(play, Base, saved.store, saved.cpu)
      BY <2>1, BankMisses
    <3>2. UNCHANGED <<build, known, compiled, play, saved>> /\ pc = "code"
      BY <2>1 DEF Bank, Do, user, learned
    <3>3. Base' = Base
      BY <2>1, <3>2, StartHeld DEF InFrame, PlayInv
    <3> QED
      BY <2>1, <3>1, <3>2, <3>3 DEF Taught, Missing
  <2>2. CASE Bank(step) /\ pc' # "undo"
    BY <2>2 DEF Taught, Bank, Bail, Do
  <2>3. CASE Poke(step) \/ Peek(step) \/ CallOwn(step) \/ Call(step)
    BY <2>3 DEF Taught, Poke, Peek, CallOwn, Call, Do
  <2>4. CASE Ask(step)
    BY <2>4 DEF Taught, Ask, Do, Bail
  <2> QED
    BY <2>1, <2>2, <2>3, <2>4
<1>7. CASE RunSpec
  <2>1. pc' \in {"spec", "code"} \/ status' = "bail"
    BY <1>7
    DEF RunSpec, CountState, Load, Store, AskSpec, RunNative, Does, Bail
  <2> QED
    BY <2>1 DEF Taught
<1>8. CASE UndoStore
  <2>1. UNCHANGED <<build, known, compiled, play, saved, status, pc>> /\ pc = "undo"
    BY <1>8 DEF UndoStore, user, learned, Core
  <2>2. Base' = Base
    BY <2>1, StartHeld DEF InFrame, PlayInv
  <2>3. status = "need" => Missing(play, Base, saved.store, saved.cpu)
    BY <2>1 DEF PlayInv, Taught
  <2> QED
    BY <2>1, <2>2, <2>3 DEF Taught, Missing
<1>9. CASE Undone
  <2>1. /\ UNCHANGED <<build, known, compiled, play, status, ram>>
        /\ pc = "undo" /\ pc' = "return" /\ log = <<>>
        /\ store' = saved.store /\ cpu' = saved.cpu
    BY <1>9 DEF Undone, Python, Core, machine, user, learned
  <2>2. Base = ram
    BY <2>1, NothingUndone DEF Base, PlayInv, IInv, TypeOK
  <2>3. status = "need" => Missing(play, ram, store', cpu')
    BY <2>1, <2>2 DEF PlayInv, Taught
  <2> QED
    BY <2>1, <2>3 DEF Taught, Missing
<1>10. CASE UNCHANGED vars
  <2>1. UNCHANGED <<pc, ram, ctl, acc, build, play, known, compiled, fast, cpu, store, log,
                    saved, status>>
    BY <1>10 DEF vars, machine, user, learned, heur, frame
  <2> QED
    BY <2>1 DEF PlayInv, Taught, Missing, Base, Undoing, Logged, First
<1> QED
  BY <1>1, <1>2, <1>3, <1>4, <1>5, <1>6, <1>7, <1>8, <1>9, <1>10 DEF Next, Advance, Finished

LEMMA NextPlay == ~Late /\ PlayInv /\ [Next]_vars => PlayInv'
  BY NextInv, NextSettled, NextDue, NextFollows, NextTaught DEF PlayInv

LEMMA PlayInvariant == ASSUME ~Late PROVE Spec => []PlayInv
  BY InitPlay, NextPlay, PTL DEF Spec

-----------------------------------------------------------------------------
(* The refinement.                                                         *)

(* Python's player as the core's stands for it.                            *)
TheRam == IF InFrame THEN Base ELSE ram
TheCtl == IF InFrame THEN saved.store ELSE IF InRun THEN store ELSE ctl
TheAcc == IF InFrame THEN saved.cpu ELSE IF InRun THEN cpu ELSE acc
ThePlay == IF played > 0 THEN PlayThen(play, after, frames + played) ELSE play
TheAfter == IF played > 0 THEN AfterThen(after, frames + played) ELSE after

LEMMA Stutters ==
    ASSUME TheRam' = TheRam, TheCtl' = TheCtl, TheAcc' = TheAcc, ThePlay' = ThePlay,
           TheAfter' = TheAfter, build' = build, last' = last,
           frames' + played' = frames + played, want' - played' = want - played
    PROVE  UNCHANGED Abstract!vars
  BY DEF Abstract!vars, TheRam, TheCtl, TheAcc, ThePlay, TheAfter

LEMMA SameSwitch ==
    ASSUME NEW p, NEW a, NEW n
    PROVE  /\ Abstract!PlayThen(p, a, n) = PlayThen(p, a, n)
           /\ Abstract!AfterThen(a, n) = AfterThen(a, n)
  BY DEF Abstract!PlayThen, PlayThen, Abstract!AfterThen, AfterThen, Abstract!Switches,
         Switches, Abstract!Never, Never

(* A frame of Python's, as a step of the player's.                         *)
LEMMA PlaysFrame ==
    ASSUME NEW m, m = Frame(build, ThePlay, TheRam, TheCtl, TheAcc),
           want - played > 0, want' - played' = (want - played) - 1,
           TheRam' = m.ram, TheCtl' = m.ctl, TheAcc' = m.acc,
           last' = <<m.ram[Sid], m.writes, m.entered>>,
           frames' + played' = (frames + played) + 1,
           ThePlay' = PlayThen(ThePlay, TheAfter, frames' + played'),
           TheAfter' = AfterThen(TheAfter, frames' + played'),
           build' = build
    PROVE  Abstract!PlayFrame
  BY SameFrame, SameSwitch
  DEF Abstract!PlayFrame, TheRam, TheCtl, TheAcc, ThePlay, TheAfter, Abstract!Sid, Sid

(* The player begins as Python's does.                                     *)
LEMMA InitMaps == Init => Abstract!PyInit
<1> SUFFICES ASSUME Init PROVE Abstract!PyInit
  OBVIOUS
<1>1. /\ ram \in [Cells -> Byte] /\ ctl \in Byte /\ acc \in Byte /\ build = Unrouted
      /\ play \in Plays /\ after = Never /\ frames = 0 /\ want = 0 /\ played = 0
      /\ last = <<>> /\ ~InFrame /\ ~InRun
  BY NativeAssumption DEF Init, InFrame, InRun, Byte
<1> QED
  BY <1>1
  DEF Abstract!PyInit, Abstract!Cells, Cells, Abstract!Byte, Byte, Abstract!Unrouted,
      Unrouted, Abstract!Never, Never

LEMMA LessNothing == ASSUME NEW n \in Nat, NEW z, z = 0 PROVE n - z \in Nat
  OBVIOUS

(* What the user does between calls is what Python's user does.            *)
LEMMA UserMaps == ASSUME PlayInv, User PROVE Abstract!PyNext
<1>1. /\ pc = "idle" /\ want = 0 /\ played = 0 /\ frames \in Nat
      /\ UNCHANGED <<ram, acc, play, frames, played, last, store, cpu, saved, log>>
      /\ pc' \in {"idle", "machine", "python"}
  BY DEF PlayInv, IInv, TypeOK, Counts, Settled, InRun, InFrame, User, Reroute, SetState,
         PlayAfter, Render, machine, user, frame
<1>2. /\ ~InRun /\ ~InRun' /\ ~InFrame /\ ~InFrame' /\ want - played = 0
  BY <1>1 DEF InRun, InFrame
<1>3. CASE \E b \in Builds : Reroute(b)
  <2>1. IsBuild(build') /\ UNCHANGED <<ctl, after, want>>
    BY <1>3, NativeAssumption DEF Reroute, machine
  <2>2. Abstract!IsBuild(build')
    BY <2>1 DEF IsBuild, Abstract!IsBuild, Cells, Abstract!Cells, Route, Abstract!Route,
                Byte, Abstract!Byte, Nowhere, Abstract!Nowhere
  <2> QED
    BY <1>1, <1>2, <2>1, <2>2 DEF Abstract!PyNext, Abstract!Reroute
<1>4. CASE \E v \in States : SetState(v)
  <2>1. ctl' \in Byte /\ UNCHANGED <<build, after, want>>
    BY <1>4, NativeAssumption DEF SetState, user
  <2> QED
    BY <1>1, <1>2, <2>1 DEF Abstract!PyNext, Abstract!SetState, Abstract!Byte, Byte
<1>5. CASE \E n \in 1..MaxFrames, p \in Plays : PlayAfter(n, p)
  <2>1. after' \in [frames : Nat, play : Plays] /\ UNCHANGED <<ctl, build, want>>
    BY <1>5, NativeAssumption DEF PlayAfter, machine
  <2> QED
    BY <1>1, <1>2, <2>1 DEF Abstract!PyNext, Abstract!PlayAfter
<1>6. CASE \E n \in 1..MaxFrames : Render(n)
  <2>1. want' \in Nat /\ UNCHANGED <<ctl, build, after>>
    BY <1>6, NativeAssumption DEF Render, machine, user
  <2> QED
    <3>1. want' - played' \in Nat
      <4>1. played' = 0 /\ want' \in Nat
        BY <1>1, <2>1
      <4> QED
        BY <4>1, LessNothing
    <3>2. Abstract!Render
      BY <1>1, <1>2, <2>1, <3>1 DEF Abstract!Render
    <3> QED
      BY <3>2 DEF Abstract!PyNext
<1> QED
  BY <1>3, <1>4, <1>5, <1>6 DEF User

(* A frame Python plays is one of Python's.                                *)
LEMMA PythonMaps == ASSUME PlayInv, PlayPython PROVE Abstract!PyNext
<1> DEFINE m == Frame(build, play, ram, ctl, acc)
<1>1. /\ pc = "python" /\ played = 0 /\ frames \in Nat /\ want \in Nat /\ want >= 1
      /\ ~InRun /\ ~InFrame
  BY DEF PlayInv, IInv, TypeOK, Counts, PlayPython, InRun, InFrame
<1>2. /\ ram' = m.ram /\ ctl' = m.ctl /\ acc' = m.acc
      /\ frames' = frames + 1 /\ want' = want - 1 /\ played' = played /\ build' = build
      /\ play' = PlayThen(play, after, frames') /\ after' = AfterThen(after, frames')
      /\ last' = <<m.ram[Sid], m.writes, m.entered>>
      /\ ~InRun' /\ ~InFrame'
  BY DEF PlayPython, InRun, InFrame
<1>3. ThePlay = play /\ TheAfter = after /\ TheRam = ram /\ TheCtl = ctl /\ TheAcc = acc
  BY <1>1 DEF ThePlay, TheAfter, TheRam, TheCtl, TheAcc
<1>4. /\ ThePlay' = play' /\ TheAfter' = after' /\ TheRam' = ram' /\ TheCtl' = ctl'
      /\ TheAcc' = acc'
  BY <1>1, <1>2 DEF ThePlay, TheAfter, TheRam, TheCtl, TheAcc
<1> HIDE DEF m
<1>5. Abstract!PlayFrame
  <2>1. m = Frame(build, ThePlay, TheRam, TheCtl, TheAcc)
    BY <1>3 DEF m
  <2> QED
    BY <1>1, <1>2, <1>3, <1>4, <2>1, PlaysFrame
<1> QED
  BY <1>5 DEF Abstract!PyNext

(* So is a frame the core ends.                                            *)
LEMMA EndFrameMaps == ASSUME PlayInv, EndFrame PROVE Abstract!PyNext
<1> DEFINE m == Frame(build, play, Base, saved.store, saved.cpu)
<1>1. /\ pc = "code" /\ i > Len(Code[at]) /\ played' = played + 1 /\ pc' = "frame"
      /\ last' = <<ram[Sid], sid, calls>>
      /\ UNCHANGED <<ram, ctl, acc, build, play, after, frames, want, store, cpu>>
  BY DEF EndFrame, Python, machine, user, frame
<1>2. /\ InRun /\ InFrame /\ InRun' /\ ~InFrame'
      /\ played \in Nat /\ frames \in Nat /\ want \in Nat /\ left \in Nat /\ left >= 1
      /\ played + left <= want
      /\ after # Never => after.frames \in Nat /\ frames + played + left <= after.frames
  BY <1>1 DEF PlayInv, IInv, TypeOK, Counts, Due, InRun, InFrame
<1>3. at \in Plays /\ at = play
  BY <1>2, AtPlays DEF PlayInv, Settled
<1>4. m.ram = ram /\ m.ctl = store /\ m.acc = cpu /\ m.writes = sid /\ m.entered = calls
  <2>1. CASE at = Entry
    <3>1. Alike(Ran(build, Start, Entry, FALSE))
      BY <1>1, <2>1 DEF PlayInv, Following
    <3> QED
      BY <1>3, <2>1, <3>1, FrameOfEntry DEF Alike
  <2>2. CASE at # Entry
    <3>1. i - 1 = Len(Code[at]) /\ Alike(Before)
      BY <1>1, <1>3, <2>2, CodeIs DEF PlayInv, Following
    <3>2. Alike(CodeAfter(build, Start, Code[at], Len(Code[at])))
      BY <3>1 DEF Before
    <3> QED
      BY <1>3, <2>2, <3>2, FrameOfCode DEF Alike
  <2> QED
    BY <2>1, <2>2
<1>5. ThePlay = play /\ TheAfter = after
  BY <1>2 DEF ThePlay, TheAfter, PlayThen, AfterThen, Switches
<1>6. /\ ThePlay' = PlayThen(play, after, frames' + played')
      /\ TheAfter' = AfterThen(after, frames' + played')
  BY <1>1, <1>2 DEF ThePlay, TheAfter
<1>7. /\ TheRam = Base /\ TheCtl = saved.store /\ TheAcc = saved.cpu
      /\ TheRam' = ram' /\ TheCtl' = store' /\ TheAcc' = cpu'
  BY <1>2 DEF TheRam, TheCtl, TheAcc
<1> HIDE DEF m
<1>8. Abstract!PlayFrame
  <2>1. m = Frame(build, ThePlay, TheRam, TheCtl, TheAcc)
    BY <1>5, <1>7 DEF m
  <2>2. TheRam' = m.ram /\ TheCtl' = m.ctl /\ TheAcc' = m.acc
    BY <1>1, <1>4, <1>7
  <2>3. last' = <<m.ram[Sid], m.writes, m.entered>>
    BY <1>1, <1>4
  <2>4. /\ want - played > 0 /\ want' - played' = (want - played) - 1
        /\ frames' + played' = (frames + played) + 1
    BY <1>1, <1>2
  <2> QED
    BY <1>1, <1>5, <1>6, <2>1, <2>2, <2>3, <2>4, PlaysFrame
<1> QED
  BY <1>8 DEF Abstract!PyNext

(* Every other step is not seen.                                           *)
LEMMA CoreStutters ==
    ASSUME PlayInv, InFrame, InFrame', Base' = Base,
           UNCHANGED <<saved, build, play, after, frames, want, played, last>>
    PROVE  UNCHANGED Abstract!vars
<1>1. InRun /\ InRun'
  BY DEF InRun
<1>2. TheRam' = TheRam /\ TheCtl' = TheCtl /\ TheAcc' = TheAcc
  BY <1>1 DEF TheRam, TheCtl, TheAcc
<1>3. ThePlay' = ThePlay /\ TheAfter' = TheAfter
  BY DEF ThePlay, TheAfter
<1> QED
  BY <1>2, <1>3, Stutters

LEMMA StepMaps ==
    ASSUME PlayInv, [Next]_vars
    PROVE  [Abstract!PyNext]_(Abstract!vars)
<1>0. /\ played \in Nat /\ frames \in Nat /\ want \in Nat /\ left \in Nat
      /\ after # Never => after.frames \in Nat /\ after.frames > frames
      /\ ram \in [Cells -> Byte]
  BY DEF PlayInv, IInv, TypeOK, Due
<1>1. CASE User
  BY <1>1, UserMaps
<1>2. CASE PlayPython
  BY <1>2, PythonMaps
<1>3. CASE EndFrame
  BY <1>3, EndFrameMaps
<1>4. CASE Prepare
  <2>1. /\ pc = "machine" /\ pc' = "frame" /\ played' = 0 /\ played = 0
        /\ store' = ctl /\ cpu' = acc
        /\ UNCHANGED <<ram, build, play, after, frames, want, last>>
    BY <1>4 DEF PlayInv, IInv, Counts, Prepare, InRun, InFrame, machine, user
  <2>2. ~InRun /\ ~InFrame /\ InRun' /\ ~InFrame'
    BY <2>1 DEF InRun, InFrame
  <2>3. /\ TheRam' = TheRam /\ TheCtl' = TheCtl /\ TheAcc' = TheAcc
        /\ ThePlay' = ThePlay /\ TheAfter' = TheAfter
    BY <2>1, <2>2 DEF TheRam, TheCtl, TheAcc, ThePlay, TheAfter
  <2> QED
    BY <2>1, <2>3, Stutters
<1>5. CASE Return
  <2>1. /\ pc = "return" /\ pc' \in {"python", "idle", "machine"} /\ played' = 0
        /\ acc' = cpu /\ ctl' = store
        /\ want' = want - played /\ frames' = frames + played
        /\ play' = PlayThen(play, after, frames') /\ after' = AfterThen(after, frames')
        /\ UNCHANGED <<ram, build, last>>
    BY <1>5 DEF Return
  <2>2. InRun /\ ~InFrame /\ ~InRun' /\ ~InFrame'
    BY <2>1 DEF InRun, InFrame
  <2>3. TheRam' = TheRam /\ TheCtl' = TheCtl /\ TheAcc' = TheAcc
    BY <2>1, <2>2 DEF TheRam, TheCtl, TheAcc
  <2>4. ThePlay' = ThePlay /\ TheAfter' = TheAfter
    <3>1. played = 0 => PlayThen(play, after, frames) = play
                        /\ AfterThen(after, frames) = after
      BY <1>0 DEF PlayThen, AfterThen, Switches
    <3> QED
      BY <1>0, <2>1, <3>1 DEF ThePlay, TheAfter
  <2>5. frames' + played' = frames + played /\ want' - played' = want - played
    BY <1>0, <2>1
  <2> QED
    BY <2>1, <2>3, <2>4, <2>5, Stutters
<1>6. CASE BeginFrame
  <2>1. /\ pc = "frame" /\ pc' \in {"enter", "code"} /\ log' = <<>>
        /\ saved'.store = store /\ saved'.cpu = cpu
        /\ UNCHANGED <<ram, build, play, after, frames, want, played, last>>
    BY <1>6 DEF BeginFrame, Python, Core, machine, user
  <2>2. InRun /\ ~InFrame /\ InRun' /\ InFrame'
    BY <2>1 DEF InRun, InFrame
  <2>3. Base' = ram
    BY <1>0, <2>1, NothingUndone DEF Base
  <2>4. /\ TheRam' = TheRam /\ TheCtl' = TheCtl /\ TheAcc' = TheAcc
        /\ ThePlay' = ThePlay /\ TheAfter' = TheAfter
    BY <2>1, <2>2, <2>3 DEF TheRam, TheCtl, TheAcc, ThePlay, TheAfter
  <2> QED
    BY <2>1, <2>4, Stutters
<1>7. CASE EndRun
  <2>1. /\ pc = "frame" /\ pc' = "return"
        /\ UNCHANGED <<ram, store, cpu, build, play, after, frames, want, played, last>>
    BY <1>7 DEF EndRun, Python, Core, machine, user
  <2>2. InRun /\ ~InFrame /\ InRun' /\ ~InFrame'
    BY <2>1 DEF InRun, InFrame
  <2>3. /\ TheRam' = TheRam /\ TheCtl' = TheCtl /\ TheAcc' = TheAcc
        /\ ThePlay' = ThePlay /\ TheAfter' = TheAfter
    BY <2>1, <2>2 DEF TheRam, TheCtl, TheAcc, ThePlay, TheAfter
  <2> QED
    BY <2>1, <2>3, Stutters
<1>8. CASE Undone
  <2>1. /\ pc = "undo" /\ pc' = "return" /\ log = <<>>
        /\ store' = saved.store /\ cpu' = saved.cpu
        /\ UNCHANGED <<ram, build, play, after, frames, want, played, last>>
    BY <1>8 DEF Undone, Python, Core, machine, user
  <2>2. InRun /\ InFrame /\ InRun' /\ ~InFrame'
    BY <2>1 DEF InRun, InFrame
  <2>3. Base = ram
    BY <1>0, <2>1, NothingUndone DEF Base
  <2>4. /\ TheRam' = TheRam /\ TheCtl' = TheCtl /\ TheAcc' = TheAcc
        /\ ThePlay' = ThePlay /\ TheAfter' = TheAfter
    BY <2>1, <2>2, <2>3 DEF TheRam, TheCtl, TheAcc, ThePlay, TheAfter
  <2> QED
    BY <2>1, <2>4, Stutters
<1>9. CASE RunCode \/ EnterSpec \/ RunSpec \/ EndSpec \/ UndoStore
  <2>1. /\ InFrame /\ pc' \in {"enter", "code", "spec", "undo"}
        /\ UNCHANGED <<saved, build, play, after, frames, want, played, last>>
    <3>1. CASE RunCode
      BY <3>1
      DEF RunCode, Poke, Peek, Ask, Bank, CallOwn, Call, Do, Bail, Python, Core, user,
          frame, InFrame
    <3>2. CASE RunSpec
      BY <3>2
      DEF RunSpec, CountState, Load, Store, AskSpec, RunNative, Does, Bail, Python, Core,
          user, frame, InFrame
    <3>3. CASE EnterSpec \/ EndSpec \/ UndoStore
      BY <3>3 DEF EnterSpec, EndSpec, UndoStore, Bail, Python, Core, user, frame, InFrame
    <3> QED
      BY <1>9, <3>1, <3>2, <3>3
  <2>2. Base' = Base
    BY <2>1, NextLog DEF PlayInv, IInv
  <2>3. InFrame'
    BY <2>1 DEF InFrame
  <2> QED
    BY <2>1, <2>2, <2>3, CoreStutters
<1>10. CASE UNCHANGED vars
  <2>1. UNCHANGED <<pc, ram, ctl, acc, build, play, after, frames, want, cpu, store, log,
                    saved, played, last>>
    BY <1>10 DEF vars, machine, user, frame
  <2>2. /\ TheRam' = TheRam /\ TheCtl' = TheCtl /\ TheAcc' = TheAcc
        /\ ThePlay' = ThePlay /\ TheAfter' = TheAfter
    BY <2>1 DEF TheRam, TheCtl, TheAcc, ThePlay, TheAfter, InFrame, InRun, Base, Undoing,
                Logged, First
  <2> QED
    BY <2>1, <2>2, Stutters
<1> QED
  BY <1>1, <1>2, <1>3, <1>4, <1>5, <1>6, <1>7, <1>8, <1>9, <1>10 DEF Next, Advance, Finished

-----------------------------------------------------------------------------
(* The native core's results are those of the Python executor, as           *)
(* docs/native-spec.md promises: whatever frames are given up and undone,    *)
(* and whatever the user changes between calls, the frames played are those  *)
(* PythonPlayer plays.                                                      *)
THEOREM CorePlaysAsPython == ASSUME ~Late PROVE Spec => PlaysAsPython
<1>1. PlayInv /\ [Next]_vars => [Abstract!PyNext]_(Abstract!vars)
  BY StepMaps
<1> QED
  BY <1>1, InitMaps, PlayInvariant, PTL DEF Spec, PlaysAsPython, Abstract!PySpec

(* A frame given up because a spec or a memory map had not been built makes *)
(* Python build it.                                                         *)
THEOREM NeedsTeach == ASSUME ~Late PROVE Spec => NeedTeaches
<1>1. PlayInv /\ [Next]_vars =>
        [pc = "python" /\ fast /\ status = "need" /\ frames' # frames
           => known' # known \/ compiled' # compiled]_vars
  <2> SUFFICES ASSUME PlayInv, Next, pc = "python", fast, status = "need",
                      frames' # frames
               PROVE  known' # known \/ compiled' # compiled
    OBVIOUS
  <2>1. Missing(play, ram, ctl, acc)
    BY DEF PlayInv, Taught
  <2>2. PlayPython
    <3>1. CASE RunCode
      BY <3>1 DEF RunCode, Poke, Peek, Ask, Bank, CallOwn, Call, Do
    <3>2. CASE RunSpec
      BY <3>2 DEF RunSpec, CountState, Load, Store, AskSpec, RunNative, Does
    <3>3. CASE User \/ Finished
      BY <3>3 DEF User, Reroute, SetState, PlayAfter, Render, Finished
    <3>4. CASE Prepare \/ Return \/ BeginFrame \/ EndRun \/ EndFrame \/ EnterSpec
               \/ EndSpec \/ UndoStore \/ Undone
      BY <3>4 DEF Prepare, Return, BeginFrame, EndRun, EndFrame, EnterSpec, EndSpec,
                  UndoStore, Undone
    <3> QED
      BY <3>1, <3>2, <3>3, <3>4 DEF Next, Advance
  <2> DEFINE m == Frame(build, play, ram, ctl, acc)
  <2>3. known' = known \cup m.seen /\ compiled' = compiled \cup m.ran
    BY <2>2 DEF PlayPython
  <2>4. ~(m.seen \subseteq known) \/ ~(m.ran \subseteq compiled)
    BY <2>1 DEF Missing
  <2> HIDE DEF m
  <2> QED
    BY <2>3, <2>4
<1> QED
  BY <1>1, PlayInvariant, PTL DEF Spec, NeedTeaches
==============================================================================
