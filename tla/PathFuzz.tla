------------------------------ MODULE PathFuzz ------------------------------
(***************************************************************************)
(* Generated inputs for fault localisation (pathfuzz.py): the branch       *)
(* outcomes a tune never takes, the mutations that are tried for them in   *)
(* turn (exercise), and the smallest change and number of frames that      *)
(* keep a fault (minimise).  Offsets of a file count from 0, frames and    *)
(* the entries of a patch from 1.                                          *)
(***************************************************************************)
EXTENDS PathDiff

-----------------------------------------------------------------------------
(* Patches.                                                                *)

\* The last entry for an offset wins, and the byte's low bits are written.
Entries(patch, o) == {n \in DOMAIN patch : patch[n][1] = o}
apply_patch(data, patch) ==
    [o \in DOMAIN data |-> IF Entries(patch, o) = {} THEN data[o] ELSE patch[Max(Entries(patch, o))][2] % Bytes]

\* The bytes of original that differ in mutated, of the same length.
make_patch(original, mutated) == [o \in {x \in DOMAIN original : original[x] # mutated[x]} |-> mutated[o]]
Written(data, bytes) == [o \in DOMAIN data |-> IF o \in DOMAIN bytes THEN bytes[o] ELSE data[o]]

\* The file offsets of the addresses that are in the image of a file, loaded at load
\* after a header of some bytes.
addr_to_offset(data, header, load, addrs) ==
    {header + (a - load) : a \in {x \in addrs : load <= x /\ header + (x - load) \in DOMAIN data}}

-----------------------------------------------------------------------------
(* Coverage.  frames are the features each play call ran; universe is a    *)
(* function of the outcomes of the branches to their branches.             *)

covered(frames) == UNION Range(frames)
gaps(frames, universe) == DOMAIN universe \ covered(frames)

\* An unreached outcome of a branch that ran, and the first frame in which it did.
Siblings(universe, name) == {n \in DOMAIN universe : universe[n] = universe[name]}
Member(frames, universe, name) == {k \in DOMAIN frames : Siblings(universe, name) \intersect frames[k] # {}}
targets(frames, universe) ==
    {t \in [name : DOMAIN universe, frame : DOMAIN frames] :
       /\ t.name \in gaps(frames, universe)
       /\ t.frame \in Member(frames, universe, t.name)
       /\ \A k \in Member(frames, universe, t.name) : t.frame <= k}

\* The orders of some targets that have the earliest frame first, then the least name.
Earliest(t, u) == t.frame < u.frame \/ (t.frame = u.frame /\ t.name <= u.name)
Sorted(T) ==
    {order \in [1..Cardinality(T) -> T] :
       /\ T = {order[n] : n \in 1..Cardinality(T)}
       /\ \A m, n \in 1..Cardinality(T) : m < n => order[m] # order[n] /\ Earliest(order[m], order[n])}

\* The bytes to try for v: those the flags were compared with, then bit flips, the
\* neighbours and the extremes; bits are the values of a byte's bits, the highest
\* first.
values(v, bits, boundaries) ==
    LET Flipped(b) == IF (v \div b) % 2 = 1 THEN v - b ELSE v + b
        all == boundaries \o [k \in DOMAIN bits |-> Flipped(bits[k])] \o <<v + 1, v - 1, 0, Bytes - 1>>
        out == [k \in DOMAIN all |-> all[k] % Bytes]
        Fresh_(k) == out[k] # v /\ \A j \in 1..(k - 1) : out[j] # out[k]
    IN  [k \in 1..Cardinality({j \in DOMAIN out : Fresh_(j)}) |->
           out[CHOOSE j \in DOMAIN out : Fresh_(j) /\ Cardinality({i \in 1..j : Fresh_(i)}) = k]]

\* The mutations <<offset, byte>> for a target: of the ranked offsets first those of
\* their values, then, in any order, the other bytes.
mutations(data, ranked, bits, boundaries) ==
    [first |-> FlattenSeq([k \in DOMAIN ranked |->
                   LET some == values(data[ranked[k]], bits, boundaries[k])
                   IN  [j \in DOMAIN some |-> <<ranked[k], some[j]>>]]),
     rest |-> {p \in Range(ranked) \X (0..(Bytes - 1)) : p[2] # data[p[1]]}]

-----------------------------------------------------------------------------
(* exercise.  A request f is [frames, universe, side, gen, budget, margin, *)
(* error]: the features of the tune's own run, the universe of a side, the *)
(* candidates of each outcome, the tries and the frames to add to a try,   *)
(* and whether the right side fails on the tune itself.                    *)

\* A target's candidates that no try has had; those of its values come first.
Untried(gen, tried) == {n \in DOMAIN gen.first : gen.first[n] \notin tried}
Picks(gen, tried) ==
    IF Untried(gen, tried) = {} THEN gen.rest \ tried
    ELSE {gen.first[n] : n \in {k \in Untried(gen, tried) : \A j \in Untried(gen, tried) : k <= j}}
Mutations(gen) == Range(gen.first) \union gen.rest

\* The frames a try for a target runs.
Length(f, t) == Least(t.frame + f.margin + LEAD, Len(f.frames))

exercise(f) ==
    {[f |-> f, todo |-> todo, seen |-> covered(f.frames), tried |-> {}, mutants |-> <<>>,
      turns |-> [t \in targets(f.frames, f.universe) |-> 0]] :
       todo \in Sorted(targets(f.frames, f.universe))}
Trying(x) == x.todo # <<>> /\ Cardinality(x.tried) < x.f.budget

\* The first target has been reached, maybe by a try for another, or has no candidate
\* left.
Done(x) ==
    \/ Head(x.todo).name \in x.seen
    \/ Picks(x.f.gen[Head(x.todo).name], x.tried) = {}
Dropped(x) == [x EXCEPT !.todo = Tail(@)]

\* Mutant: a try is kept only if it reaches what it aimed at.
NewIfHit(t, new) == t.name \in new
IsNew(t, new) == new # {}

\* A try of the first target: reached are the features of both sides, fails says that
\* the right side does, wrong that it mismatches elsewhere than on the tune itself.
Departs(f, fails, wrong) == IF fails \/ f.error THEN ~f.error ELSE wrong
Tried(x, pick, reached, fails, wrong) ==
    LET t   == Head(x.todo)
        new == reached \ x.seen
        mutant == [patch |-> pick, target |-> t, frames |-> Length(x.f, t), hit |-> t.name \in new,
                   new |-> new, diverges |-> Departs(x.f, fails, wrong)]
    IN  [f |-> x.f, todo |-> Append(Tail(x.todo), t), tried |-> x.tried \union {pick},
         seen |-> x.seen \union new,
         mutants |-> IF IsNew(t, new) THEN Append(x.mutants, mutant) ELSE x.mutants,
         turns |-> [x.turns EXCEPT ![t] = @ + 1]]
-----------------------------------------------------------------------------
(* minimise.  A request r is [data, patched, patch, addrs, header, load,   *)
(* neutral, pred, frames]: what is to be reduced are the entries of a      *)
(* patch, if one is given, or else the bytes of data at some addresses, of *)
(* which the others become neutral; pred is a function of the bytes to the *)
(* numbers of frames in which they show the fault.                         *)

removable(r) ==
    IF r.patched THEN DOMAIN r.patch
    ELSE {o \in addr_to_offset(r.data, r.header, r.load, r.addrs) : r.data[o] # r.neutral}
built(r, kept) ==
    apply_patch(r.data, IF r.patched THEN Restrict(r.patch, kept)
                        ELSE [o \in removable(r) \ kept |-> <<o, r.neutral>>])
Passes(r, kept, n) == n \in r.pred[built(r, kept)]

\* Whether, within n frames, the right side first departs from the left at a register.
same_onset(left, right, register, n) ==
    LET cut == compare(SubSeq(left, 1, n), SubSeq(right, 1, n + LEAD), "lead", <<>>)
    IN  cut.frame # 0 /\ cut.register = register

\* One of k parts of a set of numbers in their order, the first ones longer by one.
Upto(S, k, j) == j * (Cardinality(S) \div k) + Least(j, Cardinality(S) % k)
Place(S, x) == Cardinality({y \in S : y <= x})
Part(S, k, j) == {x \in S : Upto(S, k, j - 1) < Place(S, x) /\ Place(S, x) <= Upto(S, k, j)}

minimise(r) ==
    [at |-> IF Passes(r, removable(r), r.frames) THEN "frames" ELSE "refused",
     items |-> removable(r), lo |-> 1, hi |-> r.frames, n |-> 2, frames |-> r.frames]

\* first_true: the frames are bisected, before (frames) and after the ddmin (again).
Bisecting(m) == m.at \in {"frames", "again"} /\ m.lo < m.hi
Bisected(r, m) ==
    LET mid == (m.lo + m.hi) \div 2
    IN  IF Passes(r, m.items, mid) THEN [m EXCEPT !.hi = mid] ELSE [m EXCEPT !.lo = mid + 1]
Again(m, items) == [m EXCEPT !.at = "again", !.items = items, !.lo = 1, !.hi = m.frames]
FramesFound(m) == m.at \in {"frames", "again"} /\ m.lo >= m.hi
Found(r, m) ==
    CASE m.at = "again" -> [m EXCEPT !.at = "done"]
      [] m.at = "frames" ->
           LET now == [m EXCEPT !.at = "ddmin", !.frames = m.hi]
           IN  IF Passes(r, {}, m.hi) THEN Again(now, {}) ELSE now

\* ddmin: to the first part that has the fault, else to the first rest without a part,
\* else to parts of half the size.
Parts(m) == Least(m.n, Cardinality(m.items))
Shrunk(r, m) ==
    LET chunk(j) == Part(m.items, Parts(m), j)
        rest(j)  == m.items \ chunk(j)
        chunks   == {j \in 1..Parts(m) : Passes(r, chunk(j), m.frames)}
        rests    == {j \in 1..Parts(m) : m.n > 2 /\ Passes(r, rest(j), m.frames)}
    IN  CASE chunks # {} -> [m EXCEPT !.items = chunk(Min(chunks)), !.n = 2]
          [] chunks = {} /\ rests # {} -> [m EXCEPT !.items = rest(Min(rests)), !.n = Most(m.n - 1, 2)]
          [] chunks = {} /\ rests = {} /\ m.n < Cardinality(m.items) ->
               [m EXCEPT !.n = Least(2 * m.n, Cardinality(m.items))]
          [] OTHER -> Again(m, m.items)
Reduced(r, m) == IF Cardinality(m.items) < 2 THEN Again(m, m.items) ELSE Shrunk(r, m)

minimised(r, m) == make_patch(r.data, built(r, m.items))
=============================================================================
