------------------------------ MODULE MCOrder ------------------------------
(***************************************************************************)
(* The output order of a call, pass by pass (playspec/outorder.py,         *)
(* reorder): a small program goes through the passes of an attempt, and    *)
(* each of its forms is run from every start beside the program given.     *)
(* The SID has one voice and starts at Base; a cell and a value have a     *)
(* nibble.                                                                 *)
(***************************************************************************)
EXTENDS OrderForward

CONSTANTS Pieces,               \* how many pieces a program is made of
          Call(_, _, _)         \* a call of a program from a start, its variables junk at first

VARIABLE s

-----------------------------------------------------------------------------
(* The programs. *)

N(v) == Const(v, Byte)
C == Var(<<"c", 0, 0>>, Byte)           \* a control: kept from call to call
L(i) == Var(<<"l", i, 0>>, Byte)        \* locals
R == Var(<<"r", 0, 0>>, 2)              \* whether a proc has returned
Controls == {C.n}
Cell == 4
Kept == 5
Fixed == 6
Get(a) == Rd(Addr(a))
Reg(r) == Addr(Base + r)
Wr(a, v) == [is |-> "wr", a |-> a, v |-> v]
Put2(r, v) == Wr(Reg(r), v)
When(c, then, orelse) == [is |-> "if", c |-> c, then |-> then, orelse |-> orelse]
Bit(op, x, y) == Op(op, Byte, <<x, y>>)
No(c) == Op("lnot", 2, <<c>>)
NonZero(e) == Op("ne", 2, <<e, N(0)>>)
Varying(a) == Op("add", Address, <<Addr(a), Op("zext", Address, <<Bit("and", C, N(1))>>)>>)
Bump == [is |-> "obj", obj |-> [kind |-> "counter", cell |-> <<Kept>>, delta |-> 1, gated |-> FALSE], owns |-> {}, action |-> "up",
         ops |-> <<N(8), N(0)>>, out |-> <<<<"w", 0, 0>>>>, reads |-> {<<Kept, Kept>>}, writes |-> {Kept}]
W == Var(<<"w", 0, 0>>, 2)
CallP(p) == [is |-> "call", proc |-> p]

Procs == << <<Put2(6, L(1)), Put2(4, L(1)), Assigned(L(2), Bit("xor", L(1), N(1))), Put2(5, L(2))>>,
            <<Assigned(R, FALSITY), When(NonZero(C), <<Put2(4, N(1)), Assigned(R, TRUTH)>>, <<>>),
              When(No(R), <<Put2(5, C)>>, <<>>)>> >>

Shared == Bit("and", Bit("add", Get(Kept), C), N(9))
Piece == <<
    <<Put2(6, C), Put2(4, C)>>,
    <<Put2(4, N(8)), Put2(5, N(3))>>,
    <<Put2(4, Bit("or", C, N(1))), Put2(21, Get(Kept))>>,
    <<Wr(Addr(Cell), Bit("add", C, N(1))), Put2(5, Get(Cell))>>,
    <<When(NonZero(C), <<Put2(4, N(9)), Put2(6, N(2))>>, <<Put2(24, C)>>)>>,
    <<Assigned(L(0), N(2)),
      [is |-> "loop", c |-> NonZero(L(0)), bound |-> 2,
       body |-> <<Put2(4, L(0)), Assigned(L(0), Bit("sub", L(0), N(1)))>>]>>,
    <<Assigned(L(0), C),
      [is |-> "loop", c |-> Op("ult", 2, <<L(0), N(2)>>), bound |-> 3,
       body |-> <<Put2(4, Bit("xor", L(0), N(1))), Assigned(L(0), Bit("add", L(0), N(1)))>>]>>,
    <<CallP(2)>>,
    <<Wr(Varying(Base + 4), Get(Kept))>>,
    <<Wr(Varying(Base - 1), N(7))>>,
    <<Put2(6, Get(Base + 5)), Put2(21, Get(Base + 4))>>,
    <<Put2(5, Rd(Varying(Base + 5)))>>,
    <<Assigned(L(1), C), CallP(1), Assigned(L(1), Get(Fixed)), CallP(1)>>,
    <<When(Op("eq", 2, <<C, N(9)>>), <<Put2(24, N(1)), [is |-> "finish"]>>, <<>>)>>,
    <<Bump, When(W, <<Put2(4, N(0))>>, <<Put2(0, Get(Kept))>>)>>,
    <<Wr(Addr(Kept), Shared), Put2(5, Shared), Put2(6, Bit("or", Shared, N(2)))>>,
    <<Put2(0, Get(Fixed)), Wr(Addr(Fixed + 1), Get(Fixed + 1))>>,
    <<Wr(Varying(Fixed), N(5)), Put2(6, Get(Fixed))>>,
    <<[is |-> "fire", body |-> <<Assigned(C, Bit("xor", C, N(1)))>>], Put2(4, C)>>,
    <<[is |-> "assert", c |-> Op("ule", 2, <<C, N(9)>>)], Put2(21, Rd(Op("word", Address, <<Get(Kept), Get(20)>>)))>>,
    <<Wr(Op("word", Address, <<C, Get(Kept)>>), N(1))>>,
    <<When(NonZero(C), <<Assigned(L(3), Get(Kept))>>, <<Assigned(L(3), Bit("add", C, N(1)))>>),
      Put2(4, L(3)), Put2(5, Bit("xor", L(3), N(1)))>> >>

\* A program is a piece, or one of the first pieces before any other.
First == {1, 4, 8, 14}
Programs == ToSet(Piece)
            \union {Piece[i] \o Piece[j] : i \in {k \in First : Pieces > 1}, j \in DOMAIN Piece}
Bytes == (Fixed :> 9) @@ (Fixed + 1 :> 8)       \* declared bytes, as the image has them

Starts == {[c |-> c, mem |-> [a \in 0..(Address - 1) |-> IF a \in DOMAIN Bytes THEN Bytes[a]
                                                         ELSE IF a = Kept THEN k ELSE 0]] :
              c \in {0, 1, 9}, k \in {0, 8, 15}}

Name(n, k) == [is |-> "name", name |-> n, k |-> k]
One(names_) == [i \in DOMAIN names_ |-> Name(names_[i], 1)]
Song == One(<<"fc_lo", "fc_hi", "res_filt", "mode_vol">>)
Wave == One(<<"freq_lo", "freq_hi", "pw_lo", "pw_hi">>)
Voice(tokens) == [is |-> "voice", tokens |-> tokens]
Rows(n, names_) == [is |-> "segments", names |-> names_, n |-> n]
Orders == { <<Voice(Wave \o One(<<"ctrl", "ad", "sr">>))>> \o Song,
            Song \o <<Voice(Wave \o <<Rows(2, <<"sr", "ad", "ctrl">>)>>)>>,
            <<Voice(<<Rows(3, <<"ad", "sr", "ctrl">>)>> \o Wave)>> \o Song,
            <<Voice(<<Name("ctrl", 2), Name("ad", 2), Name("sr", 2)>> \o Wave)>> \o Song
                \o <<[is |-> "interleave", tokens |-> One(<<"sr", "ad", "ctrl">>)]>>,
            <<Voice(<<Name("ctrl", 1), Name("ctrl", 2)>> \o Wave \o One(<<"ad", "sr">>))>> \o Song }
Slots == {parse_order(o) : o \in Orders} \ {<<>>}

-----------------------------------------------------------------------------
(* The passes (_attempt, _reorder).  code holds the procs left and, under  *)
(* 0, the body; tried holds the other attempt, where there are two.        *)

Given(body) == (0 :> body) @@ Procs
Called(code) == Restrict(code, DOMAIN code \ {0})
Init ==
    \E body \in Programs, slots \in Slots :
        s = [stage |-> "given", given |-> body, slots |-> slots, keep |-> outlined(body, Procs),
             code |-> Given(body), bytes |-> Bytes, cells |-> {}, native |-> {}, known |-> Nothing,
             share |-> {}, tried |-> <<>>, why |-> ""]

Refuse(why) == s' = [s EXCEPT !.stage = "refused", !.why = why]
GiveUp(why) == IF s.tried = <<>> THEN Refuse(why)
               ELSE s' = [s.tried[1] EXCEPT !.stage = "ready", !.tried = <<>>]

Nest ==
    /\ s.stage = "given"
    /\ s' = [s EXCEPT !.stage = "nested",
                      !.code = [p \in {0} \union s.keep |-> nest(inline(@[p], Procs, s.keep))]]

\* Each read of a declared byte replaced by the byte, once no bounded store of the
\* result reaches any byte so replaced (fix).
Fix ==
    /\ s.stage = "nested"
    /\ \E new \in {forward(s.code[0], Called(s.code), {}, s.bytes, Nothing)} :
       \E stmts \in {every(<<>>, new.done)} :
          IF new.looked \intersect reachable(stmts) # {}
          THEN s' = [s EXCEPT !.bytes = Restrict(@, DOMAIN @ \ reachable(stmts))]
          ELSE s' = [s EXCEPT !.stage = "fixed", !.code = new.done,
                              !.known = [span |-> ranges(stmts, Controls), bits |-> known_bits(stmts, Controls)]]

Promote ==
    /\ s.stage = "fixed"
    /\ IF unbounded(ToSet(statements(inline(s.code[0], s.code, {}))), s.known) THEN Refuse("a store through an unbounded pointer")
       ELSE \E cells \in {frame_local(inline(s.code[0], s.code, {}), band[1]..band[2], s.known)} :
               s' = [s EXCEPT !.stage = "promoted", !.cells = cells,
                              !.code = [p \in DOMAIN @ |-> promote(@[p], cells, s.known)]]

\* The accesses split, and the voices that stay in place.
File(w, p) == [w EXCEPT !.done = (p :> w.out) @@ @]
Split ==
    /\ s.stage = "promoted"
    /\ \E w \in {Through(LAMBDA at, p : File(split([at EXCEPT !.out = <<>>], s.code[p], s.known), p),
                          [n |-> 0, spans |-> s.known.span, out |-> <<>>, done |-> <<>>],
                          SetToSeq(DOMAIN s.code))} :
       \E known \in {[s.known EXCEPT !.span = w.spans]} :
          s' = [s EXCEPT !.stage = "split", !.code = w.done, !.known = known,
                         !.native = native_regs(w.done[0], s.slots, Called(w.done), known)]

\* A second attempt inlines every proc; the one that leaves fewer registers goes first.
Again ==
    /\ s.stage = "split" /\ s.keep # {} /\ s.native # {}
    /\ s' = [s EXCEPT !.stage = "given", !.keep = {}, !.code = Given(s.given), !.bytes = Bytes,
                      !.cells = {}, !.native = {}, !.known = Nothing, !.tried = <<s>>]
Choose ==
    /\ s.stage = "split" /\ ~(s.keep # {} /\ s.native # {})
    /\ s' = IF s.tried # <<>> /\ Cardinality(s.tried[1].native) <= Cardinality(s.native)
            THEN [s.tried[1] EXCEPT !.stage = "ready", !.tried = <<[s EXCEPT !.tried = <<>>]>>]
            ELSE [s EXCEPT !.stage = "ready"]

Place ==
    /\ s.stage = "ready"
    /\ IF unclear(every(<<>>, s.code), s.known) THEN GiveUp("an access may reach several registers")
       ELSE \E code \in {[p \in DOMAIN s.code |-> instrument(s.code[p], s.slots, s.native, s.known)]} :
            \E placed \in {place(first_staged(s.slots, s.native) \o code[0], s.slots, s.native,
                                 Called(code), s.known)} :
               IF flush_order(placed, live_slots(s.slots, s.native)) # {live_slots(s.slots, s.native)}
               THEN GiveUp("a path flushes the slots out of order")
               ELSE s' = [s EXCEPT !.stage = "placed", !.code = (0 :> placed) @@ code]

\* The call forwarded; its repeats, if any, are computed once and it is forwarded again.
Forward ==
    /\ s.stage \in {"placed", "repeats", "lean"}
    /\ \E new \in {forward(s.code[0], Called(s.code), s.share, <<>>, s.known)} :
       \E share \in {IF s.stage = "placed" THEN shared_exprs(new.done[0], Called(new.done)) ELSE {}} :
          s' = [s EXCEPT !.code = new.done, !.known = new.known, !.share = share,
                         !.stage = IF s.stage = "repeats" THEN "shared"
                                   ELSE IF share = {} THEN "forwarded" ELSE "repeats"]
Eliminate ==
    /\ s.stage \in {"shared", "forwarded", "tidied"}
    /\ \E new \in {eliminate_all(s.code[0], Called(s.code), Controls)} :
       \E code \in {(0 :> new.body) @@ new.procs} :
          s' = [s EXCEPT !.code = IF s.stage = "forwarded" THEN [p \in DOMAIN code |-> tidied(code[p])] ELSE code,
                         !.stage = CASE @ = "shared" -> "lean"
                                     [] @ = "forwarded" -> "tidied"
                                     [] @ = "tidied" -> "pruned"]
Finalize ==
    /\ s.stage = "pruned"
    /\ s' = [s EXCEPT !.stage = "done", !.code = finalize(@[0], Called(@), Controls)]

Next == Nest \/ Fix \/ Promote \/ Split \/ Again \/ Choose \/ Place \/ Forward \/ Eliminate \/ Finalize
Spec == Init /\ [][Next]_s

-----------------------------------------------------------------------------
(* What the passes keep. *)

Sid(log) == LET sid == SelectSeq(log, LAMBDA x : x[1] \in band[1]..band[2])
            IN  [i \in DOMAIN sid |-> <<sid[i][1] - Base, sid[i][2]>>]
Scheduled == s.stage \in {"placed", "repeats", "shared", "lean", "forwarded", "tidied", "pruned", "done"}

\* Every form of a call leaves the memory, outside the SID and the promoted cells, and
\* the controls as the call given, and writes the SID as it does; once the flushes are
\* placed, it writes the kept writes in the order of the slots (outorder.py, check).
Agree(was, now) ==
    was.why # "raise" =>
      /\ now.why # "raise"
      /\ \A a \in DOMAIN was.mem : a \in band[1]..band[2] \union s.cells \/ now.mem[a] = was.mem[a]
      /\ \A n \in Controls : now.vars[n] = was.vars[n]
      /\ Sid(now.log) = IF Scheduled THEN kept(Sid(was.log), s.slots, s.native) ELSE Sid(was.log)
Reordered ==
    s.stage # "refused" =>
      \A start \in Starts :
         \A run \in {[form \in {"given", "now"} |->
                         Call(IF form = "given" THEN Given(s.given) ELSE s.code, start, 0)]} :
            Agree(run["given"], run["now"])

\* A voice scheduled by gate segment never makes more gate and test edges in a call
\* than the slots hold, so that no segment of it is lost (outorder.py, native_regs).
SegmentsHeld ==
    s.stage = "ready" =>
      \A start \in Starts, v \in DOMAIN segments(s.slots) :
         7 * v + 4 \in s.native
         \/ \A was \in {Call(Given(s.given), start, 0)} :
               Len(closed(Sid(was.log), v, Address).closed) < segments(s.slots)[v]

\* What statements use outside the block of its declaration or before it.
RECURSIVE Loose(_, _)
Loose(stmts, scope) ==
    LET step(w, t) ==
            LET uses == UNION {names(e) : e \in ToSet(stmt_exprs(t))} \union (IF t.is = "obj" THEN ToSet(t.out) ELSE {})
            IN  [bad |-> w.bad \union (uses \ w.scope) \union UNION {Loose(arm, w.scope) : arm \in ToSet(branches(t))},
                 scope |-> w.scope \union (IF t.is = "set" THEN {t.n} ELSE {})]
    IN  Through(step, [bad |-> {}, scope |-> scope], stmts).bad

\* Every path flushes the slots in their order, wherever a call may finish (place,
\* flush_order); and in the reordered call every variable is assigned in the block, or a
\* block around it, before it is used, but for the controls and those its body and procs
\* share; of these no call reads a value the call before it left (outorder.py, finalize;
\* emit.py, stated).
WellPlaced ==
    /\ s.why # "a path flushes the slots out of order"
    /\ s.stage = "done" =>
      /\ \A p \in DOMAIN s.code : Loose(s.code[p], Controls \union shared(s.code[0], Called(s.code))) = {}
      /\ \A start \in Starts :
           \A run \in {[junk \in 0..1 |-> Call(s.code, start, junk)]} :
              run[0].why # "raise" => /\ run[1].why = run[0].why
                                      /\ run[1].log = run[0].log
                                      /\ \A n \in Controls : run[1].vars[n] = run[0].vars[n]

MCCall(code, start, junk) ==
    LET run == block(code, code[0],
                     [mem |-> start.mem, log |-> <<>>, why |-> "",
                      vars |-> [n \in Controls \union UNION {used(code[p]) : p \in DOMAIN code} |->
                                   IF n \in Controls THEN start.c ELSE junk]])
    IN  run
=============================================================================
