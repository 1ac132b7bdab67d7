--------------------------- MODULE MCNativePlayer ---------------------------
(***************************************************************************)
(* A tune whose play routine calls two entries under two settings of the    *)
(* port, one of which is modelled under the first only; its specs store to  *)
(* a routed register, run native code and at times ask a device.            *)
(***************************************************************************)
EXTENDS NativePlayer, TLC

Poking(a) == [op |-> "poke", at |-> a]
Peeking(a) == [op |-> "peek", at |-> a]
Asking(a) == [op |-> "device", at |-> a]
Mapping(v) == [op |-> "port", put |-> v]
Calling(e) == [op |-> "call", to |-> e]
Counting == [op |-> "count"]
Loading(a) == [op |-> "load", at |-> a]
Storing(a) == [op |-> "store", at |-> a]
Native(a, escapes) == [op |-> "native", at |-> a, escapes |-> escapes]

MCBits == {0, 1}
MCEntries == {10, 11}
MCPlays == {10, 20, 30}
MCModelled == [s \in SUBSET {0} |-> IF s = {} THEN {10, 11} ELSE {10}]
MCCode ==
    10 :> <<>>
    @@ 20 :> <<Peeking(Ram), Calling(10), Poking(Copy), Mapping({0}), Calling(11),
               Calling(10), Asking(Copy), Mapping({})>>
    @@ 30 :> <<Calling(11), Peeking(Sid), Poking(Ram), Mapping({1}), Calling(10)>>
MCOwn == 10 :> Ram @@ 11 :> Ram
MCProgram ==
    [s \in SUBSET {0} |->
       10 :> (IF s = {}
              THEN <<Counting, Storing(Sid), Native(Ram, FALSE), Storing(Sid)>>
              ELSE <<Storing(Ram), Loading(Copy), Native(Copy, TRUE), Counting>>)
       @@ 11 :> <<Loading(Ram), Asking(Sid), Counting, Storing(Sid), Storing(Ram),
                  Native(Port, FALSE)>>]
MCCount == {} :> {0} @@ {0} :> {1} @@ {1} :> {0, 1} @@ {0, 1} :> {}

MCMemories == {[a \in Cells |-> {}], [a \in Cells |-> IF a = Ram THEN {} ELSE {1}]}
MCBuilds ==
    {Unrouted,
     [routes |-> Ram :> [to |-> Sid, keep |-> {1}, force |-> {}]
                 @@ Sid :> [to |-> Sid, keep |-> {0, 1}, force |-> {0}],
      muted |-> Sid :> TRUE, ghost |-> TRUE],
     [routes |-> Sid :> [to |-> Port, keep |-> {1}, force |-> {}],
      muted |-> Ram :> FALSE, ghost |-> FALSE]}
MCStates == {{}}
=============================================================================
