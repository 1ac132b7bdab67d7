----------------------------- MODULE Downloads -----------------------------
(***************************************************************************)
(* The processes of one machine that share its caches: any of them fetches  *)
(* a pinned archive, a member of it or an unpinned file (Fetch) or runs     *)
(* `fixtures fetch` (Csdb), and all of their downloads go through _fetch    *)
(* and the host's slot (HostSlot).  A process makes one call; one that is   *)
(* killed is started again.                                                 *)
(***************************************************************************)
EXTENDS Fetch, Csdb, TLC

CONSTANT MaxKills  \* bound: how many processes are killed

ASSUME KillAssumption == MaxKills \in Nat

VARIABLE kills

vars == <<slotVars, fetchVars, csdbVars, kills>>

TypeOK == SlotTypeOK /\ FetchTypeOK /\ CsdbTypeOK /\ kills \in 0..MaxKills

Init == SlotInit /\ FetchInit /\ CsdbInit /\ kills = 0

(* The process is not in another call.                                     *)
Begin(p) ==
    \/ pos[p] = "idle" /\ FetchBegin(p) /\ UNCHANGED csdbVars
    \/ at[p] = "idle" /\ (\E f \in BOOLEAN : CsdbBegin(p, f)) /\ UNCHANGED fetchVars

Step(p) ==
    \/ FetchStep(p) /\ UNCHANGED csdbVars
    \/ CsdbStep(p) /\ UNCHANGED fetchVars
    \/ SlotStep(p) /\ UNCHANGED <<fetchVars, csdbVars>>

Kill(p) ==
    \/ FetchKill(p) /\ UNCHANGED csdbVars
    \/ CsdbKill(p) /\ UNCHANGED fetchVars

Tick == SlotTick /\ UNCHANGED <<fetchVars, csdbVars>>

Ended(p) == at[p] \in {"done", "raised"} \/ pos[p] = "done"

AllEnded ==
    /\ \A p \in Procs : Ended(p)
    /\ UNCHANGED <<vars>>

Next ==
    \/ \E p \in Procs : (Begin(p) \/ Step(p)) /\ UNCHANGED kills
    \/ \E p \in Procs : kills < MaxKills /\ kills' = kills + 1 /\ Kill(p)
    \/ Tick /\ UNCHANGED kills
    \/ AllEnded

Spec == Init /\ [][Next]_vars

(* Time passes, and a process that can go on does: a request is answered    *)
(* (urlopen has a timeout), and a lock that is given back goes to whoever   *)
(* waits for it.                                                            *)
Fairness ==
    /\ WF_vars(Tick /\ UNCHANGED kills)
    /\ \A p \in Procs : WF_vars(Step(p) /\ UNCHANGED kills)

FairSpec == Spec /\ Fairness

-----------------------------------------------------------------------------
(* A call that was begun ends, with a result or an exception, unless its    *)
(* process is killed: the locks are always given back, and no two processes *)
(* wait for each other with one each (the gate or the cache's lock first,   *)
(* then the host's slot).                                                   *)
Begun(p) == at[p] # "idle" \/ pos[p] # "idle"

CallsEnd == \A p \in Procs : Begun(p) ~> (Ended(p) \/ ~Begun(p))

(* What CSDB serves in the runs: a download may come back with another body *)
(* or, of a single file, under another name.                                *)
MCServed ==
    {<<1, "tune", "pinned">>, <<1, "tune", "other">>, <<2, "tune", "other">>}
MCRenamed ==
    {<<1, "tune", "pinned">>, <<1, "tune", "other">>, <<1, "song", "pinned">>}

(* Any process may be exchanged for another.                                *)
Perms == Permutations(Procs)
=============================================================================
