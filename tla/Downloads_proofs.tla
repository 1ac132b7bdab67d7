-------------------------- MODULE Downloads_proofs --------------------------
(***************************************************************************)
(* Proofs about the downloads, for every number of processes: the host's   *)
(* slot keeps requests apart, a pinned archive is downloaded by one, and   *)
(* the cache of CSDB releases fetches and indexes nothing twice and leaves  *)
(* nothing out.                                                             *)
(***************************************************************************)
EXTENDS Downloads, WellFoundedInduction, TLAPS

-----------------------------------------------------------------------------
(* The slot of a host.                                                     *)

(* A paced request, with the sleep before it and the stamp after it, is    *)
(* made by the holder of the lock; an attempt is left when a process pauses *)
(* for it, and a body is there when _fetch returns one.                     *)
Holds ==
    /\ \A p \in Procs : net[p] \in {"sleep", "stamp"} => p \in Paced /\ slot = p
    /\ \A p \in Paced : net[p] = "request" => slot = p
    /\ \A p \in Procs : net[p] = "backoff" => tries[p] < Retries
    /\ \A p \in Procs : net[p] = "body" => answer[p] \in Bodies

SlotInv == SlotTypeOK /\ Holds

(* Unless the holder is about to write it, the time in the lock file is no *)
(* older than the last request, and a sleeper sleeps out the rest.          *)
Pace ==
    /\ (\A p \in Procs : net[p] # "stamp") => stamp <= since
    /\ \A p \in Procs : net[p] = "sleep" => nap[p] + since >= Interval

(* Nobody is killed between the start of a request and the moment its end  *)
(* is written down.                                                         *)
Undisturbed == Mortal \cap {"request", "stamp"} = {}

(* The slot's invariants hold at the start.                               *)
LEMMA SlotInitInv == SlotInit => SlotInv /\ Pace
  BY SlotAssumption, SMT
  DEF SlotInit, SlotInv, SlotTypeOK, Holds, Pace, Ages, Stages

(* What the slot's steps preserve.                                         *)
LEMMA SlotNextInv == SlotInv /\ [SlotNext]_slotVars => SlotInv'
<1> SUFFICES ASSUME SlotInv, [SlotNext]_slotVars PROVE SlotInv'
  OBVIOUS
<1> USE SlotAssumption DEF SlotInv, SlotTypeOK, Holds, Stages, Ages, Answers, Bodies
<1>1. ASSUME NEW p \in Procs, Call(p) PROVE SlotInv'
  BY <1>1 DEF Call
<1>2. ASSUME NEW p \in Procs, Grab(p) PROVE SlotInv'
  BY <1>2 DEF Grab
<1>3. ASSUME NEW p \in Procs, Request(p) PROVE SlotInv'
  BY <1>3 DEF Request
<1>4. ASSUME NEW p \in Procs, NEW a \in Answers, Answer(p, a) PROVE SlotInv'
  BY <1>4 DEF Answer, Settled
<1>5. ASSUME NEW p \in Procs, Release(p) PROVE SlotInv'
  BY <1>5 DEF Release, Settled
<1>6. ASSUME NEW p \in Procs, Retry(p) PROVE SlotInv'
  BY <1>6 DEF Retry
<1>7. ASSUME NEW p \in Procs, Return(p) PROVE SlotInv'
  BY <1>7 DEF Return
<1>8. ASSUME NEW p \in Procs, SlotKill(p) PROVE SlotInv'
  BY <1>8 DEF SlotKill
<1>9. CASE SlotTick
  BY <1>9 DEF SlotTick, Older
<1>10. CASE UNCHANGED slotVars
  BY <1>10 DEF slotVars
<1> QED
  BY <1>1, <1>2, <1>3, <1>4, <1>5, <1>6, <1>7, <1>8, <1>9, <1>10 DEF SlotNext, SlotStep

(* So do the ages, while nobody is killed in a request or before its stamp. *)
LEMMA SlotNextPace ==
    ASSUME SlotInv, Undisturbed, Pace, [SlotNext]_slotVars
    PROVE Pace'
<1> USE SlotAssumption DEF SlotInv, SlotTypeOK, Holds, Pace, Ages
<1>1. ASSUME NEW p \in Procs, Call(p) PROVE Pace'
  BY <1>1 DEF Call
<1>2. ASSUME NEW p \in Procs, Grab(p) PROVE Pace'
  BY <1>2 DEF Grab
<1>3. ASSUME NEW p \in Procs, Request(p) PROVE Pace'
  BY <1>3 DEF Request
<1>4. ASSUME NEW p \in Procs, NEW a \in Answers, Answer(p, a) PROVE Pace'
  BY <1>4 DEF Answer, Settled
<1>5. ASSUME NEW p \in Procs, Release(p) PROVE Pace'
  BY <1>5 DEF Release, Settled
<1>6. ASSUME NEW p \in Procs, Retry(p) PROVE Pace'
  BY <1>6 DEF Retry
<1>7. ASSUME NEW p \in Procs, Return(p) PROVE Pace'
  BY <1>7 DEF Return
<1>8. ASSUME NEW p \in Procs, SlotKill(p) PROVE Pace'
  BY <1>8 DEF SlotKill, Undisturbed
<1>9. CASE SlotTick
  BY <1>9 DEF SlotTick, Older
<1>10. CASE UNCHANGED slotVars
  BY <1>10 DEF slotVars
<1> QED
  BY <1>1, <1>2, <1>3, <1>4, <1>5, <1>6, <1>7, <1>8, <1>9, <1>10 DEF SlotNext, SlotStep

(* A step that starts a request finds the last one an interval ago.       *)
LEMMA SlotPaced ==
    ASSUME SlotInv, Pace, [SlotNext]_slotVars
    PROVE [\A p \in Paced :
             net[p] # "request" /\ net'[p] = "request" => since >= Interval]_slotVars
<1> USE SlotAssumption DEF SlotInv, SlotTypeOK, Pace, Ages
<1> SUFFICES ASSUME SlotNext, NEW q \in Paced, net[q] # "request", net'[q] = "request"
             PROVE since >= Interval
  BY DEF slotVars
<1>1. PICK p \in Procs : Request(p)
  BY DEF SlotNext, SlotStep, Call, Grab, Answer, Settled, Release, Retry, Return,
         SlotKill, SlotTick, Bodies
<1>2. p = q
  BY <1>1 DEF Request
<1> QED
  BY <1>1, <1>2 DEF Request

-----------------------------------------------------------------------------
(* The callers keep to the slot.                                           *)

(* Every step of the composition is one of the slot, or leaves it alone.  *)
LEMMA StepIsSlotStep == [Next]_vars => [SlotNext]_slotVars
<1> SUFFICES ASSUME [Next]_vars PROVE [SlotNext]_slotVars
  OBVIOUS
<1>1. ASSUME NEW p \in Procs, Begin(p) PROVE [SlotNext]_slotVars
  BY <1>1 DEF Begin, FetchBegin, FetchVerified, FetchMember, FetchPlain, CsdbBegin,
              SlotNext
<1>2. ASSUME NEW p \in Procs, FetchStep(p) PROVE [SlotNext]_slotVars
  BY <1>2 DEF FetchStep, Lock, Reuse, Download, Fetched, NotFetched, Extract,
              WritePart, Replace, ReplaceMember, SlotNext
<1>3. ASSUME NEW p \in Procs, CsdbStep(p) PROVE [SlotNext]_slotVars
  BY <1>3 DEF CsdbStep, CsdbLock, ReadPage, GetPage, OpenPage, WritePage, SkipRelease,
              NextRelease, ReuseFile, GetFile, WriteFile, SkipFile, ReadSums,
              AppendSums, IndexMedia, ReadMediaSums, AppendMediaSums, SlotNext
<1>4. ASSUME NEW p \in Procs, SlotStep(p) PROVE [SlotNext]_slotVars
  BY <1>4 DEF SlotNext
<1>5. ASSUME NEW p \in Procs, Kill(p) PROVE [SlotNext]_slotVars
  BY <1>5 DEF Kill, FetchKill, CsdbKill, SlotNext
<1>6. CASE Tick
  BY <1>6 DEF Tick, SlotNext
<1>7. CASE AllEnded
  BY <1>7 DEF AllEnded, vars
<1>8. CASE UNCHANGED vars
  BY <1>8 DEF vars
<1> QED
  BY <1>1, <1>2, <1>3, <1>4, <1>5, <1>6, <1>7, <1>8 DEF Next, Step

(* The downloads of every caller go through the slot as HostSlot says.     *)
THEOREM CallersKeepToTheSlot == Spec => SlotSpec
<1>1. Init => SlotInit
  BY DEF Init
<1> QED
  BY <1>1, StepIsSlotStep, PTL DEF Spec, SlotSpec

(* "requests to a HOST_INTERVAL host from every process on this machine    *)
(* run one at a time" (_host_slot), whoever is killed wherever.             *)
THEOREM RequestsExclude == Spec => []OneAtATime
<1>1. SlotInv => OneAtATime
  BY SlotAssumption DEF SlotInv, Holds, OneAtATime
<1> QED
  BY CallersKeepToTheSlot, SlotInitInv, SlotNextInv, <1>1, PTL DEF SlotSpec

(* "... that interval apart", when nobody is killed between the start of a *)
(* request and the stamp of its end.                                        *)
THEOREM RequestsSpaced == ASSUME Undisturbed PROVE Spec => Spaced
<1>1. SlotInv /\ Pace /\ [SlotNext]_slotVars => (SlotInv /\ Pace)'
  BY SlotNextInv, SlotNextPace
<1>2. SlotInv /\ Pace /\ [SlotNext]_slotVars
        => [\A p \in Paced :
             net[p] # "request" /\ net'[p] = "request" => since >= Interval]_slotVars
  BY SlotPaced
<1> QED
  BY CallersKeepToTheSlot, SlotInitInv, <1>1, <1>2, PTL DEF SlotSpec, Spaced

-----------------------------------------------------------------------------
(* The pinned archive.                                                     *)

Inside == {"recheck", "download", "fetched", "part"}

(* The callers under the lock hold it, and those past the second look are  *)
(* right about it; what is to be written has been verified; a member is     *)
(* taken out of the pinned archive only, and only one that it has.          *)
FetchInv ==
    /\ FetchTypeOK
    /\ \A p \in Procs :
         /\ Pinned(p) /\ at[p] \in Inside => gate = p
         /\ Pinned(p) /\ at[p] \in {"download", "fetched", "part"} => archive # "pinned"
         /\ Pinned(p) /\ at[p] \in {"fetched", "part"} => data[p] = "pinned"
         /\ at[p] \in {"fetched", "part"} => data[p] \in Bodies
         /\ at[p] \in {"lock", "recheck"} => Pinned(p)
         /\ at[p] \in {"opened", "extracted"} => archive = "pinned"
         /\ at[p] = "opened" => want[p] \in {"member", "astray"}
         /\ at[p] = "extracted" => want[p] = "member"
    /\ Delivered

(* What is known of the cache holds at the start.                         *)
LEMMA FetchInitInv == SlotInit /\ FetchInit => FetchInv
  BY FetchAssumption
  DEF SlotInit, FetchInit, FetchInv, FetchTypeOK, Delivered, Inside, Contents

(* It holds on when a call begins,                                        *)
LEMMA FetchBeginInv ==
    ASSUME FetchInv, NEW p \in Procs, FetchBegin(p)
    PROVE FetchInv'
<1> USE DEF FetchInv, FetchTypeOK, Delivered, Pinned, Inside, Goto, Wants, Contents, Bodies
<1>1. CASE FetchVerified(p)
  BY <1>1 DEF FetchVerified, Verify
<1>2. ASSUME NEW w \in {"member", "astray"}, FetchMember(p, w) PROVE FetchInv'
  BY <1>2 DEF FetchMember, Verify
<1>3. ASSUME NEW f \in BOOLEAN, FetchPlain(p, f) PROVE FetchInv'
  BY <1>3 DEF FetchPlain
<1> QED
  BY <1>1, <1>2, <1>3 DEF FetchBegin

(* at every step of a call,                                               *)
LEMMA FetchStepInv ==
    ASSUME FetchInv, SlotInv, NEW p \in Procs, FetchStep(p)
    PROVE FetchInv'
<1> USE SlotAssumption
    DEF FetchInv, FetchTypeOK, Delivered, Pinned, Inside, Goto, Wants, Contents, Bodies
<1>1. CASE Lock(p)
  BY <1>1 DEF Lock
<1>2. CASE Reuse(p)
  BY <1>2 DEF Reuse, AfterArchive
<1>3. CASE Download(p)
  BY <1>3 DEF Download
<1>4. CASE Fetched(p)
  BY <1>4 DEF Fetched, Accepts, Rejects, Raise, SlotInv, Holds
<1>5. CASE NotFetched(p)
  BY <1>5 DEF NotFetched, Raise
<1>6. CASE Extract(p)
  BY <1>6 DEF Extract, Raise
<1>7. CASE WritePart(p)
  BY <1>7 DEF WritePart
<1>8. CASE Replace(p)
  <2>1. CASE Pinned(p)
    <3>1. data[p] = "pinned" /\ archive' = "pinned" /\ gate = p
      BY <1>8, <2>1 DEF Replace
    <3>2. \A q \in Procs \ {p} : Pinned(q) => at[q] \notin Inside
      BY <3>1
    <3> QED
      BY <1>8, <2>1, <3>1, <3>2 DEF Replace, AfterArchive
  <2>2. CASE ~Pinned(p)
    BY <1>8, <2>2 DEF Replace
  <2> QED
    BY <2>1, <2>2
<1>9. CASE ReplaceMember(p)
  BY <1>9 DEF ReplaceMember
<1> QED
  BY <1>1, <1>2, <1>3, <1>4, <1>5, <1>6, <1>7, <1>8, <1>9 DEF FetchStep

(* and at every step of the composition.                                  *)
LEMMA FetchNextInv == FetchInv /\ SlotInv /\ [Next]_vars => FetchInv'
<1> SUFFICES ASSUME FetchInv, SlotInv, [Next]_vars PROVE FetchInv'
  OBVIOUS
<1>1. ASSUME NEW p \in Procs, FetchKill(p) PROVE FetchInv'
  BY <1>1, SlotAssumption
  DEF FetchKill, FetchInv, FetchTypeOK, Delivered, Pinned, Inside, Goto, Wants,
      Contents, Bodies
<1>2. CASE UNCHANGED fetchVars
  BY <1>2 DEF fetchVars, FetchInv, FetchTypeOK, Delivered, Pinned
<1> QED
  BY <1>1, <1>2, FetchBeginInv, FetchStepInv
  DEF Next, Begin, Step, Kill, Tick, AllEnded, vars

(* The invariants of the slot and of the cache hold in every reachable state. *)
THEOREM FetchInvariant == Spec => [](FetchInv /\ SlotInv)
<1>1. Init => FetchInv /\ SlotInv
  BY FetchInitInv, SlotInitInv DEF Init
<1>2. FetchInv /\ SlotInv /\ [Next]_vars => (FetchInv /\ SlotInv)'
  BY FetchNextInv, SlotNextInv, StepIsSlotStep
<1> QED
  BY <1>1, <1>2, PTL DEF Spec

(* "one downloads and the rest reuse its copy" (fetch_verified).           *)
THEOREM ArchiveFetchedOnce == Spec => []OneDownloads
<1>1. FetchInv => OneDownloads
  BY DEF FetchInv, OneDownloads, Inside
<1> QED
  BY <1>1, FetchInvariant, PTL

(* A call that returns has what it was called for in the cache.            *)
THEOREM CallsDeliver == Spec => []Delivered
<1>1. FetchInv => Delivered
  BY DEF FetchInv
<1> QED
  BY <1>1, FetchInvariant, PTL

(* A call for a pinned archive does not fail once another has fetched it,  *)
(* but for a member that it has not (fetch_archive_member).                 *)
THEOREM FailuresAreGenuine == Spec => NoVainFailure
<1>1. FetchInv /\ [Next]_vars
        => [\A p \in Procs :
             Pinned(p) /\ at[p] # "raised" /\ at'[p] = "raised"
               => archive # "pinned" \/ (at[p] = "opened" /\ want[p] = "astray")]_fetchVars
  <2> SUFFICES ASSUME FetchInv, Next, NEW p \in Procs, Pinned(p),
                      at[p] # "raised", at'[p] = "raised"
               PROVE archive # "pinned" \/ (at[p] = "opened" /\ want[p] = "astray")
    BY DEF vars, fetchVars
  <2> USE DEF FetchInv, FetchTypeOK, Goto
  <2>1. ASSUME NEW q \in Procs, FetchBegin(q) PROVE FALSE
    BY <2>1 DEF FetchBegin, FetchVerified, FetchMember, FetchPlain, Verify
  <2>2. ASSUME NEW q \in Procs, FetchStep(q)
        PROVE  archive # "pinned" \/ (at[p] = "opened" /\ want[p] = "astray")
    BY <2>2 DEF FetchStep, Lock, Reuse, Download, Fetched, NotFetched, Extract,
                WritePart, Replace, ReplaceMember, Raise, AfterArchive
  <2>3. ASSUME NEW q \in Procs, FetchKill(q) PROVE FALSE
    BY <2>3 DEF FetchKill
  <2>4. CASE UNCHANGED fetchVars
    BY <2>4 DEF fetchVars
  <2> QED
    BY <2>1, <2>2, <2>3, <2>4 DEF Next, Begin, Step, Kill, Tick, AllEnded, vars
<1> QED
  BY <1>1, FetchInvariant, PTL DEF Spec, NoVainFailure

-----------------------------------------------------------------------------
(* The cache of CSDB releases.                                             *)

(* A process that holds the cache's lock.                                  *)
Locked == {"release", "page", "write", "files", "file", "append"}

(* The lock is held by one at a time.                                      *)
Owned == \A p \in Procs : pos[p] \in Locked => holder = p

(* A release that is worked on is one of the manifest, and a download that *)
(* is asked for is one of its, that the cache lacks or that is wanted again.*)
Within ==
    \A p \in Procs :
      /\ pos[p] \in {"page", "write", "files", "file"} => rel[p] <= Releases
      /\ pos[p] = "file" => ids[p] # {}

Lacking == \A p \in Procs : pos[p] = "file" /\ ~force[p] => Present(p) = {}

(* What a process has is in the cache, unless another body was written over *)
(* it, and the lines it is about to append under the lock are those of its  *)
(* files that the index lacks; of the rest an append outside the lock can   *)
(* at most have run one into another.  The medium it is about to append     *)
(* outside the lock another process may have indexed meanwhile.             *)
Listed(l) == Known(l) \/ l \in lost

Kept ==
    /\ \A p \in Procs :
         /\ entries[p] \subseteq dl \cup replaced
         /\ pos[p] = "append" =>
              /\ fresh[p] \subseteq {c \in entries[p] : sums[c] = 0}
              /\ \A c \in entries[p] \ fresh[p] : Listed(c)
         /\ pos[p] \in {"known", "index"} =>
              /\ fresh[p] \subseteq {Medium(name) : name \in media}
              /\ \A c \in entries[p] :
                   HoldsMedium(c) /\ c \notin replaced =>
                     MediumIndexed \/ \E name \in media : Medium(name) \in fresh[p]
    /\ \A c \in Copies : sums[c] <= 1 /\ (c \in tail.of => sums[c] = 0)

Booked == CsdbTypeOK /\ Owned /\ Within /\ Lacking /\ Kept /\ Indexed

(* The files of the releases that a process is through with, and of the    *)
(* one it is at those that it has seen to.                                  *)
Seen(p) ==
    {f \in Files : \/ f[1] < rel[p]
                   \/ f[1] = rel[p] /\ pos[p] \in {"files", "file"} /\ f[2] \notin ids[p]}

(* A cached page lists every download, unless it is being written, and a   *)
(* process that missed nothing has all it has seen to.                      *)
PagesWhole ==
    \A r \in pages : listed[r] = Ids \/ \E p \in Procs : pos[p] = "write" /\ rel[p] = r

Got(p) == {FileOf(c) : c \in entries[p]}

Keeps(p) ==
    /\ pos[p] \in {"idle", "lock"} => rel[p] = 1
    /\ pos[p] \in Locked \ {"append"} /\ ~missed[p] => Seen(p) \subseteq Got(p)
    /\ pos[p] \in {"append", "media", "known", "index", "done"} /\ ~missed[p] =>
         Files \subseteq Got(p)

SeenKept == \A p \in Procs : Keeps(p)

Whole == PagesWhole /\ SeenKept

(* What the processes do to the cache.                                     *)
CsdbNext ==
    \E p \in Procs : (\E f \in BOOLEAN : CsdbBegin(p, f)) \/ CsdbStep(p) \/ CsdbKill(p)

-----------------------------------------------------------------------------
(* The files of the cache.                                                 *)

(* Of some numbers one is the least.                                       *)
LEMMA Least ==
    ASSUME NEW S \in SUBSET Nat, S # {}
    PROVE  \E i \in S : \A j \in S : i <= j
<1> DEFINE less == OpToRel(<, Nat)
<1>1. \E n \in S : \A k \in S : <<k, n>> \notin less
  <2>1. IsWellFoundedOn(less, Nat)
    BY NatLessThanWellFounded, Zenon
  <2> HIDE DEF less
  <2> QED
    BY <2>1, WFMin
<1>2. PICK n \in S : \A k \in S : ~(k < n)
  BY <1>1 DEF OpToRel
<1> QED
  BY <1>2

(* The download a process is at is one it has still to see to.             *)
LEMMA FileLeft ==
    ASSUME CsdbTypeOK, NEW p \in Procs, rel[p] <= Releases, ids[p] # {}
    PROVE  File(p) \in Files /\ File(p)[1] = rel[p] /\ File(p)[2] \in ids[p]
<1>1. ids[p] \in SUBSET Ids /\ rel[p] \in 1..Releases
  BY CsdbAssumption DEF CsdbTypeOK
<1>2. \E i \in ids[p] : \A j \in ids[p] : i <= j
  BY <1>1, Least, CsdbAssumption
<1> DEFINE first == CHOOSE i \in ids[p] : \A j \in ids[p] : i <= j
<1>3. first \in ids[p] /\ File(p) = <<rel[p], first>>
  BY <1>2 DEF File
<1> HIDE DEF first
<1> QED
  BY <1>1, <1>3 DEF Files

(* The line of a medium is that of no download.                            *)
LEMMA Apart ==
    /\ Copies \subseteq Lines
    /\ \A name \in Names : Medium(name) \in Lines /\ Medium(name) \notin Copies
<1>1. \A c \in Copies : c[1] \in 1..Releases
  BY DEF Copies
<1>2. ASSUME NEW name \in Names PROVE Medium(name)[1] \notin 1..Releases
  BY CsdbAssumption DEF Medium
<1> QED
  BY <1>1, <1>2 DEF Lines

(* An append leaves every line of the index listed or run into another,    *)
(* and so are the lines it is to write.                                     *)
LEMMA AppendLists ==
    ASSUME sums \in [Lines -> Nat], NEW K \in SUBSET Lines, NEW t, AddLines(K, t),
           NEW l \in Lines
    PROVE  /\ Listed(l) \/ l \in K => Listed(l)'
           /\ Found(l) \/ l \in lost => (Found(l) \/ l \in lost)'
           /\ sums'[l] \in {sums[l], sums[l] + 1}
           /\ sums'[l] # sums[l] => l \in K
<1> DEFINE glued == IF tail.end = "whole" THEN {} ELSE First(K)
           some == K # {} \/ t # NoCut
<1>1. /\ sums'[l] = sums[l] + (IF l \in K \ glued THEN 1 ELSE 0)
      /\ lost' = (lost \ (K \ glued)) \cup glued \cup (IF some THEN tail.of ELSE {})
      /\ tail' = IF ~some THEN tail
                 ELSE IF K = {} /\ tail.end # "whole" THEN Part ELSE t
  BY DEF AddLines
<1>2. glued \subseteq K
  BY DEF First
<1>3. sums[l] \in Nat
  OBVIOUS
<1> HIDE DEF glued
<1>4. l \in K => sums'[l] > 0 \/ l \in lost'
  BY <1>1, <1>3
<1>5. sums[l] > 0 \/ l \in lost => sums'[l] > 0 \/ l \in lost'
  BY <1>1, <1>3
<1>6. l \in tail.of => l \in lost' \/ (tail' = tail /\ l \in tail'.of)
  BY <1>1
<1>7. tail = [end |-> "line", of |-> {l}] => l \in lost' \/ tail' = tail
  BY <1>1
<1>8. Listed(l) \/ l \in K => Listed(l)'
  BY <1>4, <1>5, <1>7 DEF Listed, Known
<1>9. Found(l) \/ l \in lost => (Found(l) \/ l \in lost)'
  BY <1>5, <1>6 DEF Found
<1>10. sums'[l] \in {sums[l], sums[l] + 1} /\ (sums'[l] # sums[l] => l \in K)
  BY <1>1, <1>3
<1> QED
  BY <1>8, <1>9, <1>10

(* An append of lines of files that the index lacks leaves none twice, and *)
(* one of a medium changes none of them.                                    *)
LEMMA AppendOnce ==
    ASSUME sums \in [Lines -> Nat], NEW K \in SUBSET Lines, NEW t, AddLines(K, t),
           \A c \in Copies : sums[c] <= 1 /\ (c \in tail.of => sums[c] = 0),
           \A c \in Copies : c \in K \/ c \in t.of => sums[c] = 0,
           K \cap t.of = {}
    PROVE  \A c \in Copies : sums'[c] <= 1 /\ (c \in tail'.of => sums'[c] = 0)
<1> SUFFICES ASSUME NEW c \in Copies
             PROVE  sums'[c] <= 1 /\ (c \in tail'.of => sums'[c] = 0)
  OBVIOUS
<1> DEFINE glued == IF tail.end = "whole" THEN {} ELSE First(K)
           some == K # {} \/ t # NoCut
<1>1. /\ sums'[c] = sums[c] + (IF c \in K \ glued THEN 1 ELSE 0)
      /\ tail' = IF ~some THEN tail
                 ELSE IF K = {} /\ tail.end # "whole" THEN Part ELSE t
  BY Apart DEF AddLines
<1>2. sums[c] \in Nat
  BY Apart
<1> HIDE DEF glued
<1>3. Part.of = {} /\ (~some => K = {})
  BY DEF Part
<1> QED
  BY <1>1, <1>2, <1>3

(* What an append and a kill in it do to the index.                        *)
LEMMA AppendType ==
    ASSUME sums \in [Lines -> Nat], tail \in Tails, lost \subseteq Lines,
           NEW K \in SUBSET Lines, NEW t \in Tails, AddLines(K, t)
    PROVE  sums' \in [Lines -> Nat] /\ tail' \in Tails /\ lost' \subseteq Lines
<1> DEFINE glued == IF tail.end = "whole" THEN {} ELSE First(K)
<1>1. glued \subseteq Lines
  BY DEF First
<1>2. tail.of \subseteq Lines
  BY DEF Tails, NoCut, Part
<1>3. Part \in Tails
  BY DEF Tails
<1>4. /\ sums' = [l \in Lines |-> sums[l] + (IF l \in K \ glued THEN 1 ELSE 0)]
      /\ lost' \subseteq lost \cup glued \cup tail.of
      /\ tail' \in {tail, Part, t}
  BY DEF AddLines
<1> HIDE DEF glued
<1> QED
  BY <1>1, <1>2, <1>3, <1>4

LEMMA CutAppends ==
    ASSUME NEW F \in SUBSET Lines, Cut(F)
    PROVE  \E K \in SUBSET F, t \in Tails :
             AddLines(K, t) /\ t.of \subseteq F /\ K \cap t.of = {}
<1>1. PICK K \in SUBSET F :
        \/ AddLines(K, NoCut)
        \/ K # F /\ AddLines(K, Part)
        \/ \E e \in {"url", "line"}, l \in First(F \ K) : AddLines(K, [end |-> e, of |-> {l}])
  BY DEF Cut
<1>2. NoCut \in Tails /\ Part \in Tails /\ NoCut.of = {} /\ Part.of = {}
  BY DEF Tails, NoCut, Part
<1>3. ASSUME NEW e \in {"url", "line"}, NEW l \in First(F \ K)
      PROVE  [end |-> e, of |-> {l}] \in Tails /\ l \in F \ K
  <2>1. l \in F \ K /\ l \in Lines
    BY DEF First
  <2> QED
    BY <2>1 DEF Tails
<1>4. CASE AddLines(K, NoCut)
  BY <1>2, <1>4
<1>5. CASE AddLines(K, Part)
  BY <1>2, <1>5
<1>6. ASSUME NEW e \in {"url", "line"}, NEW l \in First(F \ K),
             AddLines(K, [end |-> e, of |-> {l}])
      PROVE  \E J \in SUBSET F, t \in Tails :
               AddLines(J, t) /\ t.of \subseteq F /\ J \cap t.of = {}
  <2> DEFINE t == [end |-> e, of |-> {l}]
  <2>1. t \in Tails /\ t.of = {l} /\ l \in F \ K /\ AddLines(K, t)
    BY <1>3, <1>6
  <2> HIDE DEF t
  <2> QED
    BY <2>1
<1> QED
  BY <1>1, <1>4, <1>5, <1>6

LEMMA FileSame ==
    ASSUME NEW p, UNCHANGED <<rel[p], ids[p]>>
    PROVE  File(p)' = File(p)
  BY DEF File

LEMMA KeepsSame ==
    ASSUME NEW q, Keeps(q), UNCHANGED <<pos[q], rel[q], ids[q], entries[q], missed[q]>>
    PROVE  Keeps(q)'
<1>1. Seen(q)' = Seen(q)
  BY DEF Seen
<1>2. Got(q)' = Got(q)
  BY DEF Got
<1> QED
  BY <1>1, <1>2 DEF Keeps

-----------------------------------------------------------------------------
(* Every step of the composition is one of the cache, or leaves it alone.  *)
LEMMA StepIsCsdbStep == [Next]_vars => [CsdbNext]_csdbVars
<1> SUFFICES ASSUME [Next]_vars PROVE [CsdbNext]_csdbVars
  OBVIOUS
<1>1. ASSUME NEW p \in Procs, Begin(p) PROVE [CsdbNext]_csdbVars
  BY <1>1 DEF Begin, CsdbNext
<1>2. ASSUME NEW p \in Procs, Step(p) PROVE [CsdbNext]_csdbVars
  BY <1>2 DEF Step, CsdbNext
<1>3. ASSUME NEW p \in Procs, Kill(p) PROVE [CsdbNext]_csdbVars
  BY <1>3 DEF Kill, CsdbNext
<1>4. CASE Tick
  BY <1>4 DEF Tick
<1>5. CASE AllEnded
  BY <1>5 DEF AllEnded, vars
<1>6. CASE UNCHANGED vars
  BY <1>6 DEF vars
<1> QED
  BY <1>1, <1>2, <1>3, <1>4, <1>5, <1>6 DEF Next

(* The cache's invariants hold at the start.                               *)
LEMMA CsdbInitInv == CsdbInit => Booked /\ Whole
<1> SUFFICES ASSUME CsdbInit PROVE Booked /\ Whole
  OBVIOUS
<1> USE CsdbAssumption DEF CsdbInit
<1>1. CsdbTypeOK
  <2>1. rel \in [Procs -> 1..(Releases + 1)]
    OBVIOUS
  <2>2. sums \in [Lines -> Nat] /\ listed \in [1..Releases -> SUBSET Ids]
    OBVIOUS
  <2> QED
    BY <2>1, <2>2 DEF CsdbTypeOK, Tails
<1>2. Owned /\ Within /\ Lacking /\ Indexed /\ PagesWhole /\ SeenKept
  BY DEF Owned, Within, Lacking, Indexed, PagesWhole, SeenKept, Keeps, Locked
<1>3. Kept
  BY Apart DEF Kept, NoCut
<1> QED
  BY <1>1, <1>2, <1>3 DEF Booked, Whole

(* The steps keep the type.                                                *)
LEMMA CsdbNextType == Booked /\ [CsdbNext]_csdbVars => CsdbTypeOK'
<1> SUFFICES ASSUME Booked, [CsdbNext]_csdbVars PROVE CsdbTypeOK'
  OBVIOUS
<1>0. CsdbTypeOK
  BY DEF Booked
<1> USE CsdbAssumption DEF Move, loop, cache, index
<1>1. ASSUME NEW p \in Procs, NEW f \in BOOLEAN, CsdbBegin(p, f) PROVE CsdbTypeOK'
  BY <1>0, <1>1 DEF CsdbBegin, CsdbTypeOK
<1>2. ASSUME NEW p \in Procs, CsdbLock(p) PROVE CsdbTypeOK'
  BY <1>0, <1>2 DEF CsdbLock, CsdbTypeOK
<1>3. ASSUME NEW p \in Procs, ReadPage(p) PROVE CsdbTypeOK'
  BY <1>0, <1>3 DEF ReadPage, CsdbTypeOK
<1>4. ASSUME NEW p \in Procs, GetPage(p) PROVE CsdbTypeOK'
  BY <1>0, <1>4 DEF GetPage, CsdbTypeOK
<1>5. ASSUME NEW p \in Procs, OpenPage(p) PROVE CsdbTypeOK'
  <2>1. rel[p] \in 1..Releases
    BY <1>0, <1>5 DEF Booked, Within, CsdbTypeOK, OpenPage
  <2> QED
    BY <1>0, <1>5, <2>1 DEF OpenPage, CsdbTypeOK
<1>6. ASSUME NEW p \in Procs, WritePage(p) PROVE CsdbTypeOK'
  <2>1. rel[p] \in 1..Releases
    BY <1>0, <1>6 DEF Booked, Within, CsdbTypeOK, WritePage
  <2> QED
    BY <1>0, <1>6, <2>1 DEF WritePage, CsdbTypeOK
<1>7. ASSUME NEW p \in Procs, SkipRelease(p) \/ NextRelease(p) PROVE CsdbTypeOK'
  <2>1. rel[p] \in 1..Releases
    BY <1>0, <1>7 DEF Booked, Within, CsdbTypeOK, SkipRelease, NextRelease
  <2>2. rel' \in [Procs -> 1..(Releases + 1)]
    <3>1. rel' = [rel EXCEPT ![p] = @ + 1]
      BY <1>7 DEF SkipRelease, NextRelease
    <3>2. rel[p] + 1 \in 1..(Releases + 1)
      BY <2>1
    <3> QED
      BY <1>0, <3>1, <3>2 DEF CsdbTypeOK
  <2>3. missed' \in [Procs -> BOOLEAN] /\ pos' = [pos EXCEPT ![p] = "release"]
    BY <1>0, <1>7 DEF SkipRelease, NextRelease, CsdbTypeOK
  <2>4. UNCHANGED <<force, ids, entries, fresh, holder, pages, listed, dl, media, index,
                    replaced>>
    BY <1>7 DEF SkipRelease, NextRelease
  <2> QED
    BY <1>0, <2>2, <2>3, <2>4 DEF CsdbTypeOK, index
<1>8. ASSUME NEW p \in Procs, ReuseFile(p) \/ WriteFile(p) \/ SkipFile(p)
      PROVE  CsdbTypeOK'
  <2>1. \/ UNCHANGED <<entries, dl, replaced>>
        \/ \E c \in Copies :
             /\ entries' = [entries EXCEPT ![p] = @ \cup {c}]
             /\ dl' \subseteq dl \cup {c} /\ replaced' \subseteq replaced \cup dl
    BY <1>0, <1>8 DEF ReuseFile, WriteFile, SkipFile, Have, Present, CsdbTypeOK
  <2>2. entries' \in [Procs -> SUBSET Copies] /\ dl' \subseteq Copies /\ replaced' \subseteq Copies
    <3>1. entries \in [Procs -> SUBSET Copies] /\ dl \subseteq Copies /\ replaced \subseteq Copies
      BY <1>0 DEF CsdbTypeOK
    <3>2. \A c \in Copies : entries[p] \cup {c} \in SUBSET Copies
      BY <3>1
    <3> QED
      BY <2>1, <3>1, <3>2
  <2>3. ids' \in [Procs -> SUBSET Ids]
    BY <1>0, <1>8 DEF ReuseFile, WriteFile, SkipFile, Done, CsdbTypeOK
  <2>4. missed' \in [Procs -> BOOLEAN] /\ pos' = [pos EXCEPT ![p] = "files"]
    BY <1>0, <1>8 DEF ReuseFile, WriteFile, SkipFile, CsdbTypeOK
  <2>5. UNCHANGED <<force, rel, fresh, holder, pages, listed, media, sums, tail, lost>>
    BY <1>8 DEF ReuseFile, WriteFile, SkipFile, index
  <2> QED
    BY <1>0, <2>2, <2>3, <2>4, <2>5 DEF CsdbTypeOK
<1>9. ASSUME NEW p \in Procs, GetFile(p) PROVE CsdbTypeOK'
  BY <1>0, <1>9 DEF GetFile, CsdbTypeOK
<1>10. ASSUME NEW p \in Procs, ReadSums(p) PROVE CsdbTypeOK'
  BY <1>0, <1>10, Apart DEF ReadSums, CsdbTypeOK
<1>11. ASSUME NEW p \in Procs, AppendSums(p) \/ AppendMediaSums(p) PROVE CsdbTypeOK'
  <2>1. fresh[p] \in SUBSET Lines /\ NoCut \in Tails /\ AddLines(fresh[p], NoCut)
    BY <1>0, <1>11 DEF AppendSums, AppendMediaSums, CsdbTypeOK, Tails
  <2>2. sums' \in [Lines -> Nat] /\ tail' \in Tails /\ lost' \subseteq Lines
    BY <1>0, <2>1, AppendType DEF CsdbTypeOK
  <2>3. holder' \in {holder, Nobody} /\ fresh' \in [Procs -> SUBSET Lines]
    BY <1>0, <1>11 DEF AppendSums, AppendMediaSums, CsdbTypeOK
  <2> QED
    BY <1>0, <1>11, <2>2, <2>3 DEF AppendSums, AppendMediaSums, CsdbTypeOK
<1>12. ASSUME NEW p \in Procs, IndexMedia(p) PROVE CsdbTypeOK'
  <2>1. \/ UNCHANGED <<media, fresh>>
        \/ \E d \in dl : /\ media' = media \cup {d[3]}
                         /\ fresh' = [fresh EXCEPT ![p] = {Medium(d[3])}]
    BY <1>12 DEF IndexMedia
  <2>2. \A d \in dl : d[3] \in Names
    BY <1>0, CsdbAssumption DEF CsdbTypeOK, Copies
  <2>3. media' \subseteq Names /\ fresh' \in [Procs -> SUBSET Lines]
    <3>1. media \subseteq Names /\ fresh \in [Procs -> SUBSET Lines]
      BY <1>0 DEF CsdbTypeOK
    <3>2. CASE UNCHANGED <<media, fresh>>
      BY <3>1, <3>2
    <3>3. ASSUME NEW d \in dl, media' = media \cup {d[3]},
                 fresh' = [fresh EXCEPT ![p] = {Medium(d[3])}]
          PROVE  media' \subseteq Names /\ fresh' \in [Procs -> SUBSET Lines]
      <4>1. d[3] \in Names /\ {Medium(d[3])} \in SUBSET Lines
        BY <2>2, Apart
      <4> QED
        BY <3>1, <3>3, <4>1
    <3> QED
      BY <2>1, <3>2, <3>3
  <2> QED
    BY <1>0, <1>12, <2>3 DEF IndexMedia, CsdbTypeOK, index
<1>13. ASSUME NEW p \in Procs, ReadMediaSums(p) PROVE CsdbTypeOK'
  BY <1>0, <1>13 DEF ReadMediaSums, CsdbTypeOK, index
<1>14. ASSUME NEW p \in Procs, CsdbKill(p) PROVE CsdbTypeOK'
  <2>1. listed' \in [1..Releases -> SUBSET Ids]
    BY <1>0, <1>14 DEF CsdbKill, CsdbTypeOK
  <2>2. rel' \in [Procs -> 1..(Releases + 1)]
    BY <1>0, <1>14 DEF CsdbKill, CsdbTypeOK
  <2>3. entries' \in [Procs -> SUBSET Copies] /\ fresh' \in [Procs -> SUBSET Lines]
        /\ ids' \in [Procs -> SUBSET Ids]
    BY <1>0, <1>14 DEF CsdbKill, CsdbTypeOK
  <2>4. holder' \in {holder, Nobody}
    BY <1>14 DEF CsdbKill
  <2>5. pos' = [pos EXCEPT ![p] = "idle"] /\ UNCHANGED <<pages, dl, media, replaced>>
        /\ force' = [force EXCEPT ![p] = FALSE] /\ missed' = [missed EXCEPT ![p] = FALSE]
    BY <1>14 DEF CsdbKill
  <2>6. sums' \in [Lines -> Nat] /\ tail' \in Tails /\ lost' \subseteq Lines
    <3>1. fresh[p] \in SUBSET Lines /\ (Cut(fresh[p]) \/ UNCHANGED index)
      BY <1>0, <1>14 DEF CsdbKill, CsdbTypeOK
    <3>2. CASE UNCHANGED index
      BY <1>0, <3>2 DEF CsdbTypeOK, index
    <3>3. CASE Cut(fresh[p])
      BY <1>0, <3>1, <3>3, CutAppends, AppendType DEF CsdbTypeOK
    <3> QED
      BY <3>1, <3>2, <3>3
  <2> QED
    BY <1>0, <2>1, <2>2, <2>3, <2>4, <2>5, <2>6 DEF CsdbTypeOK
<1>15. CASE UNCHANGED csdbVars
  BY <1>0, <1>15 DEF csdbVars, CsdbTypeOK
<1> QED
  BY <1>1, <1>2, <1>3, <1>4, <1>5, <1>6, <1>7, <1>8, <1>9, <1>10, <1>11, <1>12,
     <1>13, <1>14, <1>15 DEF CsdbNext, CsdbStep

(* The lock stays with one process.                                        *)
LEMMA CsdbNextOwned == Booked /\ [CsdbNext]_csdbVars => Owned'
<1> SUFFICES ASSUME Booked, [CsdbNext]_csdbVars PROVE Owned'
  OBVIOUS
<1> USE SlotAssumption DEF Booked, CsdbTypeOK, Owned, Locked, Move
<1>1. ASSUME NEW p \in Procs, NEW f \in BOOLEAN, CsdbBegin(p, f) PROVE Owned'
  BY <1>1 DEF CsdbBegin
<1>2. ASSUME NEW p \in Procs, CsdbLock(p) PROVE Owned'
  BY <1>2 DEF CsdbLock
<1>3. ASSUME NEW p \in Procs, ReadPage(p) \/ GetPage(p) \/ OpenPage(p) \/ WritePage(p)
      PROVE  Owned'
  BY <1>3 DEF ReadPage, GetPage, OpenPage, WritePage
<1>4. ASSUME NEW p \in Procs, SkipRelease(p) \/ NextRelease(p) \/ ReadSums(p)
      PROVE  Owned'
  BY <1>4 DEF SkipRelease, NextRelease, ReadSums
<1>5. ASSUME NEW p \in Procs, ReuseFile(p) \/ GetFile(p) \/ WriteFile(p) \/ SkipFile(p)
      PROVE  Owned'
  BY <1>5 DEF ReuseFile, GetFile, WriteFile, SkipFile
<1>6. ASSUME NEW p \in Procs, AppendSums(p) PROVE Owned'
  BY <1>6 DEF AppendSums
<1>7. ASSUME NEW p \in Procs, IndexMedia(p) \/ ReadMediaSums(p) \/ AppendMediaSums(p)
      PROVE  Owned'
  BY <1>7 DEF IndexMedia, ReadMediaSums, AppendMediaSums
<1>8. ASSUME NEW p \in Procs, CsdbKill(p) PROVE Owned'
  BY <1>8 DEF CsdbKill
<1>9. CASE UNCHANGED csdbVars
  BY <1>9 DEF csdbVars
<1> QED
  BY <1>1, <1>2, <1>3, <1>4, <1>5, <1>6, <1>7, <1>8, <1>9 DEF CsdbNext, CsdbStep

(* The releases worked on stay within the manifest.                        *)
LEMMA CsdbNextWithin == Booked /\ [CsdbNext]_csdbVars => Within'
<1> SUFFICES ASSUME Booked, [CsdbNext]_csdbVars PROVE Within'
  OBVIOUS
<1> USE CsdbAssumption DEF Booked, CsdbTypeOK, Within, Move, loop
<1>1. ASSUME NEW p \in Procs, NEW f \in BOOLEAN, CsdbBegin(p, f) PROVE Within'
  BY <1>1 DEF CsdbBegin
<1>2. ASSUME NEW p \in Procs, CsdbLock(p) PROVE Within'
  BY <1>2 DEF CsdbLock
<1>3. ASSUME NEW p \in Procs, ReadPage(p) \/ GetPage(p) \/ OpenPage(p) \/ WritePage(p)
      PROVE  Within'
  BY <1>3 DEF ReadPage, GetPage, OpenPage, WritePage
<1>4. ASSUME NEW p \in Procs, SkipRelease(p) \/ NextRelease(p) \/ ReadSums(p)
      PROVE  Within'
  BY <1>4 DEF SkipRelease, NextRelease, ReadSums
<1>5. ASSUME NEW p \in Procs, ReuseFile(p) \/ GetFile(p) \/ WriteFile(p) \/ SkipFile(p)
      PROVE  Within'
  BY <1>5 DEF ReuseFile, GetFile, WriteFile, SkipFile, Done
<1>6. ASSUME NEW p \in Procs, AppendSums(p) PROVE Within'
  BY <1>6 DEF AppendSums
<1>7. ASSUME NEW p \in Procs, IndexMedia(p) \/ ReadMediaSums(p) \/ AppendMediaSums(p)
      PROVE  Within'
  BY <1>7 DEF IndexMedia, ReadMediaSums, AppendMediaSums
<1>8. ASSUME NEW p \in Procs, CsdbKill(p) PROVE Within'
  BY <1>8 DEF CsdbKill
<1>9. CASE UNCHANGED csdbVars
  BY <1>9 DEF csdbVars
<1> QED
  BY <1>1, <1>2, <1>3, <1>4, <1>5, <1>6, <1>7, <1>8, <1>9 DEF CsdbNext, CsdbStep

(* A download that is asked for is still lacking: only the holder of the   *)
(* lock adds any.                                                          *)
LEMMA CsdbNextLacking == Booked /\ [CsdbNext]_csdbVars => Lacking'
<1> SUFFICES ASSUME Booked, [CsdbNext]_csdbVars,
                    NEW q \in Procs, pos'[q] = "file", ~force'[q]
             PROVE  (Present(q) = {})'
  BY DEF Lacking
<1>a. pos[q] = "file" /\ ~force[q] => Present(q) = {}
  BY DEF Booked, Lacking
<1>t. pos \in [Procs -> {"idle", "lock", "release", "page", "write", "files", "file",
                         "append", "media", "known", "index", "done"}]
      /\ force \in [Procs -> BOOLEAN] /\ rel \in [Procs -> 1..(Releases + 1)]
      /\ ids \in [Procs -> SUBSET Ids]
  BY DEF Booked, CsdbTypeOK
<1>o. \A p \in Procs : pos[p] \in Locked /\ pos[q] = "file" => p = q
  BY DEF Booked, Owned, Locked
<1>1. (pos[q] = "file" /\ ~force[q]) \/ GetFile(q)
  <2>1. ASSUME NEW p \in Procs, NEW f \in BOOLEAN, CsdbBegin(p, f) PROVE pos[q] = "file" /\ ~force[q]
    BY <1>t, <2>1 DEF CsdbBegin, Move
  <2>2. ASSUME NEW p \in Procs, CsdbStep(p) PROVE (pos[q] = "file" /\ ~force[q]) \/ GetFile(q)
    BY <1>t, <2>2 DEF CsdbStep, CsdbLock, ReadPage, GetPage, OpenPage, WritePage, SkipRelease,
              NextRelease, ReuseFile, GetFile, WriteFile, SkipFile, ReadSums,
              AppendSums, IndexMedia, ReadMediaSums, AppendMediaSums, Move
  <2>3. ASSUME NEW p \in Procs, CsdbKill(p) PROVE pos[q] = "file" /\ ~force[q]
    BY <1>t, <2>3 DEF CsdbKill, Move
  <2>4. CASE UNCHANGED csdbVars
    BY <2>4 DEF csdbVars
  <2> QED
    BY <2>1, <2>2, <2>3, <2>4 DEF CsdbNext
<1>2. UNCHANGED <<rel[q], ids[q]>>
  <2>1. ASSUME NEW p \in Procs, NEW f \in BOOLEAN, CsdbBegin(p, f) PROVE UNCHANGED <<rel[q], ids[q]>>
    BY <2>1 DEF CsdbBegin, loop
  <2>2. ASSUME NEW p \in Procs, CsdbStep(p) PROVE UNCHANGED <<rel[q], ids[q]>>
    BY <1>t, <2>2 DEF CsdbStep, CsdbLock, ReadPage, GetPage, OpenPage, WritePage, SkipRelease,
              NextRelease, ReuseFile, GetFile, WriteFile, SkipFile, ReadSums,
              AppendSums, IndexMedia, ReadMediaSums, AppendMediaSums, Move, Done, loop
  <2>3. ASSUME NEW p \in Procs, CsdbKill(p) PROVE UNCHANGED <<rel[q], ids[q]>>
    BY <1>t, <2>3 DEF CsdbKill, Move
  <2>4. CASE UNCHANGED csdbVars
    BY <2>4 DEF csdbVars
  <2> QED
    BY <2>1, <2>2, <2>3, <2>4 DEF CsdbNext
<1>3. dl' = dl
  <2>1. ASSUME NEW p \in Procs, NEW f \in BOOLEAN, CsdbBegin(p, f) PROVE dl' = dl
    BY <2>1 DEF CsdbBegin, cache
  <2>2. ASSUME NEW p \in Procs, CsdbStep(p) PROVE dl' = dl
    <3>1. ~WriteFile(p)
      BY <1>1, <1>t, <1>o DEF WriteFile, GetFile, Move, Locked
    <3> QED
      BY <2>2, <3>1 DEF CsdbStep, CsdbLock, ReadPage, GetPage, OpenPage, WritePage,
              SkipRelease, NextRelease, ReuseFile, GetFile, SkipFile, ReadSums,
              AppendSums, IndexMedia, ReadMediaSums, AppendMediaSums, cache
  <2>3. ASSUME NEW p \in Procs, CsdbKill(p) PROVE dl' = dl
    BY <2>3 DEF CsdbKill
  <2>4. CASE UNCHANGED csdbVars
    BY <2>4 DEF csdbVars
  <2> QED
    BY <2>1, <2>2, <2>3, <2>4 DEF CsdbNext
<1>4. Present(q) = {}
  BY <1>1, <1>a, <1>t DEF GetFile
<1> QED
  BY <1>2, <1>3, <1>4, FileSame DEF Present

(* A medium that is indexed stays so, but for what runs into its line.     *)
LEMMA AppendMedium ==
    ASSUME sums \in [Lines -> Nat], NEW K \in SUBSET Lines, NEW t, AddLines(K, t),
           media \subseteq Names, media' = media, MediumIndexed
    PROVE  MediumIndexed'
<1>1. PICK name \in media : Found(Medium(name)) \/ Medium(name) \in lost
  BY DEF MediumIndexed
<1>2. (Found(Medium(name)) \/ Medium(name) \in lost)'
  BY <1>1, Apart, AppendLists
<1> QED
  BY <1>2 DEF MediumIndexed

(* What a process has and is about to append stays true of an unchanged    *)
(* index,                                                                   *)
LEMMA KeptSame ==
    ASSUME Kept, UNCHANGED <<fresh, media, index>>,
           \A q \in Procs : pos'[q] \in {"append", "known", "index"} =>
             pos'[q] = pos[q] /\ entries'[q] = entries[q],
           \A q \in Procs : entries'[q] \subseteq entries[q] \cup dl',
           dl \cup replaced \subseteq dl' \cup replaced', replaced \subseteq replaced'
    PROVE  Kept'
<1>1. UNCHANGED <<sums, tail, lost>>
  BY DEF index
<1>2. MediumIndexed' = MediumIndexed /\ \A l : Listed(l)' = Listed(l)
  BY <1>1 DEF MediumIndexed, Found, Listed, Known
<1>3. \A q \in Procs : entries'[q] \subseteq dl' \cup replaced'
  BY DEF Kept
<1> QED
  BY <1>1, <1>2, <1>3 DEF Kept

(* and of an append outside the lock.                                      *)
LEMMA KeptOutside ==
    ASSUME Kept, sums \in [Lines -> Nat], entries \in [Procs -> SUBSET Copies],
           fresh \in [Procs -> SUBSET Lines], media \subseteq Names,
           UNCHANGED <<dl, media, replaced>>,
           NEW p \in Procs, pos[p] = "index", pos'[p] \in {"idle", "done"},
           \A q \in Procs \ {p} : UNCHANGED <<pos[q], fresh[q], entries[q]>>,
           entries'[p] \subseteq entries[p],
           NEW K \in SUBSET fresh[p], NEW t \in Tails, AddLines(K, t), t.of \subseteq fresh[p],
           K \cap t.of = {}
    PROVE  Kept'
<1>1. \A c \in Copies : c \notin fresh[p]
  BY Apart DEF Kept
<1>2. K \in SUBSET Lines
  OBVIOUS
<1>3. \A c \in Copies : sums'[c] = sums[c] /\ (Listed(c) => Listed(c)')
  BY <1>1, <1>2, Apart, AppendLists
<1>4. \A c \in Copies : sums'[c] <= 1 /\ (c \in tail'.of => sums'[c] = 0)
  BY <1>1, <1>2, AppendOnce DEF Kept
<1>5. MediumIndexed => MediumIndexed'
  BY <1>2, AppendMedium
<1> QED
  BY <1>3, <1>4, <1>5 DEF Kept

(* What was reported stays so while the index does,                        *)
LEMMA IndexedSame ==
    ASSUME Indexed, UNCHANGED <<media, index>>,
           \A q \in Procs : pos'[q] \in {"media", "known", "index", "done"} =>
             pos'[q] = pos[q] /\ entries'[q] = entries[q],
           dl \cup replaced \subseteq dl' \cup replaced', replaced \subseteq replaced'
    PROVE  Indexed'
<1>1. UNCHANGED <<sums, tail, lost>>
  BY DEF index
<1>2. MediumIndexed' = MediumIndexed /\ \A l : Known(l)' = Known(l)
  BY <1>1 DEF MediumIndexed, Found, Known
<1>3. \A c : Reported(c) => Reported(c)'
  BY <1>1, <1>2 DEF Reported
<1> QED
  BY <1>2, <1>3 DEF Indexed

(* and when it is appended to.                                             *)
LEMMA IndexedOn ==
    ASSUME Indexed, sums \in [Lines -> Nat], entries \in [Procs -> SUBSET Copies],
           media \subseteq Names, UNCHANGED <<dl, media, replaced>>,
           NEW K \in SUBSET Lines, NEW t, AddLines(K, t),
           NEW p \in Procs,
           \A q \in Procs \ {p} : UNCHANGED <<pos[q], entries[q]>>,
           \A c \in entries'[p] : Reported(c)',
           \A c \in entries'[p] :
             pos'[p] = "done" /\ HoldsMedium(c) /\ c \notin replaced => MediumIndexed'
    PROVE  Indexed'
<1>1. MediumIndexed => MediumIndexed'
  BY AppendMedium
<1>2. \A c \in Copies : Reported(c) => Reported(c)'
  BY Apart, AppendLists DEF Reported, Listed
<1>3. ASSUME NEW q \in Procs \ {p}, NEW c \in entries'[q]
      PROVE  /\ pos'[q] \in {"media", "known", "index", "done"} => Reported(c)'
             /\ pos'[q] = "done" /\ HoldsMedium(c) /\ c \notin replaced' => MediumIndexed'
  BY <1>1, <1>2, <1>3 DEF Indexed
<1> QED
  BY <1>3 DEF Indexed

(* What a process has, and what it is about to append, stays true: the     *)
(* index is appended to by the holder of the lock and, for the medium       *)
(* alone, by others.                                                        *)
LEMMA CsdbNextKept == Booked /\ [CsdbNext]_csdbVars => Kept'
<1> SUFFICES ASSUME Booked, [CsdbNext]_csdbVars PROVE Kept'
  OBVIOUS
<1>t. /\ pos \in [Procs -> {"idle", "lock", "release", "page", "write", "files", "file",
                            "append", "media", "known", "index", "done"}]
      /\ entries \in [Procs -> SUBSET Copies]
      /\ fresh \in [Procs -> SUBSET Lines]
      /\ media \subseteq Names
      /\ dl \subseteq Copies
      /\ sums \in [Lines -> Nat]
  BY DEF Booked, CsdbTypeOK
<1>k. Kept
  BY DEF Booked
<1>o. \A p, q \in Procs : pos[p] \in Locked /\ pos[q] \in Locked => p = q
  BY DEF Booked, Owned
<1> USE DEF Move, loop, cache, index
<1>1. ASSUME NEW p \in Procs, NEW f \in BOOLEAN, CsdbBegin(p, f) PROVE Kept'
  BY <1>t, <1>k, <1>1, KeptSame DEF CsdbBegin
<1>2. ASSUME NEW p \in Procs, CsdbLock(p) PROVE Kept'
  BY <1>t, <1>k, <1>2, KeptSame DEF CsdbLock
<1>3. ASSUME NEW p \in Procs, ReadPage(p) \/ GetPage(p) \/ OpenPage(p) \/ WritePage(p)
      PROVE  Kept'
  BY <1>t, <1>k, <1>3, KeptSame DEF ReadPage, GetPage, OpenPage, WritePage
<1>4. ASSUME NEW p \in Procs, SkipRelease(p) \/ NextRelease(p) PROVE Kept'
  BY <1>t, <1>k, <1>4, KeptSame DEF SkipRelease, NextRelease
<1>5. ASSUME NEW p \in Procs, ReuseFile(p) \/ GetFile(p) \/ SkipFile(p) PROVE Kept'
  <2>1. /\ UNCHANGED <<dl, fresh, media, index, replaced>>
        /\ \A q \in Procs : pos'[q] \in {"append", "known", "index"} =>
             pos'[q] = pos[q] /\ entries'[q] = entries[q]
        /\ \A q \in Procs : entries'[q] \subseteq entries[q] \cup dl
    BY <1>t, <1>5 DEF ReuseFile, GetFile, SkipFile, Have, Present
  <2> QED
    BY <1>k, <2>1, KeptSame
<1>6. ASSUME NEW p \in Procs, WriteFile(p) PROVE Kept'
  <2>1. /\ UNCHANGED <<fresh, media, index>>
        /\ \A q \in Procs : pos'[q] \in {"append", "known", "index"} =>
             pos'[q] = pos[q] /\ entries'[q] = entries[q]
        /\ \A q \in Procs : entries'[q] \subseteq entries[q] \cup dl'
        /\ dl \cup replaced \subseteq dl' \cup replaced' /\ replaced \subseteq replaced'
    BY <1>t, <1>6 DEF WriteFile, Have
  <2> QED
    BY <1>k, <2>1, KeptSame
<1>7. ASSUME NEW p \in Procs, ReadSums(p) PROVE Kept'
  <2>1. \A q \in Procs \ {p} : UNCHANGED <<pos[q], fresh[q]>>
    BY <1>t, <1>7 DEF ReadSums
  <2>2. /\ pos'[p] = "append" /\ fresh'[p] = {c \in entries[p] : ~Known(c)}
        /\ UNCHANGED <<entries, dl, media, index, replaced>>
    BY <1>t, <1>7 DEF ReadSums
  <2>3. \A c \in entries[p] : ~Known(c) => sums[c] = 0
    <3>1. \A c \in entries[p] : sums[c] \in Nat
      BY <1>t, Apart
    <3> QED
      BY <3>1 DEF Known
  <2> QED
    BY <1>k, <2>1, <2>2, <2>3 DEF Kept, Listed, Known, MediumIndexed, Found
<1>8. ASSUME NEW p \in Procs, AppendSums(p) PROVE Kept'
  <2>1. /\ fresh[p] \in SUBSET Lines /\ AddLines(fresh[p], NoCut)
        /\ UNCHANGED <<entries, dl, media, replaced>>
        /\ pos[p] = "append" /\ pos'[p] = "media"
        /\ \A q \in Procs \ {p} : UNCHANGED <<pos[q], fresh[q]>>
    BY <1>t, <1>8 DEF AppendSums
  <2>2. \A q \in Procs : pos'[q] # "append"
    BY <1>o, <2>1 DEF Locked
  <2>3. /\ \A c \in Copies : c \in fresh[p] \/ c \in NoCut.of => sums[c] = 0
        /\ fresh[p] \cap NoCut.of = {}
    BY <1>k, <2>1 DEF Kept, NoCut
  <2>4. \A c \in Copies : sums'[c] <= 1 /\ (c \in tail'.of => sums'[c] = 0)
    BY <1>t, <1>k, <2>1, <2>3, AppendOnce DEF Kept
  <2>5. MediumIndexed => MediumIndexed'
    BY <1>t, <2>1, AppendMedium
  <2> QED
    BY <1>k, <2>1, <2>2, <2>4, <2>5 DEF Kept
<1>9. ASSUME NEW p \in Procs, IndexMedia(p) PROVE Kept'
  <2>1. /\ pos[p] = "media" /\ pos'[p] \in {"known", "done"}
        /\ UNCHANGED <<entries, dl, index, replaced>>
        /\ \A q \in Procs \ {p} : UNCHANGED <<pos[q], fresh[q]>>
        /\ media \subseteq media'
    BY <1>t, <1>9 DEF IndexMedia
  <2>2. pos'[p] = "known" =>
          \E d \in dl : d[3] \in media' /\ fresh'[p] = {Medium(d[3])}
    BY <1>t, <1>9 DEF IndexMedia
  <2>3. MediumIndexed => MediumIndexed'
    BY <2>1 DEF MediumIndexed, Found
  <2> QED
    BY <1>k, <2>1, <2>2, <2>3 DEF Kept, Listed, Known
<1>10. ASSUME NEW p \in Procs, ReadMediaSums(p) PROVE Kept'
  <2>1. /\ pos[p] = "known" /\ pos'[p] = "index"
        /\ UNCHANGED <<entries, dl, media, index, replaced>>
        /\ fresh'[p] = {l \in fresh[p] : ~Known(l)}
        /\ \A q \in Procs \ {p} : UNCHANGED <<pos[q], fresh[q]>>
    BY <1>t, <1>10 DEF ReadMediaSums
  <2>2. \A name \in media : Known(Medium(name)) => MediumIndexed
    BY DEF Known, MediumIndexed, Found
  <2>3. MediumIndexed' = MediumIndexed
    BY <2>1 DEF MediumIndexed, Found
  <2>4. /\ fresh'[p] \subseteq fresh[p]
        /\ \A name \in media : Medium(name) \in fresh[p] \ fresh'[p] => MediumIndexed
    BY <2>1, <2>2
  <2> QED
    BY <1>k, <2>1, <2>3, <2>4 DEF Kept, Listed, Known
<1>11. ASSUME NEW p \in Procs, AppendMediaSums(p) PROVE Kept'
  <2>1. /\ AddLines(fresh[p], NoCut) /\ pos[p] = "index" /\ pos'[p] = "done"
        /\ UNCHANGED <<entries, dl, media, replaced>>
        /\ \A q \in Procs \ {p} : UNCHANGED <<pos[q], fresh[q]>>
    BY <1>t, <1>11 DEF AppendMediaSums
  <2> QED
    BY <1>t, <1>k, <2>1, KeptOutside DEF Tails, NoCut
<1>12. ASSUME NEW p \in Procs, CsdbKill(p) PROVE Kept'
  <2>1. /\ pos'[p] = "idle" /\ entries'[p] = {}
        /\ UNCHANGED <<dl, media, replaced>>
        /\ \A q \in Procs \ {p} : UNCHANGED <<pos[q], fresh[q], entries[q]>>
        /\ (pos[p] \in {"append", "index"} /\ Cut(fresh[p])) \/ UNCHANGED index
    BY <1>t, <1>12 DEF CsdbKill
  <2>2. CASE UNCHANGED index
    BY <1>k, <2>1, <2>2 DEF Kept, Listed, Known, MediumIndexed, Found
  <2>3. CASE pos[p] \in {"append", "index"} /\ Cut(fresh[p])
    <3>1. PICK K \in SUBSET fresh[p], t \in Tails :
            AddLines(K, t) /\ t.of \subseteq fresh[p] /\ K \cap t.of = {}
      BY <1>t, <2>3, CutAppends
    <3>2. CASE pos[p] = "index"
      BY <1>t, <1>k, <2>1, <3>1, <3>2, KeptOutside
    <3>3. CASE pos[p] = "append"
      <4>1. \A q \in Procs : pos'[q] # "append"
        BY <1>o, <2>1, <3>3 DEF Locked
      <4>2. \A c \in Copies : c \in K \/ c \in t.of => sums[c] = 0
        BY <1>k, <3>1, <3>3 DEF Kept
      <4>3. K \in SUBSET Lines
        BY <1>t
      <4>4. \A c \in Copies : sums'[c] <= 1 /\ (c \in tail'.of => sums'[c] = 0)
        BY <1>t, <1>k, <3>1, <4>2, <4>3, AppendOnce DEF Kept
      <4>5. MediumIndexed => MediumIndexed'
        BY <1>t, <2>1, <3>1, <4>3, AppendMedium
      <4> QED
        BY <1>k, <2>1, <4>1, <4>4, <4>5 DEF Kept
    <3> QED
      BY <2>3, <3>2, <3>3
  <2> QED
    BY <2>1, <2>2, <2>3
<1>13. CASE UNCHANGED csdbVars
  BY <1>k, <1>13, KeptSame DEF csdbVars
<1> QED
  BY <1>1, <1>2, <1>3, <1>4, <1>5, <1>6, <1>7, <1>8, <1>9, <1>10, <1>11, <1>12,
     <1>13 DEF CsdbNext, CsdbStep

(* What a call reports is in the index from the end of its append on.      *)
LEMMA CsdbNextIndexed == Booked /\ [CsdbNext]_csdbVars => Indexed'
<1> SUFFICES ASSUME Booked, [CsdbNext]_csdbVars PROVE Indexed'
  OBVIOUS
<1>t. /\ pos \in [Procs -> {"idle", "lock", "release", "page", "write", "files", "file",
                            "append", "media", "known", "index", "done"}]
      /\ entries \in [Procs -> SUBSET Copies]
      /\ fresh \in [Procs -> SUBSET Lines]
      /\ media \subseteq Names
      /\ dl \subseteq Copies
      /\ sums \in [Lines -> Nat]
  BY DEF Booked, CsdbTypeOK
<1>k. Kept /\ Indexed
  BY DEF Booked
<1> USE DEF Move, loop, cache, index
<1>1. ASSUME NEW p \in Procs, NEW f \in BOOLEAN, CsdbBegin(p, f) PROVE Indexed'
  BY <1>t, <1>k, <1>1, IndexedSame DEF CsdbBegin
<1>2. ASSUME NEW p \in Procs, CsdbLock(p) PROVE Indexed'
  BY <1>t, <1>k, <1>2, IndexedSame DEF CsdbLock
<1>3. ASSUME NEW p \in Procs, ReadPage(p) \/ GetPage(p) \/ OpenPage(p) \/ WritePage(p)
      PROVE  Indexed'
  BY <1>t, <1>k, <1>3, IndexedSame DEF ReadPage, GetPage, OpenPage, WritePage
<1>4. ASSUME NEW p \in Procs, SkipRelease(p) \/ NextRelease(p) PROVE Indexed'
  BY <1>t, <1>k, <1>4, IndexedSame DEF SkipRelease, NextRelease
<1>5. ASSUME NEW p \in Procs, ReuseFile(p) \/ GetFile(p) \/ SkipFile(p) PROVE Indexed'
  <2>1. /\ UNCHANGED <<dl, media, index, replaced>>
        /\ \A q \in Procs : pos'[q] \in {"media", "known", "index", "done"} =>
             pos'[q] = pos[q] /\ entries'[q] = entries[q]
    BY <1>t, <1>5 DEF ReuseFile, GetFile, SkipFile, Have
  <2> QED
    BY <1>k, <2>1, IndexedSame
<1>6. ASSUME NEW p \in Procs, WriteFile(p) PROVE Indexed'
  <2>1. /\ UNCHANGED <<media, index>>
        /\ \A q \in Procs : pos'[q] \in {"media", "known", "index", "done"} =>
             pos'[q] = pos[q] /\ entries'[q] = entries[q]
        /\ dl \cup replaced \subseteq dl' \cup replaced' /\ replaced \subseteq replaced'
    BY <1>t, <1>6 DEF WriteFile, Have
  <2> QED
    BY <1>k, <2>1, IndexedSame
<1>7. ASSUME NEW p \in Procs, ReadSums(p) PROVE Indexed'
  BY <1>t, <1>k, <1>7, IndexedSame DEF ReadSums
<1>8. ASSUME NEW p \in Procs, AppendSums(p) PROVE Indexed'
  <2>1. /\ fresh[p] \in SUBSET Lines /\ AddLines(fresh[p], NoCut)
        /\ UNCHANGED <<entries, dl, media, replaced>>
        /\ pos[p] = "append" /\ pos'[p] = "media"
        /\ \A q \in Procs \ {p} : UNCHANGED <<pos[q]>>
    BY <1>t, <1>8 DEF AppendSums
  <2>2. \A c \in entries[p] : Reported(c)'
    <3>1. \A c \in entries[p] : (c \in dl \/ c \in replaced) /\ (Listed(c) \/ c \in fresh[p])
      BY <1>k, <2>1 DEF Kept
    <3>2. \A c \in entries[p] : Listed(c)'
      BY <1>t, <2>1, <3>1, Apart, AppendLists
    <3> QED
      BY <2>1, <3>1, <3>2 DEF Reported, Listed
  <2> QED
    BY <1>t, <1>k, <2>1, <2>2, IndexedOn
<1>9. ASSUME NEW p \in Procs, IndexMedia(p) PROVE Indexed'
  <2>1. /\ pos[p] = "media" /\ pos'[p] \in {"known", "done"}
        /\ UNCHANGED <<entries, dl, index, replaced>>
        /\ \A q \in Procs \ {p} : UNCHANGED <<pos[q]>>
        /\ media \subseteq media'
    BY <1>t, <1>9 DEF IndexMedia
  <2>2. ASSUME NEW c \in entries[p], pos'[p] = "done", HoldsMedium(c), c \notin replaced
        PROVE  MediumIndexed
    <3>1. c \in dl /\ SamePath(c, c)
      BY <1>k, <2>2 DEF Kept, SamePath
    <3>2. \E name \in media : Found(Medium(name))
      BY <1>t, <1>9, <2>2, <3>1 DEF IndexMedia
    <3> QED
      BY <3>2 DEF MediumIndexed
  <2>3. MediumIndexed => MediumIndexed'
    BY <2>1 DEF MediumIndexed, Found
  <2> QED
    BY <1>k, <2>1, <2>2, <2>3 DEF Indexed, Reported, Known
<1>10. ASSUME NEW p \in Procs, ReadMediaSums(p) PROVE Indexed'
  <2>1. /\ pos[p] = "known" /\ pos'[p] = "index"
        /\ UNCHANGED <<entries, dl, media, index, replaced>>
        /\ \A q \in Procs \ {p} : UNCHANGED <<pos[q]>>
    BY <1>t, <1>10 DEF ReadMediaSums
  <2> QED
    BY <1>k, <2>1 DEF Indexed, Reported, Known, MediumIndexed, Found
<1>11. ASSUME NEW p \in Procs, AppendMediaSums(p) PROVE Indexed'
  <2>1. /\ fresh[p] \in SUBSET Lines /\ AddLines(fresh[p], NoCut)
        /\ UNCHANGED <<entries, dl, media, replaced>>
        /\ pos[p] = "index" /\ pos'[p] = "done"
        /\ \A q \in Procs \ {p} : UNCHANGED <<pos[q]>>
    BY <1>t, <1>11 DEF AppendMediaSums
  <2>2. ASSUME NEW c \in entries[p], HoldsMedium(c), c \notin replaced
        PROVE  MediumIndexed'
    <3>1. CASE MediumIndexed
      BY <1>t, <2>1, <3>1, AppendMedium
    <3>2. ASSUME NEW name \in media, Medium(name) \in fresh[p] PROVE MediumIndexed'
      <4>1. Listed(Medium(name))'
        BY <1>t, <2>1, <3>2, Apart, AppendLists
      <4> QED
        BY <2>1, <4>1 DEF MediumIndexed, Listed, Known, Found
    <3> QED
      BY <1>k, <2>1, <2>2, <3>1, <3>2 DEF Kept
  <2>3. \A c \in entries[p] : Reported(c)'
    <3>1. \A c \in entries[p] : (c \in dl \/ c \in replaced) /\ Listed(c)
      BY <1>k, <2>1 DEF Indexed, Reported, Listed
    <3>2. \A c \in entries[p] : Listed(c)'
      BY <1>t, <2>1, <3>1, Apart, AppendLists
    <3> QED
      BY <2>1, <3>1, <3>2 DEF Reported, Listed
  <2> QED
    BY <1>t, <1>k, <2>1, <2>2, <2>3, IndexedOn
<1>12. ASSUME NEW p \in Procs, CsdbKill(p) PROVE Indexed'
  <2>1. /\ pos'[p] = "idle" /\ entries'[p] = {}
        /\ UNCHANGED <<dl, media, replaced>>
        /\ \A q \in Procs \ {p} : UNCHANGED <<pos[q], entries[q]>>
        /\ Cut(fresh[p]) \/ UNCHANGED index
    BY <1>t, <1>12 DEF CsdbKill
  <2>2. CASE UNCHANGED index
    BY <1>k, <2>1, <2>2 DEF Indexed, Reported, Known, MediumIndexed, Found
  <2>3. CASE Cut(fresh[p])
    <3>1. PICK K \in SUBSET fresh[p], t \in Tails : AddLines(K, t)
      BY <1>t, <2>3, CutAppends
    <3>2. K \in SUBSET Lines
      BY <1>t
    <3> QED
      BY <1>t, <1>k, <2>1, <3>1, <3>2, IndexedOn
  <2> QED
    BY <2>1, <2>2, <2>3
<1>13. CASE UNCHANGED csdbVars
  BY <1>k, <1>13, IndexedSame DEF csdbVars
<1> QED
  BY <1>1, <1>2, <1>3, <1>4, <1>5, <1>6, <1>7, <1>8, <1>9, <1>10, <1>11, <1>12,
     <1>13 DEF CsdbNext, CsdbStep

(* So the steps keep what has been booked.                                 *)
LEMMA CsdbNextBooked == Booked /\ [CsdbNext]_csdbVars => Booked'
  BY CsdbNextType, CsdbNextOwned, CsdbNextWithin, CsdbNextLacking, CsdbNextKept,
     CsdbNextIndexed DEF Booked

(* If no page is cut off, each that is not being written stays whole.      *)
LEMMA CsdbNextPages ==
    ASSUME ~TornPages, Booked, PagesWhole, [CsdbNext]_csdbVars
    PROVE  PagesWhole'
<1>t. /\ pos \in [Procs -> {"idle", "lock", "release", "page", "write", "files", "file",
                            "append", "media", "known", "index", "done"}]
      /\ rel \in [Procs -> 1..(Releases + 1)]
      /\ pages \subseteq 1..Releases
      /\ listed \in [1..Releases -> SUBSET Ids]
  BY DEF Booked, CsdbTypeOK
<1>o. \A p, q \in Procs : pos[p] \in Locked /\ pos[q] \in Locked => p = q
  BY DEF Booked, Owned
<1>k. PagesWhole
  OBVIOUS
<1> USE DEF PagesWhole, Move, loop, cache
<1>1. ASSUME NEW p \in Procs, NEW f \in BOOLEAN, CsdbBegin(p, f) PROVE PagesWhole'
  BY <1>t, <1>k, <1>1 DEF CsdbBegin
<1>2. ASSUME NEW p \in Procs, CsdbLock(p) PROVE PagesWhole'
  BY <1>t, <1>k, <1>2 DEF CsdbLock
<1>3. ASSUME NEW p \in Procs, ReadPage(p) \/ GetPage(p) PROVE PagesWhole'
  BY <1>t, <1>k, <1>3 DEF ReadPage, GetPage
<1>4. ASSUME NEW p \in Procs, OpenPage(p) PROVE PagesWhole'
  <2>1. \A q \in Procs : pos[q] # "write"
    BY <1>o, <1>4 DEF OpenPage, Locked
  <2>2. pos'[p] = "write" /\ rel' = rel
    BY <1>t, <1>4 DEF OpenPage
  <2>3. \A r \in pages : listed[r] = Ids
    BY <1>k, <2>1
  <2>4. ASSUME NEW r \in pages' PROVE r = rel[p] \/ listed'[r] = Ids
    BY <1>t, <1>4, <2>3, <2>4 DEF OpenPage
  <2> QED
    BY <2>2, <2>4
<1>5. ASSUME NEW p \in Procs, WritePage(p) PROVE PagesWhole'
  <2>1. \A q \in Procs : pos[q] = "write" => q = p
    BY <1>o, <1>5 DEF WritePage, Locked
  <2>2. listed' = [listed EXCEPT ![rel[p]] = Ids] /\ pages' = pages
    BY <1>5 DEF WritePage
  <2>3. \A r \in pages : r # rel[p] => listed[r] = Ids
    BY <1>k, <2>1
  <2>4. \A r \in pages : listed'[r] = Ids
    BY <1>t, <2>2, <2>3
  <2> QED
    BY <2>2, <2>4
<1>6. ASSUME NEW p \in Procs, SkipRelease(p) \/ NextRelease(p) \/ ReadSums(p)
      PROVE  PagesWhole'
  BY <1>t, <1>k, <1>6 DEF SkipRelease, NextRelease, ReadSums
<1>7. ASSUME NEW p \in Procs, ReuseFile(p) \/ GetFile(p) \/ WriteFile(p) \/ SkipFile(p)
      PROVE  PagesWhole'
  BY <1>t, <1>k, <1>7 DEF ReuseFile, GetFile, WriteFile, SkipFile
<1>8. ASSUME NEW p \in Procs, AppendSums(p) \/ AppendMediaSums(p) PROVE PagesWhole'
  BY <1>t, <1>k, <1>8 DEF AppendSums, AppendMediaSums
<1>9. ASSUME NEW p \in Procs, IndexMedia(p) \/ ReadMediaSums(p) PROVE PagesWhole'
  BY <1>t, <1>k, <1>9 DEF IndexMedia, ReadMediaSums
<1>10. ASSUME NEW p \in Procs, CsdbKill(p) PROVE PagesWhole'
  <2>1. pos[p] # "write" /\ UNCHANGED <<pages, listed>>
    BY <1>10 DEF CsdbKill
  <2>2. \A q \in Procs : pos[q] = "write" => pos'[q] = "write" /\ rel'[q] = rel[q]
    BY <1>t, <1>10, <2>1 DEF CsdbKill
  <2> QED
    BY <1>k, <2>1, <2>2
<1>11. CASE UNCHANGED csdbVars
  BY <1>k, <1>11 DEF csdbVars
<1> QED
  BY <1>1, <1>2, <1>3, <1>4, <1>5, <1>6, <1>7, <1>8, <1>9, <1>10, <1>11
     DEF CsdbNext, CsdbStep

(* A process goes through the releases, and through the downloads of each, *)
(* and skips none but those it misses.                                      *)
LEMMA CsdbNextSeen ==
    ASSUME Booked, PagesWhole, SeenKept, [CsdbNext]_csdbVars
    PROVE  SeenKept'
<1>t. /\ pos \in [Procs -> {"idle", "lock", "release", "page", "write", "files", "file",
                            "append", "media", "known", "index", "done"}]
      /\ rel \in [Procs -> 1..(Releases + 1)]
      /\ ids \in [Procs -> SUBSET Ids]
      /\ entries \in [Procs -> SUBSET Copies]
      /\ missed \in [Procs -> BOOLEAN]
      /\ pages \subseteq 1..Releases
  BY DEF Booked, CsdbTypeOK
<1>k. SeenKept
  OBVIOUS
<1>f. \A f \in Files : f[1] \in 1..Releases /\ f[2] \in Ids /\ f = <<f[1], f[2]>>
  BY DEF Files
<1> USE CsdbAssumption DEF SeenKept, Keeps, Locked, Move, loop, cache
<1>1. ASSUME NEW p \in Procs, NEW f \in BOOLEAN, CsdbBegin(p, f) PROVE SeenKept'
  BY <1>t, <1>k, <1>1 DEF CsdbBegin, Seen, Got
<1>2. ASSUME NEW p \in Procs, CsdbLock(p) PROVE SeenKept'
  <2>1. \A f \in Files : ~(f[1] < rel[p])
    BY <1>k, <1>f, <1>2 DEF CsdbLock
  <2> QED
    BY <1>t, <1>k, <1>2, <2>1 DEF CsdbLock, Seen, Got
<1>3. ASSUME NEW p \in Procs, ReadPage(p) PROVE SeenKept'
  <2>1. listed[rel[p]] = Ids
    <3>1. \A q \in Procs : pos[q] # "write"
      BY <1>3 DEF ReadPage, Booked, Owned
    <3> QED
      BY <1>3, <3>1 DEF ReadPage, PagesWhole
  <2> QED
    BY <1>t, <1>k, <1>f, <1>3, <2>1 DEF ReadPage, Seen, Got
<1>4. ASSUME NEW p \in Procs, GetPage(p) \/ OpenPage(p) PROVE SeenKept'
  BY <1>t, <1>k, <1>4 DEF GetPage, OpenPage, Seen, Got
<1>5. ASSUME NEW p \in Procs, WritePage(p) PROVE SeenKept'
  BY <1>t, <1>k, <1>f, <1>5 DEF WritePage, Seen, Got
<1>6. ASSUME NEW p \in Procs, SkipRelease(p) PROVE SeenKept'
  BY <1>t, <1>k, <1>6 DEF SkipRelease, Seen, Got
<1>7. ASSUME NEW p \in Procs, NextRelease(p) PROVE SeenKept'
  BY <1>t, <1>k, <1>f, <1>7 DEF NextRelease, Seen, Got
<1>8. ASSUME NEW p \in Procs, ReuseFile(p) PROVE SeenKept'
  <2>1. \A q \in Procs \ {p} :
          UNCHANGED <<pos[q], rel[q], ids[q], entries[q], missed[q]>>
    BY <1>t, <1>8 DEF ReuseFile, Have, Done
  <2>2. Keeps(p)'
    <3>1. File(p) \in Files /\ File(p)[1] = rel[p] /\ File(p)[2] \in ids[p]
      BY <1>8, FileLeft DEF ReuseFile, Booked, Within
    <3>2. /\ UNCHANGED <<pos, rel, missed>> /\ pos[p] = "files"
          /\ Got(p)' = Got(p) \cup {File(p)}
          /\ ids'[p] = ids[p] \ {File(p)[2]}
      BY <1>t, <1>8 DEF ReuseFile, Have, Done, Present, Got
    <3>3. Seen(p)' \subseteq Seen(p) \cup {File(p)}
      BY <1>t, <1>f, <3>1, <3>2 DEF Seen
    <3> QED
      BY <1>k, <3>2, <3>3
  <2> QED
    BY <1>k, <2>1, <2>2, KeepsSame DEF SeenKept
<1>9. ASSUME NEW p \in Procs, GetFile(p) PROVE SeenKept'
  BY <1>t, <1>k, <1>9 DEF GetFile, Seen, Got
<1>10. ASSUME NEW p \in Procs, WriteFile(p) PROVE SeenKept'
  <2>1. \A q \in Procs \ {p} :
          UNCHANGED <<pos[q], rel[q], ids[q], entries[q], missed[q]>>
    BY <1>t, <1>10 DEF WriteFile, Have, Done
  <2>2. Keeps(p)'
    <3>1. File(p) \in Files /\ File(p)[1] = rel[p] /\ File(p)[2] \in ids[p]
      BY <1>10, FileLeft DEF WriteFile, Booked, Within
    <3>2. /\ UNCHANGED <<rel, missed>> /\ pos[p] = "file" /\ pos'[p] = "files"
          /\ Got(p)' = Got(p) \cup {File(p)}
          /\ ids'[p] = ids[p] \ {File(p)[2]}
      BY <1>t, <1>10 DEF WriteFile, Have, Done, Got
    <3>3. Seen(p)' \subseteq Seen(p) \cup {File(p)}
      BY <1>t, <1>f, <3>1, <3>2 DEF Seen
    <3> QED
      BY <1>k, <3>2, <3>3
  <2> QED
    BY <1>k, <2>1, <2>2, KeepsSame DEF SeenKept
<1>11. ASSUME NEW p \in Procs, SkipFile(p) PROVE SeenKept'
  <2>1. \A q \in Procs \ {p} :
          UNCHANGED <<pos[q], rel[q], ids[q], entries[q], missed[q]>>
    BY <1>t, <1>11 DEF SkipFile, Have, Done
  <2>2. Keeps(p)'
    BY <1>t, <1>11 DEF SkipFile
  <2> QED
    BY <1>k, <2>1, <2>2, KeepsSame DEF SeenKept
<1>12. ASSUME NEW p \in Procs, ReadSums(p) PROVE SeenKept'
  <2>1. \A q \in Procs \ {p} :
          UNCHANGED <<pos[q], rel[q], ids[q], entries[q], missed[q]>>
    BY <1>t, <1>12 DEF ReadSums, Have, Done
  <2>2. Keeps(p)'
    <3>1. Files \subseteq Seen(p)
      BY <1>t, <1>f, <1>12 DEF ReadSums, Seen, Got
    <3>2. UNCHANGED <<rel, missed, entries>> /\ pos[p] = "release" /\ pos'[p] = "append"
      BY <1>t, <1>12 DEF ReadSums
    <3> QED
      BY <1>t, <1>k, <3>1, <3>2 DEF Got
  <2> QED
    BY <1>k, <2>1, <2>2, KeepsSame DEF SeenKept
<1>13. ASSUME NEW p \in Procs, AppendSums(p) \/ AppendMediaSums(p) PROVE SeenKept'
  BY <1>t, <1>k, <1>13 DEF AppendSums, AppendMediaSums, Seen, Got
<1>14. ASSUME NEW p \in Procs, IndexMedia(p) \/ ReadMediaSums(p) PROVE SeenKept'
  BY <1>t, <1>k, <1>14 DEF IndexMedia, ReadMediaSums, Seen, Got
<1>15. ASSUME NEW p \in Procs, CsdbKill(p) PROVE SeenKept'
  BY <1>t, <1>k, <1>15 DEF CsdbKill, Seen, Got
<1>16. CASE UNCHANGED csdbVars
  BY <1>k, <1>16 DEF csdbVars, Seen, Got
<1> QED
  BY <1>1, <1>2, <1>3, <1>4, <1>5, <1>6, <1>7, <1>8, <1>9, <1>10, <1>11, <1>12,
     <1>13, <1>14, <1>15, <1>16 DEF CsdbNext, CsdbStep

-----------------------------------------------------------------------------
(* The invariants, and the theorems.                                       *)

LEMMA SpecBooked == Spec => []Booked
<1>1. Init => Booked
  BY CsdbInitInv DEF Init
<1>2. Booked /\ [Next]_vars => Booked'
  BY StepIsCsdbStep, CsdbNextBooked
<1> QED
  BY <1>1, <1>2, PTL DEF Spec

LEMMA SpecWhole == ASSUME ~TornPages PROVE Spec => []Whole
<1>1. Init => Whole
  BY CsdbInitInv DEF Init
<1>2. Booked /\ Whole /\ [Next]_vars => Whole'
  BY StepIsCsdbStep, CsdbNextPages, CsdbNextSeen DEF Whole
<1> QED
  BY <1>1, <1>2, SpecBooked, PTL DEF Spec

(* Concurrent callers serialise on the cache's lock, so that a file is     *)
(* downloaded once and no line of one indexed twice, and what a call        *)
(* reports to its caller is in the cache and in its index, whoever is       *)
(* killed when, pages and the index cut off included.                       *)
THEOREM OnceAndIndexed == Spec => [](FilesOnce /\ Indexed)
<1>1. Booked => FilesOnce /\ Indexed
  BY DEF Booked, Lacking, Kept, FilesOnce
<1> QED
  BY <1>1, SpecBooked, PTL

(* And nothing is left out: if no page is cut off by a kill, a call that    *)
(* could get everything it asked for has every file of every release.       *)
THEOREM CacheFiled == ASSUME ~TornPages PROVE Spec => []Filed
<1>1. Booked /\ Whole => Filed
  BY DEF Booked, Lacking, Kept, FilesOnce, Filed, Complete, Whole, SeenKept, Keeps, Got
<1> QED
  BY <1>1, SpecBooked, SpecWhole, PTL
=============================================================================
