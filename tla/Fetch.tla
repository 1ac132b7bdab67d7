------------------------------- MODULE Fetch -------------------------------
(***************************************************************************)
(* pysidtracker.testing: the cached downloads.  fetch_verified downloads a  *)
(* pinned archive once, under a lock beside the file; fetch_archive_member  *)
(* takes one verified member out of it; fetch_tune and fetch_disk (and the  *)
(* song lengths) download whatever is not there yet, without a lock.        *)
(*                                                                          *)
(* One archive, one member of it and one unpinned file stand for all.  A    *)
(* file of the cache is only ever replaced whole (_atomic_write).           *)
(***************************************************************************)
EXTENDS HostSlot

CONSTANT Leftovers  \* bound: what earlier calls may have left under the two names

Contents == {"absent", "other", "pinned"}

ASSUME FetchAssumption == Leftovers \subseteq Contents

VARIABLES
    at,       \* where each process is in its call
    want,     \* what it was called for
    data,     \* the body it has to write
    gate,     \* who holds the lock beside the archive
    archive,  \* the archive in the cache
    member,   \* the member in the cache
    plain     \* whether the unpinned file is in the cache

fetchVars == <<at, want, data, gate, archive, member, plain>>

(* "astray": a member that the archive does not have, has as a directory or *)
(* has with another checksum than the one asked for.                        *)
Wants == {"archive", "member", "astray", "plain", "forced"}

FetchTypeOK ==
    /\ at \in [Procs -> {"idle", "lock", "recheck", "download", "fetched", "part",
                         "opened", "extracted", "done", "raised"}]
    /\ want \in [Procs -> Wants \cup {"none"}]
    /\ data \in [Procs -> Bodies \cup {"none"}]
    /\ gate \in Procs \cup {Nobody}
    /\ archive \in Contents
    /\ member \in Contents
    /\ plain \in BOOLEAN

(* An earlier pin may have left other content under the same names.        *)
FetchInit ==
    /\ at = [p \in Procs |-> "idle"]
    /\ want = [p \in Procs |-> "none"]
    /\ data = [p \in Procs |-> "none"]
    /\ gate = Nobody
    /\ archive \in Leftovers
    /\ member \in Leftovers
    /\ plain = FALSE

Pinned(p) == want[p] \in {"archive", "member", "astray"}

Goto(p, label) == at' = [at EXCEPT ![p] = label]

(* fetch_verified from its first look at the cached copy: pinned, it is    *)
(* returned (or opened for a member), else the lock is asked for.           *)
Verify(p, w) ==
    IF archive = "pinned"
    THEN Goto(p, IF w = "archive" THEN "done" ELSE "opened")
    ELSE Goto(p, "lock")

FetchVerified(p) ==
    /\ at[p] = "idle"
    /\ want' = [want EXCEPT ![p] = "archive"]
    /\ Verify(p, "archive")
    /\ UNCHANGED <<data, gate, archive, member, plain, slotVars>>

(* A cached member that verifies is returned without the archive.          *)
FetchMember(p, w) ==
    /\ at[p] = "idle"
    /\ want' = [want EXCEPT ![p] = w]
    /\ IF w = "member" /\ member = "pinned" THEN Goto(p, "done") ELSE Verify(p, w)
    /\ UNCHANGED <<data, gate, archive, member, plain, slotVars>>

(* fetch_tune, fetch_disk, songlengths_root: a copy that exists is          *)
(* returned as it is, unless the call forces a download.                    *)
FetchPlain(p, force) ==
    /\ at[p] = "idle"
    /\ want' = [want EXCEPT ![p] = IF force THEN "forced" ELSE "plain"]
    /\ IF plain /\ ~force
       THEN Goto(p, "done") /\ UNCHANGED slotVars
       ELSE Goto(p, "download") /\ Call(p)
    /\ UNCHANGED <<data, gate, archive, member, plain>>

(* Mutant: the lock beside the file is not held.                           *)
LockNothing(p) ==
    /\ at[p] = "lock"
    /\ Goto(p, "recheck")
    /\ UNCHANGED <<want, data, gate, archive, member, plain, slotVars>>

Lock(p) ==
    /\ at[p] = "lock"
    /\ gate = Nobody
    /\ gate' = p
    /\ Goto(p, "recheck")
    /\ UNCHANGED <<want, data, archive, member, plain, slotVars>>

(* The second look, under the lock.                                        *)
AfterArchive(p) == IF want[p] = "archive" THEN "done" ELSE "opened"

Reuse(p) ==
    /\ at[p] = "recheck" /\ archive = "pinned"
    /\ gate' = Nobody
    /\ Goto(p, AfterArchive(p))
    /\ UNCHANGED <<want, data, archive, member, plain, slotVars>>

(* Mutant: no second look under the lock.                                  *)
DownloadUnchecked(p) ==
    /\ at[p] = "recheck"
    /\ Goto(p, "download")
    /\ Call(p)
    /\ UNCHANGED <<want, data, gate, archive, member, plain>>

Download(p) ==
    /\ at[p] = "recheck" /\ archive # "pinned"
    /\ Goto(p, "download")
    /\ Call(p)
    /\ UNCHANGED <<want, data, gate, archive, member, plain>>

(* Mutant: an exception leaves the lock held.                              *)
RaiseLocked(p) ==
    /\ Goto(p, "raised")
    /\ UNCHANGED <<want, data, gate, archive, member, plain>>

(* An exception leaves the call, and the lock with it.                     *)
Raise(p) ==
    /\ Goto(p, "raised")
    /\ gate' = IF gate = p THEN Nobody ELSE gate
    /\ UNCHANGED <<want, data, archive, member, plain>>

(* Mutant: nothing is verified.                                            *)
AcceptsAll(p) == p \in Procs

(* _fetch has a body.  A pinned one is verified (ChecksumMismatch, which   *)
(* nothing retries).  An unpinned one that is not what the caller expects   *)
(* raises in fetch_tune (no SID file) and of a zip (no disk in it), and is  *)
(* taken as a disk image or as song lengths.                                *)
Accepts(p) == answer[p] = "pinned" \/ ~Pinned(p)
Rejects(p) == answer[p] = "other"

Fetched(p) ==
    /\ at[p] = "download" /\ net[p] = "body"
    /\ Return(p)
    /\ \/ /\ Accepts(p)
          /\ Goto(p, "fetched")
          /\ data' = [data EXCEPT ![p] = answer[p]]
          /\ UNCHANGED <<want, gate, archive, member, plain>>
       \/ Rejects(p) /\ Raise(p)

NotFetched(p) ==
    /\ at[p] = "download" /\ net[p] \in {"gone", "failed"}
    /\ Return(p)
    /\ Raise(p)

(* The open archive's member is read and verified.  One archive with the   *)
(* pinned checksum has one content, so whether this raises (KeyError, not a *)
(* regular file, ChecksumMismatch) depends on what was asked for.           *)
Extract(p) ==
    /\ at[p] = "opened"
    /\ IF archive = "pinned" /\ want[p] = "member"
       THEN Goto(p, "extracted") /\ UNCHANGED <<want, data, gate, archive, member, plain>>
       ELSE Raise(p)
    /\ UNCHANGED slotVars

(* _atomic_write: the data is in a .part file of its own ...               *)
WritePart(p) ==
    /\ at[p] = "fetched"
    /\ Goto(p, "part")
    /\ UNCHANGED <<want, data, gate, archive, member, plain, slotVars>>

(* ... which replaces the cached file.                                     *)
Replace(p) ==
    /\ at[p] = "part"
    /\ gate' = IF gate = p THEN Nobody ELSE gate
    /\ data' = [data EXCEPT ![p] = "none"]
    /\ IF Pinned(p)
       THEN archive' = data[p] /\ UNCHANGED plain /\ Goto(p, AfterArchive(p))
       ELSE plain' = TRUE /\ UNCHANGED archive /\ Goto(p, "done")
    /\ UNCHANGED <<want, member, slotVars>>

ReplaceMember(p) ==
    /\ at[p] = "extracted"
    /\ member' = "pinned"
    /\ Goto(p, "done")
    /\ UNCHANGED <<want, data, gate, archive, plain, slotVars>>

(* The process is killed outside _fetch or in it: a .part file may be left *)
(* beside the cache's files, which themselves are as they were.             *)
FetchKill(p) ==
    /\ at[p] \notin {"idle", "done", "raised"}
    /\ SlotKill(p)
    /\ Goto(p, "idle")
    /\ want' = [want EXCEPT ![p] = "none"]
    /\ data' = [data EXCEPT ![p] = "none"]
    /\ gate' = IF gate = p THEN Nobody ELSE gate
    /\ UNCHANGED <<archive, member, plain>>

FetchBegin(p) ==
    \/ FetchVerified(p)
    \/ \E w \in {"member", "astray"} : FetchMember(p, w)
    \/ \E force \in BOOLEAN : FetchPlain(p, force)

FetchStep(p) ==
    \/ Lock(p) \/ Reuse(p) \/ Download(p) \/ Fetched(p) \/ NotFetched(p)
    \/ Extract(p) \/ WritePart(p) \/ Replace(p) \/ ReplaceMember(p)

-----------------------------------------------------------------------------
(* "one downloads and the rest reuse its copy" (fetch_verified): of all     *)
(* the callers of a pinned archive nobody asks for it once it is in the     *)
(* cache, and only one is past the second look.                             *)
OneDownloads ==
    \A p \in Procs :
      Pinned(p) /\ at[p] \in {"download", "fetched", "part"} =>
        /\ archive # "pinned"
        /\ \A q \in Procs \ {p} :
             Pinned(q) => at[q] \notin {"recheck", "download", "fetched", "part"}

(* A call that returns has what it was called for in the cache, whatever   *)
(* was there before and whoever else writes, and no step of anybody takes   *)
(* a pinned file away again (_verified before _atomic_write).               *)
Delivered ==
    \A p \in Procs :
      at[p] = "done" =>
        /\ want[p] = "archive" => archive = "pinned"
        /\ want[p] = "member" => member = "pinned"
        /\ want[p] \in {"plain", "forced"} => plain
        /\ want[p] # "astray"

(* A call for a pinned archive fails only while the archive is not to be    *)
(* had, never after another caller's copy has been put into the cache; a    *)
(* call for a member of it fails then too if the archive has no such member *)
(* (fetch_archive_member), and never for one that it has.                   *)
NoVainFailure ==
    [][\A p \in Procs :
         Pinned(p) /\ at[p] # "raised" /\ at'[p] = "raised" =>
           archive # "pinned" \/ (at[p] = "opened" /\ want[p] = "astray")]_fetchVars
=============================================================================
