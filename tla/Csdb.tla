-------------------------------- MODULE Csdb --------------------------------
(***************************************************************************)
(* pysidtracker.fixtures: the cache of CSDB releases.  `fixtures fetch`     *)
(* scrapes the page of each release, downloads the files it lists and       *)
(* indexes them in SHA256SUMS.txt, all under the cache's lock, then looks   *)
(* for the wanted media inside the downloads, outside it.                   *)
(*                                                                          *)
(* A page or file of CSDB has no pin: any body is taken, and a file that is *)
(* fetched again may come with another body or under another name.  Its     *)
(* line in the index, `sha  path  url`, is then another line: a copy of a   *)
(* file is its release, id, name and body, and stands for its line.  One    *)
(* wanted medium is inside the first file of the first release, if that is  *)
(* what the manifest expects.  All calls use one mirror.                    *)
(***************************************************************************)
EXTENDS HostSlot, FiniteSets

CONSTANTS
    Releases,  \* how many releases the manifest names: 1..Releases
    Ids,       \* the download ids that each of their pages lists
    Names,     \* the names of files at the end of their URLs
    Served,    \* bound: what a request for a download may be answered with,
               \* each an id, a name and a body
    TornPages  \* bound: a process may be killed while it writes a page

ASSUME CsdbAssumption ==
    /\ Releases \in Nat \ {0}
    /\ 1 \in Ids /\ Ids \subseteq Nat
    /\ Served \subseteq Ids \X Names \X Bodies
    /\ \A i \in Ids : \E served \in Served : served[1] = i
    /\ TornPages \in BOOLEAN

Files == (1..Releases) \X Ids
Copies == {<<r, served[1], served[2], served[3]>> : r \in 1..Releases, served \in Served}
FileOf(c) == <<c[1], c[2]>>
SamePath(c, d) == FileOf(c) = FileOf(d) /\ c[3] = d[3]

(* The medium's path starts with the name of the download it is taken from; *)
(* of the copies of its source those with the expected body hold it.        *)
Source == <<1, 1>>
Medium(name) == <<0, 0, name, "pinned">>
HoldsMedium(c) == FileOf(c) = Source /\ c[4] = "pinned"
Lines == Copies \cup {Medium(name) : name \in Names}

(* How the index may end: with a newline, or, after a kill, with a part of  *)
(* a line, with a line but for a part of its URL, which still reads as one, *)
(* or with a line that only lacks its newline.                              *)
NoCut == [end |-> "whole", of |-> {}]
Part == [end |-> "part", of |-> {}]
Tails == {NoCut, Part} \cup [end : {"url", "line"}, of : {{l} : l \in Lines}]

VARIABLES
    pos,     \* where each process is in `fixtures fetch`
    force,   \* whether it was told to fetch everything again
    rel,     \* the release its loop is at
    ids,     \* the downloads of that release it has still to see to
    entries, \* the copies it has
    fresh,   \* the lines it has to append to the index
    missed,  \* whether a page or a file could not be had
    holder,  \* who holds the lock of the cache
    pages,   \* the releases with a page under html/
    listed,  \* the ids on each of those pages
    dl,      \* the copies under dl/
    media,   \* the names of the downloads under media/ with the medium
    sums,    \* how often SHA256SUMS.txt has each line, whole
    tail,    \* how it ends
    lost,    \* history: the lines run into another since they were last written
    replaced \* history: the copies another body was written over

csdbVars == <<pos, force, rel, ids, entries, fresh, missed, holder, pages, listed,
              dl, media, sums, tail, lost, replaced>>
loop == <<rel, ids, entries, fresh, missed>>
index == <<sums, tail, lost>>
cache == <<pages, listed, dl, media, index, replaced>>

CsdbTypeOK ==
    /\ pos \in [Procs -> {"idle", "lock", "release", "page", "write", "files", "file",
                          "append", "media", "known", "index", "done"}]
    /\ force \in [Procs -> BOOLEAN]
    /\ rel \in [Procs -> 1..(Releases + 1)]
    /\ ids \in [Procs -> SUBSET Ids]
    /\ entries \in [Procs -> SUBSET Copies]
    /\ fresh \in [Procs -> SUBSET Lines]
    /\ missed \in [Procs -> BOOLEAN]
    /\ holder \in Procs \cup {Nobody}
    /\ pages \subseteq 1..Releases
    /\ listed \in [1..Releases -> SUBSET Ids]
    /\ dl \subseteq Copies
    /\ media \subseteq Names
    /\ sums \in [Lines -> Nat]
    /\ tail \in Tails
    /\ lost \subseteq Lines
    /\ replaced \subseteq Copies

CsdbInit ==
    /\ pos = [p \in Procs |-> "idle"]
    /\ force = [p \in Procs |-> FALSE]
    /\ rel = [p \in Procs |-> 1]
    /\ ids = [p \in Procs |-> {}]
    /\ entries = [p \in Procs |-> {}]
    /\ fresh = [p \in Procs |-> {}]
    /\ missed = [p \in Procs |-> FALSE]
    /\ holder = Nobody
    /\ pages = {} /\ listed = [r \in 1..Releases |-> {}]
    /\ dl = {} /\ media = {}
    /\ sums = [line \in Lines |-> 0] /\ tail = NoCut /\ lost = {}
    /\ replaced = {}

Move(p, label) == pos' = [pos EXCEPT ![p] = label]

CsdbBegin(p, f) ==
    /\ p \in Paced
    /\ pos[p] = "idle"
    /\ force' = [force EXCEPT ![p] = f]
    /\ Move(p, "lock")
    /\ UNCHANGED <<loop, holder, cache, slotVars>>

(* Mutant: the cache's lock is not held.                                   *)
CsdbLockNothing(p) ==
    /\ pos[p] = "lock"
    /\ Move(p, "release")
    /\ UNCHANGED <<force, loop, holder, cache, slotVars>>

CsdbLock(p) ==
    /\ pos[p] = "lock"
    /\ holder = Nobody
    /\ holder' = p
    /\ Move(p, "release")
    /\ UNCHANGED <<force, loop, cache, slotVars>>

(* _scrape_release: a cached page is taken for what it lists ...           *)
ReadPage(p) ==
    /\ pos[p] = "release" /\ rel[p] \in pages /\ ~force[p]
    /\ ids' = [ids EXCEPT ![p] = listed[rel[p]]]
    /\ Move(p, "files")
    /\ UNCHANGED <<force, rel, entries, fresh, missed, holder, cache, slotVars>>

(* ... and else it is downloaded.                                          *)
GetPage(p) ==
    /\ pos[p] = "release" /\ rel[p] <= Releases
    /\ rel[p] \notin pages \/ force[p]
    /\ Call(p)
    /\ Move(p, "page")
    /\ UNCHANGED <<force, loop, holder, cache>>

(* The cached page is emptied for writing (write_bytes), then written.     *)
OpenPage(p) ==
    /\ pos[p] = "page" /\ net[p] = "body"
    /\ Return(p)
    /\ pages' = pages \cup {rel[p]}
    /\ listed' = [listed EXCEPT ![rel[p]] = {}]
    /\ Move(p, "write")
    /\ UNCHANGED <<force, loop, holder, dl, media, index, replaced>>

WritePage(p) ==
    /\ pos[p] = "write"
    /\ listed' = [listed EXCEPT ![rel[p]] = Ids]
    /\ ids' = [ids EXCEPT ![p] = Ids]
    /\ Move(p, "files")
    /\ UNCHANGED <<force, rel, entries, fresh, missed, holder, pages, dl, media, index,
                   replaced, slotVars>>

(* A release whose page is not to be had is skipped.                       *)
SkipRelease(p) ==
    /\ pos[p] = "page" /\ net[p] \in {"gone", "failed"}
    /\ Return(p)
    /\ missed' = [missed EXCEPT ![p] = TRUE]
    /\ rel' = [rel EXCEPT ![p] = @ + 1]
    /\ Move(p, "release")
    /\ UNCHANGED <<force, ids, entries, fresh, holder, cache>>

NextRelease(p) ==
    /\ pos[p] = "files" /\ ids[p] = {}
    /\ rel' = [rel EXCEPT ![p] = @ + 1]
    /\ Move(p, "release")
    /\ UNCHANGED <<force, ids, entries, fresh, missed, holder, cache, slotVars>>

(* The downloads of a release are seen to in the order of their ids.       *)
File(p) == <<rel[p], CHOOSE i \in ids[p] : \A j \in ids[p] : i <= j>>
Done(p) == ids' = [ids EXCEPT ![p] = @ \ {File(p)[2]}]
Present(p) == {c \in dl : FileOf(c) = File(p)}
Have(p, c) == entries' = [entries EXCEPT ![p] = @ \cup {c}]

(* Of several names of one download any may be taken (iterdir).            *)
ReuseFile(p) ==
    /\ pos[p] = "files" /\ ids[p] # {} /\ ~force[p]
    /\ \E c \in Present(p) : Have(p, c)
    /\ Done(p)
    /\ UNCHANGED <<pos, force, rel, fresh, missed, holder, cache, slotVars>>

GetFile(p) ==
    /\ pos[p] = "files" /\ ids[p] # {}
    /\ Present(p) = {} \/ force[p]
    /\ Call(p)
    /\ Move(p, "file")
    /\ UNCHANGED <<force, loop, holder, cache>>

(* _atomic_write under the final name: a copy of that name is replaced, one *)
(* of another name stays.                                                   *)
WriteFile(p) ==
    /\ pos[p] = "file" /\ net[p] = "body"
    /\ Return(p)
    /\ \E c \in Copies :
         /\ FileOf(c) = File(p)
         /\ dl' = {d \in dl : ~SamePath(c, d)} \cup {c}
         /\ replaced' = replaced \cup {d \in dl : SamePath(c, d) /\ d # c}
         /\ Have(p, c)
    /\ Done(p)
    /\ Move(p, "files")
    /\ UNCHANGED <<force, rel, fresh, missed, holder, pages, listed, media, index>>

SkipFile(p) ==
    /\ pos[p] = "file" /\ net[p] \in {"gone", "failed"}
    /\ Return(p)
    /\ missed' = [missed EXCEPT ![p] = TRUE]
    /\ Done(p)
    /\ Move(p, "files")
    /\ UNCHANGED <<force, rel, entries, fresh, holder, cache>>

(* A line is known if the index has it, be it without its newline; the file *)
(* of one whose URL was cut is still found (read_sums, fixture).            *)
Known(l) == sums[l] > 0 \/ tail = [end |-> "line", of |-> {l}]
Found(l) == sums[l] > 0 \/ l \in tail.of

(* Lines are appended in the order of their files.                         *)
Before(l, m) == l[1] < m[1] \/ (l[1] = m[1] /\ l[2] < m[2])
First(F) == {l \in F : \A m \in F \ {l} : Before(l, m)}

(* The lines K and an end t of another go to the end of the index.  If that *)
(* is no newline, what comes first there is run into it: neither is a line  *)
(* of the index any more.                                                   *)
AddLines(K, t) ==
    LET glued == IF tail.end = "whole" THEN {} ELSE First(K)
        some == K # {} \/ t # NoCut
    IN /\ sums' = [l \in Lines |-> sums[l] + (IF l \in K \ glued THEN 1 ELSE 0)]
       /\ lost' = (lost \ (K \ glued)) \cup glued \cup (IF some THEN tail.of ELSE {})
       /\ tail' = IF ~some THEN tail
                  ELSE IF K = {} /\ tail.end # "whole" THEN Part ELSE t

(* What a kill leaves of an append: some first lines, and maybe a part of   *)
(* the next.                                                                *)
Cut(F) ==
    \E K \in SUBSET F :
      /\ \A l \in K, m \in F \ K : Before(l, m)
      /\ \/ AddLines(K, NoCut)
         \/ K # F /\ AddLines(K, Part)
         \/ \E e \in {"url", "line"}, l \in First(F \ K) :
              AddLines(K, [end |-> e, of |-> {l}])

(* _append_sums: the lines that the index is read not to have ...          *)
ReadSums(p) ==
    /\ pos[p] = "release" /\ rel[p] > Releases
    /\ fresh' = [fresh EXCEPT ![p] = {c \in entries[p] : ~Known(c)}]
    /\ Move(p, "append")
    /\ UNCHANGED <<force, rel, ids, entries, missed, holder, cache, slotVars>>

(* ... are appended; fetch_csdb returns, and the lock is free.             *)
AppendSums(p) ==
    /\ pos[p] = "append"
    /\ AddLines(fresh[p], NoCut)
    /\ fresh' = [fresh EXCEPT ![p] = {}]
    /\ holder' = Nobody
    /\ Move(p, "media")
    /\ UNCHANGED <<force, rel, ids, entries, missed, pages, listed, dl, media, replaced, slotVars>>

(* index_media: a medium that no line and file vouch for is taken out of   *)
(* its download, as that is now ...                                         *)
IndexMedia(p) ==
    /\ pos[p] = "media"
    /\ \/ /\ \A name \in media : ~Found(Medium(name))
          /\ \E c \in entries[p], d \in dl :
               /\ SamePath(c, d) /\ HoldsMedium(d)
               /\ media' = media \cup {d[3]}
               /\ fresh' = [fresh EXCEPT ![p] = {Medium(d[3])}]
          /\ Move(p, "known")
       \/ /\ \/ \E name \in media : Found(Medium(name))
             \/ \A c \in entries[p], d \in dl : SamePath(c, d) => ~HoldsMedium(d)
          /\ Move(p, "done")
          /\ UNCHANGED <<media, fresh>>
    /\ UNCHANGED <<force, rel, ids, entries, missed, holder, pages, listed, dl, index,
                   replaced, slotVars>>

(* ... and indexed, with nothing to keep two processes apart.              *)
ReadMediaSums(p) ==
    /\ pos[p] = "known"
    /\ fresh' = [fresh EXCEPT ![p] = {l \in @ : ~Known(l)}]
    /\ Move(p, "index")
    /\ UNCHANGED <<force, rel, ids, entries, missed, holder, cache, slotVars>>

AppendMediaSums(p) ==
    /\ pos[p] = "index"
    /\ AddLines(fresh[p], NoCut)
    /\ fresh' = [fresh EXCEPT ![p] = {}]
    /\ Move(p, "done")
    /\ UNCHANGED <<force, rel, ids, entries, missed, holder, pages, listed, dl, media, replaced, slotVars>>

(* The process is killed; what it had in hand is lost and its lock free.  A *)
(* page or an index it was writing is cut off anywhere.                     *)
CsdbKill(p) ==
    /\ pos[p] \notin {"idle", "done"}
    /\ pos[p] = "write" => TornPages
    /\ SlotKill(p)
    /\ IF pos[p] = "write"
       THEN \E part \in SUBSET Ids : listed' = [listed EXCEPT ![rel[p]] = part]
       ELSE UNCHANGED listed
    /\ IF pos[p] \in {"append", "index"} THEN Cut(fresh[p]) ELSE UNCHANGED index
    /\ Move(p, "idle")
    /\ force' = [force EXCEPT ![p] = FALSE]
    /\ rel' = [rel EXCEPT ![p] = 1]
    /\ ids' = [ids EXCEPT ![p] = {}]
    /\ entries' = [entries EXCEPT ![p] = {}]
    /\ fresh' = [fresh EXCEPT ![p] = {}]
    /\ missed' = [missed EXCEPT ![p] = FALSE]
    /\ holder' = IF holder = p THEN Nobody ELSE holder
    /\ UNCHANGED <<pages, dl, media, replaced>>

CsdbStep(p) ==
    \/ CsdbLock(p)
    \/ ReadPage(p) \/ GetPage(p) \/ OpenPage(p) \/ WritePage(p) \/ SkipRelease(p)
    \/ NextRelease(p)
    \/ ReuseFile(p) \/ GetFile(p) \/ WriteFile(p) \/ SkipFile(p)
    \/ ReadSums(p) \/ AppendSums(p)
    \/ IndexMedia(p) \/ ReadMediaSums(p) \/ AppendMediaSums(p)

-----------------------------------------------------------------------------
(* "Concurrent callers serialise on the cache's lock, so a file downloads   *)
(* once" (fetch_csdb): nobody asks CSDB for a file the cache has a copy of, *)
(* unless told to, and no line of a file is in the index twice.             *)
FilesOnce ==
    /\ \A p \in Procs : pos[p] = "file" /\ ~force[p] => Present(p) = {}
    /\ \A c \in Copies : sums[c] <= 1 /\ (c \in tail.of => sums[c] = 0)

(* What a call reports to its caller is in the cache and in the index, and *)
(* so is the medium it holds, whatever crashed before and runs beside it.   *)
(* Exempt are a copy that a later forced call wrote another body over, and  *)
(* a line that an append ran into the cut end of the index.                 *)
Reported(c) == (c \in dl \/ c \in replaced) /\ (Known(c) \/ c \in lost)
MediumIndexed == \E name \in media : Found(Medium(name)) \/ Medium(name) \in lost

Indexed ==
    \A p \in Procs : \A c \in entries[p] :
      /\ pos[p] \in {"media", "known", "index", "done"} => Reported(c)
      /\ pos[p] = "done" /\ HoldsMedium(c) /\ c \notin replaced => MediumIndexed

(* "Cached pages and files are reused unless force (resume)": a call that   *)
(* could get everything it asked for leaves nothing out of its releases, be *)
(* the cache that it resumes from ever so unfinished.                       *)
Complete ==
    \A p \in Procs :
      pos[p] = "done" /\ ~missed[p] => Files \subseteq {FileOf(c) : c \in entries[p]}

(* What the cache promises its callers: nothing is fetched or indexed twice,*)
(* what is reported is there, and nothing is left out.                      *)
Filed == FilesOnce /\ Indexed /\ Complete
=============================================================================
