---------------------------- MODULE CatalogCache ----------------------------
(***************************************************************************)
(* The shared on-disk model catalog cache of internal/modelcatalog/load.go *)
(* for one cache scope.  Every launch of the program is one process that   *)
(* asks the service for the catalog and then either                        *)
(*   - persists what it observed (a catalog or a rejection): it replaces   *)
(*     the cache file under a flock, or, when that fails, leaves a barrier *)
(*     file, or, when that fails too, makes the cache file unreadable; or  *)
(*   - after a temporary failure reads the cache file and then the         *)
(*     barriers, without the lock, and uses the cached models.             *)
(* File contents are abstracted to the time of the observation, the time   *)
(* of the fetch and whether the entry is a rejection.                      *)
(***************************************************************************)
EXTENDS Integers, FiniteSets

CONSTANTS
  Launch,        \* the launches that share one HOME
  NoLaunch,      \* the value of the lock while nobody holds it
  MaxClock,      \* bound: the clock stops here
  MaxAge,        \* catalogCacheMaxAge in ticks
  BarrierLimit   \* how many barrier files a reader accepts

Sensible ==
  /\ NoLaunch \notin Launch
  /\ MaxClock \in Nat
  /\ MaxAge \in Nat
  /\ BarrierLimit \in Nat

VARIABLES
  clock,     \* the wall clock all launches share
  file,      \* the cache file <scope>.json
  lock,      \* who holds the flock on <scope>.lock
  barrier,   \* barrier[p]: the barrier file launch p created
  pc,        \* where launch p stands, or how it ended
  obs,       \* obs[p]: ObservedAt, taken before the fetch
  fet,       \* fet[p]: FetchedAt, taken after it
  invalid,   \* invalid[p]: what p observed is a rejection
  todo,      \* todo[p]: the globbed barrier files p has yet to look at
  got,       \* got[p]: the ObservedAt of the entry p read from the cache
  before     \* history: who had settled, or left a truncated barrier, when p read the cache

vars == <<clock, file, lock, barrier, pc, obs, fet, invalid, todo, got, before>>

Time == 0..MaxClock

\* The launch wrote its observation, found a later one, or left a barrier.
Settled == {p \in Launch : pc[p] \in {"stored", "skipped", "barred"}}

\* The launch left a truncated barrier: it died or failed while writing it.
Closed == {p \in Launch : barrier[p] = "malformed" /\ pc[p] \in {"hide", "hidden", "crashed"}}

Terminal == {"stored", "skipped", "barred", "hidden", "served", "failed", "crashed"}
Locking  == {"compare", "rename", "pruneGlob", "prune", "unlock"}

TypeOK ==
  /\ clock \in Time
  /\ file \in [mode : {"absent", "private", "mode0"}, obs : Time, fet : Time, invalid : BOOLEAN]
  /\ lock \in Launch \cup {NoLaunch}
  /\ barrier \in [Launch -> {"absent", "malformed", "written"}]
  /\ pc \in [Launch -> {"start", "fetch", "lock", "barrier", "encode", "hide",
                        "read", "glob", "visit"} \cup Locking \cup Terminal]
  /\ obs \in [Launch -> Time]
  /\ fet \in [Launch -> Time]
  /\ invalid \in [Launch -> BOOLEAN]
  /\ todo \in [Launch -> SUBSET Launch]
  /\ got \in [Launch -> Time]
  /\ before \in [Launch -> SUBSET Launch]

\* The cache may hold the catalog an earlier launch stored.
Init ==
  /\ clock = 0
  /\ file \in [mode : {"absent", "private"}, obs : {0}, fet : {0}, invalid : {FALSE}]
  /\ lock = NoLaunch
  /\ barrier = [p \in Launch |-> "absent"]
  /\ pc = [p \in Launch |-> "start"]
  /\ obs = [p \in Launch |-> 0]
  /\ fet = [p \in Launch |-> 0]
  /\ invalid = [p \in Launch |-> FALSE]
  /\ todo = [p \in Launch |-> {}]
  /\ got = [p \in Launch |-> 0]
  /\ before = [p \in Launch |-> {}]

Goto(p, from, to) == pc[p] = from /\ pc' = [pc EXCEPT ![p] = to]

\* A reduction of the states, which no line of the code does: what a launch
\* fetched is not looked at any more.
Drop(p) == fet' = [fet EXCEPT ![p] = 0] /\ invalid' = [invalid EXCEPT ![p] = FALSE]

Tick ==
  /\ clock < MaxClock
  /\ clock' = clock + 1
  /\ UNCHANGED <<file, lock, barrier, pc, obs, fet, invalid, todo, got, before>>

-----------------------------------------------------------------------------
(* loadAt: the request and its three kinds of result                       *)

Request(p) ==
  /\ Goto(p, "start", "fetch")
  /\ obs' = [obs EXCEPT ![p] = clock]
  /\ UNCHANGED <<clock, file, lock, barrier, fet, invalid, todo, got, before>>

\* A catalog (inv = FALSE), an invalid catalog or a permanent error.
FetchAuthoritative(p, inv) ==
  /\ Goto(p, "fetch", "lock")
  /\ fet' = [fet EXCEPT ![p] = clock]
  /\ invalid' = [invalid EXCEPT ![p] = inv]
  /\ UNCHANGED <<clock, file, lock, barrier, obs, todo, got, before>>

\* A temporary failure leads to the cache; a cancelled launch just ends.  The time
\* of an observation that was not made is forgotten.
FetchTemporary(p) ==
  /\ \E next \in {"read", "failed"} : Goto(p, "fetch", next)
  /\ obs' = [obs EXCEPT ![p] = 0]
  /\ UNCHANGED <<clock, file, lock, barrier, fet, invalid, todo, got, before>>

-----------------------------------------------------------------------------
(* writeCache: compare and replace under the lock                          *)

AcquireLock(p) ==
  /\ Goto(p, "lock", "compare")
  /\ lock = NoLaunch
  /\ lock' = p
  /\ UNCHANGED <<clock, file, barrier, obs, fet, invalid, todo, got, before>>

\* The lock timed out after a second, or could not be opened at all.
LockFails(p) ==
  /\ Goto(p, "lock", "barrier")
  /\ Drop(p)
  /\ UNCHANGED <<clock, file, lock, barrier, obs, todo, got, before>>

\* (variant) the comparison of line 287 is gone
NewerNever(p) == FALSE

\* A file that cannot be opened is not compared with.
Newer(p) == file.mode = "private" /\ file.obs > obs[p]

CompareSkip(p) ==
  /\ Newer(p)
  /\ Goto(p, "compare", "skipped")
  /\ lock' = NoLaunch
  /\ Drop(p)
  /\ UNCHANGED <<clock, file, barrier, obs, todo, got, before>>

CompareReplace(p) ==
  /\ ~Newer(p)
  /\ Goto(p, "compare", "rename")
  /\ UNCHANGED <<clock, file, lock, barrier, obs, fet, invalid, todo, got, before>>

\* Any step up to the rename may fail; the deferred unlock runs.
WriteFails(p) ==
  /\ \E from \in {"compare", "rename"} : Goto(p, from, "barrier")
  /\ lock' = NoLaunch
  /\ Drop(p)
  /\ UNCHANGED <<clock, file, barrier, obs, todo, got, before>>

Rename(p) ==
  /\ Goto(p, "rename", "pruneGlob")
  /\ file' = [mode |-> "private", obs |-> obs[p], fet |-> fet[p], invalid |-> invalid[p]]
  /\ Drop(p)
  /\ UNCHANGED <<clock, lock, barrier, obs, todo, got, before>>

Present == {q \in Launch : barrier[q] # "absent"}

PruneGlob(p) ==
  /\ Goto(p, "pruneGlob", "prune")
  /\ todo' = [todo EXCEPT ![p] = Present]
  /\ UNCHANGED <<clock, file, lock, barrier, obs, fet, invalid, got, before>>

\* Variant: a barrier is removed whatever it has seen.
PruneVisitAll(p, q) ==
  /\ q \in todo[p]
  /\ Goto(p, "prune", "prune")
  /\ todo' = [todo EXCEPT ![p] = @ \ {q}]
  /\ barrier' = [barrier EXCEPT ![q] = "absent"]
  /\ UNCHANGED <<clock, file, lock, obs, fet, invalid, got, before>>

\* A barrier that cannot be decoded ends the walk: it and the rest stay.
PruneVisit(p, q) ==
  /\ q \in todo[p]
  /\ \/ /\ barrier[q] = "written"
        /\ todo' = [todo EXCEPT ![p] = @ \ {q}]
        /\ barrier' = IF obs[q] > obs[p] THEN barrier ELSE [barrier EXCEPT ![q] = "absent"]
        /\ Goto(p, "prune", "prune")
     \/ /\ barrier[q] # "written"
        /\ Goto(p, "prune", "unlock")
        /\ todo' = [todo EXCEPT ![p] = {}]
        /\ UNCHANGED barrier
  /\ UNCHANGED <<clock, file, lock, obs, fet, invalid, got, before>>

PruneEnd(p) ==
  /\ todo[p] = {}
  /\ Goto(p, "prune", "unlock")
  /\ UNCHANGED <<clock, file, lock, barrier, obs, fet, invalid, todo, got, before>>

Unlock(p) ==
  /\ Goto(p, "unlock", "stored")
  /\ lock' = NoLaunch
  /\ UNCHANGED <<clock, file, barrier, obs, fet, invalid, todo, got, before>>

-----------------------------------------------------------------------------
(* persistCache: what is left when the cache could not be replaced         *)

BarrierCreate(p) ==
  /\ Goto(p, "barrier", "encode")
  /\ barrier' = [barrier EXCEPT ![p] = "malformed"]
  /\ UNCHANGED <<clock, file, lock, obs, fet, invalid, todo, got, before>>

BarrierEncode(p) ==
  /\ Goto(p, "encode", "barred")
  /\ barrier' = [barrier EXCEPT ![p] = "written"]
  /\ UNCHANGED <<clock, file, lock, obs, fet, invalid, todo, got, before>>

\* A failed write leaves the truncated marker in place.
BarrierFails(p) ==
  /\ \E from \in {"barrier", "encode"} : Goto(p, from, "hide")
  /\ UNCHANGED <<clock, file, lock, barrier, obs, fet, invalid, todo, got, before>>

\* Best effort: the file may be gone, replaced meanwhile or not chmod-able.
Hide(p) ==
  /\ Goto(p, "hide", "hidden")
  /\ \/ file.mode = "private" /\ file' = [file EXCEPT !.mode = "mode0"]
     \/ UNCHANGED file
  /\ UNCHANGED <<clock, lock, barrier, obs, fet, invalid, todo, got, before>>

-----------------------------------------------------------------------------
(* readCache: the entry first, the barriers after it, no lock              *)

Usable ==
  /\ file.mode = "private"
  /\ ~file.invalid
  /\ clock - file.fet <= MaxAge

ReadEntry(p) ==
  /\ Usable
  /\ Goto(p, "read", "glob")
  /\ got' = [got EXCEPT ![p] = file.obs]
  /\ before' = [before EXCEPT ![p] = Settled \cup Closed]
  /\ UNCHANGED <<clock, file, lock, barrier, obs, fet, invalid, todo>>

ReadUnusable(p) ==
  /\ ~Usable
  /\ Goto(p, "read", "failed")
  /\ UNCHANGED <<clock, file, lock, barrier, obs, fet, invalid, todo, got, before>>

TooMany == Cardinality(Present) > BarrierLimit

CheckGlob(p) ==
  /\ Goto(p, "glob", IF TooMany THEN "failed" ELSE "visit")
  /\ todo' = [todo EXCEPT ![p] = Present]
  /\ UNCHANGED <<clock, file, lock, barrier, obs, fet, invalid, got, before>>

\* Variant: only barriers that cannot be read refuse the entry.
RefusesMalformed(p, q) == barrier[q] # "written"

\* A missing or malformed file, or a barrier not before the entry, refuses it.
Refuses(p, q) == barrier[q] # "written" \/ obs[q] >= got[p]

CheckVisit(p, q) ==
  /\ q \in todo[p]
  /\ Goto(p, "visit", IF Refuses(p, q) THEN "failed" ELSE "visit")
  /\ todo' = [todo EXCEPT ![p] = IF Refuses(p, q) THEN {} ELSE @ \ {q}]
  /\ UNCHANGED <<clock, file, lock, barrier, obs, fet, invalid, got, before>>

Serve(p) ==
  /\ todo[p] = {}
  /\ Goto(p, "visit", "served")
  /\ UNCHANGED <<clock, file, lock, barrier, obs, fet, invalid, todo, got, before>>

-----------------------------------------------------------------------------
\* The kernel drops the flock of a process that dies; what it knew is forgotten.
Crash(p) ==
  /\ pc[p] \notin Terminal \cup {"start"}
  /\ pc' = [pc EXCEPT ![p] = "crashed"]
  /\ lock' = IF lock = p THEN NoLaunch ELSE lock
  /\ todo' = [todo EXCEPT ![p] = {}]
  /\ Drop(p)
  /\ obs' = [obs EXCEPT ![p] = 0] /\ got' = [got EXCEPT ![p] = 0]
  /\ before' = [before EXCEPT ![p] = {}]
  /\ UNCHANGED <<clock, file, barrier>>

Write(p) ==
  \/ AcquireLock(p) \/ LockFails(p)
  \/ CompareSkip(p) \/ CompareReplace(p) \/ WriteFails(p) \/ Rename(p)
  \/ PruneGlob(p) \/ (\E q \in Launch : PruneVisit(p, q)) \/ PruneEnd(p) \/ Unlock(p)
  \/ BarrierCreate(p) \/ BarrierEncode(p) \/ BarrierFails(p) \/ Hide(p)

Read(p) ==
  \/ ReadEntry(p) \/ ReadUnusable(p)
  \/ CheckGlob(p) \/ (\E q \in Launch : CheckVisit(p, q)) \/ Serve(p)

Next ==
  \/ Tick
  \/ \E p \in Launch :
       \/ Request(p) \/ FetchTemporary(p)
       \/ \E inv \in BOOLEAN : FetchAuthoritative(p, inv)
       \/ Write(p) \/ Read(p) \/ Crash(p)

Spec == Init /\ [][Next]_vars

-----------------------------------------------------------------------------
(* Properties                                                              *)

\* Nobody has had to fall back on making the cache file unreadable.
NoneHidden == \A p \in Launch : pc[p] # "hidden"

\* load.go:269 and load.go:326: once a launch has persisted an observation,
\* the cache file is at least as recent or the launch's barrier still stands,
\* whatever older launches finish later and whichever order they prune in.
ObservationKept ==
  NoneHidden =>
    \A p \in Settled :
      \/ file.mode = "private" /\ file.obs >= obs[p]
      \/ barrier[p] = "written"

ServedReflectsStores ==
  NoneHidden =>
    \A p \in Launch : pc[p] = "served" =>
      \A q \in before[p] : pc[q] \in {"stored", "skipped"} => got[p] >= obs[q]

ServedReflectsBarriers ==
  NoneHidden =>
    \A p \in Launch : pc[p] = "served" =>
      \A q \in before[p] : pc[q] = "barred" =>
        got[p] > obs[q] \/ (file.mode = "private" /\ file.obs >= obs[q])

\* A truncated barrier refuses whatever is cached, and is not removed.
ServedReflectsTruncated == \A p \in Launch : pc[p] = "served" => before[p] \cap Closed = {}

\* load.go:211, load.go:407: cached models a launch uses are at least as recent
\* as every observation another launch had stored in the cache before they were
\* read.  Models older than a barrier that stood before they were read are used
\* only if, meanwhile, a launch replaced the cache file by an entry at least as
\* recent as that barrier (and so pruned it).  None are used after a launch has
\* left a barrier that it did not finish (load.go:359).
ServedIsRecent == ServedReflectsStores /\ ServedReflectsBarriers /\ ServedReflectsTruncated

\* load.go:287: no step makes the cache file older.
NotOlder == file.mode = "private" => file'.mode = "private" /\ file'.obs >= file.obs

-----------------------------------------------------------------------------
(* What makes them hold: the inductive invariant.                          *)

\* The cache file is at least as recent as the observation of q.
AtLeast(q) == file.mode = "private" /\ file.obs >= obs[q]

\* A launch between the acquisition and the release of the lock holds it.
LockHeld == \A p \in Launch : pc[p] \in Locking => lock = p

\* The comparison a launch is about to act on is still true.
CompareHolds == \A p \in Launch : pc[p] = "rename" => ~Newer(p)

\* What was stored, or found to be stored already, is not lost.
StoreKept ==
  \A p \in Launch :
    pc[p] \in {"pruneGlob", "prune", "unlock", "stored", "skipped"} => AtLeast(p)

\* A barrier goes only once the cache file is at least as recent.
BarrierKept == \A p \in Launch : pc[p] = "barred" => barrier[p] = "written" \/ AtLeast(p)

\* A truncated barrier that stood when a launch read the entry is yet to be seen.
ClosedAhead ==
  \A p \in Launch : pc[p] \in {"glob", "visit", "served"} =>
    /\ before[p] \subseteq Settled \cup Closed
    /\ \A q \in before[p] \cap Closed : pc[p] = "glob" \/ (pc[p] = "visit" /\ q \in todo[p])

\* The entry a launch read is as recent as anything stored before, and the
\* barriers it already looked at are older than the entry.
ReaderSound ==
  \A p \in Launch : pc[p] \in {"glob", "visit", "served"} =>
    /\ \A q \in before[p] : pc[q] \in {"stored", "skipped"} => got[p] >= obs[q]
    /\ \A q \in before[p] : pc[q] = "barred" =>
         \/ pc[p] = "glob"
         \/ pc[p] = "visit" /\ q \in todo[p]
         \/ got[p] > obs[q]
         \/ AtLeast(q)

IInv ==
  /\ TypeOK
  /\ LockHeld
  /\ ClosedAhead
  /\ NoneHidden =>
       /\ file.mode # "mode0"
       /\ CompareHolds
       /\ StoreKept
       /\ BarrierKept
       /\ ReaderSound
=============================================================================
