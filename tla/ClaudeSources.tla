--------------------------- MODULE ClaudeSources ---------------------------
(***************************************************************************)
(* launcher/claude_verified.go: claudodex runs a patched copy of a build   *)
(* of Claude Code that its release knows.  Under the cache's lock a launch *)
(* patches the installed build, or the newest other one it can use, keeps  *)
(* the original beside it, and writes a lease, so that no other launch     *)
(* removes the files while they are used.  A launch selects with the       *)
(* models it was asked for, works without the lock, and selects again if   *)
(* the catalog has other models; the last one under the lock removes what  *)
(* nobody uses.  A build stands for its version and its hash; originals    *)
(* and copies count once their records are written, as the code reads them.*)
(***************************************************************************)
EXTENDS Integers

CONSTANTS
  Launch,   \* the claudodex processes, one launch each
  Nobody,   \* nobody holds .lock
  MaxBuild  \* bound: the builds of Claude Code

VARIABLES
  installed, \* the build that the installed link leads to
  snapshots, \* the kept originals
  patched,   \* the keys of the patched copies
  leases,    \* the files in leases/
  holder,    \* who holds .lock
  launch,    \* launch[p]: process p
  newest     \* history: the newest build that was ever kept

vars == <<installed, snapshots, patched, leases, holder, launch, newest>>
files == <<snapshots, patched, leases, newest>>

Build == 1..MaxBuild
Release == {1, 2}
Models == {"asked", "found"}
Key == [build : Build, release : Release, models : Models]
NoKey == [build |-> 0, release |-> 0, models |-> "none"]

\* findClaudeUIPatch: a release adds builds and keeps the old ones.
Supports(release, b) == release = 2 \/ b < MaxBuild

\* Claude Code's own directory of versions has the one before the installed one.
Versions == {installed, installed - 1} \cap Build

\* Earlier launches may have kept originals.
Init ==
  /\ installed \in Build
  /\ snapshots \in SUBSET (1..installed)
  /\ newest \in (IF snapshots = {} THEN {0} ELSE {b \in snapshots : \A o \in snapshots : o <= b})
  /\ patched = {} /\ leases = {} /\ holder = Nobody
  /\ launch \in [Launch -> [pc : {"start"}, release : Release, models : {"asked"}, source : {0},
                            tried : {{}}, retain : {FALSE}, using : {{}}]]

\* A process is no more: what it was doing is forgotten.
Leaves(p, pc) ==
  launch' = [launch EXCEPT ![p] = [pc |-> pc, release |-> 1, models |-> "asked", source |-> 0,
                                   tried |-> {}, retain |-> FALSE, using |-> {}]]

-----------------------------------------------------------------------------
(* selectClaudeExecutableWithRetention *)

\* The first selection starts from the installed build, the second from the
\* kept original of the first.
First(p) == IF launch[p].source = 0 THEN installed ELSE launch[p].source

FallbackCandidates(p) ==
  {b \in (snapshots \cup Versions) \ (launch[p].tried \cup {First(p)}) : Supports(launch[p].release, b)}

\* The builds that are tried next: the first one, then others from the newest.
NextTried(p) ==
  IF First(p) \notin launch[p].tried THEN {First(p)}
  ELSE {b \in FallbackCandidates(p) : \A o \in FallbackCandidates(p) : o <= b}

Acquire(p) ==
  /\ launch[p].pc \in {"start", "again"} /\ holder = Nobody
  /\ holder' = p
  /\ launch' = [launch EXCEPT ![p].pc = "try", ![p].tried = {}]
  /\ UNCHANGED <<installed, files>>

\* preparePatchedClaudeSource, cacheClaudeSource and createClaudeLease.
Try(p) ==
  /\ launch[p].pc = "try"
  /\ \E b \in NextTried(p) :
       LET key == [build |-> b, release |-> launch[p].release, models |-> launch[p].models] IN
       /\ Supports(launch[p].release, b)
       /\ patched' = patched \cup {key} /\ snapshots' = snapshots \cup {b}
       /\ newest' = IF b > newest THEN b ELSE newest
       /\ leases' = leases \cup {[of |-> p, written |-> TRUE, key |-> key]}
       /\ launch' = [launch EXCEPT ![p].pc = IF launch[p].retain THEN "retain" ELSE "discover",
                                   ![p].source = b, ![p].tried = {},
                                   ![p].using = @ \cup {key}]
  /\ holder' = IF launch[p].retain THEN p ELSE Nobody
  /\ UNCHANGED installed

\* An unknown build, a patch that does not match, a full disk: after some of
\* the files are written the next build is tried.
TryFails(p) ==
  /\ launch[p].pc = "try"
  /\ \E b \in NextTried(p), written \in BOOLEAN :
       LET key == [build |-> b, release |-> launch[p].release, models |-> launch[p].models] IN
       /\ Supports(launch[p].release, b) \/ ~written
       /\ patched' = IF written THEN patched \cup {key} ELSE patched
       /\ snapshots' = IF written THEN snapshots \cup {b} ELSE snapshots
       /\ newest' = IF written /\ b > newest THEN b ELSE newest
       /\ launch' = [launch EXCEPT ![p].tried = @ \cup {b}]
  /\ UNCHANGED <<installed, leases, holder>>

\* The process dies between the empty file of its lease and the lease.
DiesInLease(p) ==
  /\ launch[p].pc = "try" /\ holder' = Nobody
  /\ leases' = leases \cup {[of |-> p, written |-> FALSE, key |-> NoKey]}
  /\ Leaves(p, "dead")
  /\ UNCHANGED <<installed, snapshots, patched, newest>>

NoneUsable(p) ==
  /\ launch[p].pc = "try" /\ NextTried(p) = {}
  /\ holder' = Nobody /\ launch' = [launch EXCEPT ![p].pc = "failed", ![p].tried = {}]
  /\ UNCHANGED <<installed, files>>

-----------------------------------------------------------------------------
(* retainClaudeSources *)

Dead(l) == launch[l.of].pc = "dead"

\* (variant) a launch knows only the leases of its own
OwnLeases(p) == {l \in leases : l.of = p}

InUse(p) == {l \in leases : ~Dead(l)}

Kept(p) == {b \in snapshots : Supports(launch[p].release, b)}

TwoNewest(p) == {b \in Kept(p) : \A m \in Kept(p), n \in Kept(p) : m > b /\ n > b => m = n}

KeepSource(p) == {l.key.build : l \in InUse(p)} \cup TwoNewest(p)

Obsolete(p, k) ==
  k.build \notin KeepSource(p) \/ k.release # launch[p].release \/ k.models # launch[p].models

\* The number of a dead process may have been given to another program (taken);
\* only the time of its start tells that its lease is old.  ps may not tell that
\* time now, or did not when the lease was written (unclear).  Leases of the dead
\* are removed on the way; one that is unclear or cannot be read stops the rest.
ReadsLeases(p) ==
  /\ launch[p].pc = "retain"
  /\ \E taken \in SUBSET {l.of : l \in {m \in leases : Dead(m)}}, unclear \in SUBSET leases :
       LET gone(l) == Dead(l) /\ l.of \notin taken
           stops == \E l \in leases : ~l.written \/ (~gone(l) /\ l \in unclear)
           old == {l \in leases : Dead(l) /\ l.written /\ (gone(l) \/ l \notin unclear)}
       IN
       /\ \E seen \in IF stops THEN {{}, old} ELSE {old} : leases' = leases \ seen
       /\ launch' = [launch EXCEPT ![p].pc = IF stops THEN "running" ELSE "remove"]
       /\ holder' = IF stops THEN Nobody ELSE p
  /\ UNCHANGED <<installed, snapshots, patched, newest>>

\* The process may die after some of the files have been removed.
Removes(p) ==
  /\ launch[p].pc = "remove"
  /\ snapshots' = snapshots \ (Kept(p) \ KeepSource(p))
  /\ patched' = patched \ {k \in patched : k \notin {l.key : l \in InUse(p)} /\ Obsolete(p, k)}
  /\ holder' = Nobody /\ launch' = [launch EXCEPT ![p].pc = "running"]
  /\ UNCHANGED <<installed, leases, newest>>

DiesRemoving(p) ==
  /\ launch[p].pc = "remove"
  /\ snapshots' = snapshots \ (Kept(p) \ KeepSource(p))
  /\ holder' = Nobody /\ Leaves(p, "dead")
  /\ UNCHANGED <<installed, patched, leases, newest>>

-----------------------------------------------------------------------------
(* Launch *)

\* The catalog has other models than the first selection: it is made again.
SelectAgain(p) ==
  /\ launch[p].pc = "discover"
  /\ launch' = [launch EXCEPT ![p].pc = "again", ![p].models = "found", ![p].retain = TRUE]
  /\ UNCHANGED <<installed, files, holder>>

RetainOnly(p) ==
  /\ launch[p].pc = "discover" /\ holder = Nobody
  /\ holder' = p /\ launch' = [launch EXCEPT ![p].pc = "retain", ![p].retain = TRUE]
  /\ UNCHANGED <<installed, files>>

\* Claude Code has ended, or a step of the launch fails: the leases are
\* removed without the lock.
Ends(p) ==
  /\ launch[p].pc \in {"discover", "again", "running", "failed"}
  /\ leases' = {l \in leases : l.of # p}
  /\ Leaves(p, "over")
  /\ UNCHANGED <<installed, snapshots, patched, newest, holder>>

Dies(p) ==
  /\ launch[p].pc \notin {"start", "over", "dead"}
  /\ Leaves(p, "dead")
  /\ holder' = IF holder = p THEN Nobody ELSE holder
  /\ UNCHANGED <<installed, files>>

\* Claude Code updates itself.
Updates ==
  /\ installed < MaxBuild /\ installed' = installed + 1
  /\ UNCHANGED <<files, holder, launch>>

Proceeds(p) ==
  \/ Acquire(p) \/ Try(p) \/ TryFails(p) \/ DiesInLease(p) \/ NoneUsable(p)
  \/ ReadsLeases(p) \/ Removes(p) \/ DiesRemoving(p) \/ SelectAgain(p) \/ RetainOnly(p)
  \/ Ends(p) \/ Dies(p)

Next == Updates \/ \E p \in Launch : Proceeds(p)

Spec == Init /\ [][Next]_vars

-----------------------------------------------------------------------------
\* Whatever other launches do, of whatever release and with whatever models,
\* the files that a living launch has selected stay until it ends.
SelectedFilesStay ==
  \A p \in Launch : launch[p].using \subseteq patched /\ {k.build : k \in launch[p].using} \subseteq snapshots

\* The newest build that was ever kept is still there to fall back to, so that
\* an update of Claude Code to an unknown build leaves a user something to run.
NewestStays == newest # 0 => newest \in snapshots
=============================================================================
