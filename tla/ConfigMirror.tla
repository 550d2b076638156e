---------------------------- MODULE ConfigMirror ----------------------------
(***************************************************************************)
(* internal/launcher/sidecar_mirror.go: claudodex runs Claude Code on a    *)
(* configuration directory of its own, the sidecar, and keeps the settings *)
(* in it the same as the user's.  Every session merges three files every   *)
(* second, and once more when it ends: the user's .claude.json and the     *)
(* sidecar's .claude.json and .claude-local-oauth.json, which all sessions *)
(* share.  What has changed since the session's own last merge, its        *)
(* baseline, counts.  Settings are numbered in the order in which they are *)
(* made, 0 is an absent one.  A nested object is merged key by key in the  *)
(* same way.                                                               *)
(* The locks of the three files are one lock here: a merge touches no file *)
(* before it has all three, and gives those it has back when it misses one *)
(* (tryAcquireClaudeConfigLocks).  A lock that is a minute old is removed, *)
(* by then usually that of a session that died.                            *)
(***************************************************************************)
EXTENDS Naturals, Sequences

CONSTANTS
  Session,     \* the claudodex sessions
  Nobody,      \* nobody holds the lock
  Key,         \* names of settings
  MaxChanges,  \* bound: the changes that are made
  MaxMishaps   \* bound: the merges that fail or are slow, and the sessions that die

Sensible == Nobody \notin Session

VARIABLES
  file,      \* file[f]: the settings in a file, and whose protected settings it has
  order,     \* the files, the one written last at the end
  mutex,     \* the lock: who has made it, and whether that is a minute ago
  session,   \* session[s]: session s
  changes,   \* how many changes there were
  mishaps,   \* how many merges failed or were slow, and how many sessions died
  lone,      \* history: lone[k]: a change of k that nothing interfered with
  raced      \* history: a session has removed the lock of another that runs

vars == <<file, order, mutex, session, changes, mishaps, lone, raced>>
bounds == <<changes, mishaps>>

Sidecars == {"plain", "oauth"}
File == {"real"} \cup Sidecars
Files == <<"real", "plain", "oauth">>
Empty == [k \in Key |-> 0]
Free == [by |-> Nobody, old |-> FALSE]
NoChange == [file |-> "none", value |-> 0, merged |-> FALSE]

-----------------------------------------------------------------------------
Init ==
  /\ file = [f \in File |-> [exists |-> f = "real", own |-> IF f = "real" THEN {f} ELSE {},
                             keys |-> Empty]]
  /\ order = Files /\ mutex = Free
  /\ session = [s \in Session |-> [stage |-> "off", pc |-> "idle", baseline |-> Empty,
                                   next |-> Empty, todo |-> {}]]
  /\ changes = 0 /\ mishaps = 0
  /\ lone = [k \in Key |-> NoChange] /\ raced = FALSE

Newer(f, g) == \E m, n \in 1..3 : m > n /\ order[m] = f /\ order[n] = g

Touch(f) == Append(SelectSeq(order, LAMBDA g : g # f), f)

-----------------------------------------------------------------------------
(* The merge *)

\* (variant) of two that differ the one in the newer file counts
MergeByTime(base, sidecar, real, sidecarIsNewer) ==
  IF sidecarIsNewer THEN sidecar ELSE real

\* mergeJSONField: a change counts, of two the one in the newer file.
MergeJSONField(base, sidecar, real, sidecarIsNewer) ==
  IF sidecar # base /\ (real = base \/ sidecarIsNewer) THEN sidecar ELSE real

\* A file that does not exist has no say.
MergeSnapshot(base, keys, f) ==
  IF ~file[f].exists THEN keys
  ELSE [k \in Key |-> MergeJSONField(base[k], file[f].keys[k], keys[k], TRUE)]

\* mergeSidecarSnapshots: the older one of the sidecar's files first.
MergeSidecarSnapshots(base) ==
  LET older == IF Newer("plain", "oauth") THEN "oauth" ELSE "plain"
      newer == IF older = "plain" THEN "oauth" ELSE "plain"
  IN  MergeSnapshot(base, MergeSnapshot(base, base, older), newer)

\* mergeClaudeConfig
Merged(base) ==
  LET active == MergeSidecarSnapshots(base)
      newer == \E f \in Sidecars : file[f].exists /\ Newer(f, "real")
  IN  [k \in Key |-> MergeJSONField(base[k], active[k], file["real"].keys[k], newer)]

\* composeGlobalConfig: the protected settings stay those of the file.
ComposeGlobalConfig(f, keys) == [file[f] EXCEPT !.exists = TRUE, !.keys = keys]

-----------------------------------------------------------------------------
(* A session *)

Mishap == mishaps < MaxMishaps /\ mishaps' = mishaps + 1

Goes(s, pc) == session' = [session EXCEPT ![s].pc = pc]

\* PrepareClaudeConfigSidecar: the first merge has an empty baseline.
Start(s) ==
  /\ session[s].stage = "off"
  /\ session' = [session EXCEPT ![s].stage = "prepare", ![s].pc = "lock"]
  /\ lone' = [k \in Key |-> NoChange]
  /\ UNCHANGED <<file, order, mutex, bounds, raced>>

\* The mirror's ticker; a new merge only starts when the last one has ended.
Tick(s) ==
  /\ session[s].stage = "run" /\ session[s].pc = "idle"
  /\ Goes(s, "lock") /\ UNCHANGED <<file, order, mutex, bounds, lone, raced>>

\* Close: the ticker is stopped, and there is a last merge.
Close(s) ==
  /\ session[s].stage = "run" /\ session[s].pc = "idle"
  /\ session' = [session EXCEPT ![s].stage = "close", ![s].pc = "lock"]
  /\ UNCHANGED <<file, order, mutex, bounds, lone, raced>>

TryAcquire(s) ==
  /\ session[s].pc \in {"lock", "mkdir"} /\ mutex = Free
  /\ mutex' = [by |-> s, old |-> FALSE] /\ Goes(s, "read")
  /\ UNCHANGED <<file, order, bounds, lone, raced>>

\* The lock is taken: the ticker does not wait, the others try again.
Busy(s) ==
  /\ session[s].pc \in {"lock", "mkdir"} /\ mutex # Free
  /\ session[s].pc = "mkdir" \/ (session[s].stage = "run" /\ ~mutex.old)
  /\ Goes(s, IF session[s].stage = "run" THEN "idle" ELSE "lock")
  /\ UNCHANGED <<file, order, mutex, bounds, lone, raced>>

\* removeStaleClaudeConfigLock: the lock is found to be old ...
FindStale(s) ==
  /\ session[s].pc = "lock" /\ mutex # Free /\ mutex.old
  /\ Goes(s, "remove") /\ UNCHANGED <<file, order, mutex, bounds, lone, raced>>

\* ... and whichever lock is there then is removed.
RemoveStale(s) ==
  /\ session[s].pc = "remove"
  /\ raced' = (raced \/ (mutex # Free /\ session[mutex.by].stage \notin {"off", "gone"}))
  /\ mutex' = Free /\ Goes(s, "mkdir")
  /\ UNCHANGED <<file, order, bounds, lone>>

\* reconcileClaudeGlobalConfigLocked: the files are read and merged; those
\* that differ are to be written, in the order of Files.
ReadConfigs(s) ==
  LET next == Merged(session[s].baseline) IN
  /\ session[s].pc = "read"
  /\ session' = [session EXCEPT
       ![s].pc = "write", ![s].next = next,
       ![s].todo = {f \in File : \/ ComposeGlobalConfig(f, next).keys # file[f].keys
                               \/ ComposeGlobalConfig(f, next).own # file[f].own}]
  /\ UNCHANGED <<file, order, mutex, bounds, lone, raced>>

Before(f, g) == \E m, n \in 1..3 : m < n /\ Files[m] = f /\ Files[n] = g

\* writeJSONFile replaces one file at a time.
WriteConfig(s) ==
  /\ session[s].pc = "write"
  /\ \E f \in session[s].todo :
       /\ \A g \in session[s].todo : ~Before(g, f)
       /\ file' = [file EXCEPT ![f] = ComposeGlobalConfig(f, session[s].next)]
       /\ order' = Touch(f)
       /\ session' = [session EXCEPT ![s].todo = @ \ {f}]
  /\ UNCHANGED <<mutex, bounds, lone, raced>>

\* The baseline is what was merged; the mirror starts with an empty one.
Release(s) ==
  LET stage == session[s].stage
      after == CASE stage = "prepare" -> "feature" [] stage = "start" -> "run"
                 [] stage = "run" -> "run" [] stage = "close" -> "gone"
      kept == IF stage \in {"start", "run"} THEN session[s].next ELSE Empty
  IN
  /\ session[s].pc = "write" /\ session[s].todo = {}
  /\ mutex' = Free
  /\ session' = [session EXCEPT ![s] = [stage |-> after, pc |-> "idle", baseline |-> kept,
                                        next |-> Empty, todo |-> {}]]
  /\ lone' = [k \in Key |-> IF lone[k] # NoChange THEN [lone[k] EXCEPT !.merged = TRUE] ELSE NoChange]
  /\ UNCHANGED <<file, order, bounds, raced>>

\* A file cannot be read or written, or the lock is waited for too long.  What
\* has been written stays and the baseline is the old one.  The ticker tries
\* again; a launch fails, and a session that ends reports it.
Fails(s) ==
  LET stage == session[s].stage IN
  /\ session[s].pc \in {"lock", "read"} \/ (session[s].pc = "write" /\ session[s].todo # {})
  /\ mutex' = IF session[s].pc = "lock" THEN mutex ELSE Free
  /\ session' = [session EXCEPT ![s] =
       [stage |-> IF stage = "run" THEN "run" ELSE "gone", pc |-> "idle",
        baseline |-> IF stage = "run" THEN @.baseline ELSE Empty, next |-> Empty, todo |-> {}]]
  /\ Mishap /\ UNCHANGED <<file, order, changes, lone, raced>>

\* EnsureClaudeRemoteControlFeatureCache gives the sidecar's files protected
\* settings of their own, then StartClaudeConfigMirror merges.
EnsureFeatureCache(s) ==
  /\ session[s].stage = "feature" /\ mutex = Free
  /\ file' = [f \in File |-> IF f = "real" THEN file[f]
                             ELSE [file[f] EXCEPT !.exists = TRUE, !.own = @ \union {f}]]
  /\ order' = Files
  /\ session' = [session EXCEPT ![s].stage = "start", ![s].pc = "lock"]
  /\ UNCHANGED <<mutex, bounds, lone, raced>>

\* A session dies; a lock it holds stays.
Crash(s) ==
  /\ session[s].stage \notin {"off", "gone"} /\ Mishap
  /\ session' = [session EXCEPT ![s] = [stage |-> "gone", pc |-> "idle", baseline |-> Empty,
                                        next |-> Empty, todo |-> {}]]
  /\ UNCHANGED <<file, order, mutex, changes, lone, raced>>

\* The session that holds the lock has died, or is slow.
AMinutePasses ==
  /\ mutex # Free /\ ~mutex.old /\ mutex' = [mutex EXCEPT !.old = TRUE]
  /\ IF session[mutex.by].stage \in {"off", "gone"} THEN UNCHANGED mishaps ELSE Mishap
  /\ UNCHANGED <<file, order, session, changes, lone, raced>>

-----------------------------------------------------------------------------
(* Claude Code changes a setting, under the same lock. *)

\* Everybody has merged what k was until now.
Settled(k) ==
  /\ \A f \in File : file[f].exists => file[f].keys[k] = file["real"].keys[k]
  /\ \A s \in Session :
       \/ session[s].stage \in {"off", "gone"}
       \/ session[s].stage \in {"run", "close"} /\ session[s].baseline[k] = file["real"].keys[k]

Change(f, k) ==
  /\ mutex = Free /\ file[f].exists /\ changes < MaxChanges
  /\ changes' = changes + 1
  /\ \E value \in {changes + 1, 0} \ {file[f].keys[k]} :
       /\ file' = [file EXCEPT ![f].keys[k] = value]
       /\ lone' = [lone EXCEPT ![k] = IF Settled(k) THEN [file |-> f, value |-> value, merged |-> FALSE]
                                      ELSE NoChange]
  /\ order' = Touch(f)
  /\ UNCHANGED <<mutex, session, mishaps, raced>>

Syncs(s) ==
  \/ Start(s) \/ Tick(s) \/ Close(s) \/ TryAcquire(s) \/ Busy(s) \/ FindStale(s) \/ RemoveStale(s)
  \/ ReadConfigs(s) \/ WriteConfig(s) \/ Release(s) \/ Fails(s) \/ EnsureFeatureCache(s) \/ Crash(s)

Ended == \A s \in Session : session[s].stage = "gone"

Next == (\E s \in Session : Syncs(s)) \/ AMinutePasses \/ (\E f \in File, k \in Key : Change(f, k))

Spec == Init /\ [][Next]_vars

-----------------------------------------------------------------------------
\* A setting that is changed in one file, when all sessions had merged the one
\* before and until another session starts or it is changed again, stays as
\* it was changed, and is that in all files once a session has merged it:
\* whatever else the sessions merge meanwhile, in which order, and with
\* baselines of whatever age.  (Unless a stale lock was removed late.)
LoneChangesSurvive ==
  ~raced => \A k \in Key : lone[k] # NoChange =>
    /\ file[lone[k].file].keys[k] = lone[k].value
    /\ lone[k].merged => \A f \in File : file[f].exists => file[f].keys[k] = lone[k].value

\* Logins, limits and cached features never leave the file they are in.
ProtectedKeysStay == \A f \in File : file[f].own \subseteq {f}
=============================================================================
