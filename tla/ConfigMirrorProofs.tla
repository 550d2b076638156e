------------------------- MODULE ConfigMirrorProofs -------------------------
(***************************************************************************)
(* For any sessions, settings and changes: a change that nothing interferes *)
(* with survives every merge, and what belongs to one file stays in it.    *)
(***************************************************************************)
EXTENDS ConfigMirror, TLAPS

Values == [Key -> Nat]
Active == {"prepare", "feature", "start", "run", "close"}
Over == {"off", "gone"}
Pcs == {"idle", "lock", "mkdir", "remove", "read", "write"}
Configs == [exists : BOOLEAN, own : SUBSET File, keys : Values]
Sessions ==
  [stage : Active \cup Over, pc : Pcs, baseline : Values, next : Values, todo : SUBSET File]
Changes == [file : File, value : Nat, merged : BOOLEAN]

TypeOK ==
  /\ file \in [File -> Configs]
  /\ mutex \in {Free} \cup [by : Session, old : BOOLEAN]
  /\ session \in [Session -> Sessions]
  /\ lone \in [Key -> {NoChange} \cup Changes]
  /\ changes \in Nat /\ raced \in BOOLEAN

\* The user's file is there from the start; a session that is over, or between its
\* first merge and its second one, does nothing.
Settling ==
  /\ file["real"].exists
  /\ \A s \in Session : session[s].stage \in Over \cup {"feature"} => session[s].pc = "idle"

\* Who merges has the lock, unless it was taken away.
Merging(s) == session[s].pc \in {"read", "write"}
MergerHolds == \A s \in Session : Merging(s) => mutex # Free /\ mutex.by = s

\* What is not to be written any more is as it was merged.
WrittenAsMerged ==
  \A s \in Session : session[s].pc = "write" =>
    \A f \in File \ session[s].todo : file[f].keys = session[s].next

\* A lone change is in its file.  Of the other files each has what a session merged
\* last or the change, so every merge decides for the change.
Spreads(k) ==
  /\ file[lone[k].file].exists /\ file[lone[k].file].keys[k] = lone[k].value
  /\ lone[k].merged => \A f \in File : file[f].exists => file[f].keys[k] = lone[k].value
  /\ \A s \in Session : session[s].stage \in Active =>
       /\ session[s].stage \in {"run", "close"}
       /\ \A f \in File : file[f].exists =>
            file[f].keys[k] \in {session[s].baseline[k], lone[k].value}
       /\ session[s].pc = "write" => session[s].next[k] = lone[k].value
ChangesSpread == \A k \in Key : lone[k] # NoChange => Spreads(k)

Undisturbed == MergerHolds /\ WrittenAsMerged /\ ChangesSpread

IInv == TypeOK /\ Settling /\ ProtectedKeysStay /\ (~raced => Undisturbed)
-----------------------------------------------------------------------------
(* The merge                                                               *)

LEMMA EmptyType == Empty \in Values
BY DEF Empty, Values

LEMMA SnapshotType ==
  ASSUME file \in [File -> Configs], NEW base \in Values, NEW keys \in Values, NEW f \in File
  PROVE  MergeSnapshot(base, keys, f) \in Values
<1>1. file[f].keys \in Values
  BY DEF Configs
<1> QED BY <1>1 DEF MergeSnapshot, MergeJSONField, Values

\* A merge decides for the one value that differs from the baseline.
LEMMA SnapshotDecides ==
  ASSUME NEW base \in Values, NEW keys \in Values, NEW f \in File, NEW k \in Key, NEW v,
         keys[k] \in {base[k], v}, file[f].exists => file[f].keys[k] \in {base[k], v}
  PROVE  /\ MergeSnapshot(base, keys, f)[k] \in {base[k], v}
         /\ keys[k] = v \/ (file[f].exists /\ file[f].keys[k] = v)
              => MergeSnapshot(base, keys, f)[k] = v
BY DEF MergeSnapshot, MergeJSONField

LEMMA SidecarsDecide ==
  ASSUME file \in [File -> Configs], NEW base \in Values
  PROVE  /\ MergeSidecarSnapshots(base) \in Values
         /\ \A k \in Key, v \in Nat :
              (\A f \in File : file[f].exists => file[f].keys[k] \in {base[k], v}) =>
                /\ MergeSidecarSnapshots(base)[k] \in {base[k], v}
                /\ (\E f \in Sidecars : file[f].exists /\ file[f].keys[k] = v)
                     => MergeSidecarSnapshots(base)[k] = v
<1>1. PICK older \in Sidecars, newer \in Sidecars :
        /\ Sidecars = {older, newer}
        /\ MergeSidecarSnapshots(base) = MergeSnapshot(base, MergeSnapshot(base, base, older), newer)
  BY DEF MergeSidecarSnapshots, Sidecars
<1> DEFINE first == MergeSnapshot(base, base, older)
           both == MergeSnapshot(base, first, newer)
<1>2. older \in File /\ newer \in File
  BY DEF File
<1>3. first \in Values
  BY <1>2, SnapshotType
<1> HIDE DEF first
<1>4. both \in Values
  BY <1>2, <1>3, SnapshotType
<1>5. ASSUME NEW k \in Key, NEW v \in Nat,
             \A f \in File : file[f].exists => file[f].keys[k] \in {base[k], v}
      PROVE  /\ both[k] \in {base[k], v}
             /\ (\E f \in Sidecars : file[f].exists /\ file[f].keys[k] = v) => both[k] = v
  <2>1. /\ first[k] \in {base[k], v}
        /\ file[older].exists /\ file[older].keys[k] = v => first[k] = v
    <3>1. base[k] \in {base[k], v} /\ (file[older].exists => file[older].keys[k] \in {base[k], v})
      BY <1>2, <1>5
    <3>2. first = MergeSnapshot(base, base, older)
      BY DEF first
    <3> QED BY <1>2, <3>1, <3>2, SnapshotDecides
  <2>2. /\ both[k] \in {base[k], v}
        /\ first[k] = v \/ (file[newer].exists /\ file[newer].keys[k] = v) => both[k] = v
    BY <1>2, <1>3, <1>5, <2>1, SnapshotDecides
  <2> QED BY <1>1, <2>1, <2>2
<1>6. MergeSidecarSnapshots(base) = both
  BY <1>1 DEF first
<1> HIDE DEF both
<1> QED BY <1>4, <1>5, <1>6

LEMMA MergeDecides ==
  ASSUME file \in [File -> Configs], file["real"].exists, NEW base \in Values
  PROVE  /\ Merged(base) \in Values
         /\ \A k \in Key, v \in Nat :
              /\ \A f \in File : file[f].exists => file[f].keys[k] \in {base[k], v}
              /\ \E f \in File : file[f].exists /\ file[f].keys[k] = v
              => Merged(base)[k] = v
<1> DEFINE active == MergeSidecarSnapshots(base)
           newer == \E f \in Sidecars : file[f].exists /\ Newer(f, "real")
<1>1. Merged(base) = [k \in Key |-> MergeJSONField(base[k], active[k], file["real"].keys[k], newer)]
  BY DEF Merged
<1>2. active \in Values
  BY SidecarsDecide
<1>3. file["real"].keys \in Values
  BY DEF Configs, File
<1>4. ASSUME NEW k \in Key, NEW v \in Nat,
             \A f \in File : file[f].exists => file[f].keys[k] \in {base[k], v},
             NEW f \in File, file[f].exists, file[f].keys[k] = v
      PROVE  Merged(base)[k] = v
  <2>1. /\ active[k] \in {base[k], v}
        /\ f \in Sidecars => active[k] = v
    BY <1>4, SidecarsDecide
  <2>2. file["real"].keys[k] \in {base[k], v}
    BY <1>4 DEF File
  <2>3. active[k] = v \/ file["real"].keys[k] = v
    BY <1>4, <2>1 DEF File
  <2> HIDE DEF active, newer
  <2> QED BY <1>1, <2>1, <2>2, <2>3 DEF MergeJSONField
<1> HIDE DEF active, newer
<1>5. Merged(base) \in Values
  BY <1>1, <1>2, <1>3 DEF MergeJSONField, Values
<1> QED BY <1>4, <1>5

-----------------------------------------------------------------------------
(* The steps                                                               *)

LEMMA Begins == Init => IInv
<1>1. SUFFICES ASSUME Init PROVE IInv
  OBVIOUS
<1>2. TypeOK /\ ProtectedKeysStay
  <2>1. file \in [File -> Configs] /\ ProtectedKeysStay
    BY <1>1, EmptyType DEF Init, Configs, ProtectedKeysStay
  <2>2. session \in [Session -> Sessions]
    BY <1>1, EmptyType DEF Init, Sessions, Over, Pcs
  <2> QED BY <1>1, <2>1, <2>2 DEF Init, TypeOK
<1>3. Settling /\ Undisturbed
  BY <1>1 DEF Init, Settling, Undisturbed, MergerHolds, Merging, WrittenAsMerged, ChangesSpread, File
<1> QED BY <1>2, <1>3 DEF IInv

LEMMA SessionParts ==
  ASSUME TypeOK, NEW s \in Session
  PROVE  /\ session[s].stage \in Active \cup Over /\ session[s].pc \in Pcs
         /\ session[s].baseline \in Values /\ session[s].next \in Values
         /\ session[s].todo \in SUBSET File
BY DEF TypeOK, Sessions

\* A step of a session that leaves the files and the changes alone.
LEMMA SessionMoves ==
  ASSUME IInv, NEW s \in Session, NEW x \in Sessions, session' = [session EXCEPT ![s] = x],
         UNCHANGED <<file, lone, changes>>, raced' \in BOOLEAN, raced => raced',
         mutex' \in {Free} \cup [by : Session, old : BOOLEAN],
         ~raced' => MergerHolds', x.pc # "write",
         x.stage \in Over \cup {"feature"} => x.pc = "idle",
         x.stage \in Active => /\ session[s].stage \in Active /\ x.baseline = session[s].baseline
                               /\ session[s].stage \in {"run", "close"} => x.stage \in {"run", "close"}
  PROVE  IInv'
<1>1. /\ session' \in [Session -> Sessions] /\ session'[s] = x
      /\ \A t \in Session : t # s => session'[t] = session[t]
  BY DEF IInv, TypeOK
<1>2. TypeOK' /\ ProtectedKeysStay'
  BY <1>1 DEF IInv, TypeOK, ProtectedKeysStay
<1>3. Settling'
  BY <1>1 DEF IInv, Settling
<1>4. ASSUME ~raced' PROVE Undisturbed'
  <2>1. ~raced /\ Undisturbed
    BY <1>4 DEF IInv
  <2>2. WrittenAsMerged'
    BY <1>1, <2>1 DEF Undisturbed, WrittenAsMerged
  <2>3. ASSUME NEW k \in Key, lone[k] # NoChange PROVE Spreads(k)'
    BY <1>1, <2>1, <2>3 DEF Undisturbed, ChangesSpread, Spreads
  <2> QED BY <1>4, <2>2, <2>3 DEF Undisturbed, ChangesSpread
<1> QED BY <1>2, <1>3, <1>4 DEF IInv

\* Ticker, end and the search for the lock.
LEMMA WaitingKeeps ==
  ASSUME IInv, NEW s \in Session, Tick(s) \/ Close(s) \/ Busy(s) \/ FindStale(s)
  PROVE  IInv'
<1>1. PICK pc \in {"lock", "idle", "remove"}, stage \in Active :
        /\ session' = [session EXCEPT ![s].stage = stage, ![s].pc = pc]
        /\ stage = session[s].stage \/ (stage = "close" /\ session[s].stage = "run")
        /\ stage = "feature" => pc = "idle"
        /\ session[s].stage \in Active
  <2>1. session[s].stage \in Active /\ session \in [Session -> Sessions]
    BY SessionParts DEF IInv, Settling, TypeOK, Tick, Close, Busy, FindStale, Active, Over
  <2>2. CASE Close(s)
    BY <2>1, <2>2 DEF Close, Active
  <2>3. CASE Tick(s) \/ Busy(s) \/ FindStale(s)
    <3>1. PICK pc \in {"lock", "idle", "remove"} : Goes(s, pc)
      BY <2>3 DEF Tick, Busy, FindStale
    <3>2. session[s].stage # "feature"
      BY <2>3 DEF IInv, Settling, Tick, Busy, FindStale
    <3>3. session' = [session EXCEPT ![s].stage = session[s].stage, ![s].pc = pc]
      BY <2>1, <3>1 DEF Goes, Sessions
    <3> QED BY <2>1, <3>2, <3>3
  <2> QED BY <2>2, <2>3
<1>2. UNCHANGED <<file, lone, changes, raced, mutex>>
  BY DEF Tick, Close, Busy, FindStale, bounds
<1> DEFINE x == [session[s] EXCEPT !.stage = stage, !.pc = pc]
<1>3. /\ x \in Sessions /\ session' = [session EXCEPT ![s] = x] /\ x.pc = pc /\ x.stage = stage
      /\ x.baseline = session[s].baseline
  BY <1>1 DEF IInv, TypeOK, Sessions, Pcs
<1> HIDE DEF x
<1>4. MergerHolds => MergerHolds'
  BY <1>1, <1>2, <1>3 DEF IInv, TypeOK, MergerHolds, Merging
<1>5. raced \in BOOLEAN /\ mutex \in {Free} \cup [by : Session, old : BOOLEAN]
  BY DEF IInv, TypeOK
<1>6. ~raced => MergerHolds
  BY DEF IInv, Undisturbed
<1> QED BY <1>1, <1>2, <1>3, <1>4, <1>5, <1>6, SessionMoves DEF Over, Active

LEMMA AcquireKeeps ==
  ASSUME Sensible, IInv, NEW s \in Session, TryAcquire(s) PROVE IInv'
<1> DEFINE x == [session[s] EXCEPT !.pc = "read"]
<1>1. /\ x \in Sessions /\ session' = [session EXCEPT ![s] = x] /\ x.pc = "read"
      /\ x.stage = session[s].stage /\ x.baseline = session[s].baseline
  BY DEF IInv, TypeOK, TryAcquire, Goes, Sessions, Pcs
<1>2. /\ session[s].pc \in {"lock", "mkdir"} /\ mutex = Free /\ mutex' = [by |-> s, old |-> FALSE]
      /\ UNCHANGED <<file, lone, changes, raced>>
  BY DEF TryAcquire, bounds
<1> HIDE DEF x
<1>3. x.stage \in Active /\ x.stage # "feature"
  BY <1>1, <1>2, SessionParts DEF IInv, Settling
<1>4. ~raced => MergerHolds'
  BY <1>1, <1>2 DEF Sensible, Free, IInv, TypeOK, Undisturbed, MergerHolds, Merging
<1>5. raced \in BOOLEAN
  BY DEF IInv, TypeOK
<1> QED BY <1>1, <1>2, <1>3, <1>4, <1>5, SessionMoves DEF Over, Active

\* A lock that nobody alive holds may go: nobody merges then.
LEMMA RemoveStaleKeeps ==
  ASSUME IInv, NEW s \in Session, RemoveStale(s) PROVE IInv'
<1> DEFINE x == [session[s] EXCEPT !.pc = "mkdir"]
<1>1. /\ x \in Sessions /\ session' = [session EXCEPT ![s] = x] /\ x.pc = "mkdir"
      /\ x.stage = session[s].stage /\ x.baseline = session[s].baseline
  BY DEF IInv, TypeOK, RemoveStale, Goes, Sessions, Pcs
<1>2. /\ session[s].pc = "remove" /\ mutex' = Free /\ UNCHANGED <<file, lone, changes>>
      /\ raced' = (raced \/ (mutex # Free /\ session[mutex.by].stage \notin {"off", "gone"}))
  BY DEF RemoveStale, bounds
<1> HIDE DEF x
<1>3. x.stage \in Active /\ x.stage # "feature"
  BY <1>1, <1>2, SessionParts DEF IInv, Settling
<1>4. ASSUME ~raced' PROVE MergerHolds'
  <2>1. ~raced /\ (mutex = Free \/ session[mutex.by].stage \in Over)
    BY <1>2, <1>4 DEF Over
  <2>2. \A t \in Session : ~Merging(t)
    BY <2>1 DEF IInv, Undisturbed, MergerHolds, Merging, Settling
  <2> QED BY <1>1, <2>2 DEF IInv, TypeOK, MergerHolds, Merging
<1>5. raced' \in BOOLEAN /\ (raced => raced')
  BY <1>2 DEF IInv, TypeOK
<1> QED BY <1>1, <1>2, <1>3, <1>4, <1>5, SessionMoves DEF Over, Active

LEMMA CrashKeeps == ASSUME IInv, NEW s \in Session, Crash(s) PROVE IInv'
<1> DEFINE x == [stage |-> "gone", pc |-> "idle", baseline |-> Empty, next |-> Empty, todo |-> {}]
<1>1. /\ x \in Sessions /\ session' = [session EXCEPT ![s] = x] /\ x.pc = "idle" /\ x.stage = "gone"
  BY EmptyType DEF Crash, Sessions, Pcs, Over
<1>2. UNCHANGED <<file, lone, changes, mutex, raced>>
  BY DEF Crash
<1> HIDE DEF x
<1>3. ~raced => MergerHolds'
  BY <1>1, <1>2 DEF IInv, TypeOK, Undisturbed, MergerHolds, Merging
<1>4. raced \in BOOLEAN /\ mutex \in {Free} \cup [by : Session, old : BOOLEAN]
  BY DEF IInv, TypeOK
<1> QED BY <1>1, <1>2, <1>3, <1>4, SessionMoves DEF Over, Active

\* A merge that fails gives the lock back and forgets what it merged.
LEMMA FailKeeps == ASSUME IInv, NEW s \in Session, Fails(s) PROVE IInv'
<1> DEFINE runs == session[s].stage = "run"
           x == [stage |-> IF runs THEN "run" ELSE "gone", pc |-> "idle",
                 baseline |-> IF runs THEN session[s].baseline ELSE Empty,
                 next |-> Empty, todo |-> {}]
<1>1. /\ x \in Sessions /\ x.pc = "idle" /\ x.stage \in {"run", "gone"}
      /\ x.stage \in Active => runs /\ x.baseline = session[s].baseline
  BY SessionParts, EmptyType DEF IInv, Sessions, Pcs, Over, Active
<1>2. session' = [session EXCEPT ![s] = x]
  BY DEF Fails
<1>3. /\ mutex' = IF session[s].pc = "lock" THEN mutex ELSE Free
      /\ session[s].pc \in {"lock", "read", "write"}
      /\ UNCHANGED <<file, lone, changes, raced>>
  BY DEF Fails
<1> HIDE DEF x
<1>4. ~raced => MergerHolds'
  BY <1>1, <1>2, <1>3 DEF IInv, TypeOK, Undisturbed, MergerHolds, Merging
<1>5. raced \in BOOLEAN /\ mutex' \in {Free} \cup [by : Session, old : BOOLEAN]
  BY <1>3 DEF IInv, TypeOK
<1> QED BY <1>1, <1>2, <1>3, <1>4, <1>5, SessionMoves DEF Over, Active

LEMMA MinuteKeeps == ASSUME Sensible, IInv, AMinutePasses PROVE IInv'
<1>1. /\ mutex # Free /\ mutex' = [mutex EXCEPT !.old = TRUE]
      /\ UNCHANGED <<file, session, changes, lone, raced>>
  BY DEF AMinutePasses
<1>2. /\ mutex' \in [by : Session, old : BOOLEAN] /\ mutex'.by = mutex.by /\ mutex'.by \in Session
  BY <1>1 DEF IInv, TypeOK
<1>3. mutex' # Free
  BY <1>2 DEF Sensible, Free
<1>4. MergerHolds => MergerHolds'
  BY <1>1, <1>2, <1>3 DEF MergerHolds, Merging
<1>5. WrittenAsMerged => WrittenAsMerged'
  BY <1>1 DEF WrittenAsMerged
<1>6. ChangesSpread => ChangesSpread'
  BY <1>1 DEF ChangesSpread, Spreads
<1> QED BY <1>1, <1>2, <1>4, <1>5, <1>6 DEF IInv, TypeOK, Settling, ProtectedKeysStay, Undisturbed

\* A session that starts ends the time in which nothing interfered.
LEMMA StartKeeps == ASSUME IInv, NEW s \in Session, Start(s) PROVE IInv'
<1>1. /\ session' = [session EXCEPT ![s].stage = "prepare", ![s].pc = "lock"]
      /\ lone' = [k \in Key |-> NoChange] /\ UNCHANGED <<file, mutex, changes, raced>>
  BY DEF Start, bounds
<1>2. /\ session' \in [Session -> Sessions] /\ session'[s].stage = "prepare" /\ session'[s].pc = "lock"
      /\ \A t \in Session : t # s => session'[t] = session[t]
  <2> DEFINE x == [session[s] EXCEPT !.stage = "prepare", !.pc = "lock"]
  <2>1. /\ x \in Sessions /\ session' = [session EXCEPT ![s] = x]
        /\ x.stage = "prepare" /\ x.pc = "lock"
    BY <1>1 DEF IInv, TypeOK, Sessions, Active, Pcs
  <2> HIDE DEF x
  <2> QED BY <2>1 DEF IInv, TypeOK
<1>3. TypeOK' /\ ProtectedKeysStay'
  BY <1>1, <1>2 DEF IInv, TypeOK, ProtectedKeysStay
<1>4. Settling'
  BY <1>1, <1>2 DEF IInv, Settling, Over
<1>5. ~raced => Undisturbed'
  BY <1>1, <1>2 DEF IInv, Undisturbed, MergerHolds, Merging, WrittenAsMerged, ChangesSpread
<1> QED BY <1>1, <1>3, <1>4, <1>5 DEF IInv

\* The merge decides for each lone change.
LEMMA ReadKeeps == ASSUME IInv, NEW s \in Session, ReadConfigs(s) PROVE IInv'
<1> DEFINE next == Merged(session[s].baseline)
           todo == {f \in File : \/ ComposeGlobalConfig(f, next).keys # file[f].keys
                                 \/ ComposeGlobalConfig(f, next).own # file[f].own}
<1>1. /\ session[s].pc = "read"
      /\ session' = [session EXCEPT ![s].pc = "write", ![s].next = next, ![s].todo = todo]
      /\ UNCHANGED <<file, mutex, changes, lone, raced>>
  BY DEF ReadConfigs, bounds
<1>2. /\ next \in Values
      /\ \A k \in Key, v \in Nat :
           /\ \A f \in File : file[f].exists => file[f].keys[k] \in {session[s].baseline[k], v}
           /\ \E f \in File : file[f].exists /\ file[f].keys[k] = v
           => next[k] = v
  BY SessionParts, MergeDecides DEF IInv, TypeOK, Settling
<1>3. \A f \in File \ todo : file[f].keys = next
  BY DEF IInv, TypeOK, ComposeGlobalConfig, Configs
<1>4. todo \in SUBSET File
  OBVIOUS
<1> HIDE DEF next, todo
<1>5. /\ session' \in [Session -> Sessions] /\ session'[s].pc = "write" /\ session'[s].next = next
      /\ session'[s].todo = todo /\ session'[s].stage = session[s].stage
      /\ session'[s].baseline = session[s].baseline
      /\ \A t \in Session : t # s => session'[t] = session[t]
  <2> DEFINE x == [session[s] EXCEPT !.pc = "write", !.next = next, !.todo = todo]
  <2>1. session[s] \in Sessions /\ session \in [Session -> Sessions]
    BY DEF IInv, TypeOK
  <2>2. /\ x \in Sessions /\ x.pc = "write" /\ x.next = next /\ x.todo = todo
        /\ x.stage = session[s].stage /\ x.baseline = session[s].baseline
    BY <1>2, <1>4, <2>1 DEF Sessions, Pcs
  <2>3. session' = [session EXCEPT ![s] = x]
    BY <1>1, <2>1
  <2> HIDE DEF x
  <2> QED BY <2>1, <2>2, <2>3
<1>6. session[s].stage \in Active /\ session[s].stage # "feature"
  BY <1>1, SessionParts DEF IInv, Settling
<1>7. TypeOK' /\ ProtectedKeysStay' /\ Settling'
  BY <1>1, <1>5, <1>6 DEF IInv, TypeOK, ProtectedKeysStay, Settling, Over, Active
<1>8. ASSUME ~raced PROVE Undisturbed'
  <2>1. Undisturbed
    BY <1>8 DEF IInv
  <2>2. MergerHolds'
    BY <1>1, <1>5, <2>1 DEF Undisturbed, MergerHolds, Merging
  <2>3. WrittenAsMerged'
    BY <1>1, <1>3, <1>5, <2>1 DEF Undisturbed, WrittenAsMerged
  <2>4. ASSUME NEW k \in Key, lone[k] # NoChange PROVE Spreads(k)'
    <3>1. Spreads(k) /\ lone[k].file \in File /\ lone[k].value \in Nat
      BY <2>1, <2>4 DEF Undisturbed, ChangesSpread, IInv, TypeOK, Changes
    <3>2. next[k] = lone[k].value
      BY <1>2, <1>6, <3>1 DEF Spreads
    <3> QED BY <1>1, <1>5, <3>1, <3>2 DEF Spreads
  <2> QED BY <1>1, <2>2, <2>3, <2>4 DEF Undisturbed, ChangesSpread
<1> QED BY <1>1, <1>7, <1>8 DEF IInv

LEMMA WriteKeeps == ASSUME IInv, NEW s \in Session, WriteConfig(s) PROVE IInv'
<1>1. PICK f \in session[s].todo :
        /\ file' = [file EXCEPT ![f] = ComposeGlobalConfig(f, session[s].next)]
        /\ session' = [session EXCEPT ![s].todo = @ \ {f}]
  BY DEF WriteConfig
<1>2. session[s].pc = "write" /\ UNCHANGED <<mutex, changes, lone, raced>>
  BY DEF WriteConfig, bounds
<1>3. /\ f \in File /\ session[s].next \in Values /\ session[s].todo \subseteq File
      /\ session[s].stage \in Active
  BY <1>2, SessionParts DEF IInv, Settling
<1>4. /\ file' \in [File -> Configs] /\ file'[f].exists /\ file'[f].keys = session[s].next
      /\ file'[f].own = file[f].own
      /\ \A g \in File : g # f => file'[g] = file[g]
  <2> DEFINE x == ComposeGlobalConfig(f, session[s].next)
  <2>1. x \in Configs /\ x.exists /\ x.keys = session[s].next /\ x.own = file[f].own
    <3>1. file[f] \in Configs /\ x = [file[f] EXCEPT !.exists = TRUE, !.keys = session[s].next]
      BY <1>3 DEF IInv, TypeOK, ComposeGlobalConfig
    <3> HIDE DEF x
    <3> QED BY <1>3, <3>1 DEF Configs
  <2> HIDE DEF x
  <2>2. file' = [file EXCEPT ![f] = x]
    BY <1>1 DEF x
  <2> QED BY <1>3, <2>1, <2>2 DEF IInv, TypeOK
<1>5. /\ session' \in [Session -> Sessions] /\ session'[s].todo = session[s].todo \ {f}
      /\ \A t \in Session : /\ t # s => session'[t] = session[t]
                            /\ session'[t].stage = session[t].stage /\ session'[t].pc = session[t].pc
                            /\ session'[t].baseline = session[t].baseline
                            /\ session'[t].next = session[t].next
  BY <1>1, <1>3 DEF IInv, TypeOK, Sessions
<1>6. TypeOK' /\ ProtectedKeysStay' /\ Settling'
  BY <1>2, <1>4, <1>5 DEF IInv, TypeOK, ProtectedKeysStay, Settling, File
<1>7. ASSUME ~raced PROVE Undisturbed'
  <2>1. Undisturbed
    BY <1>7 DEF IInv
  <2>2. MergerHolds'
    BY <1>2, <1>5, <2>1 DEF Undisturbed, MergerHolds, Merging
  <2>3. \A t \in Session : session[t].pc = "write" => t = s
    BY <1>2, <2>1 DEF Undisturbed, MergerHolds, Merging
  <2>4. WrittenAsMerged'
    BY <1>3, <1>4, <1>5, <2>1, <2>3 DEF Undisturbed, WrittenAsMerged
  <2>5. ASSUME NEW k \in Key, lone[k] # NoChange PROVE Spreads(k)'
    <3>1. Spreads(k) /\ lone[k].file \in File
      BY <2>1, <2>5 DEF Undisturbed, ChangesSpread, IInv, TypeOK, Changes
    <3>2. file'[f].exists /\ file'[f].keys[k] = lone[k].value
      BY <1>2, <1>3, <1>4, <3>1 DEF Spreads
    <3> QED BY <1>2, <1>4, <1>5, <3>1, <3>2 DEF Spreads
  <2> QED BY <1>2, <2>2, <2>4, <2>5 DEF Undisturbed, ChangesSpread
<1> QED BY <1>2, <1>6, <1>7 DEF IInv

\* Once all files are written each has every lone change.
LEMMA ReleaseKeeps == ASSUME IInv, NEW s \in Session, Release(s) PROVE IInv'
<1>1. /\ session[s].pc = "write" /\ session[s].todo = {} /\ mutex' = Free
      /\ UNCHANGED <<file, changes, raced>>
      /\ lone' = [k \in Key |-> IF lone[k] # NoChange THEN [lone[k] EXCEPT !.merged = TRUE] ELSE NoChange]
  BY DEF Release, bounds
<1>2. session[s].stage \in {"prepare", "start", "run", "close"}
  BY <1>1, SessionParts DEF IInv, Settling, Active, Over
<1>3. PICK x \in Sessions :
        /\ session' = [session EXCEPT ![s] = x] /\ x.pc = "idle"
        /\ x.stage \in {"feature", "run", "gone"}
        /\ session[s].stage \in {"run", "close"} => x.stage \in {"run", "gone"}
  <2>1. session[s].next \in Values
    BY SessionParts DEF IInv
  <2> DEFINE after == CASE session[s].stage = "prepare" -> "feature"
                        [] session[s].stage = "start" -> "run"
                        [] session[s].stage = "run" -> "run" [] session[s].stage = "close" -> "gone"
             kept == IF session[s].stage \in {"start", "run"} THEN session[s].next ELSE Empty
             x == [stage |-> after, pc |-> "idle", baseline |-> kept, next |-> Empty, todo |-> {}]
  <2>2. session' = [session EXCEPT ![s] = x]
    BY DEF Release
  <2>3. /\ after \in {"feature", "run", "gone"}
        /\ session[s].stage \in {"run", "close"} => after \in {"run", "gone"}
    BY <1>2
  <2>4. kept \in Values
    BY <2>1, EmptyType
  <2> HIDE DEF after, kept
  <2>5. x \in Sessions /\ x.pc = "idle" /\ x.stage = after
    BY <2>3, <2>4, EmptyType DEF Sessions, Active, Over, Pcs
  <2> QED BY <2>2, <2>3, <2>5
<1>4. /\ session' \in [Session -> Sessions] /\ session'[s] = x
      /\ \A t \in Session : t # s => session'[t] = session[t]
  BY <1>3 DEF IInv, TypeOK
<1>5. \A k \in Key : /\ lone[k] = NoChange => lone'[k] = NoChange
                     /\ lone[k] # NoChange => /\ lone[k] \in Changes /\ lone'[k] \in Changes
                                              /\ lone'[k].file = lone[k].file
                                              /\ lone'[k].value = lone[k].value
  BY <1>1 DEF IInv, TypeOK, Changes
<1>6. TypeOK' /\ ProtectedKeysStay' /\ Settling'
  <2>1. lone' \in [Key -> {NoChange} \cup Changes]
    BY <1>1, <1>5
  <2> QED BY <1>1, <1>3, <1>4, <2>1 DEF IInv, TypeOK, ProtectedKeysStay, Settling
<1>7. ASSUME ~raced PROVE Undisturbed'
  <2>1. Undisturbed
    BY <1>7 DEF IInv
  <2>2. \A t \in Session : Merging(t) => t = s
    BY <1>1, <2>1 DEF Undisturbed, MergerHolds, Merging
  <2>3. MergerHolds' /\ WrittenAsMerged'
    BY <1>3, <1>4, <2>2 DEF MergerHolds, Merging, WrittenAsMerged
  <2>4. \A f \in File : file[f].keys = session[s].next
    BY <1>1, <2>1 DEF Undisturbed, WrittenAsMerged
  <2>5. ASSUME NEW k \in Key, lone[k] # NoChange PROVE Spreads(k)'
    <3>1. Spreads(k) /\ lone[k].file \in File
      BY <1>5, <2>1, <2>5 DEF Undisturbed, ChangesSpread, Changes
    <3>2. \A f \in File : file[f].keys[k] = lone[k].value
      BY <1>1, <1>2, <2>4, <3>1 DEF Spreads, Active
    <3>3. session[s].stage \in {"run", "close"}
      BY <1>2, <3>1 DEF Spreads, Active
    <3>4. \A t \in Session : session'[t].stage \in Active =>
             session'[t].stage \in {"run", "close"} /\ session'[t].pc # "write"
      BY <1>3, <1>4, <2>2, <3>1, <3>3 DEF Spreads, Active, Merging
    <3>5. lone'[k].file = lone[k].file /\ lone'[k].value = lone[k].value
      BY <1>5, <2>5
    <3>6. file[lone[k].file].exists
      BY <3>1 DEF Spreads
    <3> QED BY <1>1, <3>1, <3>2, <3>4, <3>5, <3>6 DEF Spreads
  <2> QED BY <1>5, <2>3, <2>5 DEF Undisturbed, ChangesSpread
<1> QED BY <1>1, <1>6, <1>7 DEF IInv

\* The sidecar's files get settings of their own before the session counts.
LEMMA FeatureKeeps == ASSUME IInv, NEW s \in Session, EnsureFeatureCache(s) PROVE IInv'
<1>1. /\ session[s].stage = "feature" /\ mutex = Free
      /\ file' = [f \in File |-> IF f = "real" THEN file[f]
                                 ELSE [file[f] EXCEPT !.exists = TRUE, !.own = @ \union {f}]]
      /\ session' = [session EXCEPT ![s].stage = "start", ![s].pc = "lock"]
      /\ UNCHANGED <<mutex, changes, lone, raced>>
  BY DEF EnsureFeatureCache, bounds
<1>2. /\ session' \in [Session -> Sessions] /\ session'[s].stage = "start" /\ session'[s].pc = "lock"
      /\ \A t \in Session : t # s => session'[t] = session[t]
  <2> DEFINE x == [session[s] EXCEPT !.stage = "start", !.pc = "lock"]
  <2>1. /\ x \in Sessions /\ session' = [session EXCEPT ![s] = x]
        /\ x.stage = "start" /\ x.pc = "lock"
    BY <1>1 DEF IInv, TypeOK, Sessions, Active, Pcs
  <2> HIDE DEF x
  <2> QED BY <2>1 DEF IInv, TypeOK
<1>3. /\ file' \in [File -> Configs] /\ file'["real"] = file["real"]
      /\ \A f \in File : file'[f].keys = file[f].keys /\ file'[f].own \subseteq file[f].own \union {f}
  <2>1. file \in [File -> Configs] /\ "real" \in File
    BY DEF IInv, TypeOK, File
  <2>2. ASSUME NEW f \in File, f # "real"
        PROVE  LET x == [file[f] EXCEPT !.exists = TRUE, !.own = @ \union {f}]
               IN  x \in Configs /\ x.keys = file[f].keys /\ x.own = file[f].own \union {f}
    <3>1. file[f] \in [exists : BOOLEAN, own : SUBSET File, keys : Values]
      BY <2>1 DEF Configs
    <3> QED BY <3>1 DEF Configs
  <2> QED BY <1>1, <2>1, <2>2
<1>4. TypeOK' /\ ProtectedKeysStay' /\ Settling'
  <2>1. TypeOK'
    BY <1>1, <1>2, <1>3 DEF IInv, TypeOK
  <2>3. Settling'
    BY <1>1, <1>2, <1>3 DEF IInv, Settling, Over
  <2>2. ProtectedKeysStay'
    BY <1>3 DEF IInv, ProtectedKeysStay
  <2> QED BY <2>1, <2>2, <2>3
<1>5. ASSUME ~raced PROVE Undisturbed'
  <2>1. Undisturbed
    BY <1>5 DEF IInv
  <2>2. MergerHolds'
    BY <1>1, <1>2, <2>1 DEF Undisturbed, MergerHolds, Merging
  <2>4. WrittenAsMerged'
    BY <1>2, <1>3, <2>1 DEF Undisturbed, WrittenAsMerged
  <2>3. \A k \in Key : lone[k] = NoChange
    BY <1>1, <2>1 DEF Undisturbed, ChangesSpread, Spreads, Active
  <2> QED BY <1>1, <2>2, <2>3, <2>4 DEF Undisturbed, ChangesSpread
<1> QED BY <1>1, <1>4, <1>5 DEF IInv

\* Nobody merges while a setting is changed.
LEMMA ChangeKeeps ==
  ASSUME Sensible, IInv, NEW f \in File, NEW k \in Key, Change(f, k) PROVE IInv'
<1>1. PICK value \in {changes + 1, 0} \ {file[f].keys[k]} :
        /\ file' = [file EXCEPT ![f].keys[k] = value]
        /\ lone' = [lone EXCEPT ![k] = IF Settled(k) THEN [file |-> f, value |-> value, merged |-> FALSE]
                                       ELSE NoChange]
  BY DEF Change
<1>2. /\ mutex = Free /\ file[f].exists /\ changes' = changes + 1
      /\ UNCHANGED <<mutex, session, raced>>
  BY DEF Change
<1>3. value \in Nat /\ changes' \in Nat
  BY <1>2 DEF IInv, TypeOK
<1>4. /\ file' \in [File -> Configs] /\ file'[f].keys[k] = value
      /\ \A g \in File : /\ file'[g].exists = file[g].exists /\ file'[g].own = file[g].own
                         /\ g # f => file'[g] = file[g]
                         /\ \A j \in Key : j # k => file'[g].keys[j] = file[g].keys[j]
  <2> DEFINE keys == [file[f].keys EXCEPT ![k] = value]
             x == [file[f] EXCEPT !.keys = keys]
  <2>1. file[f] \in Configs /\ file \in [File -> Configs] /\ file[f].keys \in Values
    BY DEF IInv, TypeOK, Configs
  <2>2. keys \in Values /\ keys[k] = value /\ \A j \in Key : j # k => keys[j] = file[f].keys[j]
    BY <1>3, <2>1 DEF Values
  <2>3. file' = [file EXCEPT ![f] = x]
    BY <1>1, <2>1
  <2> HIDE DEF keys
  <2>4. x \in Configs /\ x.keys = keys /\ x.exists = file[f].exists /\ x.own = file[f].own
    BY <2>1, <2>2 DEF Configs
  <2> HIDE DEF x
  <2> QED BY <2>1, <2>2, <2>3, <2>4
<1>5. lone' \in [Key -> {NoChange} \cup Changes]
  BY <1>1, <1>3 DEF IInv, TypeOK, Changes
<1>6. TypeOK' /\ ProtectedKeysStay' /\ Settling'
  BY <1>2, <1>3, <1>4, <1>5 DEF IInv, TypeOK, ProtectedKeysStay, Settling, File
<1>7. ASSUME ~raced PROVE Undisturbed'
  <2>1. Undisturbed
    BY <1>7 DEF IInv
  <2>2. \A t \in Session : ~Merging(t)
    BY <1>2, <2>1 DEF Undisturbed, MergerHolds
  <2>3. MergerHolds' /\ WrittenAsMerged'
    BY <1>2, <2>2 DEF MergerHolds, WrittenAsMerged, Merging
  <2>4. ASSUME NEW j \in Key, j # k, lone'[j] # NoChange PROVE Spreads(j)'
    <3>1. lone'[j] = lone[j] /\ Spreads(j) /\ lone[j].file \in File
      BY <1>1, <2>1, <2>4 DEF Undisturbed, ChangesSpread, IInv, TypeOK, Changes
    <3> QED BY <1>2, <1>4, <2>4, <3>1 DEF Spreads
  <2>5. ASSUME lone'[k] # NoChange PROVE Spreads(k)'
    <3>1. Settled(k) /\ lone'[k] = [file |-> f, value |-> value, merged |-> FALSE]
      BY <1>1, <2>5 DEF IInv, TypeOK
    <3>2. \A g \in File : file[g].exists => file[g].keys[k] = file["real"].keys[k]
      BY <3>1 DEF Settled
    <3>3. \A t \in Session : session[t].stage \in Active =>
             session[t].stage \in {"run", "close"} /\ session[t].baseline[k] = file["real"].keys[k]
      BY <3>1 DEF Settled, Active
    <3>4. \A t \in Session : session'[t].pc # "write"
      BY <1>2, <2>2 DEF Merging
    <3>5. \A g \in File : file'[g].exists => file'[g].keys[k] \in {file["real"].keys[k], value}
      BY <1>4, <3>2
    <3> QED BY <1>2, <1>4, <3>1, <3>3, <3>4, <3>5 DEF Spreads
  <2> QED BY <2>3, <2>4, <2>5 DEF Undisturbed, ChangesSpread
<1> QED BY <1>2, <1>6, <1>7 DEF IInv

LEMMA Continues == Sensible /\ IInv /\ [Next]_vars => IInv'
<1>1. SUFFICES ASSUME Sensible, IInv, [Next]_vars PROVE IInv'
  OBVIOUS
<1>2. ASSUME NEW s \in Session, Syncs(s) PROVE IInv'
  BY <1>1, <1>2, StartKeeps, WaitingKeeps, AcquireKeeps, RemoveStaleKeeps, ReadKeeps, WriteKeeps,
     ReleaseKeeps, FailKeeps, FeatureKeeps, CrashKeeps
  DEF Syncs
<1>3. CASE UNCHANGED vars
  BY <1>1, <1>3
  DEF vars, bounds, IInv, TypeOK, Settling, ProtectedKeysStay, Undisturbed, MergerHolds, Merging,
      WrittenAsMerged, ChangesSpread, Spreads
<1> QED BY <1>1, <1>2, <1>3, MinuteKeeps, ChangeKeeps DEF Next

LEMMA Survival == IInv => LoneChangesSurvive /\ ProtectedKeysStay
BY DEF IInv, Undisturbed, ChangesSpread, Spreads, LoneChangesSurvive

-----------------------------------------------------------------------------
\* The strengthened invariant holds for any sessions, settings and changes.
THEOREM Invariant == ASSUME Sensible PROVE Spec => []IInv
<1>1. Init => IInv
  BY Begins
<1>2. IInv /\ [Next]_vars => IInv'
  BY Continues
<1> QED BY <1>1, <1>2, PTL DEF Spec

\* A change that nothing interferes with survives every merge and reaches all
\* files (mergeJSONField, mergeSidecarSnapshots).
THEOREM LoneChanges == ASSUME Sensible PROVE Spec => []LoneChangesSurvive
BY Survival, Invariant, PTL

\* Logins, limits and cached features stay in their file (composeGlobalConfig).
THEOREM ProtectedSettings == ASSUME Sensible PROVE Spec => []ProtectedKeysStay
BY Survival, Invariant, PTL
=============================================================================
