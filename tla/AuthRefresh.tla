----------------------------- MODULE AuthRefresh -----------------------------
(***************************************************************************)
(* The direct login of internal/auth, shared by every claudodex process of *)
(* one home: auth.json, the lock files auth.json.lock and                  *)
(* codex-authority.lock, and the files that allow or suppress the reuse of *)
(* a local Codex login.  An actor is one call (a goroutine of a process)   *)
(* that refreshes the login (refresh.go), logs out (Provider.Logout) or    *)
(* logs in again (oauth.go, which takes no lock).                          *)
(* A lock file is created with O_EXCL and removed when it is released; one *)
(* that is older than five minutes is removed by whoever waits for it.     *)
(* The token endpoint rotates refresh tokens and refuses a token it has    *)
(* replaced.  A token is abstracted to its login and to the serial numbers *)
(* of its refresh and access parts.                                        *)
(***************************************************************************)
EXTENDS Naturals, FiniteSets

CONSTANTS
  Actor,       \* the calls
  Process,     \* the processes they run in
  ProcessOf,   \* ProcessOf[a]: the process of call a
  Nobody,      \* nobody holds a mutex, there is no lock file
  Ops,         \* what the calls may do, out of refresh, login and logout
  Overstay     \* whether a live holder may keep a lock for five minutes

ASSUME ConstantsAssumption ==
  /\ IsFiniteSet(Actor)
  /\ Nobody \notin Actor
  /\ ProcessOf \in [Actor -> Process]
  /\ Ops \subseteq {"refresh", "login", "logout"}
  /\ Overstay \in BOOLEAN

VARIABLES
  file,      \* auth.json
  reuse,     \* whether codex reuse is suppressed, and the reference to its login
  lock,      \* lock[l]: who created lock file l, and whether it is five minutes old
  guard,     \* guard[p]: who holds nativeAuthority.guard in process p
  mutex,     \* mutex[p]: who holds refreshMu in process p
  server,    \* server[f]: the serials of the token that login f has at the endpoint
  revoked,   \* the logins the endpoint does not know (any more)
  op, pc,    \* op[a], pc[a]: what call a does and where it stands
  rejected,  \* rejected[a]: the token whose refusal made a refresh, if any
  mine,      \* mine[a]: the token a loaded
  got,       \* got[a]: the token the endpoint answered with
  lost,      \* history: the logins one of whose answers reached no file
  usurped,   \* history: a lock file was removed under its holder
  loggedOut  \* history: which call's logout deleted which login

disk == <<file, reuse>>
locks == <<lock, guard, mutex>>
endpoint == <<server, revoked>>
tokens == <<rejected, mine, got>>
local == <<op, tokens>>
history == <<lost, usurped, loggedOut>>
vars == <<disk, locks, endpoint, local, pc, history>>

Locks == {"auth", "authority"}
Login == 0..(Cardinality(Actor) + 1)
Token == [login : Login, refresh : Nat, access : Nat]
None == [login |-> 0, refresh |-> 0, access |-> 0]

SameRefresh(s, t) == s.login = t.login /\ s.refresh = t.refresh
SameAccess(s, t) == s.login = t.login /\ s.access = t.access

\* The endpoint takes token t for a refresh.
Accepted(t) == t.login \notin revoked /\ t.refresh = server[t.login].refresh

\* Where a call stands between the creation and the removal of a lock file.
Inside(l) ==
  IF l = "auth"
  THEN {"load", "post", "save", "reload", "delete", "revoke", "remove", "release"}
  ELSE {"suppress", "forget", "mutex", "lock", "wait", "steal", "load", "revoke", "remove",
        "release", "unlock", "releaseAuthority"}

Holds(a, l) == pc[a] \in Inside(l) /\ (l = "authority" => op[a] = "logout")

Ended == {"done", "dead"}

\* The first token of login f.
First(f) == [login |-> f, refresh |-> 0, access |-> 1]

\* A login that is stored, or none.
Init ==
  /\ file \in {None, First(1)}
  /\ reuse \in [suppressed : BOOLEAN, reference : BOOLEAN]
  /\ file # None => ~reuse.suppressed /\ ~reuse.reference
  /\ lock = [l \in Locks |-> [owner |-> Nobody, stale |-> FALSE]]
  /\ guard = [p \in Process |-> Nobody] /\ mutex = [p \in Process |-> Nobody]
  /\ server = [f \in Login |-> [refresh |-> 0, access |-> IF f # 0 /\ f = file.login THEN 1 ELSE 0]]
  /\ revoked = Login \ {0, file.login}
  /\ op = [a \in Actor |-> "none"] /\ pc = [a \in Actor |-> "idle"]
  /\ rejected = [a \in Actor |-> None] /\ mine = [a \in Actor |-> None]
  /\ got = [a \in Actor |-> None]
  /\ lost = {} /\ usurped = FALSE /\ loggedOut = {}

Goto(a, from, to) == pc[a] = from /\ pc' = [pc EXCEPT ![a] = to]

-----------------------------------------------------------------------------
(* Lock files                                                              *)

\* (variant) the file is opened without O_EXCL
CreateLockAnyway(a, l) ==
  /\ lock' = [lock EXCEPT ![l] = [owner |-> a, stale |-> FALSE]]
  /\ UNCHANGED <<disk, guard, mutex, endpoint, local, history>>

\* os.OpenFile with O_CREATE and O_EXCL succeeds.
CreateLock(a, l) ==
  /\ lock[l].owner = Nobody
  /\ lock' = [lock EXCEPT ![l] = [owner |-> a, stale |-> FALSE]]
  /\ UNCHANGED <<disk, guard, mutex, endpoint, local, history>>

\* os.Remove of whatever lock file is there, whoever created it.
RemoveLock(a, l) ==
  /\ lock' = [lock EXCEPT ![l] = [owner |-> Nobody, stale |-> FALSE]]
  /\ usurped' = (usurped \/ \E b \in Actor \ {a} : lock[l].owner = b /\ Holds(b, l))
  /\ UNCHANGED <<disk, guard, mutex, endpoint, op, lost, loggedOut>>

\* (variant) the age of the file is not looked at
SeeStaleNever(l) == FALSE /\ lock[l].stale /\ UNCHANGED <<disk, locks, endpoint, local, history>>

\* The file exists and is old: the decision to remove it, and the removal.
SeeStale(l) == lock[l].stale /\ UNCHANGED <<disk, locks, endpoint, local, history>>

\* The file exists and is not old: the call sleeps, and tries again or finds
\* its context ended.
SeeHeld(l) ==
  /\ lock[l].owner # Nobody /\ ~lock[l].stale
  /\ UNCHANGED <<disk, locks, endpoint, local, history>>

Wake == UNCHANGED <<disk, locks, endpoint, local, history>>

WaitForLock(a) ==
  \/ Goto(a, "lock", "load") /\ CreateLock(a, "auth")
  \/ Goto(a, "lock", "wait") /\ SeeHeld("auth")
  \/ Goto(a, "wait", "lock") /\ Wake
  \/ Goto(a, "lock", "steal") /\ SeeStale("auth")
  \/ Goto(a, "steal", "lock") /\ RemoveLock(a, "auth") /\ UNCHANGED tokens
  \/ Goto(a, "authority", "suppress") /\ CreateLock(a, "authority")
  \/ Goto(a, "authority", "waitAuthority") /\ SeeHeld("authority")
  \/ Goto(a, "waitAuthority", "authority") /\ Wake
  \/ Goto(a, "authority", "stealAuthority") /\ SeeStale("authority")
  \/ Goto(a, "stealAuthority", "authority") /\ RemoveLock(a, "authority") /\ UNCHANGED tokens

GiveUp(a) ==
  \/ Goto(a, "wait", "unlock") /\ Wake
  \/ Goto(a, "waitAuthority", "unguard") /\ Wake

\* refreshMu, which a context does not interrupt.
TakeMutex(a) ==
  /\ Goto(a, "mutex", "lock")
  /\ mutex[ProcessOf[a]] = Nobody
  /\ mutex' = [mutex EXCEPT ![ProcessOf[a]] = a]
  /\ UNCHANGED <<disk, lock, guard, endpoint, local, history>>

\* What the call had in its variables is gone.
Drop(a) ==
  /\ rejected' = [rejected EXCEPT ![a] = None]
  /\ mine' = [mine EXCEPT ![a] = None] /\ got' = [got EXCEPT ![a] = None]

\* The deferred release of auth.json.lock ...
Release(a) == Goto(a, "release", "unlock") /\ RemoveLock(a, "auth") /\ Drop(a)

\* ... and of refreshMu.
Unlock(a) ==
  /\ Goto(a, "unlock", IF op[a] = "logout" THEN "releaseAuthority" ELSE "done")
  /\ mutex' = [mutex EXCEPT ![ProcessOf[a]] = Nobody]
  /\ UNCHANGED <<disk, lock, guard, endpoint, local, history>>

-----------------------------------------------------------------------------
(* Refresh                                                                 *)

\* Provider.EnsureFresh or Provider.Refresh, with the token a request was
\* refused with, finds a login that needs a refresh.
StartRefresh(a) ==
  /\ "refresh" \in Ops /\ file # None
  /\ Goto(a, "idle", "mutex")
  /\ op' = [op EXCEPT ![a] = "refresh"]
  /\ \E t \in {None, file} : rejected' = [rejected EXCEPT ![a] = t]
  /\ UNCHANGED <<disk, locks, endpoint, mine, got, history>>

\* The stored token is not the one that was refused, and may have expired too.
Superseded(a) == rejected[a] # None /\ ~SameAccess(file, rejected[a])

\* (variant) the token that was refused is used rather than the stored one
LoadRejected(a) ==
  /\ \/ Goto(a, "load", "post") /\ file # None /\ op[a] = "refresh"
     \/ Goto(a, "load", "release") /\ op[a] = "refresh" /\ (file = None \/ Superseded(a))
     \/ Goto(a, "load", "revoke") /\ op[a] = "logout" /\ file # None
     \/ Goto(a, "load", "remove") /\ op[a] = "logout" /\ file = None
  /\ mine' = [mine EXCEPT ![a] = IF rejected[a] # None THEN rejected[a] ELSE file]
  /\ UNCHANGED <<disk, locks, endpoint, op, rejected, got, history>>

\* (variant) a logout revokes even if there is nothing stored
LoadRevokes(a) ==
  /\ \/ Goto(a, "load", "post") /\ file # None /\ op[a] = "refresh"
     \/ Goto(a, "load", "release") /\ op[a] = "refresh" /\ (file = None \/ Superseded(a))
     \/ Goto(a, "load", "revoke") /\ op[a] = "logout"
  /\ mine' = [mine EXCEPT ![a] = file]
  /\ UNCHANGED <<disk, locks, endpoint, op, rejected, got, history>>

\* Under the lock, whose wait may have brought another token or none.
Load(a) ==
  /\ \/ Goto(a, "load", "post") /\ file # None /\ op[a] = "refresh"
     \/ Goto(a, "load", "release") /\ op[a] = "refresh" /\ (file = None \/ Superseded(a))
     \/ Goto(a, "load", "revoke") /\ op[a] = "logout" /\ file # None
     \/ Goto(a, "load", "remove") /\ op[a] = "logout" /\ file = None
  /\ mine' = [mine EXCEPT ![a] = file]
  /\ UNCHANGED <<disk, locks, endpoint, op, rejected, got, history>>

\* The endpoint has a new access token and, if it rotates, a new refresh token.
Renewed(t, rotates) ==
  [login |-> t.login, refresh |-> t.refresh + (IF rotates THEN 1 ELSE 0),
   access |-> server[t.login].access + 1]

\* The endpoint takes the token; its answer arrives or does not.
PostAccepted(a, rotates, arrives) ==
  LET t == Renewed(mine[a], rotates) IN
  /\ Accepted(mine[a])
  /\ Goto(a, "post", IF arrives THEN "save" ELSE "release")
  /\ server' = [server EXCEPT ![t.login] = [refresh |-> t.refresh, access |-> t.access]]
  /\ got' = [got EXCEPT ![a] = t]
  /\ lost' = IF arrives \/ ~rotates THEN lost ELSE lost \cup {t.login}
  /\ UNCHANGED <<disk, locks, revoked, op, rejected, mine, usurped, loggedOut>>

\* A permanent error code: the token was replaced, or its login has ended,
\* at this moment at the latest.
PostRefused(a) ==
  /\ Goto(a, "post", "reload")
  /\ revoked' = IF Accepted(mine[a]) THEN revoked \cup {mine[a].login} ELSE revoked
  /\ UNCHANGED <<disk, locks, server, local, history>>

\* No connection, or an error that is not permanent.
PostFails(a) ==
  /\ Goto(a, "post", "release")
  /\ UNCHANGED <<disk, locks, endpoint, local, history>>

\* The logins whose stored token is void when the answers to calls A are lost.
Voided(A) ==
  {got[a].login : a \in {b \in A : pc[b] = "save" /\ ~SameRefresh(got[b], mine[b])}}

\* (variant) a failed write returns without the deferred release
SaveKeepsLock(a) ==
  /\ \/ Goto(a, "save", "release") /\ file' = got[a] /\ lost' = lost
     \/ Goto(a, "save", "done") /\ file' = file /\ lost' = lost \cup Voided({a})
  /\ UNCHANGED <<reuse, locks, endpoint, local, usurped, loggedOut>>

\* Store.Save replaces the file, or fails.
Save(a) ==
  /\ Goto(a, "save", "release")
  /\ \/ file' = got[a] /\ lost' = lost
     \/ file' = file /\ lost' = lost \cup Voided({a})
  /\ UNCHANGED <<reuse, locks, endpoint, local, usurped, loggedOut>>

\* A successor that somebody stored is used instead ...
Reload(a) ==
  /\ Goto(a, "reload", IF file # None /\ ~SameRefresh(file, mine[a]) THEN "release" ELSE "delete")
  /\ UNCHANGED <<disk, locks, endpoint, local, history>>

\* ... and otherwise whatever is there by now is deleted.
Delete(a) ==
  /\ Goto(a, "delete", "release")
  /\ file' = None
  /\ UNCHANGED <<reuse, locks, endpoint, local, history>>

Refresh(a) ==
  \/ PostRefused(a) \/ PostFails(a)
  \/ \E rotates, arrives \in BOOLEAN : PostAccepted(a, rotates, arrives)
  \/ Save(a) \/ Reload(a) \/ Delete(a)

-----------------------------------------------------------------------------
(* Logout                                                                  *)

StartLogout(a) ==
  /\ "logout" \in Ops
  /\ Goto(a, "idle", "guard")
  /\ op' = [op EXCEPT ![a] = "logout"]
  /\ UNCHANGED <<disk, locks, endpoint, rejected, mine, got, history>>

\* nativeAuthority.guard, or the end of the context.
TakeGuard(a) ==
  /\ \/ /\ Goto(a, "guard", "authority")
        /\ guard[ProcessOf[a]] = Nobody
        /\ guard' = [guard EXCEPT ![ProcessOf[a]] = a]
     \/ Goto(a, "guard", "done") /\ guard' = guard
  /\ UNCHANGED <<disk, lock, mutex, endpoint, local, history>>

\* (variant) the suppression file is best effort
SuppressOrNot(a) ==
  /\ Goto(a, "suppress", "forget")
  /\ \E b \in BOOLEAN : reuse' = [reuse EXCEPT !.suppressed = @ \/ b]
  /\ UNCHANGED <<file, locks, endpoint, local, history>>

\* The suppression file is written and the reference removed; a failure ends
\* the logout.
Suppress(a) ==
  /\ \/ Goto(a, "suppress", "forget") /\ reuse' = [reuse EXCEPT !.suppressed = TRUE]
     \/ Goto(a, "suppress", "releaseAuthority") /\ reuse' = reuse
  /\ UNCHANGED <<file, locks, endpoint, local, history>>

Forget(a) ==
  /\ \/ Goto(a, "forget", "mutex") /\ reuse' = [reuse EXCEPT !.reference = FALSE]
     \/ Goto(a, "forget", "releaseAuthority") /\ reuse' = reuse
  /\ UNCHANGED <<file, locks, endpoint, local, history>>

\* The endpoint is told, in vain or not.
Revoke(a) ==
  /\ Goto(a, "revoke", "remove")
  /\ revoked' \in {revoked, revoked \cup {mine[a].login}}
  /\ UNCHANGED <<disk, locks, server, local, history>>

\* The file is deleted, or the logout ends with the error.
Remove(a) ==
  /\ Goto(a, "remove", "release")
  /\ \/ file' = None /\ loggedOut' = loggedOut \cup {<<a, file.login>>}
     \/ file' = file /\ loggedOut' = loggedOut
  /\ UNCHANGED <<reuse, locks, endpoint, local, lost, usurped>>

ReleaseAuthority(a) ==
  Goto(a, "releaseAuthority", "unguard") /\ RemoveLock(a, "authority") /\ UNCHANGED tokens

Unguard(a) ==
  /\ Goto(a, "unguard", "done")
  /\ guard' = [guard EXCEPT ![ProcessOf[a]] = Nobody]
  /\ UNCHANGED <<disk, lock, mutex, endpoint, local, history>>

Logout(a) ==
  \/ TakeGuard(a) \/ Suppress(a) \/ Forget(a) \/ Revoke(a) \/ Remove(a)
  \/ ReleaseAuthority(a) \/ Unguard(a)

-----------------------------------------------------------------------------
(* Login                                                                   *)

\* The browser is opened, and the code it brings is exchanged for the first
\* token of a new login; or the login fails.
StartLogin(a) ==
  /\ "login" \in Ops
  /\ op' = [op EXCEPT ![a] = "login"]
  /\ \/ Goto(a, "idle", "done") /\ UNCHANGED <<endpoint, got>>
     \/ \E f \in Login \ {0} :
          /\ server[f].access = 0 /\ \A g \in 1..(f - 1) : server[g].access # 0
          /\ Goto(a, "idle", "store")
          /\ server' = [server EXCEPT ![f].access = 1]
          /\ revoked' = revoked \ {f}
          /\ got' = [got EXCEPT ![a] = First(f)]
  /\ UNCHANGED <<disk, locks, rejected, mine, history>>

\* Store.Save, without a lock; a failure, after the rename too, ends the login.
StoreLogin(a) ==
  /\ \/ Goto(a, "store", "clear") /\ file' = got[a]
     \/ Goto(a, "store", "done") /\ file' \in {file, got[a]}
  /\ UNCHANGED <<reuse, locks, endpoint, local, history>>

\* clearCodexReuseState: one file after the other.
ClearReference(a) ==
  /\ \/ Goto(a, "clear", "clearSuppression") /\ reuse' = [reuse EXCEPT !.reference = FALSE]
     \/ Goto(a, "clear", "done") /\ reuse' = reuse
  /\ UNCHANGED <<file, locks, endpoint, local, history>>

ClearSuppression(a) ==
  /\ Goto(a, "clearSuppression", "done")
  /\ reuse' \in {reuse, [reuse EXCEPT !.suppressed = FALSE]}
  /\ Drop(a)
  /\ UNCHANGED <<file, locks, endpoint, op, history>>

LogIn(a) == StoreLogin(a) \/ ClearReference(a) \/ ClearSuppression(a)

-----------------------------------------------------------------------------
(* The environment                                                         *)

\* The process of the call dies, with all its calls; its lock files stay.
Crash(p) ==
  LET A == {a \in Actor : ProcessOf[a] = p /\ pc[a] \notin {"idle"} \cup Ended} IN
  /\ A # {}
  /\ pc' = [a \in Actor |-> IF a \in A THEN "dead" ELSE pc[a]]
  /\ lost' = lost \cup Voided(A)
  /\ guard' = [guard EXCEPT ![p] = Nobody] /\ mutex' = [mutex EXCEPT ![p] = Nobody]
  /\ rejected' = [a \in Actor |-> IF a \in A THEN None ELSE rejected[a]]
  /\ mine' = [a \in Actor |-> IF a \in A THEN None ELSE mine[a]]
  /\ got' = [a \in Actor |-> IF a \in A THEN None ELSE got[a]]
  /\ UNCHANGED <<disk, lock, endpoint, op, usurped, loggedOut>>

\* Five minutes pass.
Age(l) ==
  /\ lock[l].owner # Nobody /\ ~lock[l].stale
  /\ Overstay \/ pc[lock[l].owner] = "dead"
  /\ lock' = [lock EXCEPT ![l].stale = TRUE]
  /\ UNCHANGED <<disk, guard, mutex, endpoint, local, pc, history>>

Terminated == (\A a \in Actor : pc[a] \in Ended) /\ UNCHANGED vars

Step(a) ==
  \/ WaitForLock(a) \/ TakeMutex(a) \/ Release(a) \/ Unlock(a)
  \/ Load(a) \/ Refresh(a) \/ Logout(a) \/ LogIn(a)

Start(a) == StartRefresh(a) \/ StartLogout(a) \/ StartLogin(a)

Next ==
  \/ \E a \in Actor : Start(a) \/ Step(a) \/ GiveUp(a)
  \/ \E p \in Process : Crash(p)
  \/ \E l \in Locks : Age(l)
  \/ Terminated

Spec == Init /\ [][Next]_vars

\* Calls run and their requests return; the lock of a dead process grows old.
\* Nobody has to give up waiting.
FairSpec ==
  Spec /\ (\A a \in Actor : WF_vars(Step(a))) /\ (\A l \in Locks : WF_vars(Age(l)))

-----------------------------------------------------------------------------
(* Properties                                                              *)

TypeOK ==
  /\ file \in Token /\ reuse \in [suppressed : BOOLEAN, reference : BOOLEAN]
  /\ lock \in [Locks -> [owner : Actor \cup {Nobody}, stale : BOOLEAN]]
  /\ guard \in [Process -> Actor \cup {Nobody}] /\ mutex \in [Process -> Actor \cup {Nobody}]
  /\ server \in [Login -> [refresh : Nat, access : Nat]] /\ revoked \in SUBSET (Login \ {0})
  /\ op \in [Actor -> {"none", "refresh", "login", "logout"}]
  /\ pc \in [Actor -> {"idle", "guard", "authority", "waitAuthority", "stealAuthority", "store", "clear",
                       "clearSuppression", "unguard"} \cup Inside("auth") \cup Inside("authority")
                      \cup Ended]
  /\ rejected \in [Actor -> Token] /\ mine \in [Actor -> Token] /\ got \in [Actor -> Token]
  /\ lost \in SUBSET Login /\ usurped \in BOOLEAN /\ loggedOut \in SUBSET (Actor \X Login)

\* A refresh token that the endpoint has replaced is never sent again, which
\* would end the login: of several calls that find the login in need of a
\* refresh each sends the successor the one before it stored.  Excepted are
\* answers lost on the way to the file, and lock files that were removed under
\* their holders.
TokenNotReplayed ==
  ~usurped =>
    \A a \in Actor : pc[a] = "post" /\ mine[a].login \notin lost
                       => mine[a].refresh = server[mine[a].login].refresh

\* A login that was deleted by a logout is never stored again: no refresh that
\* was under way brings it back.
LogoutIsFinal == ~usurped => \A d \in loggedOut : d[2] # 0 => file.login # d[2]

\* "Every logout, direct or borrowed, disables ambient reuse and removes the
\* reference", and the direct login is gone, when nobody logs in meanwhile.
LogoutDisablesReuse ==
  ~usurped /\ (\A b \in Actor : op[b] # "login") =>
    \A d \in loggedOut : reuse.suppressed /\ ~reuse.reference /\ file = None

\* A lock file outlives its holder only if the holder died: every error and
\* every cancellation on the way releases what was taken.
LocksAreReleased ==
  \A l \in Locks : lock[l].owner # Nobody =>
    Holds(lock[l].owner, l) \/ pc[lock[l].owner] = "dead"

\* A refused refresh token never takes a newer login with it.  The code does
\* not ensure this: see the run.
RefusalKeepsNewer ==
  [][\A a \in Actor : pc[a] = "delete" /\ pc'[a] = "release"
       => file = None \/ SameRefresh(file, mine[a])]_vars

\* Every call that starts returns, whoever dies with a lock in hand.
CallsReturn == \A a \in Actor : pc[a] # "idle" ~> pc[a] \in Ended
=============================================================================
