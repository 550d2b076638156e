-------------------------- MODULE AuthRefreshProofs --------------------------
(***************************************************************************)
(* For any number of calls and processes: what AuthRefresh promises about  *)
(* its lock files, about rotated refresh tokens and about logouts.         *)
(***************************************************************************)
EXTENDS AuthRefresh, FiniteSetTheorems, TLAPS

\* What a call is doing follows from where it stands.
Roles ==
  \A a \in Actor :
    /\ pc[a] = "idle" => op[a] = "none"
    /\ pc[a] \in {"guard", "authority", "waitAuthority", "stealAuthority", "suppress", "forget",
                  "revoke", "remove", "releaseAuthority", "unguard"} => op[a] = "logout"
    /\ pc[a] \in {"post", "save", "reload", "delete"} => op[a] = "refresh"
    /\ pc[a] \in {"store", "clear", "clearSuppression"} => op[a] = "login"
    /\ pc[a] \in {"mutex", "lock", "wait", "steal", "load", "release", "unlock"}
         => op[a] \in {"refresh", "logout"}

\* A token that is stored, sent or about to be stored belongs to a login.
Real ==
  /\ file.login = 0 => file = None
  /\ \A a \in Actor :
       /\ pc[a] \in {"post", "save", "reload", "delete", "revoke"} => mine[a].login # 0
       /\ pc[a] \in {"save", "store"} => got[a].login # 0

TInv == TypeOK /\ Roles /\ Real

\* A call between the creation and the removal of a lock file owns the file.
LockOwned == ~usurped => \A a \in Actor, l \in Locks : Holds(a, l) => lock[l].owner = a

LInv == TInv /\ LocksAreReleased /\ LockOwned

\* Logins in use were issued by the endpoint, which starts them all alike.
Issued ==
  /\ \A f \in Login : server[f].access = 0 => server[f].refresh = 0
  /\ file.login # 0 => server[file.login].access # 0
  /\ \A a \in Actor : /\ mine[a].login # 0 => server[mine[a].login].access # 0
                      /\ got[a].login # 0 => server[got[a].login].access # 0
  /\ \A d \in loggedOut : d[2] # 0 => server[d[2]].access # 0

\* Before a new login is stored nobody else knows its token.
Unshared ==
  \A a \in Actor : pc[a] = "store" =>
    /\ got[a].refresh = server[got[a].login].refresh
    /\ file.login # got[a].login
    /\ \A b \in Actor : mine[b].login # got[a].login /\ (b # a => got[b].login # got[a].login)
    /\ \A d \in loggedOut : d[2] # got[a].login

\* What the endpoint gave last is stored, or in the hands of the call that is
\* about to store it.
Stored ==
  file.login # 0 /\ file.login \notin lost =>
    \/ file.refresh = server[file.login].refresh
    \/ \E a \in Actor : pc[a] = "save" /\ got[a].login = file.login

\* The token that is sent is the one the endpoint has, and still the one that
\* is stored; so is the answer the last one, until it is stored.
Current ==
  \A a \in Actor :
    /\ pc[a] = "post" /\ mine[a].login \notin lost
         => mine[a].refresh = server[mine[a].login].refresh
    /\ pc[a] \in {"post", "save"} /\ file.login = mine[a].login
         => file.refresh = mine[a].refresh
    /\ pc[a] = "save" => /\ got[a].login = mine[a].login
                         /\ got[a].refresh = server[got[a].login].refresh

\* A login that a logout deleted is nowhere any more.
Gone ==
  \A d \in loggedOut : d[2] # 0 =>
    /\ file.login # d[2]
    /\ \A a \in Actor : pc[a] \in {"post", "save"} => mine[a].login # d[2]

Tokens == Unshared /\ Stored /\ Current /\ Gone

\* As long as nobody logs in, a logout leaves what it has done as it is.
NobodyLogsIn == \A b \in Actor : op[b] # "login"
Removing == {"mutex", "lock", "wait", "steal", "load", "revoke", "remove"}
Suppressed ==
  NobodyLogsIn =>
    /\ \A a \in Actor : pc[a] = "forget" => reuse.suppressed
    /\ \A a \in Actor :
         op[a] = "logout" /\ pc[a] \in Removing => reuse.suppressed /\ ~reuse.reference
    /\ loggedOut # {} => /\ reuse.suppressed /\ ~reuse.reference /\ file = None
                         /\ \A a \in Actor : pc[a] \notin {"post", "save"}

IInv == LInv /\ Issued /\ (~usurped => Tokens /\ Suppressed)

-----------------------------------------------------------------------------
\* There are enough names for the logins.
LEMMA Logins == Login \subseteq Nat /\ 0 \in Login /\ 1 \in Login
<1>1. Cardinality(Actor) \in Nat
  BY FS_CardinalityType, ConstantsAssumption
<1> QED BY <1>1 DEF Login

\* The types hold initially ...
LEMMA InitT == Init => TInv
<1> SUFFICES ASSUME Init PROVE TInv
  OBVIOUS
<1> USE Logins DEF Init, Token, None, First
<1>1. file \in Token
  OBVIOUS
<1>2. TypeOK
  BY <1>1, ConstantsAssumption DEF TypeOK, Locks
<1>3. Roles
  BY DEF Roles
<1>4. Real
  BY DEF Real
<1> QED BY <1>2, <1>3, <1>4 DEF TInv

\* ... and every step keeps them.
LEMMA StepT == TInv /\ [Next]_vars => TInv'
<1> SUFFICES ASSUME TInv, [Next]_vars PROVE TInv'
  OBVIOUS
<1> USE Logins, ConstantsAssumption
    DEF TInv, TypeOK, Roles, Real, Goto, Inside, Ended, Locks, disk, locks, endpoint, tokens,
        local, history
<1>1. ASSUME NEW a \in Actor, WaitForLock(a) PROVE TInv'
  <2>1. CASE Goto(a, "lock", "load") /\ CreateLock(a, "auth")
    BY <2>1 DEF CreateLock
  <2>2. CASE Goto(a, "authority", "suppress") /\ CreateLock(a, "authority")
    BY <2>2 DEF CreateLock
  <2>3. CASE Goto(a, "lock", "steal") /\ SeeStale("auth")
    BY <2>3 DEF SeeStale
  <2>4. CASE Goto(a, "authority", "stealAuthority") /\ SeeStale("authority")
    BY <2>4 DEF SeeStale
  <2>5. CASE Goto(a, "steal", "lock") /\ RemoveLock(a, "auth") /\ UNCHANGED tokens
    BY <2>5 DEF RemoveLock
  <2>6. CASE Goto(a, "stealAuthority", "authority") /\ RemoveLock(a, "authority")
               /\ UNCHANGED tokens
    BY <2>6 DEF RemoveLock
  <2>7. CASE Goto(a, "lock", "wait") /\ SeeHeld("auth")
    BY <2>7 DEF SeeHeld
  <2>8. CASE Goto(a, "authority", "waitAuthority") /\ SeeHeld("authority")
    BY <2>8 DEF SeeHeld
  <2>9. CASE (Goto(a, "wait", "lock") \/ Goto(a, "waitAuthority", "authority")) /\ Wake
    BY <2>9 DEF Wake
  <2> QED BY <1>1, <2>1, <2>2, <2>3, <2>4, <2>5, <2>6, <2>7, <2>8, <2>9 DEF WaitForLock
<1>2. ASSUME NEW a \in Actor, GiveUp(a) PROVE TInv'
  <2>1. CASE Goto(a, "wait", "unlock") /\ Wake
    BY <2>1 DEF Wake
  <2>2. CASE Goto(a, "waitAuthority", "unguard") /\ Wake
    BY <2>2 DEF Wake
  <2> QED BY <1>2, <2>1, <2>2 DEF GiveUp
<1>3. ASSUME NEW a \in Actor, TakeMutex(a) PROVE TInv'
  BY <1>3 DEF TakeMutex
<1>4. ASSUME NEW a \in Actor, Release(a) PROVE TInv'
  BY <1>4 DEF Release, RemoveLock, Drop, Token, None
<1>5. ASSUME NEW a \in Actor, Unlock(a) PROVE TInv'
  BY <1>5 DEF Unlock
<1>6. ASSUME NEW a \in Actor, Load(a) PROVE TInv'
  BY <1>6 DEF Load
<1>7. ASSUME NEW a \in Actor, Refresh(a) PROVE TInv'
  <2>1. CASE PostRefused(a)
    <3>1. revoked' \in SUBSET (Login \ {0})
      <4>1. mine[a].login \in Login \ {0}
        BY <2>1 DEF PostRefused, Token
      <4>2. revoked' \in {revoked, revoked \cup {mine[a].login}}
        BY <2>1 DEF PostRefused
      <4> QED BY <4>1, <4>2
    <3> QED BY <2>1, <3>1 DEF PostRefused
  <2>2. CASE PostFails(a)
    BY <2>2 DEF PostFails
  <2>3. ASSUME NEW rotates \in BOOLEAN, NEW arrives \in BOOLEAN, PostAccepted(a, rotates, arrives)
        PROVE TInv'
    <3>1. Renewed(mine[a], rotates) \in Token /\ Renewed(mine[a], rotates).login = mine[a].login
      <4>1. mine[a] \in Token /\ server[mine[a].login].access \in Nat
        BY DEF Token
      <4>2. mine[a].refresh + (IF rotates THEN 1 ELSE 0) \in Nat
        BY <4>1 DEF Token
      <4> QED BY <4>1, <4>2 DEF Renewed, Token
    <3> DEFINE t == Renewed(mine[a], rotates)
    <3>2. t.login \in Login /\ t.refresh \in Nat /\ t.access \in Nat
      BY <3>1 DEF Token
    <3>3. server' = [server EXCEPT ![t.login] = [refresh |-> t.refresh, access |-> t.access]]
      BY <2>3 DEF PostAccepted
    <3>4. server' \in [Login -> [refresh : Nat, access : Nat]]
      BY <3>2, <3>3
    <3>5. got' \in [Actor -> Token] /\ lost' \in SUBSET Login
      BY <2>3, <3>1, <3>2 DEF PostAccepted
    <3>6. got'[a].login = mine[a].login
      BY <2>3, <3>1 DEF PostAccepted
    <3>7. \A b \in Actor \ {a} : got'[b] = got[b] /\ pc'[b] = pc[b]
      BY <2>3 DEF PostAccepted
    <3>8. pc[a] = "post" /\ pc'[a] \in {"save", "release"} /\ UNCHANGED <<disk, locks, revoked, op, rejected, mine, usurped, loggedOut>>
      BY <2>3 DEF PostAccepted
    <3>9. pc' \in [Actor -> {"idle", "guard", "authority", "waitAuthority", "stealAuthority",
             "store", "clear", "clearSuppression", "unguard"} \cup Inside("auth")
             \cup Inside("authority") \cup Ended]
      BY <2>3 DEF PostAccepted
    <3> HIDE DEF t
    <3>10. TypeOK'
      BY <3>4, <3>5, <3>8, <3>9
    <3>11. Roles'
      BY <3>7, <3>8
    <3>12. Real'
      BY <3>6, <3>7, <3>8
    <3> QED BY <3>10, <3>11, <3>12
  <2>4. CASE Save(a)
    <3>1. Voided({a}) \subseteq Login
      BY DEF Voided, Token
    <3>2. TypeOK'
      <4>1. file' \in {got[a], file} /\ lost' \in {lost, lost \cup Voided({a})}
        BY <2>4 DEF Save
      <4>2. file' \in Token
        BY <4>1
      <4>3. lost' \in SUBSET Login
        BY <4>1, <3>1
      <4> QED BY <2>4, <4>2, <4>3 DEF Save
    <3>3. Roles'
      BY <2>4 DEF Save
    <3>4. Real'
      BY <2>4 DEF Save
    <3> QED BY <3>2, <3>3, <3>4
  <2>5. CASE Reload(a)
    BY <2>5 DEF Reload
  <2>6. CASE Delete(a)
    BY <2>6 DEF Delete, Token, None
  <2> QED BY <1>7, <2>1, <2>2, <2>3, <2>4, <2>5, <2>6 DEF Refresh
<1>8. ASSUME NEW a \in Actor, Logout(a) PROVE TInv'
  <2>1. CASE TakeGuard(a)
    BY <2>1 DEF TakeGuard
  <2>2. CASE Suppress(a)
    <3>1. reuse' \in [suppressed : BOOLEAN, reference : BOOLEAN]
      BY <2>2 DEF Suppress
    <3> QED BY <2>2, <3>1 DEF Suppress
  <2>3. CASE Forget(a)
    <3>1. reuse' \in [suppressed : BOOLEAN, reference : BOOLEAN]
      BY <2>3 DEF Forget
    <3> QED BY <2>3, <3>1 DEF Forget
  <2>4. CASE Revoke(a)
    BY <2>4 DEF Revoke, Token
  <2>5. CASE Remove(a)
    BY <2>5 DEF Remove, Token, None
  <2>6. CASE ReleaseAuthority(a)
    BY <2>6 DEF ReleaseAuthority, RemoveLock
  <2>7. CASE Unguard(a)
    BY <2>7 DEF Unguard
  <2> QED BY <1>8, <2>1, <2>2, <2>3, <2>4, <2>5, <2>6, <2>7 DEF Logout
<1>9. ASSUME NEW a \in Actor, LogIn(a) PROVE TInv'
  <2>1. CASE StoreLogin(a)
    BY <2>1 DEF StoreLogin
  <2>2. CASE ClearReference(a)
    <3>1. reuse' \in [suppressed : BOOLEAN, reference : BOOLEAN]
      BY <2>2 DEF ClearReference
    <3> QED BY <2>2, <3>1 DEF ClearReference
  <2>3. CASE ClearSuppression(a)
    <3>1. reuse' \in [suppressed : BOOLEAN, reference : BOOLEAN]
      BY <2>3 DEF ClearSuppression
    <3>2. None \in Token
      BY DEF None, Token
    <3> QED BY <2>3, <3>1, <3>2 DEF ClearSuppression, Drop
  <2> QED BY <1>9, <2>1, <2>2, <2>3 DEF LogIn
<1>10. ASSUME NEW a \in Actor, StartRefresh(a) PROVE TInv'
  BY <1>10 DEF StartRefresh, Token, None
<1>11. ASSUME NEW a \in Actor, StartLogout(a) PROVE TInv'
  BY <1>11 DEF StartLogout
<1>12. ASSUME NEW a \in Actor, StartLogin(a) PROVE TInv'
  <2>1. CASE Goto(a, "idle", "done") /\ UNCHANGED <<endpoint, got>>
    BY <1>12, <2>1 DEF StartLogin
  <2>2. ASSUME NEW f \in Login \ {0}, Goto(a, "idle", "store"),
               server' = [server EXCEPT ![f].access = 1], revoked' = revoked \ {f},
               got' = [got EXCEPT ![a] = First(f)]
        PROVE TInv'
    <3>1. First(f) \in Token /\ First(f).login = f
      BY DEF First, Token
    <3>2. server' \in [Login -> [refresh : Nat, access : Nat]]
      BY <2>2
    <3>3. TypeOK'
      BY <1>12, <2>2, <3>1, <3>2 DEF StartLogin
    <3>4. Roles'
      BY <1>12, <2>2 DEF StartLogin
    <3>5. Real'
      BY <1>12, <2>2, <3>1 DEF StartLogin
    <3> QED BY <3>3, <3>4, <3>5
  <2> QED BY <1>12, <2>1, <2>2 DEF StartLogin
<1>13. ASSUME NEW p \in Process, Crash(p) PROVE TInv'
  <2>1. \A A \in SUBSET Actor : Voided(A) \subseteq Login
    BY DEF Voided, Token
  <2> QED BY <1>13, <2>1 DEF Crash, Token, None
<1>14. ASSUME NEW l \in Locks, Age(l) PROVE TInv'
  <2>1. lock' \in [Locks -> [owner : Actor \cup {Nobody}, stale : BOOLEAN]]
    <3>1. lock[l] \in [owner : Actor \cup {Nobody}, stale : BOOLEAN]
      OBVIOUS
    <3>2. [lock[l] EXCEPT !.stale = TRUE] \in [owner : Actor \cup {Nobody}, stale : BOOLEAN]
      BY <3>1
    <3>3. lock' = [lock EXCEPT ![l] = [lock[l] EXCEPT !.stale = TRUE]]
      BY <1>14 DEF Age
    <3> QED BY <3>2, <3>3
  <2> QED BY <1>14, <2>1 DEF Age
<1>15. CASE UNCHANGED vars
  BY <1>15 DEF vars
<1> QED
  BY <1>1, <1>2, <1>3, <1>4, <1>5, <1>6, <1>7, <1>8, <1>9, <1>10, <1>11, <1>12, <1>13, <1>14,
     <1>15 DEF Next, Step, Start, Terminated

\* Every variable keeps its type, for any set of calls.
THEOREM TypeCorrect == Spec => []TypeOK
<1>1. TInv => TypeOK
  BY DEF TInv
<1> QED BY InitT, StepT, <1>1, PTL DEF Spec

-----------------------------------------------------------------------------
\* A call that neither creates nor removes a lock file keeps the lock invariant
\* if it stays inside, or outside, of each.
LEMMA MoveL ==
  ASSUME LInv, TInv', NEW a \in Actor,
         \A b \in Actor \ {a} : pc'[b] = pc[b] /\ op'[b] = op[b],
         UNCHANGED <<lock, usurped>>, pc[a] # "dead",
         \A l \in Locks : Holds(a, l)' <=> Holds(a, l)
  PROVE  LInv'
<1>1. \A b \in Actor, l \in Locks : Holds(b, l)' <=> Holds(b, l)
  BY DEF Holds
<1>2. \A b \in Actor : pc[b] = "dead" => pc'[b] = "dead"
  OBVIOUS
<1>3. LocksAreReleased'
  <2> SUFFICES ASSUME NEW l \in Locks, lock[l].owner # Nobody
               PROVE  Holds(lock[l].owner, l)' \/ pc'[lock[l].owner] = "dead"
    BY DEF LocksAreReleased, Holds
  <2>1. lock[l].owner \in Actor
    BY DEF LInv, TInv, TypeOK
  <2> QED BY <1>1, <1>2, <2>1 DEF LInv, LocksAreReleased
<1>4. LockOwned'
  BY <1>1 DEF LInv, LockOwned
<1> QED BY <1>3, <1>4 DEF LInv

\* A call that finds no lock file creates it and is inside.
LEMMA CreateL ==
  ASSUME LInv, TInv', NEW a \in Actor, NEW l \in Locks, CreateLock(a, l), pc[a] # "dead",
         \A b \in Actor \ {a} : pc'[b] = pc[b], Holds(a, l)',
         \A m \in Locks \ {l} : Holds(a, m)' <=> Holds(a, m)
  PROVE  LInv'
<1> USE DEF LInv
<1>1. /\ lock[l].owner = Nobody /\ lock'[l].owner = a
      /\ \A m \in Locks \ {l} : lock'[m] = lock[m]
      /\ UNCHANGED <<op, usurped>>
  BY DEF CreateLock, TInv, TypeOK, local, history
<1>2. \A b \in Actor \ {a}, m \in Locks : Holds(b, m)' <=> Holds(b, m)
  BY <1>1 DEF Holds
<1>3. LocksAreReleased'
  <2> SUFFICES ASSUME NEW m \in Locks, NEW q, q = lock'[m].owner, q # Nobody
               PROVE  Holds(q, m)' \/ pc'[q] = "dead"
    BY DEF LocksAreReleased, Holds
  <2>1. CASE m = l
    BY <1>1, <2>1 DEF Holds
  <2>2. CASE m # l
    <3>1. lock[m].owner = q /\ q \in Actor
      BY <1>1, <2>2 DEF TInv, TypeOK
    <3>2. Holds(q, m) \/ pc[q] = "dead"
      BY <3>1 DEF LocksAreReleased
    <3>3. q # a => Holds(q, m)' \/ pc'[q] = "dead"
      BY <1>2, <3>1, <3>2
    <3> QED BY <2>2, <3>2, <3>3
  <2> QED BY <2>1, <2>2
<1>4. LockOwned'
  <2> SUFFICES ASSUME ~usurped, NEW b \in Actor, NEW m \in Locks, Holds(b, m)'
               PROVE  lock'[m].owner = b
    BY <1>1 DEF LockOwned, Holds
  <2>1. CASE b = a
    BY <1>1, <2>1 DEF LockOwned
  <2>2. CASE b # a
    <3>1. lock[m].owner = b
      BY <1>2, <2>2 DEF LockOwned
    <3> QED BY <1>1, <3>1, ConstantsAssumption
  <2> QED BY <2>1, <2>2
<1> QED BY <1>3, <1>4

\* A call that removes a lock file is outside afterwards; if it was not the
\* owner's own removal the file is marked.
LEMMA RemoveL ==
  ASSUME LInv, TInv', NEW a \in Actor, NEW l \in Locks, RemoveLock(a, l), pc[a] # "dead",
         \A b \in Actor \ {a} : pc'[b] = pc[b], ~Holds(a, l)',
         \A m \in Locks \ {l} : Holds(a, m)' <=> Holds(a, m)
  PROVE  LInv'
<1> USE DEF LInv
<1>1. /\ lock'[l].owner = Nobody
      /\ \A m \in Locks \ {l} : lock'[m] = lock[m]
      /\ UNCHANGED op
      /\ usurped' = (usurped \/ \E b \in Actor \ {a} : lock[l].owner = b /\ Holds(b, l))
  BY DEF RemoveLock, TInv, TypeOK
<1>2. \A b \in Actor \ {a}, m \in Locks : Holds(b, m)' <=> Holds(b, m)
  BY <1>1 DEF Holds
<1>3. LocksAreReleased'
  <2> SUFFICES ASSUME NEW m \in Locks, NEW q, q = lock'[m].owner, q # Nobody
               PROVE  Holds(q, m)' \/ pc'[q] = "dead"
    BY DEF LocksAreReleased, Holds
  <2>1. m # l /\ lock[m].owner = q /\ q \in Actor
    BY <1>1 DEF TInv, TypeOK
  <2>2. Holds(q, m) \/ pc[q] = "dead"
    BY <2>1 DEF LocksAreReleased
  <2>3. q # a => Holds(q, m)' \/ pc'[q] = "dead"
    BY <1>2, <2>1, <2>2
  <2> QED BY <2>1, <2>2, <2>3
<1>4. LockOwned'
  <2> SUFFICES ASSUME ~usurped', NEW b \in Actor, NEW m \in Locks, Holds(b, m)'
               PROVE  lock'[m].owner = b
    BY DEF LockOwned, Holds
  <2>1. ~usurped
    BY <1>1
  <2>2. m # l
    <3> SUFFICES ASSUME m = l PROVE FALSE
      OBVIOUS
    <3>1. b # a
      OBVIOUS
    <3>2. Holds(b, l) /\ lock[l].owner = b
      BY <1>2, <2>1, <3>1 DEF LockOwned
    <3> QED BY <1>1, <3>1, <3>2
  <2>3. Holds(b, m)
    BY <1>2, <2>2
  <2> QED BY <1>1, <2>1, <2>2, <2>3 DEF LockOwned
<1> QED BY <1>3, <1>4

LEMMA InitL == Init => LInv
<1> SUFFICES ASSUME Init PROVE LInv
  OBVIOUS
<1>1. TInv
  BY InitT
<1> QED BY <1>1 DEF Init, LInv, LocksAreReleased, LockOwned, Holds, Inside

LEMMA StepL == LInv /\ [Next]_vars => LInv'
<1> SUFFICES ASSUME LInv, [Next]_vars PROVE LInv'
  OBVIOUS
<1>0. TInv /\ TInv'
  BY StepT DEF LInv
<1>00. DOMAIN pc = Actor /\ DOMAIN op = Actor
  BY <1>0 DEF TInv, TypeOK
<1> USE <1>0, <1>00 DEF Goto, Locks, disk, locks, endpoint, tokens, local, history
<1>1. ASSUME NEW a \in Actor, WaitForLock(a) PROVE LInv'
  <2>1. CASE Goto(a, "lock", "load") /\ CreateLock(a, "auth")
    <3>1. Holds(a, "auth")' /\ (Holds(a, "authority")' <=> Holds(a, "authority"))
      BY <2>1 DEF CreateLock, Holds, Inside
    <3> QED BY <2>1, <3>1, CreateL
  <2>2. CASE Goto(a, "authority", "suppress") /\ CreateLock(a, "authority")
    <3>1. Holds(a, "authority")' /\ (Holds(a, "auth")' <=> Holds(a, "auth"))
      BY <2>2 DEF CreateLock, Holds, Inside, TInv, Roles
    <3> QED BY <2>2, <3>1, CreateL
  <2>3. CASE Goto(a, "steal", "lock") /\ RemoveLock(a, "auth") /\ UNCHANGED tokens
    <3>1. ~Holds(a, "auth")' /\ (Holds(a, "authority")' <=> Holds(a, "authority"))
      BY <2>3 DEF RemoveLock, Holds, Inside
    <3> QED BY <2>3, <3>1, RemoveL
  <2>4. CASE Goto(a, "stealAuthority", "authority") /\ RemoveLock(a, "authority")
               /\ UNCHANGED tokens
    <3>1. ~Holds(a, "authority")' /\ (Holds(a, "auth")' <=> Holds(a, "auth"))
      BY <2>4 DEF RemoveLock, Holds, Inside
    <3> QED BY <2>4, <3>1, RemoveL
  <2>5. CASE \/ (Goto(a, "lock", "steal") /\ SeeStale("auth"))
             \/ (Goto(a, "authority", "stealAuthority") /\ SeeStale("authority"))
             \/ (Goto(a, "lock", "wait") /\ SeeHeld("auth"))
             \/ (Goto(a, "authority", "waitAuthority") /\ SeeHeld("authority"))
             \/ (Goto(a, "wait", "lock") /\ Wake)
             \/ (Goto(a, "waitAuthority", "authority") /\ Wake)
    <3>1. UNCHANGED <<lock, usurped, op>>
      BY <2>5 DEF SeeStale, SeeHeld, Wake
    <3>2. \A l \in Locks : Holds(a, l)' <=> Holds(a, l)
      BY <2>5, <3>1 DEF Holds, Inside
    <3> QED BY <2>5, <3>1, <3>2, MoveL
  <2> QED BY <1>1, <2>1, <2>2, <2>3, <2>4, <2>5 DEF WaitForLock
<1>2. ASSUME NEW a \in Actor, GiveUp(a) PROVE LInv'
  <2>1. \A l \in Locks : Holds(a, l)' <=> Holds(a, l)
    BY <1>2 DEF GiveUp, Wake, Holds, Inside
  <2> QED BY <1>2, <2>1, MoveL DEF GiveUp, Wake
<1>3. ASSUME NEW a \in Actor, TakeMutex(a) PROVE LInv'
  <2>1. \A l \in Locks : Holds(a, l)' <=> Holds(a, l)
    BY <1>3 DEF TakeMutex, Holds, Inside
  <2> QED BY <1>3, <2>1, MoveL DEF TakeMutex
<1>4. ASSUME NEW a \in Actor, Release(a) PROVE LInv'
  <2>1. ~Holds(a, "auth")' /\ (Holds(a, "authority")' <=> Holds(a, "authority"))
    BY <1>4 DEF Release, RemoveLock, Holds, Inside
  <2> QED BY <1>4, <2>1, RemoveL DEF Release
<1>5. ASSUME NEW a \in Actor, Unlock(a) PROVE LInv'
  <2>1. \A l \in Locks : Holds(a, l)' <=> Holds(a, l)
    BY <1>5 DEF Unlock, Holds, Inside
  <2> QED BY <1>5, <2>1, MoveL DEF Unlock
<1>6. ASSUME NEW a \in Actor, Load(a) PROVE LInv'
  <2>1. \A l \in Locks : Holds(a, l)' <=> Holds(a, l)
    BY <1>6 DEF Load, Holds, Inside
  <2> QED BY <1>6, <2>1, MoveL DEF Load
<1>7. ASSUME NEW a \in Actor, Refresh(a) PROVE LInv'
  <2>1. /\ pc[a] \in {"post", "save", "reload", "delete"}
        /\ pc' = [pc EXCEPT ![a] = pc'[a]]
        /\ pc'[a] \in {"save", "reload", "delete", "release"}
        /\ UNCHANGED <<lock, usurped, op>>
    BY <1>7 DEF Refresh, PostRefused, PostFails, PostAccepted, Save, Reload, Delete
  <2>2. \A l \in Locks : Holds(a, l)' <=> Holds(a, l)
    BY <2>1 DEF Holds, Inside, TInv, Roles
  <2> QED BY <2>1, <2>2, MoveL
<1>8. ASSUME NEW a \in Actor, Logout(a) PROVE LInv'
  <2>1. CASE TakeGuard(a) \/ Suppress(a) \/ Forget(a) \/ Revoke(a) \/ Remove(a) \/ Unguard(a)
    <3>1. /\ UNCHANGED <<lock, usurped, op>>
          /\ \A b \in Actor \ {a} : pc'[b] = pc[b]
          /\ <<pc[a], pc'[a]>> \in {<<"guard", "authority">>, <<"guard", "done">>,
               <<"suppress", "forget">>, <<"suppress", "releaseAuthority">>,
               <<"forget", "mutex">>, <<"forget", "releaseAuthority">>,
               <<"revoke", "remove">>, <<"remove", "release">>, <<"unguard", "done">>}
      BY <2>1 DEF TakeGuard, Suppress, Forget, Revoke, Remove, Unguard
    <3>2. \A l \in Locks : Holds(a, l)' <=> Holds(a, l)
      BY <3>1 DEF Holds, Inside
    <3> QED BY <3>1, <3>2, MoveL
  <2>2. CASE ReleaseAuthority(a)
    <3>1. ~Holds(a, "authority")' /\ (Holds(a, "auth")' <=> Holds(a, "auth"))
      BY <2>2 DEF ReleaseAuthority, RemoveLock, Holds, Inside
    <3> QED BY <2>2, <3>1, RemoveL DEF ReleaseAuthority
  <2> QED BY <1>8, <2>1, <2>2 DEF Logout
<1>9. ASSUME NEW a \in Actor, LogIn(a) PROVE LInv'
  <2>1. \A l \in Locks : Holds(a, l)' <=> Holds(a, l)
    BY <1>9 DEF LogIn, StoreLogin, ClearReference, ClearSuppression, Holds, Inside
  <2> QED BY <1>9, <2>1, MoveL DEF LogIn, StoreLogin, ClearReference, ClearSuppression
<1>10. ASSUME NEW a \in Actor, Start(a) PROVE LInv'
  <2>1. /\ pc[a] = "idle" /\ pc'[a] \in {"mutex", "guard", "done", "store"}
        /\ \A b \in Actor \ {a} : pc'[b] = pc[b] /\ op'[b] = op[b]
        /\ UNCHANGED <<lock, usurped>>
        /\ pc'[a] = "mutex" => op'[a] = "refresh"
    BY <1>10 DEF Start, StartRefresh, StartLogout, StartLogin, TInv, TypeOK
  <2>2. \A l \in Locks : Holds(a, l)' <=> Holds(a, l)
    BY <2>1 DEF Holds, Inside
  <2> QED BY <2>1, <2>2, MoveL
<1>11. ASSUME NEW p \in Process, Crash(p) PROVE LInv'
  <2>1. /\ \A b \in Actor : pc'[b] = pc[b] \/ (pc[b] # "dead" /\ pc'[b] = "dead")
        /\ UNCHANGED <<lock, usurped, op>>
    BY <1>11 DEF Crash, Ended
  <2>2. \A b \in Actor, l \in Locks : Holds(b, l)' => Holds(b, l)
    BY <2>1 DEF Holds, Inside
  <2>3. LocksAreReleased'
    <3> SUFFICES ASSUME NEW l \in Locks, lock[l].owner # Nobody
                 PROVE  Holds(lock[l].owner, l)' \/ pc'[lock[l].owner] = "dead"
      BY <2>1 DEF LocksAreReleased, Holds
    <3>1. lock[l].owner \in Actor
      BY DEF TInv, TypeOK
    <3> QED BY <2>1, <3>1 DEF LInv, LocksAreReleased, Holds
  <2>4. LockOwned'
    BY <2>1, <2>2 DEF LInv, LockOwned
  <2> QED BY <2>3, <2>4 DEF LInv
<1>12. ASSUME NEW l \in Locks, Age(l) PROVE LInv'
  <2>1. /\ \A m \in Locks : lock'[m].owner = lock[m].owner
        /\ UNCHANGED <<pc, op, usurped>>
    BY <1>12 DEF Age, TInv, TypeOK
  <2> QED BY <2>1 DEF LInv, LocksAreReleased, LockOwned, Holds
<1>13. CASE UNCHANGED vars
  BY <1>13 DEF vars, LInv, LocksAreReleased, LockOwned, Holds
<1> QED
  BY <1>1, <1>2, <1>3, <1>4, <1>5, <1>6, <1>7, <1>8, <1>9, <1>10, <1>11, <1>12, <1>13
  DEF Next, Step, Terminated

\* A lock file outlives its holder only if the holder died.
THEOREM EveryLockIsReleased == Spec => []LocksAreReleased
<1>1. LInv => LocksAreReleased
  BY DEF LInv
<1> QED BY InitL, StepL, <1>1, PTL DEF Spec

\* At most one call is inside a lock file that was not taken from its holder.
LEMMA OneInside ==
  ASSUME LInv, ~usurped, NEW l \in Locks, NEW a \in Actor, NEW b \in Actor,
         Holds(a, l), Holds(b, l)
  PROVE  a = b
BY DEF LInv, LockOwned

-----------------------------------------------------------------------------
LEMMA InitI == Init => IInv
<1> SUFFICES ASSUME Init PROVE IInv
  OBVIOUS
<1>0. LInv
  BY InitL
<1> USE Logins DEF Init, None, First
<1>1. Issued
  BY DEF Issued
<1>2. Tokens
  BY DEF Tokens, Unshared, Stored, Current, Gone
<1>3. Suppressed
  BY DEF Suppressed, Removing
<1> QED BY <1>0, <1>1, <1>2, <1>3 DEF IInv

\* Whoever renews a token renews that of a login in use, and a login that is
\* issued was in use nowhere.
LEMMA StepI == TInv /\ Issued /\ [Next]_vars => Issued'
<1> SUFFICES ASSUME TInv, Issued, [Next]_vars PROVE Issued'
  OBVIOUS
<1> USE Logins
    DEF TInv, TypeOK, Real, Issued, Token, None, Goto, disk, locks, endpoint, tokens, local, history
<1>1. CASE UNCHANGED <<file, server, mine, got, loggedOut>>
  BY <1>1
<1>2. ASSUME NEW a \in Actor, Release(a) \/ ClearSuppression(a) PROVE Issued'
  <2>1. /\ mine' = [mine EXCEPT ![a] = None] /\ got' = [got EXCEPT ![a] = None]
        /\ UNCHANGED <<file, server, loggedOut>>
    BY <1>2 DEF Release, RemoveLock, Drop, ClearSuppression
  <2> QED BY <2>1
<1>3. ASSUME NEW a \in Actor, Load(a) PROVE Issued'
  BY <1>3 DEF Load
<1>4. ASSUME NEW a \in Actor, NEW rotates \in BOOLEAN, NEW arrives \in BOOLEAN,
             PostAccepted(a, rotates, arrives)
      PROVE Issued'
  <2> DEFINE t == Renewed(mine[a], rotates)
  <2>1. t.login = mine[a].login /\ t.access = server[mine[a].login].access + 1
    BY DEF Renewed
  <2>2. /\ server' = [server EXCEPT ![t.login] = [refresh |-> t.refresh, access |-> t.access]]
        /\ got' = [got EXCEPT ![a] = t]
        /\ UNCHANGED <<file, mine, loggedOut>>
    BY <1>4 DEF PostAccepted
  <2> HIDE DEF t
  <2>3. \A f \in Login : server[f].access # 0 => server'[f].access # 0
    BY <2>1, <2>2
  <2>4. \A f \in Login : server'[f].access = 0 => server'[f] = server[f]
    BY <2>1, <2>2
  <2>5. t.login # 0 => server'[t.login].access # 0
    BY <2>1, <2>3
  <2> QED BY <2>2, <2>3, <2>4, <2>5
<1>5. ASSUME NEW a \in Actor, Save(a) \/ StoreLogin(a) PROVE Issued'
  <2>1. file' \in {file, got[a]} /\ UNCHANGED <<server, mine, got, loggedOut>>
    BY <1>5 DEF Save, StoreLogin
  <2> QED BY <2>1
<1>6. ASSUME NEW a \in Actor, Delete(a) PROVE Issued'
  BY <1>6 DEF Delete
<1>7. ASSUME NEW a \in Actor, Remove(a) PROVE Issued'
  <2>1. /\ file' \in {file, None} /\ loggedOut' \in {loggedOut, loggedOut \cup {<<a, file.login>>}}
        /\ UNCHANGED <<server, mine, got>>
    BY <1>7 DEF Remove
  <2> QED BY <2>1
<1>8. ASSUME NEW a \in Actor, StartLogin(a) PROVE Issued'
  <2>1. CASE UNCHANGED <<endpoint, got>>
    BY <1>8, <2>1 DEF StartLogin
  <2>2. ASSUME NEW f \in Login \ {0}, server' = [server EXCEPT ![f].access = 1],
               got' = [got EXCEPT ![a] = First(f)], server[f].access = 0
        PROVE Issued'
    <3>1. server'[f].access # 0 /\ \A g \in Login \ {f} : server'[g] = server[g]
      BY <2>2
    <3>2. got'[a].login = f /\ \A b \in Actor \ {a} : got'[b] = got[b]
      BY <2>2 DEF First
    <3>3. UNCHANGED <<file, mine, loggedOut>>
      BY <1>8 DEF StartLogin
    <3> QED BY <2>2, <3>1, <3>2, <3>3
  <2> QED BY <1>8, <2>1, <2>2 DEF StartLogin
<1>9. ASSUME NEW p \in Process, Crash(p) PROVE Issued'
  BY <1>9 DEF Crash
<1>10. ASSUME NEW a \in Actor, Start(a) \/ Step(a) \/ GiveUp(a) PROVE Issued'
  <2>1. CASE Start(a)
    BY <1>1, <1>8, <2>1 DEF Start, StartRefresh, StartLogout
  <2>2. CASE GiveUp(a)
    BY <1>1, <2>2 DEF GiveUp, Wake
  <2>3. CASE WaitForLock(a)
    BY <1>1, <2>3 DEF WaitForLock, CreateLock, RemoveLock, SeeHeld, SeeStale, Wake
  <2>4. CASE TakeMutex(a) \/ Unlock(a)
    BY <1>1, <2>4 DEF TakeMutex, Unlock
  <2>5. CASE Refresh(a)
    BY <1>1, <1>4, <1>5, <1>6, <2>5 DEF Refresh, PostRefused, PostFails, Reload
  <2>6. CASE Logout(a)
    BY <1>1, <1>7, <2>6 DEF Logout, TakeGuard, Suppress, Forget, Revoke, ReleaseAuthority,
                            RemoveLock, Unguard
  <2>7. CASE LogIn(a)
    BY <1>1, <1>2, <1>5, <2>7 DEF LogIn, ClearReference
  <2> QED BY <1>2, <1>3, <1>10, <2>1, <2>2, <2>3, <2>4, <2>5, <2>6, <2>7 DEF Step
<1>11. ASSUME NEW l \in Locks, Age(l) PROVE Issued'
  BY <1>1, <1>11 DEF Age
<1>12. CASE UNCHANGED vars
  BY <1>1, <1>12 DEF vars
<1> QED BY <1>9, <1>10, <1>11, <1>12 DEF Next, Terminated

\* Only a removal marks a lock file, and for good.
LEMMA Monotone == [Next]_vars /\ ~usurped' => ~usurped
<1> SUFFICES ASSUME [Next]_vars, ~usurped' PROVE ~usurped
  OBVIOUS
<1> USE DEF local, history
<1>1. ASSUME NEW a \in Actor, Start(a) \/ GiveUp(a) PROVE ~usurped
  BY <1>1 DEF Start, StartRefresh, StartLogout, StartLogin, GiveUp, Wake
<1>2. ASSUME NEW a \in Actor, WaitForLock(a) PROVE ~usurped
  BY <1>2 DEF WaitForLock, CreateLock, RemoveLock, SeeStale, SeeHeld, Wake
<1>3. ASSUME NEW a \in Actor, TakeMutex(a) \/ Release(a) \/ Unlock(a) \/ Load(a) PROVE ~usurped
  BY <1>3 DEF TakeMutex, Release, RemoveLock, Unlock, Load
<1>4. ASSUME NEW a \in Actor, Refresh(a) PROVE ~usurped
  BY <1>4 DEF Refresh, PostRefused, PostFails, PostAccepted, Save, Reload, Delete
<1>5. ASSUME NEW a \in Actor, Logout(a) \/ LogIn(a) PROVE ~usurped
  BY <1>5 DEF Logout, TakeGuard, Suppress, Forget, Revoke, Remove, ReleaseAuthority, RemoveLock,
              Unguard, LogIn, StoreLogin, ClearReference, ClearSuppression
<1> QED
  BY <1>1, <1>2, <1>3, <1>4, <1>5 DEF Next, Step, Crash, Age, Terminated, vars

\* A call that sends, stores or has sent no token leaves the tokens as they are.
LEMMA QuietTokens ==
  ASSUME TInv, Tokens, NEW a \in Actor,
         \A b \in Actor \ {a} : pc'[b] = pc[b] /\ mine'[b] = mine[b] /\ got'[b] = got[b],
         UNCHANGED <<file, server, lost, loggedOut>>,
         pc[a] # "save", pc'[a] \notin {"post", "save", "store"},
         mine'[a] \in {mine[a], None, file}, got'[a] \in {got[a], None}
  PROVE  Tokens'
<1>1. Unshared'
  BY DEF Tokens, Unshared, TInv, Real, None
<1>2. Stored'
  BY DEF Tokens, Stored
<1>3. Current'
  BY DEF Tokens, Current
<1>4. Gone'
  BY DEF Tokens, Gone
<1> QED BY <1>1, <1>2, <1>3, <1>4 DEF Tokens

\* As long as no lock file is removed under its holder, every step keeps what
\* is said of the tokens: the calls inside auth.json.lock act one by one.
LEMMA StepTokens ==
  ASSUME LInv, Issued, ~usurped => Tokens, [Next]_vars, ~usurped'
  PROVE  Tokens'
<1>0. /\ TInv /\ LInv /\ Issued /\ Tokens /\ ~usurped
      /\ DOMAIN pc = Actor /\ DOMAIN mine = Actor /\ DOMAIN got = Actor
  BY Monotone DEF LInv, TInv, TypeOK
<1>00. \A a, b \in Actor : pc[a] \in Inside("auth") /\ pc[b] \in Inside("auth") => a = b
  BY <1>0, OneInside DEF Holds, Locks
<1> USE <1>0 DEF Goto, disk, locks, endpoint, tokens, local, history
<1>1. ASSUME NEW a \in Actor, Load(a), pc'[a] = "post" PROVE Tokens'
  <2>1. /\ pc[a] = "load" /\ pc' = [pc EXCEPT ![a] = "post"]
        /\ mine' = [mine EXCEPT ![a] = file] /\ file # None
        /\ UNCHANGED <<file, server, got, lost, loggedOut>>
    BY <1>1 DEF Load
  <2>2. file.login # 0
    BY <2>1 DEF TInv, Real
  <2>3. \A b \in Actor : pc[b] # "save"
    BY <1>00, <2>1 DEF Inside
  <2>4. Unshared'
    BY <2>1 DEF Tokens, Unshared
  <2>5. Stored'
    BY <2>1, <2>3 DEF Tokens, Stored
  <2>6. Current'
    BY <2>1, <2>2, <2>3 DEF Tokens, Stored, Current
  <2>7. Gone'
    BY <2>1 DEF Tokens, Gone
  <2> QED BY <2>4, <2>5, <2>6, <2>7 DEF Tokens
<1>2. ASSUME NEW a \in Actor, NEW rotates \in BOOLEAN, NEW arrives \in BOOLEAN,
             PostAccepted(a, rotates, arrives)
      PROVE Tokens'
  <2> DEFINE t == Renewed(mine[a], rotates)
  <2>1. /\ pc[a] = "post" /\ pc' = [pc EXCEPT ![a] = IF arrives THEN "save" ELSE "release"]
        /\ server' = [server EXCEPT ![t.login] = [refresh |-> t.refresh, access |-> t.access]]
        /\ got' = [got EXCEPT ![a] = t]
        /\ lost' = IF arrives \/ ~rotates THEN lost ELSE lost \cup {t.login}
        /\ UNCHANGED <<file, mine, loggedOut>>
    BY <1>2 DEF PostAccepted
  <2>2. /\ t.login = mine[a].login /\ t.login \in Login /\ t.login # 0
        /\ ~rotates => t.refresh = server[t.login].refresh
    BY <1>2, <2>1 DEF PostAccepted, Renewed, Accepted, TInv, TypeOK, Real, Token
  <2>3. \A b \in Actor \ {a} : pc[b] \notin {"post", "save"} /\ pc'[b] = pc[b]
    BY <1>00, <2>1 DEF Inside
  <2> HIDE DEF t
  <2>4. /\ server'[t.login].refresh = t.refresh
        /\ \A f \in Login \ {t.login} : server'[f] = server[f]
    BY <2>1, <2>2 DEF TInv, TypeOK
  <2>5. file.login \in Login /\ \A b \in Actor : got[b].login \in Login
    BY DEF TInv, TypeOK, Token
  <2>6. Unshared'
    <3> SUFFICES ASSUME NEW b \in Actor, pc'[b] = "store"
                 PROVE /\ got'[b].refresh = server'[got'[b].login].refresh
                       /\ file.login # got'[b].login
                       /\ \A c \in Actor : /\ mine[c].login # got'[b].login
                                           /\ c # b => got'[c].login # got'[b].login
                       /\ \A d \in loggedOut : d[2] # got'[b].login
      BY <2>1 DEF Unshared
    <3>1. b # a /\ pc[b] = "store" /\ got'[b] = got[b]
      BY <2>1
    <3>2. got[b].login # t.login
      BY <2>2, <3>1 DEF Tokens, Unshared
    <3>3. server'[got[b].login] = server[got[b].login]
      BY <2>4, <2>5, <3>2
    <3>4. \A c \in Actor : got'[c].login \in {got[c].login, t.login}
      BY <2>1
    <3> QED BY <3>1, <3>2, <3>3, <3>4 DEF Tokens, Unshared
  <2>7. Stored'
    <3> SUFFICES ASSUME file.login # 0, file.login \notin lost'
                 PROVE \/ file.refresh = server'[file.login].refresh
                       \/ \E b \in Actor : pc'[b] = "save" /\ got'[b].login = file.login
      BY <2>1 DEF Stored
    <3>1. file.login \notin lost /\ \A b \in Actor : pc[b] # "save"
      BY <2>1, <2>3
    <3>2. file.refresh = server[file.login].refresh
      BY <3>1 DEF Tokens, Stored
    <3>3. CASE file.login # t.login
      BY <2>4, <2>5, <3>2, <3>3
    <3>4. CASE file.login = t.login /\ arrives
      BY <2>1, <3>4
    <3>5. CASE file.login = t.login /\ ~arrives
      BY <2>1, <2>2, <2>4, <3>2, <3>5
    <3> QED BY <3>3, <3>4, <3>5
  <2>8. Current'
    <3>1. /\ file.login = mine[a].login => file.refresh = mine[a].refresh
          /\ got'[a].login = mine[a].login /\ got'[a].refresh = server'[got'[a].login].refresh
          /\ pc'[a] # "post"
      BY <2>1, <2>2, <2>4 DEF Tokens, Current
    <3> QED BY <2>1, <2>3, <3>1 DEF Current
  <2>9. Gone'
    BY <2>1, <2>3 DEF Tokens, Gone
  <2> QED BY <2>6, <2>7, <2>8, <2>9 DEF Tokens
<1>3. ASSUME NEW a \in Actor, Save(a) PROVE Tokens'
  <2>1. /\ pc[a] = "save" /\ pc' = [pc EXCEPT ![a] = "release"]
        /\ UNCHANGED <<server, mine, got, loggedOut>>
        /\ \/ file' = got[a] /\ lost' = lost
           \/ file' = file /\ lost' = lost \cup Voided({a})
    BY <1>3 DEF Save
  <2>2. \A b \in Actor : pc'[b] \notin {"post", "save"}
    BY <1>00, <2>1 DEF Inside
  <2>3. got[a].login = mine[a].login /\ got[a].refresh = server[got[a].login].refresh
    BY <2>1 DEF Tokens, Current
  <2>4. Unshared'
    BY <2>1 DEF Tokens, Unshared
  <2>5. Stored'
    <3>1. CASE file' = got[a]
      BY <2>1, <2>3, <3>1 DEF Stored
    <3>2. CASE file' = file /\ lost' = lost \cup Voided({a})
      <4> SUFFICES ASSUME file.login # 0, file.login \notin lost'
                   PROVE file.refresh = server[file.login].refresh
        BY <2>1, <3>2 DEF Stored
      <4>1. CASE file.login = got[a].login
        <5>1. file.refresh = mine[a].refresh
          BY <2>1, <2>3, <4>1 DEF Tokens, Current
        <5>2. SameRefresh(got[a], mine[a])
          BY <2>1, <3>2, <4>1 DEF Voided
        <5> QED BY <2>3, <4>1, <5>1, <5>2 DEF SameRefresh
      <4>2. CASE file.login # got[a].login
        <5>1. \A b \in Actor : pc[b] = "save" => b = a
          BY <1>00, <2>1 DEF Inside
        <5> QED BY <3>2, <4>2, <5>1 DEF Tokens, Stored
      <4> QED BY <4>1, <4>2
    <3> QED BY <2>1, <3>1, <3>2
  <2>6. Current'
    BY <2>2 DEF Current
  <2>7. Gone'
    BY <2>1, <2>2, <2>3 DEF Tokens, Gone
  <2> QED BY <2>4, <2>5, <2>6, <2>7 DEF Tokens
<1>4. ASSUME NEW a \in Actor, Delete(a) \/ Remove(a) PROVE Tokens'
  <2>1. /\ pc[a] \in {"delete", "remove"} /\ pc' = [pc EXCEPT ![a] = "release"]
        /\ UNCHANGED <<server, mine, got, lost>>
        /\ \/ file' = None /\ loggedOut' \in {loggedOut, loggedOut \cup {<<a, file.login>>}}
           \/ UNCHANGED <<file, loggedOut>>
    BY <1>4 DEF Delete, Remove
  <2>2. \A b \in Actor : pc'[b] \notin {"post", "save"} /\ pc[b] # "save"
    BY <1>00, <2>1 DEF Inside
  <2>3. \A b \in Actor : pc[b] = "store" => got[b].login # 0
    BY DEF TInv, Real
  <2>4. Unshared'
    BY <2>1, <2>3 DEF Tokens, Unshared, None
  <2>5. Stored'
    BY <2>1, <2>2 DEF Tokens, Stored, None
  <2>6. Current'
    BY <2>2 DEF Current
  <2>7. Gone'
    BY <2>1, <2>2 DEF Tokens, Gone, None
  <2> QED BY <2>4, <2>5, <2>6, <2>7 DEF Tokens
<1>5. ASSUME NEW a \in Actor, StoreLogin(a), file' = got[a] PROVE Tokens'
  <2>1. /\ pc[a] = "store" /\ \A b \in Actor \ {a} : pc'[b] = pc[b]
        /\ pc'[a] \in {"clear", "done"}
        /\ UNCHANGED <<server, mine, got, lost, loggedOut>>
    BY <1>5 DEF StoreLogin
  <2>2. /\ got[a].refresh = server[got[a].login].refresh
        /\ \A b \in Actor : mine[b].login # got[a].login /\ (b # a => got[b].login # got[a].login)
        /\ \A d \in loggedOut : d[2] # got[a].login
    BY <2>1 DEF Tokens, Unshared
  <2>3. Unshared'
    BY <1>5, <2>1, <2>2 DEF Tokens, Unshared
  <2>4. Stored'
    BY <1>5, <2>1, <2>2 DEF Stored
  <2>5. Current'
    BY <1>5, <2>1, <2>2 DEF Tokens, Current
  <2>6. Gone'
    BY <1>5, <2>1, <2>2 DEF Tokens, Gone
  <2> QED BY <2>3, <2>4, <2>5, <2>6 DEF Tokens
<1>6. ASSUME NEW a \in Actor, StartLogin(a), pc'[a] = "store" PROVE Tokens'
  <2>1. PICK f \in Login \ {0} :
          /\ server[f].access = 0
          /\ server' = [server EXCEPT ![f].access = 1]
          /\ got' = [got EXCEPT ![a] = First(f)]
    BY <1>6 DEF StartLogin
  <2>2. /\ pc[a] = "idle" /\ pc' = [pc EXCEPT ![a] = "store"]
        /\ UNCHANGED <<file, mine, lost, loggedOut>>
    BY <1>6 DEF StartLogin
  <2>3. /\ \A g \in Login : server'[g].refresh = server[g].refresh
        /\ server[f].refresh = 0
    BY <2>1 DEF TInv, TypeOK, Issued
  <2>4. /\ got'[a].login = f /\ got'[a].refresh = 0
        /\ \A b \in Actor \ {a} : got'[b] = got[b] /\ pc'[b] = pc[b]
    BY <2>1, <2>2 DEF First
  <2>5. /\ file.login # f /\ \A d \in loggedOut : d[2] # f
        /\ \A b \in Actor : mine[b].login # f /\ got[b].login # f
    BY <2>1 DEF Issued
  <2>6. file.login \in Login /\ \A b \in Actor : got[b].login \in Login /\ mine[b].login \in Login
    BY DEF TInv, TypeOK, Token
  <2>7. Unshared'
    BY <2>2, <2>3, <2>4, <2>5, <2>6 DEF Tokens, Unshared
  <2>8. Stored'
    BY <2>2, <2>3, <2>4, <2>6 DEF Tokens, Stored
  <2>9. Current'
    BY <2>2, <2>3, <2>4, <2>6 DEF Tokens, Current
  <2>10. Gone'
    BY <2>2, <2>4 DEF Tokens, Gone
  <2> QED BY <2>7, <2>8, <2>9, <2>10 DEF Tokens
<1>7. ASSUME NEW p \in Process, Crash(p) PROVE Tokens'
  <2> DEFINE A == {a \in Actor : ProcessOf[a] = p /\ pc[a] \notin {"idle"} \cup Ended}
  <2>1. /\ \A a \in A : pc'[a] = "dead" /\ mine'[a] = None /\ got'[a] = None
        /\ \A a \in Actor \ A : pc'[a] = pc[a] /\ mine'[a] = mine[a] /\ got'[a] = got[a]
        /\ lost' = lost \cup Voided(A)
        /\ UNCHANGED <<file, server, loggedOut>>
    BY <1>7 DEF Crash
  <2>2. A \subseteq Actor
    OBVIOUS
  <2> HIDE DEF A
  <2>3. \A a \in Actor : pc[a] = "store" => got[a].login # 0
    BY DEF TInv, Real
  <2>4. Unshared'
    BY <2>1, <2>2, <2>3 DEF Tokens, Unshared, None
  <2>5. Stored'
    <3> SUFFICES ASSUME file.login # 0, file.login \notin lost'
                 PROVE \/ file.refresh = server[file.login].refresh
                       \/ \E a \in Actor : pc'[a] = "save" /\ got'[a].login = file.login
      BY <2>1 DEF Stored
    <3>1. CASE file.refresh = server[file.login].refresh
      BY <3>1
    <3>2. ASSUME NEW a \in Actor, pc[a] = "save", got[a].login = file.login
          PROVE \/ file.refresh = server[file.login].refresh
                \/ pc'[a] = "save" /\ got'[a].login = file.login
      <4>1. CASE a \notin A
        BY <2>1, <3>2, <4>1
      <4>2. CASE a \in A
        <5>1. SameRefresh(got[a], mine[a])
          BY <2>1, <3>2, <4>2 DEF Voided
        <5> QED BY <3>2, <5>1 DEF Tokens, Current, SameRefresh
      <4> QED BY <4>1, <4>2
    <3> QED BY <2>1, <3>1, <3>2 DEF Tokens, Stored
  <2>6. Current'
    BY <2>1, <2>2 DEF Tokens, Current
  <2>7. Gone'
    BY <2>1, <2>2 DEF Tokens, Gone
  <2> QED BY <2>4, <2>5, <2>6, <2>7 DEF Tokens
<1>8. ASSUME NEW a \in Actor, Start(a) PROVE Tokens'
  <2>1. CASE StartRefresh(a) \/ StartLogout(a)
    BY <2>1, QuietTokens DEF StartRefresh, StartLogout
  <2>2. CASE StartLogin(a) /\ pc'[a] # "store"
    <3>1. pc[a] = "idle" /\ pc' = [pc EXCEPT ![a] = "done"]
          /\ UNCHANGED <<file, server, mine, got, lost, loggedOut>>
      BY <2>2 DEF StartLogin
    <3> QED BY <3>1, QuietTokens
  <2> QED BY <1>6, <1>8, <2>1, <2>2 DEF Start
<1>9. ASSUME NEW a \in Actor, WaitForLock(a) \/ GiveUp(a) \/ TakeMutex(a) \/ Unlock(a)
      PROVE Tokens'
  <2>1. /\ pc[a] # "save" /\ pc'[a] \notin {"post", "save", "store"}
        /\ \A b \in Actor \ {a} : pc'[b] = pc[b]
        /\ UNCHANGED <<file, server, mine, got, lost, loggedOut>>
    BY <1>9 DEF WaitForLock, CreateLock, RemoveLock, SeeStale, SeeHeld, Wake, GiveUp, TakeMutex,
                Unlock
  <2> QED BY <2>1, QuietTokens
<1>10. ASSUME NEW a \in Actor, Release(a) \/ ClearSuppression(a) PROVE Tokens'
  <2>1. /\ pc[a] # "save" /\ pc'[a] \notin {"post", "save", "store"}
        /\ \A b \in Actor \ {a} : pc'[b] = pc[b] /\ mine'[b] = mine[b] /\ got'[b] = got[b]
        /\ mine'[a] = None /\ got'[a] = None
        /\ UNCHANGED <<file, server, lost, loggedOut>>
    BY <1>10 DEF Release, RemoveLock, Drop, ClearSuppression
  <2> QED BY <2>1, QuietTokens
<1>11. ASSUME NEW a \in Actor, Load(a), pc'[a] # "post" PROVE Tokens'
  <2>1. /\ pc[a] # "save" /\ pc'[a] \notin {"post", "save", "store"}
        /\ \A b \in Actor \ {a} : pc'[b] = pc[b] /\ mine'[b] = mine[b]
        /\ mine'[a] = file
        /\ UNCHANGED <<file, server, got, lost, loggedOut>>
    BY <1>11 DEF Load
  <2> QED BY <2>1, QuietTokens
<1>12. ASSUME NEW a \in Actor, PostRefused(a) \/ PostFails(a) \/ Reload(a) PROVE Tokens'
  <2>1. /\ pc[a] # "save" /\ pc'[a] \notin {"post", "save", "store"}
        /\ \A b \in Actor \ {a} : pc'[b] = pc[b]
        /\ UNCHANGED <<file, server, mine, got, lost, loggedOut>>
    BY <1>12 DEF PostRefused, PostFails, Reload
  <2> QED BY <2>1, QuietTokens
<1>13. ASSUME NEW a \in Actor, Logout(a), ~Remove(a) PROVE Tokens'
  <2>1. /\ pc[a] # "save" /\ pc'[a] \notin {"post", "save", "store"}
        /\ \A b \in Actor \ {a} : pc'[b] = pc[b]
        /\ UNCHANGED <<file, server, mine, got, lost, loggedOut>>
    BY <1>13 DEF Logout, TakeGuard, Suppress, Forget, Revoke, ReleaseAuthority, RemoveLock, Unguard
  <2> QED BY <2>1, QuietTokens
<1>14. ASSUME NEW a \in Actor, ClearReference(a) \/ (StoreLogin(a) /\ file' # got[a])
      PROVE Tokens'
  <2>1. /\ pc[a] # "save" /\ pc'[a] \notin {"post", "save", "store"}
        /\ \A b \in Actor \ {a} : pc'[b] = pc[b]
        /\ UNCHANGED <<file, server, mine, got, lost, loggedOut>>
    BY <1>14 DEF ClearReference, StoreLogin
  <2> QED BY <2>1, QuietTokens
<1>15. CASE UNCHANGED <<file, server, mine, got, pc, lost, loggedOut>>
  BY <1>15 DEF Tokens, Unshared, Stored, Current, Gone
<1>16. ASSUME NEW a \in Actor, Step(a) PROVE Tokens'
  BY <1>1, <1>2, <1>3, <1>4, <1>5, <1>9, <1>10, <1>11, <1>12, <1>13, <1>14, <1>16
  DEF Step, Refresh, LogIn, Logout
<1>17. ASSUME NEW l \in Locks, Age(l) PROVE Tokens'
  BY <1>15, <1>17 DEF Age
<1> QED
  BY <1>7, <1>8, <1>9, <1>15, <1>16, <1>17 DEF Next, Terminated, vars

\* A call that touches neither the files nor a token that could be stored.
LEMMA QuietSuppressed ==
  ASSUME Suppressed, NEW a \in Actor,
         \A b \in Actor \ {a} : pc'[b] = pc[b],
         UNCHANGED <<op, reuse, loggedOut>>, file' \in {file, None},
         pc'[a] \notin {"forget", "post", "save"},
         op[a] = "logout" /\ pc'[a] \in Removing => pc[a] \in Removing
  PROVE  Suppressed'
BY DEF Suppressed, NobodyLogsIn

\* As long as no lock file is removed under its holder, every step keeps what
\* is said of logouts.
LEMMA StepSuppressed ==
  ASSUME LInv, ~usurped => Suppressed, [Next]_vars, ~usurped'
  PROVE  Suppressed'
<1>0. /\ TInv /\ LInv /\ Suppressed /\ ~usurped
      /\ DOMAIN pc = Actor /\ DOMAIN op = Actor
      /\ reuse \in [suppressed : BOOLEAN, reference : BOOLEAN]
  BY Monotone DEF LInv, TInv, TypeOK
<1>00. \A a, b \in Actor : pc[a] \in Inside("auth") /\ pc[b] \in Inside("auth") => a = b
  BY <1>0, OneInside DEF Holds, Locks
<1> USE <1>0 DEF Goto, disk, locks, endpoint, tokens, local, history
<1>1. ASSUME NEW a \in Actor, Start(a) PROVE Suppressed'
  <2>1. /\ pc[a] = "idle" /\ \A b \in Actor \ {a} : pc'[b] = pc[b] /\ op'[b] = op[b]
        /\ \/ pc'[a] = "mutex" /\ op'[a] = "refresh"
           \/ pc'[a] = "guard"
           \/ pc'[a] \in {"store", "done"}
        /\ UNCHANGED <<file, reuse, loggedOut>>
    BY <1>1 DEF Start, StartRefresh, StartLogout, StartLogin
  <2>2. NobodyLogsIn' => NobodyLogsIn
    BY <2>1 DEF NobodyLogsIn, TInv, Roles
  <2> QED BY <2>1, <2>2 DEF Suppressed, Removing
<1>2. ASSUME NEW a \in Actor, WaitForLock(a) \/ GiveUp(a) \/ TakeMutex(a) \/ Unlock(a) \/ Release(a)
      PROVE Suppressed'
  <2>1. /\ pc'[a] \notin {"forget", "post", "save"}
        /\ pc'[a] \in Removing => pc[a] \in Removing
        /\ \A b \in Actor \ {a} : pc'[b] = pc[b]
        /\ UNCHANGED <<file, reuse, op, loggedOut>>
    BY <1>2 DEF WaitForLock, CreateLock, RemoveLock, SeeStale, SeeHeld, Wake, GiveUp, TakeMutex,
                Unlock, Release, Removing
  <2> QED BY <2>1, QuietSuppressed
<1>3. ASSUME NEW a \in Actor, Load(a) PROVE Suppressed'
  <2>1. CASE pc'[a] = "post"
    <3>1. /\ file # None /\ UNCHANGED <<file, reuse, op, loggedOut>>
          /\ pc' = [pc EXCEPT ![a] = "post"]
      BY <1>3, <2>1 DEF Load
    <3> QED BY <3>1 DEF Suppressed, NobodyLogsIn, Removing
  <2>2. CASE pc'[a] # "post"
    <3>1. /\ pc[a] = "load" /\ pc'[a] \in {"release", "revoke", "remove"}
          /\ \A b \in Actor \ {a} : pc'[b] = pc[b]
          /\ UNCHANGED <<file, reuse, op, loggedOut>>
      BY <1>3, <2>2 DEF Load
    <3> QED BY <3>1, QuietSuppressed DEF Removing
  <2> QED BY <2>1, <2>2
<1>4. ASSUME NEW a \in Actor, Refresh(a) PROVE Suppressed'
  <2>1. CASE PostRefused(a) \/ PostFails(a) \/ Reload(a) \/ Delete(a)
    <3>1. /\ pc'[a] \in {"reload", "release", "delete"}
          /\ \A b \in Actor \ {a} : pc'[b] = pc[b]
          /\ file' \in {file, None} /\ UNCHANGED <<reuse, op, loggedOut>>
      BY <2>1 DEF PostRefused, PostFails, Reload, Delete
    <3> QED BY <3>1, QuietSuppressed DEF Removing
  <2>2. CASE Save(a) \/ \E rotates, arrives \in BOOLEAN : PostAccepted(a, rotates, arrives)
    <3>1. /\ pc[a] \in {"post", "save"} /\ pc'[a] \in {"save", "release"}
          /\ \A b \in Actor \ {a} : pc'[b] = pc[b]
          /\ UNCHANGED <<reuse, op, loggedOut>>
      BY <2>2 DEF Save, PostAccepted
    <3>2. NobodyLogsIn => loggedOut = {}
      BY <3>1 DEF Suppressed
    <3> QED BY <3>1, <3>2 DEF Suppressed, NobodyLogsIn, Removing
  <2> QED BY <1>4, <2>1, <2>2 DEF Refresh
<1>5. ASSUME NEW a \in Actor, Suppress(a) PROVE Suppressed'
  <2>1. /\ pc'[a] \in {"forget", "releaseAuthority"} /\ \A b \in Actor \ {a} : pc'[b] = pc[b]
        /\ UNCHANGED <<file, op, loggedOut>>
        /\ reuse'.reference = reuse.reference /\ (reuse.suppressed => reuse'.suppressed)
        /\ pc'[a] = "forget" => reuse'.suppressed
    BY <1>5 DEF Suppress
  <2> QED BY <2>1 DEF Suppressed, NobodyLogsIn, Removing
<1>6. ASSUME NEW a \in Actor, Forget(a) PROVE Suppressed'
  <2>1. /\ pc[a] = "forget" /\ pc'[a] \in {"mutex", "releaseAuthority"}
        /\ \A b \in Actor \ {a} : pc'[b] = pc[b]
        /\ UNCHANGED <<file, op, loggedOut>>
        /\ reuse'.suppressed = reuse.suppressed /\ (reuse'.reference => reuse.reference)
        /\ pc'[a] = "mutex" => ~reuse'.reference
    BY <1>6 DEF Forget
  <2> QED BY <2>1 DEF Suppressed, NobodyLogsIn, Removing
<1>7. ASSUME NEW a \in Actor, Remove(a) PROVE Suppressed'
  <2>1. /\ pc[a] = "remove" /\ pc' = [pc EXCEPT ![a] = "release"]
        /\ UNCHANGED <<reuse, op>>
        /\ file' = None \/ UNCHANGED <<file, loggedOut>>
    BY <1>7 DEF Remove
  <2>2. \A b \in Actor : pc'[b] \notin {"post", "save"}
    BY <1>00, <2>1 DEF Inside
  <2>3. NobodyLogsIn => reuse.suppressed /\ ~reuse.reference
    BY <2>1 DEF TInv, Roles, Suppressed, Removing
  <2> QED BY <2>1, <2>2, <2>3 DEF Suppressed, NobodyLogsIn, Removing
<1>8. ASSUME NEW a \in Actor, TakeGuard(a) \/ Revoke(a) \/ ReleaseAuthority(a) \/ Unguard(a)
      PROVE Suppressed'
  <2>1. /\ pc'[a] \notin {"forget", "post", "save"}
        /\ pc'[a] \in Removing => pc[a] \in Removing
        /\ \A b \in Actor \ {a} : pc'[b] = pc[b]
        /\ UNCHANGED <<file, reuse, op, loggedOut>>
    BY <1>8 DEF TakeGuard, Revoke, ReleaseAuthority, RemoveLock, Unguard, Removing
  <2> QED BY <2>1, QuietSuppressed
<1>9. ASSUME NEW a \in Actor, LogIn(a) PROVE Suppressed'
  <2>1. pc[a] \in {"store", "clear", "clearSuppression"} /\ UNCHANGED op
    BY <1>9 DEF LogIn, StoreLogin, ClearReference, ClearSuppression
  <2>2. op'[a] = "login"
    BY <2>1 DEF TInv, Roles
  <2> QED BY <2>2 DEF Suppressed, NobodyLogsIn
<1>10. ASSUME NEW p \in Process, Crash(p) PROVE Suppressed'
  <2>1. /\ \A a \in Actor : pc'[a] \in {pc[a], "dead"}
        /\ UNCHANGED <<file, reuse, op, loggedOut>>
    BY <1>10 DEF Crash
  <2> QED BY <2>1 DEF Suppressed, NobodyLogsIn, Removing
<1>11. CASE UNCHANGED <<file, reuse, op, pc, loggedOut>>
  BY <1>11 DEF Suppressed, NobodyLogsIn
<1>12. ASSUME NEW l \in Locks, Age(l) PROVE Suppressed'
  BY <1>11, <1>12 DEF Age
<1> QED
  BY <1>1, <1>2, <1>3, <1>4, <1>5, <1>6, <1>7, <1>8, <1>9, <1>10, <1>11, <1>12
  DEF Next, Step, Logout, Terminated, vars

LEMMA StepIInv == IInv /\ [Next]_vars => IInv'
<1> SUFFICES ASSUME IInv, [Next]_vars PROVE IInv'
  OBVIOUS
<1>1. LInv'
  BY StepL DEF IInv
<1>2. Issued'
  BY StepI DEF IInv, LInv
<1>3. ~usurped' => Tokens' /\ Suppressed'
  BY StepTokens, StepSuppressed DEF IInv
<1> QED BY <1>1, <1>2, <1>3 DEF IInv

\* A refresh token that the endpoint has replaced is never sent again, unless
\* an answer was lost or a lock file removed under its holder.
THEOREM NoTokenIsReplayed == Spec => []TokenNotReplayed
<1>1. IInv => TokenNotReplayed
  BY DEF IInv, Tokens, Current, TokenNotReplayed
<1> QED BY InitI, StepIInv, <1>1, PTL DEF Spec

\* No refresh that was under way brings back a login that a logout deleted.
THEOREM LogoutsAreFinal == Spec => []LogoutIsFinal
<1>1. IInv => LogoutIsFinal
  BY DEF IInv, Tokens, Gone, LogoutIsFinal
<1> QED BY InitI, StepIInv, <1>1, PTL DEF Spec

\* After a logout the reuse of the local login is off, its reference gone and
\* no login stored, until somebody logs in.
THEOREM LogoutsDisableReuse == Spec => []LogoutDisablesReuse
<1>1. IInv => LogoutDisablesReuse
  BY DEF IInv, Suppressed, NobodyLogsIn, LogoutDisablesReuse
<1> QED BY InitI, StepIInv, <1>1, PTL DEF Spec
=============================================================================
