------------------------- MODULE NativeBorrowProofs -------------------------
(***************************************************************************)
(* For any processes, users and tokens: requests that borrow the login of  *)
(* the Codex CLI use one subscription at a time, none after a logout, and  *)
(* no token that was found to be of no use.                                *)
(***************************************************************************)
EXTENDS NativeBorrow, TLAPS, FiniteSetTheorems

Somebody == User \union {Nobody}
Files == [user : Somebody, token : Nat]
Entries == [kind : {"none", "file", "error"}, file : Files]
Pcs == {"idle", "lock", "remove", "again", "read", "renew", "revoke"}
Calls == [pc : Pcs, kind : Kind, rejected : Nat, ref : Somebody, file : Files]

TypeOK ==
  /\ native \in Files /\ reference \in Somebody
  /\ suppressed \in BOOLEAN /\ direct \in BOOLEAN
  /\ login \in {"never", "reference", "suppression", "done"}
  /\ lock \in Process \union {Nobody}
  /\ cache \in [Process -> Entries] /\ pinned \in [Process -> Somebody]
  /\ req \in [Process -> Calls] /\ calls \in Nat
  /\ accounts \subseteq User /\ out \in BOOLEAN
  /\ spoiled \in [Process -> SUBSET Nat]
  /\ answer \in [out : BOOLEAN, spoiled : BOOLEAN] /\ robbed \in BOOLEAN

\* Whoever asks Codex has the lock, until one is removed that was just taken.
LockHeld == robbed \/ \A c \in Process : req[c].pc \in Asking => lock = c

\* After a logout reuse is forbidden, and who asks Codex was not forbidden to.
Obeyed ==
  /\ out => suppressed
  /\ robbed \/ \A c \in Process : req[c].pc \in Asking => (suppressed => explicit(c))

\* What a process remembers was not found to be of no use.
Usable(p) == cache[p].file.user \in User /\ cache[p].file.token \notin spoiled[p]
Remembering == \A p \in Process : cache[p].kind = "file" => Usable(p)

\* From one choice of the user to the next the account is the one of the
\* reference, and who asks Codex has seen that.  While a login is under way the
\* reference may be gone although somebody borrows.
Settled == login \in {"never", "done"}
Agreed ==
  ~robbed /\ Settled =>
    /\ accounts \subseteq {reference}
    /\ \A c \in Process : req[c].pc \in Asking /\ accounts # {} => req[c].ref = reference

Safe == LockHeld /\ Obeyed /\ Remembering /\ Agreed /\ NothingAfterLogout /\ RejectedIsForgotten

IInv == TypeOK /\ Safe

-----------------------------------------------------------------------------
(* Types: the parts of a call, and calls with parts replaced               *)

LEMMA CallParts ==
  ASSUME NEW x \in Calls
  PROVE  /\ x.pc \in Pcs /\ x.kind \in Kind /\ x.rejected \in Nat /\ x.ref \in Somebody
         /\ x.file \in Files /\ x.file.user \in Somebody /\ x.file.token \in Nat
BY DEF Calls, Files

LEMMA Empty ==
  /\ Idle \in Calls /\ Idle.pc = "idle" /\ NoFile \in Files
  /\ Failure \in Entries /\ Failure.kind = "error"
  /\ Nothing \in Entries /\ Nothing.kind = "none"
BY DEF Idle, NoFile, Nothing, Failure, Calls, Files, Entries, Kind, Pcs, Somebody

LEMMA Resting ==
  ASSUME NEW f \in Files, NEW pc \in {"idle", "again"}
  PROVE  /\ [Idle EXCEPT !.file = f, !.pc = pc] \in Calls
         /\ [Idle EXCEPT !.file = f, !.pc = pc].pc = pc
         /\ [Idle EXCEPT !.file = f] \in Calls
         /\ [Idle EXCEPT !.file = f].pc = "idle"
BY DEF Idle, NoFile, Nothing, Calls, Files, Kind, Pcs, Somebody

LEMMA Replaced ==
  ASSUME req \in [Process -> Calls], NEW c \in Process, NEW x \in Calls, req' = [req EXCEPT ![c] = x]
  PROVE  /\ req' \in [Process -> Calls] /\ req'[c] = x
         /\ \A d \in Process : d # c => req'[d] = req[d]
OBVIOUS

LEMMA BeginType ==
  ASSUME req \in [Process -> Calls], NEW c \in Process, NEW pc \in Pcs, NEW kind \in Kind, NEW n \in Nat
  PROVE  [req EXCEPT ![c].pc = pc, ![c].kind = kind, ![c].rejected = n] \in [Process -> Calls]
BY DEF Calls

LEMMA PcType ==
  ASSUME req \in [Process -> Calls], NEW c \in Process, NEW pc \in Pcs
  PROVE  [req EXCEPT ![c].pc = pc] \in [Process -> Calls]
BY DEF Calls

LEMMA LookType ==
  ASSUME req \in [Process -> Calls], NEW c \in Process, NEW pc \in Pcs, NEW ref \in Somebody
  PROVE  [req EXCEPT ![c].pc = pc, ![c].ref = ref] \in [Process -> Calls]
BY DEF Calls

LEMMA RenewType ==
  ASSUME req \in [Process -> Calls], NEW c \in Process, NEW pc \in Pcs, NEW ref \in Somebody, NEW file \in Files
  PROVE  [req EXCEPT ![c].pc = pc, ![c].ref = ref, ![c].file = file] \in [Process -> Calls]
BY DEF Calls

-----------------------------------------------------------------------------
(* The kinds of step that a call takes                                     *)

\* A call waits, or ends without a token: what is promised is not concerned.
Waits(c) ==
  /\ req' \in [Process -> Calls] /\ req'[c].pc \notin Asking
  /\ \A d \in Process : d # c => req'[d] = req[d]
  /\ lock' = lock \/ (lock' = Nobody /\ (robbed \/ lock = c))
  /\ cache' \in {cache, [cache EXCEPT ![c] = Failure]}
  /\ native' \in Files /\ calls' \in Nat
  /\ UNCHANGED <<files, pinned, history>>

LEMMA WaitingTypes == ASSUME Sensible, TypeOK, NEW c \in Process, Waits(c) PROVE TypeOK'
<1>1. Failure \in Entries /\ \A f \in [Process -> Entries] : [f EXCEPT ![c] = Failure] \in [Process -> Entries]
  BY Empty
<1>2. lock' \in Process \union {Nobody} /\ cache' \in [Process -> Entries]
  BY <1>1 DEF TypeOK, Waits
<1> QED
  BY <1>2 DEF TypeOK, Waits, files, history

LEMMA Waiting == ASSUME Sensible, IInv, NEW c \in Process, Waits(c) PROVE IInv'
<1> USE DEF IInv, Safe, TypeOK
<1>1. TypeOK'
  BY WaitingTypes
<1>2. LockHeld'
  BY DEF Sensible, Waits, LockHeld, history
<1>3. Obeyed'
  BY DEF Waits, Obeyed, explicit, files, history
<1>4. Remembering'
  BY Empty DEF Waits, Remembering, Usable, history
<1>5. Agreed'
  BY DEF Waits, Agreed, Settled, files, history
<1> QED
  BY <1>1, <1>2, <1>3, <1>4, <1>5 DEF Waits, history, NothingAfterLogout, RejectedIsForgotten

LEMMA Leaving ==
  ASSUME TypeOK, LockHeld, NEW c \in Process, Leaves(c), req[c].pc \in Asking \union {"lock"}
  PROVE  /\ req' \in [Process -> Calls] /\ req'[c].pc = "idle"
         /\ \A d \in Process : d # c => req'[d] = req[d]
         /\ lock' = lock \/ (lock' = Nobody /\ (robbed \/ lock = c))
<1>1. req[c].file \in Files
  BY CallParts DEF TypeOK
<1>2. lock' = lock \/ (lock' = Nobody /\ (robbed \/ lock = c))
  BY DEF Leaves, LockLeft, LockHeld
<1> QED
  BY <1>1, <1>2, Resting, Replaced DEF Leaves, TypeOK

LEMMA WaitSteps ==
  ASSUME Sensible, TypeOK, LockHeld, NEW c \in Process,
         \/ \E kind \in Kind : Begin(c, kind)
         \/ BeginAgain(c) \/ Cancel(c) \/ Refused(c) \/ FindStale(c) \/ ReadFails(c)
         \/ CacheFailure(c) /\ req[c].pc \in Asking \union {"lock"}
  PROVE  Waits(c)
<1> USE DEF TypeOK
<1>0. req[c] \in Calls /\ req[c].file.token \in Nat
  BY CallParts
<1>1. ASSUME NEW kind \in Kind, Begin(c, kind) PROVE Waits(c)
  <2>1. PICK n \in Nat : req' = [req EXCEPT ![c].pc = "lock", ![c].kind = kind, ![c].rejected = n]
    BY <1>0, <1>1 DEF Begin
  <2>2. req' \in [Process -> Calls]
    BY <2>1, BeginType DEF Pcs
  <2>3. req'[c].pc = "lock" /\ \A d \in Process : d # c => req'[d] = req[d]
    BY <1>0, <2>1 DEF Calls
  <2>4. /\ native' = native /\ lock' = lock /\ cache' = cache /\ calls' = calls + 1
        /\ UNCHANGED <<files, pinned, history>>
    BY <1>1 DEF Begin, codex
  <2> QED BY <2>2, <2>3, <2>4 DEF Waits, Asking
<1>2. ASSUME BeginAgain(c) PROVE Waits(c)
  <2>1. PICK pc \in {"idle", "lock"}, n \in Nat :
          req' = [req EXCEPT ![c].pc = pc, ![c].kind = "refresh", ![c].rejected = n]
    BY <1>0, <1>2 DEF BeginAgain
  <2>2. req' \in [Process -> Calls]
    <3>1. pc \in Pcs /\ "refresh" \in Kind
      BY DEF Pcs, Kind
    <3> QED BY <2>1, <3>1, BeginType
  <2>3. req'[c].pc = pc /\ \A d \in Process : d # c => req'[d] = req[d]
    BY <1>0, <2>1 DEF Calls
  <2> QED BY <1>2, <2>2, <2>3 DEF BeginAgain, Waits, codex, Asking
<1>3. ASSUME \/ Cancel(c) \/ Refused(c) \/ ReadFails(c)
             \/ CacheFailure(c) /\ req[c].pc \in Asking \union {"lock"}
      PROVE  Waits(c)
  <2>1. /\ Leaves(c) /\ cache' \in {cache, [cache EXCEPT ![c] = Failure]}
        /\ UNCHANGED <<calls, codex, files, pinned, history>>
        /\ req[c].pc \in Asking \union {"lock"}
    BY <1>3 DEF Cancel, Refused, ReadFails, CacheFailure, Remember, Asking
  <2> QED BY <2>1, Leaving DEF Waits, codex, Asking
<1>4. ASSUME FindStale(c) PROVE Waits(c)
  <2>1. req' = [req EXCEPT ![c].pc = "remove"]
    BY <1>4 DEF FindStale, Goes
  <2>2. req' \in [Process -> Calls]
    BY <2>1, PcType DEF Pcs
  <2>3. req'[c].pc = "remove" /\ \A d \in Process : d # c => req'[d] = req[d]
    BY <1>0, <2>1 DEF Calls
  <2> QED BY <1>4, <2>2, <2>3 DEF FindStale, Waits, codex, Asking
<1> QED BY <1>1, <1>2, <1>3, <1>4

\* Only one call asks Codex.
Alone(c) == robbed \/ \A d \in Process : d # c => req[d].pc \notin Asking

LEMMA OneAtATime ==
  ASSUME Sensible, IInv, NEW c \in Process, robbed \/ lock \in {Nobody, c}
  PROVE  Alone(c)
BY DEF Sensible, IInv, Safe, LockHeld, Alone

\* A call that gives a token out, remembers it or has remembered it.
LEMMA GivesTypes ==
  ASSUME Sensible, TypeOK, NEW c \in Process, NEW file \in Files, file.user \in User,
         GiveOut(c, file), native' \in Files,
         cache' \in [Process -> Entries], spoiled' \in [Process -> SUBSET Nat]
  PROVE  /\ TypeOK' /\ req'[c].pc \in {"idle", "again"}
         /\ \A d \in Process : d # c => req'[d] = req[d]
<1> USE DEF TypeOK
<1>1. PICK pc \in {"idle", "again"} : req' = [req EXCEPT ![c] = [Idle EXCEPT !.file = file, !.pc = pc]]
  BY DEF GiveOut
<1>2. req' \in [Process -> Calls] /\ req'[c].pc = pc /\ \A d \in Process : d # c => req'[d] = req[d]
  <2> DEFINE rest == [Idle EXCEPT !.file = file, !.pc = pc]
  <2>1. rest \in Calls /\ rest.pc = pc
    BY Resting
  <2>2. req' = [req EXCEPT ![c] = rest]
    BY <1>1
  <2> HIDE DEF rest
  <2> QED BY <2>1, <2>2, Replaced
<1>3. /\ reference' \in Somebody /\ suppressed' \in BOOLEAN
      /\ accounts' \subseteq User /\ out' \in BOOLEAN
  <2>1. CASE persist(c)
    BY <2>1 DEF GiveOut, Somebody
  <2>2. CASE ~persist(c)
    BY <2>2 DEF GiveOut
  <2> QED BY <2>1, <2>2
<1>4. pinned' \in [Process -> Somebody]
  BY DEF GiveOut, Somebody
<1>5. answer' \in [out : BOOLEAN, spoiled : BOOLEAN]
  BY <1>3 DEF GiveOut
<1>6. /\ lock' = Nobody /\ UNCHANGED <<calls, direct, login, robbed>>
  BY DEF GiveOut
<1>7. TypeOK'
  BY <1>2, <1>3, <1>4, <1>5, <1>6
<1> QED BY <1>2, <1>7

LEMMA Gives ==
  ASSUME Sensible, IInv, NEW c \in Process, NEW file \in Files, file.user \in User,
         GiveOut(c, file), native' \in Files, robbed \/ lock \in {Nobody, c},
         cache' \in [Process -> Entries], spoiled' \in [Process -> SUBSET Nat],
         \A p \in Process : p # c => cache'[p] = cache[p] /\ spoiled'[p] = spoiled[p],
         cache'[c].file = file, file.token \notin spoiled'[c],
         robbed \/ (suppressed => explicit(c)),
         NEW ref, Fits(c, ref, file.user), ~robbed /\ Settled /\ accounts # {} => ref = reference
  PROVE  IInv'
<1> USE DEF IInv, Safe
<1>1. /\ TypeOK' /\ req'[c].pc \in {"idle", "again"}
      /\ \A d \in Process : d # c => req'[d] = req[d]
  BY GivesTypes
<1>2. Alone(c)
  BY OneAtATime
<1>3. robbed' = robbed /\ (robbed \/ \A d \in Process : req'[d].pc \notin Asking)
  BY <1>1, <1>2 DEF Alone, Asking, GiveOut
<1>4. LockHeld'
  BY <1>3 DEF LockHeld
<1>5. Obeyed'
  <2>1. out' => out /\ ~explicit(c)
    BY DEF GiveOut
  <2>2. out' => suppressed'
    BY <2>1 DEF Obeyed, GiveOut
  <2> QED BY <1>3, <2>2 DEF Obeyed
<1>6. NothingAfterLogout'
  <2>1. robbed \/ ~out'
    BY DEF GiveOut, Obeyed
  <2> QED BY <1>3, <2>1 DEF GiveOut, NothingAfterLogout
<1>7. RejectedIsForgotten'
  BY DEF GiveOut, RejectedIsForgotten
<1>8. Remembering'
  BY DEF Remembering, Usable
<1>9. Agreed'
  <2>1. login' = login
    BY DEF GiveOut
  <2>2. CASE explicit(c)
    BY <1>3, <2>2 DEF GiveOut, Agreed, persist, explicit
  <2>3. CASE ~robbed /\ ~explicit(c) /\ persist(c)
    <3>1. Settled /\ accounts # {} => accounts = {file.user}
      BY <2>3 DEF Agreed, Fits, TypeOK, Sensible
    <3>2. reference' = file.user /\ accounts' = accounts \union {file.user}
      BY <2>3 DEF GiveOut
    <3> QED BY <1>3, <2>1, <3>1, <3>2 DEF Agreed, Settled
  <2>4. CASE ~explicit(c) /\ ~persist(c)
    BY <1>3, <2>1, <2>4 DEF GiveOut, Agreed, Settled
  <2> QED BY <1>3, <2>2, <2>3, <2>4 DEF Agreed
<1> QED BY <1>1, <1>4, <1>5, <1>6, <1>7, <1>8, <1>9

\* A call that goes on past the lock, having forgotten what it remembered.
GoesOn(c) ==
  /\ req' \in [Process -> Calls] /\ req'[c].pc \in Asking /\ req'[c].kind = req[c].kind
  /\ \A d \in Process : d # c => req'[d] = req[d]
  /\ lock' \in Process \union {Nobody} /\ (robbed \/ lock' = c)
  /\ cache' = [cache EXCEPT ![c] = Nothing]
  /\ \A p \in Process : p # c => spoiled'[p] = spoiled[p]
  /\ spoiled' \in [Process -> SUBSET Nat] /\ pinned' \in [Process -> Somebody]
  /\ UNCHANGED <<native, files, calls, accounts, out, answer, robbed>>

LEMMA GoingOn ==
  ASSUME Sensible, IInv, NEW c \in Process, GoesOn(c), robbed \/ lock \in {Nobody, c},
         robbed \/ (suppressed => explicit(c)), ~robbed /\ Settled /\ accounts # {} => req'[c].ref = reference
  PROVE  IInv'
<1> USE DEF IInv, Safe
<1>1. Alone(c)
  BY OneAtATime
<1>2. TypeOK'
  <2>1. cache' \in [Process -> Entries]
    BY Empty DEF GoesOn, TypeOK
  <2> QED BY <2>1 DEF GoesOn, TypeOK, files
<1>3. LockHeld'
  BY <1>1 DEF LockHeld, GoesOn, Alone
<1>4. Obeyed'
  BY <1>1 DEF Obeyed, GoesOn, Alone, explicit, files
<1>5. Remembering'
  BY Empty DEF Remembering, GoesOn, Usable, TypeOK
<1>6. Agreed'
  BY <1>1 DEF Agreed, Settled, GoesOn, Alone, files
<1> QED BY <1>2, <1>3, <1>4, <1>5, <1>6 DEF GoesOn, NothingAfterLogout, RejectedIsForgotten

LEMMA RenewalGoesOn ==
  ASSUME TypeOK, NEW c \in Process, NEW ref \in Somebody, NEW file \in Files, StartRenewal(c, ref, file),
         lock' \in Process \union {Nobody}, robbed \/ lock' = c
  PROVE  GoesOn(c) /\ req'[c].ref = ref
<1> USE DEF TypeOK
<1>1. req' = [req EXCEPT ![c].pc = "renew", ![c].ref = ref, ![c].file = file]
  BY DEF StartRenewal
<1>2. req' \in [Process -> Calls]
  <2>1. "renew" \in Pcs
    BY DEF Pcs
  <2> QED BY <1>1, <2>1, RenewType
<1>3. req[c] \in Calls
  OBVIOUS
<1>4. /\ req'[c].pc = "renew" /\ req'[c].kind = req[c].kind /\ req'[c].ref = ref
      /\ \A d \in Process : d # c => req'[d] = req[d]
  BY <1>1, <1>3 DEF Calls
<1>5. file.token \in Nat
  BY DEF Files
<1>6. /\ \A p \in Process : p # c => spoiled'[p] = spoiled[p]
      /\ spoiled' \in [Process -> SUBSET Nat]
  BY <1>5 DEF StartRenewal
<1>7. /\ cache' = [cache EXCEPT ![c] = Nothing]
      /\ UNCHANGED <<native, files, calls, accounts, out, answer, pinned, robbed>>
  BY DEF StartRenewal, Forget, Remember, codex
<1> QED BY <1>2, <1>4, <1>6, <1>7 DEF GoesOn, Asking

-----------------------------------------------------------------------------
(* The steps past the lock                                                 *)

LEMMA UseRememberedKeeps == ASSUME Sensible, IInv, NEW c \in Process, UseRemembered(c) PROVE IInv'
<1> DEFINE file == cache[c].file
<1>1. /\ lock = Nobody /\ (suppressed => explicit(c)) /\ cache[c].kind = "file" /\ req[c].pc = "lock"
  BY DEF UseRemembered, Forbidden, IInv, TypeOK
<1>2. /\ file \in Files /\ file.user \in User /\ file.token \notin spoiled[c]
  BY <1>1 DEF IInv, Safe, TypeOK, Remembering, Usable, Entries
<1>3. reference \in Somebody
  BY DEF IInv, TypeOK
<1>4. CASE CacheFailure(c)
  BY <1>1, <1>4, WaitSteps, Waiting DEF IInv, Safe
<1>5. CASE StartRenewal(c, reference, file) /\ lock' = c
  <2>1. GoesOn(c) /\ req'[c].ref = reference
    BY <1>2, <1>3, <1>5, RenewalGoesOn DEF IInv
  <2> QED BY <1>1, <2>1, GoingOn
<1>6. CASE Fits(c, reference, file.user) /\ UNCHANGED <<native, cache, spoiled>> /\ GiveOut(c, file)
  <2>1. /\ native' \in Files /\ cache' \in [Process -> Entries] /\ spoiled' \in [Process -> SUBSET Nat]
        /\ cache'[c].file = file /\ file.token \notin spoiled'[c]
    BY <1>2, <1>6 DEF IInv, TypeOK
  <2>2. \A p \in Process : p # c => cache'[p] = cache[p] /\ spoiled'[p] = spoiled[p]
    BY <1>6
  <2>3. PICK ref : ref = reference
    OBVIOUS
  <2> HIDE DEF file
  <2> QED BY <1>1, <1>2, <1>6, <2>1, <2>2, <2>3, Gives
<1> QED BY <1>4, <1>5, <1>6 DEF UseRemembered

LEMMA LookKeeps == ASSUME Sensible, IInv, NEW c \in Process, Look(c) PROVE IInv'
<1>1. /\ lock = Nobody /\ (suppressed => explicit(c))
  BY DEF Look, Forbidden, IInv, TypeOK
<1>2. req[c] \in Calls /\ req \in [Process -> Calls] /\ reference \in Somebody
  BY DEF IInv, TypeOK
<1>3. req' = [req EXCEPT ![c].pc = "read", ![c].ref = reference]
  BY DEF Look
<1>4. req' \in [Process -> Calls]
  <2>1. "read" \in Pcs
    BY DEF Pcs
  <2>2. PICK ref \in Somebody : ref = reference
    BY <1>2
  <2> QED BY <1>2, <1>3, <2>1, <2>2, LookType
<1>5. /\ req'[c].pc = "read" /\ req'[c].kind = req[c].kind /\ req'[c].ref = reference
      /\ \A d \in Process : d # c => req'[d] = req[d]
  BY <1>2, <1>3 DEF Calls
<1>6. pinned' \in [Process -> Somebody]
  BY DEF Look, IInv, TypeOK, Somebody
<1>7. /\ lock' = c /\ cache' = [cache EXCEPT ![c] = Nothing]
      /\ UNCHANGED <<native, files, calls, accounts, out, answer, spoiled, robbed>>
  BY DEF Look, Remember, codex, history
<1>8. spoiled' \in [Process -> SUBSET Nat]
  BY <1>7 DEF IInv, TypeOK
<1>9. GoesOn(c)
  BY <1>4, <1>5, <1>6, <1>7, <1>8 DEF GoesOn, Asking
<1> QED BY <1>1, <1>5, <1>9, GoingOn

\* Codex names a token that fits: it is remembered and given out.
LEMMA FreshGives ==
  ASSUME Sensible, IInv, NEW c \in Process, req[c].pc \in Asking, NEW file \in Files, file.user \in User,
         Fits(c, req[c].ref, file.user), Remember(c, [kind |-> "file", file |-> file]),
         spoiled' = [spoiled EXCEPT ![c] = @ \ {file.token}], GiveOut(c, file), native' \in Files
  PROVE  IInv'
<1>1. [kind |-> "file", file |-> file] \in Entries
  BY DEF Entries
<1>2. /\ cache' \in [Process -> Entries] /\ cache'[c].file = file
      /\ \A p \in Process : p # c => cache'[p] = cache[p]
  BY <1>1 DEF Remember, IInv, TypeOK
<1>3. /\ spoiled' \in [Process -> SUBSET Nat] /\ file.token \notin spoiled'[c]
      /\ \A p \in Process : p # c => spoiled'[p] = spoiled[p]
  BY DEF IInv, TypeOK
<1>4. /\ robbed \/ lock = c
      /\ robbed \/ (suppressed => explicit(c))
      /\ ~robbed /\ Settled /\ accounts # {} => req[c].ref = reference
  BY DEF IInv, Safe, LockHeld, Obeyed, Agreed
<1>5. PICK ref : ref = req[c].ref
  OBVIOUS
<1> QED BY <1>2, <1>3, <1>4, <1>5, Gives

LEMMA ReadKeeps == ASSUME Sensible, IInv, NEW c \in Process, Read(c) PROVE IInv'
<1>1. /\ req[c].pc \in Asking /\ native \in Files /\ native.user \in User
  BY DEF Read, Asking, IInv, TypeOK, Files, Somebody
<1>2. CASE CacheFailure(c)
  BY <1>1, <1>2, WaitSteps, Waiting DEF IInv, Safe
<1>3. CASE StartRenewal(c, req[c].ref, native) /\ UNCHANGED lock
  <2>1. req[c].ref \in Somebody
    BY DEF IInv, TypeOK, Calls
  <2>2. PICK ref \in Somebody, file \in Files : ref = req[c].ref /\ file = native
    BY <1>1, <2>1
  <2>3. GoesOn(c) /\ req'[c].ref = req[c].ref
    <3>1. lock' \in Process \union {Nobody} /\ (robbed \/ lock' = c)
      BY <1>1, <1>3 DEF IInv, Safe, TypeOK, LockHeld
    <3> QED BY <1>3, <2>2, <3>1, RenewalGoesOn DEF IInv
  <2>4. /\ robbed \/ lock = c
        /\ robbed \/ (suppressed => explicit(c))
        /\ ~robbed /\ Settled /\ accounts # {} => req[c].ref = reference
    BY <1>1 DEF IInv, Safe, LockHeld, Obeyed, Agreed
  <2> QED BY <2>3, <2>4, GoingOn
<1>4. CASE /\ Fits(c, req[c].ref, native.user) /\ Remember(c, [kind |-> "file", file |-> native])
           /\ spoiled' = [spoiled EXCEPT ![c] = @ \ {native.token}]
           /\ GiveOut(c, native) /\ UNCHANGED native
  <2>1. PICK file \in Files : file = native
    BY <1>1
  <2> QED BY <1>1, <1>4, <2>1, FreshGives
<1> QED BY <1>2, <1>3, <1>4 DEF Read

LEMMA RenewKeeps == ASSUME Sensible, IInv, NEW c \in Process, Renew(c) PROVE IInv'
<1> USE DEF IInv, TypeOK
<1>1. req[c].pc \in Asking /\ native \in Files /\ native.user \in User
  BY DEF Renew, Asking, Files, Somebody
<1>2. native' \in Files /\ native'.user = native.user
  BY <1>1, \A t \in 1..MaxToken : t \in Nat DEF Renew, Files
<1>3. CASE /\ Fits(c, req[c].ref, native.user) /\ Remember(c, [kind |-> "file", file |-> native'])
           /\ spoiled' = [spoiled EXCEPT ![c] = @ \ {native'.token}]
           /\ GiveOut(c, native')
  <2>1. PICK file \in Files : file = native'
    BY <1>2
  <2> QED BY <1>1, <1>2, <1>3, <2>1, FreshGives
<1>4. CASE Remember(c, Failure) /\ Leaves(c) /\ UNCHANGED <<calls, life, files, pinned, history>>
  <2>1. Waits(c)
    BY <1>1, <1>2, <1>4, Leaving DEF Safe, Waits, Remember, Asking
  <2> QED BY <2>1, Waiting
<1> QED BY <1>3, <1>4 DEF Renew

LEMMA SuppressKeeps == ASSUME Sensible, IInv, NEW c \in Process, Suppress(c) PROVE IInv'
<1> USE DEF IInv, Safe
<1>1. Alone(c)
  BY OneAtATime DEF Suppress
<1>2. req' \in [Process -> Calls]
  <2>1. "revoke" \in Pcs
    BY DEF Pcs
  <2> QED BY <2>1, PcType DEF Suppress, Goes, TypeOK
<1>3. req'[c].pc = "revoke" /\ \A d \in Process : d # c => req'[d] = req[d]
  BY DEF Suppress, Goes, TypeOK, Calls
<1>4. TypeOK'
  <2>1. /\ suppressed' = TRUE /\ reference' = Nobody /\ lock' = c /\ accounts' = {}
        /\ pinned' = [pinned EXCEPT ![c] = Nobody] /\ out' \in BOOLEAN
        /\ UNCHANGED <<native, calls, direct, login, cache, spoiled, answer, robbed>>
    BY DEF Suppress, codex
  <2> QED BY <1>2, <2>1 DEF TypeOK, Somebody
<1>5. LockHeld'
  BY <1>1, <1>3 DEF LockHeld, Suppress, Alone
<1>6. Obeyed'
  BY <1>1, <1>3 DEF Obeyed, Suppress, Alone, Asking
<1>7. Remembering'
  BY DEF Remembering, Usable, Suppress
<1>8. Agreed'
  BY DEF Agreed, Suppress
<1> QED BY <1>4, <1>5, <1>6, <1>7, <1>8 DEF Suppress, NothingAfterLogout, RejectedIsForgotten

LEMMA RevokeKeeps == ASSUME Sensible, IInv, NEW c \in Process, RevokeAndDelete(c) PROVE IInv'
<1> USE DEF IInv, Safe
<1>1. /\ req' \in [Process -> Calls] /\ req'[c].pc = "idle"
      /\ \A d \in Process : d # c => req'[d] = req[d]
  <2>1. req[c].file \in Files
    BY CallParts DEF TypeOK
  <2> QED BY <2>1, Resting, Replaced DEF RevokeAndDelete, Leaves, TypeOK
<1>2. /\ direct' = FALSE /\ lock' = Nobody /\ robbed' = (robbed \/ Robs(c))
      /\ UNCHANGED <<native, calls, reference, suppressed, login, cache, pinned, accounts, out, spoiled, answer>>
  BY DEF RevokeAndDelete, Leaves, LockLeft, codex
<1>3. TypeOK'
  BY <1>1, <1>2 DEF TypeOK, Robs
<1>4. LockHeld'
  BY <1>1, <1>2 DEF LockHeld, Asking, Robs
<1>5. Obeyed'
  BY <1>1, <1>2 DEF Obeyed, Asking, explicit
<1>6. Remembering'
  BY <1>2 DEF Remembering, Usable
<1>7. Agreed'
  BY <1>1, <1>2 DEF Agreed, Asking, Settled
<1> QED BY <1>2, <1>3, <1>4, <1>5, <1>6, <1>7 DEF NothingAfterLogout, RejectedIsForgotten

\* Removing the lock of a call that asks Codex is a robbery; removing that of
\* a dead process or of a logout is none.
LEMMA RemoveStaleKeeps == ASSUME Sensible, IInv, NEW c \in Process, RemoveStale(c) PROVE IInv'
<1> USE DEF IInv, Safe
<1>1. /\ req' \in [Process -> Calls] /\ req'[c].pc = "lock"
      /\ \A d \in Process : d # c => req'[d] = req[d]
  <2>1. req' = [req EXCEPT ![c].pc = "lock"]
    BY DEF RemoveStale, Goes
  <2>2. req' \in [Process -> Calls]
    BY <2>1, PcType DEF Pcs, TypeOK
  <2> QED BY <2>1, <2>2 DEF TypeOK, Calls
<1>2. /\ lock' = Nobody /\ robbed' = (robbed \/ Robs(c))
      /\ UNCHANGED <<native, calls, files, cache, pinned, accounts, out, spoiled, answer>>
  BY DEF RemoveStale, codex
<1>3. TypeOK'
  BY <1>1, <1>2 DEF TypeOK, files, Robs
<1>4. LockHeld'
  BY <1>1, <1>2 DEF LockHeld, Asking, Robs
<1>5. Obeyed'
  BY <1>1, <1>2 DEF Obeyed, Asking, explicit, files
<1>6. Remembering'
  BY <1>2 DEF Remembering, Usable
<1>7. Agreed'
  BY <1>1, <1>2 DEF Agreed, Asking, Settled, files
<1> QED BY <1>2, <1>3, <1>4, <1>5, <1>6, <1>7 DEF NothingAfterLogout, RejectedIsForgotten

LEMMA DiesKeeps == ASSUME Sensible, IInv, NEW c \in Process, Dies(c) PROVE IInv'
<1> USE DEF IInv, Safe
<1>1. /\ req' \in [Process -> Calls] /\ req'[c].pc = "idle"
      /\ \A d \in Process : d # c => req'[d] = req[d]
  BY Empty DEF Dies, TypeOK
<1>2. /\ cache' \in [Process -> Entries] /\ cache'[c].kind = "none"
      /\ \A p \in Process : p # c => cache'[p] = cache[p] /\ spoiled'[p] = spoiled[p]
      /\ pinned' \in [Process -> Somebody] /\ spoiled' \in [Process -> SUBSET Nat]
  BY Empty DEF Dies, TypeOK, Somebody
<1>3. UNCHANGED <<native, calls, files, lock, accounts, out, answer, robbed>>
  BY DEF Dies, codex
<1>4. TypeOK'
  BY <1>1, <1>2, <1>3 DEF TypeOK, files
<1>5. LockHeld'
  BY <1>1, <1>3 DEF LockHeld, Asking
<1>6. Obeyed'
  BY <1>1, <1>3 DEF Obeyed, Asking, explicit, files
<1>7. Remembering'
  BY <1>2 DEF Remembering, Usable
<1>8. Agreed'
  BY <1>1, <1>3 DEF Agreed, Asking, Settled, files
<1> QED BY <1>3, <1>4, <1>5, <1>6, <1>7, <1>8 DEF NothingAfterLogout, RejectedIsForgotten

-----------------------------------------------------------------------------
(* A login, Codex and time                                                 *)

LEMMA WorldTypes == ASSUME Sensible, TypeOK, World PROVE TypeOK'
<1> USE DEF TypeOK, Sensible, codex, files, history
<1>1. CASE LoginSaves
  BY <1>1 DEF LoginSaves
<1>2. CASE ClearReference
  BY <1>2 DEF ClearReference, Somebody
<1>3. CASE ClearSuppression
  BY <1>3 DEF ClearSuppression
<1>4. CASE DirectRefused
  BY <1>4 DEF DirectRefused
<1>5. ASSUME NEW u \in User, CodexLogin(u) PROVE TypeOK'
  <2>1. native.token + 1 \in Nat
    BY DEF Files
  <2>2. native' \in Files
    BY <1>5, <2>1 DEF CodexLogin, NextToken, Files, Somebody
  <2> QED BY <1>5, <2>2 DEF CodexLogin
<1>6. CASE CodexLogout
  <2>1. native' \in Files
    BY <1>6 DEF CodexLogout, Files, Somebody
  <2> QED BY <1>6, <2>1 DEF CodexLogout
<1>7. CASE Ages
  BY <1>7 DEF Ages
<1>8. ASSUME NEW p \in Process, CacheExpires(p) PROVE TypeOK'
  <2>1. cache' \in [Process -> Entries]
    BY <1>8, Empty DEF CacheExpires
  <2> QED BY <1>8, <2>1 DEF CacheExpires
<1> QED BY <1>1, <1>2, <1>3, <1>4, <1>5, <1>6, <1>7, <1>8 DEF World

\* A login clears the reference before the suppression: what is settled by then
\* is that nobody borrows.
LEMMA WorldKeeps == ASSUME Sensible, IInv, World PROVE IInv'
<1> USE DEF IInv, Safe
<1>1. TypeOK'
  BY WorldTypes
<1>2. UNCHANGED <<lock, req, spoiled, answer, robbed>>
  BY DEF World, LoginSaves, ClearReference, ClearSuppression, DirectRefused, CodexLogin, CodexLogout,
         Ages, CacheExpires, history
<1>3. LockHeld'
  BY <1>2 DEF LockHeld
<1>4. /\ (suppressed' => suppressed) /\ (out' => out)
      /\ (suppressed => suppressed') \/ ~out'
  BY DEF World, LoginSaves, ClearReference, ClearSuppression, DirectRefused, CodexLogin, CodexLogout,
         Ages, CacheExpires, history, files
<1>5. Obeyed'
  BY <1>2, <1>4 DEF Obeyed, explicit
<1>6. Remembering'
  BY <1>2, Empty DEF Remembering, Usable, TypeOK, World, LoginSaves, ClearReference, ClearSuppression,
         DirectRefused, CodexLogin, CodexLogout, Ages, CacheExpires
<1>7. Agreed'
  <2>1. \/ login' \notin {"never", "done"}
        \/ accounts' = {}
        \/ UNCHANGED <<login, accounts, reference>>
    BY DEF World, LoginSaves, ClearReference, ClearSuppression, DirectRefused, CodexLogin, CodexLogout,
           Ages, CacheExpires, history, files
  <2> QED BY <1>2, <2>1 DEF Agreed, Settled
<1> QED BY <1>1, <1>2, <1>3, <1>5, <1>6, <1>7 DEF NothingAfterLogout, RejectedIsForgotten

-----------------------------------------------------------------------------
LEMMA Begins == ASSUME Sensible, Init PROVE IInv
<1> USE DEF Init
<1>1. (CHOOSE u \in User : TRUE) \in User
  BY DEF Sensible
<1>2. native \in Files
  BY <1>1 DEF Files, Somebody
<1>3. req \in [Process -> Calls] /\ cache \in [Process -> Entries]
  BY Empty
<1>4. TypeOK
  BY <1>2, <1>3 DEF TypeOK, Somebody
<1>5. \A c \in Process : req[c].pc = "idle" /\ cache[c].kind = "none"
  BY Empty
<1> QED
  BY <1>4, <1>5 DEF IInv, Safe, LockHeld, Obeyed, Asking, Remembering, Agreed, Settled,
                    NothingAfterLogout, RejectedIsForgotten

LEMMA Continues == ASSUME Sensible, IInv, [Next]_vars PROVE IInv'
<1>1. CASE World
  BY <1>1, WorldKeeps
<1>2. ASSUME NEW c \in Process, Proceeds(c) PROVE IInv'
  <2>1. ASSUME \/ \E kind \in Kind : Begin(c, kind)
               \/ BeginAgain(c) \/ Cancel(c) \/ Refused(c) \/ FindStale(c) \/ ReadFails(c)
               \/ RenewFails(c)
        PROVE  IInv'
    <3>1. Waits(c)
      BY <2>1, WaitSteps DEF IInv, Safe, RenewFails, Asking
    <3> QED BY <3>1, Waiting
  <2> QED
    BY <1>2, <2>1, UseRememberedKeeps, LookKeeps, ReadKeeps, RenewKeeps, SuppressKeeps, RevokeKeeps,
       RemoveStaleKeeps, DiesKeeps
    DEF Proceeds
<1>3. CASE UNCHANGED vars
  BY <1>3 DEF vars, IInv, Safe, TypeOK, LockHeld, Obeyed, Remembering, Usable, Agreed, Settled, explicit,
              NothingAfterLogout, RejectedIsForgotten
<1> QED BY <1>1, <1>2, <1>3 DEF Next

\* The strengthened invariant holds in every reachable state.
THEOREM Invariant == ASSUME Sensible PROVE Spec => []IInv
<1>1. Init => IInv
  BY Begins
<1>2. IInv /\ [Next]_vars => IInv'
  BY Continues
<1> QED BY <1>1, <1>2, PTL DEF Spec

\* Every variable keeps its type.
THEOREM TypeCorrect == ASSUME Sensible PROVE Spec => []TypeOK
<1>1. IInv => TypeOK
  BY DEF IInv
<1> QED BY <1>1, Invariant, PTL

LEMMA OneOfThem == ASSUME IInv PROVE OneAccount
<1>1. SUFFICES ASSUME ~robbed, Settled PROVE Cardinality(accounts) <= 1
  BY DEF OneAccount, Settled
<1>2. accounts \subseteq {reference}
  BY <1>1 DEF IInv, Safe, Agreed
<1>3. IsFiniteSet({reference}) /\ Cardinality({reference}) = 1
  BY FS_Singleton
<1>4. Cardinality(accounts) <= 1 /\ Cardinality(accounts) \in Nat
  BY <1>2, <1>3, FS_Subset, FS_CardinalityType
<1> QED BY <1>4

\* From one choice of the user to the next all processes borrow one account,
\* whoever Codex is signed in as and whatever requests are under way
\* (checkIdentity, provider.go).
THEOREM AccountsDoNotMix == ASSUME Sensible PROVE Spec => []OneAccount
<1>1. IInv => OneAccount
  BY OneOfThem
<1> QED BY <1>1, Invariant, PTL

\* A logout ends borrowing, also for requests that waited for the lock or
\* whose process remembers a token (borrow looks again under the lock).
THEOREM LogoutsEndBorrowing == ASSUME Sensible PROVE Spec => []NothingAfterLogout
<1>1. IInv => NothingAfterLogout
  BY DEF IInv, Safe
<1> QED BY <1>1, Invariant, PTL

\* A token that was renewed because it was rejected or had expired is given out
\* only if Codex has named it again.
THEOREM RejectedIsNotReused == ASSUME Sensible PROVE Spec => []RejectedIsForgotten
<1>1. IInv => RejectedIsForgotten
  BY DEF IInv, Safe
<1> QED BY <1>1, Invariant, PTL
=============================================================================
