---------------------------- MODULE NativeBorrow ----------------------------
(***************************************************************************)
(* internal/auth/provider.go: claudodex processes that have no login of    *)
(* their own borrow the one of the Codex CLI.  A request asks Codex for    *)
(* its access token, or takes the answer of at most two seconds ago; Codex *)
(* renews the token when told that it was rejected.  The first user that   *)
(* was borrowed is written to a reference file, which is what every later  *)
(* request has to find; a logout removes it and leaves a file that forbids *)
(* to borrow.  All borrowing happens under one lock of all processes (and, *)
(* within it, a guard of the process), so that the requests of a process   *)
(* come one after the other.  A process may die with the lock, and a lock  *)
(* of five minutes is removed by whoever waits for it: Codex answers, or   *)
(* does not, within 15 seconds, so that this is the lock of a dead process *)
(* or of a logout that still waits for auth.json.lock.  CODEX_HOME does    *)
(* not change; the direct login is in AuthRefresh.                         *)
(***************************************************************************)
EXTENDS Naturals, FiniteSets

CONSTANTS
  Process,    \* the claudodex processes
  User,       \* the subscription users Codex may be signed in as
  Nobody,     \* no user, no process
  MaxToken,   \* bound: the access tokens that Codex ever gets
  MaxCalls    \* bound: the calls of all processes

\* What the constants have to be.
Sensible == User # {} /\ Nobody \notin User \union Process /\ MaxToken \in Nat \ {0} /\ MaxCalls \in Nat

VARIABLES
  native,     \* who Codex is signed in as, and its access token
  life,       \* life[t]: what is left of token t's life
  reference,  \* the user in codex-login.json
  suppressed, \* codex-reuse-disabled exists
  direct,     \* there is a direct login
  login,      \* how far the browser login has come
  lock,       \* who holds codex-authority.lock
  cache,      \* cache[p]: what the process remembers
  pinned,     \* pinned[p]: the user that p's provider is bound to
  req,        \* req[p]: the call that p makes
  calls,      \* how many calls there were
  accounts,   \* history: the users borrowed since the user last chose one
  out,        \* history: the user has logged out, and not in again
  spoiled,    \* history: spoiled[p]: tokens p has had renewed and not read since
  answer,     \* history: when the last token was given out
  robbed      \* history: a call that asks Codex has lost its lock to another

vars == <<native, life, reference, suppressed, direct, login, lock, cache, pinned, req,
          calls, accounts, out, spoiled, answer, robbed>>
codex == <<native, life>>
files == <<reference, suppressed, direct, login>>
history == <<accounts, out, spoiled, answer, robbed>>

Nothing == [kind |-> "none", file |-> [user |-> Nobody, token |-> 0]]
Failure == [Nothing EXCEPT !.kind = "error"]
NoFile == Nothing.file

Idle == [pc |-> "idle", kind |-> "load", rejected |-> 0, ref |-> Nobody, file |-> NoFile]

\* Load, EnsureFresh, Refresh, UseCodex and Logout
Kind == {"load", "fresh", "refresh", "use", "logout"}
persist(c) == req[c].kind # "load"
bypass(c) == req[c].kind \in {"refresh", "use"}
explicit(c) == req[c].kind = "use"

-----------------------------------------------------------------------------
Init ==
  /\ native = [user |-> CHOOSE u \in User : TRUE, token |-> 1]
  /\ life = [t \in 1..MaxToken |-> "good"]
  /\ reference = Nobody /\ suppressed = FALSE /\ direct = FALSE /\ login = "never"
  /\ lock = Nobody
  /\ cache = [p \in Process |-> Nothing] /\ pinned = [p \in Process |-> Nobody]
  /\ req = [c \in Process |-> Idle]
  /\ calls = 0 /\ accounts = {} /\ out = FALSE /\ spoiled = [p \in Process |-> {}]
  /\ answer = [out |-> FALSE, spoiled |-> FALSE] /\ robbed = FALSE

Asking == {"read", "renew"}

Goes(c, pc) == req' = [req EXCEPT ![c].pc = pc]

\* The lock that a call leaves behind: whichever there is, it is removed.
LockLeft(c) == IF req[c].pc = "lock" THEN lock ELSE Nobody

\* The call ends without a token.
Leaves(c) ==
  /\ req' = [req EXCEPT ![c] = [Idle EXCEPT !.file = req[c].file]]
  /\ lock' = LockLeft(c)

\* The lock that call c removes is that of another, which asks Codex.
Robs(c) == \E d \in Process : d # c /\ lock = d /\ req[d].pc \in Asking

\* A call that a direct login does not answer, and no earlier logout forbids.
Begin(c, kind) ==
  /\ req[c].pc = "idle" /\ calls < MaxCalls /\ calls' = calls + 1
  /\ kind # "logout" => ~direct /\ (suppressed => kind = "use")
  /\ kind = "refresh" => req[c].file # NoFile
  /\ req' = [req EXCEPT ![c].pc = "lock", ![c].kind = kind,
                        ![c].rejected = IF kind = "refresh" THEN req[c].file.token ELSE 0]
  /\ UNCHANGED <<codex, files, lock, cache, pinned, history>>

\* EnsureFresh has got a token with less than five minutes to live: it calls
\* borrow again as if the token had been rejected.
BeginAgain(c) ==
  /\ req[c].pc = "again"
  /\ req' = [req EXCEPT ![c].pc = IF suppressed THEN "idle" ELSE "lock", ![c].kind = "refresh",
                        ![c].rejected = req[c].file.token]
  /\ UNCHANGED <<calls, codex, files, lock, cache, pinned, history>>

\* The caller gives up while it waits.
Cancel(c) ==
  /\ req[c].pc = "lock" /\ Leaves(c) /\ UNCHANGED <<calls, codex, files, cache, pinned, history>>

\* (variant) it was looked at before the wait
NotForbidden(c) == FALSE

\* What a request has to look at again once it holds the lock.
Forbidden(c) == suppressed /\ ~explicit(c)

\* (variant) any user will do
FitsAnybody(c, ref, user) == TRUE

\* checkIdentity: the user of the reference, and the one this provider is
\* bound to; UseCodex asks for neither.
Fits(c, ref, user) ==
  explicit(c) \/ (ref \in {Nobody, user} /\ pinned[c] \in {Nobody, user})

Remember(c, entry) == cache' = [cache EXCEPT ![c] = entry]

\* A failure is remembered as well, instead of the token that led to it.
CacheFailure(c) ==
  Remember(c, Failure) /\ Leaves(c) /\ UNCHANGED <<calls, codex, files, pinned, history>>

\* Unless the call was a Load its user is now the one that is borrowed.
\* EnsureFresh asks again for a token with less than five minutes to live.
GiveOut(c, file) ==
  /\ IF persist(c)
     THEN /\ reference' = file.user /\ pinned' = [pinned EXCEPT ![c] = file.user]
          /\ suppressed' = (suppressed /\ ~explicit(c))
          /\ accounts' = IF explicit(c) THEN {file.user} ELSE accounts \union {file.user}
     ELSE UNCHANGED <<reference, pinned, suppressed, accounts>>
  /\ out' = (out /\ ~explicit(c))
  /\ answer' = [out |-> out', spoiled |-> file.token \in spoiled'[c]]
  /\ req' = [req EXCEPT ![c] = [Idle EXCEPT !.file = file,
               !.pc = IF req[c].kind = "fresh" /\ life[file.token] = "aging" THEN "again" ELSE "idle"]]
  /\ lock' = Nobody
  /\ UNCHANGED <<calls, life, direct, login, robbed>>

Expired(t) == life[t] = "expired"

MustRenew(c, t) == t = req[c].rejected \/ (persist(c) /\ Expired(t))

\* A rejected or expired token is forgotten before Codex is told to renew it.
Forget(c, file) == Remember(c, Nothing)

StartRenewal(c, ref, file) ==
  /\ Forget(c, file)
  /\ req' = [req EXCEPT ![c].pc = "renew", ![c].ref = ref, ![c].file = file]
  /\ spoiled' = [spoiled EXCEPT ![c] = @ \union {file.token}]
  /\ UNCHANGED <<calls, codex, files, pinned, accounts, out, answer, robbed>>

\* A remembered answer, which is less than two seconds old
Remembered(c) == cache[c].kind # "none" /\ ~bypass(c)

Refused(c) ==
  /\ req[c].pc = "lock" /\ req[c].kind # "logout" /\ lock = Nobody
  /\ Forbidden(c) \/ (Remembered(c) /\ cache[c].kind = "error")
  /\ Leaves(c) /\ UNCHANGED <<calls, codex, files, cache, pinned, history>>

UseRemembered(c) ==
  LET file == cache[c].file IN
  /\ req[c].pc = "lock" /\ req[c].kind # "logout" /\ lock = Nobody /\ ~Forbidden(c)
  /\ Remembered(c) /\ cache[c].kind = "file"
  /\ \/ /\ ~Fits(c, reference, file.user) \/ (~MustRenew(c, file.token) /\ Expired(file.token))
        /\ CacheFailure(c)
     \/ /\ Fits(c, reference, file.user) /\ MustRenew(c, file.token)
        /\ StartRenewal(c, reference, file) /\ lock' = c
     \/ /\ Fits(c, reference, file.user) /\ ~MustRenew(c, file.token) /\ ~Expired(file.token)
        /\ UNCHANGED <<native, cache, spoiled>> /\ GiveOut(c, file)

\* UseCodex forgets the user it was bound to.
Look(c) ==
  /\ req[c].pc = "lock" /\ req[c].kind # "logout" /\ lock = Nobody /\ ~Forbidden(c)
  /\ ~Remembered(c)
  /\ pinned' = IF explicit(c) THEN [pinned EXCEPT ![c] = Nobody] ELSE pinned
  /\ Remember(c, Nothing) /\ lock' = c
  /\ req' = [req EXCEPT ![c].pc = "read", ![c].ref = reference]
  /\ UNCHANGED <<calls, codex, files, history>>

\* Codex is asked.  It may fail, and the caller may give up: then the failure
\* is not remembered.
Read(c) ==
  LET fits == Fits(c, req[c].ref, native.user) IN
  /\ req[c].pc = "read" /\ native.user # Nobody
  /\ \/ /\ ~fits \/ (~MustRenew(c, native.token) /\ Expired(native.token))
        /\ CacheFailure(c)
     \/ /\ fits /\ MustRenew(c, native.token)
        /\ StartRenewal(c, req[c].ref, native) /\ UNCHANGED lock
     \/ /\ fits /\ ~MustRenew(c, native.token) /\ ~Expired(native.token)
        /\ Remember(c, [kind |-> "file", file |-> native])
        /\ spoiled' = [spoiled EXCEPT ![c] = @ \ {native.token}]
        /\ GiveOut(c, native) /\ UNCHANGED native

ReadFails(c) ==
  /\ req[c].pc = "read"
  /\ cache' \in {cache, [cache EXCEPT ![c] = Failure]}
  /\ Leaves(c) /\ UNCHANGED <<calls, codex, files, pinned, history>>

NextToken == native.token + 1

\* Codex has a new token for its user, or gives the same one again.
Renew(c) ==
  /\ req[c].pc = "renew" /\ native.user # Nobody
  /\ native' \in {native} \union
                 {[native EXCEPT !.token = u] : u \in {NextToken} \intersect 1..MaxToken}
  /\ IF /\ Fits(c, req[c].ref, native.user) /\ native.user = req[c].file.user
        /\ native'.token # req[c].rejected /\ ~Expired(native'.token)
     THEN /\ Remember(c, [kind |-> "file", file |-> native'])
          /\ spoiled' = [spoiled EXCEPT ![c] = @ \ {native'.token}]
          /\ GiveOut(c, native')
     ELSE Remember(c, Failure) /\ Leaves(c) /\ UNCHANGED <<calls, life, files, pinned, history>>

RenewFails(c) == req[c].pc = "renew" /\ CacheFailure(c)

\* Logout: first the borrowed login, then the direct one.
Suppress(c) ==
  /\ req[c].pc = "lock" /\ req[c].kind = "logout" /\ lock = Nobody
  /\ suppressed' = TRUE /\ reference' = Nobody /\ pinned' = [pinned EXCEPT ![c] = Nobody]
  /\ accounts' = {} /\ out' = (login \in {"never", "done"})
  /\ Goes(c, "revoke") /\ lock' = c
  /\ UNCHANGED <<calls, codex, direct, login, cache, spoiled, answer, robbed>>

\* By then the lock may be that of another call.
RevokeAndDelete(c) ==
  /\ req[c].pc = "revoke" /\ direct' = FALSE
  /\ Leaves(c) /\ robbed' = (robbed \/ Robs(c))
  /\ UNCHANGED <<calls, codex, reference, suppressed, login, cache, pinned,
                 accounts, out, spoiled, answer>>

\* acquireNamedAuthLock: the lock is found to be five minutes old ...
FindStale(c) ==
  /\ req[c].pc = "lock" /\ \E d \in Process : lock = d /\ req[d].pc \notin Asking
  /\ Goes(c, "remove")
  /\ UNCHANGED <<calls, codex, files, lock, cache, pinned, history>>

\* ... and whichever lock is there then is removed.
RemoveStale(c) ==
  /\ req[c].pc = "remove" /\ Goes(c, "lock")
  /\ lock' = Nobody /\ robbed' = (robbed \/ Robs(c))
  /\ UNCHANGED <<calls, codex, files, cache, pinned, accounts, out, spoiled, answer>>

\* The process dies, with all that it remembers; a lock it holds stays.
Dies(c) ==
  /\ req[c].pc \notin {"idle", "again"} /\ req' = [req EXCEPT ![c] = Idle]
  /\ cache' = [cache EXCEPT ![c] = Nothing] /\ pinned' = [pinned EXCEPT ![c] = Nobody]
  /\ spoiled' = [spoiled EXCEPT ![c] = {}]
  /\ UNCHANGED <<calls, codex, files, lock, accounts, out, answer, robbed>>

-----------------------------------------------------------------------------
(* A browser login takes none of these locks (bound: one login). *)

LoginSaves ==
  /\ login = "never" /\ ~direct
  /\ direct' = TRUE /\ login' = "reference" /\ out' = FALSE /\ accounts' = {}
  /\ UNCHANGED <<calls, codex, reference, suppressed, lock, cache, pinned, req, spoiled, answer, robbed>>

ClearReference ==
  /\ login = "reference" /\ reference' = Nobody /\ login' = "suppression"
  /\ UNCHANGED <<calls, codex, suppressed, direct, lock, cache, pinned, req, history>>

ClearSuppression ==
  /\ login = "suppression" /\ suppressed' = FALSE /\ login' = "done"
  /\ accounts' = {} /\ out' = FALSE
  /\ UNCHANGED <<calls, codex, reference, direct, lock, cache, pinned, req, spoiled, answer, robbed>>

\* The direct login is refused for good: requests fall back to borrowing.
DirectRefused ==
  /\ direct /\ login = "done" /\ direct' = FALSE
  /\ UNCHANGED <<calls, codex, reference, suppressed, login, lock, cache, pinned, req, history>>

(* Codex, which the user also uses without claudodex, and time. *)

CodexLogin(u) ==
  /\ NextToken <= MaxToken /\ native' = [user |-> u, token |-> NextToken]
  /\ UNCHANGED <<calls, life, files, lock, cache, pinned, req, history>>

CodexLogout ==
  /\ native.user # Nobody /\ native' = [native EXCEPT !.user = Nobody]
  /\ UNCHANGED <<calls, life, files, lock, cache, pinned, req, history>>

Ages ==
  /\ life[native.token] # "expired"
  /\ life' = [life EXCEPT ![native.token] = IF @ = "good" THEN "aging" ELSE "expired"]
  /\ UNCHANGED <<calls, native, files, lock, cache, pinned, req, history>>

\* What is remembered is more than two seconds old.
CacheExpires(p) ==
  /\ cache[p] # Nothing /\ cache' = [cache EXCEPT ![p] = Nothing]
  /\ UNCHANGED <<calls, codex, files, lock, pinned, req, history>>

World ==
  \/ LoginSaves \/ ClearReference \/ ClearSuppression \/ DirectRefused
  \/ (\E u \in User : CodexLogin(u)) \/ CodexLogout \/ Ages
  \/ (\E p \in Process : CacheExpires(p))

Proceeds(c) ==
  \/ (\E kind \in Kind : Begin(c, kind)) \/ BeginAgain(c) \/ Cancel(c) \/ Refused(c)
  \/ UseRemembered(c) \/ Look(c) \/ Read(c) \/ ReadFails(c) \/ Renew(c) \/ RenewFails(c)
  \/ Suppress(c) \/ RevokeAndDelete(c) \/ FindStale(c) \/ RemoveStale(c) \/ Dies(c)

Ended == \A c \in Process : req[c].pc = "idle"

Next == World \/ \E c \in Process : Proceeds(c)

Spec == Init /\ [][Next]_vars

-----------------------------------------------------------------------------
\* From one choice of the user to the next, all requests of all processes
\* borrow the same subscription, whoever Codex is signed in as meanwhile and
\* whichever of them die.  (Unless a lock was removed that had just been taken.)
OneAccount == robbed \/ (login \in {"never", "done"} => Cardinality(accounts) <= 1)

\* After a logout no request gets a borrowed token, not even one that was
\* waiting, or one whose process remembers a token, until the user logs in.
\* (With the same exception.)
NothingAfterLogout == robbed \/ ~answer.out

\* A token that a process has had renewed in vain is not given out again
\* because it is remembered: Codex must have named it again.
RejectedIsForgotten == ~answer.spoiled
=============================================================================
