---------------------------- MODULE LoginCallback ----------------------------
(***************************************************************************)
(* Logins in the browser, of several processes at once (auth/oauth.go):    *)
(* each listens on one of two ports for the code that the browser brings,  *)
(* and takes a port over from an older login by cancelling that.           *)
(*                                                                         *)
(* A login is named by its process: its state, challenge and verifier are  *)
(* random.  The browser keeps every page that was opened, and may bring    *)
(* its answer at any time, to whoever listens on that port by then.        *)
(***************************************************************************)
EXTENDS Integers, FiniteSets

CONSTANTS Process, Nobody

VARIABLES
  port,      \* who holds each port: a process, another program or nobody
  stage,     \* of each login
  tried,     \* the port a login tries or listens on
  inbox,     \* codeCh and errCh of each login: what lies in them
  pages,     \* pages of the authorization server in the browser
  granted    \* the pages whose code has been brought to a login and taken

vars == <<port, stage, tried, inbox, pages, granted>>

Ports == {1, 2}     \* DefaultOAuthCallbackPort and FallbackOAuthCallbackPort
Another == "another program"
Empty == [code |-> Nobody, error |-> FALSE]
Over == {"saved", "failed", "cancelled"}

\* What the constants have to be.
Sensible == Nobody \notin Process /\ Another \notin Process

Init ==
  /\ port \in [Ports -> {Nobody, Another}]
  /\ stage = [p \in Process |-> "new"] /\ tried = [p \in Process |-> 1]
  /\ inbox = [p \in Process |-> Empty]
  /\ pages = {} /\ granted = {}

Goes(p, to) == stage' = [stage EXCEPT ![p] = to]

\* The deferred listener.Close and server.Close of Login: its port is free.
Leave(p, how) == Goes(p, how) /\ port' = [n \in Ports |-> IF port[n] = p THEN Nobody ELSE port[n]]

-----------------------------------------------------------------------------
(* listenCallback                                                          *)

\* listenCallbackPort: the port is free, or it is in use and its holder is
\* asked to leave.
Listen(p) ==
  /\ stage[p] \in {"new", "waiting"}
  /\ port[tried[p]] = Nobody
  /\ port' = [port EXCEPT ![tried[p]] = p]
  /\ Goes(p, "listening")
  /\ UNCHANGED <<tried, inbox, pages, granted>>

InUse(p) ==
  /\ stage[p] = "new" /\ port[tried[p]] # Nobody
  /\ Goes(p, "cancelling")
  /\ UNCHANGED <<port, tried, inbox, pages, granted>>

\* sendCancelRequest reaches whoever holds the port now, or nobody in time;
\* errCh has room for one error.
Cancel(p) ==
  /\ stage[p] = "cancelling"
  /\ Goes(p, "waiting")
  /\ \/ inbox' = inbox
     \/ port[tried[p]] \in Process /\ inbox' = [inbox EXCEPT ![port[tried[p]]].error = TRUE]
  /\ UNCHANGED <<port, tried, pages, granted>>

\* Ten attempts were in vain: the next port, or none is left.
GiveUp(p) ==
  /\ stage[p] = "waiting" /\ port[tried[p]] # Nobody
  /\ \/ tried[p] = 1 /\ Goes(p, "new") /\ tried' = [tried EXCEPT ![p] = 2]
     \/ tried[p] = 2 /\ Goes(p, "failed") /\ tried' = tried
  /\ UNCHANGED <<port, inbox, pages, granted>>

-----------------------------------------------------------------------------
(* Login                                                                   *)

\* OpenBrowser with the address of authorizeURL: where to bring the code, the
\* state and the challenge.
Open(p) ==
  /\ stage[p] = "listening"
  /\ \/ /\ pages' = pages \cup {[to |-> tried[p], state |-> p, challenge |-> p]}
        /\ Goes(p, "browsing") /\ port' = port
     \/ pages' = pages /\ Leave(p, "failed")
  /\ UNCHANGED <<tried, inbox, granted>>

\* callbackHandler: another state is refused; a code goes into codeCh if there
\* is room for it, a refusal of the user into errCh.
CallbackHandler(p, page, consents) ==
  inbox' =
    IF page.state # p THEN inbox
    ELSE IF ~consents THEN [inbox EXCEPT ![p].error = TRUE]
    ELSE IF inbox[p].code = Nobody THEN [inbox EXCEPT ![p].code = page.challenge] ELSE inbox

\* The user answers a page; the browser goes to the port that the page names.
Answer(page, consents) ==
  /\ page \in pages
  /\ pages' = pages \ {page}
  /\ IF port[page.to] \in Process THEN CallbackHandler(port[page.to], page, consents) ELSE inbox' = inbox
  /\ UNCHANGED <<port, stage, tried, granted>>

\* The select of Login: of a code and an error that both lie there it may take
\* either, and the time may be up.
Select(p) ==
  /\ stage[p] = "browsing"
  /\ \/ /\ inbox[p].code # Nobody
        /\ granted' = granted \cup {[to |-> p, for |-> inbox[p].code]}
        /\ Goes(p, "exchanging") /\ port' = port
     \/ inbox[p].error /\ Leave(p, "cancelled") /\ granted' = granted
     \/ Leave(p, "failed") /\ granted' = granted
  /\ UNCHANGED <<tried, inbox, pages>>

\* exchangeCode: the server takes a code with the verifier of its challenge; the
\* file is saved while the port is still held.
Exchange(p) ==
  /\ stage[p] = "exchanging"
  /\ \/ inbox[p].code = p /\ Leave(p, "saved")
     \/ Leave(p, "failed")
  /\ UNCHANGED <<tried, inbox, pages, granted>>

\* A process is killed: the kernel closes its port.
Die(p) ==
  /\ stage[p] \notin Over
  /\ Leave(p, "failed")
  /\ UNCHANGED <<tried, inbox, pages, granted>>

Next ==
  \/ \E p \in Process : Listen(p) \/ InUse(p) \/ Cancel(p) \/ GiveUp(p) \/ Open(p) \/ Select(p) \/ Exchange(p) \/ Die(p)
  \/ \E page \in pages, consents \in BOOLEAN : Answer(page, consents)

-----------------------------------------------------------------------------
\* A login takes the code of no other, whose page may come to its port; it holds
\* a port from before its page is opened until it has ended, one at most, and
\* no longer; and only what was asked to leave, or refused, is cancelled.
LoginsAreApart ==
  /\ \A grant \in granted : grant.for = grant.to
  /\ \A p \in Process :
       /\ {n \in Ports : port[n] = p} =
            IF stage[p] \in {"listening", "browsing", "exchanging"} THEN {tried[p]} ELSE {}
       /\ stage[p] = "cancelled" => inbox[p].error
       /\ stage[p] = "saved" => [to |-> p, for |-> p] \in granted
  /\ \A page \in pages : stage[page.state] \in {"browsing", "exchanging"} \cup Over
=============================================================================
