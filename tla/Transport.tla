------------------------------ MODULE Transport ------------------------------
(***************************************************************************)
(* One CreateResponse of internal/codex over HTTP: where its requests go   *)
(* (workspace.go, credential_destination.go, routing_cookies.go) and how   *)
(* long it waits for the headers of an answer (client.go).                 *)
(*                                                                         *)
(* Three threads act on a round trip: the caller, the transport that has   *)
(* written the request, and the callbacks of the timers, of which an old   *)
(* one may still wait for the mutex when the timer is set anew.  A finished *)
(* round trip that was redirected or given up is forgotten: its context is *)
(* done and its callbacks find it finished.                                *)
(***************************************************************************)
EXTENDS Integers, FiniteSets

CONSTANTS
  MaxAttempts,    \* responseHeaderAttempts
  MaxDials,       \* bound: connections that fail before one is made
  MaxRedirects    \* bound: redirects followed (ten in the code)

VARIABLES
  client,   \* the configuration of the client and its credential
  dest,     \* responsesDestination
  call,     \* where CreateResponse stands
  trip,     \* the round trip under way, or the last one
  timer,    \* its responseHeaderWait
  parent,   \* the context of the caller is live
  jar,      \* the routing cookies: the names each origin has set
  sent      \* history: the request that left last, with what it carried

vars == <<client, dest, call, trip, timer, parent, jar, sent>>

Official  == "https://chatgpt.com"
Workspace == "https://workspace"
Custom    == "https://custom"
Plain     == "http://chatgpt.com"
Origins   == {Official, Workspace, Custom, Plain}

\* isAllowedChatGPTHost, over https; the workspace is a host of chatgpt.com.
KeepsCookies == {Official, Workspace}

\* isAllowedChatGPTInfrastructureCookie, and the cookies an answer sets.
Infrastructure == {"routing"}
Answered == {"routing", "session"}

NoTimer   == [armed |-> FALSE, due |-> 0, finished |-> FALSE, timedOut |-> FALSE]
NoTrip    == [to |-> Official, live |-> FALSE, reply |-> "none", written |-> FALSE, hops |-> 0]
Nowhere   == [origin |-> Official, routed |-> FALSE]

NoRequest == [kind |-> "none", to |-> Official, cookies |-> {}]

Init ==
  /\ client \in [base : {Official, Custom, Plain}, bootstrap : {Official, Custom}, borrowed : BOOLEAN,
                 account : BOOLEAN, beta : BOOLEAN]
  /\ dest = Nowhere
  /\ call = [at |-> "resolve", beta |-> client.beta, attempts |-> 0, dials |-> 0]
  /\ trip = NoTrip
  /\ timer = NoTimer
  /\ parent = TRUE
  /\ jar = [o \in KeepsCookies |-> {}]
  /\ sent = NoRequest

Goes(to) == call' = [call EXCEPT !.at = to]

-----------------------------------------------------------------------------
(* Destinations                                                            *)

CheckCredentialDestination(to) == client.borrowed => to = Official

WorkspaceRoutingEligible == client.base = client.bootstrap

Cookies(to) == IF to \in KeepsCookies THEN jar[to] ELSE {}

Leaves(kind, to) == sent' = [kind |-> kind, to |-> to, cookies |-> Cookies(to)]

\* An answer sets cookies of the infrastructure and others; the first are kept.
StoreResponseCookies(to) ==
  jar' = IF to \in KeepsCookies
         THEN [jar EXCEPT ![to] = @ \cup (Answered \cap Infrastructure)] ELSE jar

\* resolveResponsesDestination up to the accounts check.
Resolve ==
  /\ call.at = "resolve"
  /\ \/ /\ ~CheckCredentialDestination(client.base) \/ ~CheckCredentialDestination(client.bootstrap)
        /\ Goes("failed") /\ UNCHANGED <<dest, sent>>
     \/ /\ CheckCredentialDestination(client.base) /\ CheckCredentialDestination(client.bootstrap)
        /\ IF client.account /\ WorkspaceRoutingEligible
           THEN Goes("accounts") /\ Leaves("accounts", client.base) /\ dest' = dest
           ELSE Goes("send") /\ dest' = [dest EXCEPT !.origin = client.base] /\ sent' = sent
  /\ UNCHANGED <<client, trip, timer, parent, jar>>

\* applyWorkspaceRouting: the place may be left to the client; the routing, of
\* which only a header is made, must be one that is known.
ApplyWorkspaceRouting(backend) ==
  [origin |-> IF backend = "NO_CONSTRAINT" THEN client.base ELSE backend, routed |-> TRUE]

\* The account is listed, with a place and a routing that are valid or not.
AccountsAnswer(backend, routing) ==
  /\ call.at = "accounts"
  /\ StoreResponseCookies(client.base)
  /\ LET found == ApplyWorkspaceRouting(backend) IN
     IF backend # Plain /\ routing = "known" /\ CheckCredentialDestination(found.origin)
     THEN dest' = found /\ Goes("send")
     ELSE dest' = dest /\ Goes("failed")
  /\ UNCHANGED <<client, trip, timer, parent, sent>>

\* No answer, a redirect, which is not followed, or an account that is missing.
AccountsFails ==
  /\ call.at = "accounts"
  /\ Goes("failed")
  /\ UNCHANGED <<client, dest, trip, timer, parent, jar, sent>>

-----------------------------------------------------------------------------
(* responseHeaderWait                                                      *)

Reset(w) == IF w.finished \/ w.timedOut THEN w ELSE [w EXCEPT !.armed = TRUE]

FinishWait(w) == [w EXCEPT !.finished = TRUE, !.armed = FALSE]

\* The time is up; the callback has yet to get the mutex.
Expire ==
  /\ timer.armed /\ timer.due < 2
  /\ timer' = [timer EXCEPT !.armed = FALSE, !.due = @ + 1]
  /\ UNCHANGED <<client, dest, call, trip, parent, jar, sent>>

\* Variant: a callback does not look whether the round trip is over.
CallbackAnyway ==
  /\ timer.due > 0
  /\ timer' = [timer EXCEPT !.due = @ - 1, !.timedOut = TRUE]
  /\ trip' = [trip EXCEPT !.live = FALSE]
  /\ UNCHANGED <<client, dest, call, parent, jar, sent>>

Callback ==
  /\ timer.due > 0
  /\ timer' = [timer EXCEPT !.due = @ - 1, !.timedOut = @ \/ ~timer.finished]
  /\ trip' = [trip EXCEPT !.live = @ /\ timer.finished]
  /\ UNCHANGED <<client, dest, call, parent, jar, sent>>

\* WroteRequest: also after an early answer, or when the round trip has returned.
WroteRequest ==
  /\ call.at \in {"flight", "returned", "reading"}
  /\ ~trip.written /\ trip.reply # "dial"
  /\ trip' = [trip EXCEPT !.written = TRUE]
  /\ timer' = Reset(timer)
  /\ UNCHANGED <<client, dest, call, parent, jar, sent>>

-----------------------------------------------------------------------------
(* createResponse, its redirects and its repetitions                       *)

\* Closing the body of an answer, if there is one, ends its context.
HasBody == trip.reply \in {"ok", "redirect", "bad request", "refused"}
CloseBody == trip' = [NoTrip EXCEPT !.live = trip.live /\ ~HasBody]

\* RoundTrip to a place: nothing leaves when the place is not allowed.  The
\* answer that led there has been closed.
RoundTrip(to, hops) ==
  IF CheckCredentialDestination(to)
  THEN /\ trip' = [NoTrip EXCEPT !.to = to, !.live = TRUE, !.hops = hops]
       /\ timer' = Reset(NoTimer)
       /\ Leaves("response", to)
       /\ Goes("flight")
  ELSE Goes("failed") /\ CloseBody /\ UNCHANGED <<timer, sent>>

Send ==
  /\ call.at = "send"
  /\ RoundTrip(dest.origin, 0)
  /\ UNCHANGED <<client, dest, parent, jar>>

\* The transport returns an answer, or an error when no connection could be
\* made, when it broke, or when the context is over.
Answers(reply) ==
  /\ call.at = "flight" /\ trip.reply = "none"
  /\ reply = "dial" => trip.written = FALSE /\ call.dials < MaxDials
  /\ trip' = [trip EXCEPT !.reply = reply]
  /\ IF reply \in {"dial", "broken"} THEN jar' = jar ELSE StoreResponseCookies(trip.to)
  /\ UNCHANGED <<client, dest, call, timer, parent, sent>>

\* What the round trip comes to; a caller that is gone is not told of a timeout.
Outcome(w) ==
  IF w.timedOut THEN IF parent THEN "timeout" ELSE "cancelled" ELSE trip.reply

\* Whether the context is left to whoever closes the body.
Keeps(w) == ~w.timedOut /\ trip.reply \notin {"dial", "broken"}

RoundTripReturns ==
  /\ call.at = "flight" /\ trip.reply # "none"
  /\ timer' = FinishWait(timer)
  /\ trip' = [trip EXCEPT !.reply = Outcome(timer), !.live = @ /\ Keeps(timer)]
  /\ Goes("returned")
  /\ UNCHANGED <<client, dest, parent, jar, sent>>

Follows == trip.reply = "redirect" /\ ~dest.routed

\* CheckRedirect allows it: the body is closed and the next round trip begins.
Redirect(to) ==
  /\ call.at = "returned" /\ Follows
  /\ IF trip.hops < MaxRedirects
     THEN RoundTrip(to, trip.hops + 1)
     ELSE Goes("failed") /\ CloseBody /\ UNCHANGED <<timer, sent>>
  /\ UNCHANGED <<client, dest, parent, jar>>

Accept ==
  /\ call.at = "returned" /\ trip.reply = "ok"
  /\ Goes("reading")
  /\ UNCHANGED <<client, dest, trip, timer, parent, jar, sent>>

\* createResponseWithHeaderTimeoutRetry and the second try of CreateResponse:
\* no connection, a timeout, or a 400 that the beta header may have caused.
RetriesDial == trip.reply = "dial" /\ parent
RetriesTimeout == trip.reply = "timeout" /\ parent /\ call.attempts + 1 < MaxAttempts
RetriesPlain == trip.reply = "bad request" /\ call.beta /\ call.attempts + 1 < MaxAttempts

Refused == call.at = "returned" /\ trip.reply # "ok" /\ ~Follows

Retry ==
  /\ Refused /\ (RetriesDial \/ RetriesTimeout \/ RetriesPlain)
  /\ call' = [call EXCEPT !.at = "send", !.dials = IF RetriesDial THEN @ + 1 ELSE 0,
                          !.attempts = IF RetriesDial THEN @ ELSE @ + 1,
                          !.beta = @ /\ ~RetriesPlain]
  /\ CloseBody
  /\ UNCHANGED <<client, dest, timer, parent, jar, sent>>

Fail ==
  /\ Refused /\ ~(RetriesDial \/ RetriesTimeout \/ RetriesPlain)
  /\ Goes("failed") /\ CloseBody /\ timer' = NoTimer
  /\ UNCHANGED <<client, dest, parent, jar, sent>>

\* The stream has been read, or its reader gives up.
CloseResponse ==
  /\ call.at = "reading"
  /\ Goes("done") /\ CloseBody /\ timer' = NoTimer
  /\ UNCHANGED <<client, dest, parent, jar, sent>>

\* The caller's context ends, and that of its round trip with it.
Cancel ==
  /\ parent /\ parent' = FALSE
  /\ UNCHANGED <<client, dest, call, trip, timer, jar, sent>>

Next ==
  \/ Resolve \/ AccountsFails \/ Expire \/ Callback \/ WroteRequest
  \/ Send \/ RoundTripReturns \/ Accept \/ Retry \/ Fail \/ CloseResponse \/ Cancel
  \/ \E backend \in {"NO_CONSTRAINT", Workspace, Plain}, routing \in {"known", "unknown"} :
       AccountsAnswer(backend, routing)
  \/ \E reply \in {"ok", "redirect", "bad request", "refused", "dial", "broken"} : Answers(reply)
  \/ \E to \in Origins : Redirect(to)

-----------------------------------------------------------------------------
\* A stream whose headers came is broken off by its reader or its caller only,
\* however late the timers and the writer of the request are.
ResponsesAreNotCutOff == call.at = "reading" => trip.live

\* Whenever a call has ended or tries again, what it had asked before is over:
\* no request is left behind to be answered for nobody.
NothingIsLeftBehind ==
  call.at \in {"resolve", "accounts", "send", "failed", "done"} => ~trip.live

\* A borrowed login and the cookies of ChatGPT only go where they belong, and a
\* workspace with an origin of its own is asked there and nowhere else.
RequestsGoHome ==
  /\ client.borrowed => sent.to = Official
  /\ "session" \notin sent.cookies
  /\ sent.cookies # {} => sent.to \in KeepsCookies
  /\ sent.kind = "response" /\ dest.routed => sent.to = dest.origin
=============================================================================
