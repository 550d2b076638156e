--------------------------- MODULE MessageExchange ---------------------------
(***************************************************************************)
(* One /v1/messages request from the call of handleMessages to its return: *)
(* which requests it sends upstream, what it retries and what the client   *)
(* sees (proxy/messages.go and the retry loops of codex/client.go).  The   *)
(* conversation, the credentials and the network answer as they like; the  *)
(* content of messages is abstracted to what decides the next step.        *)
(***************************************************************************)
EXTENDS Integers

CONSTANTS
  Attempts,    \* remainingGenerationAttempts at the start (2 in the code)
  MaxDials,    \* bound: how many connections cannot be established
  MaxFollows   \* bound: how often the model asks to be sampled again

ASSUME BoundsAssumption ==
  Attempts \in Nat \ {0} /\ MaxDials \in Nat /\ MaxFollows \in Nat

VARIABLES
  asked,       \* the request: see Requests
  httpOnly,    \* Server.httpOnly[thread]
  entry,       \* Server.ws[thread] is there
  chain,       \* Server.chains[key]: 0 none, Old, or the response recorded
  useWS,       \* allowWebSocket, and shouldUseCodexWebSocket but for httpOnly: see Init
  left,        \* remainingGenerationAttempts
  retried,     \* the reading was restarted
  ctx,         \* the client is there
  pc,          \* where the handler stands
  err,         \* the error at hand, "none" for none
  call,        \* the running call of createResponse: see Calls
  body,        \* the response being read: see Bodies
  net          \* what happened on the network: see Nets

vars == <<asked, httpOnly, entry, chain, useWS, left, retried, ctx, pc, err, call, body, net>>
thread == <<httpOnly, entry, chain>>
result == <<pc, err, left>>

Old == -1   \* the chain of an earlier turn

\* streaming, usedImplicitResume, and CLAUDODEX_HTTP_BETA_HEADER is set
Requests == [streaming : BOOLEAN, resume : BOOLEAN, beta : BOOLEAN]

\* The loops of Client.CreateResponse: max attempts for both, base of them
\* spent when the one without the beta header starts, att spent since.
Loops == [max : Nat, base : Nat, att : Nat]
NewLoop(n) == [max |-> n, base |-> 0, att |-> 0]

\* for which step of the handler, with a previous_response_id or without,
\* attemptsUsed, authRefreshed
Calls == [for : {"first", "limited", "full", "again", "follow"}, delta : BOOLEAN,
          used : Nat, fresh : BOOLEAN, loop : Loops]

\* Whether the client got output, how the reducer ended the response, what it
\* came over, and how many final answers the client got.
Bodies == [wrote : BOOLEAN, ending : {"none", "completed", "failed", "follow"},
           transport : {"none", "websocket", "http"}, answers : Nat]

\* Requests that reached the upstream, responses it opened, connections that
\* could not be established, continuations; whether a header timeout happened,
\* whether a body broke after its last event.
Nets == [sent : Nat, opened : Nat, dials : 0..MaxDials, follows : 0..MaxFollows,
         timedOut : BOOLEAN, brokeLate : BOOLEAN]

Refusals == {"400", "401", "429", "flex", "transport", "other"}
Failures == {"retryable", "plain", "terminal", "content_filter"}
Errors == Refusals \union Failures \union
  {"none", "auth", "ctx", "tooBig", "notFound", "budget", "timeout", "write", "ended"}

\* The base URL, the environment, the tools and the subagent decide useWS, and
\* they stay.  That a delta may use a WebSocket by itself changes nothing: a
\* delta is made only where there is a conversation (messages.go:141), and the
\* first one of a thread is made for a request that is none.
Init ==
  /\ asked \in Requests
  /\ httpOnly \in BOOLEAN /\ entry \in BOOLEAN /\ chain \in {0, Old}
  /\ httpOnly => ~entry
  /\ asked.resume => entry /\ chain = Old
  /\ useWS \in BOOLEAN
  /\ left = Attempts /\ retried = FALSE /\ ctx = "live"
  /\ pc = "auth" /\ err = "none"
  /\ call = [for |-> "first", delta |-> asked.resume, used |-> 0, fresh |-> FALSE,
             loop |-> NewLoop(0)]
  /\ body = [wrote |-> FALSE, ending |-> "none", transport |-> "none", answers |-> 0]
  /\ net = [sent |-> 0, opened |-> 0, dials |-> 0, follows |-> 0,
            timedOut |-> FALSE, brokeLate |-> FALSE]

Least(a, b) == IF a < b THEN a ELSE b
Left(n) == IF n < left THEN left - n ELSE 0     \* remainingAttempts() with n used

\* createResponse returns: e is the error, n the attempts it reports.
Finish(e, n) ==
  /\ pc' = call.for /\ err' = e
  /\ left' = Left(n)

\* createResponse is called for the request with or without a delta.
Call(delta, for) ==
  /\ pc' = "auth" /\ err' = "none"
  /\ call' = [for |-> for, delta |-> delta, used |-> 0, fresh |-> FALSE, loop |-> NewLoop(0)]

Go(place) == pc' = place /\ UNCHANGED <<err, left>>

-----------------------------------------------------------------------------
(* createCodexResponseWithTransport: credentials and the WebSocket         *)

\* freshAuth; a failure retires the conversation, one of the installation id
\* does not.
Auth ==
  /\ pc = "auth"
  /\ \/ Go(IF useWS /\ ~httpOnly THEN "ws" ELSE "http") /\ UNCHANGED entry
     \/ Finish("auth", call.used) /\ entry' = FALSE
     \/ Finish("other", call.used) /\ UNCHANGED entry
  /\ UNCHANGED <<asked, httpOnly, chain, useWS, retried, ctx, call, body, net>>

\* The request is written on the conversation.
WebSocketOpens ==
  /\ pc = "ws"
  /\ entry' = TRUE
  /\ Finish("none", call.used + 1)
  /\ body' = [body EXCEPT !.transport = "websocket"]
  /\ net' = [net EXCEPT !.sent = @ + 1, !.opened = @ + 1]
  /\ UNCHANGED <<asked, httpOnly, chain, useWS, retried, ctx, call>>

\* Over the size preferred for a WebSocket: found before anything is sent.
\* A delta goes back to the handler, which allows no WebSocket any more.
WebSocketTooLarge ==
  /\ pc = "ws"
  /\ entry' = FALSE /\ httpOnly' = TRUE
  /\ \/ call.delta /\ Finish("tooBig", call.used) /\ useWS' = FALSE
     \/ ~call.delta /\ Go("http") /\ UNCHANGED useWS
  /\ UNCHANGED <<asked, chain, retried, ctx, call, body, net>>

\* The conversation is in use: a full request does not wait for it.
WebSocketBusy ==
  /\ pc = "ws" /\ ~call.delta
  /\ entry' = TRUE /\ Go("http")
  /\ UNCHANGED <<asked, httpOnly, chain, useWS, retried, ctx, call, body, net>>

\* A refused upgrade, a failed write or a cancelled wait: one attempt.  A 401
\* is refreshed once; otherwise a full request goes on over HTTP, after the
\* wait the refusal asks for.
WebSocketFails(e) ==
  LET n == call.used + 1 IN
  /\ pc = "ws"
  /\ entry' = FALSE
  /\ call' = [call EXCEPT !.used = n]
  /\ IF e = "401" /\ ~call.fresh /\ Left(n) > 0
     THEN Go("wsRefresh")
     ELSE IF call.delta \/ Left(n) = 0
     THEN Finish(e, n)
     ELSE Go("http") \/ (ctx = "gone" /\ Finish("ctx", n))
  /\ UNCHANGED <<asked, httpOnly, chain, useWS, retried, ctx, body, net>>

\* refreshCredentials: a delta goes back to its WebSocket.
Refresh ==
  /\ pc \in {"wsRefresh", "httpRefresh"}
  /\ \/ /\ Go(IF pc = "httpRefresh" THEN "post" ELSE IF call.delta THEN "ws" ELSE "http")
        /\ call' = [call EXCEPT !.fresh = TRUE, !.loop = NewLoop(Left(call.used))]
        /\ UNCHANGED entry
     \/ Finish("auth", call.used) /\ entry' = FALSE /\ UNCHANGED call
  /\ UNCHANGED <<asked, httpOnly, chain, useWS, retried, ctx, body, net>>

-----------------------------------------------------------------------------
(* Client.CreateResponse                                                   *)

\* (variant) the check for a delta is left out.
EnterHttpAnyway ==
  /\ pc = "http"
  /\ IF Left(call.used) = 0 THEN Finish("budget", call.used) /\ UNCHANGED call
     ELSE Go("post") /\ call' = [call EXCEPT !.loop = NewLoop(Left(call.used))]
  /\ UNCHANGED <<asked, thread, useWS, retried, ctx, body, net>>

\* A delta cannot be sent over HTTP, and nothing without an attempt left.
EnterHttp ==
  /\ pc = "http"
  /\ IF call.delta THEN Finish("notFound", call.used) /\ UNCHANGED call
     ELSE IF Left(call.used) = 0 THEN Finish("budget", call.used) /\ UNCHANGED call
     ELSE Go("post") /\ call' = [call EXCEPT !.loop = NewLoop(Left(call.used))]
  /\ UNCHANGED <<asked, thread, useWS, retried, ctx, body, net>>

Spent == call.loop.base + call.loop.att + 1
Fallback == call.loop.base > 0

\* What an error counts for (CreateResponseAttempts): an error of the first
\* loop carries no count unless it is a header timeout.
Counted(e) == IF Fallback \/ (e = "timeout" /\ ctx = "live") THEN Spent ELSE 1

\* CreateResponse returned an error, counted as n attempts.
HttpError(e, n) ==
  LET total == call.used + Least(n, Left(call.used)) IN
  /\ call' = [call EXCEPT !.used = total]
  /\ IF e = "401" /\ ~call.fresh /\ Left(total) > 0
     THEN Go("httpRefresh")
     ELSE Finish(e, total)

PostOpens ==
  /\ pc = "post"
  /\ Finish("none", call.used + Least(Spent, Left(call.used)))
  /\ body' = [body EXCEPT !.transport = "http"]
  /\ net' = [net EXCEPT !.sent = @ + 1, !.opened = @ + 1]
  /\ UNCHANGED <<asked, thread, useWS, retried, ctx, call>>

\* No destination: CreateResponse fails before its loops.
NoDestination ==
  /\ pc = "post" /\ Spent = 1
  /\ HttpError("other", 1)
  /\ UNCHANGED <<asked, thread, useWS, retried, ctx, body, net>>

\* No connection: wait and dial again, for as long as the client waits.
DialFails ==
  /\ pc = "post"
  /\ \/ /\ ctx = "live" /\ net.dials < MaxDials
        /\ net' = [net EXCEPT !.dials = @ + 1]
        /\ UNCHANGED <<result, call>>
     \/ /\ ctx = "gone" /\ UNCHANGED net
        /\ \E n \in (IF Fallback THEN {Spent - 1, Spent} ELSE {1}) : HttpError("ctx", n)
  /\ UNCHANGED <<asked, thread, useWS, retried, ctx, body>>

\* No response headers in time: sent again while attempts are left.
PostTimesOut ==
  /\ pc = "post"
  /\ net' = [net EXCEPT !.sent = @ + 1, !.timedOut = TRUE]
  /\ IF Spent < call.loop.max /\ ctx = "live"
     THEN call' = [call EXCEPT !.loop.att = @ + 1] /\ UNCHANGED result
     ELSE HttpError("timeout", Counted("timeout"))
  /\ UNCHANGED <<asked, thread, useWS, retried, ctx, body>>

\* A refusal; a 400 is tried again without the beta header.
PostRefused(e) ==
  /\ pc = "post"
  /\ net' = [net EXCEPT !.sent = @ + 1]
  /\ IF e = "400" /\ asked.beta /\ ~Fallback /\ Spent < call.loop.max
     THEN call' = [call EXCEPT !.loop.base = Spent, !.loop.att = 0] /\ UNCHANGED result
     ELSE HttpError(e, Counted(e))
  /\ UNCHANGED <<asked, thread, useWS, retried, ctx, body>>

-----------------------------------------------------------------------------
(* handleMessages: what follows the first call                             *)

\* A rate limit is waited out and the same request sent once more.
Limited == pc = "first" /\ err = "429" /\ ctx = "live" /\ left > 0

RetryLimited ==
  /\ Limited
  /\ Call(call.delta, "limited")
  /\ UNCHANGED <<asked, thread, useWS, left, retried, ctx, body, net>>

Resumable == pc \in {"first", "limited"} /\ asked.resume /\ left > 0 /\ err # "flex"

\* A refused implicit resume is replaced by the full request.
ResendFull ==
  /\ err # "none" /\ Resumable /\ ~Limited
  /\ chain' = 0 /\ entry' = FALSE
  /\ Call(FALSE, "full")
  /\ UNCHANGED <<asked, httpOnly, useWS, left, retried, ctx, body, net>>

\* The client gets an error status.
Refuse ==
  /\ pc \in {"first", "limited", "full", "again"} /\ err # "none"
  /\ ~Resumable /\ ~Limited
  /\ pc' = "done" /\ body' = [body EXCEPT !.answers = @ + 1]
  /\ UNCHANGED <<asked, thread, useWS, left, retried, ctx, err, call, net>>

\* The body is read, by a new reducer or by the one that was to follow up.
Open ==
  /\ pc \in {"first", "limited", "full", "again", "follow"} /\ err = "none"
  /\ pc' = "reading" /\ body' = [body EXCEPT !.ending = "none"]
  /\ UNCHANGED <<asked, thread, useWS, left, retried, ctx, err, call, net>>

-----------------------------------------------------------------------------
(* streamAnthropicWithSchemas and writeNonStreamingMessageWithSchemas      *)

\* preferHTTP and fallbackFromLargeWebSocket
LeaveWebSocket(e) ==
  IF e = "tooBig"
  THEN httpOnly' = TRUE /\ entry' = FALSE /\ useWS' = FALSE
  ELSE UNCHANGED <<httpOnly, entry, useWS>>

\* (variant) every error goes back to the handler.
StreamErrorReturned(e) ==
  /\ LeaveWebSocket(e)
  /\ err' = e
  /\ pc' = "failed" /\ UNCHANGED body

\* The body cannot be turned into a message.  After output the client gets an
\* error event and that is all; before, the handler decides.
StreamError(e) ==
  /\ LeaveWebSocket(e)
  /\ err' = e
  /\ IF body.wrote
     THEN pc' = "done" /\ body' = [body EXCEPT !.answers = @ + 1]
     ELSE pc' = "failed" /\ UNCHANGED body

Reading == pc = "reading"
Unended == Reading /\ body.ending = "none"

Output ==
  /\ Unended /\ asked.streaming
  /\ body' = [body EXCEPT !.wrote = TRUE]
  /\ UNCHANGED <<asked, thread, useWS, result, retried, ctx, call, net>>

\* previous_response_not_found, before output
PreviousNotFound ==
  /\ Unended /\ ~body.wrote
  /\ StreamError("notFound")
  /\ UNCHANGED <<asked, chain, left, retried, ctx, call, net>>

\* retryEarlyUpstreamErrors: off once the reading was restarted
RetryEarly == asked.resume /\ ~retried

\* The failures of a stream that are returned instead of being shown.
Returned(code) ==
  \/ code = "content_filter"
  \/ code # "terminal" /\ ~body.wrote /\ (code = "retryable" \/ RetryEarly)

ReturnFailure(code) ==
  /\ Unended /\ asked.streaming /\ Returned(code)
  /\ StreamError(code)
  /\ UNCHANGED <<asked, chain, left, retried, ctx, call, net>>

\* A failure that is shown to the client; a terminal one ends the reading.
ShowFailure(code) ==
  /\ Unended /\ asked.streaming /\ ~Returned(code)
  /\ body' = [body EXCEPT !.wrote = TRUE, !.answers = @ + 1, !.ending = "failed"]
  /\ pc' = IF code = "terminal" THEN "done" ELSE "reading"
  /\ UNCHANGED <<asked, thread, useWS, left, retried, ctx, err, call, net>>

\* Without a stream a failure is kept until the body has been read.
KeepFailure(code) ==
  /\ Unended /\ ~asked.streaming
  /\ body' = [body EXCEPT !.ending = "failed"]
  /\ err' = code
  /\ pc' = IF code = "terminal" THEN "failed" ELSE "reading"
  /\ UNCHANGED <<asked, thread, useWS, left, retried, ctx, call, net>>

\* The response is complete; a stream gets its message_stop.
Complete ==
  /\ Unended
  /\ body' = [body EXCEPT !.ending = "completed", !.wrote = asked.streaming,
                          !.answers = IF asked.streaming THEN @ + 1 ELSE @]
  /\ UNCHANGED <<asked, thread, useWS, result, retried, ctx, call, net>>

\* ... or the model asks to be sampled again.
AskFollowUp ==
  /\ Unended /\ net.follows < MaxFollows
  /\ body' = [body EXCEPT !.ending = "follow"]
  /\ UNCHANGED <<asked, thread, useWS, result, retried, ctx, call, net>>

\* The continuation, by reference on the same WebSocket if the response has
\* an id.
FollowUp ==
  /\ Reading /\ body.ending = "follow"
  /\ \E delta \in {FALSE, body.transport = "websocket" /\ entry} : Call(delta, "follow")
  /\ body' = [body EXCEPT !.ending = "none"]
  /\ net' = [net EXCEPT !.follows = @ + 1]
  /\ UNCHANGED <<asked, thread, useWS, left, retried, ctx>>

FollowUpRefused ==
  /\ pc = "follow" /\ err # "none"
  /\ StreamError(err)
  /\ UNCHANGED <<asked, chain, left, retried, ctx, call, net>>

\* The body breaks: a transport error that can be retried, close code 1009,
\* an event that cannot be read, or a write to a client that left.
BodyBreaks(e) ==
  /\ Reading
  /\ e = "tooBig" => body.transport = "websocket"
  /\ e = "write" => body.wrote /\ ctx = "gone"
  /\ StreamError(e)
  /\ net' = [net EXCEPT !.brokeLate = @ \/ body.ending \in {"completed", "failed"}]
  /\ UNCHANGED <<asked, chain, left, retried, ctx, call>>

\* (variant) the chain is recorded for every response that ended.
RecordAny ==
  /\ Reading /\ body.ending \in {"completed", "failed"}
  /\ chain' \in {chain, net.opened}
  /\ pc' = "done"
  /\ body' = [body EXCEPT !.answers = IF asked.streaming THEN @ ELSE @ + 1]
  /\ UNCHANGED <<asked, httpOnly, entry, useWS, left, retried, ctx, err, call, net>>

\* The end of the body after a complete response: record the chain, if the
\* response had an id.
Record ==
  /\ Reading /\ body.ending = "completed"
  /\ chain' \in {chain, net.opened}
  /\ pc' = "done"
  /\ body' = [body EXCEPT !.answers = IF asked.streaming THEN @ ELSE @ + 1]
  /\ UNCHANGED <<asked, httpOnly, entry, useWS, left, retried, ctx, err, call, net>>

\* ... after a failure
EndFailed ==
  /\ Reading /\ body.ending = "failed"
  /\ pc' = IF asked.streaming THEN "done" ELSE "failed"
  /\ UNCHANGED <<asked, thread, useWS, left, retried, ctx, err, call, body, net>>

\* ... before either
EndEarly ==
  /\ Unended
  /\ StreamError("ended")
  /\ UNCHANGED <<asked, chain, left, retried, ctx, call, net>>

\* shouldRetryStream
ShouldRetry(e) ==
  /\ ctx = "live"
  /\ \/ e \in {"tooBig", "content_filter", "retryable", "transport"}
     \/ asked.resume /\ e # "terminal"

\* (variant) the budget is not looked at.
RetriableAlways == ShouldRetry(err) /\ ~retried

Retriable == ShouldRetry(err) /\ ~retried /\ left > 0

\* The full request is sent once more, and read anew.
Restart ==
  /\ pc = "failed" /\ Retriable
  /\ chain' = 0 /\ entry' = FALSE
  /\ retried' = TRUE
  /\ body' = [body EXCEPT !.ending = "none"]
  /\ Call(FALSE, "again")
  /\ UNCHANGED <<asked, httpOnly, useWS, left, ctx, net>>

\* (variant) an error that could be retried is never the answer.
GiveUpUnretriable ==
  /\ pc = "failed" /\ ~ShouldRetry(err)
  /\ pc' = "done" /\ body' = [body EXCEPT !.answers = @ + 1]
  /\ UNCHANGED <<asked, thread, useWS, left, retried, ctx, err, call, net>>

\* Nothing was written, so the error becomes the answer.
GiveUp ==
  /\ pc = "failed" /\ ~Retriable
  /\ pc' = "done" /\ body' = [body EXCEPT !.answers = @ + 1]
  /\ UNCHANGED <<asked, thread, useWS, left, retried, ctx, err, call, net>>

-----------------------------------------------------------------------------
ClientLeaves ==
  /\ ctx = "live" /\ pc # "done"
  /\ ctx' = "gone"
  /\ UNCHANGED <<asked, thread, useWS, result, retried, call, body, net>>

\* Another request of the thread retires its WebSocket, for good or not.
OthersRetire ==
  /\ pc # "done"
  /\ httpOnly' \in {httpOnly, TRUE} /\ entry' = FALSE
  /\ UNCHANGED <<asked, chain, useWS, result, retried, ctx, call, body, net>>

Done == pc = "done" /\ UNCHANGED vars

Create ==
  \/ Auth \/ WebSocketOpens \/ WebSocketTooLarge \/ WebSocketBusy
  \/ \E e \in {"401", "429", "flex", "other"} : WebSocketFails(e)
  \/ Refresh \/ EnterHttp \/ NoDestination \/ PostOpens \/ DialFails \/ PostTimesOut
  \/ \E e \in Refusals : PostRefused(e)

Handle ==
  \/ RetryLimited \/ ResendFull \/ Refuse \/ Open
  \/ Output \/ PreviousNotFound
  \/ \E code \in Failures : ReturnFailure(code) \/ ShowFailure(code) \/ KeepFailure(code)
  \/ Complete \/ AskFollowUp \/ FollowUp \/ FollowUpRefused
  \/ \E e \in {"transport", "tooBig", "write", "other"} : BodyBreaks(e)
  \/ Record \/ EndFailed \/ EndEarly \/ Restart \/ GiveUp

Next == Create \/ Handle \/ ClientLeaves \/ OthersRetire \/ Done

Spec == Init /\ [][Next]_vars

\* The handler runs and every call it makes returns: header waits time out,
\* the upstream ends its bodies, and connections fail finitely often.
FairSpec == Spec /\ WF_vars(Create \/ Handle)

-----------------------------------------------------------------------------
TypeOK ==
  /\ asked \in Requests
  /\ httpOnly \in BOOLEAN /\ entry \in BOOLEAN /\ chain \in Nat \union {Old}
  /\ useWS \in BOOLEAN /\ left \in 0..Attempts /\ retried \in BOOLEAN
  /\ ctx \in {"live", "gone"} /\ err \in Errors
  /\ pc \in {"auth", "ws", "wsRefresh", "http", "post", "httpRefresh", "reading",
             "failed", "done", "first", "limited", "full", "again", "follow"}
  /\ call \in Calls /\ body \in Bodies /\ net \in Nets
\* No error is counted for less than it cost: as long as no header wait times
\* out, the handler sends no more generation requests than its budget, and one
\* for each continuation (a continuation over the WebSocket is not stopped by
\* an empty budget).  attemptsUsed of every call and
\* remainingGenerationAttempts of the handler keep this together.
BudgetWithoutTimeout == ~net.timedOut => net.sent =< Attempts + net.follows

\* "Refresh through the same authority before reconnecting, within the original
\* generation budget": a request that is not continued reaches the upstream at
\* most Attempts times, header timeouts or not.
SentWithinBudget == net.follows = 0 => net.sent =< Attempts

\* A request with a previous_response_id is never posted over HTTP, whatever
\* other requests of the thread do to the transport after it was chosen.
DeltaOnlyOverWebSocket == pc = "post" => ~call.delta

AnsweredOnce ==
  pc = "done" => body.answers >= 1 /\ (~net.brokeLate => body.answers = 1)

FailureUnseen ==
  pc = "failed" \/ (pc = "auth" /\ call.for = "again") => ~body.wrote /\ body.answers = 0

\* A request that is done was answered, and once: with a message, with an error
\* event or with an error status.  Excepted is a body that breaks after its
\* last event, which adds an error event.  What the handler answers with a
\* status, or sends again in full, has shown the client nothing before.
OneAnswer == AnsweredOnce /\ FailureUnseen

\* The chain a request leaves behind is its last response, complete, and the
\* one its client was told of.
RecordedAnswer ==
  chain > 0 => /\ pc = "done" /\ err = "none" /\ body.answers = 1
               /\ chain = net.opened /\ body.ending = "completed"

\* Every request is answered in the end: no retry, refresh or fallback brings
\* the handler around forever, none leaves it without a way on.
EveryRequestAnswered == <>(pc = "done")
=============================================================================
