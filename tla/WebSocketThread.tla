--------------------------- MODULE WebSocketThread ---------------------------
(***************************************************************************)
(* The WebSocket conversation of one thread of the proxy and the requests  *)
(* that share it: codex/websocket.go (WebSocketConversation), the map of   *)
(* conversations in proxy/server.go and what proxy/messages.go does with   *)
(* them.  A request is served by a handler goroutine; each response it     *)
(* opens on a WebSocket adds a stream goroutine, which owns the            *)
(* conversation's mutex from CreateResponse until the response ended, and  *)
(* a watcher goroutine, which closes the connection when the request's     *)
(* context ends.  HTTP exchanges are one step; credentials are a number.   *)
(***************************************************************************)
EXTENDS Integers, Sequences, FiniteSets

CONSTANTS
  Request,    \* the requests Claude Code sends on the thread
  Endings,    \* how the upstream ends a response: see EndingsAssumption
  Budget,     \* remainingGenerationAttempts at the start of each request; also
              \* the bound on the responses it opens
  MaxId,      \* bound: conversations and connections in use at one time
  MaxToken,   \* bound: how often the access token changes
  MaxDrops    \* bound: how often the network closes a connection

ASSUME EndingsAssumption ==
  Endings \subseteq {"completed", "failed", "incomplete"}
ASSUME NumbersAssumption ==
  /\ Budget \in [Request -> Nat \ {0}] /\ MaxId \in Nat \ {0}
  /\ MaxToken \in Nat /\ MaxDrops \in Nat

\* A response some request opens on a WebSocket: the n-th of request r.
Exchange == UNION {{r} \X (1..Budget[r]) : r \in Request}

\* Conversations and connections.  0 is nil; Http is a chain recorded over HTTP.
Id   == 1..MaxId
Http == MaxId + 1

Messages == {"event"} \cup Endings
None == [what |-> "none", for |-> <<>>]

VARIABLES
  entry,      \* Server.ws[thread]
  httpOnly,   \* Server.httpOnly[thread]
  chain,      \* Server.chains[thread]: the connection its response came from
  mu,         \* mu[c]: who holds WebSocketConversation.mu, <<>> for nobody
  wconn,      \* wconn[c]: WebSocketConversation.conn
  wkey,       \* wkey[c]: the token in WebSocketConversation.key
  open,       \* open[k]: connection k is open
  answering,  \* answering[k]: the exchanges the upstream has yet to answer
  token,      \* the current access token
  drops,      \* how many connections the network closed
  ctx,        \* ctx[r]: the request context
  req,        \* req[r]: the handler, see Handlers
  ex          \* ex[e]: the stream and the watcher of a response, see Exchanges

serverVars == <<entry, httpOnly, chain>>
convVars   == <<mu, wconn, wkey>>
netVars    == <<open, answering>>
envVars    == <<token, drops, ctx>>
vars == <<serverVars, convVars, netVars, envVars, req, ex>>

Handlers ==
  [pc       : {"start", "create", "again", "lock", "locked", "write", "close", "prefer",
               "closing", "refused", "http", "streaming", "done", "returned"},
   after    : Seq({"refused", "http", "again", "create", "close", "prefer", "done"}),
                              \* what it does once the conversation is closed
   victim   : 0..MaxId,       \* the conversation it is closing
   delta    : BOOLEAN,        \* the request carries a previous_response_id
   prev     : 0..Http,        \* the connection of that previous response
   conv     : 0..MaxId,       \* the conversation it uses
   conn     : 0..MaxId,       \* the connection of its response
   left     : Nat,            \* remainingGenerationAttempts
   try      : Nat,            \* how many responses it opened
   finished : {"none"} \cup Endings,  \* the message that made the reducer done
   retried  : BOOLEAN]        \* it was restarted after a stream error

Exchanges ==
  [stream  : {"off", "reading", "writing", "closing", "unlocking", "ended"},
   kind    : [what : Messages \cup {"none"}, for : Exchange \cup {<<>>}],
                              \* the message it has read, and whom that answers
   pipe    : {"off", "open", "eof", "error", "readerClosed"},
   link    : 0..MaxId,        \* its connection
   watcher : {"off", "armed"},
   got     : Exchange \cup {<<>>}]
                              \* whom the last message the handler got answers

NewHandler(r, pc) ==
  [pc |-> pc, after |-> <<>>, victim |-> 0, delta |-> FALSE, prev |-> 0, conv |-> 0,
   conn |-> 0, left |-> Budget[r], try |-> 0, finished |-> "none", retried |-> FALSE]

NewExchange ==
  [stream |-> "off", kind |-> None, pipe |-> "off", link |-> 0, watcher |-> "off",
   got |-> <<>>]

Init ==
  /\ entry = 0 /\ httpOnly = FALSE /\ chain = 0
  /\ mu = [c \in Id |-> <<>>] /\ wconn = [c \in Id |-> 0] /\ wkey = [c \in Id |-> 0]
  /\ open = [k \in Id |-> FALSE] /\ answering = [k \in Id |-> <<>>]
  /\ token = 0 /\ drops = 0
  /\ ctx = [r \in Request |-> "live"]
  /\ req = [r \in Request |-> NewHandler(r, "start")]
  /\ ex = [e \in Exchange |-> NewExchange]

At(r, place) == req[r].pc = place
Now(r) == <<r, req[r].try>>
Spend(n) == IF n = 0 THEN 0 ELSE n - 1

\* An identity is used again once nothing refers to what had it; the lowest
\* one is taken.
UsedConversations ==
  {req[r].conv : r \in Request} \cup {req[r].victim : r \in Request}
    \cup {c \in Id : mu[c] # <<>> \/ wconn[c] # 0}
UsedConnections ==
  {chain} \cup {wconn[c] : c \in Id} \cup {req[r].prev : r \in Request}
    \cup {req[r].conn : r \in Request} \cup {ex[e].link : e \in Exchange}
Fresh(i, used) == i \notin used /\ \A j \in 1..(i - 1) : j \in used

\* Close a connection; what the upstream still sends on it is lost.
Hangup(k) ==
  /\ open' = [i \in Id |-> open[i] /\ i # k]
  /\ answering' = [i \in Id |-> IF i = k THEN <<>> ELSE answering[i]]

\* Variant: closeLocked forgets the connection without closing it.
ShutForgets(c) ==
  /\ UNCHANGED netVars
  /\ wconn' = [wconn EXCEPT ![c] = 0]
  /\ wkey' = [wkey EXCEPT ![c] = 0]

\* closeLocked
Shut(c) ==
  /\ Hangup(wconn[c])
  /\ wconn' = [wconn EXCEPT ![c] = 0]
  /\ wkey' = [wkey EXCEPT ![c] = 0]

\* ... of the conversation whose mutex the stream of e holds
ShutOwn(e) == \E c \in Id : mu[c] = e /\ Shut(c)

-----------------------------------------------------------------------------
(* The handler: resume or not, which transport, which conversation         *)

\* A recorded chain is continued only while the map has a conversation.
Begin(r) ==
  /\ At(r, "start")
  /\ \E d \in BOOLEAN :
       /\ d => entry # 0 /\ chain # 0
       /\ req' = [req EXCEPT ![r].pc = "create", ![r].delta = d,
                             ![r].prev = IF d THEN chain ELSE 0]
  /\ UNCHANGED <<serverVars, convVars, netVars, envVars, ex>>

\* Credentials that cannot be had or refreshed retire the conversation.
AuthFails(r) ==
  /\ At(r, "create") \/ At(r, "again")
  /\ req' = [req EXCEPT ![r].pc = "close", ![r].after = <<"refused">>]
  /\ UNCHANGED <<serverVars, convVars, netVars, envVars, ex>>

\* A delta cannot be sent over HTTP.
UseHttp(r) ==
  /\ At(r, "create") /\ httpOnly
  /\ req' = [req EXCEPT ![r].pc = IF req[r].delta THEN "refused" ELSE "http"]
  /\ UNCHANGED <<serverVars, convVars, netVars, envVars, ex>>

\* "again" is the second round of the loop: it does not ask httpOnly again.
UseWebSocket(r) ==
  /\ At(r, "again") \/ (At(r, "create") /\ ~httpOnly)
  /\ \E c \in Id :
       /\ IF entry = 0 THEN Fresh(c, UsedConversations) ELSE c = entry
       /\ entry' = c
  /\ req' = [req EXCEPT ![r].pc = "lock", ![r].conv = entry']
  /\ UNCHANGED <<httpOnly, chain, convVars, netVars, envVars, ex>>

-----------------------------------------------------------------------------
(* WebSocketConversation.CreateResponse                                    *)

AcquireMu(r) ==
  /\ At(r, "lock") /\ mu[req[r].conv] = <<>>
  /\ mu' = [mu EXCEPT ![req[r].conv] = <<r>>]
  /\ req' = [req EXCEPT ![r].pc = "locked"]
  /\ UNCHANGED <<serverVars, wconn, wkey, netVars, envVars, ex>>

\* TryLock: a full request does not wait; it goes over HTTP.
Busy(r) ==
  /\ At(r, "lock") /\ mu[req[r].conv] # <<>> /\ ~req[r].delta
  /\ req' = [req EXCEPT ![r].pc = "http", ![r].conv = 0]
  /\ UNCHANGED <<serverVars, convVars, netVars, envVars, ex>>

TooLarge(r) ==
  /\ At(r, "locked")
  /\ mu' = [mu EXCEPT ![req[r].conv] = <<>>]
  /\ req' = [req EXCEPT ![r].pc = "close", ![r].conv = 0,
                        ![r].after = <<"prefer", IF req[r].delta THEN "refused" ELSE "http">>]
  /\ UNCHANGED <<serverVars, wconn, wkey, netVars, envVars, ex>>

Reusable(c) == wconn[c] # 0 /\ wkey[c] = token

Reuse(r) ==
  /\ At(r, "locked") /\ Reusable(req[r].conv)
  /\ req' = [req EXCEPT ![r].pc = "write"]
  /\ UNCHANGED <<serverVars, convVars, netVars, envVars, ex>>

Dial(r) ==
  LET c == req[r].conv IN
  /\ At(r, "locked") /\ ~Reusable(c)
  /\ \E k \in Id :
       /\ Fresh(k, UsedConnections)
       /\ open' = [i \in Id |-> i = k \/ (open[i] /\ i # wconn[c])]
       /\ answering' = [i \in Id |-> IF i = wconn[c] THEN <<>> ELSE answering[i]]
       /\ wconn' = [wconn EXCEPT ![c] = k]
  /\ wkey' = [wkey EXCEPT ![c] = token]
  /\ req' = [req EXCEPT ![r].pc = "write"]
  /\ UNCHANGED <<serverVars, mu, envVars, ex>>

\* Any failure of the WebSocket costs an attempt and retires the conversation.
\* With an attempt left a full request goes over HTTP; a delta cannot, but it
\* has a second round with refreshed credentials, and a resume is sent again
\* after a rate limit.
WebSocketError(r) ==
  LET left == Spend(req[r].left) IN
  \E next \in {"refused", "http", "again", "create"} :
    /\ next = "http" => left > 0 /\ ~req[r].delta
    /\ next \in {"again", "create"} => left > 0 /\ req[r].delta
    /\ next = "create" => req[r].try = 0
    /\ req' = [req EXCEPT ![r].pc = "close", ![r].after = <<next>>, ![r].left = left,
                          ![r].conv = 0]

\* Variant: an error of connection() returns without unlocking.
DialFailsLocked(r) ==
  /\ At(r, "locked")
  /\ WebSocketError(r)
  /\ UNCHANGED <<serverVars, convVars, netVars, envVars, ex>>

\* A refused upgrade closes the connection it was to replace; a refused
\* destination, which is resolved first, leaves it alone.
DialFails(r) ==
  LET c == req[r].conv IN
  /\ At(r, "locked")
  /\ \/ ~Reusable(c) /\ Shut(c)
     \/ UNCHANGED <<netVars, wconn, wkey>>
  /\ mu' = [mu EXCEPT ![c] = <<>>]
  /\ WebSocketError(r)
  /\ UNCHANGED <<serverVars, envVars, ex>>

WriteFails(r) ==
  LET c == req[r].conv IN
  /\ At(r, "write") /\ ~open[wconn[c]]
  /\ Shut(c)
  /\ mu' = [mu EXCEPT ![c] = <<>>]
  /\ WebSocketError(r)
  /\ UNCHANGED <<serverVars, envVars, ex>>

\* The stream goroutine takes over the mutex; the watcher is armed.
Write(r) ==
  LET c == req[r].conv
      k == wconn[c]
      e == <<r, req[r].try + 1>> IN
  /\ At(r, "write") /\ open[k] /\ req[r].try < Budget[r]
  /\ answering' = [answering EXCEPT ![k] = Append(@, e)]
  /\ mu' = [mu EXCEPT ![c] = e]
  /\ req' = [req EXCEPT ![r].pc = "streaming", ![r].try = @ + 1, ![r].left = Spend(@),
                        ![r].conv = 0, ![r].conn = k]
  /\ ex' = [ex EXCEPT ![e].stream = "reading", ![e].pipe = "open",
                      ![e].link = k, ![e].watcher = "armed"]
  /\ UNCHANGED <<serverVars, wconn, wkey, open, envVars>>

-----------------------------------------------------------------------------
(* Server.closeWebSocket and preferHTTP: the map first, the mutex after    *)

TakeEntry(r) ==
  /\ At(r, "close") \/ At(r, "prefer")
  /\ entry' = 0
  /\ httpOnly' = (httpOnly \/ At(r, "prefer"))
  /\ req' = [req EXCEPT ![r].pc = "closing", ![r].victim = entry]
  /\ UNCHANGED <<chain, convVars, netVars, envVars, ex>>

\* Variant: Close does not wait for a stream that has the mutex.
CloseVictimAtOnce(r) ==
  LET c == req[r].victim IN
  /\ At(r, "closing")
  /\ IF c = 0
     THEN UNCHANGED <<netVars, wconn, wkey>>
     ELSE Len(mu[c]) # 1 /\ Shut(c)
  /\ req' = [req EXCEPT ![r].pc = Head(req[r].after), ![r].after = Tail(@), ![r].victim = 0]
  /\ UNCHANGED <<serverVars, mu, envVars, ex>>

\* Close waits for the mutex, whoever holds it and however long.
CloseVictim(r) ==
  LET c == req[r].victim IN
  /\ At(r, "closing")
  /\ IF c = 0
     THEN UNCHANGED <<netVars, wconn, wkey>>
     ELSE mu[c] = <<>> /\ Shut(c)
  /\ req' = [req EXCEPT ![r].pc = Head(req[r].after), ![r].after = Tail(@), ![r].victim = 0]
  /\ UNCHANGED <<serverVars, mu, envVars, ex>>

-----------------------------------------------------------------------------
(* What follows a refused or failed exchange                               *)

\* The full request is sent anew: the chain goes, then the conversation.
Restart(r, left, retried, close, then) ==
  /\ chain' = 0
  /\ req' = [req EXCEPT ![r].pc = close, ![r].after = then, ![r].left = left,
                        ![r].delta = FALSE, ![r].prev = 0, ![r].conn = 0,
                        ![r].finished = "none", ![r].retried = retried]

End(r, close, then) ==
  /\ chain' = chain
  /\ req' = [req EXCEPT ![r] = [NewHandler(r, close) EXCEPT !.after = then]]

\* A failed response is restarted once, within the budget and for a client
\* still there.
MayRestart(r, left) == left > 0 /\ ~req[r].retried /\ ctx[r] = "live"

RetryOrEnd(r, left) ==
  \/ MayRestart(r, left) /\ Restart(r, left, TRUE, "close", <<"create">>)
  \/ End(r, "done", <<>>)

\* The upstream closed with 1009: the thread stays on HTTP from now on.
PreferHttp(r, left) ==
  \/ MayRestart(r, left) /\ Restart(r, left, TRUE, "prefer", <<"close", "create">>)
  \/ End(r, "prefer", <<"done">>)

\* A refused implicit resume is replaced by the full request; a refused first
\* request is an error; a refused continuation ends the response.
Refused(r) ==
  LET h == req[r] IN
  /\ At(r, "refused")
  /\ IF h.delta /\ h.try = 0 /\ h.left > 0
     THEN Restart(r, h.left, h.retried, "close", <<"create">>)
     ELSE IF h.try = 0 THEN End(r, "done", <<>>) ELSE RetryOrEnd(r, h.left)
  /\ UNCHANGED <<entry, httpOnly, convVars, netVars, envVars, ex>>

\* One HTTP exchange; a completed one is recorded like any other response.
HttpCompletes(r) ==
  /\ At(r, "http") /\ req[r].left > 0
  /\ chain' \in {chain, Http}
  /\ req' = [req EXCEPT ![r] = NewHandler(r, "done")]
  /\ UNCHANGED <<entry, httpOnly, convVars, netVars, envVars, ex>>

\* After a 401 credentials that cannot be refreshed retire the conversation,
\* although the request went over HTTP.
HttpFails(r) ==
  /\ At(r, "http")
  /\ \/ RetryOrEnd(r, Spend(req[r].left))
     \/ /\ req' = [req EXCEPT ![r].pc = "close", ![r].after = <<"refused">>,
                              ![r].left = Spend(req[r].left), ![r].conv = 0]
        /\ chain' = chain
  /\ UNCHANGED <<entry, httpOnly, convVars, netVars, envVars, ex>>

-----------------------------------------------------------------------------
(* streamAnthropic / writeNonStreamingMessage: what the handler makes of   *)
(* the pipe                                                                *)

Streaming(r, pipe) == At(r, "streaming") /\ ex[Now(r)].pipe = pipe
LeavePipe(r, pipe) == ex' = [ex EXCEPT ![Now(r)].pipe = pipe, ![Now(r)].got = <<>>]

\* A write to the client failed or an event could not be converted: the
\* handler stops reading and closes the body.
StopReading(r) ==
  /\ Streaming(r, "open") /\ ex[Now(r)].got # <<>> /\ req[r].finished = "none"
  /\ LeavePipe(r, "readerClosed")
  /\ RetryOrEnd(r, req[r].left)
  /\ UNCHANGED <<entry, httpOnly, convVars, netVars, envVars>>

\* The message in the pipe reaches the handler: failed closes the connection,
\* completed keeps it, anything else is followed by the next message.
Deliver(e, pipe) ==
  LET what == ex[e].kind.what IN
  /\ ex[e].stream = "writing"
  /\ IF what = "failed" THEN ShutOwn(e) ELSE UNCHANGED <<netVars, wconn, wkey>>
  /\ ex' = [ex EXCEPT ![e].stream = IF what \in {"failed", "completed"} THEN "closing" ELSE "reading",
                      ![e].kind = None, ![e].got = ex[e].kind.for, ![e].pipe = pipe]

\* A failure the client has not seen any output of is returned at once.
ReceiveFailure(r) ==
  /\ Streaming(r, "open") /\ req[r].finished = "none"
  /\ ex[Now(r)].kind.what \in {"failed", "incomplete"}
  /\ Deliver(Now(r), "readerClosed")
  /\ RetryOrEnd(r, req[r].left)
  /\ UNCHANGED <<entry, httpOnly, mu, envVars>>

\* Otherwise the handler reads on; an ending makes the reducer done.
Receive(r) ==
  LET what == ex[Now(r)].kind.what IN
  /\ Streaming(r, "open")
  /\ Deliver(Now(r), "open")
  /\ req' = [req EXCEPT ![r].finished = IF what = "event" THEN @ ELSE what]
  /\ UNCHANGED <<serverVars, mu, envVars>>

\* The body ends after an ended response: record the chain of a completed
\* one that had an id, ...
Record(r) ==
  /\ Streaming(r, "eof") /\ req[r].finished # "none"
  /\ chain' \in {chain} \cup (IF req[r].finished = "completed" THEN {req[r].conn} ELSE {})
  /\ req' = [req EXCEPT ![r] = NewHandler(r, "done")]
  /\ LeavePipe(r, "off")
  /\ UNCHANGED <<entry, httpOnly, convVars, netVars, envVars>>

\* ... or sample on (end_turn false), by reference if the map still has a
\* conversation.
Continue(r) ==
  /\ Streaming(r, "eof") /\ req[r].finished = "completed" /\ req[r].try < Budget[r]
  /\ req' = [req EXCEPT ![r].pc = "create", ![r].delta = entry # 0,
                        ![r].prev = IF entry # 0 THEN req[r].conn ELSE 0,
                        ![r].conn = 0, ![r].finished = "none"]
  /\ LeavePipe(r, "off")
  /\ UNCHANGED <<serverVars, convVars, netVars, envVars>>

\* The pipe breaks, or ends before the response did.
Broken(r) ==
  /\ \/ Streaming(r, "error") /\ (RetryOrEnd(r, req[r].left) \/ PreferHttp(r, req[r].left))
     \/ Streaming(r, "eof") /\ req[r].finished = "none" /\ RetryOrEnd(r, req[r].left)
  /\ LeavePipe(r, "off")
  /\ UNCHANGED <<entry, httpOnly, convVars, netVars, envVars>>

\* net/http cancels the request context when the handler returns.
Return(r) ==
  /\ At(r, "done")
  /\ ctx' = [ctx EXCEPT ![r] = "cancelled"]
  /\ req' = [req EXCEPT ![r].pc = "returned"]
  /\ UNCHANGED <<serverVars, convVars, netVars, token, drops, ex>>

Handler(r) ==
  \/ Begin(r) \/ AuthFails(r) \/ UseHttp(r) \/ UseWebSocket(r)
  \/ AcquireMu(r) \/ Busy(r) \/ TooLarge(r) \/ Reuse(r) \/ Dial(r) \/ DialFails(r)
  \/ WriteFails(r) \/ Write(r)
  \/ TakeEntry(r) \/ CloseVictim(r) \/ Refused(r)
  \/ HttpCompletes(r) \/ HttpFails(r)
  \/ StopReading(r) \/ ReceiveFailure(r) \/ Receive(r)
  \/ Record(r) \/ Continue(r) \/ Broken(r) \/ Return(r)

-----------------------------------------------------------------------------
(* streamAsSSE and the watcher                                             *)

\* ReadMessage returns what the upstream sends next on the connection.
ReadMessage(e) ==
  LET k == ex[e].link IN
  /\ ex[e].stream = "reading" /\ open[k] /\ answering[k] # <<>>
  /\ \E what \in Messages :
       /\ ex' = [ex EXCEPT ![e].stream = "writing",
                           ![e].kind = [what |-> what, for |-> Head(answering[k])]]
       /\ answering' = IF what = "event" THEN answering
                       ELSE [answering EXCEPT ![k] = Tail(@)]
  /\ UNCHANGED <<serverVars, convVars, open, envVars, req>>

\* The connection is gone: the handler gets the error.
ReadFails(e) ==
  /\ ex[e].stream = "reading" /\ ~open[ex[e].link]
  /\ ShutOwn(e)
  /\ ex' = [ex EXCEPT ![e].stream = "closing", ![e].pipe = IF @ = "open" THEN "error" ELSE @]
  /\ UNCHANGED <<serverVars, mu, envVars, req>>

\* Variant: a half-read response leaves its connection for the next request.
PipeClosedKeeps(e) ==
  /\ ex[e].stream = "writing" /\ ex[e].pipe = "readerClosed"
  /\ ex' = [ex EXCEPT ![e].stream = "closing", ![e].kind = None]
  /\ UNCHANGED <<serverVars, convVars, netVars, envVars, req>>

\* The handler closed the body: the connection is not reused.
PipeClosed(e) ==
  /\ ex[e].stream = "writing" /\ ex[e].pipe = "readerClosed"
  /\ ShutOwn(e)
  /\ ex' = [ex EXCEPT ![e].stream = "closing", ![e].kind = None]
  /\ UNCHANGED <<serverVars, mu, envVars, req>>

\* Variant: the deferred writer.Close is missing.
CloseWriterForgotten(e) ==
  /\ ex[e].stream = "closing"
  /\ ex' = [ex EXCEPT ![e].stream = "unlocking"]
  /\ UNCHANGED <<serverVars, convVars, netVars, envVars, req>>

\* The deferred calls, last deferred first: the handler sees the end of the
\* body before the mutex is free and the watcher is told.
CloseWriter(e) ==
  /\ ex[e].stream = "closing"
  /\ ex' = [ex EXCEPT ![e].stream = "unlocking", ![e].pipe = IF @ = "open" THEN "eof" ELSE @]
  /\ UNCHANGED <<serverVars, convVars, netVars, envVars, req>>

UnlockAndSignal(e) ==
  /\ ex[e].stream = "unlocking"
  /\ \E c \in Id : mu[c] = e /\ mu' = [mu EXCEPT ![c] = <<>>]
  /\ ex' = [ex EXCEPT ![e].stream = "ended", ![e].link = IF ex[e].watcher = "off" THEN 0 ELSE @]
  /\ UNCHANGED <<serverVars, wconn, wkey, netVars, envVars, req>>

Stream(e) ==
  \/ ReadFails(e) \/ PipeClosed(e) \/ CloseWriter(e) \/ UnlockAndSignal(e)

\* Variant: the watcher does not close the connection.
WatcherIdles(e) ==
  /\ ex[e].watcher = "armed" /\ ctx[e[1]] = "cancelled"
  /\ ex' = [ex EXCEPT ![e].watcher = "off", ![e].link = IF ex[e].stream = "ended" THEN 0 ELSE @]
  /\ UNCHANGED <<serverVars, convVars, netVars, envVars, req>>

\* select: with both channels ready either branch may be taken.
WatcherCloses(e) ==
  /\ ex[e].watcher = "armed" /\ ctx[e[1]] = "cancelled"
  /\ Hangup(ex[e].link)
  /\ ex' = [ex EXCEPT ![e].watcher = "off", ![e].link = IF ex[e].stream = "ended" THEN 0 ELSE @]
  /\ UNCHANGED <<serverVars, convVars, envVars, req>>

WatcherQuits(e) ==
  /\ ex[e].watcher = "armed" /\ ex[e].stream = "ended"
  /\ ex' = [ex EXCEPT ![e].watcher = "off", ![e].link = 0]
  /\ UNCHANGED <<serverVars, convVars, netVars, envVars, req>>

Watcher(e) == WatcherCloses(e) \/ WatcherQuits(e)

-----------------------------------------------------------------------------
(* The environment: clients leave, connections drop, tokens change         *)

ClientLeaves(r) ==
  /\ req[r].pc \notin {"start", "done", "returned"} /\ ctx[r] = "live"
  /\ ctx' = [ctx EXCEPT ![r] = "cancelled"]
  /\ UNCHANGED <<serverVars, convVars, netVars, token, drops, req, ex>>

ConnectionDrops(k) ==
  /\ open[k] /\ drops < MaxDrops
  /\ drops' = drops + 1
  /\ Hangup(k)
  /\ UNCHANGED <<serverVars, convVars, token, ctx, req, ex>>

TokenChanges ==
  /\ token < MaxToken
  /\ token' = token + 1
  /\ UNCHANGED <<serverVars, convVars, netVars, drops, ctx, req, ex>>

Terminated ==
  /\ \A r \in Request : At(r, "returned")
  /\ UNCHANGED vars

Next ==
  \/ \E r \in Request : Handler(r) \/ ClientLeaves(r)
  \/ \E e \in Exchange : Stream(e) \/ ReadMessage(e) \/ Watcher(e)
  \/ \E k \in Id : ConnectionDrops(k)
  \/ TokenChanges
  \/ Terminated

Spec == Init /\ [][Next]_vars

\* WriteMessage has no deadline, and the watcher is armed only after it: while
\* the upstream does not read, a large request holds its handler and the mutex.
Writing(r) == At(r, "write") /\ open[wconn[req[r].conv]]

\* Goroutines run; the upstream owes nothing.
Fairness ==
  /\ \A r \in Request : WF_vars(~Writing(r) /\ Handler(r))
  /\ \A e \in Exchange : WF_vars(Stream(e)) /\ WF_vars(Watcher(e))

FairSpec == Spec /\ Fairness

\* An upstream that reads what is written to it.
UpstreamReads == \A r \in Request : WF_vars(Write(r))

\* An upstream that reads, goes on answering and ends every answer.
UpstreamAnswers ==
  /\ UpstreamReads
  /\ \A e \in Exchange :
       /\ WF_vars(ReadMessage(e))
       /\ SF_vars(ReadMessage(e) /\ ex'[e].kind.what # "event")

AnsweredSpec == FairSpec /\ UpstreamAnswers

-----------------------------------------------------------------------------
(* Properties                                                              *)

\* Every variable stays in its set; a mutex is free or held by a handler or
\* by a stream.
TypeOK ==
  /\ entry \in 0..MaxId /\ httpOnly \in BOOLEAN /\ chain \in 0..Http
  /\ mu \in [Id -> {<<>>} \cup {<<r>> : r \in Request} \cup Exchange]
  /\ wconn \in [Id -> 0..MaxId] /\ wkey \in [Id -> 0..MaxToken]
  /\ open \in [Id -> BOOLEAN] /\ answering \in [Id -> Seq(Exchange)]
  /\ token \in 0..MaxToken /\ drops \in 0..MaxDrops
  /\ ctx \in [Request -> {"live", "cancelled"}]
  /\ req \in [Request -> Handlers]
  /\ ex \in [Exchange -> Exchanges]

\* MaxId never stands in the way.
NamesLeft == ~(Id \subseteq UsedConversations) /\ ~(Id \subseteq UsedConnections)

\* A handler never receives a message that answers another request or another
\* attempt, although they share connections and leave responses half read:
\* what websocket.go closes the connection for (lines 217-234).
NoCrossTalk == \A e \in Exchange : ex[e].got \in {<<>>, e}

Active(e) == ex[e].stream \in {"reading", "writing"}

\* A stream that still reads holds the mutex of the conversation whose
\* connection it reads, so nobody writes to that connection or replaces it.
StreamOwnsConnection ==
  \A e \in Exchange : Active(e) => \E c \in Id : mu[c] = e /\ wconn[c] = ex[e].link

\* A connection of the conversation in the map, or of one that a handler has
\* taken from the map and is about to close
Kept(k) == \E c \in Id : wconn[c] = k /\ (c = entry \/ \E r \in Request : req[r].victim = c)

\* Such a connection stays one until it is closed: no redial, error path, end
\* of a stream or retirement of its conversation loses it while it is open.
\* What may stay open unseen is therefore only a connection that was never
\* kept, since its handler had got the conversation (websocket.go:81) before
\* another one retired it and dialled after that.
NoConnectionLeaks ==
  [][\A k \in Id : open[k] /\ Kept(k) => Kept(k)' \/ ~open'[k]]_vars

\* A client that leaves ends its stream, whatever the upstream does: the
\* watcher closes the connection under it (lines 130-136).
CancelledStreamEnds ==
  \A e \in Exchange :
    ex[e].stream # "off" /\ ctx[e[1]] = "cancelled" ~> ex[e].stream = "ended"

\* When every client is gone all handlers return, even one that waits for a
\* mutex (which a context cannot interrupt) or closes a busy conversation: the
\* upstream has to read what is written to it, but owes no answer.
HandlersDrain ==
  UpstreamReads =>
    ((\A r \in Request : ctx[r] = "cancelled") ~> (\A r \in Request : At(r, "returned")))

\* With an upstream that ends every response each request is answered.
RequestsReturn == \A r \in Request : <>At(r, "returned")

\* The same of a run whose upstream may also fall silent.
AnsweredRequestsReturn == UpstreamAnswers => RequestsReturn
=============================================================================
