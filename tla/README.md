# TLA+ models of claudodex

claudodex runs Claude Code against the Codex (ChatGPT) service. A launch logs
in, asks for the model catalog, starts a local proxy that speaks the Anthropic
Messages API, prepares a private configuration and starts Claude Code, whose
requests the proxy translates and sends on. This directory models what the
program keeps and shares, and the algorithms between, and checks and proves what
they promise. Every definition is written from the Go source; `PROJECT.json`
names, for each, the lines it stands for.

## 1. Inventory

The sources are under `internal/`, the release tool under `cmd/clx-release`.
"Hard" names what a unit test hardly reaches.

| component | state | operations | hard | what makes it correct |
|---|---|---|---|---|
| Model catalog cache, `modelcatalog/load.go`, `filelock` | a cache file, a flock, barrier files, shared by all launches of a scope | fetch, compare and replace, barrier, hide, drop, read without the lock | launches in any order, failed writes, crashes, pruning beside reading | what was observed is never forgotten; cached models reflect it |
| WebSocket conversation, `codex/websocket.go`, `proxy/server.go` | a connection and a mutex per thread; a stream and a watcher goroutine per response | create, read, close, time out, retire | goroutines that hold a mutex while they block; cancellation; half-read responses | an answer reaches the request that asked; a stream owns its connection; everybody returns |
| Message handling, `proxy/messages.go`, `proxy/errors.go` | the request's budget, its transport, the chain, what the client has seen | send, refresh, fall back, restart, continue, answer | retries inside retries, failures after output, other requests of the thread | the budget holds, one answer, no retry once something was shown, failures told as what they are |
| Codex client, `codex/client.go`, `workspace.go`, `routing_cookies.go` | attempts, the header timer, the destination, the cookie jar | find the destination, post, redirect, retry, time out | a timer that fires while it is reset; redirects; an account that changed | answers that came are not cut off; nothing is left open; logins go where they belong |
| Response chains, `proxy/chain.go` | the last response of a thread, what was sent | record, resume, replay, continue | history that is rewound or compacted; items out of order | the model sees exactly the conversation |
| Direct login, `auth/refresh.go`, `store.go`, `revoke.go` | `auth.json`, its lock file, the in-process mutex | refresh, log out, revoke | rotation by several processes, old locks, crashes, lost answers | a rotated token is used once; a logout stays |
| OAuth login, `auth/oauth.go` | two ports, a listener, two channels | listen, cancel, answer, exchange, save | two logins at a time; a browser page of an older one | a login ends with its own code |
| Borrowed login, `auth/provider.go`, `native_codex.go` | reference, suppression, pinned identity, a cache of two seconds | borrow, adopt, refresh, log out | another account appears; a logout meanwhile | one process serves one account; nothing after a logout |
| Stream conversion, `convert/stream.go` | open blocks, indices, pending searches, the end | reduce one event, assemble | interleaved items, early ends, continuations | the block protocol; everything is shown once |
| Request conversion, `convert/request.go`, `effort.go` | none | convert, route, sanitise schemas | history with tool results and reasoning | the meaning of a conversation is kept; workers stay apart |
| Catalog resolution, `modelcatalog/resolve.go`, `compaction.go`, `modelconfig` | none | resolve, map a name, windows | pins, versions, several names of one model | every name has a model that serves it, and its windows |
| Usage and limits, `ratelimit`, `proxy/usage.go` | none | count, tell limits | absent and overlapping counts | counts add up |
| Launch and sidecar, `launcher/` | servers, sockets, private directories, environment, child process | open in order, start, wait, signal, close | failures and signals between steps; nested launches | Claude Code has all it needs while it runs; nothing is left over |
| Configuration mirror, `launcher/sidecar_mirror.go` | three files, lock directories, a baseline per session | merge, save a default model | sessions that start, end and die at any time | a change nobody contests survives; the last choice stands |
| Verified Claude binaries, `launcher/claude_verified.go` | kept originals, patched copies, leases | select, patch, lease, remove | launches of several releases; crashes before a lease | what a living launch has selected stays |
| OAuth proxy and status line, `launcher/oauth_proxy.go`, `statusline.go` | one connection; generated settings | route, forward, upgrade, tunnel; compose settings | bodies left unread; two tables of routes | an answer to each request from who must give it; the user's choices in force |
| Self update, `selfupdate/` | feed, Homebrew, install lock, handoff files | offer, install, verify, replace | processes and a user beside each other; a handoff used late | only accepted programs run; a handoff fits once |
| Release tool, `cmd/clx-release` | the files of a release | formula, bottles, manifest, source, verify | kills and resumed runs | a release is of one piece |
| Application and display, `app/`, `startup/` | a context | dispatch, model flags, display | signals during startup | flags mean what they say |
| SSE reader, installation id, tracing, binary patches | little | | | see 6 |

How they meet: a handler of the proxy asks the login provider for a token
(`proxy/auth.go`), takes the conversation of its thread from the server's map
(`server.go`), sends through the client or the conversation, and reads the body
through the stream reducer. Handlers of one thread share the conversation, the
map and the chain store. Launches share the catalog cache, the login files, the
kept copies of Claude Code and the user's Claude configuration with other
processes of the same home; Claude Code shares the configuration with both.
`PROJECT.json` lists every component with its files, and under "hazards" the
places where it can go wrong, with the line.

## 2. Modules

### CatalogCache (a part of MCMachine)

One process per launch. `file` is the cache file (absent, readable, or made mode
0), reduced to when its content was observed (`obs`) and fetched (`fet`) and
whether it is a rejection. `lock` is the flock, `barrier[p]` the barrier file of
launch p. `Request`, `FetchAuthoritative` and `FetchTemporary` are `loadAt`;
`AcquireLock` ... `Unlock` are `writeCache` with the pruning of barriers, one
visited file at a time; `BarrierCreate`, `BarrierEncode` and `BarrierFails` are
`writeCacheBarrier`, whose file exists before it is written; `Hide` is the chmod
of `persistCache`; `ReadEntry`, `CheckGlob`, `CheckVisit` and `Serve` are
`readCache` and `checkCacheBarriers`, none of which takes the lock. `Drop` stands for no
code: it forgets values that no later step looks at, so that TLC has fewer states, and so
do `Crash` and `FetchTemporary` (as the death of a process does in `SelfUpdate` and
`ClaudeSources`).
`Crash` ends a launch anywhere and frees its flock. The directory locks of other systems (`filelock_other.go`) are
not modelled.

`ObservationsAreKept`: what a launch persisted is in the file, under a later
observation, or in its barrier. `ServedIsRecent`: cached models are as recent as
everything stored before they were read, and models older than a standing barrier
are used only if the file has become as recent meanwhile; and no cached models are used
once somebody has died or failed while it wrote a barrier (`Closed`), since a truncated
one refuses everything and is never removed. `CacheNeverOlder`: no
step makes the file older. Where the last resort hid the file the code gives up
these promises, and so do the properties (`NoneHidden`).

### WebSocketThread, MCWebSocketThread, WebSocketThreadProofs

The handlers of one thread and the goroutines they start. `entry` and `httpOnly` are
the server's map, `mu`, `wconn` and `wkey` the fields of each conversation, `open` and
`answering` the connections and what the upstream owes on them, `req` the
handlers and `ex` the exchanges (attempts). An exchange has a stream (`streamAsSSE`), a
watcher (the `select` on the context and the end) and a pipe. The deferred calls
of the stream run one by one: the pipe is closed before the mutex is free and the
watcher told. A handler follows `proxy/messages.go` coarsely: it may restart once,
continue, prefer HTTP or retire the conversation, with a budget per handler.

`NoCrossTalk`: nobody reads an answer to another attempt. `StreamOwnsConnection`: a
stream that reads holds the mutex of the conversation whose connection it reads.
`NoConnectionLeaks`, of steps: an open connection of the conversation in the map, or
of one that a handler has taken out and is about to close (`Kept`), stays such a
connection until it is closed. The code leaks one kind of connection, and the property
is worded around it: a handler that has its conversation (`websocket.go:81`) before
another handler retires it dials on it afterwards, and what it dials is in no map any
more; the stream leaves it open when the response is over, and nothing in the code closes
it then. `CancelledStreamEnds`: a client that leaves ends its
stream, whatever the upstream does. `HandlersDrain`: when all have left, every handler
returns, from an upstream that reads what it is sent. `AnsweredRequestsReturn`: if it
also ends its responses with an event the reader knows, that is enough for every
handler to return; `RequestsReturn` says it of every terminal event. The
premise is needed: `conn.WriteMessage` (`websocket.go:114`) has no deadline, and the
watcher that closes the connection for a client that left is only started after it. An
upstream that stops reading therefore holds the handler, the mutex, and all that
wait for the mutex (`Writing`).

### MessageExchange, MCMessageExchange, MessageExchangeProofs

One request of `handleMessages` in detail, against an environment that refuses,
times out, breaks bodies and retires the conversation at any moment. `asked` is
the request, `call` the attempt being made, `left` the budget, `body` what was read
and what the client has seen, `net` the ghost counters of what reached the upstream.
`Create` is `createCodexResponseWithTransport` with the client's loops inside it:
WebSocket, refresh, HTTP, and the fallbacks and connection retries of `client.go`;
`Handle` is the rest of the handler: rate-limit retry, full resend, the body
event by event, follow-ups, recording the chain, restart, and the answer. Whether the
WebSocket may be used at all is an input (`useWS`): the address, the environment, tools
and the kind of speaker decide it for all of a request. `shouldUseCodexWebSocket` also looks for a delta, but there is
a delta only if the thread has a conversation already (`messages.go:141`).

`BudgetWithoutTimeout`: generation requests stay within the budget as long as no
header wait times out. `DeltaOnlyOverWebSocket`: a request with a
previous_response_id is not posted. `OneAnswer`: one answer, and nothing is
restarted or answered with a status once something was shown. It allows an error event
after message_stop: that is what the code writes when a body breaks there (`messages.go:959`).
`RecordedAnswer`: the chain names the response the client got, completed. Without
streaming the chain is recorded before the message is put together, and a message that
cannot be is a 502 (`messages.go:1273`); that failure is not modelled. `EveryRequestAnswered`:
no loop of refresh, fallback and restart goes on forever.

### AuthRefresh, MCAuthRefresh, AuthRefreshProofs

Calls (`Actor`) of several processes on one `auth.json`. A token is its login and the
serials of its refresh and access parts; the endpoint (`server`, `revoked`) takes only the
serial it gave last. `lock` holds the two lock files, created with O_EXCL, removed on
release whoever owns them by then, and removed by waiters when they are five
minutes old: finding the file old and removing it are two steps. `guard` and
`mutex` are the in-process `nativeAuthority.guard` and `refreshMu`. A refresh posts,
saves, or after a permanent refusal looks again and deletes; `Logout` takes all
four, writes the suppression, removes the reference, revokes and deletes; a login
takes none. `Crash` kills a process with its lock files left behind; an answer that
is lost, or not stored, is recorded in `lost`, a lock file removed under its holder in
`usurped`.

`TokenNotReplayed`: a replaced refresh token is never sent again. `LogoutIsFinal`:
a login deleted by a logout does not come back. `LogoutDisablesReuse`: after a
logout with no login beside it reuse is suppressed, the reference removed and the
login gone. `LocksAreReleased`: a lock file outlives its holder only if it died.
`CallsReturn`: every call returns. The first three except `usurped`: the
takeover can hit a live holder, and the code has no defence against it.

### StreamReducer, ContentBlocks, MCStreamReducer

`StreamReducer` is `convert/stream.go`: one action per event of a response
(items added and done, deltas, searches, the ends of a response), with the output
it writes, the end of a response that asks for more sampling and the next one that
the same reducer goes on with, and the message that `AssembleMessage` puts
together. `ContentBlocks` is the abstract specification: what a client may count on
while it reads one message. `ProtocolKept` is the refinement, `Client == INSTANCE
ContentBlocks WITH ...`: every step of the reducer writes a sequence of events that
the abstract client accepts one after the other, or none. `EverythingShownOnce`:
what the model sent is shown once, in the order of its items and whatever came as
deltas, as a whole or both. One kind of text is excepted, because the code does lose or
repeat it: the whole text of a message beside which another item was open. `textSawDelta`
and `webSearchText` belong to the reducer and not to the item (`stream.go:417`, `587`), so a
message whose text comes only as a whole is dropped if the other one sent deltas, and
one that sent deltas is shown again if the other reset the flag. Of such a message the
deltas are still shown once and in order, and its whole text at most once behind
them. The reason the message stops for is the upstream's if it names one. Premises: the
upstream sends end_turn false only for responses without calls, which no line of
`stream.go` checks; `AssembleMessage` has a block at the place of its index only if the items
came in order; usage numbers, arguments and search hits are data.

### Conversation, MCConversation

What the model gets to see. Claude Code sends its whole history with every request
and may rewind or compact it; `Ask` is the conversion, the recorded chain and the
choice between resuming, replaying and sending everything. `ContextIsHistory`: what
the model sees (what is sent, on top of what it kept) is the history and, for a
continuation, every earlier part of the response: exactly these, in order.
`ReplayIsComplete`: results follow their calls, and the reasoning behind a call is
replayed. `TurnsEndWithAnswers`: a request belongs to the turn of the recorded
response exactly if it brings results of its calls. Premises: texts are unique (an
identical answer repeated after a rewind makes `trimAfterRecordedOutput` match the
earlier one), a response has an item, the final list of a response is complete or
empty. `ContextIsHistory` has one more, `Apart`: the last text or call of a message is
not made of several texts, unless it is the only one. Where a message is not so, the
code sends texts twice: Claude Code gives back as one what only reasoning was between,
the recorded response has them apart, and `trimAfterRecordedOutput` goes by what it
still finds. `SaidOnce`, what a test says of a replay, is violated for this reason.

### MCMachine, MachineProofs and the parts

The other modules share no state with each other. `MCMachine` checks them side by
side in one run: `part` says which of them a behaviour is of, and ten modules
with state take turns with fifteen variables. The modules without state are given
every input of a bounded set. Each invariant of the run speaks of one or several
parts. `NativeBorrow`, `SelfUpdate` and `ConfigMirror` are instantiated through the
modules of their proofs (`NativeBorrowProofs`, `SelfUpdateProofs`,
`ConfigMirrorProofs`), so that `MachineProofs` can cite them; what the constants must be for the proofs is `Sensible` in each, and
`ConstantsAssumption` in the machine.

*With state:*

- `SelfUpdate` (`UpdatesAreAccepted`): processes that offer, lock, install with
  Homebrew, verify, hand off and replace themselves, and a user who runs Homebrew
  beside them. A process only becomes a program of a version its user accepted, and
  a handoff is used once, by the build it was made for. That what Homebrew installed is the
  accepted version (`Verify`) and that the handoff names the build there (`CreateHandoff`, which
  asks that program once more) are two steps, and the user may upgrade, reinstall or update the tap
  before, between and behind them. The signed manifest is a version number, a build
  a hash.
- `Release` (`UpdatesAreAccepted`): each command of `clx-release` writes its files
  one by one and may fail or be killed; a file, once whole, never changes
  (`WrittenOnce`), and what is promoted is made of one source (`OnePiece`). A killed
  run leaves a partial file which the operator removes: `writeNew` refuses to resume over
  it, though the comment at `cmd/clx-release/main.go:418` calls local preparation
  safe to resume.
- `NativeBorrow` (`OneAccount`, `BorrowingEnds`): processes that borrow the Codex
  CLI's login under one lock with a cache of two seconds, beside a browser login,
  logouts and a Codex that changes accounts. A process may die with the lock in hand;
  others find it five minutes old and remove it, in two steps (`FindStale`,
  `RemoveStale`). Requests to Codex end before that, so only a dead holder's lock or that
  of a logout which waits in its revocation gets so old; but the removal may hit a new
  lock, and then (`robbed`) the properties say nothing. One CODEX_HOME, at most one browser
  login; a login beside a logout is excepted (`provider.go:414`).
- `LoginCallback` (`OneAccount`): browser logins that take ports over from each
  other; the pages stay open and answer whoever listens by then. A login takes no
  other's code, and holds its port exactly as long as it waits or exchanges. A
  cancellation that arrives with the code may win the `select`, so that the browser
  shows "login complete" for a login that is cancelled.
- `ConfigMirror` (`ConfigurationIsKept`): sessions that merge three files with
  baselines of different ages and locks that become stale. A lone change survives;
  what belongs to one file stays there. A merge may fail, or its session die, between any
  two of its steps, also between the writes of two files, with the baseline as it was; a lock
  becomes old for a holder that died and for one that is slow. The three locks of a merge are one, since it touches no
  file before it has them all. Behaviours in which a live session's lock was
  removed (`raced`) are excepted: two sessions can find a dead session's lock old, and
  the second removes the first's new one. A change made by two sides in turn
  may also be reverted by a baseline that is old; the property is about lone ones.
- `SavedModel` (`LastChoiceStands`): the mirrors of all sessions read the transcripts
  and write the newest saved model. Writing it and putting it into its usual form may fail;
  the next turn makes up for that, but there is none behind the last one, so the property
  says nothing of behaviours in which a last merge failed (it is reported). A session that ends may write its last find
  just as another saves a newer one (`Leaving`).
- `ClaudeSources` (`SelectedFilesStay`): selection, leases and retention of launches
  with different models. What a living launch selected stays, and so does the newest
  build ever kept. A lease cut short by a crash disables retention for good
  (`claude_verified.go:375`); Claude Code is assumed to keep the version before the
  installed one.
- `Launch` (`ClaudeIsServed`): one process from its arguments to its exit, with a
  failure at every step, signals, and a login of another account meanwhile. While
  Claude Code runs everything it was given is there; a process that ends leaves
  nothing, unless it was killed. A signal in the last steps of an interactive start
  cancels a context nobody looks at any more, and Claude Code starts anyway.
- `Transport` (`ResponsesAreNotCutOff`, `RequestsGoHome`): one call with its caller,
  transport and timer callbacks; a callback of an old timer may still wait for the
  mutex. Attempts, redirects, the accounts check, destination, credentials, cookies.
- `OAuthProxy` (`RequestsGoHome`): one connection and, as an input, every method and
  path: the proxy's table of routes and the server's agree, every answer is to its
  request and by whom it must be. Claude Code sends one request at a time.

*Without state:*

- `ResponseTrace` (`RecordedInOrder`): items of a response recorded once, in order,
  whatever the order of the events.
- `RequestRouting` (`WorkersAreApart`): the keys of two requests are equal only if
  the speaker and the conversation are.
- `ToolSchemas` (`NeededArgumentsSurvive`): which empty arguments are removed,
  compared with the objects that a schema accepts. Only the outermost object: the code
  does the same to nested ones, which are not modelled.
- `UsageLimits`, `Failures` (`ToldAsItIs`): token counts and limits add up; a failure
  in the first place of a payload that says anything (a code, a message, a status; what a
  later place says does not count), in a stream or as a status, becomes the same thing: a limit is told as a limit, a refusal by policy as a bad request, nothing
  terminal in a stream is retried and a retry waits as long as asked.
- `ModelChoice` (`ModelsAreRight`): resolution against catalogs and pins, mapping
  of names, efforts, windows and the ceiling that all models share.
- `StartupSettings`, `ModelFlags` (`LastChoiceStands`): what is in force of the user's
  arguments, settings and environment behind what claudodex adds; model flags, told
  without a loop.
- `ToolEnvironment` (`ClaudeIsServed`): whatever the user has set of the variables modelled, Claude Code
  reaches Anthropic by the proxy and this machine directly, tools get the user's
  variables back, also of a claudodex started by a tool, and the keychain entries of
  Claude Code are not touched.

## 3. Runs

| run | shows | bounds |
|---|---|---|
| websocket_thread | the safety of a thread's conversation, with a retry or continuation | two requests, one with two attempts; responses that complete, no drops, one token change (other endings and drops: the two runs below, and the theorems) |
| websocket_returns | clients that leave free everything, if the upstream reads; handlers return if responses end | one attempt each, one dropped connection |
| websocket_incomplete | violated: response.incomplete never ends the stream | responses that end in all three ways |
| message_exchange | budget, transport, one answer, the recorded response; the answer comes | two attempts (the code's budget), one connection retry, two continuations |
| message_budget | violated: a time-out and a refusal send three requests for two | the same |
| auth_refresh | the safety of the login files | three calls in two processes: a holder that dies and two waiters in different processes; no live holder keeps a lock for five minutes |
| auth_returns | calls return | two calls in two processes; live holders may keep a lock that long |
| auth_refusal | violated: the refusal of an old token deletes a newer login | two calls, no logout |
| stream_reducer | the block protocol is implemented, and everything is shown once | three output items of four kinds, two open at a time, two thoughts in a reasoning item, a delta each, one continuation |
| conversation | the model sees the history | four shapes of response, four answers, three texts |
| conversation_repeats | violated: what is merged is replayed and sent once more | one shape, two answers, two texts |
| machine | the properties of the twenty other modules | below |

Bounds are CONSTANTS and appear as guards. They stop counters (clocks,
identifiers, connections, tokens, versions, choices) and none of them is in the
code, except Attempts (`maxGenerationAttempts`) and BarrierLimit, which is lowered
from the code's. They are chosen so that each hazard has its actors: three launches
for two writers with a reader between them (in `machine`, where the three sessions are
launches of the cache); three calls for a dead holder of a lock
and two that take it over; three items one after the other, or two that are open
together; two sessions (`Mirroring` in `machine`), one that writes late and one that has
seen more, for choices of models and, with a failure or a death, for merged settings;
three versions
for a handoff that is out of date in both directions, two processes of one user and
two users of a login for an account that changes under a cache. In `machine`:
MaxVersion 3, MaxBuild, MaxToken, MaxCalls, MaxChanges, MaxLogins,
MaxAttempts, MaxRequests, MaxMade and MaxClock 2, MaxMishaps, MaxDials, MaxRedirects,
MaxAge and BarrierLimit 1,
MaxChoices 3. The inputs of the modules without state are sets built in `MCMachine`
and the modules themselves, and every member is an initial state.

Symmetry is used for calls of one process (`auth_refresh`), and for processes and sessions,
or launches, and the keys of settings (`machine`): in runs without liveness. Deadlock is checked in every run but `machine`, where
processes and launches end, the clock stops, and an input has no step.

The violated runs state what a comment or a test of the repository says; the
findings in `PROJECT.json` quote it.

Fairness. Goroutines that can run do (weak fairness for each handler, stream, watcher
and call): nothing in the code makes them wait but what is modelled. In
`websocket_returns` a handler that writes to an open connection is excepted from this
(`Writing`), since the write has no deadline: nothing makes it return but the upstream. So
the upstream owes nothing to `CancelledStreamEnds`; `HandlersDrain` has it as a hypothesis that
it reads what is written (`UpstreamReads`), and `AnsweredRequestsReturn` (`UpstreamAnswers`)
that it also goes on sending, and that its messages are not all of them events without an
end. In
`message_exchange` every call returns, because header waits time out, and bodies
end. In `auth_returns` time passes for lock files, and requests to the endpoint
return; a cancelled context is never needed. `TurnsEndWithAnswers` and `ProtocolKept`
are about steps and need none. In `machine` nothing is said to happen: what must be
left behind at an end is a property of the states in which a process has ended.

## 4. Proofs

`AuthRefreshProofs` proves every safety property of the run `auth_refresh` for any
calls and processes, live holders that lose their lock included. There are three
layers, each inductive given the one before:

1. `TInv`: types; the place of a call tells what it does (`Roles`); a token that is
   sent or stored belongs to a login (`Real`). This gives `TypeCorrect`.
2. `LInv`: `LocksAreReleased`, and as long as `usurped` is FALSE a call between the
   creation and the removal of a lock file is its owner (`LockOwned`). The lemmas
   `MoveL`, `CreateL` and `RemoveL` say what a call may do to a lock; every action is
   one of the three. This gives `EveryLockIsReleased` and, as `OneInside`, that the
   calls inside `auth.json.lock` act one at a time.
3. `IInv`: logins in use were issued (`Issued`), and while `usurped` is FALSE:
   the stored token is the endpoint's latest, except between the endpoint's answer
   and the save, when the latest is in the hands of the call (`Stored`, `Current`), or
   when an answer was lost; the token of a new login is known to nobody until it is
   stored (`Unshared`: this is why a login needs no lock for these properties); a
   deleted login is neither stored nor being refreshed (`Gone`); and what a logout
   has suppressed stays so while nobody logs in (`Suppressed`). This gives
   `NoTokenIsReplayed`, `LogoutsAreFinal` and `LogoutsDisableReuse`.

`MessageExchangeProofs` proves the four properties of a request for any budget and any
number of failed connections and continuations. The invariant has two parts:

1. `Answering`: createResponse returns to what called it (`Returns`); until it is done a
   request was answered only by the end of a stream that is still being read
   (`Unanswered`), and its client has seen something only while a response or a
   continuation of it is at hand (`Seen`): hence no restart after the first byte. With
   `NoDelta` (what is posted names no previous response) this gives `AnswersAreSingle`,
   `DeltasStayOnWebSockets` and `RecordsAreAnswers`.
2. `Covered`: what may still be sent (`Room`) covers the attempts that are left, to the
   handler or to the call it is making; inside the client's loops the fallback has
   already used up a part of it (`base`). A wait for headers that timed out breaks
   exactly this, as `message_budget` shows. This gives `BudgetIsKept`.

`WebSocketThreadProofs` proves that streams own their connections, that nobody reads the
answer to another attempt and that no connection of a conversation the server knows is
lost before it is closed, for any requests, budgets and conversations. Four layers, each inductive given those
before:

1. `TInv`: types, and what a handler knows at each place, its plan for what it does once
   the conversation is closed included (`Places`).
2. `LInv`: the mutex of a conversation and its holder know each other (`HandlerHolds`,
   `StreamHolds`), and an attempt that is to come has no stream (`ToCome`).
3. `CInv`: a connection belongs to one conversation, which is the one that has it open;
   who writes or reads has one; and `StreamOwnsConnection`.
4. `AInv`: the upstream owes at most one answer on a connection, to the stream that reads
   it and has not read its end (`OwesItsReader`); what a stream has at hand is for it.
   A stream that stops early closes its connection before the mutex is free: without
   that order this layer fails.

`NativeBorrowProofs`, for any processes, users, tokens and calls (`Sensible`: there are
users, and Nobody is neither user nor process), as long as no living call was `robbed` of its lock: who is past the lock has it
(`LockHeld`); after a logout reuse is suppressed, and who still asks Codex does so on
the user's own choice (`Obeyed`); what a process remembers was not found unusable
(`Remembering`); and from one choice to the next the accounts used are the one of the
reference, which whoever asks Codex has seen under the lock (`Agreed`). A call that dies or
is taken over leaves nothing that these rest on: what it remembered dies with it.

`SelfUpdateProofs`, for any processes, versions and builds and any use of Homebrew beside
them: what is being installed, what a token leads to and what runs was accepted
(`Accepted`); a token is of its process and names the accepted version and the build that
was there when the file was made (`Handing`); a keg
that had a build keeps it, is built again or is gone for good, because only
versions later than the linked one are installed (`Past`); a handoff file says what its
token says (`Filed`), and none is left for a program that took it (`Handed`).

`ConfigMirrorProofs`, for any sessions, settings and changes: unless a running session's
lock was removed (`raced`), who merges has the lock (`MergerHolds`), and what a session
need not write any more is as it merged it (`WrittenAsMerged`). While a change is alone,
each file has either the value that a session merged last, its baseline, or the changed
one, and one has the latter (`Spreads`, for every session, however old its baseline): a
merge decides for the one value that differs from the baseline, whichever file is the
newest (`SnapshotDecides`, `SidecarsDecide`, `MergeDecides`). So the change is in what is
merged, and after the last write in every file. A change that counts only begins when
all have merged the value before (`Settled`): otherwise two values differ from a baseline
and the newer file wins.

`MachineProofs` states every property of the run `machine` as a theorem of its
specification. `MInv` says that the invariant of a part holds in
the behaviours of the part, and that an input is one of its set (`InputsFit`); a step of
the machine is a step of its part or a stutter. Eight parts with state are proved in that
module:

- the catalog cache (`Cache!IInv`, kept with the module): the flock belongs to every launch
  whose pc is in `Locking` (`LockHeld`: so there is one), and, as long as nobody hid the
  file, the comparison on which a launch is about to rename is still true, because only the
  holder of the flock changes the file (`CompareHolds`); from the rename to its end a
  launch finds the file at least as recent as its own observation (`StoreKept`); a barrier
  is there, or the file is as recent as what it records: the pruning launch compared it
  with a file that only becomes more recent (`BarrierKept`); what a reader has read is as
  recent as what was settled before, or the barrier that says otherwise is still among
  those it will look at (`ReaderSound`), and so is a truncated one (`ClosedAhead`). `CacheKept` has one step for each action;
- browser logins (`BrowserInv`): a page was opened by the login whose challenge it carries
  (`PagesKnown`), so that a code can only get to its own login (`CodesOwned`),
  and a port belongs to the login that listens on it (`PortsHeld`);
- a release (`ReleaseInv`): a file that is whole is what it first was (`KeptAsWritten`),
  because `writeNew` creates and never overwrites; what a file holds, or a command under
  way will write, is made of files that are whole and cannot change any more
  (`ContentsFit`, `PendingFit`): a bottle can be built only of a formula, a formula only
  of a source, so a manifest that fits is of whole files. What was promoted therefore
  stays of one piece (`PromotedStays`);
- a call over HTTP (`HTTPInv`): until the round trip returns its context is live or its
  timer has ended it, and afterwards a late callback finds it finished (`TimersKnow`);
  when it has returned the context is live exactly if somebody has a body to close
  (`ContextsEnd`). Besides `ResponsesAreNotCutOff` this gives `CredentialsStayHome`, what
  `RequestsGoHome` says of calls (`CallsAreServed`);
- the patched copies of Claude Code (`SourcesInv`): whatever a launch uses is there, and a
  lease of a process that lives names it (`Leased`), so that the retention of another
  launch keeps it (`UsedIsKept`); nothing kept is newer than the newest, which is
  therefore among the two newest of every release that knows it (`NewestIsKept`);
- the saved model (`DefaultInv`): only a session that runs is about to write, and what it
  found is newer than all it wrote (`Finding`); while a session has still to read the newest
  choice that choice may stand (`StillWanted`); and a setting that may not stand has a
  session behind that will replace it before its end (`WillBeRight`). So no choice is
  lost between a read and a write. This is what `LastChoiceStands` says of it;
- a launch (`LaunchInv`): what is open is what the steps up to here have opened
  (`Opened`), a command other than Claude Code opens no mirror, and Claude Code only
  runs at the places where nothing has been closed (`WithClaude`). The order of the steps,
  which each failure goes back through, is what makes `ClaudeIsServed` hold there;
- the OAuth proxy (`ProxyInv`): there are never more answers than requests, each from
  whoever must give it to the request at its place (`EachItsAnswer`), and what is on the
  wire is what the place in the connection allows (`WireFits`). `TablesAlwaysAgree` holds for
  any method and any path whatever. With calls this gives all of `RequestsGoHome`.

Of the parts without state these are proved for every input of their sets:

- `WorkersAreApart`: keys are tuples that differ in length or at one place
  (`PairsDiffer`), so two requests share one only if the speaker is the same
  (`SharingIsOfOneSpeaker`) and the conversation too (`ConversationsAreApart`);
- `NeededArgumentsSurvive`: a schema with branches is met when one of them is; merging
  them keeps required exactly what all require (`VariantsRequire`, `MergingKeeps`), hence an argument
  without which no branch accepts the object is never left away (`NeededAlwaysSurvive`);
- `ToldAsItIs`: the counts and windows by arithmetic (`StartsGrow`, `WindowsAgree`), the
  failures in two steps: which of few outcomes a payload has (`OutcomesKnown`), the same wherever
  it stands (`SaidAlike`), and what a stream (`StreamsTold`) and an answer
  (`AnswersTold`) make of each;
- `ClaudeIsServed`, as far as it is about variables and the keychain: what is captured is
  what the user had (`CaptureKeepsAll`), the child's environment is known place by place
  (`ChildIsKnown`), so tools get the user's back also two claudodex deep
  (`ToolsGetTheirOwn`), and Claude Code's traffic has one way (`WaysOfClaude`);
- `LastChoiceStands`, of arguments and settings: of several sources the first that says
  something counts, so what the user chose is in force behind what a launch adds
  (`ChoicesStay`), and the status line is the user's own (`LinesStay`). A command line is
  read as if each flag were looked at alone (`FlagsStay`): that is proved for command lines of any
  length. The loop is a recursive function, which exists and is what it is defined by
  (`TurnsAre`); `AlongTheRange` is induction along a range, with a set where the library
  has an operator; `TurnInv` says of each turn what was taken, pinned and handed on
  of the arguments so far, and has a lemma for each kind of argument (`TurnKeeps`);
- `ModelsAreRight`: the smallest that is large enough, of levels, windows and versions, needs
  that a finite set has a least member (`LeastOf`, from the well-founded order of the subsets
  of a finite set, again with a set for the operator). Then an effort asked for gets a level
  that the model has, and more never gets less (`Clamped`, `MoreIsNeverLess`); every name
  resolves to a model that serves it (`ResolvedServe`), workers included
  (`WorkersAreServed`); and compaction starts inside the room that every model has
  (`RoomsAreReal`, `CompactionFits`);
- `RecordedInOrder`: every item has one place among what is recorded, and there its
  arguments as soon as they are known (`TraceFits`); no event forgets anything (`Grows`),
  behind each one what it told is known (`Learnt`, `EventsAreRecorded`), and an output of which
  all is known, sorted, is the response (`OutputIsTheResponse`). `ResponsesAreRecorded` says so of
  responses of any length, told in any order and as often as one likes.

Every strengthening was an invariant of a TLC run before it was proved, and none of
the properties is inductive alone. The proofs rest only on the ASSUMEs of the
modules, which TLC evaluates in every run that extends them.

What stays with TLC: the liveness properties, which need fairness; and the refinement
`ProtocolKept` and `EverythingShownOnce` of `StreamReducer` and the three properties of
`Conversation`, whose operators fold, filter and search sequences of any length in every
step.

## 5. Plan

Everything planned has been written. Worth doing next: the properties of `Conversation`,
with its folds written as functions and induction along a range, as for the flags.

## 6. Not modelled

Tables of data: the byte patterns of `claude_binary_patch_2_1_*.go` (their hashes
verify them; that selection and leasing use them is in `ClaudeSources`). Terminal
output, banners and colours, request traces, how an SSE stream is cut into lines,
JSON-RPC framing, header names and wire formats, the contents of messages. The
installation id (two first launches may each make one; the last rename stays). The
settings for Claude Code before 2.1.246; the shell command of the status line and
its pinned helper; queues of steering messages in Claude Code; symbolic links of the
sidecar, enumerations that `mergeMaps` narrows, an `anyOf` satisfied only by an empty
value; equal modification times in the mirror. Clocks are counters, times are
compared and never measured. File operations are atomic where the code relies on
rename, O_EXCL or flock, and steps of their own elsewhere; file systems that lose
renames after a power failure are out of scope.

### Observations

What the code does that a reader may not expect, met while modelling and left out
of the properties, or excepted from them by name:

- *Tools.* A shell that a tool starts through PATH is the shim again: inside it
  the user's proxies are gone already and it runs `/bin/sh`. Variables that are
  deleted for Claude Code (such as ANTHROPIC_API_KEY) are not given back to its tools.
  Entries such as ".com" or "*.anthropic.com" stay in NO_PROXY. A claudodex that a
  tool starts without the shim takes the outer proxy for the user's.
- *Arguments.* `--claudodex-opus-model --` takes "--" for the model. `--settings` is
  added after an inner "--". A `--model sonnet` dropped on a picker of three tiers lets the
  saved default apply. Of two `--settings` or `--model` the first counts here, the
  last in Claude Code's parser.
- *OAuth proxy.* The deadline of ten minutes is one of the whole connection. HEAD on a
  local route is a 405. The body of a refused request is not read, so the connection
  closes. Bytes buffered behind an upgrade or CONNECT are dropped, and a tunnel closed
  in one direction loses the other.
- *Login.* "canceled" is ignored once the code was taken; the slow exchange of an
  older login may save over a newer one; a login beside a logout may take back its
  suppression (`provider.go:414`).
- *Failures.* Codes of rate limits count only with 429 or 503. Without streaming, a
  retry does not wait, and a refusal by policy is a 502. A resumed request that
  fails is sent again in full even for a failure that is final. A delay in a
  payload's headers is not used for HTTP answers.
- *Client.* The check of accounts has no header time-out. The callback of a timer
  that was reset may time out the wait that follows.
- *Files.* Of the files of a release and of the source archive a partial one is found only
  when the next command reads or verifies it. The removal of an old lock directory
  (`sidecar_mirror.go:597`) may hit a new one, as for lock files.
