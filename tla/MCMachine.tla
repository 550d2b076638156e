----------------------------- MODULE MCMachine -----------------------------
(***************************************************************************)
(* The parts of claudodex that share no state, checked side by side: part  *)
(* says which one this behaviour is of.  The parts take turns with sixteen *)
(* variables, which the instances below name; those a part does not use    *)
(* stay 0.  The algorithms that keep no state are given every input of a   *)
(* bounded set instead.                                                    *)
(***************************************************************************)
EXTENDS Integers, Sequences, FiniteSets, TLC

CONSTANTS
  p1, p2, u1, u2, s1, s2, s3, Process, Nobody, User, Session, ConfigKey, Mirroring,
  MaxVersion, MaxBuild, MaxToken, MaxCalls, MaxChanges, MaxMishaps, MaxChoices, MaxLogins,
  MaxAttempts, MaxDials, MaxRedirects, MaxRequests, MaxMade, MaxClock, MaxAge, BarrierLimit

VARIABLES
  part,     \* the part of claudodex that this behaviour is of
  input,    \* what a part without a state is given
  x1, x2, x3, x4, x5, x6, x7, x8, x9, x10, x11, x12, x13, x14, x15, x16   \* the state of the part

Update ==
  INSTANCE SelfUpdateProofs WITH
    feed <- x1, tap <- x2, linked <- x3, keg <- x4, records <- x5, installer <- x6,
    proc <- x7, accepted <- x8

Borrow ==
  INSTANCE NativeBorrowProofs WITH
    native <- x1, life <- x2, reference <- x3, suppressed <- x4, direct <- x5,
    login <- x6, lock <- x7, cache <- x8, pinned <- x9, req <- x10, calls <- x11,
    accounts <- x12, out <- x13, spoiled <- x14, answer <- x15, robbed <- x16

Mirror ==
  INSTANCE ConfigMirrorProofs WITH
    Session <- Mirroring, Key <- ConfigKey, file <- x1, order <- x2, mutex <- x3, session <- x4,
    changes <- x5, mishaps <- x6, lone <- x7, raced <- x8

Default ==
  INSTANCE SavedModel WITH
    Session <- Mirroring, now <- x1, saved <- x2, settings <- x3, mirror <- x4, wanted <- x5

Sources ==
  INSTANCE ClaudeSources WITH
    Launch <- Process, MaxBuild <- MaxVersion, installed <- x1, snapshots <- x2,
    patched <- x3, leases <- x4, holder <- x5, launch <- x6, newest <- x7

Start ==
  INSTANCE Launch WITH
    stored <- x1, logins <- x2, run <- x3, claude <- x4

Cache ==
  INSTANCE CatalogCache WITH
    Launch <- Session, NoLaunch <- Nobody, clock <- x1, file <- x2, lock <- x3,
    barrier <- x4, pc <- x5, obs <- x6, fet <- x7, invalid <- x8, todo <- x9, got <- x10,
    before <- x11

HTTP ==
  INSTANCE Transport WITH
    client <- x1, dest <- x2, call <- x3, trip <- x4, timer <- x5, parent <- x6,
    jar <- x7, sent <- x8

Proxy ==
  INSTANCE OAuthProxy WITH
    conn <- x1, wire <- x2, asked <- x3, replies <- x4, remote <- x5

Releases ==
  INSTANCE Release WITH
    file <- x1, world <- x2, command <- x3, promoted <- x4, first <- x5

Browser ==
  INSTANCE LoginCallback WITH
    port <- x1, stage <- x2, tried <- x3, inbox <- x4, pages <- x5, granted <- x6

Trace == INSTANCE ResponseTrace
Routing == INSTANCE RequestRouting
Tools == INSTANCE ToolSchemas
Tokens == INSTANCE UsageLimits
Choice == INSTANCE StartupSettings
Errors == INSTANCE Failures
Flags == INSTANCE ModelFlags
Environment == INSTANCE ToolEnvironment

ASSUME ConstantsAssumption ==
  Update!Sensible /\ Borrow!Sensible /\ Mirror!Sensible /\ Browser!Sensible /\ Cache!Sensible

Symmetric == Permutations(Process) \cup Permutations(Session)

-----------------------------------------------------------------------------
\* The slots that a part of n variables does not use.
after11 == <<x12, x13, x14, x15, x16>>
after8 == <<x9, x10, x11, after11>>
after7 == <<x8, after8>>
after6 == <<x7, after7>>
after5 == <<x6, after6>>
after4 == <<x5, after5>>
after0 == <<x1, x2, x3, x4, after4>>

Unused11 == x12 = 0 /\ x13 = 0 /\ x14 = 0 /\ x15 = 0 /\ x16 = 0
Unused8 == x9 = 0 /\ x10 = 0 /\ x11 = 0 /\ Unused11
Unused7 == x8 = 0 /\ Unused8
Unused6 == x7 = 0 /\ Unused7
Unused5 == x6 = 0 /\ Unused6
Unused4 == x5 = 0 /\ Unused5
Unused0 == x1 = 0 /\ x2 = 0 /\ x3 = 0 /\ x4 = 0 /\ Unused4

Stateful ==
  {"update", "borrow", "mirror", "default", "sources", "start", "cache", "http", "proxy",
   "release", "browser"}

Init ==
  /\ \/ part \in Stateful /\ input = 0
     \/ part = "trace" /\ input \in Trace!Responses
     \/ part = "routing" /\ input \in Routing!Requests
     \/ part = "tools" /\ input \in Tools!Halves
     \/ part = "tokens" /\ input \in Tokens!Reports
     \/ part = "limits" /\ input \in Tokens!Windows
     \/ part = "choice" /\ input \in Choice!Catalogs \X Choice!PinSets
     \/ part = "launches" /\ input \in Choice!Launches
     \/ part = "lines" /\ input \in Choice!StatusLines
     \/ part = "routes" /\ input \in Proxy!Methods \X Proxy!Paths
     \/ part = "failures" /\ input \in Errors!Reports
     \/ part = "flags" /\ input \in Flags!CommandLines \X Flags!Bases
     \/ part = "environment" /\ input \in Environment!Environments \X BOOLEAN
     \/ part = "keychain" /\ input \in Environment!Commands
     \/ part = "effort" /\ input \in (SUBSET Choice!Efforts) \ {{}}
  /\ CASE part = "update" -> Update!Init /\ Unused8
       [] part = "borrow" -> Borrow!Init
       [] part = "mirror" -> Mirror!Init /\ Unused8
       [] part = "default" -> Default!Init /\ Unused5
       [] part = "sources" -> Sources!Init /\ Unused7
       [] part = "start" -> Start!Init /\ Unused4
       [] part = "cache" -> Cache!Init /\ Unused11
       [] part = "http" -> HTTP!Init /\ Unused8
       [] part = "proxy" -> Proxy!Init /\ Unused5
       [] part = "release" -> Releases!Init /\ Unused5
       [] part = "browser" -> Browser!Init /\ Unused6
       [] OTHER -> Unused0

Next ==
  /\ UNCHANGED <<part, input>>
  /\ \/ part = "update" /\ UNCHANGED after8 /\ Update!Next
     \/ part = "borrow" /\ Borrow!Next
     \/ part = "mirror" /\ UNCHANGED after8 /\ Mirror!Next
     \/ part = "default" /\ UNCHANGED after5 /\ Default!Next
     \/ part = "sources" /\ UNCHANGED after7 /\ Sources!Next
     \/ part = "start" /\ UNCHANGED after4 /\ Start!Next
     \/ part = "cache" /\ UNCHANGED after11 /\ Cache!Next
     \/ part = "http" /\ UNCHANGED after8 /\ HTTP!Next
     \/ part = "proxy" /\ UNCHANGED after5 /\ Proxy!Next
     \/ part = "release" /\ UNCHANGED after5 /\ Releases!Next
     \/ part = "browser" /\ UNCHANGED after6 /\ Browser!Next

all == <<part, input, after0>>

Spec == Init /\ [][Next]_all

-----------------------------------------------------------------------------
\* selfupdate: a process only becomes a program of a version that its user has
\* accepted, and that program skips the offer only if it is the very build that
\* its handoff was made for; and what a release consists of was made once, of one
\* source (clx-release).
UpdatesAreAccepted ==
  /\ part = "update" => Update!OnlyAcceptedRuns /\ Update!HandoffFitsOnce
  /\ part = "release" => Releases!WrittenOnce /\ Releases!OnePiece

\* auth/provider.go: a process that borrows Codex's login is served one account
\* from its first token to its end, whoever logs in to Codex meanwhile;
\* and a login in the browser ends with its own code (oauth.go).
OneAccount ==
  /\ part = "borrow" => Borrow!OneAccount
  /\ part = "browser" => Browser!LoginsAreApart

\* auth/provider.go: nothing is given out once a logout has returned, and a
\* token that was refused is not given out again.
BorrowingEnds == part = "borrow" => Borrow!NothingAfterLogout /\ Borrow!RejectedIsForgotten

\* launcher/sidecar_mirror.go: a change of the user's configuration that
\* nothing else touches reaches the file it must and is not undone; what belongs
\* to one configuration only, such as the login of Claude Code, stays there.
ConfigurationIsKept == part = "mirror" => Mirror!LoneChangesSurvive /\ Mirror!ProtectedKeysStay

\* launcher/sidecar_mirror.go: the model that a user chose last as the default
\* is the one the next session starts with; and of arguments, settings and the
\* environment what the user chose is in force behind all that claudodex adds
\* (statusline.go, args.go, model_flags.go).
LastChoiceStands ==
  /\ part = "default" => Default!LastChoiceStands
  /\ part = "flags" => Flags!FlagsAreUnderstood(input[1], input[2])
  /\ part = "launches" => Choice!ChoicesAreKept(input)
  /\ part = "lines" => Choice!StatusLineIsTheUsers(input)

\* launcher/claude_verified.go: whatever other launches do, of whatever release
\* and with whatever models, the files that a living launch has selected stay,
\* and the newest build that was ever kept remains to fall back to.
SelectedFilesStay == part = "sources" => Sources!SelectedFilesStay /\ Sources!NewestStays

\* launcher/launcher.go: while Claude Code runs, all that it was given is there,
\* for the account whose models it was shown; a process that ends leaves nothing;
\* and between Claude Code and the tools it starts each has its own environment
\* (env.go, sidecar.go).
ClaudeIsServed ==
  /\ part = "start" => Start!ClaudeIsServed
  /\ part = "environment" => Environment!EnvironmentsAreApart(input[1], input[2])
  /\ part = "keychain" => Environment!KeychainIsTheUsers(input)

\* modelcatalog/load.go: what a launch has persisted of the catalog stays in the
\* cache file or in the launch's barrier, whatever slower launches do.
ObservationsAreKept == part = "cache" => Cache!ObservationKept

\* modelcatalog/load.go: cached models in use are as recent as all that was stored
\* before they were read, and as every barrier that still stands; and none are
\* used past a barrier that could not be finished.
ServedIsRecent == part = "cache" => Cache!ServedIsRecent

\* modelcatalog/load.go: no step makes the cache file older, unless a launch has
\* had to make it unreadable.
CacheNeverOlder == [][part = "cache" /\ Cache!NoneHidden' => Cache!NotOlder]_all

\* codex/client.go: an answer whose headers came in time is not broken off by
\* the timer that waited for them, and no request is left without a caller.
ResponsesAreNotCutOff == part = "http" => HTTP!ResponsesAreNotCutOff /\ HTTP!NothingIsLeftBehind

\* codex/workspace.go: a borrowed login and the cookies of ChatGPT only go where
\* they belong, through redirects and the workspace's own address; what Claude
\* Code asks of Anthropic is answered here if and only if it can be answered
\* here (oauth_proxy.go).
RequestsGoHome ==
  /\ part = "http" => HTTP!RequestsGoHome
  /\ part = "proxy" => Proxy!AnswersFit
  /\ part = "routes" => Proxy!TablesAgree(input[1], input[2])

\* proxy/chain.go: every item of a response is recorded once, in order and with
\* its arguments, in whatever order its events come.
RecordedInOrder == part = "trace" => Trace!InOrder(input)

\* convert/request.go: a request takes up what another left behind only if both
\* come from the same speaker and belong to its conversation.
WorkersAreApart == part = "routing" => Routing!Apart(input)

\* convert/stream.go: exactly the empty arguments that some valid object does
\* without are removed from a call.
NeededArgumentsSurvive == part = "tools" => Tools!NeededSurvive(input)

\* convert, ratelimit and proxy/errors.go: what Claude Code is told of tokens
\* and limits adds up, and of failures it is told what they are.
ToldAsItIs ==
  /\ part = "tokens" => Tokens!CountOnce(input) /\ Tokens!ContextGrows(input)
  /\ part = "limits" => Tokens!LimitsAgree(input)
  /\ part = "failures" => Errors!FailuresAreTold(input)

\* modelcatalog: every name gets a model that serves it, with an effort and a
\* window of its own.
ModelsAreRight ==
  /\ part = "choice" =>
       /\ Choice!ResolvedModelsServe(input[1], input[2])
       /\ Choice!WorkersGetTheirModel(input[1], input[2])
       /\ Choice!WindowsFit(input[1], input[2])
       /\ Choice!RoomIsReal(input[1], input[2])
  /\ part = "effort" => Choice!MoreIsNotLess(input)
=============================================================================
