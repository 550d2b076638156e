---------------------------- MODULE UsageLimits ----------------------------
(***************************************************************************)
(* Token counts and rate limits, as convert/stream.go, convert/usage.go    *)
(* and ratelimit/headers.go make Claude's of Codex'.  0 is an absent count.*)
(***************************************************************************)
EXTENDS Integers, Sequences, FiniteSets

\* What a response may say of its tokens: the input, of which some are cached,
\* the output and the sum; the cached part is told in the details or beside
\* them, or as a count of its own that is not part of the input.
Reports ==
  [input : 0..3, cached : 0..4, flat : 0..4, read : 0..1, creation : 0..1, output : 0..2, total : 0..5]

InputOf(u) ==
  IF u.input # 0 THEN u.input
  ELSE IF u.output > 0 /\ u.total > u.output THEN u.total - u.output ELSE u.total

Least(m, n) == IF m < n THEN m ELSE n

UsageFromMap(u) ==
  LET input == InputOf(u)
      cached == Least(IF u.cached # 0 THEN u.cached ELSE u.flat, input)
      included == u.cached + u.flat > 0
  IN  [input |-> IF included THEN input - cached ELSE input, creation |-> u.creation,
       read |-> IF included THEN cached ELSE u.read, output |-> u.output]

UsageInputTokens(usage) == usage.input + usage.creation + usage.read

UsageWithInputFallback(usage, fallback) ==
  IF UsageInputTokens(usage) = 0 /\ fallback > 0 THEN [usage EXCEPT !.input = fallback] ELSE usage

\* estimateVisibleOutputTokens
VisibleOutput(chars, blocks) ==
  IF chars > 0 THEN (chars + 2) \div 3 ELSE IF blocks > 0 THEN 1 ELSE 0

UsageForFinish(u, fallback, chars, blocks) ==
  LET usage == UsageWithInputFallback(UsageFromMap(u), fallback) IN
  IF blocks > 0 /\ usage.output = 0 THEN [usage EXCEPT !.output = VisibleOutput(chars, blocks)]
  ELSE usage

\* usageForStart; initial is the estimate of estimatedNextInputUsage.
UsageForStart(u, initial, fallback) ==
  LET told == UsageFromMap(u)
      usage == IF UsageInputTokens(told) = 0 /\ UsageInputTokens(initial) > 0 THEN initial ELSE told
  IN  [UsageWithInputFallback(usage, fallback) EXCEPT !.output = 0]

\* estimatedNextInputUsage: the last response and what has been added.
EstimatedNextInputUsage(previous, added) ==
  [previous EXCEPT !.input = @ + previous.output + added, !.output = 0]

-----------------------------------------------------------------------------
\* A window of a rate limit: its length in minutes and the percentage used.
NoWindow == [minutes |-> 0, used |-> -1]
Minutes == {284, 285, 300, 315, 316, 9575, 9576, 10584, 10585}
Windows == [minutes : Minutes, used : {0, 50, 90, 100}] \cup {NoWindow}
Distance(m, n) == IF m > n THEN m - n ELSE n - m

\* approxMinutes and approxWindow: five percent more or less.
ApproxMinutes(window, minutes) ==
  window.minutes > 0 /\ Distance(window.minutes, minutes) * 20 <= minutes
ApproxWindow(window, seconds) ==
  window.minutes > 0 /\ Distance(window.minutes * 60, seconds) * 20 <= seconds

\* FromCodexHeaders: the later of two windows of a length counts.
FromCodexHeaders(primary, secondary) ==
  LET of(minutes) == IF ApproxMinutes(secondary, minutes) THEN secondary
                     ELSE IF ApproxMinutes(primary, minutes) THEN primary ELSE NoWindow
  IN  [fiveHour |-> of(300), sevenDay |-> of(10080)]

CodexUsageToClaude(primary, secondary) ==
  LET of(seconds) == IF ApproxWindow(secondary, seconds) THEN secondary
                     ELSE IF ApproxWindow(primary, seconds) THEN primary ELSE NoWindow
  IN  [fiveHour |-> of(5 * 3600), sevenDay |-> of(7 * 24 * 3600)]

\* ApplyAnthropicHeaders
Status(snapshot, forced) ==
  IF forced \/ snapshot.fiveHour.used >= 100 \/ snapshot.sevenDay.used >= 100 THEN "rejected"
  ELSE IF snapshot.fiveHour.used >= 90 \/ snapshot.sevenDay.used >= 90 THEN "allowed_warning"
  ELSE "allowed"

RepresentativeClaim(snapshot) ==
  IF snapshot = [fiveHour |-> NoWindow, sevenDay |-> NoWindow] THEN "none"
  ELSE IF snapshot.sevenDay.used > snapshot.fiveHour.used THEN "sevenDay" ELSE "fiveHour"

-----------------------------------------------------------------------------
\* However a response reports its tokens, each is counted once: cached ones
\* are not part of the rest, and no count is negative.
CountOnce(u) ==
  LET usage == UsageFromMap(u) IN
  /\ usage.input >= 0 /\ usage.read >= 0
  /\ u.cached + u.flat > 0 \/ u.read = 0 => usage.input + usage.read = InputOf(u)

Unsaid == [input |-> 0, cached |-> 0, flat |-> 0, read |-> 0, creation |-> 0, output |-> 0, total |-> 0]

\* The start of a message that follows a response, of which it is told nothing.
StartIsTheRest(u, added, chars, blocks) ==
  LET last == UsageForFinish(u, 1, chars, blocks)
      start == UsageForStart(Unsaid, EstimatedNextInputUsage(last, added), 1)
  IN  start.output = 0
        /\ UsageInputTokens(start) = UsageInputTokens(last) + last.output + added

\* While a response does not say how much it read, its message starts with all
\* that the last one read and wrote and what has been added since, so that the
\* client's view of its context does not drop from message to message.
ContextGrows(u) ==
  \A added \in 0..1, chars \in {0, 4}, blocks \in 0..1 : StartIsTheRest(u, added, chars, blocks)

\* What is told of two windows
ToldAlike(primary, secondary) ==
  LET snapshot == FromCodexHeaders(primary, secondary)
      claim == RepresentativeClaim(snapshot)
  IN
  /\ CodexUsageToClaude(primary, secondary) = snapshot
  /\ Status(snapshot, FALSE) = "rejected" => snapshot[claim].used >= 100
  /\ Status(snapshot, FALSE) = "allowed_warning" => snapshot[claim].used >= 90

\* The usage page and the headers of a message name the same windows, and the
\* claim that the headers make is one that explains their status.
LimitsAgree(primary) == \A secondary \in Windows : ToldAlike(primary, secondary)
=============================================================================
