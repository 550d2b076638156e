------------------------------- MODULE Failures -------------------------------
(***************************************************************************)
(* A failure that Codex reports, in a body or in an event, and what the    *)
(* proxy makes of it: another try after a while, or an error for Claude    *)
(* Code (codex/errors.go, proxy/errors.go, proxy/messages.go, and the end  *)
(* of convert/stream.go).                                                  *)
(*                                                                         *)
(* Codes with one treatment are one: "rate" for slow_down and              *)
(* rate_limit_exceeded, "policy" for bio_policy and budget_reached,        *)
(* "terminal" for the others that end a turn, "server" for overload and    *)
(* internal errors.  A status or a delay that is not given is 0 or Unset.  *)
(***************************************************************************)
EXTENDS Integers

Unset == -1
Codes == {"", "rate", "policy", "terminal", "flex", "server", "content_filter", "another"}
TerminalCodes == {"policy", "terminal", "flex"}
RetryableCodes == {"rate", "server"}

\* One place of a payload: its code, what a message of it says of a delay,
\* whether it has another message or a status, the delay among its headers and
\* whether it may be tried again.
Silent == [code |-> "", says |-> Unset, words |-> FALSE, header |-> Unset, retryable |-> FALSE]

Longest(a, b) == IF a > b THEN a ELSE b

\* responseFailureCandidates: error, response.error, the payload itself.
Candidates(payload) == <<payload.error, payload.response, payload.top>>

\* Such a place is the one that counts; what a later one has is not looked at.
Tells(place) == place.code # "" \/ place.says # Unset \/ place.words

\* The first of the places with these numbers, else the last of all
First(places, numbers) == places[IF 1 \in numbers THEN 1 ELSE IF 2 \in numbers THEN 2 ELSE 3]

\* (variant) the delay of the place that has the code
ParseOnePlace(payload) ==
  LET places == Candidates(payload) IN First(places, {n \in 1 .. 3 : Tells(places[n])})

\* ParseResponseFailure: the first place that says anything, with the first
\* delay among the headers of any.
ParseResponseFailure(payload) ==
  LET places == Candidates(payload)
      told == {n \in 1 .. 3 : Tells(places[n])}
      headed == {n \in 1 .. 3 : places[n].header # Unset}
  IN  IF told = {} THEN Silent
      ELSE [First(places, told) EXCEPT !.header = First(places, headed).header]

\* anthropicFailureType
AnthropicFailureType(code) ==
  CASE code = "rate" -> "rate_limit_error" [] code = "policy" -> "invalid_request_error"
    [] OTHER -> "api_error"

\* errorEventsWithTypeAndFailure: a delay of the message counts where no header
\* gives one.
RetryAfter(failure) ==
  IF failure.header # Unset THEN failure.header ELSE Longest(failure.says, 0)
RetrySet(failure) == failure.header # Unset \/ failure.says > 0

-----------------------------------------------------------------------------
(* An answer that is an error                                              *)

MapUpstreamStatus(status, code) ==
  IF code = "policy" THEN "invalid_request_error"
  ELSE IF status = 503 /\ code = "rate" THEN "rate_limit_error"
  ELSE CASE status \in {400, 413} -> "invalid_request_error" [] status = 401 -> "authentication_error"
         [] status = 403 -> "permission_error" [] status = 404 -> "not_found_error"
         [] status = 429 -> "rate_limit_error" [] status \in {502, 503, 529} -> "overloaded_error"
         [] OTHER -> "api_error"

Tell(type) == [then |-> "tell", type |-> type, wait |-> 0]
TryAgain(wait) == [then |-> "try again", type |-> "", wait |-> wait]

\* retryDelayFromHeaders
DelayOf(headers) == Longest(headers, 0)

\* shouldRetryUpstreamRateLimit with waitForUpstreamRetry, the repetition in
\* full of a request that was resumed, and writeMappedUpstreamError.
Answered(at, payload) ==
  LET failure == ParseResponseFailure(payload) IN
  IF at.live /\ at.left /\ failure.code = "rate"
  THEN TryAgain(Longest(DelayOf(at.headers), failure.says))
  ELSE IF at.left /\ at.resumed /\ failure.code # "flex" THEN TryAgain(0)
  ELSE Tell(MapUpstreamStatus(at.status, failure.code))

-----------------------------------------------------------------------------
(* An event of a stream                                                    *)

\* errorFromPayload, errorEventsFromFailure; a type of the event's own counts
\* where the code has none.
EventType(failure, type) ==
  IF AnthropicFailureType(failure.code) # "api_error" \/ type = "" THEN AnthropicFailureType(failure.code) ELSE type

\* Whether the stream is given up instead of passing the event on.
GivenUp(at, failure) ==
  /\ failure.code \notin TerminalCodes
  /\ ~at.wrote \/ failure.code = "content_filter"
  /\ \/ at.resumed \/ failure.retryable \/ RetrySet(failure)
     \/ failure.code \in RetryableCodes \cup {"content_filter"}

ShouldRetryStream(at, failure) ==
  /\ at.live /\ failure.code \notin TerminalCodes
  /\ \/ failure.code = "content_filter" \/ at.resumed
     \/ failure.retryable \/ RetrySet(failure) \/ failure.code \in RetryableCodes

\* writeMappedStreamError
MappedStreamError(failure) ==
  CASE failure.code = "policy" -> "invalid_request_error" [] failure.code = "rate" -> "rate_limit_error"
    [] OTHER -> "api_error"

\* streamAnthropicWithSchemas, and what handleMessages makes of its error; of a
\* stream that has begun only its end can be told.
Streamed(at, payload, type) ==
  LET failure == ParseResponseFailure(payload) IN
  IF ~GivenUp(at, failure) THEN Tell(EventType(failure, type))
  ELSE IF at.wrote THEN Tell("overloaded_error")
  ELSE IF at.left /\ ShouldRetryStream(at, failure)
       THEN TryAgain(Longest(DelayOf(at.headers), RetryAfter(failure)))
       ELSE Tell(MappedStreamError(failure))

\* writeNonStreamingMessageWithSchemas reads to the end; nothing is waited for,
\* and of the codes only that of a limit is told.
Collected(at, payload) ==
  LET failure == ParseResponseFailure(payload) IN
  IF at.left /\ ShouldRetryStream(at, failure) THEN TryAgain(0)
  ELSE Tell(IF failure.code = "rate" THEN "rate_limit_error" ELSE "api_error")

-----------------------------------------------------------------------------
Reports ==
  {report \in
     [code : Codes, says : {Unset, 2}, words : BOOLEAN, header : {Unset, 0, 1}, retryable : BOOLEAN,
      headers : {Unset, 3}, live : BOOLEAN, left : BOOLEAN, resumed : BOOLEAN, wrote : BOOLEAN] :
   Tells(report)}

\* The ways to say the same: under error, under response, at the top, with
\* something else in a later place, or with the headers in another place than
\* the code.
Payloads(in) ==
  LET said == [code |-> in.code, says |-> in.says, words |-> in.words, header |-> in.header,
               retryable |-> in.retryable]
      bare == [said EXCEPT !.header = Unset]
      headed == [Silent EXCEPT !.header = in.header]
      other == [Silent EXCEPT !.code = "another", !.words = TRUE]
      at(error, response, top) == [error |-> error, response |-> response, top |-> top]
  IN  { at(said, Silent, Silent), at(Silent, said, Silent), at(Silent, Silent, said),
        at(said, other, other), at(bare, Silent, headed), at(headed, bare, Silent) }

Statuses(in) == IF in.code = "rate" THEN {429, 503} ELSE {400, 429, 500, 503}

\* Wherever the first place that says anything is and whenever the failure comes,
\* Claude Code is told of a limit as a limit and of a refusal by policy as a bad
\* request, in both cases of what the code says (of a refusal by policy only by
\* an answer or in a stream: what is collected makes it an API error); nothing terminal in a stream is tried again; and a try again
\* waits for as long as every delay that counts asks for.
FailuresAreTold(in) ==
  LET at(status) == [status |-> status, headers |-> in.headers, live |-> in.live, left |-> in.left,
                     resumed |-> in.resumed, wrote |-> in.wrote]
      ways == UNION {{Streamed(at(0), payload, "")} \cup {Answered(at(s), payload) : s \in Statuses(in)}
                       : payload \in Payloads(in)}
      stream == {Streamed(at(0), payload, "") : payload \in Payloads(in)}
      collected == {Collected(at(0), payload) : payload \in Payloads(in)}
  IN
  /\ \A told \in ways : told.then = "tell" =>
       /\ in.code = "rate" => told.type = "rate_limit_error"
       /\ in.code = "policy" => told.type = "invalid_request_error"
  /\ \A told, other \in stream : told = other
  /\ \A told, other \in collected : told = other
  /\ \A told \in stream :
       /\ in.code \in TerminalCodes => told.then = "tell"
       /\ told.then = "try again" =>
            /\ in.live /\ in.left /\ ~in.wrote
            /\ told.wait >= in.headers /\ told.wait >= in.header
            /\ in.header = Unset => told.wait >= in.says
       /\ in.live /\ in.left /\ ~in.wrote /\ in.code \notin TerminalCodes
            /\ (in.header # Unset \/ in.code = "rate") => told.then = "try again"
  /\ \A told \in collected : told.then = "tell" /\ in.code = "rate" => told.type = "rate_limit_error"
=============================================================================
