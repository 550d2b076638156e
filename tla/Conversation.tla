---------------------------- MODULE Conversation ----------------------------
(***************************************************************************)
(* What the model gets to see of a conversation.  Claude Code sends its    *)
(* whole history with every request, and may rewind or compact it; the     *)
(* proxy converts it (convert/request.go) and, if it recorded the response *)
(* that came last (proxy/chain.go), sends only what is new on top of that  *)
(* response, or the recorded items with their reasoning, or all of it.     *)
(* A text, call or other part is a pair: the response it is of, 0 for      *)
(* Claude Code, and a number.  Nobody says the same thing twice.           *)
(***************************************************************************)
EXTENDS Integers, Sequences, FiniteSets, SequencesExt, FiniteSetsExt

CONSTANTS
  Shapes,      \* the sequences of item types a response may consist of, one at least
  MaxAnswers,  \* bound: responses in all
  MaxTexts     \* bound: texts of the user

ASSUME BoundsAssumption ==
  /\ MaxAnswers \in Nat \ {0} /\ MaxTexts \in Nat \ {0}
  /\ \A s \in Shapes : s # <<>> /\ s \in Seq({"reasoning", "message", "call", "search"})

VARIABLES
  history,   \* Claude Code's messages, each a role and blocks
  guidance,  \* the instructions it sends
  options,   \* model, effort, service tier, ...
  chain,     \* the response recorded for the thread: Server.chains
  conn,      \* the thread's WebSocket: "none", "live" or "broken"
  memory,    \* the upstream: the last response on the live connection
  req,       \* the request that is handled
  count      \* responses and texts so far

vars == <<history, guidance, options, chain, conn, memory, req, count>>

Nothing == [id |-> 0]

\* The items a model reads: texts, calls and results, its reasoning and its
\* searches.
Text(role, keys) == [type |-> role, keys |-> keys]
Other(type, key) == [type |-> type, keys |-> <<key>>]

Idle == [pc |-> "idle", full |-> <<>>, asked |-> <<>>, guidance |-> 0, options |-> 0, turn |-> 0,
         prev |-> 0, input |-> <<>>, output |-> <<>>, id |-> 0, ws |-> FALSE, seen |-> <<>>,
         retried |-> FALSE]

Init ==
  /\ history = <<>> /\ guidance = 1 /\ options = 1
  /\ chain = Nothing /\ conn = "none" /\ memory = Nothing
  /\ req = Idle /\ count = [answers |-> 0, texts |-> 0]

-----------------------------------------------------------------------------
(* Claude Code                                                             *)

Block(kind, key) == [kind |-> kind, key |-> key]
Says(t) == [role |-> "user", blocks |-> <<Block("text", <<0, t>>)>>]

\* The results of the calls among the first n blocks of a message.
ResultsUpTo(blocks) ==
  LET results[n \in 0..Len(blocks)] ==
        IF n = 0 THEN <<>>
        ELSE IF blocks[n].kind = "tool_use" THEN Append(results[n - 1], Block("tool_result", blocks[n].key))
        ELSE results[n - 1]
  IN  results

\* What the calls of the last message wait for.
Results ==
  IF history = <<>> THEN <<>>
  ELSE LET blocks == history[Len(history)].blocks IN ResultsUpTo(blocks)[Len(blocks)]

HasResults(message) == \E n \in DOMAIN message.blocks : message.blocks[n].kind = "tool_result"

\* What Claude Code may send next: a text, results of calls with or without a
\* text of a user who steers, the same once more after a failure, a text in
\* place of an earlier one, or a summary in place of everything.
Histories ==
  LET t == count.texts + 1
      user(blocks) == [role |-> "user", blocks |-> blocks]
      steering == [role |-> "system", blocks |-> <<Block("text", <<0, t>>)>>]
  IN
  (IF Results = <<>> THEN {Append(history, Says(t))}
   ELSE {Append(history, user(Results)),
         Append(history, user(Append(Results, Block("text", <<0, t>>)))),
         Append(Append(history, user(Results)), steering)})
    \cup {h \in {history} : h # <<>> /\ h[Len(h)].role # "assistant"}
    \cup {Append(SubSeq(history, 1, n - 1), Says(t)) :
            n \in {m \in DOMAIN history : history[m].role = "user" /\ ~HasResults(history[m])}}
    \cup {<<Says(t)>>}

-----------------------------------------------------------------------------
(* convert/request.go                                                      *)

\* A search the client was shown comes back as a call and its output, under an
\* identity that no recorded item has.
SearchId(key) == Append(key, 0)
IsSearch(item) == item.type \in {"call", "output"} /\ Len(item.keys[1]) = 3

\* convertContent: texts that are not separated by a call become one message;
\* thinking blocks are dropped and separate nothing.
ConvertBlock(role, items, b) ==
  LET end == Len(items)
      merge == items # <<>> /\ items[end].type = role IN
  CASE b.kind = "text" ->
         IF merge THEN [items EXCEPT ![end] = Text(role, Append(items[end].keys, b.key))]
         ELSE Append(items, Text(role, <<b.key>>))
    [] b.kind = "tool_use" -> Append(items, Other("call", b.key))
    [] b.kind = "tool_result" -> Append(items, Other("output", b.key))
    [] b.kind = "server_tool_use" -> Append(items, Other("call", SearchId(b.key)))
    [] b.kind = "web_search_tool_result" -> Append(items, Other("output", SearchId(b.key)))
    [] b.kind = "thinking" -> items

ConvertUpTo(role, blocks) ==
  LET items[n \in 0..Len(blocks)] ==
        IF n = 0 THEN <<>> ELSE ConvertBlock(role, items[n - 1], blocks[n])
  IN  items

ConvertContent(message) ==
  LET role == IF message.role = "assistant" THEN "message" ELSE "user"
  IN  ConvertUpTo(role, message.blocks)[Len(message.blocks)]

\* convertMessages; a system message here is one that carries queued steering.
ConvertMessages(messages) ==
  FlattenSeq([n \in DOMAIN messages |-> ConvertContent(messages[n])])

-----------------------------------------------------------------------------
(* proxy/chain.go                                                          *)

\* lastMatchingMessage, lastMatchingFunctionCall
LastMatch(input, item) == Max({n \in DOMAIN input : input[n] = item} \cup {0})

\* The place of the last recorded text or call that the input has.
TrimAfterRecordedOutput(input, output) ==
  Max({LastMatch(input, output[n]) : n \in {m \in DOMAIN output : output[m].type \in {"message", "call"}}}
        \cup {0})

\* Where the new part of the input begins, for a chain that fits the request.
ResumeFrom(input) ==
  LET prefix == chain.input \o chain.output
  IN  IF IsPrefix(prefix, input) THEN Len(prefix) ELSE TrimAfterRecordedOutput(input, chain.output)

After(input, n) == SubSeq(input, n + 1, Len(input))

ResumeCompatible(o) == chain # Nothing /\ chain.options = o

\* applyImplicitResumeDetailed
Resumes(input, g, o) ==
  /\ ResumeCompatible(o) /\ chain.guidance = g
  /\ ResumeFrom(input) \in 1..(Len(input) - 1)

\* applyStatelessReplayDetailed: the recorded items in place of what Claude
\* Code has of them.
StatelessReplay(input, o) ==
  LET n == IF ResumeCompatible(o) THEN TrimAfterRecordedOutput(input, chain.output) ELSE 0
  IN  IF n \in 1..(Len(input) - 1) THEN chain.input \o chain.output \o After(input, n) ELSE input

\* (variant) whatever goes on with the recorded response is of its turn
ContinuesResponse(input) ==
  chain # Nothing /\ TrimAfterRecordedOutput(input, chain.output) \in 1..(Len(input) - 1)

\* chainContinuesToolCall: the new part has the result of a recorded call.
ChainContinuesToolCall(input) ==
  chain # Nothing /\
  LET n == TrimAfterRecordedOutput(input, chain.output) IN
  n > 0 /\ \E item \in ToSet(After(input, n)), call \in ToSet(chain.output) :
             item.type = "output" /\ call.type = "call" /\ item.keys = call.keys

-----------------------------------------------------------------------------
(* The handler                                                             *)

\* A request with history h, guidance g and options o comes in.
Ask(h, g, o) ==
  LET input == ConvertMessages(h)
      full == StatelessReplay(input, o)
      resumes == conn # "none" /\ Resumes(input, g, o)
  IN
  /\ req.pc = "idle" /\ count.texts < MaxTexts /\ count.answers < MaxAnswers
  /\ history' = h /\ guidance' = g /\ options' = o
  /\ req' = [Idle EXCEPT
       !.pc = "waiting", !.asked = input, !.full = full, !.guidance = g, !.options = o,
       !.turn = IF ChainContinuesToolCall(input) THEN chain.turn ELSE count.texts + 1,
       !.prev = IF resumes THEN chain.id ELSE 0,
       !.input = IF resumes THEN After(input, ResumeFrom(input)) ELSE full]
  /\ count' = [count EXCEPT !.texts = @ + 1]
  /\ UNCHANGED <<chain, conn, memory>>

\* What the upstream makes of a request: developer guidance comes first.
Context ==
  IF req.prev # 0 THEN memory.items \o req.input
  ELSE <<Other("developer", <<0, req.guidance>>)>> \o req.input

\* The items of the n-th response.
Items(shape, n) ==
  [k \in DOMAIN shape |-> IF shape[k] = "message" THEN Text("message", <<<<n, k>>>>)
                          ELSE Other(shape[k], <<n, k>>)]

\* A response arrives, over the WebSocket or over HTTP.  If more, the model
\* wants to be sampled again.
Respond(shape, ws, more) ==
  LET n == count.answers + 1
      items == Items(shape, n)
  IN
  /\ req.pc = "waiting" /\ n <= MaxAnswers
  /\ req.prev # 0 => ws /\ conn = "live" /\ memory.id = req.prev
  /\ more => n < MaxAnswers /\ "call" \notin ToSet(shape)
  /\ req' = [req EXCEPT !.pc = IF more THEN "partial" ELSE "finished", !.id = n, !.ws = ws,
                        !.output = @ \o items, !.seen = Context]
  /\ memory' = IF ws THEN [id |-> n, items |-> Context \o items] ELSE memory
  /\ conn' = IF ws THEN "live" ELSE conn
  /\ count' = [count EXCEPT !.answers = n]
  /\ UNCHANGED <<history, guidance, options, chain>>

\* The upstream does not know the response, or the attempt fails early: once,
\* the full request is sent in its place.
RetryFull ==
  /\ req.pc = "waiting" /\ ~req.retried /\ req.output = <<>>
  /\ req' = [req EXCEPT !.prev = 0, !.input = req.full, !.retried = TRUE]
  /\ chain' = Nothing /\ conn' = "none" /\ memory' = Nothing
  /\ UNCHANGED <<history, guidance, options, count>>

\* (variant) without the WebSocket the parts before are not sent
ContinuationForgets ==
  /\ req.pc = "partial"
  /\ LET same == req.ws /\ conn # "none" IN
     req' = [req EXCEPT !.pc = "waiting", !.prev = IF same THEN req.id ELSE 0,
                        !.input = IF same THEN <<>> ELSE req.full]
  /\ UNCHANGED <<history, guidance, options, chain, conn, memory, count>>

\* continuationRequest: over the same WebSocket nothing has to be sent.
ContinuationRequest ==
  /\ req.pc = "partial"
  /\ LET same == req.ws /\ conn # "none" IN
     req' = [req EXCEPT !.pc = "waiting", !.prev = IF same THEN req.id ELSE 0,
                        !.input = IF same THEN <<>> ELSE req.full \o req.output]
  /\ UNCHANGED <<history, guidance, options, chain, conn, memory, count>>

\* The client gets an error.
Fail ==
  /\ req.pc = "waiting" /\ req' = Idle
  /\ UNCHANGED <<history, guidance, options, chain, conn, memory, count>>

\* The message of the response (see StreamReducer).
Assembled(items, n) ==
  CASE items[n].type = "message" -> <<Block("text", items[n].keys[1])>>
    [] items[n].type = "call" -> <<Block("tool_use", items[n].keys[1])>>
    [] items[n].type = "search" -> <<Block("server_tool_use", items[n].keys[1]),
                                     Block("web_search_tool_result", items[n].keys[1])>>
    [] items[n].type = "reasoning" -> IF n = 1 THEN <<Block("thinking", items[n].keys[1])>> ELSE <<>>

Message(output) ==
  [role |-> "assistant", blocks |-> FlattenSeq([n \in DOMAIN output |-> Assembled(output, n)])]

\* (variant) the delta is recorded
RecordDelta ==
  /\ req.pc = "finished"
  /\ chain' = [id |-> req.id, input |-> req.input, output |-> req.output,
               guidance |-> req.guidance, options |-> req.options, turn |-> req.turn]
  /\ history' = Append(history, Message(req.output))
  /\ req' = Idle
  /\ UNCHANGED <<guidance, options, conn, memory, count>>

\* The response is recorded; Claude Code appends the message.
RecordResponseChain ==
  /\ req.pc = "finished"
  /\ chain' = [id |-> req.id, input |-> req.full, output |-> req.output,
               guidance |-> req.guidance, options |-> req.options, turn |-> req.turn]
  /\ history' = Append(history, Message(req.output))
  /\ req' = Idle
  /\ UNCHANGED <<guidance, options, conn, memory, count>>

\* The connection breaks; the upstream forgets what was said on it (store is
\* false).  The map of conversations keeps its entry.
Break ==
  /\ conn = "live" /\ conn' = "broken" /\ memory' = Nothing
  /\ UNCHANGED <<history, guidance, options, chain, req, count>>

\* claudodex is started anew and Claude Code resumes its history.
Restart ==
  /\ req.pc = "idle" /\ chain # Nothing
  /\ chain' = Nothing /\ conn' = "none" /\ memory' = Nothing
  /\ UNCHANGED <<history, guidance, options, req, count>>

Over == req.pc = "idle" /\ (count.texts = MaxTexts \/ count.answers = MaxAnswers) /\ UNCHANGED vars

Next ==
  \/ \E h \in Histories, g \in {1, 2}, o \in {1, 2} : (g = 1 \/ o = 1) /\ Ask(h, g, o)
  \/ \E s \in Shapes, ws, more \in BOOLEAN : Respond(s, ws, more)
  \/ RetryFull \/ ContinuationRequest \/ Fail \/ RecordResponseChain \/ Break \/ Restart \/ Over

Spec == Init /\ [][Next]_vars

-----------------------------------------------------------------------------
(* Properties                                                              *)

TypeOK ==
  /\ req.pc \in {"idle", "waiting", "partial", "finished"}
  /\ conn \in {"none", "live", "broken"} /\ (memory # Nothing => conn = "live")
  /\ count.answers \in 0..MaxAnswers /\ count.texts \in 0..MaxTexts
  /\ req.prev \in 0..count.answers /\ req.id \in 0..count.answers
  /\ chain # Nothing => chain.id \in 1..count.answers
  /\ \A n \in DOMAIN history : history[n].role \in {"user", "assistant", "system"}

\* What both sides have of a conversation: not reasoning or developer
\* guidance, and searches in neither form; texts one by one.
Sights(item) ==
  CASE item.type \in {"message", "user"} -> [k \in DOMAIN item.keys |-> <<item.type, item.keys[k]>>]
    [] item.type \in {"call", "output"} /\ ~IsSearch(item) -> <<<<item.type, item.keys[1]>>>>
    [] OTHER -> <<>>

Visible(items) == FlattenSeq([n \in DOMAIN items |-> Sights(items[n])])

Seen == req.pc \in {"partial", "finished"}

\* The last text or call of a message is not made of several texts, unless it is the
\* only one.  Texts are merged that only reasoning was between; the recorded
\* response has them apart, and the last is not found again.
EndsApart(message) ==
  LET items == ConvertContent(message)
      spoken == {n \in DOMAIN items : items[n].type \in {"message", "call"} /\ ~IsSearch(items[n])}
  IN  \A m, n \in spoken : m < n /\ (\A k \in spoken : k <= n) => Len(items[n].keys) = 1

Apart(messages) == \A m \in DOMAIN messages : EndsApart(messages[m])

\* The parts of the response before the last one.
Earlier == SelectSeq(req.output, LAMBDA item : item.keys[1][1] # req.id)

HistoryGiven == Seen /\ Apart(history) => Visible(req.seen) = Visible(req.asked \o Earlier)

GuidanceOnce ==
  Seen => /\ req.seen # <<>> /\ req.seen[1] = Other("developer", <<0, req.guidance>>)
          /\ \A n \in 2..Len(req.seen) : req.seen[n].type # "developer"

\* What a part of a response was given is Claude Code's history and all the
\* parts before, no more and no less and in order: nothing that was rewound or
\* compacted away comes back, nothing is sent twice, unless a message ends in
\* texts that were merged (EndsApart, SaidOnce).  The developer guidance is in
\* it once, first, and is that of the request.
ContextIsHistory == HistoryGiven /\ GuidanceOnce

\* chain_test.go:122: a replay preserves the items and their order, each of them once.
\* What the code does: a text that it does not find again, since others are merged
\* with it, is sent once more.
SaidOnce ==
  Seen => \A m, n \in DOMAIN Visible(req.seen) :
            Visible(req.seen)[m] = Visible(req.seen)[n] => m = n

\* A result follows its call, or the upstream would refuse the request.
ResultsFollowCalls ==
  Seen => \A n \in DOMAIN req.seen :
            req.seen[n].type = "output" =>
              \E m \in 1..(n - 1) : req.seen[m] = Other("call", req.seen[n].keys[1])

\* Reasoning behind calls whose results are sent is not lost, as long as the
\* response is recorded and the options are the same.
ReasoningIsReplayed ==
  Seen /\ ResumeCompatible(req.options) /\ ChainContinuesToolCall(req.asked) =>
    \A item \in ToSet(chain.output) : item.type = "reasoning" => item \in ToSet(req.seen)

\* A request belongs to the turn of the recorded response exactly if it brings
\* results of that response's calls.
TurnsEndWithAnswers ==
  [][ req.pc = "idle" /\ req'.pc = "waiting" /\ chain # Nothing =>
        (req'.turn = chain.turn <=>
           \E n \in DOMAIN history' : \E b \in ToSet(history'[n].blocks) :
             b.kind = "tool_result" /\ Other("call", b.key) \in ToSet(chain.output)) ]_vars

\* A resumed request holds the calls its results answer, and their reasoning.
ReplayIsComplete == ResultsFollowCalls /\ ReasoningIsReplayed

=============================================================================
