---------------------------- MODULE StreamReducer ----------------------------
(***************************************************************************)
(* StreamReducer of convert/stream.go: the events of Codex responses go in *)
(* one by one, and what each turns into is written to the client, whose    *)
(* view of the message is kept as AssembleMessage builds it.  A response   *)
(* that asks for more sampling is followed by another one, which the same  *)
(* reducer goes on with.  Texts and arguments are abstracted to the item   *)
(* they come from and to whether they came in deltas or as a whole.        *)
(***************************************************************************)
EXTENDS Integers, Sequences, SequencesExt

CONSTANTS
  MaxItems,    \* bound: output items in all, one after the other
  MaxOverlap,  \* bound: output items in all, if they overlap
  MaxThoughts, \* bound: reasoning items among them
  MaxDeltas,   \* bound: deltas per item
  MaxFollows,  \* bound: how often the model asks to be sampled again
  Kinds        \* the kinds of items the model may send

ASSUME BoundsAssumption ==
  /\ MaxItems \in Nat \ {0} /\ MaxOverlap \in 0..MaxItems /\ MaxThoughts \in Nat /\ MaxDeltas \in Nat
  /\ MaxFollows \in Nat
  /\ Kinds \subseteq {"reasoning", "message", "function_call", "web_search_call"}

VARIABLES
  reducer,   \* see NewStreamReducer
  out,       \* what it emitted and the handler has still to write
  client,    \* the message as the client sees it
  items,     \* the output items so far
  response,  \* the response that is being read
  overlap    \* whether the model sends an item before the one before is done

vars == <<reducer, out, client, items, response, overlap>>

Item == 1..MaxItems
Output == 0..(MaxItems - 1)
None == -1

\* No part of the text of an item is told apart from any other: a piece is
\* an item and "delta" or "whole".

NewTool == [block |-> None, active |-> FALSE, saw |-> FALSE, start |-> FALSE, sent |-> FALSE,
            args |-> <<>>]

\* The fields that decide what is emitted.  tool is toolByOutput, call is
\* toolByItemID and toolByCallID, which hold the same states.
NewStreamReducer(schemas) ==
  [schemas |-> schemas,                                           \* toolSchemas is not empty
   started |-> FALSE, done |-> FALSE, failed |-> FALSE, follow |-> FALSE,
   next |-> 0, visible |-> 0,                                     \* nextIndex, visibleBlocks
   text |-> None, textSaw |-> FALSE,                              \* textIndex, textSawDelta
   think |-> None, part |-> None, pending |-> FALSE,              \* thinkingIndex, ...
   thinkSaw |-> FALSE, summary |-> FALSE, thoughts |-> 0,         \* ..., thinkingBlocks
   tool |-> [o \in Output |-> NewTool], call |-> [i \in Item |-> None], tools |-> 0,
   searches |-> <<>>, buffer |-> <<>>]                            \* webSearchText

Init ==
  /\ reducer \in {NewStreamReducer(b) : b \in BOOLEAN}
  /\ out = <<>>
  /\ client = [phase |-> "before", blocks |-> <<>>, last |-> <<"none", 0>>, stop |-> ""]
  /\ items = <<>>
  /\ response = [base |-> 0, follows |-> 0, reading |-> TRUE, reason |-> ""]
  /\ overlap \in BOOLEAN

-----------------------------------------------------------------------------
(* What the methods of the reducer do to it and emit.  s is the reducer    *)
(* with what it has emitted during this event.                             *)

Emit(s, e) == [s EXCEPT !.out = Append(@, e)]
Start(i, kind) == [ev |-> "start", index |-> i, kind |-> kind, pieces |-> <<>>]
Delta(i, pieces) == [ev |-> "delta", index |-> i, kind |-> "", pieces |-> pieces]
Stop(i) == [ev |-> "stop", index |-> i, kind |-> "", pieces |-> <<>>]
Message(ev, stop) == [ev |-> ev, index |-> 0, kind |-> stop, pieces |-> <<>>]

EnsureStarted(s) ==
  IF s.r.started THEN s
  ELSE Emit([s EXCEPT !.r.started = TRUE], Message("message_start", ""))

\* The start of a block, whose index is the next one.
StartBlock(s, kind) == Emit([s EXCEPT !.r.next = @ + 1], Start(s.r.next, kind))

\* (variant) an open block is started again
EnsureTextBlockAgain(s) == StartBlock([s EXCEPT !.r.text = s.r.next, !.r.textSaw = FALSE], "text")

EnsureTextBlock(s) ==
  IF s.r.text # None THEN s
  ELSE StartBlock([s EXCEPT !.r.text = s.r.next, !.r.textSaw = FALSE], "text")

StopTextBlock(s) ==
  IF s.r.text = None THEN s
  ELSE Emit([s EXCEPT !.r.text = None, !.r.visible = @ + 1], Stop(s.r.text))

StartThinkingBlock(s, p) ==
  StartBlock([s EXCEPT !.r.think = s.r.next, !.r.part = p], "thinking")

EmitThinkingSummaryText(s, p) ==
  LET t == IF s.r.think = None THEN StartThinkingBlock(s, p) ELSE s
  IN  Emit([t EXCEPT !.r.summary = TRUE], Delta(t.r.think, <<>>))

\* The signature, then the end.
CloseThinkingBlock(s) ==
  IF s.r.think = None THEN s
  ELSE Emit(Emit([s EXCEPT !.r.think = None, !.r.visible = @ + 1, !.r.thoughts = @ + 1],
                 Delta(s.r.think, <<>>)),
            Stop(s.r.think))

\* A flush of thinkingPending: a suffix that might have become a delimiter.
StopThinkingBlock(s) ==
  CloseThinkingBlock(
    IF s.r.pending THEN EmitThinkingSummaryText([s EXCEPT !.r.pending = FALSE], s.r.part) ELSE s)

\* What consumeThinkingSummary finds in thinkingPending once a chunk is
\* appended: text to emit, delimiters that close the block, an ambiguous rest.
Chunks ==
  {[ops |-> <<"emit">>, rest |-> FALSE], [ops |-> <<"emit", "close">>, rest |-> FALSE],
   [ops |-> <<"emit", "close", "emit">>, rest |-> TRUE], [ops |-> <<>>, rest |-> TRUE]}

ConsumeThinkingSummary(s, p, chunk) ==
  [FoldLeft(LAMBDA t, op : IF op = "emit" THEN EmitThinkingSummaryText(t, p)
                                          ELSE CloseThinkingBlock(t), s, chunk.ops)
     EXCEPT !.r.pending = chunk.rest]

AppendThinkingSummary(s, p, chunk) ==
  IF s.r.text # None \/ s.r.tools > 0 \/ s.r.visible > s.r.thoughts THEN s
  ELSE ConsumeThinkingSummary(
         IF s.r.think # None /\ p > s.r.part THEN StopThinkingBlock(s) ELSE s, p, chunk)

StartThinkingSummaryPart(s, p) ==
  IF p <= s.r.part THEN s ELSE [StopThinkingBlock(s) EXCEPT !.r.part = p]

\* Searches whose use the client has seen and whose result it has not.
Pending(q) == q.used /\ ~q.answered
HasPendingWebSearchResults(s) == \E n \in DOMAIN s.r.searches : Pending(s.r.searches[n])

EmitWebSearchUse(s, n) ==
  IF s.r.searches[n].used THEN s
  ELSE Emit(Emit(StartBlock([s EXCEPT !.r.searches[n].used = TRUE, !.r.visible = @ + 1],
                            "server_tool_use"),
                 Delta(s.r.next, <<>>)),
            Stop(s.r.next))

EmitWebSearchResult(s, n) ==
  IF ~Pending(s.r.searches[n]) THEN s
  ELSE Emit(StartBlock([s EXCEPT !.r.searches[n].answered = TRUE, !.r.visible = @ + 1],
                       "web_search_tool_result"),
            Stop(s.r.next))

EmitPendingWebSearchResults(s) ==
  FoldLeft(EmitWebSearchResult, s, [n \in 1..Len(s.r.searches) |-> n])

EmitBufferedWebSearchText(s) ==
  IF s.r.buffer = <<>> THEN s
  ELSE LET t == EnsureTextBlock([s EXCEPT !.r.buffer = <<>>])
       IN  StopTextBlock(Emit(t, Delta(t.r.text, s.r.buffer)))

FlushPendingWebSearchOutput(s) == EmitBufferedWebSearchText(EmitPendingWebSearchResults(s))

\* toolStateForEvent, toolStateForItem: the state that knows item i, or else the
\* one at its output index o, which knows it from now on.
ToolState(s, i, o) == IF s.r.call[i] # None THEN s.r.call[i] ELSE o
WithToolState(s, i, o) == [s EXCEPT !.r.call[i] = ToolState(s, i, o)]

StartToolBlock(s, o) ==
  IF s.r.tool[o].start THEN s
  ELSE Emit([s EXCEPT !.r.tool[o].start = TRUE], Start(s.r.tool[o].block, "tool_use"))

StartToolState(s, o) ==
  IF s.r.tool[o].active THEN s
  ELSE LET t == IF s.r.tool[o].block # None THEN s
                ELSE [s EXCEPT !.r.tool[o].block = s.r.next, !.r.next = @ + 1]
           u == [t EXCEPT !.r.tool[o].active = TRUE]
       IN  IF s.r.schemas THEN u ELSE StartToolBlock(u, o)

\* Arguments, kept until they are complete if the tools have schemas.
AddToolArgs(s, o, piece) ==
  LET t == [s EXCEPT !.r.tool[o].saw = TRUE, !.r.tool[o].args = Append(@, piece)] IN
  IF s.r.schemas THEN t
  ELSE Emit([t EXCEPT !.r.tool[o].sent = TRUE], Delta(s.r.tool[o].block, <<piece>>))

StopToolState(s, o) ==
  IF ~s.r.tool[o].active THEN s
  ELSE LET t == StartToolBlock([s EXCEPT !.r.tool[o].active = FALSE, !.r.visible = @ + 1,
                                         !.r.tools = @ + 1], o)
           u == IF s.r.schemas /\ ~t.r.tool[o].sent /\ t.r.tool[o].args # <<>>
                THEN Emit([t EXCEPT !.r.tool[o].sent = TRUE],
                          Delta(t.r.tool[o].block, t.r.tool[o].args))
                ELSE t
       IN  Emit(u, Stop(u.r.tool[o].block))

Finish(s, stop) ==
  LET t == FoldLeft(StopToolState, StopTextBlock(StopThinkingBlock(s)),
                    [n \in 1..MaxItems |-> n - 1])
      u == FlushPendingWebSearchOutput(t)
  IN  Emit([u EXCEPT !.r.done = TRUE],
           Message("message_stop", IF stop = "" /\ u.r.tools > 0 THEN "tool_use" ELSE stop))

\* What the failed event emitted before is returned too.
ErrorEvents(s) == Emit([s EXCEPT !.r.failed = TRUE, !.r.done = TRUE], Message("error", ""))

-----------------------------------------------------------------------------
(* ReduceNamed, one action per type of event                               *)

\* The next event is read when everything the last one led to is written.
Reads == response.reading /\ out = <<>> /\ ~reducer.done

Reduces(s) == reducer' = s.r /\ out' = s.out

\* Every event but "error" begins with message_start.
Reducing == EnsureStarted([r |-> reducer, out |-> <<>>])

Created ==
  /\ Reads /\ Len(items) = response.base
  /\ Reduces(Reducing)
  /\ UNCHANGED <<client, items, response, overlap>>

Added(s, i, o, kind) ==
  CASE kind = "reasoning" -> s
    [] kind = "message" ->
         LET t == StopThinkingBlock(s)
         IN  IF HasPendingWebSearchResults(t) THEN t ELSE EnsureTextBlock(t)
    [] kind = "function_call" ->
         LET t == WithToolState(FlushPendingWebSearchOutput(StopThinkingBlock(s)), i, o)
         IN  StartToolState(t, ToolState(t, i, o))
    [] kind = "web_search_call" ->
         [s EXCEPT !.r.searches = Append(@, [item |-> i, used |-> FALSE, answered |-> FALSE])]

OutputItemAdded(kind) ==
  LET i == Len(items) + 1
      o == Len(items) - response.base
  IN
  /\ Reads /\ Len(items) < IF overlap THEN MaxOverlap ELSE MaxItems
  /\ overlap \/ \A j \in DOMAIN items : items[j].done
  /\ kind = "reasoning" => Len(SelectSeq(items, LAMBDA item : item.kind = kind)) < MaxThoughts
  /\ LET beside(j) == ~items[j].done
         new == [kind |-> kind, output |-> o, deltas |-> 0, whole |-> FALSE, done |-> FALSE,
                 alone |-> \A j \in DOMAIN items : ~beside(j)]
     IN  items' = Append([j \in DOMAIN items |-> [items[j] EXCEPT !.alone = @ /\ ~beside(j)]], new)
  /\ Reduces(Added(Reducing, i, o, kind))
  /\ UNCHANGED <<client, response, overlap>>

\* An event of item i of the response that is read.
Streams(i, kind) ==
  /\ Reads /\ i > response.base /\ items[i].kind = kind /\ ~items[i].done
  /\ UNCHANGED <<client, response, overlap>>

AddDelta(i) ==
  /\ items[i].deltas < MaxDeltas /\ ~items[i].whole
  /\ items' = [items EXCEPT ![i].deltas = @ + 1]

AddWhole(i) ==
  /\ ~items[i].whole
  /\ items' = [items EXCEPT ![i].whole = TRUE]

Parts == {0, 1}

ReasoningSummaryPartAdded(i, p) ==
  /\ Streams(i, "reasoning")
  /\ Reduces(StartThinkingSummaryPart(Reducing, p))
  /\ UNCHANGED items

ReasoningSummaryTextDelta(i, p, chunk) ==
  /\ Streams(i, "reasoning") /\ AddDelta(i)
  /\ Reduces([AppendThinkingSummary(Reducing, p, chunk) EXCEPT !.r.thinkSaw = TRUE])

ReasoningSummaryTextDone(i, p, chunk) ==
  /\ Streams(i, "reasoning") /\ AddWhole(i)
  /\ Reduces(IF reducer.thinkSaw THEN Reducing ELSE AppendThinkingSummary(Reducing, p, chunk))

OutputTextDelta(i) ==
  LET s == StopThinkingBlock(Reducing)
      t == EnsureTextBlock(s)
      piece == <<i, "delta">>
  IN
  /\ Streams(i, "message") /\ AddDelta(i)
  /\ Reduces(IF HasPendingWebSearchResults(Reducing)
             THEN [Reducing EXCEPT !.r.buffer = Append(@, piece)]
             ELSE [Emit(t, Delta(t.r.text, <<piece>>)) EXCEPT !.r.textSaw = TRUE])

OutputTextDone(i) ==
  /\ Streams(i, "message") /\ AddWhole(i)
  /\ Reduces(IF HasPendingWebSearchResults(Reducing) THEN Reducing ELSE StopTextBlock(Reducing))

\* The state of the call, started.
Calling(s, i) ==
  LET t == WithToolState(s, i, items[i].output) IN StartToolState(t, t.r.call[i])

FunctionCallArgumentsDelta(i) ==
  LET s == Calling(StopThinkingBlock(Reducing), i) IN
  /\ Streams(i, "function_call") /\ AddDelta(i)
  /\ Reduces(AddToolArgs(s, s.r.call[i], <<i, "delta">>))

\* The arguments as a whole, unless they came in deltas.
\* (variant) the whole arguments follow the deltas
WholeArgumentsAgain(s, i) == AddToolArgs(s, s.r.call[i], <<i, "whole">>)

WholeArguments(s, i) ==
  IF s.r.tool[s.r.call[i]].saw THEN s ELSE AddToolArgs(s, s.r.call[i], <<i, "whole">>)

FunctionCallArgumentsDone(i) ==
  /\ Streams(i, "function_call") /\ AddWhole(i)
  /\ Reduces(WholeArguments(Calling(StopThinkingBlock(Reducing), i), i))

FinishMessageItem(s, i) ==
  LET t == EnsureTextBlock(s)
  IN  StopTextBlock(IF s.r.textSaw THEN s ELSE Emit(t, Delta(t.r.text, <<<<i, "whole">>>>)))

MessageDone(s, i) ==
  IF ~HasPendingWebSearchResults(s) THEN FinishMessageItem(s, i)
  ELSE EmitBufferedWebSearchText(EmitPendingWebSearchResults(
         IF s.r.buffer = <<>> THEN [s EXCEPT !.r.buffer = <<<<i, "whole">>>>] ELSE s))

FunctionCallDone(s, i) ==
  LET t == WholeArguments(Calling(FlushPendingWebSearchOutput(s), i), i)
  IN  StopToolState(t, t.r.call[i])

\* The search of item i; other actions than a search are not shown.
SearchDone(s, i, searched) ==
  LET n == CHOOSE n \in DOMAIN s.r.searches : s.r.searches[n].item = i
  IN  IF searched THEN EmitWebSearchUse(s, n) ELSE s

ItemDone(i, kind) == Streams(i, kind) /\ items' = [items EXCEPT ![i].done = TRUE]

ReasoningItemDone(i, chunk, parts) ==
  /\ ItemDone(i, "reasoning")
  /\ Reduces(IF reducer.summary THEN Reducing
             ELSE FoldLeft(LAMBDA s, p : AppendThinkingSummary(s, p, chunk), Reducing, parts))

OutputItemDone(i) ==
  LET s == StopThinkingBlock(Reducing) IN
  \/ /\ ItemDone(i, "message") /\ Reduces(MessageDone(s, i))
  \/ /\ ItemDone(i, "function_call") /\ Reduces(FunctionCallDone(s, i))
  \/ /\ ItemDone(i, "web_search_call")
     /\ \E searched \in BOOLEAN : Reduces(SearchDone(StopTextBlock(s), i, searched))

Ends == Reads /\ response' = [response EXCEPT !.reading = FALSE] /\ UNCHANGED <<client, items, overlap>>

AllDone == \A i \in DOMAIN items : items[i].done

\* The upstream may say why it stopped (stopReasonFromEvent); otherwise "".
\* "stop_sequence" is passed on like "max_tokens".
Reasons == {"", "tool_use", "max_tokens"}

Completed ==
  /\ AllDone /\ Reads
  /\ \E reason \in Reasons :
       /\ Reduces(Finish(Reducing, reason))
       /\ response' = [response EXCEPT !.reading = FALSE, !.reason = reason]
  /\ UNCHANGED <<client, items, overlap>>

\* end_turn is false.  The upstream is taken to send that only in a response
\* without a call, whose outcome has to come from the client; nothing in
\* stream.go checks it.
CompletedPartially ==
  /\ AllDone /\ Ends /\ response.follows < MaxFollows
  /\ \A i \in DOMAIN items : i > response.base => items[i].kind # "function_call"
  /\ Reduces([Reducing EXCEPT !.r.follow = TRUE])

\* The model ran out of tokens, perhaps in the middle of items.
Incomplete ==
  /\ Ends
  /\ Reduces(IF reducer.visible > 0 THEN Finish(Reducing, "max_tokens") ELSE ErrorEvents(Reducing))

\* The filter struck or the response failed.
Failed == Ends /\ Reduces(ErrorEvents(Reducing))

\* An "error" event or a malformed one.
Error == Ends /\ Reduces(ErrorEvents([r |-> reducer, out |-> <<>>]))

\* The handler sends the request that continues the response.
ContinueSampling ==
  /\ ~response.reading /\ out = <<>> /\ reducer.follow
  /\ reducer' = [reducer EXCEPT !.follow = FALSE, !.textSaw = FALSE, !.thinkSaw = FALSE,
                                !.summary = FALSE, !.part = None]
  /\ response' = [base |-> Len(items), follows |-> response.follows + 1, reading |-> TRUE, reason |-> ""]
  /\ UNCHANGED <<out, client, items, overlap>>

-----------------------------------------------------------------------------
(* The client                                                              *)

\* AssembleMessage, a loop over the events: a block for every start, a delta
\* goes to the block of its index.  That it takes the index for the block's
\* place is right as long as blocks start in the order of their indices.
Assemble(c, e) ==
  LET at(n) == c.blocks[n].index = e.index
      change(f(_)) == [n \in DOMAIN c.blocks |-> IF at(n) THEN f(c.blocks[n]) ELSE c.blocks[n]]
      blocks ==
        CASE e.ev = "start" -> Append(c.blocks, [index |-> e.index, kind |-> e.kind, open |-> TRUE,
                                                 pieces |-> <<>>])
          [] e.ev = "delta" -> change(LAMBDA b : [b EXCEPT !.pieces = @ \o e.pieces])
          [] e.ev = "stop" -> change(LAMBDA b : [b EXCEPT !.open = FALSE])
          [] OTHER -> c.blocks
      phase ==
        CASE e.ev = "message_start" -> "streaming" [] e.ev = "message_stop" -> "ended"
          [] e.ev = "error" -> "failed" [] OTHER -> c.phase
  IN  [phase |-> phase, blocks |-> blocks, last |-> <<e.ev, e.index>>,
       stop |-> IF e.ev = "message_stop" THEN e.kind ELSE c.stop]

Write ==
  /\ out # <<>> /\ out' = Tail(out) /\ client' = Assemble(client, Head(out))
  /\ UNCHANGED <<reducer, items, response, overlap>>

\* The message is over.
Over == reducer.done /\ out = <<>> /\ UNCHANGED vars

Next ==
  \/ Created
  \/ \E kind \in Kinds : OutputItemAdded(kind)
  \/ \E i \in DOMAIN items :
       \/ \E p \in Parts : ReasoningSummaryPartAdded(i, p)
       \/ \E p \in Parts, chunk \in Chunks :
            ReasoningSummaryTextDelta(i, p, chunk) \/ ReasoningSummaryTextDone(i, p, chunk)
       \/ \E chunk \in Chunks, parts \in {<<>>, <<0, 1>>} : ReasoningItemDone(i, chunk, parts)
       \/ OutputTextDelta(i) \/ OutputTextDone(i)
       \/ FunctionCallArgumentsDelta(i) \/ FunctionCallArgumentsDone(i)
       \/ OutputItemDone(i)
  \/ Completed \/ CompletedPartially \/ Incomplete \/ Failed \/ Error
  \/ ContinueSampling \/ Write \/ Over

Spec == Init /\ [][Next]_vars

-----------------------------------------------------------------------------
(* Properties                                                              *)

MaxBlocks == MaxItems * (3 * MaxDeltas + 6)

TypeOK ==
  /\ reducer.next \in 0..MaxBlocks /\ reducer.visible <= reducer.next
  /\ reducer.text \in None..(reducer.next - 1) /\ reducer.think \in None..(reducer.next - 1)
  /\ \A o \in Output : reducer.tool[o].block \in None..(reducer.next - 1)
  /\ client.phase \in {"before", "streaming", "ended", "failed"}
  /\ client.stop \in {"", "tool_use", "max_tokens"}
  /\ Len(items) <= MaxItems /\ response.base \in 0..Len(items)

\* Whatever the model sends, the client is sent a message by the protocol.
Blocks == INSTANCE ContentBlocks WITH
  Index <- 0..MaxBlocks,
  ordered <- ~overlap,
  phase <- client.phase,
  open <- {b.index : b \in {c \in ToSet(client.blocks) : c.open}},
  closed <- {b.index : b \in {c \in ToSet(client.blocks) : ~c.open}},
  last <- client.last

ProtocolKept == Blocks!Spec

Count(kind) == Len(SelectSeq(client.blocks, LAMBDA b : b.kind = kind))

\* What the client was shown of item i, and what the model said in it: the
\* deltas, or the whole if there were none and the whole came.
Shown(i) ==
  SelectSeq(FlattenSeq([n \in DOMAIN client.blocks |-> client.blocks[n].pieces]),
            LAMBDA piece : piece[1] = i)

Said(i) ==
  LET item == items[i] IN
  CASE item.deltas > 0 -> [n \in 1..item.deltas |-> <<i, "delta">>]
    [] item.deltas = 0 /\ (item.done \/ (item.whole /\ item.kind = "function_call")) ->
         <<<<i, "whole">>>>
    [] OTHER -> <<>>

\* What the items that were open one at a time said is shown, and so are the
\* arguments of every call and every delta of a text.  Not so the whole text of
\* a message with another item open beside it: textSawDelta and webSearchText
\* are the reducer's, not the item's, so it may be lost if it came in no delta,
\* and be shown again if it did.
PiecesShownOnce ==
  client.phase = "ended" =>
    \A i \in DOMAIN items :
      IF items[i].kind = "message" /\ ~items[i].alone
      THEN LET deltas == [n \in 1..items[i].deltas |-> <<i, "delta">>]
           IN  Shown(i) \in {deltas, Append(deltas, <<i, "whole">>)}
      ELSE items[i].kind \in {"message", "function_call"} => Shown(i) = Said(i)

\* Every call the model made has a block of its own.  The message stops for the
\* reason the upstream gave; if it gave none, for a tool exactly if it holds
\* one, unless the model was cut off.
CallsAreAnnounced ==
  client.phase = "ended" =>
    /\ Count("tool_use") = Len(SelectSeq(items, LAMBDA item : item.kind = "function_call"))
    /\ IF response.reason # "" THEN client.stop = response.reason
       ELSE client.stop = "max_tokens" \/ (client.stop = "tool_use" <=> Count("tool_use") > 0)

\* No thinking block comes after a block of another kind: a summary that
\* arrives late is dropped.
ThinkingFirst ==
  ~overlap =>
    \A m, n \in DOMAIN client.blocks :
      m < n /\ client.blocks[n].kind = "thinking" => client.blocks[m].kind = "thinking"

\* A search that is shown is followed by its result before any text or call
\* starts, and no message ends with a search that has none.
SearchesAreAnswered ==
  LET uses == Count("server_tool_use")
      results == Count("web_search_tool_result")
  IN
  /\ results <= uses
  /\ client.phase = "ended" => uses = results
  /\ ~overlap /\ client.blocks # <<>> /\ Last(client.blocks).kind \in {"text", "tool_use"} => results = uses

\* A message that ends shows every delta of a text and every call's arguments
\* once, in order, and the whole text of a message if it came in no delta: none
\* is dropped, and none that came in deltas is shown again when its whole text
\* arrives, is flushed or is buffered behind a search.  Only the whole text of
\* a message beside which another item was open may be lost or shown again
\* (PiecesShownOnce).  No block is missing or out of place: calls, thinking and
\* searches.
EverythingShownOnce ==
  PiecesShownOnce /\ CallsAreAnnounced /\ ThinkingFirst /\ SearchesAreAnswered
=============================================================================
