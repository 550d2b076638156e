--------------------------- MODULE MCConversation ---------------------------
(* Three requests and four responses: a plain answer, two calls, a search,  *)
(* and two texts that Claude Code sends back as one, in one response or in   *)
(* continued ones.                                                          *)
EXTENDS Conversation

FourShapes ==
  {<<"reasoning", "message">>, <<"call", "call">>, <<"search", "message">>,
   <<"message", "reasoning", "message", "call">>}

\* A text, a search, and two texts with reasoning between them.
OneShape == {<<"message", "search", "message", "reasoning", "message">>}
=============================================================================
