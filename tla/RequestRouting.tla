--------------------------- MODULE RequestRouting ---------------------------
(***************************************************************************)
(* Which conversation a request belongs to: convert/request.go derives it  *)
(* from the headers and the prompt, proxy/messages.go the key under which  *)
(* responses and connections are kept.  "" is an absent header; the n-th   *)
(* request draws the random identities of n, and its trace id is n.        *)
(***************************************************************************)
EXTENDS Integers, FiniteSets

Requests ==
  [session : {"", "s", "t"}, agent : {"", "a", "b", "bad"}, class : {"", "main", "subagent", "workflow"},
   workerPrompt : BOOLEAN, tools : BOOLEAN, n : 1..2]

ValidClaudeAgentID(id) == id # "bad"

Admitted(r) == r.agent = "" \/ ValidClaudeAgentID(r.agent)

IsSubagent(r) ==
  \/ r.agent # "" \/ r.class \in {"subagent", "workflow"}
  \/ r.class # "main" /\ r.workerPrompt

StatelessSubagent(r) == IsSubagent(r) /\ (r.session = "" \/ r.agent = "")

\* (variant) a worker without an identity has that of its session
RouteSessionOfParent(r) ==
  IF IsSubagent(r) /\ r.agent # "" THEN <<r.session, r.agent>> ELSE <<r.session, "">>

\* AnthropicToCodex: the thread of a request, before codexRouteForResult and
\* MaterializeRoute fill it in.
RouteSessionID(r) ==
  IF ~IsSubagent(r) THEN <<r.session, "">>
  ELSE IF StatelessSubagent(r) THEN <<"worker-request", r.n>> ELSE <<r.session, r.agent>>

\* A request without a session gets one of its own.
ThreadID(r) == IF RouteSessionID(r) = <<"", "">> THEN <<"random", r.n>> ELSE RouteSessionID(r)

\* responseChainKey: requests without tools, such as titles, keep out of the
\* conversation.
ResponseChainKey(r) == IF r.tools THEN <<ThreadID(r), 0>> ELSE <<ThreadID(r), r.n>>

\* Who speaks: a session or one of its workers; without a name, nobody that
\* would be seen again.
Speaker(r) ==
  IF IsSubagent(r) THEN IF r.session # "" /\ r.agent # "" THEN {<<r.session, r.agent>>} ELSE {}
  ELSE IF r.session # "" THEN {<<r.session>>} ELSE {}

\* Two requests of one conversation
Share(q, r) == q.n # r.n /\ ResponseChainKey(q) = ResponseChainKey(r)

\* They come from one speaker, who would be seen again.
OneSpeaker(q, r) == q.tools /\ r.tools /\ Speaker(q) = Speaker(r) /\ Speaker(r) # {}

\* Request q takes up what another left behind only if both come from the same
\* speaker and belong to its conversation: two workers of a session never do,
\* nor a worker and its session, nor a request without tools.
Apart(q) ==
  Admitted(q) => \A r \in {x \in Requests : Admitted(x)} : Share(q, r) => OneSpeaker(q, r)
=============================================================================
