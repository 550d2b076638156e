----------------------------- MODULE OAuthProxy -----------------------------
(***************************************************************************)
(* One connection of Claude Code to the proxy of launcher/oauth_proxy.go,  *)
(* through which it reaches api.anthropic.com, and the routes of the local *)
(* server of proxy/server.go, which answers in its place.                  *)
(*                                                                         *)
(* A path is the sequence of its segments.  The wire holds what the client *)
(* has sent and the proxy has not read: heads of requests and bodies.      *)
(***************************************************************************)
EXTENDS Integers, Sequences, FiniteSets

CONSTANT MaxRequests    \* bound: requests of one connection

VARIABLES conn, wire, asked, replies, remote

vars == <<conn, wire, asked, replies, remote>>

Methods == {"GET", "HEAD", "POST", "PUT", "OPTIONS"}
ReadOnly == {"GET", "HEAD"}

-----------------------------------------------------------------------------
(* Routes                                                                  *)

Behind(path, n) == SubSeq(path, n + 1, Len(path))

\* "/v1/v1/" and "/api/v1/": two segments and at least the slash behind them.
Prefixed(path) == Len(path) > 2 /\ SubSeq(path, 1, 2) \in {<<"v1", "v1">>, <<"api", "v1">>}

Shortened(path) == IF Prefixed(path) THEN <<"v1">> \o Behind(path, 2) ELSE path

\* One prefix after the other is removed; a path has fewer of them than parts.
NormalizePath(path) ==
  LET times[n \in 0 .. Len(path)] == IF n = 0 THEN path ELSE Shortened(times[n - 1])
  IN  times[Len(path)]

Normalize(path) == NormalizePath(path)

GetRoutes ==
  { <<"healthz">>, <<"v1">>, <<"v1", "models">>, <<"v1", "mcp_servers">>,
    <<"api", "claude_cli", "bootstrap">>, <<"api", "oauth", "usage">>, <<"api", "oauth", "profile">>,
    <<"api", "claude_cli_profile">>, <<"api", "claude_code", "settings">>,
    <<"api", "claude_code", "policy_limits">>, <<"api", "claude_code_penguin_mode">> }

PostRoutes ==
  { <<"v1", "messages">>, <<"v1", "messages", "count_tokens">>, <<"v1", "messages", "batches">> }

\* What the local server does with a request.
Serves(method, path) ==
  LET known == NormalizePath(path) IN
  IF (method = "GET" /\ known \in GetRoutes) \/ (method = "POST" /\ known \in PostRoutes) THEN "handler"
  ELSE IF known \in GetRoutes \cup PostRoutes THEN "method not allowed" ELSE "not found"

\* The proxy has a table of its own.
LocalReads ==
  { <<"api", "oauth", "usage">>, <<"api", "oauth", "profile">>, <<"api", "claude_cli_profile">>,
    <<"api", "claude_cli", "bootstrap">>, <<"api", "claude_code", "settings">>,
    <<"api", "claude_code", "policy_limits">>, <<"api", "claude_code_penguin_mode">>,
    <<"v1">>, <<"v1", "models">>, <<"v1", "mcp_servers">> }

Below(path, top) == Len(path) > Len(top) /\ SubSeq(path, 1, Len(top)) = top

RemoteControlRouteAllowed(method, path) ==
  /\ method # "OPTIONS"
  /\ \/ \E top \in { <<"v1", "sessions">>, <<"v1", "code", "sessions">>, <<"v1", "environments">> } :
          path = top \/ Below(path, top)
     \/ Below(path, <<"v1", "session_ingress">>)
     \/ method \in ReadOnly /\ Below(path, <<"api", "oauth", "files">>)

\* Variant: the proxy looks at the path as it came.
RouteForRaw(method, path) ==
  IF path \in LocalReads THEN IF method \in ReadOnly THEN "local" ELSE "none"
  ELSE IF path \in PostRoutes THEN IF method = "POST" THEN "local" ELSE "none"
  ELSE IF RemoteControlRouteAllowed(method, path) THEN "anthropic" ELSE "none"

RouteFor(method, path) == RouteForRaw(method, Normalize(path))

-----------------------------------------------------------------------------
(* The connection                                                          *)

Init ==
  /\ conn = "open"
  /\ wire = <<>> /\ asked = <<>> /\ replies = <<>>
  /\ remote = "none"

Goes(to) == conn' = to

\* The deadline of the whole connection, a write that fails or the end of the
\* client: the connection closes, and what it had opened with it.
CloseAll == Goes("closed") /\ remote' = IF remote = "open" THEN "closed" ELSE remote

\* Anything but CONNECT is refused; a CONNECT to another host becomes a tunnel.
Connect(method, host) ==
  /\ conn = "open"
  /\ \/ method # "CONNECT" /\ Goes("closed") /\ remote' = remote
     \/ method = "CONNECT" /\ host = "anthropic" /\ Goes("handshake") /\ remote' = remote
     \/ method = "CONNECT" /\ host # "anthropic" /\ Goes("tunnel") /\ remote' = "open"
     \/ method = "CONNECT" /\ host # "anthropic" /\ Goes("closed") /\ remote' = "unreachable"
  /\ UNCHANGED <<wire, asked, replies>>

Handshake ==
  /\ conn = "handshake"
  /\ Goes("idle") \/ Goes("closed")
  /\ UNCHANGED <<wire, asked, replies, remote>>

\* One that is answered here, one for Anthropic and one for nobody
AskedPaths == { <<"v1", "messages">>, <<"api", "v1", "sessions", "a">>, <<"v1", "complete">> }

\* Claude Code sends a request when its last one has been answered.
Ask(method, path, body, upgrade, close) ==
  /\ conn = "idle" /\ wire \in {<<>>, <<"body">>}
  /\ Len(asked) < MaxRequests
  /\ asked' = Append(asked, [method |-> method, path |-> path, body |-> body, upgrade |-> upgrade, close |-> close])
  /\ wire' = wire \o <<"head">> \o (IF body THEN <<"body">> ELSE <<>>)
  /\ UNCHANGED <<conn, replies, remote>>

Current == asked[Len(asked)]

\* http.ReadRequest: what is left of a body is not a request.
ReadRequest ==
  /\ conn = "idle" /\ wire # <<>>
  /\ IF wire[1] = "body" THEN Goes("closed") /\ wire' = wire
     ELSE wire' = Tail(wire) /\ Goes("routing")
  /\ UNCHANGED <<asked, replies, remote>>

\* The body of a request that is sent on is read or closed, which drains it:
\* nothing else is on the wire then.
Drained == <<>>

\* The answer has been written; the connection goes on unless the client said
\* otherwise or asked for an upgrade.
Replied(by) ==
  /\ replies' = Append(replies, [to |-> Len(asked), by |-> by])
  /\ IF Current.upgrade \/ Current.close THEN Goes("closed") ELSE Goes("idle")

Route == RouteFor(Current.method, Current.path)

\* writeAnthropicResponse, default: nothing reads the body.
Refuse ==
  /\ conn = "routing" /\ Route = "none"
  /\ Replied("proxy")
  /\ UNCHANGED <<wire, asked, remote>>

\* forwardToLocalProxy and forwardToAnthropicAPI, or 502 if nobody is there.
Forward ==
  /\ conn = "routing"
  /\ \/ Route = "local" /\ (Replied("server") \/ Replied("proxy"))
     \/ Route = "anthropic" /\ ~Current.upgrade /\ (Replied("anthropic") \/ Replied("proxy"))
  /\ wire' = Drained
  /\ UNCHANGED <<asked, remote>>

\* forwardAnthropicUpgrade: from now on bytes are copied both ways.
Upgrade ==
  /\ conn = "routing" /\ Route = "anthropic" /\ Current.upgrade
  /\ \/ Goes("tunnel") /\ remote' = "open" /\ wire' = Drained
        /\ replies' = Append(replies, [to |-> Len(asked), by |-> "anthropic"])
     \/ Replied("proxy") /\ UNCHANGED <<wire, remote>>
  /\ UNCHANGED asked

\* One side of a tunnel ends; the first copy that ends closes both.
TunnelEnds ==
  /\ conn = "tunnel"
  /\ CloseAll
  /\ UNCHANGED <<wire, asked, replies>>

ConnectionEnds ==
  /\ conn \in {"open", "handshake", "idle", "routing"}
  /\ CloseAll
  /\ UNCHANGED <<wire, asked, replies>>

Next ==
  \/ \E method \in {"CONNECT", "GET"}, host \in {"anthropic", "another"} : Connect(method, host)
  \/ Handshake \/ ReadRequest \/ Refuse \/ Forward \/ Upgrade \/ TunnelEnds \/ ConnectionEnds
  \/ \E method \in {"GET", "POST"}, path \in AskedPaths, body, upgrade, close \in BOOLEAN :
       Ask(method, path, body, upgrade, close)

-----------------------------------------------------------------------------
\* The paths that are looked at, with the prefixes of both base addresses.
Paths ==
  LET Names == GetRoutes \cup PostRoutes \cup
        { <<"v1", "sessions">>, <<"v1", "sessions", "a">>, <<"v1", "code", "sessions", "a">>,
          <<"v1", "environments">>, <<"v1", "session_ingress", "a">>, <<"v1", "session_ingress">>,
          <<"api", "oauth", "files", "a">>, <<"v1", "sessionsx">>, <<"api", "oauth">>, <<"v1", "">> }
  IN  { prefix \o name : prefix \in { <<>>, <<"v1">>, <<"api">>, <<"v1", "v1">>, <<"api", "v1">> },
                         name \in Names }

\* The two tables agree: what the proxy keeps here has a handler here (HEAD,
\* which only the proxy takes for reading, excepted), what has a handler is kept
\* here, and nothing that belongs here is sent to Anthropic.
TablesAgree(method, path) ==
  LET route == RouteFor(method, path) IN
  /\ route = "local" => Serves(method, path) = "handler" \/ method = "HEAD"
  /\ Serves(method, path) = "handler" /\ NormalizePath(path) # <<"healthz">> => route = "local"
  /\ route = "anthropic" => Serves(method, path) = "not found"

\* Every answer is to the request it follows, and an answer of Anthropic to one
\* that nobody here would have answered; only the end of the connection leaves a
\* request without an answer, and a tunnel does not outlive its client.
AnswersFit ==
  /\ \A i \in 1 .. Len(replies) :
       /\ replies[i].to = i
       /\ replies[i].by = "anthropic" => Serves(asked[i].method, asked[i].path) = "not found"
       /\ replies[i].by = "server" => Serves(asked[i].method, asked[i].path) = "handler"
  /\ Len(replies) < Len(asked) => conn \in {"routing", "closed"} \/ wire # <<>>
  /\ remote = "open" => conn = "tunnel"
=============================================================================
