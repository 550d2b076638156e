-------------------------- MODULE MCWebSocketThread --------------------------
(* Two requests on one thread, as Claude Code sends them: the second while    *)
(* the first is streamed, or right after it.  The first may be restarted or   *)
(* continued; the second has one attempt.                                     *)
EXTENDS WebSocketThread, TLC

CONSTANTS r1, r2

TwoAndOne == (r1 :> 2) @@ (r2 :> 1)
OneEach   == (r1 :> 1) @@ (r2 :> 1)
=============================================================================
