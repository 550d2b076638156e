------------------------------- MODULE Launch -------------------------------
(***************************************************************************)
(* One process of claudodex, from its arguments to its exit: app.go and    *)
(* launcher.go.  It opens what Claude Code needs one after the other, runs *)
(* Claude Code, and closes everything again, whatever fails on the way and *)
(* whichever signals it gets; a process that is killed closes nothing.     *)
(* Another process may log in meanwhile, with the same account or another. *)
(***************************************************************************)
EXTENDS Integers, Sequences

CONSTANT MaxLogins  \* bound: how often somebody logs in with another account

VARIABLES
  stored, \* the account of the stored login
  logins, \* how often it was changed
  run,    \* the process: where it is, what it opened, who catches signals
  claude  \* Claude Code: "none", "running", "over"

vars == <<stored, logins, run, claude>>

Account == {1, 2}
Command == {"claude", "version", "usage", "serve"}

\* What the steps of a launch open, in this order; "mirror" is closed by hand
\* on every way out, the others are deferred.
Steps == <<"locate", "lease", "login", "models", "again", "settings", "mirror", "arguments",
           "server", "proxy", "socket", "start">>
Opens == {"lease", "again", "mirror", "server", "proxy", "socket"}
Places == {Steps[n] : n \in 1..12}
After(step) == Steps[CHOOSE n \in 2..12 : Steps[n - 1] = step]
Before(f, g) == \E m, n \in 1..12 : m < n /\ Steps[m] = f /\ Steps[n] = g

Init ==
  /\ stored \in Account /\ logins = 0 /\ claude = "none"
  /\ run \in [pc : {"begin"}, command : Command, terminal : BOOLEAN, catches : {"nobody"},
              cancelled : {FALSE}, open : {{}}, file : {0}, catalog : {0}, refreshed : {FALSE}]

Goes(pc) == run' = [run EXCEPT !.pc = pc]

LogsIn ==
  /\ logins < MaxLogins /\ logins' = logins + 1
  /\ \E a \in Account : stored' = a
  /\ UNCHANGED <<run, claude>>

-----------------------------------------------------------------------------
(* Startup *)

\* Run: at a terminal the display catches the signals of a launch and cancels
\* its context; commands have no display.
Run ==
  /\ run.pc = "begin"
  /\ run' = [run EXCEPT
       !.pc = IF run.command \in {"claude", "version"} THEN "locate" ELSE "login",
       !.catches = IF run.command = "claude" /\ run.terminal THEN "display" ELSE "nobody"]
  /\ UNCHANGED <<stored, logins, claude>>

\* An update that fails or a flag that is not understood ends it here.
RunFails ==
  /\ run.pc = "begin" /\ Goes("over")
  /\ UNCHANGED <<stored, logins, claude>>

\* DirectClaudeFastPath: claude --version needs nothing of what follows.
FastPath ==
  /\ run.pc = "locate" /\ run.command = "version" /\ Goes("start")
  /\ UNCHANGED <<stored, logins, claude>>

\* EnsureLoggedIn, and EnsureFresh of clx:usage
Login ==
  /\ run.pc = "login"
  /\ run' = [run EXCEPT !.pc = "models", !.file = stored, !.refreshed = FALSE]
  /\ UNCHANGED <<stored, logins, claude>>

\* ResolveCodexModels, fetchCodexUsage: the refreshed login must be the same.
SameLogin(a) == a = run.file

\* modelcatalog.Load: with the login's account.
Load ==
  /\ run.pc = "models" /\ run.command # "usage"
  /\ run' = [run EXCEPT !.catalog = IF run.refreshed THEN @ ELSE run.file,
                        !.pc = IF run.command = "claude" THEN "again" ELSE "server"]
  /\ UNCHANGED <<stored, logins, claude>>

\* clx:usage shows the limits of the login's account.
FetchUsage ==
  /\ run.pc = "models" /\ run.command = "usage"
  /\ run' = [run EXCEPT !.catalog = IF run.refreshed THEN @ ELSE run.file, !.pc = "closing"]
  /\ UNCHANGED <<stored, logins, claude>>

\* A refusal of the token: it is refreshed once and asked for again.
Refresh ==
  /\ run.pc = "models" /\ ~run.refreshed
  /\ SameLogin(stored) /\ run' = [run EXCEPT !.refreshed = TRUE, !.catalog = stored]
  /\ UNCHANGED <<stored, logins, claude>>

\* The other steps of a launch; again is the selection for the models found,
\* which an unchanged configuration does not need.
Step ==
  /\ run.command = "claude" /\ run.pc \in Places \ {"login", "models", "start"}
  /\ run' = [run EXCEPT !.pc = After(run.pc), !.open = @ \cup ({run.pc} \cap Opens)]
  /\ UNCHANGED <<stored, logins, claude>>

\* clx:serve: a proxy for the login, until a signal comes.
Serve ==
  /\ run.command = "serve" /\ run.pc = "server"
  /\ run' = [run EXCEPT !.pc = "serving", !.catches = "serve", !.open = {"server"}]
  /\ UNCHANGED <<stored, logins, claude>>

ModelsUnchanged ==
  /\ run.pc = "again" /\ Goes(After("again"))
  /\ UNCHANGED <<stored, logins, claude>>

\* (variant) what fails after the mirror leaves it to itself
MirrorLeft(open) == open

\* configMirror.Close in the error paths of Launch, and after Claude Code
MirrorClosed(open) == open \ {"mirror"}

\* A step fails, or finds its context cancelled.
StepFails ==
  /\ run.pc \in Places
  /\ run' = [run EXCEPT !.pc = "closing", !.open = MirrorClosed(@)]
  /\ UNCHANGED <<stored, logins, claude>>

-----------------------------------------------------------------------------
(* runChild *)

\* The display is closed, and with it its signal handling, before the child is
\* started; runChild has its own only when the child runs.
CloseDisplay ==
  /\ run.pc = "start" /\ run.catches = "display" /\ run' = [run EXCEPT !.catches = "nobody"]
  /\ UNCHANGED <<stored, logins, claude>>

StartChild ==
  /\ run.pc = "start" /\ run.catches = "nobody"
  /\ claude' = "running" /\ Goes("notify")
  /\ UNCHANGED <<stored, logins>>

Notify ==
  /\ run.pc = "notify" /\ run' = [run EXCEPT !.pc = "running", !.catches = "child"]
  /\ UNCHANGED <<stored, logins, claude>>

ClaudeEnds ==
  /\ claude = "running" /\ claude' = "over"
  /\ UNCHANGED <<stored, logins, run>>

\* signalAndWait: five seconds after the signal the child is killed.
Kill == claude' = "over" /\ UNCHANGED run

TimesOut ==
  /\ run.pc = "stopping" /\ claude = "running" /\ Kill
  /\ UNCHANGED <<stored, logins>>

ChildIsOver ==
  /\ run.pc \in {"running", "stopping"} /\ claude = "over"
  /\ run' = [run EXCEPT !.pc = "returned", !.catches = "nobody"]
  /\ UNCHANGED <<stored, logins, claude>>

\* Launch ends with the last synchronisation of the mirror.
CloseMirror ==
  /\ run.pc = "returned"
  /\ run' = [run EXCEPT !.pc = "closing", !.open = MirrorClosed(@)]
  /\ UNCHANGED <<stored, logins, claude>>

\* A signal: nobody catches it and the process dies; the display cancels the
\* context; serve stops; runChild passes it on and waits.
Signal ==
  \E sig \in {"INT", "TERM", "HUP"} :
    /\ run.pc \notin {"over", "killed"}
    /\ CASE run.catches = "display" /\ sig # "HUP" -> run' = [run EXCEPT !.cancelled = TRUE]
         [] run.catches = "serve" -> Goes("closing")
         [] run.catches = "child" -> Goes(IF sig = "INT" THEN run.pc ELSE "stopping")
         [] OTHER -> Goes("killed")
    /\ UNCHANGED <<stored, logins, claude>>

\* The deferred calls, the last one first.
CloseNext ==
  /\ run.pc = "closing"
  /\ LET deferred == run.open \ {"mirror"} IN
     \/ deferred = {} /\ Goes("over")
     \/ \E last \in deferred :
          /\ \A step \in deferred : ~Before(last, step)
          /\ run' = [run EXCEPT !.open = @ \ {last}]
  /\ UNCHANGED <<stored, logins, claude>>

Next ==
  \/ LogsIn \/ Run \/ RunFails \/ FastPath \/ Login \/ Load \/ FetchUsage \/ Refresh \/ Step
  \/ Serve \/ ModelsUnchanged \/ StepFails \/ CloseDisplay \/ StartChild \/ Notify \/ ClaudeEnds
  \/ TimesOut \/ ChildIsOver \/ CloseMirror \/ Signal \/ CloseNext

Spec == Init /\ [][Next]_vars

-----------------------------------------------------------------------------
\* While Claude Code runs, all that it was given is there, and models, limits
\* and answers are of one account; a process that ends leaves nothing behind, not
\* even Claude Code.  Only one that is killed does.
ClaudeIsServed ==
  /\ claude = "running" /\ run.command = "claude" /\ run.pc # "killed" =>
       Opens \ {"again"} \subseteq run.open
  /\ run.catalog \in {0, run.file}
  /\ run.pc = "over" => run.open = {} /\ claude # "running"
=============================================================================
