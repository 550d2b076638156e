--------------------------- MODULE ToolEnvironment ---------------------------
(***************************************************************************)
(* The environment that claudodex gives Claude Code (launcher/env.go,      *)
(* bridge_auth.go), the shell that stands in front of the tools which      *)
(* Claude Code starts and gives them back what the user had, and the       *)
(* command that stands in front of the keychain (launcher/sidecar.go).     *)
(*                                                                         *)
(* A variable and its lower-case twin are one, and ALL_PROXY stands for    *)
(* HTTP_PROXY, which is treated like it.  NO_PROXY is the set of its       *)
(* entries, of which neither the order nor the number counts; an entry is  *)
(* a host, perhaps with a dot before it or a port behind it.               *)
(***************************************************************************)
EXTENDS TLC

Keys == {"SHELL", "HTTPS_PROXY", "ALL_PROXY", "NO_PROXY", "NODE_EXTRA_CA_CERTS"}
Proxies == {"HTTPS_PROXY", "ALL_PROXY"}

Nothing == [key \in {} |-> ""]
Put(f, key, value) == [k \in DOMAIN f \cup {key} |-> IF k = key THEN value ELSE f[k]]
Delete(f, keys) == [k \in DOMAIN f \ keys |-> f[k]]
Given(f, key, otherwise) == IF key \in DOMAIN f THEN f[key] ELSE otherwise

-----------------------------------------------------------------------------
(* NO_PROXY                                                                *)

Host(name) == [host |-> name, dot |-> FALSE, port |-> FALSE]

NoProxyEntryMatchesAnthropic(entry) == entry.host \in {"*", "anthropic.com", "api.anthropic.com"}

FilterNoProxy(value) == {entry \in value : ~NoProxyEntryMatchesAnthropic(entry)}

MergeNoProxy(value, extra) == value \cup extra

-----------------------------------------------------------------------------
(* The environment of Claude Code                                          *)

\* captureOriginalToolEnv: what is not set keeps the value of an earlier time.
CaptureOriginalToolEnv(env) ==
  [env EXCEPT !.original = [k \in DOMAIN env.set \cup DOMAIN env.original |->
                              Given(env.set, k, Given(env.original, k, ""))]]

Installed == "/bin/bash"     \* the first of zsh, bash and sh that exists
Compatible == {"/bin/zsh", "/usr/local/bin/bash"}
CompatibleToolShell(shell) == IF shell \in Compatible THEN shell ELSE Installed

ConfigureShellShim(env) ==
  [env EXCEPT !.real = CompatibleToolShell(Given(env.set, "SHELL", "")), !.set = Put(env.set, "SHELL", "shim")]

\* The socket of the local server and the placeholder of a login go together.
UseSocket(env, socket) ==
  IF socket THEN [env EXCEPT !.token = "local", !.set = Delete(@, Proxies)] ELSE [env EXCEPT !.token = ""]

UseProxy(env) ==
  [env EXCEPT !.set = Put(Put(Put(@, "HTTPS_PROXY", "claudodex"),
                     "NO_PROXY", MergeNoProxy(FilterNoProxy(Given(@, "NO_PROXY", {})),
                                              {Host("127.0.0.1"), Host("localhost")})),
                 "NODE_EXTRA_CA_CERTS", "claudodex")]

\* realClaudeBridgeAccessToken: the keychain before the file, and never the
\* placeholder that claudodex has written itself.
RealToken(env) ==
  IF env.keychain \notin {"", "local"} THEN env.keychain
  ELSE IF env.credentials # "local" THEN env.credentials ELSE ""

WithRealClaudeBridgeAuth(env) == [env EXCEPT !.bridge = IF @ = "" THEN RealToken(env) ELSE @]

\* BuildClaudeEnv and what Launch adds.
BuildClaudeEnv(env, socket) ==
  WithRealClaudeBridgeAuth(UseProxy(UseSocket(ConfigureShellShim(CaptureOriginalToolEnv(env)), socket)))

-----------------------------------------------------------------------------
(* What stands in front of the tools                                       *)

\* claudodexShellShimScript: each variable gets the value that was captured or
\* is unset, and what was captured is forgotten.
ShellShim(env) ==
  [env EXCEPT !.set = [k \in DOMAIN env.original |-> env.original[k]], !.original = Nothing, !.real = ""]

\* The shell that the script becomes.
ToolShell(env) == IF env.real = "" THEN "/bin/sh" ELSE env.real

\* claudeSecurityShimScript: the words of a command, or what it reads.
Operations == {"find-generic-password", "add-generic-password", "delete-generic-password", "list-keychains"}
Generic == Operations \ {"list-keychains"}

SecurityShim(command) ==
  LET refused ==
        IF command.interactive
        THEN \/ command.operation \in Generic /\ command.service = "Claude Code"
             \/ command.operation = "add-generic-password"
        ELSE \/ command.operation \in Generic /\ command.service = "Claude Code"
             \/ command.operation = "add-generic-password" /\ command.first
  IN  IF refused THEN "44" ELSE "real"

-----------------------------------------------------------------------------
Entries ==
  { Host("*"), Host("anthropic.com"), [Host("anthropic.com") EXCEPT !.dot = TRUE],
    [Host("api.anthropic.com") EXCEPT !.port = TRUE], Host("localhost"), Host("corporate") }

\* What the user's shell may have set, and where the login of Claude Code is.
Setting(given, shell, no) ==
  [key \in given |-> CASE key = "SHELL" -> shell [] key = "NO_PROXY" -> no [] OTHER -> "corporate"]

OfUser(set, keychain) ==
  [set |-> set, original |-> Nothing, real |-> "", token |-> "", bridge |-> "",
   keychain |-> keychain, credentials |-> "user's"]

Shells == {"/bin/zsh", "/bin/fish"}
Secrets == {"", "local", "user's"}

Environments ==
  {OfUser(Setting(given, shell, no), keychain) :
     given \in SUBSET Keys, shell \in Shells, no \in SUBSET Entries, keychain \in Secrets}

Services == {"", "Claude Code", "another"}
Commands == [operation : Operations, service : Services, first : BOOLEAN, interactive : BOOLEAN]

\* How a client of these variables connects to an address.
Excepted(env, name) ==
  \E entry \in Given(env.set, "NO_PROXY", {}) :
    entry.host \in {"*", name} \/ (entry.host = "anthropic.com" /\ name = "api.anthropic.com")

Way(env, name) ==
  IF Excepted(env, name) THEN "direct" ELSE Given(env.set, "HTTPS_PROXY", Given(env.set, "ALL_PROXY", "direct"))

\* Whatever of this the user has set (an entry of NO_PROXY such as ".com", which
\* the code lets through, is not among it), Claude Code reaches Anthropic by way of claudodex
\* and this machine by none, with a login of nobody; the tools get back exactly
\* what the user had, also where claudodex is started once more by one of them;
\* and their shell is the user's if it can be.
EnvironmentsAreApart(env, socket) ==
  LET child == BuildClaudeEnv(env, socket)
      tool == ShellShim(child)
  IN
  /\ Way(child, "api.anthropic.com") = "claudodex" /\ Way(child, "127.0.0.1") = "direct"
  /\ child.token \in {"", "local"} /\ child.bridge \in {"", "user's"}
  /\ "user's" \in {env.keychain, env.credentials} => child.bridge = "user's"
  /\ tool.set = env.set /\ ShellShim(BuildClaudeEnv(tool, socket)).set = env.set
  /\ LET shell == Given(env.set, "SHELL", "") IN
     ToolShell(child) = IF shell \in Compatible THEN shell ELSE Installed

\* No command of Claude Code touches its login in the keychain, or writes any
\* password into it as Claude Code writes them; every other command gets there.
KeychainIsTheUsers(command) ==
  /\ command.service = "Claude Code" /\ command.operation \in Generic => SecurityShim(command) = "44"
  /\ command.operation = "add-generic-password" /\ command.first => SecurityShim(command) = "44"
  /\ command.operation # "add-generic-password" /\ command.service # "Claude Code" => SecurityShim(command) = "real"
=============================================================================
