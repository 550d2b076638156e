--------------------------- MODULE StartupSettings ---------------------------
(***************************************************************************)
(* What claudodex gives Claude Code on its command line and in a generated *)
(* settings file (launcher/statusline.go, args.go, settings_normalize.go), *)
(* and the command that Claude Code then runs for its status line.         *)
(*                                                                         *)
(* Settings are a record of sets: a key that is absent is {}, one that is  *)
(* there a set of one value.  Only perModel, the models with an effort of  *)
(* their own, may have more.                                               *)
(***************************************************************************)
EXTENDS ModelChoice

NoSettings == [model |-> {}, effort |-> {}, perModel |-> {}, command |-> {}, padding |-> {}]

\* overlayJSONMap
Overlay(base, over) ==
  [key \in DOMAIN base |->
     IF key = "perModel" THEN base[key] \cup over[key]
     ELSE IF over[key] # {} THEN over[key] ELSE base[key]]

\* configuredSettings: the files of the enabled sources, each over those before.
Configured(files, sources) ==
  [key \in DOMAIN NoSettings |->
     LET given == {n \in DOMAIN sources : files[sources[n]][key] # {}} IN
     IF key = "perModel" THEN UNION {files[sources[n]][key] : n \in given}
     ELSE IF given = {} THEN {} ELSE files[sources[Max(given)]][key]]

Wrapper == "__statusline"

-----------------------------------------------------------------------------
(* Names of models                                                         *)

Alias(family) == [slug |-> Unset, families |-> {family}]
RoleOrder == <<"opus", "sonnet", "haiku", "fable">>

\* canonicalClaudeRuntimeModel: a Codex slug stays, other names become the
\* first role that has their target.
CanonicalClaudeRuntimeModel(config, name) ==
  IF name.slug # Unset THEN name
  ELSE Alias(RoleOrder[Min({n \in DOMAIN RoleOrder : config[RoleOrder[n]] = MapModel(config, name)})])

\* claudeRuntimeModel, for pickers that show targets.
ClaudeRuntimeModel(config, name) == CodexName(MapModel(config, name))

\* codexRuntimeSettingsAlias and, for a name without a family, opus.
SettingsAlias(config, name) == IF name.slug # Unset THEN name ELSE Alias(FamilyForModel(name))

Rewrite(config, args, picker) ==
  [args EXCEPT !.model =
     {IF picker = "roles" THEN CanonicalClaudeRuntimeModel(config, name)
      ELSE ClaudeRuntimeModel(config, name) : name \in args.model}]

-----------------------------------------------------------------------------
(* prepareStatusLineFlagSettingsForCatalog                                 *)

Named(name) == name.slug # Unset \/ name.families # {}

HasModelSettingsEffort(config, settings, target) ==
  \E name \in settings.perModel : Named(name) /\ MapModel(config, name) = target

\* nativeCatalogDefaultEffort: none and minimal cannot be asked for, but what
\* becomes of a higher one may.
NativeCatalogDefaultEffort(target) ==
  LET desired == MapReasoningEffort(target, "auto", 0)
      same == {n \in 3 .. Len(OrdinaryEfforts) :
                 MapReasoningEffort(target, OrdinaryEfforts[n], 0) = desired}
  IN  IF desired \notin {"none", "minimal"} THEN {desired}
      ELSE {OrdinaryEfforts[n] : n \in {m \in same : \A o \in same : m <= o}}

\* liftUltracodeEffortArg
LiftUltracodeEffort(args) ==
  IF args.effort = {"ultracode"}
  THEN [args EXCEPT !.effort = {}, !.flags.effort = {"ultracode"}] ELSE args

\* The arguments of Claude Code, for the model (target) behind the slug;
\* nothing if the default cannot be asked for.
Prepare(config, target, files, args, env) ==
  LET lifted == LiftUltracodeEffort(args)
      active == Overlay(Configured(files, args.sources), lifted.flags)
      name == IF args.model # {} THEN args.model ELSE active.model
      slug == IF name = {} THEN config["opus"] ELSE MapModel(config, CHOOSE n \in name : TRUE)
      needsDefault ==
        /\ args.effort = {} /\ active.effort = {} /\ env = {}
        /\ ~HasModelSettingsEffort(config, active, slug)
      inherited == IF args.model = {} THEN {SettingsAlias(config, n) : n \in active.model} ELSE {}
      flags ==
        [lifted.flags EXCEPT
           !.model = IF inherited # active.model /\ inherited # {} THEN inherited ELSE @,
           !.command = IF active.command # {} THEN {Wrapper} ELSE @,
           !.padding = IF active.command # {} THEN active.padding ELSE @]
      default == IF needsDefault THEN NativeCatalogDefaultEffort(target) ELSE {}
  IN  IF needsDefault /\ default = {} THEN {}
      ELSE {[lifted EXCEPT !.flags = flags, !.effort = IF needsDefault THEN default ELSE @]}

\* RunStatusLineWrapper: the files as they are now, and the status line of the
\* flags as it was; never itself.
RunStatusLineWrapper(files, args) ==
  LET line == [NoSettings EXCEPT !.command = args.flags.command, !.padding = args.flags.padding]
  IN  Overlay(Configured(files, args.sources), line).command \ {Wrapper}

-----------------------------------------------------------------------------
(* What Claude Code makes of arguments, files and the environment          *)

InForce(files, args) == Overlay(Configured(files, args.sources), args.flags)
EffortInForce(files, args, env) ==
  IF env # {} THEN env ELSE IF args.effort # {} THEN args.effort ELSE InForce(files, args).effort
ModelInForce(files, args) == IF args.model # {} THEN args.model ELSE InForce(files, args).model
StatusLineRun(files, args, first) ==
  LET command == InForce(files, args).command
  IN  IF command = {Wrapper} THEN RunStatusLineWrapper(files, first) ELSE command

-----------------------------------------------------------------------------
Configs == {[opus |-> a, sonnet |-> b, haiku |-> c, fable |-> "gpt-d"] :
              a \in {"gpt-a"}, b \in {"gpt-a", "gpt-b"}, c \in {"gpt-b", "gpt-d"}}

AskedNames == {Alias("opus"), Alias("haiku"), [slug |-> Unset, families |-> {"opus", "fable"}],
               [slug |-> Unset, families |-> {}], CodexName("gpt-x")}
Optional(S) == {{}} \cup {{x} : x \in S}

Chosen(m, e) == [NoSettings EXCEPT !.model = m, !.effort = e]
UserFiles == {Chosen(m, e) : m \in Optional(AskedNames), e \in Optional({"high"})}
ProjectFiles == {NoSettings, Chosen({Alias("haiku")}, {}),
                 [NoSettings EXCEPT !.perModel = {Alias("haiku")}]}
FlagSettings == {Chosen({}, e) : e \in Optional({"medium"})}
Sources == {<<"user", "project">>, <<"project">>}

\* (a) a choice of models and efforts; (b) one of status lines
Launches ==
  [files : [user : UserFiles, project : ProjectFiles],
   args : [model : Optional(AskedNames), effort : Optional({"low", "ultracode"}),
           flags : FlagSettings, sources : Sources],
   env : Optional({"max"})]

Shows(c, p) == [NoSettings EXCEPT !.command = c, !.padding = p]
Lines == {Shows(c, p) : c \in Optional({"a", "b"}), p \in Optional({1})}
StatusLines ==
  [files : [user : Lines, project : Lines],
   args : [model : {{}}, effort : {{}}, flags : Lines, sources : Sources],
   env : {{}}]

\* Models whose default is the lowest level, which Claude Code cannot ask for.
Targets == {[Model("m", "none", <<1>>) EXCEPT !.levels = levels, !.default = "none"] :
              levels \in {{"none"}, {"none", "low"}, {"minimal", "high"}, {"medium"}}}

\* Whatever claudodex puts in the way, the model Claude Code asks for is served
\* by the one that the user's words name, an effort that somebody chose is the
\* one in force, and where nobody did it is the default of the model in force.
ChoicesAreKept(in) ==
  \A config \in Configs, target \in Targets, picker \in {"roles", "targets"} :
    LET rewritten == Rewrite(config, in.args, picker) IN
    \A out \in Prepare(config, target, in.files, rewritten, in.env) :
      LET before == ModelInForce(in.files, in.args)
          chosen == EffortInForce(in.files, in.args, in.env)
          now == EffortInForce(in.files, out, in.env)
      IN
      /\ \A n \in before, m \in ModelInForce(in.files, out) : MapModel(config, m) = MapModel(config, n)
      /\ before = {} <=> ModelInForce(in.files, out) = {}
      /\ chosen # {} => now = chosen
      /\ chosen = {} => \A e \in now :
           MapReasoningEffort(target, e, 0) = MapReasoningEffort(target, Unset, 0)

\* The status line that runs is the one that the files, as they are by then,
\* and the flags call for, once one was there at the start.
StatusLineIsTheUsers(in) ==
  \A out \in Prepare(CHOOSE c \in Configs : TRUE, CHOOSE t \in Targets : t.levels = {"medium"},
                     in.files, in.args, in.env) :
    \A later \in [user : Lines, project : Lines] :
      StatusLineRun(later, out, in.args) = InForce(later, in.args).command
=============================================================================
