---------------------------- MODULE ModelChoice ----------------------------
(***************************************************************************)
(* Which Codex model serves a Claude model, at what effort and in which    *)
(* window: modelcatalog/resolve.go and compaction.go, modelconfig, and     *)
(* convert/effort.go.  A Codex model is gpt-<version>-<line>, or of no     *)
(* line; its version is a sequence of numbers.                             *)
(***************************************************************************)
EXTENDS Integers, Sequences, FiniteSetsExt

\* A text that is empty
Unset == ""

Families == {"opus", "sonnet", "haiku", "fable"}

\* The suffix of a family's models; a request for a Claude model without one
\* of its family names is for opus.
Line(family) ==
  CASE family = "opus" -> "sol" [] family = "sonnet" -> "terra"
    [] family = "haiku" -> "luna" [] family = "fable" -> "astra"

OrdinaryEfforts == <<"none", "minimal", "low", "medium", "high", "xhigh", "max">>
Efforts == {OrdinaryEfforts[n] : n \in DOMAIN OrdinaryEfforts}
Rank(effort) == CHOOSE n \in DOMAIN OrdinaryEfforts : OrdinaryEfforts[n] = effort

\* OrdinaryReasoningLevels, a set; model.levels has the workflow levels as well.
OrdinaryReasoningLevels(model) == Efforts \cap model.levels

\* compareNumericVersion: a missing component is 0.
Component(v, n) == IF n \in DOMAIN v THEN v[n] ELSE 0
NewerVersion(v, w) ==
  \E n \in 1..Max({Len(v), Len(w)}) :
    /\ Component(v, n) > Component(w, n)
    /\ \A m \in 1..(n - 1) : Component(v, m) = Component(w, m)

\* validateTarget
Usable(model, client) ==
  /\ model.visible /\ ~NewerVersion(model.minimal, client)
  /\ model.window > 0 \/ model.longWindow > 0
  /\ model.window > 0 /\ model.longWindow > 0 => model.longWindow >= model.window
  /\ OrdinaryReasoningLevels(model) # {}
  /\ model.default \in Efforts => model.default \in model.levels

\* ValidateTarget, by the slug
Target(models, slug, client) == {m \in models : m.slug = slug /\ Usable(m, client)}

Candidates(models, family, client) ==
  {m \in models : m.line = Line(family) /\ m.visible /\ ~NewerVersion(m.minimal, client)}

\* Resolve without a pin: the newest version, then the priority.
Automatic(models, family, client) ==
  LET all == Candidates(models, family, client)
      best == {m \in all : \A o \in all : ~NewerVersion(o.version, m.version)}
      first == {m \in best : \A o \in best : m.priority <= o.priority}
  IN  {m \in {CHOOSE x \in first : TRUE : y \in first} : Usable(m, client)}

\* Resolve: a model for every family, or no configuration at all.
Resolve(models, pins, client) ==
  LET of(family) == IF pins[family] # Unset THEN Target(models, pins[family], client)
                    ELSE Automatic(models, family, client)
  IN  IF \E family \in Families : of(family) = {} THEN {}
      ELSE {[family \in Families |-> (CHOOSE m \in of(family) : TRUE).slug]}

\* A name of a model: a Codex slug, or words of which some name families.
ClaudeNames == [slug : {Unset}, families : SUBSET Families]
CodexName(slug) == [slug |-> slug, families |-> {}]

\* modelFamily: fable before haiku, opus and sonnet
FamilyForModel(name) ==
  IF "fable" \in name.families THEN "fable" ELSE IF "haiku" \in name.families THEN "haiku"
  ELSE IF "opus" \in name.families \/ "sonnet" \notin name.families THEN "opus" ELSE "sonnet"

\* (variant) only the models of the four roles can be asked for
MapToRole(config, name) ==
  IF name.slug \in {config[family] : family \in Families} THEN name.slug
  ELSE config[FamilyForModel(name)]

\* Config.MapModel: a Codex slug is an exact choice.
MapModel(config, name) == IF name.slug # Unset THEN name.slug ELSE config[FamilyForModel(name)]

\* normalizeClaudeCodeToolArgs: the model of an Agent call becomes a slug, if
\* the name is one of a family; others are left to MapModel.
AgentModel(config, name) ==
  IF name.slug # Unset \/ name.families = {} THEN name
  ELSE CodexName(config[IF "sonnet" \in name.families THEN "sonnet"
                        ELSE IF "haiku" \in name.families THEN "haiku"
                        ELSE IF "fable" \in name.families THEN "fable" ELSE "opus"])

\* The highest level up to the requested one, or the lowest of all.
Clamp(model, requested) ==
  LET levels == {Rank(level) : level \in OrdinaryReasoningLevels(model)}
      upTo == {n \in levels : n <= Rank(requested)}
  IN  OrdinaryEfforts[IF upTo = {} THEN Min(levels) ELSE Max(upTo)]

\* MapReasoningEffortForModel; "auto" is another way of asking for none that a
\* budget of tokens does not overrule.
MapReasoningEffort(model, asked, budget) ==
  LET budgeted == IF budget < 4000 THEN "low" ELSE IF budget < 16000 THEN "medium"
                  ELSE IF budget < 32000 THEN "high" ELSE "xhigh"
  IN
  IF asked \in Efforts THEN Clamp(model, asked)
  ELSE IF budget > 0 /\ asked # "auto" THEN Clamp(model, budgeted)
  ELSE IF model.default \in OrdinaryReasoningLevels(model) THEN model.default
  ELSE Clamp(model, "medium")

\* AutoCompactWindows: limit; windows are in thousands of tokens.
Limit(model, window) ==
  LET percent == IF model.percent = 0 THEN 95 ELSE model.percent
      value == (window * percent) \div 100
  IN  IF model.compact > 0 THEN Min({value, model.compact}) ELSE value

Ordinary(model) == IF model.window > 0 THEN model.window ELSE model.longWindow
Long(model) == IF model.longWindow > 0 THEN model.longWindow ELSE Ordinary(model)

\* The models Claude Code is told of: those of the roles, and usable others.
Shown(config, model) ==
  \/ model.slug \in {config[family] : family \in Families}
  \/ model.visible /\ OrdinaryReasoningLevels(model) # {}

\* AutoCompactWindows: the window under a name with or without [1m]; aliases
\* have the ordinary one in both.
AutoCompactWindow(models, config, name, long) ==
  {v \in {Min({Limit(m, IF long /\ name.slug # Unset THEN Long(m) ELSE Ordinary(m)), 1000}) :
            m \in {x \in models : x.slug = MapModel(config, name) /\ Shown(config, x)}} : v >= 100}

\* modelInfoContextWindowForRoute
RouteWindow(model, long) == IF long THEN Long(model) ELSE Ordinary(model)

RequiredModels(config) == {config[family] : family \in Families}

\* requiredModelContextWindow
RequiredModelContextWindow(models, config) ==
  Min({Long(m) : m \in {x \in models : x.slug \in RequiredModels(config)}})

Selectable(models, config) ==
  {m \in models : Shown(config, m) /\ (m.slug \in RequiredModels(config) \/ Ordinary(m) > 0)}

\* requiredModelAutoCompactWindow: one ceiling for all models that a user can
\* change to; nothing if one of the roles is missing or has no room.
RequiredModelAutoCompactWindow(models, config) ==
  LET room(m) == Limit(m, IF m.visible THEN Min({Long(m), Ordinary(m)}) ELSE Long(m))
      rooms == {room(m) : m \in Selectable(models, config)}
  IN  IF RequiredModels(config) \subseteq {m.slug : m \in models} /\ \A r \in rooms : r > 0
      THEN {Min(rooms)} ELSE {}

\* What a name, with or without [1m], is said to have room for.
Row(name, long, model) == [name |-> name, long |-> long, window |-> RouteWindow(model, long)]

\* The names of the roles and, with [1m], their targets.
Specs(models, config) ==
  (UNION {{Row([slug |-> Unset, families |-> {family}], FALSE, m) :
             m \in {x \in models : x.slug = config[family]}} : family \in Families})
  \cup {Row(CodexName(m.slug), TRUE, m) : m \in {x \in models : x.slug \in RequiredModels(config)}}

\* claudeModelCapabilities, applyModelOverrideEnv and modelsResponse: first the
\* names of the roles, then every listed model under the names that are left.
ClaudeModelCapabilities(models, config) ==
  LET first == Specs(models, config)
      taken(name, long) == \E row \in first : row.name = name /\ row.long = long
  IN  first \cup
      {row \in {Row(CodexName(m.slug), long, m) : m \in {x \in models : x.visible}, long \in BOOLEAN} :
         ~taken(row.name, row.long) /\ row.window > 0}

\* statusLineContextWindowForInput: the room of the model that Claude Code says
\* it uses, or what all roles have room for.
StatusLineContextWindow(models, config, name, long) ==
  LET rows == {r \in ClaudeModelCapabilities(models, config) :
                 r.name = name /\ r.long = long /\ r.window > 0}
  IN  IF rows # {} THEN (CHOOSE r \in rows : TRUE).window ELSE RequiredModelContextWindow(models, config)

-----------------------------------------------------------------------------
\* Some models and catalogs: versions whose order is not that of their text,
\* one a client may be too old for, hidden and misdescribed ones.
Model(slug, line, version) ==
  [slug |-> slug, line |-> line, version |-> version, visible |-> TRUE, minimal |-> <<0, 1>>,
   priority |-> 1, levels |-> {"low", "high", "max", "ultra"}, default |-> "high",
   window |-> 400, longWindow |-> 1200, percent |-> 0, compact |-> 0]

Others == {Model("gpt-6-terra", "terra", <<6>>), Model("gpt-6-luna", "luna", <<6>>),
           Model("gpt-6-astra", "astra", <<6>>)}

Demanding == [Model("gpt-6-sol", "sol", <<6>>) EXCEPT !.minimal = <<2>>]
Hidden == [Model("gpt-7-sol", "sol", <<7>>) EXCEPT !.visible = FALSE]
Effortless == [Model("gpt-5.10.0-sol", "sol", <<5, 10, 0>>) EXCEPT !.priority = 2, !.levels = {"ultra"}]
Small == [Model("gpt-x", "none", <<9>>) EXCEPT !.window = 200, !.longWindow = 0, !.compact = 150]

Suns == {Model("gpt-5.9-sol", "sol", <<5, 9>>), Model("gpt-5.10-sol", "sol", <<5, 10>>),
         Demanding, Hidden, Effortless, Small}

Catalogs == {Others \cup suns : suns \in SUBSET Suns}
PinSets == [opus : {Unset, "gpt-5.9-sol", "gpt-7-sol", "gpt-x"}, sonnet : {Unset}, haiku : {Unset}, fable : {Unset, "gpt-x"}]
Clients == {<<1>>, <<2, 0>>}
Unasked == {Unset, "auto"}
Defaults == {Unset, "medium", "ultra"}
Budgets == {1, 4000, 16000, 32000}
Names == ClaudeNames \cup {CodexName(m.slug) : m \in Suns \cup Others}

\* If the catalog has a configuration, every Claude model can be served: its
\* target is in the catalog, visible, and not too new for the client.  Pins
\* keep their model, and a family without one has the newest there is.
ResolvedModelsServe(models, pins) ==
  \A client \in Clients :
    \A config \in Resolve(models, pins, client) :
      /\ \A name \in ClaudeNames : Target(models, MapModel(config, name), client) # {}
      /\ \A family \in Families : pins[family] # Unset => config[family] = pins[family]
      /\ pins["opus"] = Unset => \A m \in Candidates(models, "opus", client), o \in models :
           o.slug = config["opus"] => ~NewerVersion(m.version, o.version)

\* An Agent call that names one family gets the model that a request of that
\* name gets, and a Codex slug stays what it is: a worker is never moved to
\* another model on the way through Claude Code.
WorkersGetTheirModel(models, pins) ==
  \A config \in Resolve(models, pins, <<2, 0>>) :
    \A name \in {n \in Names : \A f, g \in n.families : f = g} :
      /\ MapModel(config, AgentModel(config, name)) = MapModel(config, name)
      /\ name.slug # Unset => MapModel(config, name) = name.slug

\* A model is only asked for an effort it supports, and more effort or a
\* greater budget never gets less.
MoreIsNotLess(levels) ==
  \A default \in Defaults :
    LET model == [Model("m", "none", <<1>>) EXCEPT !.levels = levels \cup {"ultra"}, !.default = default]
        effort(asked, budget) == Rank(MapReasoningEffort(model, asked, budget))
    IN
    /\ \A asked \in Efforts \cup Unasked, budget \in Budgets \cup {0} :
         MapReasoningEffort(model, asked, budget) \in levels
    /\ \A a, b \in DOMAIN OrdinaryEfforts : a <= b =>
         effort(OrdinaryEfforts[a], 0) <= effort(OrdinaryEfforts[b], 0)
    /\ \A a, b \in Budgets : a <= b => effort(Unset, a) <= effort(Unset, b)

\* Claude Code compacts a conversation before it outgrows the model that
\* serves it, whichever name, with or without [1m], it goes by.
WindowsFit(models, pins) ==
  \A config \in Resolve(models, pins, <<2, 0>>) :
    \A name \in Names, long \in BOOLEAN, m \in models :
      m.slug = MapModel(config, name) =>
        \A v \in AutoCompactWindow(models, config, name, long) :
          /\ v <= Limit(m, IF name.slug # Unset /\ long THEN Long(m) ELSE Ordinary(m))
          /\ m.compact > 0 => v <= m.compact

\* What Claude Code, its user interface and the status line are told of the room
\* a name has is the room of the model that serves that name, and the ceiling
\* that all models share suits each one that can be changed to.
RoomIsReal(models, pins) ==
  \A config \in Resolve(models, pins, <<2, 0>>) :
    LET ceiling == RequiredModelAutoCompactWindow(models, config) IN
    /\ ceiling # {}
    /\ \A row \in ClaudeModelCapabilities(models, config) :
         \A m \in Target(models, MapModel(config, row.name), <<2, 0>>) :
           /\ row.window = RouteWindow(m, row.long)
           /\ StatusLineContextWindow(models, config, row.name, row.long) = row.window
           /\ \A v \in ceiling : v <= Limit(m, row.window)
=============================================================================
