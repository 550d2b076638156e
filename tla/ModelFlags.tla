------------------------------ MODULE ModelFlags ------------------------------
(***************************************************************************)
(* The arguments of claudodex that name models (app/model_flags.go): they  *)
(* are taken out of what Claude Code is given, wherever they stand before  *)
(* "--", and what they name is pinned against the catalog's choice.        *)
(*                                                                         *)
(* An argument is a record; two families stand for four.  A map flag is a  *)
(* sequence of entries.                                                    *)
(***************************************************************************)
EXTENDS Integers, Sequences

\* A text that is empty
Unset == ""

Families == {"opus", "haiku"}
Default == "default"

Word(text) == [kind |-> "word", text |-> text]
End == [kind |-> "end"]
Flag(family, value) == [kind |-> "inline", family |-> family, value |-> value]   \* --flag=value
Bare(family) == [kind |-> "bare", family |-> family]                             \* --flag value
Map(entries) == [kind |-> "map", entries |-> entries]                            \* --claudodex-models=...

Failed(state) == [state EXCEPT !.failed = TRUE]

\* models.Opus = next; pins.With(...)
Name(state, family, value) ==
  IF value = Unset THEN Failed(state)
  ELSE [state EXCEPT !.models[family] = value, !.pins = @ \cup {family}]

\* The text of an argument that a flag before it takes as its value.
TextOf(arg) == IF arg.kind = "word" THEN arg.text ELSE "--another"

\* applyModelMapFlag: a key that is no family is an error.
Mapped(state, entries) ==
  LET after[n \in 0 .. Len(entries)] ==
        IF n = 0 THEN state
        ELSE IF after[n - 1].failed \/ entries[n].family \notin Families THEN Failed(after[n - 1])
        ELSE Name(after[n - 1], entries[n].family, entries[n].value)
  IN  after
ApplyModelMapFlag(state, entries) == Mapped(state, entries)[Len(entries)]

\* One turn of the loop; startupFlagValue takes the next argument, whatever it
\* is, as the value of a flag that has none.
Step(args, state) ==
  LET i == state.at
      arg == args[i]
      next(so) == [so EXCEPT !.at = i + 1]
  IN
  CASE arg.kind = "end" -> [state EXCEPT !.out = @ \o SubSeq(args, i, Len(args)), !.at = Len(args) + 1]
    [] arg.kind = "inline" -> next(Name(state, arg.family, arg.value))
    [] arg.kind = "bare" ->
         IF i = Len(args) THEN Failed(state)
         ELSE [Name(state, arg.family, TextOf(args[i + 1])) EXCEPT !.at = i + 2]
    [] arg.kind = "map" -> next(ApplyModelMapFlag(state, arg.entries))
    [] OTHER -> next([state EXCEPT !.out = Append(@, arg)])

\* The loop; a turn that fails is the last.
Turns(args, start) ==
  LET after[n \in 0 .. Len(args)] ==
        IF n = 0 THEN start
        ELSE IF after[n - 1].failed \/ after[n - 1].at > Len(args) THEN after[n - 1]
        ELSE Step(args, after[n - 1])
  IN  after

\* extractStartupModelConfigWithPins: what the environment names is pinned too.
Start(base) ==
  [at |-> 1, out |-> <<>>, failed |-> FALSE,
   models |-> [f \in Families |-> IF base[f] = Unset THEN Default ELSE base[f]],
   pins |-> {f \in Families : base[f] # Unset}]

ExtractStartupModelConfigWithPins(args, base) == Turns(args, Start(base))[Len(args)]

-----------------------------------------------------------------------------
Arguments ==
  { Word("m"), End, Bare("opus"), Flag("opus", "a"), Flag("haiku", Unset), Flag("haiku", "b"),
    Map(<<[family |-> "opus", value |-> "c"], [family |-> "haiku", value |-> "d"]>>),
    Map(<<[family |-> "opus", value |-> "e"], [family |-> "none", value |-> "e"]>>) }

CommandLines == UNION {[1 .. n -> Arguments] : n \in 0 .. 3}
Bases == [Families -> {Unset, "env"}]

\* An argument behind a flag that needs a value is its value, whatever it is;
\* the first "--" that is none ends the flags.
Values(args) ==
  LET value[i \in DOMAIN args] == i > 1 /\ args[i - 1].kind = "bare" /\ ~value[i - 1] IN value
Ends(args) == {i \in DOMAIN args : args[i].kind = "end" /\ ~Values(args)[i]}
Stop(args) == IF Ends(args) = {} THEN Len(args) + 1 ELSE CHOOSE i \in Ends(args) : \A j \in Ends(args) : i <= j
FlagsOf(args) == {i \in 1 .. Stop(args) - 1 : ~Values(args)[i] /\ args[i].kind # "word"}

\* What a flag says of families, and the flags that say something of one
Says(args, i) ==
  CASE args[i].kind = "map" -> {<<args[i].entries[n].family, args[i].entries[n].value>> : n \in DOMAIN args[i].entries}
    [] args[i].kind = "inline" -> {<<args[i].family, args[i].value>>}
    [] OTHER -> {<<args[i].family, IF i = Len(args) THEN Unset ELSE TextOf(args[i + 1])>>}
Wrong(args) == {i \in FlagsOf(args) : \E said \in Says(args, i) : said[2] = Unset \/ said[1] \notin Families}
NamedBy(args, f) == {i \in FlagsOf(args) : \E said \in Says(args, i) : said[1] = f}
Left(args) == {i \in DOMAIN args : i >= Stop(args) \/ (i \notin FlagsOf(args) /\ ~Values(args)[i])}

\* What a command line says, told without a loop: the last flag that names a
\* family decides, and what is no flag is left as it is, in its order.
FlagsAreUnderstood(args, base) ==
  LET result == ExtractStartupModelConfigWithPins(args, base) IN
  /\ result.failed <=> Wrong(args) # {}
  /\ ~result.failed =>
       /\ \A f \in Families :
            /\ f \in result.pins <=> NamedBy(args, f) # {} \/ base[f] # Unset
            /\ IF NamedBy(args, f) = {} THEN result.models[f] = Start(base).models[f]
               ELSE \E i \in NamedBy(args, f) :
                      <<f, result.models[f]>> \in Says(args, i) /\ \A j \in NamedBy(args, f) : j <= i
       /\ \E from \in [DOMAIN result.out -> Left(args)] :
            /\ Left(args) \subseteq {from[n] : n \in DOMAIN result.out}
            /\ \A n \in DOMAIN result.out : result.out[n] = args[from[n]] /\ \A m \in 1 .. n - 1 : from[m] < from[n]
=============================================================================
