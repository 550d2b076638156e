----------------------------- MODULE SavedModel -----------------------------
(***************************************************************************)
(* syncTranscriptModelDefault and normalizeSharedClaudeSettings of         *)
(* internal/launcher: when the user saves a model as the default in Claude *)
(* Code, the transcript says so.  The mirror of every session reads the    *)
(* transcripts of all of them and writes the newest such model, by the     *)
(* name that Claude Code can use again, to settings.json.  Choices are     *)
(* numbered in the order in which they are made, and so are the times.     *)
(***************************************************************************)
EXTENDS Naturals

CONSTANTS
  Session,    \* the claudodex sessions
  MaxChoices  \* bound: the models that are chosen

VARIABLES
  now,       \* how many models have been chosen
  saved,     \* the newest choice in a transcript, 0 if there is none
  settings,  \* the choice in settings.json, and whether it has the served name
  mirror,    \* mirror[s]: the mirror of session s
  wanted     \* history: the choices that may stand

vars == <<now, saved, settings, mirror, wanted>>

-----------------------------------------------------------------------------
Init ==
  /\ now = 0 /\ saved = 0 /\ settings = [choice |-> 0, served |-> FALSE]
  /\ mirror = [s \in Session |-> [stage |-> "off", pc |-> "idle", cursor |-> 0, found |-> 0]]
  /\ wanted = {0}

\* StartClaudeConfigMirror: what was saved before does not count.
Start(s) ==
  /\ mirror[s].stage = "off"
  /\ mirror' = [mirror EXCEPT ![s].stage = "run", ![s].cursor = now]
  /\ UNCHANGED <<now, saved, settings, wanted>>

\* (variant) every merge reads all transcripts anew
TranscriptsOfAllTime(s) == saved

\* latestTranscriptSavedDefaultModel: the newest one after the cursor
LatestSaved(s) == IF saved > mirror[s].cursor THEN saved ELSE 0

\* The transcripts are read, without a lock.
ReadTranscripts(s) ==
  /\ mirror[s].stage \in {"run", "close"} /\ mirror[s].pc = "idle"
  /\ mirror' = [mirror EXCEPT ![s].pc = IF LatestSaved(s) = 0 THEN "normalize" ELSE "apply",
                              ![s].found = LatestSaved(s)]
  /\ UNCHANGED <<now, saved, settings, wanted>>

\* It is written under the lock of settings.json; then the cursor moves.
Apply(s) ==
  /\ mirror[s].pc = "apply"
  /\ settings' = [choice |-> mirror[s].found, served |-> FALSE]
  /\ mirror' = [mirror EXCEPT ![s].pc = "normalize", ![s].cursor = mirror[s].found]
  /\ UNCHANGED <<now, saved, wanted>>

\* What fails in a last merge is not made up for.
AfterFailure(stage) == IF stage = "close" THEN "failed" ELSE stage

\* The lock is taken, or settings.json cannot be read or written: the cursor
\* stays.
ApplyFails(s) ==
  /\ mirror[s].pc = "apply"
  /\ mirror' = [mirror EXCEPT ![s].pc = "normalize", ![s].stage = AfterFailure(@)]
  /\ UNCHANGED <<now, saved, settings, wanted>>

\* normalizeClaudeSettingsModel: the name that Codex served the model under
\* becomes one that can be used again.  A last merge ends the session.
Normalize(s) ==
  /\ mirror[s].pc = "normalize"
  /\ settings' = [settings EXCEPT !.served = FALSE]
  /\ mirror' = [mirror EXCEPT ![s].pc = "idle", ![s].found = 0,
                              ![s].stage = IF @ = "close" THEN "gone" ELSE @]
  /\ UNCHANGED <<now, saved, wanted>>

\* So does what keeps the name from being replaced.
NormalizeFails(s) ==
  /\ mirror[s].pc = "normalize"
  /\ mirror' = [mirror EXCEPT ![s].pc = "idle", ![s].found = 0, ![s].stage = AfterFailure(@)]
  /\ UNCHANGED <<now, saved, settings, wanted>>

Close(s) ==
  /\ mirror[s].stage = "run" /\ mirror[s].pc = "idle"
  /\ mirror' = [mirror EXCEPT ![s].stage = "close"]
  /\ UNCHANGED <<now, saved, settings, wanted>>

-----------------------------------------------------------------------------
(* The user *)

\* Every running mirror has the newest choice, and none is about to write.
CaughtUp == \A s \in Session :
  mirror[s].stage \in {"run", "close"} => mirror[s].cursor >= saved /\ mirror[s].pc # "apply"

\* What sessions that end at this moment are about to write for the last time
Leaving == {mirror[s].found : s \in {t \in Session : mirror[t].stage = "close" /\ mirror[t].pc = "apply"}}

\* /model in a session: settings.json gets the name the model is served under.
Save(s) ==
  /\ mirror[s].stage = "run" /\ now < MaxChoices
  /\ now' = now + 1 /\ saved' = now' /\ wanted' = {now'} \union Leaving
  /\ settings' = [choice |-> now', served |-> TRUE]
  /\ UNCHANGED mirror

\* settings.json is edited, or changed by Claude Code without claudodex.
Edit ==
  /\ now < MaxChoices /\ now' = now + 1
  /\ settings' = [choice |-> now', served |-> FALSE]
  /\ wanted' = IF CaughtUp THEN {now'} ELSE wanted \union {now'}
  /\ UNCHANGED <<saved, mirror>>

Mirrors(s) ==
  \/ Start(s) \/ ReadTranscripts(s) \/ Apply(s) \/ ApplyFails(s)
  \/ Normalize(s) \/ NormalizeFails(s) \/ Close(s)

Ended == now = MaxChoices /\ \A s \in Session : mirror[s].stage \in {"gone", "failed"}

Next == (\E s \in Session : Mirrors(s) \/ Save(s)) \/ Edit

Spec == Init /\ [][Next]_vars

-----------------------------------------------------------------------------
\* Once the mirrors have read all there is, the default is the one saved last,
\* or one that was put into settings.json after it; and it is that one if the
\* mirrors had read all there was by then.  No mirror, however late, brings
\* back an older one, but for that of a session which ends just as the newer
\* one is saved.
\* And no name that only Codex knows is left there when the last session ends.
\* (What fails while a session runs is made up for; that the last merge of a
\* session fails is reported when it ends, and excepted here.)
LastChoiceStands ==
  (\A s \in Session : mirror[s].stage # "failed") =>
    /\ CaughtUp => settings.choice \in wanted
    /\ (\A s \in Session : mirror[s].stage \in {"off", "gone"}) => ~settings.served
=============================================================================
