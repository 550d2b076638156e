----------------------------- MODULE SelfUpdate -----------------------------
(***************************************************************************)
(* internal/selfupdate: before it launches Claude Code, a claudodex that   *)
(* was installed with Homebrew offers a newer release, has Homebrew        *)
(* install it, and replaces itself by the new program.  Of that program it *)
(* only asks that it skips the offer, which it tells it with a handoff:    *)
(* the name of a file, passed in the environment, that says which build of *)
(* which version was accepted.  Several processes may do so at a time, and *)
(* a user may run Homebrew beside them.                                    *)
(* A version is a number; the signed manifest of a version is its number.  *)
(* A build stands for the SHA-256 of the program in the keg of a version.  *)
(***************************************************************************)
EXTENDS Naturals, FiniteSets

CONSTANTS
  Process,     \* the claudodex processes
  Nobody,      \* nobody holds install.lock
  MaxVersion,  \* bound: the versions ever released
  MaxBuild     \* bound: the builds of a version

\* What the constants have to be.
Sensible == MaxVersion \in Nat \ {0} /\ MaxBuild \in Nat

VARIABLES
  feed,      \* the version that the release feed announces
  tap,       \* the version that the local copy of the tap offers
  linked,    \* the version that the Homebrew prefix leads to
  keg,       \* keg[v]: the build of version v in the Cellar, 0 if there is none
  records,   \* the handoff files
  installer, \* who holds install.lock
  proc,      \* proc[p]: process p
  accepted   \* history: the versions p's user accepted

vars == <<feed, tap, linked, keg, records, installer, proc, accepted>>
host == <<feed, tap, linked, keg>>

Version == 1..MaxVersion
NoToken == <<>>

\* How a process was called: at a terminal, where it can ask, with --print or
\* the like, or with clx:update --yes.
Mode == {"prompt", "print", "yes"}

-----------------------------------------------------------------------------
Init ==
  /\ feed \in Version /\ tap = 1 /\ linked = 1
  /\ keg = [v \in Version |-> IF v = 1 THEN 1 ELSE 0]
  /\ records = {} /\ installer = Nobody
  /\ proc \in [Process -> [pc : {"new"}, mode : Mode, version : {1}, build : {1}, token : {NoToken},
                           offer : {1}, asked : {FALSE},
                           verified : {<<1, 1>>}, handed : {FALSE}]]
  /\ accepted = [p \in Process |-> {}]

Goes(p, pc) == proc' = [proc EXCEPT ![p].pc = pc]

\* What only the offer needed is forgotten.
IsOver(p) ==
  proc' = [proc EXCEPT ![p].pc = "over", ![p].mode = "print", ![p].offer = 1, ![p].asked = FALSE,
                       ![p].token = NoToken]

\* BeforeLaunch is over: clx:update exits, whether it updated or not, and a
\* launch goes on with the program it has.
BeforeLaunchEnds(p) == IsOver(p) /\ UNCHANGED <<host, records, installer, accepted>>

\* An error or a refusal while the lock is held: it is released.
GivesUp(p) ==
  /\ IsOver(p) /\ installer' = Nobody
  /\ UNCHANGED <<host, records, accepted>>

\* The program starts: it forgets the token and removes the file at once, and
\* skips the offer if the file was for this build of this version.
ConsumeHandoff(p) ==
  LET mine == {r \in records : r.token = proc[p].token}
      fits(r) == r.version = proc[p].version /\ ~r.late /\ r.build = keg[r.version]
      handed == \E r \in mine : fits(r)
  IN
  /\ proc[p].pc = "new"
  /\ records' = records \ mine
  /\ proc' = [proc EXCEPT ![p].token = NoToken, ![p].handed = handed,
                          ![p].pc = IF handed THEN "over" ELSE "check"]
  /\ UNCHANGED <<host, installer, accepted>>

\* No offer is made: updates are switched off, this is a nested session, the
\* feed does not answer within two seconds or with a bad signature, or
\* Homebrew does not own this program.
NoOffer(p) ==
  /\ proc[p].pc = "check"
  /\ BeforeLaunchEnds(p)

Newer(v, p) == v > proc[p].version

\* The feed announces a newer version, and there is somebody to ask.
Offer(p) ==
  /\ proc[p].pc = "check" /\ Newer(feed, p) /\ proc[p].mode # "print"
  /\ proc' = [proc EXCEPT ![p].pc = "ask", ![p].offer = feed, ![p].asked = FALSE]
  /\ UNCHANGED <<host, records, installer, accepted>>

\* --yes answers once; of a second release it accepts nothing.
MayAccept(p) == proc[p].mode # "yes" \/ ~proc[p].asked

Accept(p, pc) ==
  /\ MayAccept(p)
  /\ proc' = [proc EXCEPT ![p].pc = pc, ![p].asked = TRUE]
  /\ accepted' = [accepted EXCEPT ![p] = @ \union {proc[p].offer}]
  /\ UNCHANGED <<host, records, installer>>

Yes(p) == proc[p].pc = "ask" /\ Accept(p, "lock")

\* The answer is no, or the prompt or the wait for the lock is interrupted.
No(p) ==
  /\ (proc[p].pc = "ask" /\ proc[p].mode # "yes") \/ proc[p].pc = "lock"
  /\ BeforeLaunchEnds(p)

Lock(p) ==
  /\ proc[p].pc = "lock" /\ installer = Nobody
  /\ installer' = p /\ Goes(p, "refresh")
  /\ UNCHANGED <<host, records, accepted>>

\* brew update: the tap may still be behind the feed.
BrewUpdate(p) ==
  /\ proc[p].pc = "refresh"
  /\ tap' \in tap..feed /\ Goes(p, "info")
  /\ UNCHANGED <<feed, linked, keg, records, installer, accepted>>

\* brew info: the offered version, or another one that is newer than this one
\* and has a manifest of its own; then the user is asked again.
BrewInfo(p) ==
  /\ proc[p].pc = "info"
  /\ \/ tap = proc[p].offer /\ Goes(p, "upgrade")
     \/ /\ tap # proc[p].offer /\ Newer(tap, p)
        /\ proc' = [proc EXCEPT ![p].pc = "reask", ![p].offer = tap]
  /\ UNCHANGED <<host, records, installer, accepted>>

YesAgain(p) == proc[p].pc = "reask" /\ Accept(p, "upgrade")

\* brew upgrade installs what the tap offers now, if it is not there yet, and
\* may remove the kegs it replaces.
Upgrades ==
  IF tap > linked
  THEN /\ linked' = tap
       /\ \E kept \in SUBSET (1..linked) :
            keg' = [v \in Version |-> IF v = tap THEN 1 ELSE IF v \in kept THEN keg[v] ELSE 0]
  ELSE UNCHANGED <<linked, keg>>

BrewUpgrade(p) ==
  /\ proc[p].pc = "upgrade" /\ Goes(p, "verify")
  /\ Upgrades
  /\ UNCHANGED <<feed, tap, records, installer, accepted>>

\* (variant) whatever Homebrew has installed is started
VerifyAnything(p) ==
  /\ proc[p].pc = "verify" /\ keg[linked] # 0
  /\ proc' = [proc EXCEPT ![p].pc = "handoff", ![p].offer = linked]
  /\ UNCHANGED <<host, records, installer, accepted>>

\* The prefix leads to a program, in the keg of its version, that says it is of
\* the accepted one.
Verify(p) ==
  /\ proc[p].pc = "verify" /\ linked = proc[p].offer /\ keg[linked] # 0
  /\ Goes(p, "handoff")
  /\ UNCHANGED <<host, records, installer, accepted>>

\* That program is asked for its version once more, and a file names the build
\* that is there by now to the program that is started next.
CreateHandoff(p) ==
  LET v == proc[p].offer
      token == <<p, v, keg[v]>>
  IN
  /\ proc[p].pc = "handoff" /\ keg[v] # 0
  /\ records' = records \union {[token |-> token, version |-> v, build |-> keg[v], late |-> FALSE]}
  /\ proc' = [proc EXCEPT ![p].pc = "release", ![p].token = token, ![p].verified = <<v, keg[v]>>]
  /\ UNCHANGED <<host, installer, accepted>>

\* Any step of the installation fails, or is interrupted.
Fails(p) ==
  /\ proc[p].pc \in {"refresh", "info", "reask", "upgrade", "verify", "handoff"}
  /\ GivesUp(p)

Release(p) ==
  /\ proc[p].pc = "release"
  /\ installer' = Nobody /\ Goes(p, "exec")
  /\ UNCHANGED <<host, records, accepted>>

\* The process becomes the new program: all it takes along is the token.
Exec(p) ==
  LET v == proc[p].token[2]
  IN
  /\ proc[p].pc = "exec"
  /\ IF keg[v] # 0
     THEN /\ proc' = [proc EXCEPT ![p].pc = "new", ![p].version = v, ![p].build = keg[v],
                                  ![p].asked = FALSE]
          /\ UNCHANGED records
     ELSE /\ IsOver(p)
          /\ records' = {r \in records : r.token # proc[p].token}
  /\ UNCHANGED <<host, installer, accepted>>

\* A process is killed: the system releases its lock, a handoff file stays, and
\* no more is asked about it.
Dies(p) ==
  /\ proc[p].pc # "over"
  /\ proc' = [proc EXCEPT ![p] = [pc |-> "over", mode |-> "print", version |-> 1, build |-> 1,
                                  token |-> NoToken, offer |-> 1, asked |-> FALSE,
                                  verified |-> <<1, 1>>, handed |-> FALSE]]
  /\ accepted' = [accepted EXCEPT ![p] = {}]
  /\ installer' = IF installer = p THEN Nobody ELSE installer
  /\ UNCHANGED <<host, records>>

-----------------------------------------------------------------------------
(* The world: a release, a user who runs Homebrew, and time. *)

NewRelease ==
  /\ feed < MaxVersion /\ feed' = feed + 1
  /\ UNCHANGED <<tap, linked, keg, records, installer, proc, accepted>>

UserUpdatesTap ==
  /\ tap < feed /\ tap' = feed
  /\ UNCHANGED <<feed, linked, keg, records, installer, proc, accepted>>

UserUpgrades ==
  /\ tap > linked /\ Upgrades
  /\ UNCHANGED <<feed, tap, records, installer, proc, accepted>>

UserReinstalls(v) ==
  /\ keg[v] \in 1..(MaxBuild - 1)
  /\ keg' = [keg EXCEPT ![v] = @ + 1]
  /\ UNCHANGED <<feed, tap, linked, records, installer, proc, accepted>>

TwoMinutesPass ==
  /\ \E r \in records : ~r.late
  /\ records' = {[r EXCEPT !.late = TRUE] : r \in records}
  /\ UNCHANGED <<host, installer, proc, accepted>>

World ==
  \/ NewRelease \/ UserUpdatesTap \/ UserUpgrades \/ TwoMinutesPass
  \/ \E v \in Version : UserReinstalls(v)

Proceeds(p) ==
  \/ ConsumeHandoff(p) \/ NoOffer(p) \/ Offer(p) \/ Yes(p) \/ No(p) \/ Lock(p)
  \/ BrewUpdate(p) \/ BrewInfo(p) \/ YesAgain(p) \/ BrewUpgrade(p) \/ Verify(p) \/ CreateHandoff(p)
  \/ Fails(p) \/ Release(p) \/ Exec(p)

Ended == \A p \in Process : proc[p].pc = "over"

Next == World \/ \E p \in Process : Proceeds(p) \/ Dies(p)

Spec == Init /\ [][Next]_vars

-----------------------------------------------------------------------------
\* Whatever Homebrew and other processes do meanwhile, a process only becomes a
\* program of a version that its user has accepted.
OnlyAcceptedRuns ==
  \A p \in Process : proc[p].version # 1 => proc[p].version \in accepted[p]

\* A program skips the offer only if it is the very build that its handoff was
\* made for, and the file by which it did is gone.
HandoffFitsOnce ==
  \A p \in Process :
    proc[p].handed =>
      /\ <<proc[p].version, proc[p].build>> = proc[p].verified
      /\ \A r \in records : r.token # <<p, proc[p].version, proc[p].build>>
=============================================================================
