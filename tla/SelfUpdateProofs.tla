--------------------------- MODULE SelfUpdateProofs ---------------------------
(***************************************************************************)
(* For any processes, versions and builds, and whatever Homebrew does      *)
(* beside them: only accepted programs run, and a handoff is for the very  *)
(* program that takes it and is taken once.                                *)
(***************************************************************************)
EXTENDS SelfUpdate, TLAPS

Pcs == {"new", "check", "ask", "lock", "refresh", "info", "reask", "upgrade", "verify", "handoff",
        "release", "exec", "over"}
Builds == Version \X Nat
Tokens == {NoToken} \union (Process \X Version \X Nat)
Processes ==
  [pc : Pcs, mode : Mode, version : Version, build : Nat, token : Tokens, offer : Version,
   asked : BOOLEAN, verified : Builds, handed : BOOLEAN]
Records == [token : Process \X Version \X Nat, version : Version, build : Nat, late : BOOLEAN]

TypeOK ==
  /\ feed \in Version /\ tap \in Version /\ linked \in Version
  /\ keg \in [Version -> Nat] /\ records \subseteq Records
  /\ installer \in Process \union {Nobody}
  /\ proc \in [Process -> Processes] /\ accepted \in [Process -> SUBSET Version]

\* What is going to be installed was accepted, and so was the program that a
\* token leads to and the one that runs.
Installing == {"lock", "refresh", "info", "upgrade", "verify", "handoff"}
Accepted(p) ==
  /\ proc[p].pc \in Installing => proc[p].offer \in accepted[p]
  /\ proc[p].token # NoToken => proc[p].token[2] \in accepted[p]
  /\ proc[p].version # 1 => proc[p].version \in accepted[p]

\* A keg that was there with this build has it still, was built again or is gone
\* for good: what is installed later is of a version not linked yet.
Past(version, build) ==
  /\ version <= linked /\ build > 0
  /\ keg[version] = 0 \/ build <= keg[version]

\* The keg a handoff is made for was linked before it.  A token is of its
\* process and names what this has verified; after the
\* replacement the program is of that build or a later one.
Handing(p) ==
  /\ proc[p].pc = "handoff" => Past(proc[p].offer, 1)
  /\ proc[p].pc \in {"release", "exec"} => proc[p].token # NoToken
  /\ proc[p].token # NoToken =>
       \E v \in Version, b \in Nat :
         /\ proc[p].token = <<p, v, b>> /\ proc[p].verified = <<v, b>> /\ Past(v, b)
         /\ proc[p].pc \in {"release", "exec", "new"}
         /\ proc[p].pc = "new" =>
              \E n \in Nat : proc[p].version = v /\ proc[p].build = n /\ b <= n /\ Past(v, n)

\* Who was handed its program has nothing left to do, and no file for it.
Handed(p) ==
  proc[p].handed =>
    /\ proc[p].pc = "over"
    /\ <<proc[p].version, proc[p].build>> = proc[p].verified
    /\ \A r \in records : r.token # <<p, proc[p].version, proc[p].build>>

Good(p) == Accepted(p) /\ Handing(p) /\ Handed(p)

\* A file says what its token says.
Filed == \A r \in records : \E q \in Process : r.token = <<q, r.version, r.build>>

IInv == TypeOK /\ Filed /\ \A p \in Process : Good(p)

-----------------------------------------------------------------------------
(* A process with parts replaced                                           *)

\* Only p changes, and of p only what the lemmas below name.
Only(p) == proc' \in [Process -> Processes] /\ \A q \in Process : q # p => proc'[q] = proc[q]

LEMMA Replaced ==
  ASSUME proc \in [Process -> Processes], NEW p \in Process, NEW x \in Processes,
         proc' = [proc EXCEPT ![p] = x]
  PROVE  Only(p) /\ proc'[p] = x
BY DEF Only

LEMMA Moves ==
  ASSUME proc \in [Process -> Processes], NEW p \in Process,
         NEW pc \in Pcs,
         proc' = [proc EXCEPT ![p].pc = pc]
  PROVE  /\ Only(p)
         /\ proc'[p].pc = pc /\ proc'[p].mode = proc[p].mode /\ proc'[p].version = proc[p].version
         /\ proc'[p].build = proc[p].build /\ proc'[p].token = proc[p].token
         /\ proc'[p].offer = proc[p].offer /\ proc'[p].asked = proc[p].asked
         /\ proc'[p].verified = proc[p].verified /\ proc'[p].handed = proc[p].handed
BY DEF Only, Processes

LEMMA Ends ==
  ASSUME Sensible, proc \in [Process -> Processes], NEW p \in Process, IsOver(p)
  PROVE  /\ Only(p)
         /\ proc'[p].pc = "over" /\ proc'[p].token = NoToken
         /\ proc'[p].version = proc[p].version /\ proc'[p].build = proc[p].build
         /\ proc'[p].verified = proc[p].verified /\ proc'[p].handed = proc[p].handed
<1> DEFINE x == [proc[p] EXCEPT !.pc = "over", !.mode = "print", !.offer = 1, !.asked = FALSE,
                                !.token = NoToken]
<1>1. proc[p] \in Processes
  OBVIOUS
<1>2. "over" \in Pcs /\ "print" \in Mode /\ 1 \in Version /\ NoToken \in Tokens
  BY DEF Pcs, Mode, Tokens, Sensible, Version
<1>3. /\ x \in Processes
      /\ x.pc = "over" /\ x.token = NoToken /\ x.version = proc[p].version
      /\ x.build = proc[p].build /\ x.verified = proc[p].verified /\ x.handed = proc[p].handed
  BY <1>1, <1>2 DEF Processes
<1>4. proc' = [proc EXCEPT ![p] = x]
  BY DEF IsOver
<1> HIDE DEF x
<1> QED BY <1>3, <1>4, Replaced

LEMMA Starts ==
  ASSUME proc \in [Process -> Processes], NEW p \in Process,
         NEW token \in Tokens, NEW handed \in BOOLEAN, NEW pc \in Pcs,
         proc' = [proc EXCEPT ![p].token = token, ![p].handed = handed, ![p].pc = pc]
  PROVE  /\ Only(p)
         /\ proc'[p].token = token /\ proc'[p].handed = handed /\ proc'[p].pc = pc
         /\ proc'[p].mode = proc[p].mode /\ proc'[p].version = proc[p].version
         /\ proc'[p].build = proc[p].build /\ proc'[p].offer = proc[p].offer
         /\ proc'[p].asked = proc[p].asked /\ proc'[p].verified = proc[p].verified
BY DEF Only, Processes

LEMMA Offers ==
  ASSUME proc \in [Process -> Processes], NEW p \in Process,
         NEW pc \in Pcs, NEW offer \in Version, NEW asked \in BOOLEAN,
         proc' = [proc EXCEPT ![p].pc = pc, ![p].offer = offer, ![p].asked = asked]
  PROVE  /\ Only(p)
         /\ proc'[p].pc = pc /\ proc'[p].offer = offer /\ proc'[p].asked = asked
         /\ proc'[p].mode = proc[p].mode /\ proc'[p].version = proc[p].version
         /\ proc'[p].build = proc[p].build /\ proc'[p].token = proc[p].token
         /\ proc'[p].verified = proc[p].verified /\ proc'[p].handed = proc[p].handed
BY DEF Only, Processes

LEMMA Accepts ==
  ASSUME proc \in [Process -> Processes], NEW p \in Process,
         NEW pc \in Pcs, NEW asked \in BOOLEAN,
         proc' = [proc EXCEPT ![p].pc = pc, ![p].asked = asked]
  PROVE  /\ Only(p)
         /\ proc'[p].pc = pc /\ proc'[p].asked = asked /\ proc'[p].mode = proc[p].mode
         /\ proc'[p].version = proc[p].version /\ proc'[p].build = proc[p].build
         /\ proc'[p].token = proc[p].token /\ proc'[p].offer = proc[p].offer
         /\ proc'[p].verified = proc[p].verified /\ proc'[p].handed = proc[p].handed
BY DEF Only, Processes

LEMMA OffersAnother ==
  ASSUME proc \in [Process -> Processes], NEW p \in Process,
         NEW pc \in Pcs, NEW offer \in Version,
         proc' = [proc EXCEPT ![p].pc = pc, ![p].offer = offer]
  PROVE  /\ Only(p)
         /\ proc'[p].pc = pc /\ proc'[p].offer = offer /\ proc'[p].mode = proc[p].mode
         /\ proc'[p].version = proc[p].version /\ proc'[p].build = proc[p].build
         /\ proc'[p].token = proc[p].token /\ proc'[p].asked = proc[p].asked
         /\ proc'[p].verified = proc[p].verified /\ proc'[p].handed = proc[p].handed
BY DEF Only, Processes

LEMMA Replaces ==
  ASSUME proc \in [Process -> Processes], NEW p \in Process,
         NEW version \in Version, NEW build \in Nat,
         proc' = [proc EXCEPT ![p].pc = "new", ![p].version = version, ![p].build = build,
                              ![p].asked = FALSE]
  PROVE  /\ Only(p)
         /\ proc'[p].pc = "new" /\ proc'[p].version = version /\ proc'[p].build = build
         /\ proc'[p].token = proc[p].token /\ proc'[p].verified = proc[p].verified
         /\ proc'[p].handed = proc[p].handed
<1> DEFINE x == [proc[p] EXCEPT !.pc = "new", !.version = version, !.build = build, !.asked = FALSE]
<1>1. proc[p] \in Processes
  OBVIOUS
<1>2. /\ x \in Processes
      /\ x.pc = "new" /\ x.version = version /\ x.build = build
      /\ x.token = proc[p].token /\ x.verified = proc[p].verified /\ x.handed = proc[p].handed
  BY <1>1 DEF Processes, Pcs
<1>3. proc' = [proc EXCEPT ![p] = x]
  OBVIOUS
<1> HIDE DEF x
<1> QED BY <1>2, <1>3, Replaced

-----------------------------------------------------------------------------
(* What a step leaves as it was                                            *)

\* Whatever Homebrew does, what was past stays past.
PastStays == \A v \in Version, b \in Nat : Past(v, b) => Past(v, b)'

\* No file appears but p's.
NoNewFiles(p) == \A r \in records' : r.token[1] # p => \E s \in records : r.token = s.token

LEMMA TokenParts ==
  ASSUME NEW p, NEW v, NEW b
  PROVE  /\ <<p, v, b>> # NoToken
         /\ <<p, v, b>>[1] = p /\ <<p, v, b>>[2] = v /\ <<p, v, b>>[3] = b
BY DEF NoToken

LEMMA OthersStay ==
  ASSUME TypeOK, NEW p \in Process, NEW q \in Process, q # p, Good(q),
         Only(p), PastStays, NoNewFiles(p), accepted'[q] = accepted[q]
  PROVE  Good(q)'
<1>1. proc'[q] = proc[q]
  BY DEF Only
<1>2. Accepted(q)'
  BY <1>1 DEF Good, Accepted
<1>3. Handing(q)'
  <2>1. Past(proc[q].offer, 1) => Past(proc[q].offer, 1)'
    BY <1>1 DEF PastStays, TypeOK, Processes
  <2> QED BY <1>1, <2>1 DEF Good, Handing, PastStays
<1>4. Handed(q)'
  <2>1. <<q, proc[q].version, proc[q].build>>[1] # p
    OBVIOUS
  <2> QED BY <1>1, <2>1 DEF Good, Handed, NoNewFiles
<1> QED BY <1>2, <1>3, <1>4 DEF Good

LEMMA SamePast == ASSUME UNCHANGED <<linked, keg>> PROVE PastStays
BY DEF PastStays, Past

\* A process that only goes on, without a token, has done nothing yet.
LEMMA GoesOn ==
  ASSUME TypeOK, NEW p \in Process, Good(p),
         proc'[p].token = NoToken, proc'[p].version = proc[p].version,
         proc'[p].build = proc[p].build, proc'[p].verified = proc[p].verified,
         proc'[p].pc \notin {"handoff", "release", "exec"},
         accepted[p] \subseteq accepted'[p],
         proc'[p].pc \in Installing => proc'[p].offer \in accepted'[p],
         \/ ~proc'[p].handed
         \/ proc'[p].handed = proc[p].handed /\ proc'[p].pc = "over" /\ records' \subseteq records
  PROVE  Good(p)'
<1>1. Accepted(p)'
  BY DEF Good, Accepted
<1>2. Handing(p)'
  BY DEF Handing
<1>3. Handed(p)'
  BY DEF Good, Handed
<1> QED BY <1>1, <1>2, <1>3 DEF Good

\* Outside of the replacement itself a process has no token.
LEMMA NoTokenYet ==
  ASSUME NEW p \in Process, Good(p), proc[p].pc \notin {"release", "exec", "new"}
  PROVE  proc[p].token = NoToken
BY DEF Good, Handing

LEMMA NotHanded ==
  ASSUME TypeOK, NEW p \in Process, Good(p), proc[p].pc # "over"
  PROVE  ~proc[p].handed
BY DEF Good, Handed

-----------------------------------------------------------------------------
(* Steps that neither hand over nor replace                                *)

\* BeforeLaunch is over, or the process has ended.
LEMMA Over ==
  ASSUME Sensible, TypeOK, NEW p \in Process, Good(p), proc[p].pc # "over", IsOver(p), accepted' = accepted
  PROVE  Only(p) /\ Good(p)'
<1>1. /\ Only(p) /\ proc'[p].pc = "over" /\ proc'[p].token = NoToken
      /\ proc'[p].version = proc[p].version /\ proc'[p].build = proc[p].build
      /\ proc'[p].verified = proc[p].verified /\ proc'[p].handed = proc[p].handed
  BY Ends DEF TypeOK
<1> QED BY <1>1, NotHanded, GoesOn DEF Installing

\* What a step of p has to do.
Kept(p) ==
  /\ TypeOK' /\ Filed' /\ Only(p) /\ Good(p)' /\ PastStays /\ NoNewFiles(p)
  /\ \A q \in Process : q # p => accepted'[q] = accepted[q]

LEMMA KeepsAll == ASSUME IInv, NEW p \in Process, Kept(p) PROVE IInv'
<1>1. ASSUME NEW q \in Process, q # p PROVE Good(q)'
  BY <1>1, OthersStay DEF IInv, Kept
<1> QED BY <1>1 DEF IInv, Kept

\* Files, the Cellar and what was accepted are not touched.
Touches(p) ==
  /\ feed' = feed /\ tap' \in Version /\ installer' \in Process \union {Nobody}
  /\ UNCHANGED <<linked, keg, records, accepted>>

LEMMA TouchesKeeps ==
  ASSUME IInv, NEW p \in Process, Touches(p), Only(p), Good(p)'
  PROVE  Kept(p)
<1>1. TypeOK'
  BY DEF IInv, TypeOK, Touches, Only
<1>2. Filed'
  BY DEF IInv, Filed, Touches
<1>3. PastStays
  BY SamePast DEF Touches
<1> QED BY <1>1, <1>2, <1>3 DEF Kept, Touches, NoNewFiles

LEMMA OverKeeps ==
  ASSUME Sensible, IInv, NEW p \in Process, NoOffer(p) \/ No(p) \/ Fails(p)
  PROVE  Kept(p)
<1>1. proc[p].pc # "over" /\ IsOver(p) /\ UNCHANGED <<host, records, accepted>>
  BY DEF NoOffer, No, Fails, BeforeLaunchEnds, GivesUp
<1>2. Only(p) /\ Good(p)'
  BY <1>1, Over DEF IInv
<1>3. installer' \in Process \union {Nobody}
  BY DEF NoOffer, No, Fails, BeforeLaunchEnds, GivesUp, IInv, TypeOK
<1>4. Touches(p)
  BY <1>1, <1>3 DEF Touches, host, IInv, TypeOK
<1> QED BY <1>2, <1>4, TouchesKeeps

LEMMA DyingKeeps == ASSUME Sensible, IInv, NEW p \in Process, Dies(p) PROVE Kept(p)
<1> DEFINE x == [pc |-> "over", mode |-> "print", version |-> 1, build |-> 1, token |-> NoToken,
                 offer |-> 1, asked |-> FALSE, verified |-> <<1, 1>>, handed |-> FALSE]
<1>1. x \in Processes
  BY DEF Processes, Pcs, Mode, Version, Sensible, Tokens, Builds
<1>2. proc' = [proc EXCEPT ![p] = x]
  BY DEF Dies
<1>3. Only(p) /\ proc'[p] = x
  <2> HIDE DEF x
  <2> QED BY <1>1, <1>2, Replaced DEF IInv, TypeOK
<1>4. Good(p)'
  BY <1>3 DEF Good, Accepted, Handing, Handed, Installing
<1>5. /\ accepted' \in [Process -> SUBSET Version] /\ installer' \in Process \union {Nobody}
      /\ \A q \in Process : q # p => accepted'[q] = accepted[q]
      /\ UNCHANGED <<host, records>>
  BY DEF Dies, IInv, TypeOK
<1>6. TypeOK'
  BY <1>3, <1>5 DEF IInv, TypeOK, Only, host
<1>7. Filed' /\ PastStays /\ NoNewFiles(p)
  BY <1>5, SamePast DEF IInv, Filed, NoNewFiles, host
<1> QED BY <1>3, <1>4, <1>5, <1>6, <1>7 DEF Kept

LEMMA OfferKeeps == ASSUME Sensible, IInv, NEW p \in Process, Offer(p) PROVE Kept(p)
<1>1. "ask" \in Pcs /\ FALSE \in BOOLEAN /\ feed \in Version
  BY DEF Pcs, IInv, TypeOK
<1>2. /\ Only(p) /\ proc'[p].pc = "ask" /\ proc'[p].token = proc[p].token
      /\ proc'[p].version = proc[p].version /\ proc'[p].build = proc[p].build
      /\ proc'[p].verified = proc[p].verified /\ proc'[p].handed = proc[p].handed
  BY <1>1, Offers DEF Offer, IInv, TypeOK
<1>3. proc[p].pc = "check" /\ UNCHANGED <<host, records, installer, accepted>>
  BY DEF Offer
<1>4. proc[p].token = NoToken /\ ~proc[p].handed
  BY <1>3, NoTokenYet, NotHanded DEF IInv
<1>5. Good(p)'
  BY <1>2, <1>3, <1>4, GoesOn DEF IInv, Installing
<1>6. Touches(p)
  BY <1>3 DEF Touches, host, IInv, TypeOK
<1> QED BY <1>2, <1>5, <1>6, TouchesKeeps

\* Steps that change no more than where the process is, and what it is offered.
LEMMA MoveKeeps ==
  ASSUME Sensible, IInv, NEW p \in Process, Lock(p) \/ BrewUpdate(p) \/ BrewInfo(p)
  PROVE  Kept(p)
<1>1. /\ proc[p].pc \in {"lock", "refresh", "info"}
      /\ UNCHANGED <<feed, linked, keg, records, accepted>>
  BY DEF Lock, BrewUpdate, BrewInfo, host
<1>2. /\ tap' \in Version /\ installer' \in Process \union {Nobody}
  <2>1. \A t \in tap..feed : t \in Version
    BY DEF IInv, TypeOK, Version, Sensible
  <2> QED BY <2>1 DEF Lock, BrewUpdate, BrewInfo, host, IInv, TypeOK
<1>3. proc[p].token = NoToken /\ ~proc[p].handed /\ proc[p].offer \in accepted[p]
  BY <1>1, NoTokenYet, NotHanded DEF IInv, Good, Accepted, Installing
<1>4. {"refresh", "info", "upgrade", "reask"} \subseteq Pcs /\ tap \in Version
  BY DEF Pcs, IInv, TypeOK
<1>5. \/ \E pc \in {"refresh", "info", "upgrade"} : proc' = [proc EXCEPT ![p].pc = pc]
      \/ proc' = [proc EXCEPT ![p].pc = "reask", ![p].offer = tap]
  BY DEF Lock, BrewUpdate, BrewInfo, Goes
<1>6. ASSUME NEW pc \in {"refresh", "info", "upgrade"}, proc' = [proc EXCEPT ![p].pc = pc]
      PROVE  Only(p) /\ Good(p)'
  <2>1. /\ Only(p) /\ proc'[p].pc = pc /\ proc'[p].token = proc[p].token
        /\ proc'[p].version = proc[p].version /\ proc'[p].build = proc[p].build
        /\ proc'[p].verified = proc[p].verified /\ proc'[p].handed = proc[p].handed
        /\ proc'[p].offer = proc[p].offer
    BY <1>4, <1>6, Moves DEF IInv, TypeOK
  <2> QED BY <1>1, <1>3, <2>1, GoesOn DEF IInv
<1>7. ASSUME proc' = [proc EXCEPT ![p].pc = "reask", ![p].offer = tap]
      PROVE  Only(p) /\ Good(p)'
  <2>1. PICK offer \in Version : offer = tap
    BY <1>4
  <2>2. /\ Only(p) /\ proc'[p].pc = "reask" /\ proc'[p].token = proc[p].token
        /\ proc'[p].version = proc[p].version /\ proc'[p].build = proc[p].build
        /\ proc'[p].verified = proc[p].verified /\ proc'[p].handed = proc[p].handed
    BY <1>4, <1>7, <2>1, OffersAnother DEF IInv, TypeOK
  <2> QED BY <1>1, <1>3, <2>2, GoesOn DEF IInv, Installing
<1>8. Touches(p)
  BY <1>1, <1>2 DEF Touches
<1> QED BY <1>5, <1>6, <1>7, <1>8, TouchesKeeps

\* The user accepts what is offered.
LEMMA AcceptKeeps ==
  ASSUME Sensible, IInv, NEW p \in Process, Yes(p) \/ YesAgain(p)
  PROVE  Kept(p)
<1>1. PICK pc \in {"lock", "upgrade"} : proc[p].pc \in {"ask", "reask"} /\ Accept(p, pc)
  BY DEF Yes, YesAgain
<1>2. proc[p].token = NoToken /\ ~proc[p].handed
  BY <1>1, NoTokenYet, NotHanded DEF IInv
<1>3. pc \in Pcs
  BY DEF Pcs
<1>4. /\ Only(p) /\ proc'[p].pc = pc /\ proc'[p].token = proc[p].token
      /\ proc'[p].version = proc[p].version /\ proc'[p].build = proc[p].build
      /\ proc'[p].verified = proc[p].verified /\ proc'[p].handed = proc[p].handed
      /\ proc'[p].offer = proc[p].offer
  BY <1>1, <1>3, Accepts DEF Accept, IInv, TypeOK
<1>5. proc[p].offer \in Version
  BY DEF IInv, TypeOK, Processes
<1>6. /\ accepted' = [accepted EXCEPT ![p] = @ \union {proc[p].offer}]
      /\ UNCHANGED <<host, records, installer>>
  BY <1>1 DEF Accept
<1>7. /\ accepted' \in [Process -> SUBSET Version] /\ accepted[p] \subseteq accepted'[p]
      /\ proc[p].offer \in accepted'[p]
      /\ \A q \in Process : q # p => accepted'[q] = accepted[q]
  BY <1>5, <1>6 DEF IInv, TypeOK
<1>8. Good(p)'
  BY <1>1, <1>2, <1>4, <1>7, GoesOn DEF IInv
<1>9. TypeOK'
  BY <1>4, <1>6, <1>7 DEF IInv, TypeOK, Only, host
<1>10. Filed' /\ PastStays /\ NoNewFiles(p)
  BY <1>6, SamePast DEF IInv, Filed, NoNewFiles, host
<1> QED BY <1>4, <1>7, <1>8, <1>9, <1>10 DEF Kept

-----------------------------------------------------------------------------
(* Installing, handing over and replacing                                  *)

\* brew upgrade installs only a version that was not linked yet.
LEMMA Upgraded ==
  ASSUME Sensible, TypeOK, Upgrades
  PROVE  linked' \in Version /\ keg' \in [Version -> Nat] /\ PastStays
<1>1. /\ linked' \in Version /\ linked <= linked' /\ keg' \in [Version -> Nat]
      /\ \A v \in Version : v <= linked => keg'[v] \in {0, keg[v]}
  <2>1. CASE tap > linked
    <3>1. PICK kept \in SUBSET (1..linked) :
            keg' = [v \in Version |-> IF v = tap THEN 1 ELSE IF v \in kept THEN keg[v] ELSE 0]
      BY <2>1 DEF Upgrades
    <3>2. linked' = tap /\ tap \in Nat /\ linked \in Nat
      BY <2>1 DEF Upgrades, TypeOK, Version, Sensible
    <3>3. keg' \in [Version -> Nat]
      BY <3>1 DEF TypeOK
    <3>4. ASSUME NEW v \in Version, v <= linked PROVE keg'[v] \in {0, keg[v]}
      BY <2>1, <3>1, <3>2, <3>4
    <3> QED BY <2>1, <3>2, <3>3, <3>4 DEF TypeOK
  <2>2. CASE ~(tap > linked)
    BY <2>2 DEF Upgrades, TypeOK, Version, Sensible
  <2> QED BY <2>1, <2>2
<1>2. ASSUME NEW v \in Version, NEW b \in Nat, Past(v, b) PROVE Past(v, b)'
  <2>1. v \in Nat /\ linked \in Nat /\ linked' \in Nat
    BY <1>1 DEF TypeOK, Version, Sensible
  <2> QED BY <1>1, <1>2, <2>1 DEF Past
<1> QED BY <1>1, <1>2 DEF PastStays

LEMMA UpgradeKeeps == ASSUME Sensible, IInv, NEW p \in Process, BrewUpgrade(p) PROVE Kept(p)
<1>1. proc[p].pc = "upgrade" /\ UNCHANGED <<feed, tap, records, installer, accepted>>
  BY DEF BrewUpgrade
<1>2. proc[p].token = NoToken /\ ~proc[p].handed /\ proc[p].offer \in accepted[p]
  BY <1>1, NoTokenYet, NotHanded DEF IInv, Good, Accepted, Installing
<1>3. /\ Only(p) /\ proc'[p].pc = "verify" /\ proc'[p].token = proc[p].token
      /\ proc'[p].version = proc[p].version /\ proc'[p].build = proc[p].build
      /\ proc'[p].verified = proc[p].verified /\ proc'[p].handed = proc[p].handed
      /\ proc'[p].offer = proc[p].offer
  <2>1. "verify" \in Pcs
    BY DEF Pcs
  <2> QED BY <2>1, Moves DEF BrewUpgrade, Goes, IInv, TypeOK
<1>4. Good(p)'
  BY <1>1, <1>2, <1>3, GoesOn DEF IInv
<1>5. linked' \in Version /\ keg' \in [Version -> Nat] /\ PastStays
  BY Upgraded DEF BrewUpgrade, IInv
<1>7. TypeOK'
  BY <1>1, <1>3, <1>5 DEF IInv, TypeOK, Only
<1>8. Filed' /\ NoNewFiles(p)
  BY <1>1 DEF IInv, Filed, NoNewFiles
<1> QED BY <1>1, <1>3, <1>4, <1>5, <1>7, <1>8 DEF Kept

\* What is linked is what was accepted.
LEMMA VerifyKeeps == ASSUME Sensible, IInv, NEW p \in Process, Verify(p) PROVE Kept(p)
<1>1. /\ proc[p].pc = "verify" /\ linked = proc[p].offer /\ keg[linked] # 0
      /\ UNCHANGED <<host, records, installer, accepted>>
  BY DEF Verify
<1>2. proc[p].token = NoToken /\ ~proc[p].handed /\ proc[p].offer \in accepted[p]
  BY <1>1, NoTokenYet, NotHanded DEF IInv, Good, Accepted, Installing
<1>3. /\ Only(p) /\ proc'[p].pc = "handoff" /\ proc'[p].token = proc[p].token
      /\ proc'[p].version = proc[p].version /\ proc'[p].handed = proc[p].handed
      /\ proc'[p].offer = proc[p].offer
  <2>1. "handoff" \in Pcs
    BY DEF Pcs
  <2> QED BY <2>1, Moves DEF Verify, Goes, IInv, TypeOK
<1>4. Accepted(p)'
  BY <1>1, <1>2, <1>3 DEF IInv, Good, Accepted, host
<1>5. Past(proc[p].offer, 1)'
  <2>1. linked \in Nat /\ keg[linked] \in Nat
    BY DEF IInv, TypeOK, Version, Sensible
  <2> QED BY <1>1, <1>3, <2>1 DEF Past, host
<1>6. Handing(p)'
  BY <1>2, <1>3, <1>5 DEF Handing
<1>7. Handed(p)'
  BY <1>2, <1>3 DEF Handed
<1>8. Touches(p)
  BY <1>1 DEF Touches, host, IInv, TypeOK
<1> QED BY <1>3, <1>4, <1>6, <1>7, <1>8, TouchesKeeps DEF Good

\* The token names the version that was accepted and its build.
LEMMA CreateKeeps == ASSUME Sensible, IInv, NEW p \in Process, CreateHandoff(p) PROVE Kept(p)
<1>1. PICK v \in Version, b \in Nat : v = proc[p].offer /\ b = keg[v]
  BY DEF IInv, TypeOK, Processes
<1>2. PICK token \in Tokens, verified \in Builds : token = <<p, v, b>> /\ verified = <<v, b>>
  BY DEF Tokens, Builds
<1>3. /\ proc[p].pc = "handoff" /\ b # 0 /\ Past(v, 1)
      /\ UNCHANGED <<feed, tap, linked, keg, installer, accepted>>
  BY <1>1 DEF CreateHandoff, host, IInv, Good, Handing
<1>4. /\ records' = records \union {[token |-> token, version |-> v, build |-> b, late |-> FALSE]}
      /\ proc' = [proc EXCEPT ![p].pc = "release", ![p].token = token, ![p].verified = verified]
  BY <1>1, <1>2 DEF CreateHandoff
<1>5. ~proc[p].handed /\ v \in accepted[p]
  BY <1>1, <1>3, NotHanded DEF IInv, Good, Accepted, Installing
<1>6. /\ Only(p) /\ proc'[p].pc = "release" /\ proc'[p].token = token
      /\ proc'[p].verified = verified /\ proc'[p].version = proc[p].version
      /\ proc'[p].handed = proc[p].handed
  <2> DEFINE x == [proc[p] EXCEPT !.pc = "release", !.token = token, !.verified = verified]
  <2>1. proc[p] \in Processes /\ proc \in [Process -> Processes]
    BY DEF IInv, TypeOK
  <2>2. "release" \in Pcs
    BY DEF Pcs
  <2>3. /\ x \in Processes /\ x.pc = "release" /\ x.token = token /\ x.verified = verified
        /\ x.version = proc[p].version /\ x.handed = proc[p].handed
    BY <2>1, <2>2 DEF Processes
  <2>4. proc' = [proc EXCEPT ![p] = x]
    BY <1>4
  <2> HIDE DEF x
  <2> QED BY <2>1, <2>3, <2>4, Replaced
<1>7. Past(v, b)'
  <2>1. v <= linked'
    BY <1>3 DEF Past
  <2>2. keg'[v] = b
    BY <1>1, <1>3
  <2>3. b > 0
    BY <1>3
  <2> QED BY <2>1, <2>2, <2>3 DEF Past
<1>8. Accepted(p)'
  <2>1. token[2] = v
    BY <1>2, TokenParts
  <2> QED BY <1>5, <1>6, <1>3, <2>1 DEF IInv, Good, Accepted, Installing
<1>9. Handing(p)'
  BY <1>2, <1>6, <1>7, TokenParts DEF Handing
<1>10. Handed(p)'
  BY <1>5, <1>6 DEF Handed
<1>11. TypeOK'
  <2>1. [token |-> token, version |-> v, build |-> b, late |-> FALSE] \in Records
    BY <1>2 DEF Records
  <2> QED BY <1>4, <1>6, <1>3, <2>1 DEF IInv, TypeOK, Only
<1>12. Filed'
  BY <1>2, <1>4 DEF IInv, Filed
<1>13. NoNewFiles(p)
  BY <1>2, <1>4, TokenParts DEF NoNewFiles
<1>14. PastStays
  BY <1>3, SamePast
<1> QED BY <1>3, <1>6, <1>8, <1>9, <1>10, <1>11, <1>12, <1>13, <1>14 DEF Kept, Good

\* The lock is released.
LEMMA ReleaseKeeps == ASSUME Sensible, IInv, NEW p \in Process, Release(p) PROVE Kept(p)
<1>1. proc[p].pc = "release" /\ installer' = Nobody /\ UNCHANGED <<host, records, accepted>>
  BY DEF Release
<1>2. /\ Only(p) /\ proc'[p].pc = "exec" /\ proc'[p].token = proc[p].token
      /\ proc'[p].version = proc[p].version /\ proc'[p].verified = proc[p].verified
      /\ proc'[p].handed = proc[p].handed
  <2>1. "exec" \in Pcs
    BY DEF Pcs
  <2> QED BY <2>1, Moves DEF Release, Goes, IInv, TypeOK
<1>3. Accepted(p)'
  BY <1>1, <1>2 DEF IInv, Good, Accepted, Installing
<1>4. Handing(p)'
  BY <1>1, <1>2 DEF IInv, Good, Handing, Past, host
<1>5. Handed(p)'
  BY <1>1, <1>2, NotHanded DEF IInv, Handed
<1>6. Touches(p)
  BY <1>1 DEF Touches, host, IInv, TypeOK
<1> QED BY <1>2, <1>3, <1>4, <1>5, <1>6, TouchesKeeps DEF Good

\* The process becomes the program of its token's version, of this build or of
\* one that was built since.
LEMMA ExecKeeps == ASSUME Sensible, IInv, NEW p \in Process, Exec(p) PROVE Kept(p)
<1>1. PICK v \in Version, b \in Nat :
        /\ proc[p].token = <<p, v, b>> /\ proc[p].verified = <<v, b>> /\ Past(v, b)
        /\ v \in accepted[p]
  BY TokenParts DEF Exec, IInv, Good, Handing, Accepted
<1>2. proc[p].pc = "exec" /\ ~proc[p].handed /\ UNCHANGED <<host, installer, accepted>>
  BY NotHanded DEF Exec, IInv
<1>3. proc[p].token[2] = v
  BY <1>1, TokenParts
<1>4. PastStays
  BY <1>2, SamePast DEF host
<1>5. records' \subseteq records
  BY DEF Exec
<1>6. NoNewFiles(p) /\ Filed'
  BY <1>5 DEF NoNewFiles, Filed, IInv
<1>7. Only(p) /\ Good(p)'
  <2>1. CASE keg[v] # 0
    <3>1. PICK n \in Nat : n = keg[v]
      BY DEF IInv, TypeOK
    <3>2. proc' = [proc EXCEPT ![p].pc = "new", ![p].version = v, ![p].build = n, ![p].asked = FALSE]
      BY <1>3, <2>1, <3>1 DEF Exec
    <3>3. /\ Only(p)
          /\ proc'[p].pc = "new" /\ proc'[p].version = v /\ proc'[p].build = n
          /\ proc'[p].token = proc[p].token /\ proc'[p].verified = proc[p].verified
          /\ proc'[p].handed = proc[p].handed
      BY <3>2, Replaces DEF IInv, TypeOK
    <3>4. Past(v, b)' /\ Past(v, n)' /\ b <= n
      BY <1>1, <1>2, <2>1, <3>1 DEF Past, host
    <3>5. Accepted(p)'
      BY <1>1, <1>2, <1>3, <3>3 DEF Accepted, Installing
    <3>6. Handing(p)'
      BY <1>1, <3>3, <3>4 DEF Handing
    <3> QED BY <1>2, <3>3, <3>5, <3>6 DEF Good, Handed
  <2>2. CASE keg[v] = 0
    BY <1>2, <1>3, <2>2, Over DEF Exec, IInv
  <2> QED BY <2>1, <2>2
<1>8. TypeOK'
  BY <1>2, <1>5, <1>7 DEF IInv, TypeOK, Only, host
<1> QED BY <1>2, <1>4, <1>6, <1>7, <1>8 DEF Kept

\* A program that starts takes its file away; if that is for the build that is
\* there now, this is the build that was verified and the one that runs.
LEMMA ConsumeKeeps == ASSUME Sensible, IInv, NEW p \in Process, ConsumeHandoff(p) PROVE Kept(p)
<1> DEFINE mine == {r \in records : r.token = proc[p].token}
           fits(r) == r.version = proc[p].version /\ ~r.late /\ r.build = keg[r.version]
<1>1. PICK handed \in BOOLEAN, pc \in {"over", "check"} :
        /\ handed <=> \E r \in mine : fits(r)
        /\ proc' = [proc EXCEPT ![p].token = NoToken, ![p].handed = handed, ![p].pc = pc]
        /\ pc = "over" <=> handed
  BY DEF ConsumeHandoff
<1>2. /\ proc[p].pc = "new" /\ records' = records \ mine
      /\ UNCHANGED <<feed, tap, linked, keg, installer, accepted>>
  BY DEF ConsumeHandoff, host
<1>3. pc \in Pcs /\ NoToken \in Tokens
  BY DEF Pcs, Tokens
<1>4. /\ Only(p) /\ proc'[p].token = NoToken /\ proc'[p].handed = handed /\ proc'[p].pc = pc
      /\ proc'[p].version = proc[p].version /\ proc'[p].build = proc[p].build
      /\ proc'[p].verified = proc[p].verified
  <2> DEFINE x == [proc[p] EXCEPT !.token = NoToken, !.handed = handed, !.pc = pc]
  <2>1. proc[p] \in Processes /\ proc \in [Process -> Processes]
    BY DEF IInv, TypeOK
  <2>2. /\ x \in Processes /\ x.token = NoToken /\ x.handed = handed /\ x.pc = pc
        /\ x.version = proc[p].version /\ x.build = proc[p].build /\ x.verified = proc[p].verified
    BY <1>3, <2>1 DEF Processes
  <2>3. proc' = [proc EXCEPT ![p] = x]
    BY <1>1
  <2> HIDE DEF x
  <2> QED BY <2>1, <2>2, <2>3, Replaced
<1>5. Accepted(p)'
  BY <1>2, <1>4 DEF IInv, Good, Accepted, Installing
<1>6. Handing(p)'
  BY <1>4 DEF Handing
<1>7. Handed(p)'
  <2>1. SUFFICES ASSUME handed
                 PROVE  /\ <<proc[p].version, proc[p].build>> = proc[p].verified
                        /\ \A r \in records' : r.token # <<p, proc[p].version, proc[p].build>>
    BY <1>1, <1>4 DEF Handed
  <2>2. PICK r \in records : r.token = proc[p].token /\ fits(r)
    BY <1>1, <2>1
  <2>3. PICK q \in Process : r.token = <<q, r.version, r.build>>
    BY DEF IInv, Filed
  <2>4. proc[p].token # NoToken
    BY <2>2, <2>3, TokenParts
  <2>5. PICK v \in Version, b \in Nat, n \in Nat :
          /\ proc[p].token = <<p, v, b>> /\ proc[p].verified = <<v, b>> /\ Past(v, b)
          /\ proc[p].version = v /\ proc[p].build = n /\ b <= n /\ Past(v, n)
    BY <1>2, <2>4 DEF IInv, Good, Handing
  <2>6. r.build = b /\ r.version = v
    <3>1. <<q, r.version, r.build>> = <<p, v, b>>
      BY <2>2, <2>3, <2>5
    <3> QED BY <3>1
  <2>7. b = keg[v]
    BY <2>2, <2>6
  <2>8. n = b
    BY <2>5, <2>7 DEF Past
  <2>9. \A s \in records' : s.token # <<p, v, b>>
    BY <1>2, <2>5
  <2> QED BY <2>5, <2>8, <2>9
<1>8. records' \subseteq records
  BY <1>2
<1> HIDE DEF mine, fits
<1>9. TypeOK'
  BY <1>2, <1>4, <1>8 DEF IInv, TypeOK, Only
<1>10. NoNewFiles(p) /\ Filed'
  BY <1>8 DEF NoNewFiles, Filed, IInv
<1>11. PastStays
  BY <1>2, SamePast
<1> QED BY <1>2, <1>4, <1>5, <1>6, <1>7, <1>9, <1>10, <1>11 DEF Kept, Good

-----------------------------------------------------------------------------
(* Releases, a user of Homebrew and time                                   *)

LEMMA WorldKeeps == ASSUME Sensible, IInv, World PROVE IInv'
<1>1. UNCHANGED <<installer, proc, accepted>> /\ feed' \in Version /\ tap' \in Version
  BY DEF World, NewRelease, UserUpdatesTap, UserUpgrades, UserReinstalls, TwoMinutesPass, host, IInv,
         TypeOK, Version, Sensible
<1>2. linked' \in Version /\ keg' \in [Version -> Nat] /\ PastStays
  <2>1. ASSUME NEW v \in Version, UserReinstalls(v)
        PROVE  linked' \in Version /\ keg' \in [Version -> Nat] /\ PastStays
    <3>1. /\ linked' = linked /\ keg' \in [Version -> Nat]
          /\ \A w \in Version : keg'[w] = keg[w] \/ (keg[w] > 0 /\ keg'[w] > keg[w])
      BY <2>1 DEF UserReinstalls, IInv, TypeOK, Sensible
    <3>2. ASSUME NEW w \in Version, NEW b \in Nat, Past(w, b) PROVE Past(w, b)'
      <4>1. keg[w] \in Nat /\ keg'[w] \in Nat
        BY <3>1 DEF IInv, TypeOK
      <4> QED BY <3>1, <3>2, <4>1 DEF Past
    <3> QED BY <3>1, <3>2 DEF PastStays, IInv, TypeOK
  <2>2. CASE UserUpgrades
    BY <2>2, Upgraded DEF UserUpgrades, IInv
  <2>3. CASE UNCHANGED <<linked, keg>>
    BY <2>3, SamePast DEF IInv, TypeOK
  <2> QED BY <2>1, <2>2, <2>3 DEF World, NewRelease, UserUpdatesTap, TwoMinutesPass, host
<1>3. /\ records' \subseteq Records
      /\ \A r \in records' : \E s \in records :
           r.token = s.token /\ r.version = s.version /\ r.build = s.build
  <2>1. CASE TwoMinutesPass
    <3>1. records' = {[r EXCEPT !.late = TRUE] : r \in records} /\ records \subseteq Records
      BY <2>1 DEF TwoMinutesPass, IInv, TypeOK
    <3>2. ASSUME NEW s \in records
          PROVE  LET r == [s EXCEPT !.late = TRUE] IN
                 r \in Records /\ r.token = s.token /\ r.version = s.version /\ r.build = s.build
      <4>1. s \in Records
        BY <3>1
      <4> QED BY <4>1 DEF Records
    <3>3. records' \subseteq Records
      BY <3>1, <3>2
    <3>4. ASSUME NEW r \in records'
          PROVE  \E s \in records : r.token = s.token /\ r.version = s.version /\ r.build = s.build
      <4>1. PICK s \in records : r = [s EXCEPT !.late = TRUE]
        BY <3>1
      <4> QED BY <3>2, <4>1
    <3> QED BY <3>3, <3>4
  <2>2. CASE UNCHANGED records
    BY <2>2 DEF IInv, TypeOK
  <2> QED BY <2>1, <2>2 DEF World, NewRelease, UserUpdatesTap, UserUpgrades, UserReinstalls
<1>4. TypeOK'
  BY <1>1, <1>2, <1>3 DEF IInv, TypeOK
<1>6. ASSUME NEW p \in Process PROVE Good(p)'
  <2>1. Good(p)
    BY DEF IInv
  <2>2. Accepted(p)'
    BY <1>1, <2>1 DEF Good, Accepted
  <2>3. Handing(p)'
    <3>1. Past(proc[p].offer, 1) => Past(proc[p].offer, 1)'
      BY <1>1, <1>2 DEF PastStays, IInv, TypeOK, Processes
    <3> QED BY <1>1, <1>2, <2>1, <3>1 DEF Good, Handing, PastStays
  <2>4. Handed(p)'
    BY <1>1, <1>3, <2>1 DEF Good, Handed
  <2> QED BY <2>2, <2>3, <2>4 DEF Good
<1>7. Filed'
  BY <1>3 DEF IInv, Filed
<1> QED BY <1>4, <1>6, <1>7 DEF IInv

-----------------------------------------------------------------------------
LEMMA Begins == ASSUME Sensible, Init PROVE IInv
<1>1. 1 \in Version /\ <<1, 1>> \in Builds /\ NoToken \in Tokens /\ "new" \in Pcs /\ FALSE \in BOOLEAN
  BY DEF Sensible, Version, Builds, Tokens, Pcs
<1>2. ASSUME NEW p \in Process
      PROVE  /\ proc[p] \in Processes /\ proc[p].pc = "new" /\ proc[p].version = 1
             /\ proc[p].token = NoToken /\ ~proc[p].handed
  <2> DEFINE First == [pc : {"new"}, mode : Mode, version : {1}, build : {1}, token : {NoToken},
                       offer : {1}, asked : {FALSE}, verified : {<<1, 1>>}, handed : {FALSE}]
  <2>1. proc[p] \in First
    BY DEF Init
  <2>2. ASSUME NEW x \in First
        PROVE  /\ x \in Processes /\ x.pc = "new" /\ x.version = 1 /\ x.token = NoToken
               /\ x.handed = FALSE
    <3>1. /\ x = [pc |-> "new", mode |-> x.mode, version |-> 1, build |-> 1, token |-> NoToken,
                  offer |-> 1, asked |-> FALSE, verified |-> <<1, 1>>, handed |-> FALSE]
          /\ x.mode \in Mode
      OBVIOUS
    <3>2. [pc |-> "new", mode |-> x.mode, version |-> 1, build |-> 1, token |-> NoToken,
           offer |-> 1, asked |-> FALSE, verified |-> <<1, 1>>, handed |-> FALSE] \in Processes
      BY <1>1, <3>1 DEF Processes
    <3> QED BY <3>1, <3>2
  <2> QED BY <2>1, <2>2
<1>3. proc \in [Process -> Processes]
  <2>1. proc = [p \in Process |-> proc[p]]
    BY DEF Init
  <2> QED BY <1>2, <2>1
<1>4. TypeOK
  BY <1>1, <1>3 DEF Init, TypeOK
<1>5. \A p \in Process : Good(p)
  BY <1>2 DEF Good, Accepted, Handing, Handed, Installing
<1> QED BY <1>4, <1>5 DEF Init, IInv, Filed

LEMMA Continues == ASSUME Sensible, IInv, [Next]_vars PROVE IInv'
<1>1. CASE World
  BY <1>1, WorldKeeps
<1>2. ASSUME NEW p \in Process, Proceeds(p) \/ Dies(p) PROVE IInv'
  <2>1. Kept(p)
    BY <1>2, OverKeeps, DyingKeeps, OfferKeeps, MoveKeeps, AcceptKeeps, UpgradeKeeps, VerifyKeeps, CreateKeeps, ReleaseKeeps,
       ExecKeeps, ConsumeKeeps DEF Proceeds
  <2> QED BY <2>1, KeepsAll
<1>3. CASE UNCHANGED vars
  BY <1>3 DEF vars, IInv, TypeOK, Filed, Good, Accepted, Handing, Handed, Past
<1> QED BY <1>1, <1>2, <1>3 DEF Next

\* The strengthened invariant holds in every reachable state.
THEOREM Invariant == ASSUME Sensible PROVE Spec => []IInv
<1>1. Init => IInv
  BY Begins
<1>2. IInv /\ [Next]_vars => IInv'
  BY Continues
<1> QED BY <1>1, <1>2, PTL DEF Spec

\* Every variable keeps its type.
THEOREM TypeCorrect == ASSUME Sensible PROVE Spec => []TypeOK
<1>1. IInv => TypeOK
  BY DEF IInv
<1> QED BY <1>1, Invariant, PTL

\* Whatever Homebrew, the release feed and other processes do between the
\* question and the replacement, a process becomes a program of a version only
\* if its user has accepted that version (BeforeLaunch).
THEOREM AcceptedProgramsRun == ASSUME Sensible PROVE Spec => []OnlyAcceptedRuns
<1>1. IInv => OnlyAcceptedRuns
  BY DEF IInv, Good, Accepted, OnlyAcceptedRuns
<1> QED BY <1>1, Invariant, PTL

\* A program skips the offer only for a handoff to this very build, though the
\* keg may have been built again or removed since it was verified, and no other
\* program can use that handoff again (ConsumeHandoff).
THEOREM HandoffsFit == ASSUME Sensible PROVE Spec => []HandoffFitsOnce
<1>1. IInv => HandoffFitsOnce
  BY DEF IInv, Good, Handed, HandoffFitsOnce
<1> QED BY <1>1, Invariant, PTL
=============================================================================
