---------------------------- MODULE MachineProofs ----------------------------
(***************************************************************************)
(* What parts of MCMachine promise, for any values of the constants and,   *)
(* where a part is an algorithm, for any numbers, names or settings. The   *)
(* strengthened invariants of the self-update, of the borrowed login and   *)
(* of the mirrored configuration are in modules of their own               *)
(* (SelfUpdateProofs, NativeBorrowProofs, ConfigMirrorProofs) and are      *)
(* lifted to the machine here; those of the other parts are stated and     *)
(* proved here, part by part.                                              *)
(***************************************************************************)
EXTENDS MCMachine, FiniteSetTheorems, SequenceTheorems, WellFoundedInduction, TLAPS

-----------------------------------------------------------------------------
(* Logins in the browser                                                   *)

port == x1
stage == x2
tried == x3
inbox == x4
pages == x5
granted == x6

Ports == Browser!Ports
Another == Browser!Another
Holding == {"listening", "browsing", "exchanging"}
Stages == {"new", "cancelling", "waiting"} \union Holding \union Browser!Over
Boxes == [code : Process \union {Nobody}, error : BOOLEAN]
Pages == [to : Ports, state : Process, challenge : Process]

BrowserTypes ==
  /\ port \in [Ports -> Process \union {Nobody, Another}]
  /\ stage \in [Process -> Stages] /\ tried \in [Process -> Ports]
  /\ inbox \in [Process -> Boxes]
  /\ pages \subseteq Pages /\ granted \subseteq [to : Process, for : Process]

\* A page was opened by the login whose challenge it carries, which is under way
\* or over.
PagesKnown ==
  \A page \in pages :
    /\ page.challenge = page.state
    /\ stage[page.state] \in {"browsing", "exchanging"} \union Browser!Over

\* A code that lies there is the login's own, and was granted if it is exchanged.
CodesOwned ==
  /\ \A p \in Process : inbox[p].code \in {Nobody, p}
  /\ \A p \in Process : stage[p] = "exchanging" => inbox[p].code = p
  /\ \A p \in Process : stage[p] \in {"exchanging", "saved"} => [to |-> p, for |-> p] \in granted
  /\ \A grant \in granted : grant.for = grant.to

\* A login holds the port it listens on, and no other.
PortsHeld ==
  \A n \in Ports, p \in Process : port[n] = p <=> (stage[p] \in Holding /\ tried[p] = n)

AskedToLeave == \A p \in Process : stage[p] = "cancelled" => inbox[p].error

BrowserInv == BrowserTypes /\ PagesKnown /\ CodesOwned /\ PortsHeld /\ AskedToLeave

LEMMA BrowserBegins == Browser!Init => BrowserInv
<1> USE DEF port, stage, tried, inbox, pages, granted, Ports, Another
<1>1. SUFFICES ASSUME Browser!Init PROVE BrowserInv
  OBVIOUS
<1>2. \A p \in Process : inbox[p].code = Nobody /\ inbox[p] \in Boxes
  BY <1>1 DEF Browser!Init, Browser!Empty, Boxes
<1>3. BrowserTypes
  BY <1>1, <1>2 DEF Browser!Init, Browser!Ports, BrowserTypes, Stages
<1>4. PortsHeld
  BY <1>1, ConstantsAssumption DEF Browser!Init, Browser!Sensible, PortsHeld, Holding
<1> QED
  BY <1>1, <1>2, <1>3, <1>4
  DEF Browser!Init, BrowserInv, PagesKnown, CodesOwned, AskedToLeave

\* Listen, GiveUp, Open and so on move one login from stage to stage.
LEMMA Moves ==
  ASSUME BrowserTypes, NEW p \in Process, NEW to \in Stages, Browser!Goes(p, to)
  PROVE  /\ stage' \in [Process -> Stages] /\ stage'[p] = to
         /\ \A q \in Process : q # p => stage'[q] = stage[q]
BY DEF Browser!Goes, BrowserTypes, stage

LEMMA Leaves ==
  ASSUME BrowserTypes, NEW p \in Process, NEW to \in Browser!Over, Browser!Leave(p, to)
  PROVE  /\ stage' \in [Process -> Stages] /\ stage'[p] = to
         /\ \A q \in Process : q # p => stage'[q] = stage[q]
         /\ port' \in [Ports -> Process \union {Nobody, Another}]
         /\ \A n \in Ports : port'[n] = IF port[n] = p THEN Nobody ELSE port[n]
<1>1. to \in Stages
  BY DEF Stages
<1>2. Browser!Goes(p, to) /\ port' = [n \in Ports |-> IF port[n] = p THEN Nobody ELSE port[n]]
  BY DEF Browser!Leave, port, Ports
<1>3. port \in [Ports -> Process \union {Nobody, Another}]
  BY DEF BrowserTypes
<1> QED BY <1>1, <1>2, <1>3, Moves

\* A login that moves on to a stage which promises nothing new.
LEMMA MovingKeeps ==
  ASSUME BrowserInv, NEW p \in Process,
         stage' \in [Process -> Stages], \A q \in Process : q # p => stage'[q] = stage[q],
         stage'[p] \notin {"exchanging", "saved", "cancelled"},
         stage[p] \in {"browsing", "exchanging"} \union Browser!Over => stage'[p] \in Browser!Over,
         pages' = pages, granted' = granted, inbox' \in [Process -> Boxes],
         \A q \in Process : inbox'[q].code = inbox[q].code /\ (inbox[q].error => inbox'[q].error)
  PROVE  PagesKnown' /\ CodesOwned' /\ AskedToLeave'
<1>1. PagesKnown'
  BY DEF BrowserInv, BrowserTypes, PagesKnown, Pages
<1>2. CodesOwned'
  BY DEF BrowserInv, CodesOwned
<1>3. AskedToLeave'
  BY DEF BrowserInv, AskedToLeave
<1> QED BY <1>1, <1>2, <1>3

LEMMA ListenKeeps == ASSUME BrowserInv, NEW p \in Process, Browser!Listen(p) PROVE BrowserInv'
<1>1. /\ stage[p] \in {"new", "waiting"} /\ port[tried[p]] = Nobody
      /\ port' = [port EXCEPT ![tried[p]] = p] /\ Browser!Goes(p, "listening")
      /\ UNCHANGED <<tried, inbox, pages, granted>>
  BY DEF Browser!Listen, port, stage, tried, inbox, pages, granted
<1>2. /\ stage' \in [Process -> Stages] /\ stage'[p] = "listening"
      /\ \A q \in Process : q # p => stage'[q] = stage[q]
  BY <1>1, Moves DEF BrowserInv, Stages, Holding
<1>3. /\ port' \in [Ports -> Process \union {Nobody, Another}] /\ port'[tried[p]] = p
      /\ \A n \in Ports : n # tried[p] => port'[n] = port[n]
      /\ tried[p] \in Ports
  BY <1>1 DEF BrowserInv, BrowserTypes
<1>4. BrowserTypes'
  BY <1>1, <1>2, <1>3 DEF BrowserInv, BrowserTypes
<1>5. PortsHeld'
  <2>1. Nobody \notin Process
    BY ConstantsAssumption DEF Browser!Sensible
  <2> QED BY <1>1, <1>2, <1>3, <2>1 DEF BrowserInv, BrowserTypes, PortsHeld, Holding
<1>6. PagesKnown' /\ CodesOwned' /\ AskedToLeave'
  BY <1>1, <1>2, MovingKeeps DEF BrowserInv, BrowserTypes, Browser!Over
<1> QED BY <1>4, <1>5, <1>6 DEF BrowserInv

LEMMA WaitKeeps ==
  ASSUME BrowserInv, NEW p \in Process, Browser!InUse(p) \/ Browser!Cancel(p)
  PROVE  BrowserInv'
<1>1. PICK to \in {"cancelling", "waiting"} :
        /\ stage[p] \in {"new", "cancelling"} /\ Browser!Goes(p, to)
        /\ UNCHANGED <<port, tried, pages, granted>>
  BY DEF Browser!InUse, Browser!Cancel, port, stage, tried, pages, granted
<1>2. /\ stage' \in [Process -> Stages] /\ stage'[p] = to
      /\ \A q \in Process : q # p => stage'[q] = stage[q]
  BY <1>1, Moves DEF BrowserInv, Stages
<1>3. /\ inbox' \in [Process -> Boxes]
      /\ \A q \in Process : inbox'[q].code = inbox[q].code /\ (inbox[q].error => inbox'[q].error)
  <2>1. CASE inbox' = inbox
    BY <2>1 DEF BrowserInv, BrowserTypes
  <2>2. ASSUME NEW q \in Process, inbox' = [inbox EXCEPT ![q].error = TRUE]
        PROVE  <1>3!1 /\ <1>3!2
    BY <2>2 DEF BrowserInv, BrowserTypes, Boxes
  <2> QED BY <2>1, <2>2 DEF Browser!InUse, Browser!Cancel, port, inbox, tried
<1>4. BrowserTypes'
  BY <1>1, <1>2, <1>3 DEF BrowserInv, BrowserTypes
<1>5. PortsHeld'
  BY <1>1, <1>2 DEF BrowserInv, PortsHeld, Holding
<1>6. PagesKnown' /\ CodesOwned' /\ AskedToLeave'
  BY <1>1, <1>2, <1>3, MovingKeeps DEF BrowserInv, Browser!Over
<1> QED BY <1>4, <1>5, <1>6 DEF BrowserInv

LEMMA GiveUpKeeps == ASSUME BrowserInv, NEW p \in Process, Browser!GiveUp(p) PROVE BrowserInv'
<1>1. PICK to \in {"new", "failed"} :
        /\ stage[p] = "waiting" /\ Browser!Goes(p, to)
        /\ tried' \in {tried, [tried EXCEPT ![p] = 2]}
        /\ UNCHANGED <<port, inbox, pages, granted>>
  BY DEF Browser!GiveUp, port, stage, tried, inbox, pages, granted
<1>2. /\ stage' \in [Process -> Stages] /\ stage'[p] = to
      /\ \A q \in Process : q # p => stage'[q] = stage[q]
  BY <1>1, Moves DEF BrowserInv, Stages, Browser!Over
<1>3. tried' \in [Process -> Ports] /\ \A q \in Process : q # p => tried'[q] = tried[q]
  BY <1>1 DEF BrowserInv, BrowserTypes, Ports, Browser!Ports
<1>4. BrowserTypes'
  BY <1>1, <1>2, <1>3 DEF BrowserInv, BrowserTypes
<1>5. PortsHeld'
  BY <1>1, <1>2, <1>3 DEF BrowserInv, PortsHeld, Holding
<1>6. inbox' \in [Process -> Boxes]
  BY <1>4 DEF BrowserTypes
<1>7. PagesKnown' /\ CodesOwned' /\ AskedToLeave'
  BY <1>1, <1>2, <1>6, MovingKeeps DEF BrowserInv, Browser!Over
<1> QED BY <1>4, <1>5, <1>7 DEF BrowserInv

\* A login that ends has no port.
LEMMA EndKeepsPorts ==
  ASSUME BrowserInv, NEW p \in Process, NEW to \in Browser!Over, Browser!Leave(p, to), tried' = tried
  PROVE  PortsHeld'
<1>1. Nobody \notin Process
  BY ConstantsAssumption DEF Browser!Sensible
<1> QED BY <1>1, Leaves DEF BrowserInv, PortsHeld, Holding, Browser!Over

LEMMA FailKeeps ==
  ASSUME BrowserInv, NEW p \in Process, Browser!Leave(p, "failed"),
         UNCHANGED <<tried, inbox, pages, granted>>
  PROVE  BrowserInv'
<1>1. "failed" \in Browser!Over
  BY DEF Browser!Over
<1>2. /\ stage' \in [Process -> Stages] /\ stage'[p] = "failed"
      /\ \A q \in Process : q # p => stage'[q] = stage[q]
      /\ port' \in [Ports -> Process \union {Nobody, Another}]
  BY <1>1, Leaves DEF BrowserInv
<1>3. BrowserTypes'
  BY <1>2 DEF BrowserInv, BrowserTypes
<1>4. PortsHeld'
  BY <1>1, EndKeepsPorts
<1>5. inbox' \in [Process -> Boxes]
  BY <1>3 DEF BrowserTypes
<1>6. PagesKnown' /\ CodesOwned' /\ AskedToLeave'
  BY <1>1, <1>2, <1>5, MovingKeeps DEF BrowserInv
<1> QED BY <1>3, <1>4, <1>6 DEF BrowserInv

LEMMA OpenKeeps == ASSUME BrowserInv, NEW p \in Process, Browser!Open(p) PROVE BrowserInv'
<1> DEFINE page == [to |-> tried[p], state |-> p, challenge |-> p]
<1>1. stage[p] = "listening" /\ UNCHANGED <<tried, inbox, granted>>
  BY DEF Browser!Open, stage, tried, inbox, granted
<1>2. CASE Browser!Leave(p, "failed") /\ pages' = pages
  BY <1>1, <1>2, FailKeeps
<1>3. CASE pages' = pages \union {page} /\ Browser!Goes(p, "browsing") /\ port' = port
  <2>1. /\ stage' \in [Process -> Stages] /\ stage'[p] = "browsing"
        /\ \A q \in Process : q # p => stage'[q] = stage[q]
    BY <1>3, Moves DEF BrowserInv, Stages, Holding
  <2>2. page \in Pages
    BY DEF BrowserInv, BrowserTypes, Pages
  <2>3. BrowserTypes'
    BY <1>1, <1>3, <2>1, <2>2 DEF BrowserInv, BrowserTypes
  <2>4. PortsHeld'
    BY <1>1, <1>3, <2>1 DEF BrowserInv, PortsHeld, Holding
  <2>5. PagesKnown'
    BY <1>1, <1>3, <2>1 DEF BrowserInv, BrowserTypes, PagesKnown, Pages, Browser!Over
  <2>6. CodesOwned' /\ AskedToLeave'
    BY <1>1, <2>1 DEF BrowserInv, CodesOwned, AskedToLeave
  <2> QED BY <2>3, <2>4, <2>5, <2>6 DEF BrowserInv
<1> QED BY <1>2, <1>3 DEF Browser!Open, port, tried, pages

\* A page brings its code to whoever has its port by now; the handler takes only
\* its own.
LEMMA AnswerKeeps ==
  ASSUME BrowserInv, NEW page \in pages, NEW consents \in BOOLEAN, Browser!Answer(page, consents)
  PROVE  BrowserInv'
<1>1. pages' = pages \ {page} /\ UNCHANGED <<port, stage, tried, granted>>
  BY DEF Browser!Answer, port, stage, tried, pages, granted
<1>2. /\ inbox' \in [Process -> Boxes]
      /\ \A q \in Process : /\ inbox'[q].code \in {inbox[q].code, q}
                            /\ inbox'[q].code = q \/ inbox'[q].code = inbox[q].code
                            /\ inbox[q].error => inbox'[q].error
  <2>1. CASE inbox' = inbox
    BY <2>1 DEF BrowserInv, BrowserTypes
  <2>2. ASSUME NEW p \in Process, inbox' = [inbox EXCEPT ![p].error = TRUE]
        PROVE  <1>2!1 /\ <1>2!2
    BY <2>2 DEF BrowserInv, BrowserTypes, Boxes
  <2>3. ASSUME NEW p \in Process, inbox' = [inbox EXCEPT ![p].code = p]
        PROVE  <1>2!1 /\ <1>2!2
    BY <2>3 DEF BrowserInv, BrowserTypes, Boxes
  <2>4. page.challenge = page.state
    BY DEF BrowserInv, PagesKnown
  <2>5. \/ inbox' = inbox
        \/ \E p \in Process : inbox' = [inbox EXCEPT ![p].error = TRUE]
        \/ \E p \in Process : inbox' = [inbox EXCEPT ![p].code = p]
    BY <2>4 DEF Browser!Answer, Browser!CallbackHandler, inbox, port
  <2> QED BY <2>1, <2>2, <2>3, <2>5
<1>3. BrowserTypes'
  BY <1>1, <1>2 DEF BrowserInv, BrowserTypes
<1>4. PagesKnown' /\ PortsHeld'
  BY <1>1 DEF BrowserInv, PagesKnown, PortsHeld
<1>5. CodesOwned' /\ AskedToLeave'
  BY <1>1, <1>2 DEF BrowserInv, CodesOwned, AskedToLeave
<1> QED BY <1>3, <1>4, <1>5 DEF BrowserInv

LEMMA SelectKeeps == ASSUME BrowserInv, NEW p \in Process, Browser!Select(p) PROVE BrowserInv'
<1>1. stage[p] = "browsing" /\ UNCHANGED <<tried, inbox, pages>>
  BY DEF Browser!Select, stage, tried, inbox, pages
<1>2. CASE Browser!Leave(p, "failed") /\ granted' = granted
  BY <1>1, <1>2, FailKeeps
<1>3. CASE inbox[p].error /\ Browser!Leave(p, "cancelled") /\ granted' = granted
  <2>1. "cancelled" \in Browser!Over
    BY DEF Browser!Over
  <2>2. /\ stage' \in [Process -> Stages] /\ stage'[p] = "cancelled"
        /\ \A q \in Process : q # p => stage'[q] = stage[q]
        /\ port' \in [Ports -> Process \union {Nobody, Another}]
    BY <1>3, <2>1, Leaves DEF BrowserInv
  <2>3. BrowserTypes'
    BY <1>1, <1>3, <2>2 DEF BrowserInv, BrowserTypes
  <2>4. PortsHeld'
    BY <1>1, <1>3, <2>1, EndKeepsPorts
  <2>5. PagesKnown'
    BY <1>1, <2>1, <2>2 DEF BrowserInv, BrowserTypes, PagesKnown, Pages
  <2>6. CodesOwned' /\ AskedToLeave'
    BY <1>1, <1>3, <2>2 DEF BrowserInv, CodesOwned, AskedToLeave
  <2> QED BY <2>3, <2>4, <2>5, <2>6 DEF BrowserInv
<1>4. CASE /\ inbox[p].code # Nobody /\ Browser!Goes(p, "exchanging") /\ port' = port
           /\ granted' = granted \union {[to |-> p, for |-> inbox[p].code]}
  <2>1. inbox[p].code = p
    BY <1>4 DEF BrowserInv, CodesOwned
  <2>2. /\ stage' \in [Process -> Stages] /\ stage'[p] = "exchanging"
        /\ \A q \in Process : q # p => stage'[q] = stage[q]
    BY <1>4, Moves DEF BrowserInv, Stages, Holding
  <2>3. BrowserTypes'
    BY <1>1, <1>4, <2>1, <2>2 DEF BrowserInv, BrowserTypes
  <2>4. PortsHeld'
    BY <1>1, <1>4, <2>2 DEF BrowserInv, PortsHeld, Holding
  <2>5. PagesKnown'
    BY <1>1, <2>2 DEF BrowserInv, BrowserTypes, PagesKnown, Pages
  <2>6. CodesOwned' /\ AskedToLeave'
    BY <1>1, <1>4, <2>1, <2>2 DEF BrowserInv, CodesOwned, AskedToLeave
  <2> QED BY <2>3, <2>4, <2>5, <2>6 DEF BrowserInv
<1> QED BY <1>2, <1>3, <1>4 DEF Browser!Select, port, inbox, granted

LEMMA ExchangeKeeps == ASSUME BrowserInv, NEW p \in Process, Browser!Exchange(p) PROVE BrowserInv'
<1>1. stage[p] = "exchanging" /\ UNCHANGED <<tried, inbox, pages, granted>>
  BY DEF Browser!Exchange, stage, tried, inbox, pages, granted
<1>2. CASE Browser!Leave(p, "failed")
  BY <1>1, <1>2, FailKeeps
<1>3. CASE Browser!Leave(p, "saved")
  <2>1. "saved" \in Browser!Over
    BY DEF Browser!Over
  <2>2. /\ stage' \in [Process -> Stages] /\ stage'[p] = "saved"
        /\ \A q \in Process : q # p => stage'[q] = stage[q]
        /\ port' \in [Ports -> Process \union {Nobody, Another}]
    BY <1>3, <2>1, Leaves DEF BrowserInv
  <2>3. BrowserTypes'
    BY <1>1, <2>2 DEF BrowserInv, BrowserTypes
  <2>4. PortsHeld'
    BY <1>1, <1>3, <2>1, EndKeepsPorts
  <2>5. PagesKnown'
    BY <1>1, <2>1, <2>2 DEF BrowserInv, BrowserTypes, PagesKnown, Pages
  <2>6. CodesOwned' /\ AskedToLeave'
    BY <1>1, <2>2 DEF BrowserInv, CodesOwned, AskedToLeave
  <2> QED BY <2>3, <2>4, <2>5, <2>6 DEF BrowserInv
<1> QED BY <1>2, <1>3 DEF Browser!Exchange

LEMMA BrowserContinues == BrowserInv /\ [Browser!Next]_(Browser!vars) => BrowserInv'
<1>1. SUFFICES ASSUME BrowserInv, [Browser!Next]_(Browser!vars) PROVE BrowserInv'
  OBVIOUS
<1>2. ASSUME NEW p \in Process, Browser!Die(p) PROVE BrowserInv'
  BY <1>1, <1>2, FailKeeps DEF Browser!Die, tried, inbox, pages, granted
<1>3. ASSUME NEW p \in Process,
             \/ Browser!Listen(p) \/ Browser!InUse(p) \/ Browser!Cancel(p) \/ Browser!GiveUp(p)
             \/ Browser!Open(p) \/ Browser!Select(p) \/ Browser!Exchange(p) \/ Browser!Die(p)
      PROVE  BrowserInv'
  BY <1>1, <1>2, <1>3, ListenKeeps, WaitKeeps, GiveUpKeeps, OpenKeeps, SelectKeeps, ExchangeKeeps
<1>4. ASSUME NEW page \in pages, NEW consents \in BOOLEAN, Browser!Answer(page, consents)
      PROVE  BrowserInv'
  BY <1>1, <1>4, AnswerKeeps
<1>5. CASE UNCHANGED Browser!vars
  <2>1. UNCHANGED <<port, stage, tried, inbox, pages, granted>>
    BY <1>5 DEF Browser!vars, port, stage, tried, inbox, pages, granted
  <2> QED BY <1>1, <2>1 DEF BrowserInv, BrowserTypes, PagesKnown, CodesOwned, PortsHeld, AskedToLeave
<1> QED BY <1>1, <1>3, <1>4, <1>5 DEF Browser!Next, pages

LEMMA BrowserApart == BrowserInv => Browser!LoginsAreApart
<1>1. SUFFICES ASSUME BrowserInv PROVE Browser!LoginsAreApart
  OBVIOUS
<1>2. ASSUME NEW p \in Process
      PROVE  {n \in Ports : port[n] = p} = IF stage[p] \in Holding THEN {tried[p]} ELSE {}
  <2>1. tried[p] \in Ports
    BY <1>1 DEF BrowserInv, BrowserTypes
  <2> QED BY <1>1, <2>1 DEF BrowserInv, PortsHeld
<1>3. \A p \in Process : /\ stage[p] = "cancelled" => inbox[p].error
                         /\ stage[p] = "saved" => [to |-> p, for |-> p] \in granted
  BY <1>1, Zenon DEF BrowserInv, AskedToLeave, CodesOwned
<1>4. /\ \A grant \in granted : grant.for = grant.to
      /\ \A page \in pages : stage[page.state] \in {"browsing", "exchanging"} \union Browser!Over
  BY <1>1 DEF BrowserInv, CodesOwned, PagesKnown
<1> QED
  BY <1>2, <1>3, <1>4
  DEF Browser!LoginsAreApart, port, stage, tried, inbox, pages, granted, Ports, Holding

-----------------------------------------------------------------------------
(* A release                                                               *)

file == x1
command == x3
promoted == x4
first == x5
writes == command.writes

Files == Releases!Files
Made == Files \ {"brewed bottle", "brewed metadata"}
Whole(content) == content \notin {Releases!Absent, Releases!Partial}

ReleaseTypes ==
  /\ file = [name \in Files |-> file[name]]
  /\ first = [name \in Files |-> first[name]]
  /\ command = [writes |-> writes, open |-> command.open] /\ command.open \in BOOLEAN
  /\ \/ writes = <<>>
     \/ writes = <<writes[1]>>
     \/ writes = <<writes[1], writes[2]>>

\* What claudodex has written as a whole is what it first was; of the rest there
\* is a part at most.
KeptAsWritten ==
  \A name \in Made :
    \/ first[name] = Releases!Absent /\ ~Whole(file[name])
    \/ first[name] # Releases!Absent /\ Whole(file[name]) /\ file[name] = first[name]

\* A bottle is of the source, which is whole.
ABottle(content) == Whole(content) /\ Whole(file["source"]) /\ content[2] = file["source"]

\* What a file holds when it is whole, or will hold when it is written.
Fits(name, content) ==
  /\ Whole(content)
  /\ name = "formula" => content[2] # Releases!Absent
  /\ name \in {"bottle", "brewed bottle"} => ABottle(content)
  /\ name \in {"metadata", "brewed metadata"} => ABottle(content[2])
  /\ name = "manifest" =>
       /\ Whole(file["source"]) /\ Whole(file["bottle"]) /\ Whole(file["metadata"])
       /\ content[2] = file["source"] /\ content[3] = file["bottle"]
       /\ file["metadata"][2] = file["bottle"]

ContentsFit == \A name \in Files : Whole(file[name]) => Fits(name, file[name])

\* What is still to be written fits, and the file that is open is a part of one.
PendingFit ==
  /\ \A i \in DOMAIN writes : writes[i][1] \in Made /\ Fits(writes[i][1], writes[i][2])
  /\ command.open => writes # <<>> /\ file[writes[1][1]] = Releases!Partial

BrewedWhole == \A name \in {"brewed bottle", "brewed metadata"} : file[name] # Releases!Partial

Promoted == {"source", "bottle", "metadata", "manifest", "signature", "bottled formula"}

PromotedStays ==
  promoted =>
    /\ \A name \in Promoted : Whole(file[name])
    /\ file["signature"] = <<"signature", file["manifest"]>>
    /\ file["bottled formula"] = Releases!Formula(file["source"], file["bottle"])

ReleaseInv ==
  /\ ReleaseTypes /\ KeptAsWritten /\ ContentsFit /\ PendingFit /\ BrewedWhole /\ PromotedStays

LEMMA AbsentIsNotPart == Releases!Absent # Releases!Partial
<1>1. Len(<<>>) = 0 /\ Len(<<"partial">>) = 1
  OBVIOUS
<1> QED BY <1>1 DEF Releases!Absent, Releases!Partial

LEMMA ReleaseBegins == Releases!Init => ReleaseInv
<1>1. SUFFICES ASSUME Releases!Init PROVE ReleaseInv
  OBVIOUS
<1>2. /\ file = [name \in Files |-> Releases!Absent] /\ first = file
      /\ command = [writes |-> <<>>, open |-> FALSE] /\ promoted = FALSE
  BY <1>1 DEF Releases!Init, file, command, promoted, first, Files
<1>3. ReleaseTypes
  BY <1>2 DEF ReleaseTypes, writes
<1>4. \A name \in Files : file[name] = Releases!Absent /\ first[name] = Releases!Absent
  BY <1>2
<1>5. writes = <<>> /\ DOMAIN writes = {} /\ command.open = FALSE
  BY <1>2 DEF writes
<1>6. BrewedWhole
  BY <1>4, AbsentIsNotPart, Zenon DEF BrewedWhole, Files, Releases!Files
<1>7. KeptAsWritten /\ ContentsFit /\ PendingFit /\ PromotedStays
  BY <1>2, <1>4, <1>5, Zenon DEF KeptAsWritten, Made, ContentsFit, PendingFit, PromotedStays, Whole
<1> QED BY <1>3, <1>6, <1>7 DEF ReleaseInv

\* A step that leaves whole files as they are.
WholeStay == \A name \in Made : Whole(file[name]) => file'[name] = file[name]

LEMMA FitsStays ==
  ASSUME WholeStay, NEW name, NEW content, Fits(name, content)
  PROVE  Fits(name, content)'
<1>1. Whole(file["source"]) => file'["source"] = file["source"]
  BY Zenon DEF WholeStay, Made, Files, Releases!Files
<1>2. Whole(file["bottle"]) => file'["bottle"] = file["bottle"]
  BY Zenon DEF WholeStay, Made, Files, Releases!Files
<1>3. Whole(file["metadata"]) => file'["metadata"] = file["metadata"]
  BY Zenon DEF WholeStay, Made, Files, Releases!Files
<1>4. Whole(content)' = Whole(content)
  BY DEF Whole
<1>5. ABottle(content) => ABottle(content)'
  BY <1>1, <1>4 DEF ABottle, Whole
<1>6. ABottle(content[2]) => ABottle(content[2])'
  BY <1>1 DEF ABottle, Whole
<1> QED BY <1>1, <1>2, <1>3, <1>4, <1>5, <1>6, Zenon DEF Fits, Whole

LEMMA TuplesAreWhole ==
  ASSUME NEW a, NEW b
  PROVE  /\ Whole(<<a, b>>)
         /\ \A c : Whole(<<a, b, c>>)
         /\ \A c, d : Whole(<<a, b, c, d>>)
<1>1. Len(<<>>) = 0 /\ Len(<<"partial">>) = 1 /\ Len(<<a, b>>) = 2
  OBVIOUS
<1>2. \A c : Len(<<a, b, c>>) = 3
  OBVIOUS
<1>3. \A c, d : Len(<<a, b, c, d>>) = 4
  OBVIOUS
<1> QED BY <1>1, <1>2, <1>3 DEF Whole, Releases!Absent, Releases!Partial

\* A step that touches no file.
LEMMA FilesKept ==
  ASSUME ReleaseInv, UNCHANGED <<file, first, promoted>>, ReleaseTypes', PendingFit'
  PROVE  ReleaseInv'
<1>1. WholeStay
  BY DEF WholeStay
<1>2. KeptAsWritten' /\ BrewedWhole' /\ PromotedStays'
  BY Zenon DEF ReleaseInv, KeptAsWritten, BrewedWhole, PromotedStays, Whole
<1>3. ContentsFit'
  <2>1. ASSUME NEW name \in Files, Whole(file[name])' PROVE Fits(name, file[name])'
    <3>1. Fits(name, file[name])
      BY <2>1 DEF ReleaseInv, ContentsFit, Whole
    <3>2. Fits(name, file[name])' = Fits(name, file[name])
      BY DEF Fits, ABottle, Whole
    <3> QED BY <3>1, <3>2
  <2> QED BY <2>1 DEF ContentsFit
<1> QED BY <1>2, <1>3 DEF ReleaseInv

\* A command that has found what it needs.
LEMMA StartsOne ==
  ASSUME ReleaseInv, NEW name \in Made, NEW content, Fits(name, content),
         Releases!Run(<<<<name, content>>>>)
  PROVE  ReleaseInv'
<1>1. command' = [writes |-> <<<<name, content>>>>, open |-> FALSE] /\ UNCHANGED <<file, first, promoted>>
  BY DEF Releases!Run, command, file, first, promoted
<1>2. writes' = <<<<name, content>>>> /\ command'.open = FALSE
  BY <1>1 DEF writes
<1>3. ReleaseTypes'
  BY <1>1, <1>2 DEF ReleaseInv, ReleaseTypes
<1>4. Fits(name, content)'
  BY <1>1, FitsStays DEF WholeStay
<1>5. PendingFit'
  BY <1>1, <1>2, <1>4 DEF PendingFit
<1> QED BY <1>1, <1>3, <1>5, FilesKept

LEMMA StartsTwo ==
  ASSUME ReleaseInv, NEW name \in Made, NEW content, Fits(name, content),
         NEW next \in Made, NEW after, Fits(next, after),
         Releases!Run(<<<<name, content>>, <<next, after>>>>)
  PROVE  ReleaseInv'
<1>1. /\ command' = [writes |-> <<<<name, content>>, <<next, after>>>>, open |-> FALSE]
      /\ UNCHANGED <<file, first, promoted>>
  BY DEF Releases!Run, command, file, first, promoted
<1>2. writes' = <<<<name, content>>, <<next, after>>>> /\ command'.open = FALSE
  BY <1>1 DEF writes
<1>3. ReleaseTypes'
  BY <1>1, <1>2 DEF ReleaseInv, ReleaseTypes
<1>4. Fits(name, content)' /\ Fits(next, after)'
  BY <1>1, FitsStays DEF WholeStay
<1>5. PendingFit'
  BY <1>1, <1>2, <1>4 DEF PendingFit
<1> QED BY <1>1, <1>3, <1>5, FilesKept

\* The bottle that the metadata names, when it can be read.
LEMMA NamedBottle ==
  ASSUME ReleaseInv, NEW name \in {"metadata", "brewed metadata"}, Releases!ReadBottleMetadata(name)
  PROVE  ABottle(Releases!BottleOf(name)) /\ Whole(file[name])
<1>1. Whole(file[name]) /\ name \in Files
  BY Zenon DEF Releases!ReadBottleMetadata, Whole, file, Files, Releases!Files
<1> QED BY <1>1, Zenon DEF ReleaseInv, ContentsFit, Fits, Releases!BottleOf, file

LEMMA CommandsKeep ==
  ASSUME ReleaseInv,
         \/ Releases!PrepareSource \/ Releases!MakeFormula \/ Releases!MakeBottledFormula
         \/ Releases!PrepareBottles \/ Releases!MakeManifest
  PROVE  ReleaseInv'
<1> USE DEF Made, Files, Releases!Files
<1>1. CASE Releases!PrepareSource
  <2> DEFINE content == Releases!SourceTar(x2.commit)
  <2>1. Fits("source", content)
    BY TuplesAreWhole DEF Fits, Releases!SourceTar
  <2> QED BY <1>1, <2>1, StartsOne, Zenon DEF Releases!PrepareSource
<1>2. CASE Releases!MakeFormula
  <2> DEFINE content == Releases!Formula(file["source"], Releases!Absent)
  <2>1. file["source"] # Releases!Absent
    BY <1>2 DEF Releases!MakeFormula, Releases!Exists, file
  <2>2. Whole(content) /\ content[2] = file["source"]
    BY TuplesAreWhole DEF Releases!Formula
  <2>3. Fits("formula", content)
    BY <2>1, <2>2 DEF Fits
  <2>4. Releases!Run(<<<<"formula", content>>>>)
    BY <1>2 DEF Releases!MakeFormula, Releases!Hash, file
  <2> QED BY <2>3, <2>4, StartsOne, Zenon
<1>3. CASE Releases!MakeBottledFormula
  <2> DEFINE content == Releases!Formula(file["source"], Releases!BottleOf("metadata"))
  <2>1. Fits("bottled formula", content)
    BY TuplesAreWhole DEF Fits, Releases!Formula
  <2>2. Releases!Run(<<<<"bottled formula", content>>>>)
    BY <1>3, Zenon DEF Releases!MakeBottledFormula, Releases!Hash, file
  <2> QED BY <2>1, <2>2, StartsOne, Zenon
<1>4. CASE Releases!PrepareBottles
  <2>1. /\ Releases!ReadBottleMetadata("brewed metadata")
        /\ file["brewed bottle"] = Releases!BottleOf("brewed metadata")
        /\ Releases!Run(<<<<"bottle", file["brewed bottle"]>>, <<"metadata", file["brewed metadata"]>>>>)
    BY <1>4, Zenon DEF Releases!PrepareBottles, Releases!Hash, file
  <2>2. ABottle(Releases!BottleOf("brewed metadata")) /\ Whole(file["brewed metadata"])
    BY <2>1, NamedBottle, Zenon
  <2>3. Fits("bottle", file["brewed bottle"])
    BY <2>1, <2>2, Zenon DEF Fits, ABottle
  <2>4. Fits("metadata", file["brewed metadata"])
    BY <2>2, Zenon DEF Fits, Releases!BottleOf, file
  <2> QED BY <2>1, <2>3, <2>4, StartsTwo, Zenon
<1>5. CASE Releases!MakeManifest
  <2> DEFINE content == Releases!Manifest(file["source"], file["bottle"], x2.notes)
  <2>1. /\ Releases!ReadBottleMetadata("metadata") /\ file["bottle"] = Releases!BottleOf("metadata")
        /\ Releases!Run(<<<<"manifest", content>>, <<"signature", <<"signature", content>>>>>>)
    BY <1>5 DEF Releases!MakeManifest, Releases!Hash, file
  <2>2. ABottle(file["bottle"]) /\ Whole(file["metadata"]) /\ file["metadata"][2] = file["bottle"]
    BY <2>1, NamedBottle, Zenon DEF Releases!BottleOf, file
  <2>3. Whole(content) /\ content[2] = file["source"] /\ content[3] = file["bottle"]
    BY TuplesAreWhole DEF Releases!Manifest
  <2>4. Fits("manifest", content)
    BY <2>2, <2>3 DEF Fits, ABottle
  <2>5. Fits("signature", <<"signature", content>>)
    BY TuplesAreWhole DEF Fits
  <2> QED BY <2>1, <2>4, <2>5, StartsTwo, Zenon
<1> QED BY <1>1, <1>2, <1>3, <1>4, <1>5

\* writes is short: what is at its head and what is left of it.
LEMMA HeadAndTail ==
  ASSUME ReleaseTypes, writes # <<>>
  PROVE  /\ Releases!Current = writes[1] /\ 1 \in DOMAIN writes
         /\ \/ Tail(writes) = <<>>
            \/ Tail(writes) = <<writes[2]>> /\ 2 \in DOMAIN writes
<1>1. CASE writes = <<writes[1]>>
  <2> DEFINE w == writes[1]
  <2>1. Head(<<w>>) = w /\ Tail(<<w>>) = <<>> /\ DOMAIN <<w>> = {1}
    OBVIOUS
  <2> QED BY <1>1, <2>1 DEF Releases!Current, writes, command
<1>2. CASE writes = <<writes[1], writes[2]>>
  <2> DEFINE v == writes[1]
             w == writes[2]
  <2>1. Head(<<v, w>>) = v /\ Tail(<<v, w>>) = <<w>> /\ DOMAIN <<v, w>> = {1, 2}
    OBVIOUS
  <2> QED BY <1>2, <2>1 DEF Releases!Current, writes, command
<1> QED BY <1>1, <1>2 DEF ReleaseTypes

\* A command that goes on with its next file, or gives up.
LEMMA GoesOn ==
  ASSUME ReleaseInv, WholeStay, writes # <<>>, NEW left \in {Tail(writes), <<>>},
         Releases!Left(left, FALSE)
  PROVE  /\ command' = [writes |-> writes', open |-> command'.open] /\ command'.open = FALSE
         /\ writes' = <<>> \/ writes' = <<writes'[1]>>
         /\ PendingFit'
<1>1. command' = [writes |-> left, open |-> FALSE]
  BY DEF Releases!Left, command
<1>2. writes' = left /\ command'.open = FALSE
  BY <1>1 DEF writes
<1>3. CASE left = <<>>
  BY <1>1, <1>2, <1>3 DEF PendingFit, writes
<1>4. CASE left = <<writes[2]>> /\ 2 \in DOMAIN writes
  <2>1. writes'[1] = writes[2] /\ DOMAIN writes' = {1} /\ writes' = <<writes'[1]>>
    BY <1>2, <1>4
  <2>2. writes[2][1] \in Made /\ Fits(writes[2][1], writes[2][2])
    BY <1>4 DEF ReleaseInv, PendingFit
  <2>3. PICK name, content : writes[2][1] = name /\ writes[2][2] = content
    OBVIOUS
  <2>4. Fits(name, content)'
    BY <2>2, <2>3, FitsStays
  <2>5. writes'[1][1] = name /\ writes'[1][2] = content /\ name \in Made
    BY <2>1, <2>2, <2>3
  <2> QED BY <1>1, <1>2, <2>1, <2>4, <2>5 DEF PendingFit
<1> QED BY <1>3, <1>4, HeadAndTail DEF ReleaseInv

\* The file that a command has come to, and what it is to hold.
LEMMA NextFile ==
  ASSUME ReleaseInv, writes # <<>>
  PROVE  \E name, content :
           /\ name \in Made /\ Releases!Current[1] = name /\ Releases!Current[2] = content
           /\ Fits(name, content)
           /\ command.open => file[name] = Releases!Partial /\ first[name] = Releases!Absent
<1>1. Releases!Current = writes[1] /\ 1 \in DOMAIN writes
  BY HeadAndTail DEF ReleaseInv
<1>2. PICK name, content : writes[1][1] = name /\ writes[1][2] = content
  OBVIOUS
<1>3. name \in Made /\ Fits(name, content)
  BY <1>1, <1>2 DEF ReleaseInv, PendingFit
<1>4. command.open => file[name] = Releases!Partial
  BY <1>2 DEF ReleaseInv, PendingFit
<1>5. command.open => first[name] = Releases!Absent
  BY <1>3, <1>4 DEF ReleaseInv, KeptAsWritten, Whole
<1> QED BY <1>1, <1>2, <1>3, <1>4, <1>5

\* A part of a file comes or goes.
LEMMA PartKeeps ==
  ASSUME ReleaseInv, NEW name \in Files, ~Whole(file[name]),
         NEW part0 \in {Releases!Absent, Releases!Partial},
         name \in {"brewed bottle", "brewed metadata"} => part0 = Releases!Absent,
         file' = [file EXCEPT ![name] = part0], UNCHANGED <<first, promoted>>
  PROVE  /\ WholeStay /\ file' = [n \in Files |-> file'[n]] /\ first' = [n \in Files |-> first'[n]]
         /\ KeptAsWritten' /\ ContentsFit' /\ BrewedWhole' /\ PromotedStays'
<1>1. file = [n \in Files |-> file[n]] /\ first = [n \in Files |-> first[n]]
  BY Zenon DEF ReleaseInv, ReleaseTypes
<1>2. file'[name] = part0 /\ \A n \in Files : n # name => file'[n] = file[n]
  BY <1>1, Zenon
<1>3. WholeStay
  BY <1>2, Zenon DEF WholeStay, Made
<1>4. KeptAsWritten'
  BY <1>2, Zenon DEF ReleaseInv, KeptAsWritten, Made, Whole
<1>5. ContentsFit'
  <2>1. ASSUME NEW n \in Files, Whole(file[n])' PROVE Fits(n, file[n])'
    <3>1. n # name /\ file'[n] = file[n]
      BY <1>2, <2>1, Zenon DEF Whole
    <3>2. PICK c : c = file[n]
      BY Zenon
    <3>3. Fits(n, c)
      BY <2>1, <3>1, <3>2, Zenon DEF ReleaseInv, ContentsFit, Whole
    <3>4. Fits(n, c)'
      BY <1>3, <3>3, FitsStays, Zenon
    <3> QED BY <3>1, <3>2, <3>4, Zenon
  <2> QED BY <2>1, Zenon DEF ContentsFit
<1>6. BrewedWhole'
  BY <1>2, AbsentIsNotPart, Zenon DEF ReleaseInv, BrewedWhole, Files, Releases!Files
<1>7. PromotedStays'
  <2>1. \A n \in Promoted : Whole(file[n]) => n # name /\ file'[n] = file[n]
    BY <1>2, Zenon DEF Promoted, Files, Releases!Files
  <2> QED BY <2>1, Zenon DEF ReleaseInv, PromotedStays, Promoted, Whole
<1> QED BY <1>1, <1>3, <1>4, <1>5, <1>6, <1>7, Zenon

LEMMA CreateKeeps == ASSUME ReleaseInv, Releases!Create PROVE ReleaseInv'
<1>1. /\ writes # <<>> /\ ~command.open /\ ~Releases!Exists(Releases!Current[1])
      /\ file' = [file EXCEPT ![Releases!Current[1]] = Releases!Partial]
      /\ command' = [writes |-> writes, open |-> TRUE] /\ UNCHANGED <<first, promoted>>
  BY DEF Releases!Create, Releases!Idle, Releases!Left, file, command, first, promoted, writes
<1>2. PICK name, content : name \in Made /\ Releases!Current[1] = name
  BY <1>1, NextFile
<1>3. /\ name \in Files /\ ~Whole(file[name]) /\ name \notin {"brewed bottle", "brewed metadata"}
      /\ file' = [file EXCEPT ![name] = Releases!Partial]
  BY <1>1, <1>2, Zenon DEF Made, Releases!Exists, file, Whole
<1>4. /\ WholeStay /\ file' = [n \in Files |-> file'[n]] /\ first' = [n \in Files |-> first'[n]]
      /\ KeptAsWritten' /\ ContentsFit' /\ BrewedWhole' /\ PromotedStays'
  BY <1>1, <1>3, PartKeeps, Zenon
<1>5. writes' = writes /\ command'.open = TRUE
  BY <1>1 DEF writes
<1>6. ReleaseTypes'
  BY <1>1, <1>4, <1>5 DEF ReleaseInv, ReleaseTypes
<1>7. PendingFit'
  <2>1. ASSUME NEW i \in DOMAIN writes' PROVE (writes[i][1] \in Made /\ Fits(writes[i][1], writes[i][2]))'
    <3>1. PICK n, c : n = writes[i][1] /\ c = writes[i][2]
      OBVIOUS
    <3>2. n \in Made /\ Fits(n, c)
      BY <1>5, <2>1, <3>1 DEF ReleaseInv, PendingFit
    <3>3. Fits(n, c)'
      BY <1>4, <3>2, FitsStays
    <3>4. writes'[i][1] = n /\ writes'[i][2] = c
      BY <1>5, <3>1
    <3> QED BY <3>2, <3>3, <3>4
  <2>2. writes[1][1] = name
    BY <1>1, <1>2, HeadAndTail DEF ReleaseInv
  <2>3. file'[name] = Releases!Partial
    BY <1>3, Zenon DEF ReleaseInv, ReleaseTypes
  <2> QED BY <1>1, <1>5, <2>1, <2>2, <2>3 DEF PendingFit
<1> QED BY <1>4, <1>6, <1>7 DEF ReleaseInv

LEMMA EndsKeep == ASSUME ReleaseInv, Releases!Resume \/ Releases!Killed PROVE ReleaseInv'
<1>1. PICK left \in {Tail(writes), <<>>} :
        writes # <<>> /\ Releases!Left(left, FALSE) /\ UNCHANGED <<file, first, promoted>>
  BY DEF Releases!Resume, Releases!Killed, Releases!Idle, file, first, promoted, command, writes
<1>2. WholeStay
  BY <1>1 DEF WholeStay
<1>3. /\ command' = [writes |-> writes', open |-> command'.open] /\ command'.open = FALSE
      /\ writes' = <<>> \/ writes' = <<writes'[1]>>
      /\ PendingFit'
  BY <1>1, <1>2, GoesOn
<1>4. ReleaseTypes'
  BY <1>1, <1>3 DEF ReleaseInv, ReleaseTypes
<1> QED BY <1>1, <1>3, <1>4, FilesKept

LEMMA WriteFailsKeeps == ASSUME ReleaseInv, Releases!WriteFails PROVE ReleaseInv'
<1>1. /\ command.open /\ file' = [file EXCEPT ![Releases!Current[1]] = Releases!Absent]
      /\ Releases!Left(<<>>, FALSE) /\ UNCHANGED <<first, promoted>>
  BY DEF Releases!WriteFails, file, first, promoted, command
<1>2. writes # <<>>
  BY <1>1 DEF ReleaseInv, PendingFit
<1>3. PICK name, content :
        name \in Made /\ Releases!Current[1] = name /\ file[name] = Releases!Partial
  BY <1>1, <1>2, NextFile
<1>4. name \in Files /\ ~Whole(file[name]) /\ file' = [file EXCEPT ![name] = Releases!Absent]
  BY <1>1, <1>3, Zenon DEF Made, Whole
<1>5. /\ WholeStay /\ file' = [n \in Files |-> file'[n]] /\ first' = [n \in Files |-> first'[n]]
      /\ KeptAsWritten' /\ ContentsFit' /\ BrewedWhole' /\ PromotedStays'
  BY <1>1, <1>4, PartKeeps, Zenon
<1>6. /\ command' = [writes |-> writes', open |-> command'.open] /\ command'.open = FALSE
      /\ writes' = <<>> \/ writes' = <<writes'[1]>>
      /\ PendingFit'
  BY <1>1, <1>2, <1>5, GoesOn
<1>7. ReleaseTypes'
  BY <1>5, <1>6 DEF ReleaseTypes
<1> QED BY <1>5, <1>6, <1>7 DEF ReleaseInv

LEMMA RemovePartialKeeps ==
  ASSUME ReleaseInv, NEW name \in Files, Releases!RemovePartial(name)
  PROVE  ReleaseInv'
<1>1. /\ writes = <<>> /\ file[name] = Releases!Partial
      /\ file' = [file EXCEPT ![name] = Releases!Absent] /\ UNCHANGED <<command, first, promoted>>
  BY DEF Releases!RemovePartial, Releases!Idle, file, command, first, promoted, writes
<1>2. /\ file' = [n \in Files |-> file'[n]] /\ first' = [n \in Files |-> first'[n]]
      /\ KeptAsWritten' /\ ContentsFit' /\ BrewedWhole' /\ PromotedStays'
  BY <1>1, PartKeeps, Zenon DEF Whole
<1>3. writes' = <<>> /\ DOMAIN writes' = {} /\ ~command.open
  BY <1>1 DEF ReleaseInv, PendingFit, writes
<1>4. ReleaseTypes' /\ PendingFit'
  BY <1>1, <1>2, <1>3 DEF ReleaseInv, ReleaseTypes, PendingFit
<1> QED BY <1>2, <1>4 DEF ReleaseInv

LEMMA WriteKeeps == ASSUME ReleaseInv, Releases!Write PROVE ReleaseInv'
<1>1. /\ command.open /\ file' = [file EXCEPT ![Releases!Current[1]] = Releases!Current[2]]
      /\ first' = [first EXCEPT ![Releases!Current[1]] =
                     IF @ = Releases!Absent THEN Releases!Current[2] ELSE @]
      /\ Releases!Left(Tail(writes), FALSE) /\ UNCHANGED promoted
  BY DEF Releases!Write, file, first, promoted, command, writes
<1>2. writes # <<>>
  BY <1>1 DEF ReleaseInv, PendingFit
<1>3. PICK name, content :
        /\ name \in Made /\ Releases!Current[1] = name /\ Releases!Current[2] = content /\ Fits(name, content)
        /\ file[name] = Releases!Partial /\ first[name] = Releases!Absent
  BY <1>1, <1>2, NextFile
<1>4. /\ file = [n \in Files |-> file[n]] /\ first = [n \in Files |-> first[n]]
      /\ file' = [file EXCEPT ![name] = content] /\ first' = [first EXCEPT ![name] = content]
  BY <1>1, <1>3 DEF ReleaseInv, ReleaseTypes
<1>5. /\ file' = [n \in Files |-> file'[n]] /\ first' = [n \in Files |-> first'[n]]
      /\ file'[name] = content /\ \A n \in Files : n # name => file'[n] = file[n]
      /\ first'[name] = content /\ \A n \in Files : n # name => first'[n] = first[n]
  BY <1>3, <1>4, Zenon DEF Made
<1>6. ~Whole(file[name]) /\ Whole(content)
  BY <1>3, Zenon DEF Whole, Fits
<1>7. WholeStay
  BY <1>5, <1>6, Zenon DEF WholeStay, Made
<1>8. /\ command' = [writes |-> writes', open |-> command'.open] /\ command'.open = FALSE
      /\ writes' = <<>> \/ writes' = <<writes'[1]>>
      /\ PendingFit'
  BY <1>1, <1>2, <1>7, GoesOn
<1>9. ReleaseTypes'
  BY <1>5, <1>8 DEF ReleaseTypes
<1>10. KeptAsWritten'
  BY <1>5, <1>6, Zenon DEF ReleaseInv, KeptAsWritten, Made, Whole
<1>11. ContentsFit'
  <2>1. ASSUME NEW n \in Files, Whole(file[n])' PROVE Fits(n, file[n])'
    <3>1. PICK c : c = file'[n] /\ Fits(n, c)
      <4>1. CASE n = name
        BY <1>3, <1>5, <4>1
      <4>2. CASE n # name
        BY <1>5, <2>1, <4>2 DEF ReleaseInv, ContentsFit, Whole
      <4> QED BY <4>1, <4>2
    <3>2. Fits(n, c)'
      BY <1>7, <3>1, FitsStays
    <3> QED BY <3>1, <3>2
  <2> QED BY <2>1 DEF ContentsFit
<1>12. BrewedWhole'
  BY <1>3, <1>5, Zenon DEF ReleaseInv, BrewedWhole, Made, Files, Releases!Files
<1>13. PromotedStays'
  <2>1. \A n \in Promoted : Whole(file[n]) => file'[n] = file[n]
    BY <1>5, <1>6, Zenon DEF Promoted, Files, Releases!Files
  <2> QED BY <1>1, <2>1, Zenon DEF ReleaseInv, PromotedStays, Promoted, Whole
<1> QED BY <1>8, <1>9, <1>10, <1>11, <1>12, <1>13 DEF ReleaseInv

\* The formula names a source that was there; what Homebrew builds is of it.
LEMMA BrewKeeps == ASSUME ReleaseInv, Releases!BrewBottle PROVE ReleaseInv'
<1> DEFINE bottle == <<"bottle", file["source"], x2.built>>
           metadata == <<"metadata", bottle>>
<1>1. /\ writes = <<>> /\ Whole(file["formula"]) /\ file["formula"][2] = file["source"]
      /\ file["source"] # Releases!Partial
      /\ file' = [file EXCEPT !["brewed bottle"] = bottle, !["brewed metadata"] = metadata]
      /\ UNCHANGED <<command, first, promoted>>
  BY Zenon DEF Releases!BrewBottle, Releases!Idle, file, command, first, promoted, writes, Whole
<1>2. Whole(file["source"])
  BY <1>1, Zenon DEF ReleaseInv, ContentsFit, Fits, Whole, Files, Releases!Files
<1>3. Whole(bottle) /\ Whole(metadata) /\ bottle[2] = file["source"] /\ metadata[2] = bottle
  BY TuplesAreWhole
<1>4. PICK b, m : b = bottle /\ m = metadata
  OBVIOUS
<1> HIDE DEF bottle, metadata
<1>5. /\ file = [n \in Files |-> file[n]] /\ first = [n \in Files |-> first[n]]
      /\ "brewed bottle" \in Files /\ "brewed metadata" \in Files
  BY Zenon DEF ReleaseInv, ReleaseTypes, Files, Releases!Files
<1>6. /\ file' = [n \in Files |-> file'[n]] /\ first' = [n \in Files |-> first'[n]]
      /\ file'["brewed bottle"] = b /\ file'["brewed metadata"] = m
      /\ \A n \in Made : file'[n] = file[n]
  BY <1>1, <1>4, <1>5, Zenon DEF Made
<1>7. WholeStay
  BY <1>6, Zenon DEF WholeStay
<1>8. Fits("brewed bottle", b) /\ Fits("brewed metadata", m)
  BY <1>2, <1>3, <1>4 DEF Fits, ABottle
<1>9. KeptAsWritten'
  BY <1>1, <1>6, Zenon DEF ReleaseInv, KeptAsWritten, Whole
<1>10. ContentsFit'
  <2>1. ASSUME NEW n \in Files, Whole(file[n])' PROVE Fits(n, file[n])'
    <3>1. PICK c : c = file'[n] /\ Fits(n, c)
      <4>1. CASE n \in Made
        BY <1>6, <2>1, <4>1, Zenon DEF ReleaseInv, ContentsFit, Whole
      <4>2. CASE n \in {"brewed bottle", "brewed metadata"}
        BY <1>6, <1>8, <4>2, Zenon
      <4> QED BY <4>1, <4>2, Zenon DEF Made
    <3>2. Fits(n, c)'
      BY <1>7, <3>1, FitsStays
    <3> QED BY <3>1, <3>2
  <2> QED BY <2>1 DEF ContentsFit
<1>11. BrewedWhole'
  BY <1>3, <1>4, <1>6, Zenon DEF BrewedWhole, Whole
<1>12. PromotedStays'
  <2>1. \A n \in Promoted : file'[n] = file[n]
    BY <1>6, Zenon DEF Promoted, Made, Files, Releases!Files
  <2> QED BY <1>1, <2>1, Zenon DEF ReleaseInv, PromotedStays, Promoted, Whole
<1>13. writes' = <<>> /\ DOMAIN writes' = {} /\ ~command.open
  <2>1. writes = <<>> /\ command' = command
    BY <1>1, Zenon
  <2> QED BY <2>1 DEF ReleaseInv, PendingFit, writes
<1>14. ReleaseTypes' /\ PendingFit'
  BY <1>1, <1>6, <1>13, Zenon DEF ReleaseInv, ReleaseTypes, PendingFit
<1> QED BY <1>9, <1>10, <1>11, <1>12, <1>14 DEF ReleaseInv

\* What VerifyManifest and the comparison of the formula find at the promotion.
LEMMA PromoteKeeps == ASSUME ReleaseInv, Releases!Promote PROVE ReleaseInv'
<1> USE DEF Files, Releases!Files
<1>1. /\ Whole(file["manifest"]) /\ file["signature"] = <<"signature", file["manifest"]>>
      /\ file["bottled formula"] = Releases!Formula(file["source"], Releases!BottleOf("metadata"))
      /\ UNCHANGED <<file, command, first>>
  BY Zenon DEF Releases!Promote, Releases!VerifyManifest, Releases!Hash, file, command, first, Whole
<1>2. Fits("manifest", file["manifest"])
  BY <1>1, Zenon DEF ReleaseInv, ContentsFit
<1>3. /\ Whole(file["source"]) /\ Whole(file["bottle"]) /\ Whole(file["metadata"])
      /\ Releases!BottleOf("metadata") = file["bottle"]
  BY <1>2 DEF Fits, Releases!BottleOf, file
<1>4. Whole(file["signature"])
  BY <1>1, TuplesAreWhole, Zenon
<1>5. Whole(file["bottled formula"])
  BY <1>1, TuplesAreWhole, Zenon DEF Releases!Formula
<1>6. file["bottled formula"] = Releases!Formula(file["source"], file["bottle"])
  BY <1>1, <1>3, Zenon
<1>7. \A name \in Promoted : Whole(file[name])
  BY <1>1, <1>3, <1>4, <1>5, Zenon DEF Promoted
<1>8. PromotedStays'
  BY <1>1, <1>6, <1>7, Zenon DEF PromotedStays, Promoted, Whole
<1>9. WholeStay
  BY <1>1, Zenon DEF WholeStay
<1>10. ReleaseTypes' /\ KeptAsWritten' /\ BrewedWhole'
  BY <1>1, Zenon DEF ReleaseInv, ReleaseTypes, KeptAsWritten, BrewedWhole, Whole, writes
<1>11. ContentsFit'
  BY <1>1, Zenon DEF ReleaseInv, ContentsFit, Fits, ABottle, Whole
<1>12. PendingFit'
  BY <1>1, Zenon DEF ReleaseInv, PendingFit, Fits, ABottle, Whole, writes
<1> QED BY <1>8, <1>10, <1>11, <1>12 DEF ReleaseInv

LEMMA ReleaseContinues == ReleaseInv /\ [Releases!Next]_(Releases!vars) => ReleaseInv'
<1>1. SUFFICES ASSUME ReleaseInv, [Releases!Next]_(Releases!vars) PROVE ReleaseInv'
  OBVIOUS
<1>2. CASE UNCHANGED <<file, command, promoted, first>>
  BY <1>1, <1>2, Zenon
  DEF ReleaseInv, ReleaseTypes, KeptAsWritten, ContentsFit, PendingFit, BrewedWhole, PromotedStays,
      Fits, ABottle, Whole, writes
<1>3. CASE Releases!Commit \/ Releases!EditNotes \/ UNCHANGED Releases!vars
  BY <1>2, <1>3
  DEF Releases!Commit, Releases!EditNotes, Releases!vars, file, command, promoted, first
<1>4. CASE \/ Releases!PrepareSource \/ Releases!MakeFormula \/ Releases!MakeBottledFormula
           \/ Releases!PrepareBottles \/ Releases!MakeManifest
  BY <1>1, <1>4, CommandsKeep
<1>5. CASE \E name \in Files : Releases!RemovePartial(name)
  BY <1>1, <1>5, RemovePartialKeeps
<1>6. CASE \/ Releases!Create \/ Releases!Resume \/ Releases!Write \/ Releases!WriteFails
           \/ Releases!Killed \/ Releases!BrewBottle \/ Releases!Promote
  BY <1>1, <1>6, CreateKeeps, EndsKeep, WriteKeeps, WriteFailsKeeps, BrewKeeps, PromoteKeeps
<1> QED BY <1>1, <1>3, <1>4, <1>5, <1>6 DEF Releases!Next, Files

LEMMA ReleasesFit == ReleaseInv => Releases!WrittenOnce /\ Releases!OnePiece
<1>1. SUFFICES ASSUME ReleaseInv PROVE Releases!WrittenOnce /\ Releases!OnePiece
  OBVIOUS
<1>2. Releases!WrittenOnce
  BY <1>1, Zenon DEF ReleaseInv, KeptAsWritten, Made, Files, Releases!WrittenOnce, file, first
<1>3. ASSUME promoted
      PROVE  /\ Whole(file["source"]) /\ Whole(file["bottle"]) /\ Whole(file["manifest"])
             /\ file["signature"] = <<"signature", file["manifest"]>>
             /\ file["bottled formula"] = Releases!Formula(file["source"], file["bottle"])
  BY <1>1, <1>3, Zenon DEF ReleaseInv, PromotedStays, Promoted
<1>4. ASSUME promoted
      PROVE  Fits("manifest", file["manifest"]) /\ Fits("bottle", file["bottle"])
  BY <1>1, <1>3, <1>4, Zenon DEF ReleaseInv, ContentsFit, Files, Releases!Files
<1>5. ASSUME promoted
      PROVE  /\ file["manifest"][2] = file["source"] /\ file["manifest"][3] = file["bottle"]
             /\ file["bottle"][2] = file["source"] /\ file["source"] # Releases!Partial
  BY <1>3, <1>4, <1>5, Zenon DEF Fits, ABottle, Whole
<1> QED BY <1>2, <1>3, <1>5, Zenon DEF Releases!OnePiece, file, promoted

-----------------------------------------------------------------------------
(* A call over HTTP                                                        *)

client == x1
dest == x2
call == x3
trip == x4
timer == x5
parent == x6
jar == x7
sent == x8

Origins == HTTP!Origins
Replies ==
  {"none", "ok", "redirect", "bad request", "refused", "dial", "broken", "timeout", "cancelled"}
Places == {"resolve", "accounts", "send", "flight", "returned", "reading", "failed", "done"}
Clients ==
  [base : Origins, bootstrap : Origins, borrowed : BOOLEAN, account : BOOLEAN, beta : BOOLEAN]
Calls == [at : Places, beta : BOOLEAN, attempts : Nat, dials : Nat]
Trips == [to : Origins, live : BOOLEAN, reply : Replies, written : BOOLEAN, hops : Nat]
Timers == [armed : BOOLEAN, due : Nat, finished : BOOLEAN, timedOut : BOOLEAN]
Leaving ==
  [kind : {"none", "accounts", "response"}, to : Origins, cookies : SUBSET HTTP!Infrastructure]

HTTPTypes ==
  /\ client \in Clients /\ dest \in [origin : Origins, routed : BOOLEAN] /\ call \in Calls
  /\ trip \in Trips /\ timer \in Timers /\ parent \in BOOLEAN
  /\ jar \in [HTTP!KeepsCookies -> SUBSET HTTP!Infrastructure] /\ sent \in Leaving

\* Until the round trip returns its context lives or its timer has ended it;
\* afterwards no callback does anything.
TimersKnow ==
  /\ call.at = "flight" => /\ ~timer.finished /\ (trip.live \/ timer.timedOut)
                           /\ trip.reply \notin {"timeout", "cancelled"}
  /\ call.at \in {"returned", "reading"} => timer.finished

\* A context is left exactly to whoever has a body to close.
ContextsEnd ==
  /\ call.at = "returned" => (trip.live <=> HTTP!HasBody)
  /\ call.at = "reading" => trip.live /\ trip.reply = "ok"
  /\ call.at \notin {"flight", "returned", "reading"} => ~trip.live

CookiesKept ==
  /\ sent.cookies # {} => sent.to \in HTTP!KeepsCookies
  /\ client.borrowed => sent.to = HTTP!Official
  /\ call.at \in {"resolve", "accounts"} => sent.kind # "response"
  /\ sent.kind = "response" /\ dest.routed => sent.to = dest.origin

HTTPInv == HTTPTypes /\ TimersKnow /\ ContextsEnd /\ CookiesKept

\* The parts of the records.
LEMMA HTTPParts ==
  ASSUME HTTPTypes
  PROVE  /\ client.base \in Origins /\ client.borrowed \in BOOLEAN
         /\ dest.origin \in Origins /\ dest.routed \in BOOLEAN
         /\ call.at \in Places /\ call.attempts \in Nat /\ call.dials \in Nat /\ call.beta \in BOOLEAN
         /\ trip.to \in Origins /\ trip.live \in BOOLEAN /\ trip.reply \in Replies
         /\ trip.written \in BOOLEAN /\ trip.hops \in Nat
         /\ timer.armed \in BOOLEAN /\ timer.due \in Nat
         /\ timer.finished \in BOOLEAN /\ timer.timedOut \in BOOLEAN
BY DEF HTTPTypes, Clients, Calls, Trips, Timers

LEMMA HTTPBegins == HTTP!Init => HTTPInv
<1>1. SUFFICES ASSUME HTTP!Init PROVE HTTPInv
  OBVIOUS
<1>2. /\ call.at = "resolve" /\ trip = HTTP!NoTrip /\ timer = HTTP!NoTimer /\ sent = HTTP!NoRequest
      /\ dest = HTTP!Nowhere /\ parent = TRUE
  BY <1>1 DEF HTTP!Init, call, trip, timer, sent, dest, parent
<1>3. /\ trip \in Trips /\ trip.live = FALSE /\ timer \in Timers
  BY <1>2 DEF HTTP!NoTrip, HTTP!NoTimer, Trips, Timers, Replies, Origins, HTTP!Origins
<1>4. sent \in Leaving /\ sent.kind = "none" /\ sent.cookies = {} /\ sent.to = HTTP!Official
  BY <1>2 DEF HTTP!NoRequest, Leaving, Origins, HTTP!Origins
<1>5. dest \in [origin : Origins, routed : BOOLEAN] /\ client \in Clients
  BY <1>1, <1>2 DEF HTTP!Init, HTTP!Nowhere, Clients, Origins, HTTP!Origins, client
<1>6. call \in Calls
  BY <1>1, <1>5 DEF HTTP!Init, Calls, Clients, Places, call, client
<1>7. jar \in [HTTP!KeepsCookies -> SUBSET HTTP!Infrastructure]
  BY <1>1 DEF HTTP!Init, jar
<1>8. HTTPTypes
  BY <1>2, <1>3, <1>4, <1>5, <1>6, <1>7 DEF HTTPTypes
<1> QED BY <1>2, <1>3, <1>4, <1>8 DEF HTTPInv, TimersKnow, ContextsEnd, CookiesKept

LEMMA CallsGo ==
  ASSUME HTTPTypes, NEW to \in Places, HTTP!Goes(to)
  PROVE  call' \in Calls /\ call'.at = to
BY DEF HTTPTypes, HTTP!Goes, Calls, call

LEMMA JarsKeep ==
  ASSUME HTTPTypes, NEW to, HTTP!StoreResponseCookies(to)
  PROVE  jar' \in [HTTP!KeepsCookies -> SUBSET HTTP!Infrastructure]
BY DEF HTTPTypes, HTTP!StoreResponseCookies, jar

\* A request takes the cookies of where it goes.
LEMMA RequestsLeave ==
  ASSUME HTTPTypes, NEW to \in Origins, NEW kind \in {"accounts", "response"}, HTTP!Leaves(kind, to)
  PROVE  /\ sent' \in Leaving /\ sent'.kind = kind /\ sent'.to = to
         /\ sent'.cookies # {} => to \in HTTP!KeepsCookies
<1>1. HTTP!Cookies(to) \in SUBSET HTTP!Infrastructure /\ (HTTP!Cookies(to) # {} => to \in HTTP!KeepsCookies)
  BY DEF HTTPTypes, HTTP!Cookies, jar
<1> DEFINE cookies == HTTP!Cookies(to)
<1>2. sent' = [kind |-> kind, to |-> to, cookies |-> cookies]
  BY DEF HTTP!Leaves, sent
<1> HIDE DEF cookies
<1> QED BY <1>1, <1>2 DEF Leaving, cookies

\* The body of an answer, if there is one, is closed.
LEMMA BodiesClose ==
  ASSUME HTTPInv, HTTP!CloseBody, call.at \in {"send", "returned", "reading"}
  PROVE  trip' \in Trips /\ trip'.live = FALSE
<1>1. trip.live => HTTP!HasBody
  BY Zenon DEF HTTPInv, ContextsEnd, HTTP!HasBody, trip
<1>2. (trip.live /\ ~HTTP!HasBody) = FALSE
  BY <1>1, HTTPParts DEF HTTPInv
<1>3. trip' = [HTTP!NoTrip EXCEPT !.live = FALSE]
  BY <1>2 DEF HTTP!CloseBody, trip
<1> QED BY <1>3, Zenon DEF Trips, HTTP!NoTrip, Replies, Origins, HTTP!Origins

\* A round trip begins, or its place is not allowed.
LEMMA RoundTripKeeps ==
  ASSUME HTTPInv, NEW to \in Origins, NEW hops \in Nat, HTTP!RoundTrip(to, hops),
         call.at \in {"send", "returned"}, UNCHANGED <<client, dest, parent, jar>>,
         dest.routed => to = dest.origin
  PROVE  HTTPInv'
<1>1. CASE HTTP!CheckCredentialDestination(to)
  <2>1. /\ trip' = [HTTP!NoTrip EXCEPT !.to = to, !.live = TRUE, !.hops = hops]
        /\ timer' = HTTP!Reset(HTTP!NoTimer) /\ HTTP!Leaves("response", to) /\ HTTP!Goes("flight")
    BY <1>1 DEF HTTP!RoundTrip, trip, timer
  <2>2. /\ sent' \in Leaving /\ sent'.kind = "response" /\ sent'.to = to
        /\ sent'.cookies # {} => to \in HTTP!KeepsCookies
    BY <2>1, RequestsLeave DEF HTTPInv
  <2>3. trip' \in Trips /\ trip'.live = TRUE /\ trip'.reply = "none"
    BY <2>1, Zenon DEF Trips, HTTP!NoTrip, Replies
  <2>4. timer' \in Timers /\ timer'.finished = FALSE
    BY <2>1 DEF Timers, HTTP!NoTimer, HTTP!Reset
  <2>5. call' \in Calls /\ call'.at = "flight"
    BY <2>1, CallsGo DEF HTTPInv, Places
  <2>6. HTTPTypes'
    BY <2>2, <2>3, <2>4, <2>5 DEF HTTPInv, HTTPTypes
  <2>7. client.borrowed => to = HTTP!Official
    BY <1>1 DEF HTTP!CheckCredentialDestination, client
  <2> QED BY <2>2, <2>3, <2>4, <2>5, <2>6, <2>7 DEF HTTPInv, TimersKnow, ContextsEnd, CookiesKept
<1>2. CASE ~HTTP!CheckCredentialDestination(to)
  <2>1. HTTP!Goes("failed") /\ HTTP!CloseBody /\ UNCHANGED <<timer, sent>>
    BY <1>2 DEF HTTP!RoundTrip, timer, sent
  <2> QED BY <2>1, CallsGo, BodiesClose
          DEF HTTPInv, HTTPTypes, TimersKnow, ContextsEnd, CookiesKept, Places
<1> QED BY <1>1, <1>2

\* A step that ends the call, or goes on without a round trip.
LEMMA RestKeeps ==
  ASSUME HTTPInv, NEW to \in {"failed", "done"}, HTTP!Goes(to), trip' \in Trips, trip'.live = FALSE,
         timer' \in Timers, UNCHANGED <<client, dest, parent, sent>>,
         jar' \in [HTTP!KeepsCookies -> SUBSET HTTP!Infrastructure]
  PROVE  HTTPInv'
<1>1. call' \in Calls /\ call'.at = to
  BY CallsGo DEF HTTPInv, Places
<1>2. HTTPTypes'
  BY <1>1 DEF HTTPInv, HTTPTypes
<1> QED BY <1>1, <1>2 DEF HTTPInv, TimersKnow, ContextsEnd, CookiesKept

LEMMA ResolveKeeps == ASSUME HTTPInv, HTTP!Resolve PROVE HTTPInv'
<1>1. /\ call.at = "resolve" /\ UNCHANGED <<client, trip, timer, parent, jar>>
      /\ trip \in Trips /\ trip.live = FALSE /\ timer \in Timers
      /\ jar \in [HTTP!KeepsCookies -> SUBSET HTTP!Infrastructure]
  BY HTTPParts DEF HTTPInv, HTTPTypes, ContextsEnd, HTTP!Resolve, call, client, trip, timer, parent, jar
<1>2. CASE HTTP!Goes("failed") /\ UNCHANGED <<dest, sent>>
  BY <1>1, <1>2, RestKeeps
<1>3. CASE /\ HTTP!CheckCredentialDestination(client.base) /\ HTTP!Goes("accounts")
           /\ HTTP!Leaves("accounts", client.base) /\ dest' = dest
  <2>1. call' \in Calls /\ call'.at = "accounts"
    BY <1>3, CallsGo DEF HTTPInv, Places
  <2>2. client.base \in Origins
    BY HTTPParts DEF HTTPInv
  <2>3. PICK base \in Origins : base = client.base
    BY <2>2
  <2>4. /\ sent' \in Leaving /\ sent'.kind = "accounts" /\ sent'.to = base
        /\ sent'.cookies # {} => base \in HTTP!KeepsCookies
    BY <1>3, <2>3, RequestsLeave DEF HTTPInv
  <2>5. client.borrowed => base = HTTP!Official
    BY <1>3, <2>3 DEF HTTP!CheckCredentialDestination, client
  <2>6. HTTPTypes'
    BY <1>1, <1>3, <2>1, <2>4 DEF HTTPInv, HTTPTypes
  <2> QED BY <1>1, <1>3, <2>1, <2>4, <2>5, <2>6
          DEF HTTPInv, TimersKnow, ContextsEnd, CookiesKept
<1>4. CASE HTTP!Goes("send") /\ dest' = [dest EXCEPT !.origin = client.base] /\ sent' = sent
  <2>1. call' \in Calls /\ call'.at = "send"
    BY <1>4, CallsGo DEF HTTPInv, Places
  <2>2. client.base \in Origins
    BY HTTPParts DEF HTTPInv
  <2>3. dest' \in [origin : Origins, routed : BOOLEAN] /\ sent.kind # "response"
    BY <1>1, <1>4, <2>2 DEF HTTPInv, HTTPTypes, CookiesKept
  <2>4. HTTPTypes'
    BY <1>1, <1>4, <2>1, <2>3 DEF HTTPInv, HTTPTypes
  <2> QED BY <1>1, <1>4, <2>1, <2>3, <2>4 DEF HTTPInv, TimersKnow, ContextsEnd, CookiesKept
<1> QED BY <1>2, <1>3, <1>4 DEF HTTP!Resolve, client, dest, sent

LEMMA AccountsKeep ==
  ASSUME HTTPInv,
         \/ HTTP!AccountsFails
         \/ \E backend \in {"NO_CONSTRAINT", HTTP!Workspace, HTTP!Plain},
               routing \in {"known", "unknown"} : HTTP!AccountsAnswer(backend, routing)
  PROVE  HTTPInv'
<1>1. CASE HTTP!AccountsFails
  <2>1. /\ call.at = "accounts" /\ HTTP!Goes("failed")
        /\ UNCHANGED <<client, dest, trip, timer, parent, jar, sent>>
    BY <1>1 DEF HTTP!AccountsFails, call, client, dest, trip, timer, parent, jar, sent
  <2>2. /\ trip \in Trips /\ trip.live = FALSE /\ timer \in Timers
        /\ jar \in [HTTP!KeepsCookies -> SUBSET HTTP!Infrastructure]
    BY <2>1, HTTPParts DEF HTTPInv, HTTPTypes, ContextsEnd
  <2> QED BY <2>1, <2>2, RestKeeps
<1>2. ASSUME NEW backend \in {"NO_CONSTRAINT", HTTP!Workspace, HTTP!Plain},
             NEW routing \in {"known", "unknown"}, HTTP!AccountsAnswer(backend, routing)
      PROVE  HTTPInv'
  <2> DEFINE found == HTTP!ApplyWorkspaceRouting(backend)
  <2>1. /\ call.at = "accounts" /\ HTTP!StoreResponseCookies(client.base)
        /\ UNCHANGED <<client, trip, timer, parent, sent>>
    BY <1>2 DEF HTTP!AccountsAnswer, call, client, trip, timer, parent, sent
  <2>2. jar' \in [HTTP!KeepsCookies -> SUBSET HTTP!Infrastructure]
    BY <2>1, JarsKeep DEF HTTPInv
  <2>3. /\ trip \in Trips /\ trip.live = FALSE /\ timer \in Timers /\ sent.kind # "response"
    BY <2>1, HTTPParts DEF HTTPInv, HTTPTypes, ContextsEnd, CookiesKept
  <2>4. CASE dest' = dest /\ HTTP!Goes("failed")
    BY <2>1, <2>2, <2>3, <2>4, RestKeeps
  <2>5. CASE dest' = found /\ HTTP!Goes("send")
    <3>1. call' \in Calls /\ call'.at = "send"
      BY <2>5, CallsGo DEF HTTPInv, Places
    <3>2. found \in [origin : Origins, routed : BOOLEAN]
      BY HTTPParts DEF HTTPInv, HTTP!ApplyWorkspaceRouting, client, Origins, HTTP!Origins
    <3>3. HTTPTypes'
      BY <2>1, <2>2, <2>5, <3>1, <3>2 DEF HTTPInv, HTTPTypes
    <3> QED BY <2>1, <2>3, <3>1, <3>3 DEF HTTPInv, TimersKnow, ContextsEnd, CookiesKept
  <2> QED BY <1>2, <2>4, <2>5 DEF HTTP!AccountsAnswer, dest
<1> QED BY <1>1, <1>2

\* The timer and its callbacks, of which one that is late finds the round trip
\* finished.
LEMMA TimersKeep ==
  ASSUME HTTPInv, HTTP!Expire \/ HTTP!Callback \/ HTTP!WroteRequest
  PROVE  HTTPInv'
<1>1. UNCHANGED <<client, dest, call, parent, jar, sent>>
  BY DEF HTTP!Expire, HTTP!Callback, HTTP!WroteRequest, client, dest, call, parent, jar, sent
<1>2. timer \in Timers /\ trip \in Trips
  BY DEF HTTPInv, HTTPTypes
<1>3. CASE HTTP!Expire
  <2> DEFINE due == timer.due + 1
  <2>1. timer' = [timer EXCEPT !.armed = FALSE, !.due = due] /\ trip' = trip
    BY <1>3 DEF HTTP!Expire, timer, trip
  <2>2. due \in Nat
    BY HTTPParts DEF HTTPInv
  <2> HIDE DEF due
  <2>3. timer' \in Timers /\ timer'.finished = timer.finished /\ timer'.timedOut = timer.timedOut
    BY <1>2, <2>1, <2>2 DEF Timers
  <2>4. HTTPTypes'
    BY <1>1, <2>1, <2>3 DEF HTTPInv, HTTPTypes
  <2> QED BY <1>1, <2>1, <2>3, <2>4, Zenon
          DEF HTTPInv, TimersKnow, ContextsEnd, CookiesKept, HTTP!HasBody, trip
<1>4. CASE HTTP!Callback
  <2> DEFINE due == timer.due - 1
             late == timer.timedOut \/ ~timer.finished
             live == trip.live /\ timer.finished
  <2>1. timer' = [timer EXCEPT !.due = due, !.timedOut = late] /\ trip' = [trip EXCEPT !.live = live]
    BY <1>4 DEF HTTP!Callback, timer, trip
  <2>2. due \in Nat
    BY <1>4, HTTPParts DEF HTTPInv, HTTP!Callback, timer
  <2>3. /\ late \in BOOLEAN /\ live \in BOOLEAN /\ (timer.finished => late = timer.timedOut /\ live = trip.live)
        /\ ~timer.finished => late
        /\ live => trip.live
    BY HTTPParts DEF HTTPInv
  <2> HIDE DEF due, late, live
  <2>4. timer' \in Timers /\ timer'.finished = timer.finished /\ timer'.timedOut = late
    BY <1>2, <2>1, <2>2, <2>3 DEF Timers
  <2>5. trip' \in Trips /\ trip'.live = live /\ trip'.reply = trip.reply
    BY <1>2, <2>1, <2>3 DEF Trips
  <2>6. HTTPTypes'
    BY <1>1, <2>4, <2>5 DEF HTTPInv, HTTPTypes
  <2>7. TimersKnow' /\ CookiesKept'
    BY <1>1, <2>3, <2>4, <2>5 DEF HTTPInv, TimersKnow, CookiesKept
  <2>8. ContextsEnd'
    BY <1>1, <2>3, <2>5, Zenon DEF HTTPInv, TimersKnow, ContextsEnd, HTTP!HasBody, trip
  <2> QED BY <2>6, <2>7, <2>8 DEF HTTPInv
<1>5. CASE HTTP!WroteRequest
  <2>1. trip' = [trip EXCEPT !.written = TRUE] /\ timer' = HTTP!Reset(timer)
    BY <1>5 DEF HTTP!WroteRequest, timer, trip
  <2>2. timer' \in Timers /\ timer'.finished = timer.finished /\ timer'.timedOut = timer.timedOut
    BY <1>2, <2>1 DEF Timers, HTTP!Reset
  <2>3. trip' \in Trips /\ trip'.live = trip.live /\ trip'.reply = trip.reply
    BY <1>2, <2>1 DEF Trips
  <2>4. HTTPTypes'
    BY <1>1, <2>2, <2>3 DEF HTTPInv, HTTPTypes
  <2> QED BY <1>1, <2>2, <2>3, <2>4, Zenon
          DEF HTTPInv, TimersKnow, ContextsEnd, CookiesKept, HTTP!HasBody, trip
<1> QED BY <1>3, <1>4, <1>5

LEMMA AnswersKeep ==
  ASSUME HTTPInv, NEW reply \in {"ok", "redirect", "bad request", "refused", "dial", "broken"},
         HTTP!Answers(reply)
  PROVE  HTTPInv'
<1>1. /\ call.at = "flight" /\ trip' = [trip EXCEPT !.reply = reply]
      /\ jar' = jar \/ HTTP!StoreResponseCookies(trip.to)
      /\ UNCHANGED <<client, dest, call, timer, parent, sent>>
  BY Zenon DEF HTTP!Answers, call, trip, jar, client, dest, timer, parent, sent
<1>2. trip' \in Trips /\ trip'.live = trip.live /\ trip'.reply = reply
  BY <1>1, Zenon DEF HTTPInv, HTTPTypes, Trips, Replies
<1>3. jar' \in [HTTP!KeepsCookies -> SUBSET HTTP!Infrastructure]
  BY <1>1, JarsKeep, Zenon DEF HTTPInv, HTTPTypes
<1>4. HTTPTypes'
  BY <1>1, <1>2, <1>3, Zenon DEF HTTPInv, HTTPTypes
<1> QED BY <1>1, <1>2, <1>4, Zenon DEF HTTPInv, TimersKnow, ContextsEnd, CookiesKept

\* The round trip returns: a context that is not left with a body is over.
LEMMA ReturnKeeps == ASSUME HTTPInv, HTTP!RoundTripReturns PROVE HTTPInv'
<1> DEFINE live == trip.live /\ HTTP!Keeps(timer)
           reply == HTTP!Outcome(timer)
<1>1. /\ call.at = "flight" /\ trip.reply # "none" /\ timer' = HTTP!FinishWait(timer)
      /\ trip' = [trip EXCEPT !.reply = reply, !.live = live]
      /\ HTTP!Goes("returned") /\ UNCHANGED <<client, dest, parent, jar, sent>>
  BY DEF HTTP!RoundTripReturns, call, trip, timer, client, dest, parent, jar, sent
<1>2. call' \in Calls /\ call'.at = "returned"
  BY <1>1, CallsGo DEF HTTPInv, Places
<1>3. timer' \in Timers /\ timer'.finished = TRUE
  BY <1>1 DEF HTTPInv, HTTPTypes, Timers, HTTP!FinishWait
<1>4. /\ live \in BOOLEAN /\ reply \in Replies
      /\ live <=> reply \in {"ok", "redirect", "bad request", "refused"}
  <2>1. timer.timedOut \/ trip.live
    BY <1>1 DEF HTTPInv, TimersKnow
  <2>2. trip.reply \in {"ok", "redirect", "bad request", "refused", "dial", "broken"}
    BY <1>1, HTTPParts, Zenon DEF HTTPInv, TimersKnow, Replies
  <2>3. CASE timer.timedOut
    BY <2>3 DEF HTTP!Keeps, HTTP!Outcome, Replies
  <2>4. CASE ~timer.timedOut
    <3>1. reply = trip.reply /\ trip.live = TRUE
      BY <2>1, <2>4, HTTPParts DEF HTTP!Outcome, HTTPInv, trip
    <3>2. HTTP!Keeps(timer) <=> trip.reply \notin {"dial", "broken"}
      BY <2>4 DEF HTTP!Keeps, trip
    <3> QED BY <2>2, <3>1, <3>2, Zenon DEF Replies
  <2> QED BY <2>3, <2>4, Zenon
<1> HIDE DEF live, reply
<1>5. trip' \in Trips /\ trip'.live = live /\ trip'.reply = reply
  BY <1>1, <1>4, Zenon DEF HTTPInv, HTTPTypes, Trips
<1>6. HTTPTypes'
  BY <1>1, <1>2, <1>3, <1>5 DEF HTTPInv, HTTPTypes
<1>7. trip'.live <=> trip'.reply \in {"ok", "redirect", "bad request", "refused"}
  BY <1>4, <1>5, Zenon
<1> QED BY <1>1, <1>2, <1>3, <1>6, <1>7, Zenon
        DEF HTTPInv, TimersKnow, ContextsEnd, CookiesKept, HTTP!HasBody, trip

LEMMA GoingOnKeeps ==
  ASSUME HTTPInv, HTTP!Send \/ \E to \in Origins : HTTP!Redirect(to)
  PROVE  HTTPInv'
<1>1. CASE HTTP!Send
  <2>1. PICK to \in Origins : to = dest.origin
    BY HTTPParts DEF HTTPInv
  <2> QED BY <1>1, <2>1, RoundTripKeeps DEF HTTP!Send, call, client, dest, parent, jar
<1>2. ASSUME NEW to \in Origins, HTTP!Redirect(to) PROVE HTTPInv'
  <2>1. call.at = "returned" /\ UNCHANGED <<client, dest, parent, jar>> /\ ~dest.routed
    BY <1>2 DEF HTTP!Redirect, HTTP!Follows, call, client, dest, parent, jar
  <2>2. CASE HTTP!RoundTrip(to, trip.hops + 1)
    <3>1. PICK hops \in Nat : hops = trip.hops + 1
      BY HTTPParts DEF HTTPInv
    <3> QED BY <2>1, <2>2, <3>1, RoundTripKeeps
  <2>3. CASE HTTP!Goes("failed") /\ HTTP!CloseBody /\ UNCHANGED <<timer, sent>>
    BY <2>1, <2>3, BodiesClose, RestKeeps DEF HTTPInv, HTTPTypes
  <2> QED BY <1>2, <2>2, <2>3 DEF HTTP!Redirect, trip, timer, sent
<1> QED BY <1>1, <1>2

LEMMA EndingKeeps ==
  ASSUME HTTPInv, HTTP!Accept \/ HTTP!Retry \/ HTTP!Fail \/ HTTP!CloseResponse \/ HTTP!Cancel
  PROVE  HTTPInv'
<1>1. CASE HTTP!Accept
  <2>1. /\ call.at = "returned" /\ trip.reply = "ok" /\ HTTP!Goes("reading")
        /\ UNCHANGED <<client, dest, trip, timer, parent, jar, sent>>
    BY <1>1 DEF HTTP!Accept, call, trip, client, dest, timer, parent, jar, sent
  <2>2. call' \in Calls /\ call'.at = "reading"
    BY <2>1, CallsGo DEF HTTPInv, Places
  <2>3. trip.live
    BY <2>1 DEF HTTPInv, ContextsEnd, HTTP!HasBody, trip
  <2>4. HTTPTypes'
    BY <2>1, <2>2 DEF HTTPInv, HTTPTypes
  <2> QED BY <2>1, <2>2, <2>3, <2>4 DEF HTTPInv, TimersKnow, ContextsEnd, CookiesKept
<1>2. CASE HTTP!Retry
  <2> DEFINE dials == IF HTTP!RetriesDial THEN call.dials + 1 ELSE 0
             attempts == IF HTTP!RetriesDial THEN call.attempts ELSE call.attempts + 1
             beta == call.beta /\ ~HTTP!RetriesPlain
  <2>1. /\ call.at = "returned" /\ HTTP!CloseBody
        /\ call' = [call EXCEPT !.at = "send", !.dials = dials, !.attempts = attempts, !.beta = beta]
        /\ UNCHANGED <<client, dest, timer, parent, jar, sent>>
    BY <1>2 DEF HTTP!Retry, HTTP!Refused, call, client, dest, timer, parent, jar, sent
  <2>2. dials \in Nat /\ attempts \in Nat /\ beta \in BOOLEAN
    BY HTTPParts DEF HTTPInv
  <2> HIDE DEF dials, attempts, beta
  <2>3. call' \in Calls /\ call'.at = "send"
    BY <2>1, <2>2 DEF HTTPInv, HTTPTypes, Calls, Places
  <2>4. trip' \in Trips /\ trip'.live = FALSE
    BY <2>1, BodiesClose
  <2>5. HTTPTypes'
    BY <2>1, <2>3, <2>4 DEF HTTPInv, HTTPTypes
  <2> QED BY <2>1, <2>3, <2>4, <2>5 DEF HTTPInv, TimersKnow, ContextsEnd, CookiesKept
<1>3. CASE HTTP!Fail \/ HTTP!CloseResponse
  <2>1. /\ call.at \in {"returned", "reading"} /\ HTTP!CloseBody /\ timer' = HTTP!NoTimer
        /\ HTTP!Goes("failed") \/ HTTP!Goes("done")
        /\ UNCHANGED <<client, dest, parent, jar, sent>>
    BY <1>3
    DEF HTTP!Fail, HTTP!Refused, HTTP!CloseResponse, call, client, dest, timer, parent, jar, sent
  <2>2. trip' \in Trips /\ trip'.live = FALSE
    BY <2>1, BodiesClose
  <2>3. timer' \in Timers
    BY <2>1 DEF Timers, HTTP!NoTimer
  <2> QED BY <2>1, <2>2, <2>3, RestKeeps DEF HTTPInv, HTTPTypes
<1>4. CASE HTTP!Cancel
  <2>1. parent' = FALSE /\ UNCHANGED <<client, dest, call, trip, timer, jar, sent>>
    BY <1>4 DEF HTTP!Cancel, parent, client, dest, call, trip, timer, jar, sent
  <2> QED BY <2>1, Zenon
      DEF HTTPInv, HTTPTypes, TimersKnow, ContextsEnd, CookiesKept, HTTP!HasBody, trip
<1> QED BY <1>1, <1>2, <1>3, <1>4

LEMMA HTTPContinues == HTTPInv /\ [HTTP!Next]_(HTTP!vars) => HTTPInv'
<1>1. SUFFICES ASSUME HTTPInv, [HTTP!Next]_(HTTP!vars) PROVE HTTPInv'
  OBVIOUS
<1>2. CASE UNCHANGED HTTP!vars
  <2>1. UNCHANGED <<client, dest, call, trip, timer, parent, jar, sent>>
    BY <1>2 DEF HTTP!vars, client, dest, call, trip, timer, parent, jar, sent
  <2> QED BY <1>1, <2>1, Zenon
      DEF HTTPInv, HTTPTypes, TimersKnow, ContextsEnd, CookiesKept, HTTP!HasBody, trip
<1>3. CASE HTTP!Next
  BY <1>1, <1>3, ResolveKeeps, AccountsKeep, TimersKeep, AnswersKeep, ReturnKeeps, GoingOnKeeps,
     EndingKeeps, Zenon
  DEF HTTP!Next, Origins
<1> QED BY <1>1, <1>2, <1>3

LEMMA CallsAreServed ==
  HTTPInv => HTTP!ResponsesAreNotCutOff /\ HTTP!NothingIsLeftBehind /\ HTTP!RequestsGoHome
<1>1. SUFFICES ASSUME HTTPInv
               PROVE  HTTP!ResponsesAreNotCutOff /\ HTTP!NothingIsLeftBehind /\ HTTP!RequestsGoHome
  OBVIOUS
<1>2. HTTP!ResponsesAreNotCutOff /\ HTTP!NothingIsLeftBehind
  BY <1>1 DEF HTTPInv, ContextsEnd, HTTP!ResponsesAreNotCutOff, HTTP!NothingIsLeftBehind, call, trip
<1>3. "session" \notin sent.cookies
  BY <1>1 DEF HTTPInv, HTTPTypes, Leaving, HTTP!Infrastructure
<1> QED BY <1>1, <1>2, <1>3 DEF HTTPInv, CookiesKept, HTTP!RequestsGoHome, client, dest, sent

-----------------------------------------------------------------------------
(* The patched copies of Claude Code                                       *)

installed == x1
snapshots == x2
patched == x3
leases == x4
holder == x5
launch == x6
newest == x7

Points == {"start", "try", "retain", "remove", "discover", "again", "running", "failed",
           "over", "dead"}
Launches ==
  [pc : Points, release : Sources!Release, models : Sources!Models, source : 0..MaxVersion,
   tried : SUBSET Sources!Build, retain : BOOLEAN, using : SUBSET Sources!Key]

SourceTypes ==
  /\ installed \in Sources!Build /\ snapshots \subseteq Sources!Build
  /\ newest \in 0..MaxVersion /\ launch \in [Process -> Launches]

\* What a launch uses is there, and a lease of a process that lives names it.
Leased ==
  \A p \in Process : \A k \in launch[p].using :
    /\ launch[p].pc # "dead"
    /\ [of |-> p, written |-> TRUE, key |-> k] \in leases
    /\ k \in patched /\ k.build \in snapshots

\* Nothing newer than the newest was kept, and that is still there.
NewestIsKept ==
  /\ \A b \in snapshots : b <= newest
  /\ newest # 0 => newest \in snapshots

SourcesInv == SourceTypes /\ Leased /\ NewestIsKept

LEMMA SourcesBegin == Sources!Init => SourcesInv
<1>1. SUFFICES ASSUME Sources!Init PROVE SourcesInv
  OBVIOUS
<1>2. MaxVersion \in Nat
  BY ConstantsAssumption DEF Update!Sensible
<1>3. /\ installed \in Sources!Build /\ snapshots \in SUBSET (1..installed)
      /\ newest \in IF snapshots = {} THEN {0} ELSE {b \in snapshots : \A o \in snapshots : o <= b}
      /\ launch \in [Process -> [pc : {"start"}, release : Sources!Release, models : {"asked"},
                                 source : {0}, tried : {{}}, retain : {FALSE}, using : {{}}]]
  BY <1>1 DEF Sources!Init, installed, snapshots, newest, launch
<1>4. snapshots \subseteq Sources!Build
  BY <1>2, <1>3 DEF Sources!Build
<1>5. newest \in 0..MaxVersion /\ NewestIsKept
  BY <1>2, <1>3, <1>4 DEF Sources!Build, NewestIsKept
<1>6. launch \in [Process -> Launches] /\ Leased
  <2>1. \A p \in Process : launch[p] \in Launches /\ launch[p].using = {}
    <3>1. 0 \in 0..MaxVersion
      BY <1>2
    <3> QED BY <1>3, <3>1 DEF Launches, Points, Sources!Models
  <2> QED BY <1>3, <2>1 DEF Leased
<1> QED BY <1>3, <1>4, <1>5, <1>6 DEF SourcesInv, SourceTypes

\* A launch that goes on with what it has, while all that others use stays.
LEMMA LeasesHold ==
  ASSUME SourcesInv, NEW p \in Process, launch' \in [Process -> Launches],
         \A q \in Process : q # p => launch'[q] = launch[q],
         launch'[p].using \in {{}, launch[p].using},
         launch'[p].pc = "dead" => launch'[p].using = {},
         \A q \in Process : \A k \in launch'[q].using :
           k \in launch[q].using =>
             /\ [of |-> q, written |-> TRUE, key |-> k] \in leases'
             /\ k \in patched' /\ k.build \in snapshots'
  PROVE  Leased'
<1>1. \A q \in Process : \A k \in launch'[q].using : k \in launch[q].using
  OBVIOUS
<1>2. \A q \in Process : \A k \in launch'[q].using : launch'[q].pc # "dead"
  BY <1>1 DEF SourcesInv, Leased
<1> QED BY <1>1, <1>2, Zenon DEF Leased

\* A process that is no more uses nothing.
LEMMA LaunchLeaves ==
  ASSUME SourceTypes, NEW p \in Process, NEW pc \in Points, Sources!Leaves(p, pc)
  PROVE  /\ launch' \in [Process -> Launches] /\ launch'[p].using = {}
         /\ \A q \in Process : q # p => launch'[q] = launch[q]
<1> DEFINE x == [pc |-> pc, release |-> 1, models |-> "asked", source |-> 0, tried |-> {},
                 retain |-> FALSE, using |-> {}]
<1>1. launch \in [Process -> Launches]
  BY DEF SourceTypes
<1>2. 0 \in 0..MaxVersion
  BY ConstantsAssumption DEF Update!Sensible
<1>3. x \in Launches /\ x.using = {}
  BY <1>2 DEF Launches, Sources!Release, Sources!Models
<1>4. launch' = [launch EXCEPT ![p] = x]
  BY <1>1 DEF Sources!Leaves, launch
<1> HIDE DEF x
<1> QED BY <1>1, <1>3, <1>4

\* A build that is tried next is one.
LEMMA TriedBuild ==
  ASSUME SourceTypes, NEW p \in Process, NEW b \in Sources!NextTried(p)
  PROVE  b \in Sources!Build /\ b \in 1..MaxVersion
<1>1. MaxVersion \in Nat
  BY ConstantsAssumption DEF Update!Sensible
<1>2. launch[p].source \in 0..MaxVersion
  BY DEF SourceTypes, Launches
<1>3. Sources!First(p) \in Sources!Build
  BY <1>1, <1>2 DEF SourceTypes, Sources!First, Sources!Build, launch, installed
<1>4. Sources!FallbackCandidates(p) \subseteq Sources!Build
  BY DEF SourceTypes, Sources!FallbackCandidates, Sources!Versions, snapshots
<1>5. b = Sources!First(p) \/ b \in Sources!FallbackCandidates(p)
  BY DEF Sources!NextTried
<1> QED BY <1>3, <1>4, <1>5 DEF Sources!Build

\* A selection adds files and takes none away.
LEMMA TryKeeps == ASSUME SourcesInv, NEW p \in Process, Sources!Try(p) PROVE SourcesInv'
<1>1. PICK b \in Sources!NextTried(p) :
        LET key == [build |-> b, release |-> launch[p].release, models |-> launch[p].models] IN
        /\ patched' = patched \cup {key} /\ snapshots' = snapshots \cup {b}
        /\ newest' = IF b > newest THEN b ELSE newest
        /\ leases' = leases \cup {[of |-> p, written |-> TRUE, key |-> key]}
        /\ launch' = [launch EXCEPT ![p].pc = IF launch[p].retain THEN "retain" ELSE "discover",
                                    ![p].source = b, ![p].tried = {}, ![p].using = @ \cup {key}]
  BY Zenon DEF Sources!Try, launch, patched, snapshots, newest, leases
<1>10. installed' = installed
  BY Zenon DEF Sources!Try, installed
<1> DEFINE key == [build |-> b, release |-> launch[p].release, models |-> launch[p].models]
<1>2. b \in Sources!Build /\ b \in 1..MaxVersion
  BY TriedBuild DEF SourcesInv
<1>3. launch[p] \in Launches /\ launch \in [Process -> Launches]
  BY DEF SourcesInv, SourceTypes
<1>4. key \in Sources!Key /\ key.build = b
  BY <1>2, <1>3 DEF Launches, Sources!Key
<1> HIDE DEF key
<1>5. /\ launch' = [launch EXCEPT ![p].pc = IF launch[p].retain THEN "retain" ELSE "discover",
                                  ![p].source = b, ![p].tried = {}, ![p].using = @ \cup {key}]
      /\ patched' = patched \cup {key} /\ snapshots' = snapshots \cup {b}
      /\ newest' = IF b > newest THEN b ELSE newest
      /\ leases' = leases \cup {[of |-> p, written |-> TRUE, key |-> key]}
      /\ installed' = installed
  BY <1>1, <1>10 DEF key
<1>6. /\ launch' \in [Process -> Launches] /\ launch'[p].using = launch[p].using \cup {key}
      /\ launch'[p].pc # "dead" /\ \A q \in Process : q # p => launch'[q] = launch[q]
  <2> DEFINE pc == IF launch[p].retain THEN "retain" ELSE "discover"
             using == launch[p].using \cup {key}
             x == [launch[p] EXCEPT !.pc = pc, !.source = b, !.tried = {}, !.using = using]
  <2>1. b \in 0..MaxVersion /\ pc \in Points /\ pc # "dead"
    BY <1>2 DEF Points
  <2>2. using \in SUBSET Sources!Key
    BY <1>3, <1>4 DEF Launches
  <2>3. launch' = [launch EXCEPT ![p] = x]
    BY <1>5
  <2>4. using = launch[p].using \cup {key}
    OBVIOUS
  <2> HIDE DEF pc, using
  <2>5. x \in Launches /\ x.pc = pc /\ x.using = using
    BY <1>3, <2>1, <2>2 DEF Launches
  <2> HIDE DEF x
  <2> QED BY <1>3, <2>1, <2>3, <2>4, <2>5
<1>7. SourceTypes'
  BY <1>2, <1>5, <1>6 DEF SourcesInv, SourceTypes
<1>8. Leased'
  BY <1>4, <1>5, <1>6, Zenon DEF SourcesInv, Leased
<1>9. NewestIsKept'
  BY <1>2, <1>5, SMTT(30) DEF SourcesInv, SourceTypes, NewestIsKept, Sources!Build
<1> QED BY <1>7, <1>8, <1>9 DEF SourcesInv

LEMMA TryFailsKeeps == ASSUME SourcesInv, NEW p \in Process, Sources!TryFails(p) PROVE SourcesInv'
<1>1. PICK b \in Sources!NextTried(p), written \in BOOLEAN :
        /\ \/ written /\ snapshots' = snapshots \cup {b} /\ newest' = IF b > newest THEN b ELSE newest
           \/ ~written /\ UNCHANGED <<snapshots, newest>>
        /\ patched \subseteq patched' /\ UNCHANGED <<installed, leases>>
        /\ launch' = [launch EXCEPT ![p].tried = @ \cup {b}]
  BY DEF Sources!TryFails, launch, patched, snapshots, newest, leases, installed
<1>2. b \in Sources!Build /\ b \in 1..MaxVersion
  BY TriedBuild DEF SourcesInv
<1>3. launch \in [Process -> Launches]
  BY DEF SourcesInv, SourceTypes
<1>4. /\ launch' \in [Process -> Launches] /\ launch'[p].using = launch[p].using
      /\ launch'[p].pc = launch[p].pc /\ \A q \in Process : q # p => launch'[q] = launch[q]
  BY <1>1, <1>2, <1>3 DEF Launches
<1>5. SourceTypes'
  BY <1>1, <1>2, <1>4 DEF SourcesInv, SourceTypes
<1>6. Leased'
  BY <1>1, <1>4, Zenon DEF SourcesInv, Leased
<1>7. NewestIsKept'
  BY <1>1, <1>2 DEF SourcesInv, SourceTypes, NewestIsKept, Sources!Build
<1> QED BY <1>5, <1>6, <1>7 DEF SourcesInv

\* What is removed is neither used nor the newest.
LEMMA UsedIsKept ==
  ASSUME SourcesInv, NEW p \in Process
  PROVE  /\ \A q \in Process : \A k \in launch[q].using :
              /\ k.build \in Sources!KeepSource(p)
              /\ \E l \in Sources!InUse(p) : l.key = k
         /\ newest \in Sources!Kept(p) => newest \in Sources!KeepSource(p)
<1>1. ASSUME NEW q \in Process, NEW k \in launch[q].using
      PROVE  \E l \in Sources!InUse(p) : l.key = k
  <2> DEFINE l == [of |-> q, written |-> TRUE, key |-> k]
  <2>1. l \in leases /\ launch[q].pc # "dead" /\ l.of = q /\ l.key = k
    BY DEF SourcesInv, Leased
  <2> QED BY <2>1 DEF Sources!InUse, Sources!Dead, leases, launch
<1>2. ASSUME newest \in Sources!Kept(p) PROVE newest \in Sources!KeepSource(p)
  <2>1. Sources!Kept(p) \subseteq snapshots /\ newest \in Int
    BY DEF Sources!Kept, snapshots, SourcesInv, SourceTypes
  <2>2. \A o \in Sources!Kept(p) : o \in Int /\ o <= newest
    <3>1. snapshots \subseteq Int /\ \A o \in snapshots : o <= newest
      BY DEF SourcesInv, SourceTypes, NewestIsKept, Sources!Build
    <3> QED BY <2>1, <3>1
  <2>3. newest \in Sources!TwoNewest(p)
    BY <1>2, <2>1, <2>2 DEF Sources!TwoNewest
  <2> QED BY <2>3 DEF Sources!KeepSource
<1> QED BY <1>1, <1>2 DEF Sources!KeepSource

LEMMA RemovingKeeps ==
  ASSUME SourcesInv, NEW p \in Process, Sources!Removes(p) \/ Sources!DiesRemoving(p)
  PROVE  SourcesInv'
<1>1. /\ snapshots' = snapshots \ (Sources!Kept(p) \ Sources!KeepSource(p))
      /\ UNCHANGED <<installed, leases, newest>>
  BY DEF Sources!Removes, Sources!DiesRemoving, snapshots, installed, leases, newest
<1>2. /\ launch' \in [Process -> Launches] /\ launch'[p].using \in {{}, launch[p].using}
      /\ launch'[p].pc = "dead" => launch'[p].using = {}
      /\ \A q \in Process : q # p => launch'[q] = launch[q]
  <2>1. launch \in [Process -> Launches]
    BY DEF SourcesInv, SourceTypes
  <2>2. CASE Sources!Removes(p)
    <3>1. launch' = [launch EXCEPT ![p].pc = "running"]
      BY <2>2 DEF Sources!Removes, launch
    <3> QED BY <2>1, <3>1 DEF Launches, Points
  <2>3. CASE Sources!DiesRemoving(p)
    <3>1. Sources!Leaves(p, "dead")
      BY <2>3 DEF Sources!DiesRemoving
    <3> QED BY <3>1, LaunchLeaves DEF Points, SourcesInv
  <2> QED BY <2>2, <2>3
<1>3. \A q \in Process : \A k \in launch[q].using :
         /\ [of |-> q, written |-> TRUE, key |-> k] \in leases'
         /\ k \in patched' /\ k.build \in snapshots'
  <2>1. ASSUME NEW q \in Process, NEW k \in launch[q].using PROVE k \in patched'
    <3>1. k \in patched /\ \E l \in Sources!InUse(p) : l.key = k
      BY UsedIsKept DEF SourcesInv, Leased
    <3> QED BY <3>1 DEF Sources!Removes, Sources!DiesRemoving, patched
  <2> QED BY <1>1, <2>1, UsedIsKept, Zenon DEF SourcesInv, Leased
<1>4. Leased'
  BY <1>2, <1>3, LeasesHold
<1>5. SourceTypes'
  BY <1>1, <1>2 DEF SourcesInv, SourceTypes
<1>6. NewestIsKept'
  BY <1>1, UsedIsKept DEF SourcesInv, NewestIsKept
<1> QED BY <1>4, <1>5, <1>6 DEF SourcesInv

\* Only leases of the dead and of those that leave go away.
LEMMA LeavingKeeps ==
  ASSUME SourcesInv, NEW p \in Process, NEW pc \in Points, Sources!Leaves(p, pc),
         UNCHANGED <<installed, snapshots, patched, newest>>,
         \A l \in leases : l.of # p => l \in leases'
  PROVE  SourcesInv'
<1>1. /\ launch' \in [Process -> Launches] /\ launch'[p].using = {}
      /\ \A q \in Process : q # p => launch'[q] = launch[q]
  BY LaunchLeaves DEF SourcesInv
<1>2. Leased'
  BY <1>1, Zenon DEF SourcesInv, Leased
<1> QED BY <1>1, <1>2 DEF SourcesInv, SourceTypes, NewestIsKept

LEMMA ReadingKeeps == ASSUME SourcesInv, NEW p \in Process, Sources!ReadsLeases(p) PROVE SourcesInv'
<1>1. /\ UNCHANGED <<installed, snapshots, patched, newest>>
      /\ \E pc \in {"running", "remove"} : launch' = [launch EXCEPT ![p].pc = pc]
      /\ \A l \in leases : launch[l.of].pc # "dead" => l \in leases'
  BY DEF Sources!ReadsLeases, Sources!Dead, launch, installed, snapshots, patched, newest, leases
<1>2. /\ launch' \in [Process -> Launches] /\ launch'[p].using = launch[p].using
      /\ launch'[p].pc # "dead" /\ \A q \in Process : q # p => launch'[q] = launch[q]
  BY <1>1 DEF SourcesInv, SourceTypes, Launches, Points
<1>3. \A q \in Process : \A k \in launch[q].using :
         /\ [of |-> q, written |-> TRUE, key |-> k] \in leases'
         /\ k \in patched' /\ k.build \in snapshots'
  BY <1>1, Zenon DEF SourcesInv, Leased
<1>4. Leased'
  BY <1>2, <1>3, LeasesHold
<1> QED BY <1>1, <1>2, <1>4 DEF SourcesInv, SourceTypes, NewestIsKept

\* The other steps of a launch leave the files alone.
LEMMA GoingKeeps ==
  ASSUME SourcesInv, NEW p \in Process,
         \/ Sources!Acquire(p) \/ Sources!NoneUsable(p) \/ Sources!SelectAgain(p)
         \/ Sources!RetainOnly(p)
  PROVE  SourcesInv'
<1>1. UNCHANGED <<installed, snapshots, patched, leases, newest>>
  BY DEF Sources!Acquire, Sources!NoneUsable, Sources!SelectAgain, Sources!RetainOnly,
         Sources!files, installed, snapshots, patched, leases, newest
<1>2. \/ \E pc \in {"try", "failed"} : launch' = [launch EXCEPT ![p].pc = pc, ![p].tried = {}]
      \/ launch' = [launch EXCEPT ![p].pc = "again", ![p].models = "found", ![p].retain = TRUE]
      \/ launch' = [launch EXCEPT ![p].pc = "retain", ![p].retain = TRUE]
  BY DEF Sources!Acquire, Sources!NoneUsable, Sources!SelectAgain, Sources!RetainOnly, launch
<1>3. /\ launch' \in [Process -> Launches] /\ launch'[p].using = launch[p].using
      /\ launch'[p].pc # "dead" /\ \A q \in Process : q # p => launch'[q] = launch[q]
  <2>1. launch \in [Process -> Launches]
    BY DEF SourcesInv, SourceTypes
  <2> QED BY <1>2, <2>1 DEF Launches, Points, Sources!Models
<1>4. Leased'
  BY <1>1, <1>3, Zenon DEF SourcesInv, Leased
<1> QED BY <1>1, <1>3, <1>4 DEF SourcesInv, SourceTypes, NewestIsKept

LEMMA SourcesContinue == SourcesInv /\ [Sources!Next]_(Sources!vars) => SourcesInv'
<1>1. SUFFICES ASSUME SourcesInv, [Sources!Next]_(Sources!vars) PROVE SourcesInv'
  OBVIOUS
<1> USE <1>1
<1>2. ASSUME NEW p \in Process,
             Sources!DiesInLease(p) \/ Sources!Ends(p) \/ Sources!Dies(p)
      PROVE  SourcesInv'
  <2>1. \E pc \in {"over", "dead"} : Sources!Leaves(p, pc)
    BY <1>2 DEF Sources!DiesInLease, Sources!Ends, Sources!Dies
  <2>2. /\ UNCHANGED <<installed, snapshots, patched, newest>>
        /\ \A l \in leases : l.of # p => l \in leases'
    BY <1>2 DEF Sources!DiesInLease, Sources!Ends, Sources!Dies, Sources!files, installed,
                snapshots, patched, newest, leases
  <2> QED BY <2>1, <2>2, LeavingKeeps DEF Points
<1>3. CASE Sources!Updates
  <2>1. installed' \in Sources!Build
    BY <1>3, ConstantsAssumption
    DEF Sources!Updates, SourcesInv, SourceTypes, Sources!Build, installed, Update!Sensible
  <2>2. UNCHANGED <<snapshots, patched, leases, launch, newest>>
    BY <1>3 DEF Sources!Updates, Sources!files, snapshots, patched, leases, launch, newest
  <2> QED BY <2>1, <2>2 DEF SourcesInv, SourceTypes, Leased, NewestIsKept
<1>4. CASE UNCHANGED Sources!vars
  BY <1>4
  DEF Sources!vars, SourcesInv, SourceTypes, Leased, NewestIsKept, installed, snapshots, patched,
      leases, launch, newest
<1> QED
  BY <1>2, <1>3, <1>4, TryKeeps, TryFailsKeeps, RemovingKeeps, ReadingKeeps, GoingKeeps
  DEF Sources!Next, Sources!Proceeds

LEMMA FilesStay == SourcesInv => Sources!SelectedFilesStay /\ Sources!NewestStays
BY DEF SourcesInv, Leased, NewestIsKept, Sources!SelectedFilesStay, Sources!NewestStays, launch,
       patched, snapshots, newest

-----------------------------------------------------------------------------
(* The saved default model                                                 *)

now == x1
saved == x2
settings == x3
mirror == x4
wanted == x5

SavedStages == {"off", "run", "close", "gone", "failed"}
Readers == [stage : SavedStages, pc : {"idle", "apply", "normalize"}, cursor : Nat, found : Nat]

DefaultTypes ==
  /\ now \in Nat /\ saved \in 0..now
  /\ settings \in [choice : Nat, served : BOOLEAN]
  /\ mirror \in [Mirroring -> Readers]

Runs(s) == mirror[s].stage \in {"run", "close"}
Behind(s) == Runs(s) /\ mirror[s].cursor < saved

\* Only a session that runs is about to write, and what it found is newer than
\* all that it wrote.
Finding ==
  \A s \in Mirroring :
    /\ ~Runs(s) => mirror[s].pc = "idle" \/ (mirror[s].pc = "normalize" /\ mirror[s].stage = "failed")
    /\ mirror[s].pc = "apply" => mirror[s].cursor < mirror[s].found /\ mirror[s].found <= saved

\* While somebody has still to read it the newest saved model may stand, and so
\* may what a session that ends is about to write.
StillWanted ==
  /\ \A s \in Mirroring : Behind(s) => saved \in wanted
  /\ \A s \in Mirroring : mirror[s].stage = "close" /\ mirror[s].pc = "apply" => mirror[s].found \in wanted

\* What does not stand will be replaced, by a session that has more to read
\* before its end; and a served name by any session that runs.  Unless a last
\* merge has failed.
NoneFailed == \A s \in Mirroring : mirror[s].stage # "failed"
WillBeRight ==
  NoneFailed =>
    /\ settings.choice \in wanted \/ \E s \in Mirroring :
         Behind(s) /\ ~(mirror[s].stage = "close" /\ mirror[s].pc = "normalize")
    /\ settings.served => \E s \in Mirroring : Runs(s)

DefaultInv == DefaultTypes /\ Finding /\ StillWanted /\ WillBeRight

LEMMA DefaultBegins == Default!Init => DefaultInv
BY DEF Default!Init, DefaultInv, DefaultTypes, Finding, StillWanted, WillBeRight, Runs, Behind, Readers,
       SavedStages, now, saved, settings, mirror, wanted

\* A step that only changes one mirror.
LEMMA MirrorMoves ==
  ASSUME DefaultInv, NEW s \in Mirroring, NEW x \in Readers, mirror' = [mirror EXCEPT ![s] = x],
         UNCHANGED <<now, saved, wanted, settings>>,
         Runs(s) => x.stage \in {"run", "close", "failed"}, x.stage \in {"off", "gone"} => x.pc = "idle",
         x.stage = "failed" => x.pc # "apply", mirror[s].stage = "failed" => x.stage = "failed",
         x.pc = "apply" => x.cursor < x.found /\ x.found <= saved,
         x.stage \in {"run", "close"} /\ x.cursor < saved => Behind(s),
         x.stage = "close" /\ x.pc = "apply" => x.found \in wanted,
         Behind(s) => x.cursor < saved,
         Behind(s) /\ x.stage = "close" /\ x.pc = "normalize" =>
           mirror[s].stage = "close" /\ mirror[s].pc = "normalize"
  PROVE  DefaultInv'
<1>1. mirror \in [Mirroring -> Readers]
  BY DEF DefaultInv, DefaultTypes
<1>2. /\ mirror' \in [Mirroring -> Readers] /\ mirror'[s] = x
      /\ \A t \in Mirroring : t # s => mirror'[t] = mirror[t]
  BY <1>1
<1>3. DefaultTypes'
  BY <1>2 DEF DefaultInv, DefaultTypes
<1>4. Finding'
  BY <1>2 DEF DefaultInv, Finding, Runs, Readers, SavedStages
<1>5. StillWanted'
  BY <1>2 DEF DefaultInv, StillWanted, Behind, Runs
<1>6. WillBeRight'
  <2>0. SUFFICES ASSUME NoneFailed' PROVE NoneFailed /\ WillBeRight'
    BY DEF WillBeRight
  <2>1. NoneFailed /\ \A t \in Mirroring : Runs(t) => Runs(t)'
    BY <1>2, <2>0 DEF Runs, NoneFailed
  <2>2. \A t \in Mirroring : Behind(t) => Behind(t)'
    BY <1>2, <2>1 DEF Behind
  <2>3. \A t \in Mirroring : Behind(t) /\ ~(mirror[t].stage = "close" /\ mirror[t].pc = "normalize") =>
          ~(mirror'[t].stage = "close" /\ mirror'[t].pc = "normalize")
    BY <1>2
  <2> QED BY <2>1, <2>2, <2>3 DEF DefaultInv, WillBeRight
<1> QED BY <1>3, <1>4, <1>5, <1>6 DEF DefaultInv

LEMMA MirrorReads ==
  ASSUME DefaultInv, NEW s \in Mirroring,
         \/ Default!Start(s) \/ Default!ReadTranscripts(s) \/ Default!ApplyFails(s)
         \/ Default!NormalizeFails(s) \/ Default!Close(s)
  PROVE  DefaultInv'
<1>1. UNCHANGED <<now, saved, wanted, settings>>
  BY DEF Default!Start, Default!ReadTranscripts, Default!ApplyFails, Default!NormalizeFails, Default!Close,
         now, saved, wanted, settings
<1>2. mirror \in [Mirroring -> Readers] /\ mirror[s] \in Readers /\ now \in Nat /\ saved \in Nat /\ saved <= now
  BY DEF DefaultInv, DefaultTypes
<1>3. CASE Default!Start(s)
  <2> DEFINE x == [mirror[s] EXCEPT !.stage = "run", !.cursor = now]
  <2>1. /\ x \in Readers /\ x.stage = "run" /\ x.pc = mirror[s].pc /\ x.cursor = now
        /\ mirror[s].stage = "off" /\ mirror' = [mirror EXCEPT ![s] = x]
    BY <1>2, <1>3 DEF Default!Start, mirror, now, Readers, SavedStages
  <2> HIDE DEF x
  <2>2. x.pc = "idle" /\ ~Behind(s) /\ ~Runs(s)
    BY <2>1 DEF DefaultInv, Finding, Runs, Behind
  <2>3. ~(x.cursor < saved)
    BY <1>2, <2>1
  <2> QED BY <1>1, <2>1, <2>2, <2>3, MirrorMoves
<1>4. CASE Default!ReadTranscripts(s)
  <2> DEFINE found == Default!LatestSaved(s)
             x == [mirror[s] EXCEPT !.pc = IF found = 0 THEN "normalize" ELSE "apply", !.found = found]
  <2>1. found = IF mirror[s].cursor < saved THEN saved ELSE 0
    BY <1>2 DEF Default!LatestSaved, mirror, saved, Readers
  <2>2. mirror' = [mirror EXCEPT ![s] = x] /\ Runs(s) /\ mirror[s].pc = "idle"
    BY <1>2, <1>4 DEF Default!ReadTranscripts, mirror, Runs
  <2> HIDE DEF found
  <2>3. /\ x \in Readers /\ x.stage = mirror[s].stage /\ x.cursor = mirror[s].cursor /\ x.found = found
        /\ x.pc = IF found = 0 THEN "normalize" ELSE "apply"
    BY <1>2, <2>1 DEF Readers
  <2> HIDE DEF x
  <2>4. /\ Behind(s) <=> x.cursor < saved
        /\ x.cursor < saved => saved \in wanted
        /\ x.cursor \in Nat
    BY <1>2, <2>2, <2>3 DEF DefaultInv, StillWanted, Behind, Readers
  <2>5. /\ x.pc = "apply" => x.cursor < saved /\ x.found = saved
        /\ x.cursor < saved => x.pc = "apply"
    BY <1>2, <2>1, <2>3, <2>4
  <2>6. x.stage \in {"run", "close"} /\ x.pc # "idle" /\ saved <= saved
    BY <1>2, <2>2, <2>3 DEF Runs
  <2>7. ~(Behind(s) /\ x.pc = "normalize")
    BY <2>3, <2>4, <2>5
  <2> QED BY <1>1, <2>2, <2>3, <2>4, <2>5, <2>6, <2>7, MirrorMoves
<1>5. CASE Default!ApplyFails(s)
  <2> DEFINE then == Default!AfterFailure(mirror[s].stage)
             x == [mirror[s] EXCEPT !.pc = "normalize", !.stage = then]
  <2>1. mirror[s].pc = "apply" /\ mirror' = [mirror EXCEPT ![s] = x]
    BY <1>2, <1>5 DEF Default!ApplyFails, mirror
  <2>2. mirror[s].stage \in {"run", "close"}
    BY <2>1 DEF DefaultInv, Finding, Runs
  <2>3. then \in {"run", "failed"} /\ (then = "run" => mirror[s].stage = "run")
    BY <2>2 DEF Default!AfterFailure
  <2> HIDE DEF then
  <2>4. /\ x \in Readers /\ x.stage = then /\ x.pc = "normalize" /\ x.cursor = mirror[s].cursor
    BY <1>2, <2>3 DEF Readers, SavedStages
  <2> HIDE DEF x
  <2>5. Runs(s) /\ (Behind(s) <=> x.cursor < saved)
    BY <2>2, <2>4 DEF Runs, Behind
  <2> QED BY <1>1, <1>2, <2>1, <2>2, <2>3, <2>4, <2>5, MirrorMoves
<1>7. CASE Default!NormalizeFails(s)
  <2> DEFINE then == Default!AfterFailure(mirror[s].stage)
             x == [mirror[s] EXCEPT !.pc = "idle", !.found = 0, !.stage = then]
  <2>1. mirror[s].pc = "normalize" /\ mirror' = [mirror EXCEPT ![s] = x]
    BY <1>2, <1>7 DEF Default!NormalizeFails, mirror
  <2>2. mirror[s].stage \in {"run", "close", "failed"}
    BY <2>1 DEF DefaultInv, Finding, Runs
  <2>3. /\ then \in {"run", "failed"} /\ (then = "run" => mirror[s].stage = "run")
        /\ mirror[s].stage = "failed" => then = "failed"
    BY <2>2 DEF Default!AfterFailure
  <2> HIDE DEF then
  <2>4. /\ x \in Readers /\ x.stage = then /\ x.pc = "idle" /\ x.cursor = mirror[s].cursor
    BY <1>2, <2>3 DEF Readers, SavedStages
  <2> HIDE DEF x
  <2>5. /\ Behind(s) => x.cursor < saved
        /\ x.stage = "run" /\ x.cursor < saved => Behind(s)
    BY <2>3, <2>4 DEF Runs, Behind
  <2> QED BY <1>1, <1>2, <2>1, <2>3, <2>4, <2>5, MirrorMoves
<1>6. CASE Default!Close(s)
  <2> DEFINE x == [mirror[s] EXCEPT !.stage = "close"]
  <2>1. /\ x \in Readers /\ x.stage = "close" /\ x.pc = "idle" /\ x.cursor = mirror[s].cursor
        /\ mirror[s].stage = "run" /\ mirror' = [mirror EXCEPT ![s] = x]
    BY <1>2, <1>6 DEF Default!Close, mirror, Readers, SavedStages
  <2> HIDE DEF x
  <2>2. Runs(s) /\ (Behind(s) <=> x.cursor < saved)
    BY <2>1 DEF Runs, Behind
  <2> QED BY <1>1, <1>2, <2>1, <2>2, MirrorMoves
<1> QED BY <1>3, <1>4, <1>5, <1>6, <1>7

\* What is written late is old, and then its writer has more to read; unless it
\* ends: then what it writes may stand.
LEMMA MirrorApplies == ASSUME DefaultInv, NEW s \in Mirroring, Default!Apply(s) PROVE DefaultInv'
<1> DEFINE x == [mirror[s] EXCEPT !.pc = "normalize", !.cursor = mirror[s].found]
<1>1. mirror \in [Mirroring -> Readers] /\ mirror[s] \in Readers /\ saved \in Nat
  BY DEF DefaultInv, DefaultTypes
<1>2. /\ mirror[s].pc = "apply" /\ UNCHANGED <<now, saved, wanted>>
      /\ settings' = [choice |-> mirror[s].found, served |-> FALSE]
      /\ mirror' = [mirror EXCEPT ![s] = x]
  BY <1>1 DEF Default!Apply, mirror, now, saved, wanted, settings
<1>3. /\ x \in Readers /\ x.pc = "normalize" /\ x.cursor = mirror[s].found /\ x.stage = mirror[s].stage
  BY <1>1 DEF Readers
<1> HIDE DEF x
<1>4. /\ mirror' \in [Mirroring -> Readers] /\ mirror'[s] = x
      /\ \A t \in Mirroring : t # s => mirror'[t] = mirror[t]
  BY <1>1, <1>2, <1>3
<1>5. /\ mirror[s].found \in Nat /\ mirror[s].cursor \in Nat /\ mirror[s].cursor < mirror[s].found
      /\ mirror[s].found <= saved /\ Runs(s)
  BY <1>1, <1>2 DEF DefaultInv, Finding, Readers
<1>6. Behind(s)
  BY <1>1, <1>5 DEF Behind
<1>7. DefaultTypes'
  BY <1>2, <1>4, <1>5 DEF DefaultInv, DefaultTypes
<1>8. Finding'
  BY <1>2, <1>3, <1>4, <1>5 DEF DefaultInv, Finding, Runs
<1>9. StillWanted'
  <2>1. \A t \in Mirroring : Behind(t)' => saved \in wanted
    BY <1>2, <1>4, <1>6 DEF DefaultInv, StillWanted, Behind, Runs
  <2> QED BY <1>2, <1>3, <1>4, <2>1 DEF DefaultInv, StillWanted
<1>10. settings'.choice \in wanted \/ (x.stage = "run" /\ x.cursor < saved)
  <2>1. CASE mirror[s].stage = "close"
    BY <1>2, <2>1 DEF DefaultInv, StillWanted
  <2>2. CASE mirror[s].found = saved
    BY <1>2, <1>6, <2>2 DEF DefaultInv, StillWanted
  <2>3. CASE mirror[s].stage # "close" /\ mirror[s].found # saved
    BY <1>1, <1>3, <1>5, <2>3 DEF Runs
  <2> QED BY <2>1, <2>2, <2>3
<1>11. WillBeRight'
  BY <1>2, <1>3, <1>4, <1>10 DEF WillBeRight, Behind, Runs
<1> QED BY <1>7, <1>8, <1>9, <1>11 DEF DefaultInv

LEMMA MirrorNormalizes == ASSUME DefaultInv, NEW s \in Mirroring, Default!Normalize(s) PROVE DefaultInv'
<1> DEFINE then == IF mirror[s].stage = "close" THEN "gone" ELSE mirror[s].stage
           x == [mirror[s] EXCEPT !.pc = "idle", !.found = 0, !.stage = then]
<1>1. mirror \in [Mirroring -> Readers] /\ mirror[s] \in Readers /\ settings \in [choice : Nat, served : BOOLEAN]
  BY DEF DefaultInv, DefaultTypes
<1>2. /\ mirror[s].pc = "normalize" /\ UNCHANGED <<now, saved, wanted>>
      /\ settings' = [settings EXCEPT !.served = FALSE]
      /\ mirror' = [mirror EXCEPT ![s] = x]
  BY <1>1 DEF Default!Normalize, mirror, now, saved, wanted, settings
<1>3. then \in SavedStages /\ (Runs(s) => then = "run" \/ mirror[s].stage = "close")
  BY <1>1 DEF Readers, SavedStages, Runs
<1> HIDE DEF then
<1>4. x \in Readers /\ x.pc = "idle" /\ x.cursor = mirror[s].cursor /\ x.stage = then
  BY <1>1, <1>3 DEF Readers
<1> HIDE DEF x
<1>5. /\ mirror' \in [Mirroring -> Readers] /\ mirror'[s] = x
      /\ \A t \in Mirroring : t # s => mirror'[t] = mirror[t]
  BY <1>1, <1>2, <1>4
<1>6. /\ then \in {"run", "gone", "failed"} /\ (then = "run" => mirror[s].stage = "run")
      /\ mirror[s].stage = "failed" => then = "failed"
  BY <1>1, <1>2 DEF then, DefaultInv, Finding, Runs, Readers, SavedStages
<1>7. settings' \in [choice : Nat, served : BOOLEAN] /\ settings'.choice = settings.choice /\ ~settings'.served
  BY <1>1, <1>2
<1>8. DefaultTypes'
  BY <1>2, <1>5, <1>7 DEF DefaultInv, DefaultTypes
<1>9. Finding'
  BY <1>2, <1>4, <1>5, <1>6 DEF DefaultInv, Finding, Runs
<1>10. StillWanted'
  BY <1>2, <1>4, <1>5, <1>6 DEF DefaultInv, StillWanted, Behind, Runs
<1>11. WillBeRight'
  <2>0. SUFFICES ASSUME NoneFailed' PROVE NoneFailed /\ WillBeRight'
    BY DEF WillBeRight
  <2>3. NoneFailed
    BY <1>4, <1>5, <1>6, <2>0 DEF NoneFailed
  <2>1. CASE settings.choice \in wanted
    BY <1>2, <1>7, <2>1, <2>3 DEF WillBeRight
  <2>2. CASE settings.choice \notin wanted
    <3>1. PICK t \in Mirroring : Behind(t) /\ ~(mirror[t].stage = "close" /\ mirror[t].pc = "normalize")
      BY <2>2, <2>3 DEF DefaultInv, WillBeRight
    <3>2. CASE t # s
      BY <1>2, <1>5, <1>7, <2>3, <3>1, <3>2 DEF WillBeRight, Behind, Runs
    <3>3. CASE t = s
      <4>1. mirror[s].stage = "run"
        BY <1>2, <3>1, <3>3 DEF Behind, Runs
      <4>2. x.stage = "run" /\ x.cursor < saved
        BY <1>4, <3>1, <3>3, <4>1 DEF then, Behind
      <4> QED BY <1>2, <1>5, <1>7, <2>3, <4>2 DEF WillBeRight, Behind, Runs
    <3> QED BY <3>2, <3>3
  <2> QED BY <2>1, <2>2
<1> QED BY <1>8, <1>9, <1>10, <1>11 DEF DefaultInv

\* The newest saved model stands, and what is about to be written by who ends.
LEMMA SavingKeeps == ASSUME DefaultInv, NEW s \in Mirroring, Default!Save(s) PROVE DefaultInv'
<1>1. /\ mirror[s].stage = "run" /\ now' = now + 1 /\ saved' = now'
      /\ wanted' = {now'} \union Default!Leaving
      /\ settings' = [choice |-> now', served |-> TRUE] /\ mirror' = mirror
  BY DEF Default!Save, mirror, now, saved, wanted, settings
<1>2. now \in Nat /\ saved \in 0..now /\ mirror \in [Mirroring -> Readers]
  BY DEF DefaultInv, DefaultTypes
<1>3. \A t \in Mirroring : mirror[t].stage = "close" /\ mirror[t].pc = "apply" => mirror[t].found \in wanted'
  BY <1>1 DEF Default!Leaving, mirror
<1>4. DefaultTypes'
  BY <1>1, <1>2 DEF DefaultTypes
<1>5. Finding'
  BY <1>1, <1>2 DEF DefaultInv, Finding, Runs, Readers
<1>6. StillWanted'
  BY <1>1, <1>3 DEF StillWanted
<1>7. WillBeRight'
  BY <1>1 DEF WillBeRight, Runs
<1> QED BY <1>4, <1>5, <1>6, <1>7 DEF DefaultInv

LEMMA EditingKeeps == ASSUME DefaultInv, Default!Edit PROVE DefaultInv'
<1>1. /\ now' = now + 1 /\ settings' = [choice |-> now', served |-> FALSE]
      /\ wanted' = IF Default!CaughtUp THEN {now'} ELSE wanted \union {now'}
      /\ UNCHANGED <<saved, mirror>>
  BY DEF Default!Edit, mirror, now, saved, wanted, settings
<1>2. now \in Nat /\ saved \in 0..now /\ mirror \in [Mirroring -> Readers]
  BY DEF DefaultInv, DefaultTypes
<1>3. Default!CaughtUp => \A t \in Mirroring : Runs(t) => ~Behind(t) /\ mirror[t].pc # "apply"
  BY <1>2 DEF Default!CaughtUp, Runs, Behind, mirror, saved, Readers
<1>4. DefaultTypes'
  BY <1>1, <1>2 DEF DefaultTypes
<1>5. Finding'
  BY <1>1 DEF DefaultInv, Finding, Runs
<1>6. StillWanted'
  BY <1>1, <1>3 DEF DefaultInv, StillWanted, Behind, Runs
<1>7. WillBeRight'
  BY <1>1 DEF WillBeRight
<1> QED BY <1>4, <1>5, <1>6, <1>7 DEF DefaultInv

LEMMA DefaultContinues == DefaultInv /\ [Default!Next]_(Default!vars) => DefaultInv'
<1>1. SUFFICES ASSUME DefaultInv, [Default!Next]_(Default!vars) PROVE DefaultInv'
  OBVIOUS
<1>2. CASE UNCHANGED Default!vars
  BY <1>1, <1>2
  DEF Default!vars, DefaultInv, DefaultTypes, Finding, StillWanted, NoneFailed, WillBeRight, Runs, Behind, now, saved,
      settings, mirror, wanted
<1> QED
  BY <1>1, <1>2, MirrorReads, MirrorApplies, MirrorNormalizes, SavingKeeps, EditingKeeps
  DEF Default!Next, Default!Mirrors

LEMMA DefaultStands == DefaultInv => Default!LastChoiceStands
<1>1. SUFFICES ASSUME DefaultInv PROVE Default!LastChoiceStands
  OBVIOUS
<1>2. Default!CaughtUp => \A t \in Mirroring : ~Behind(t)
  BY <1>1 DEF DefaultInv, DefaultTypes, Default!CaughtUp, Runs, Behind, mirror, saved, Readers
<1> QED
  BY <1>1, <1>2
  DEF DefaultInv, NoneFailed, WillBeRight, Default!LastChoiceStands, Runs, Behind, mirror, settings, wanted

-----------------------------------------------------------------------------
(* A launch                                                                *)

stored == x1
logins == x2
run == x3
claude == x4

InLaunch == {"locate", "lease", "login", "models", "again", "settings", "mirror", "arguments",
             "server", "proxy", "socket", "start"}
WithClaude == {"notify", "running", "stopping"}
LaunchPcs == InLaunch \cup WithClaude \cup {"begin", "serving", "returned", "closing", "over", "killed"}
LaunchRecords ==
  [pc : LaunchPcs, command : Start!Command, terminal : BOOLEAN,
   catches : {"nobody", "display", "serve", "child"}, cancelled : BOOLEAN, open : SUBSET Start!Opens,
   file : 0..2, catalog : 0..2, refreshed : BOOLEAN]

\* What a launch has opened when it comes to a place.
Opened(pc) ==
  CASE pc \in {"login", "models", "again", "settings", "mirror"} -> {"lease"}
    [] pc \in {"arguments", "server"} -> {"lease", "mirror"}
    [] pc = "proxy" -> {"lease", "mirror", "server"}
    [] pc = "socket" -> {"lease", "mirror", "server", "proxy"}
    [] pc \in {"start"} \cup WithClaude -> Start!Opens \ {"again"}
    [] OTHER -> {}

LaunchTypes == stored \in Start!Account /\ run \in LaunchRecords /\ claude \in {"none", "running", "over"}

LaunchInv ==
  /\ LaunchTypes
  /\ run.command = "claude" => Opened(run.pc) \subseteq run.open
  /\ run.command # "claude" => "mirror" \notin run.open
  /\ run.pc \in {"closing", "over"} => "mirror" \notin run.open
  /\ run.pc \in {"begin", "over"} => run.open = {}
  /\ run.pc \in {"begin", "locate", "lease", "login"} => run.catalog = 0 /\ ~run.refreshed
  /\ run.catalog \in {0, run.file} /\ (run.refreshed => run.catalog = run.file)
  /\ claude = "running" => run.pc \in WithClaude \cup {"killed"}
  /\ run.catches = "child" => run.pc \in {"running", "stopping", "killed"}
  /\ run.catches = "serve" =>
       run.pc \in {"serving", "closing", "over", "killed"} /\ run.command # "claude"

LEMMA LaunchBegins == Start!Init => LaunchInv
<1>1. SUFFICES ASSUME Start!Init PROVE LaunchInv
  OBVIOUS
<1>2. /\ stored \in Start!Account /\ claude = "none"
      /\ run \in [pc : {"begin"}, command : Start!Command, terminal : BOOLEAN, catches : {"nobody"},
                  cancelled : {FALSE}, open : {{}}, file : {0}, catalog : {0}, refreshed : {FALSE}]
  BY <1>1 DEF Start!Init, stored, run, claude
<1>3. /\ run.pc = "begin" /\ run.catches = "nobody" /\ run.open = {} /\ run.file = 0
      /\ run.catalog = 0 /\ run.refreshed = FALSE
  BY <1>2
<1>4. run \in LaunchRecords
  <2>1. "begin" \in LaunchPcs /\ {} \in SUBSET Start!Opens /\ 0 \in 0..2
    BY DEF LaunchPcs
  <2> QED BY <1>2, <2>1 DEF LaunchRecords
<1>5. Opened("begin") = {}
  BY DEF Opened, WithClaude
<1> QED BY <1>2, <1>3, <1>4, <1>5 DEF LaunchInv, LaunchTypes

\* The steps in their order.
LEMMA NextSteps ==
  /\ Start!Places = InLaunch
  /\ Start!After("locate") = "lease" /\ Start!After("lease") = "login"
  /\ Start!After("again") = "settings" /\ Start!After("settings") = "mirror"
  /\ Start!After("mirror") = "arguments" /\ Start!After("arguments") = "server"
  /\ Start!After("server") = "proxy" /\ Start!After("proxy") = "socket"
  /\ Start!After("socket") = "start"
<1>1. /\ Start!Steps[1] = "locate" /\ Start!Steps[2] = "lease" /\ Start!Steps[3] = "login"
      /\ Start!Steps[4] = "models" /\ Start!Steps[5] = "again" /\ Start!Steps[6] = "settings"
      /\ Start!Steps[7] = "mirror" /\ Start!Steps[8] = "arguments" /\ Start!Steps[9] = "server"
      /\ Start!Steps[10] = "proxy" /\ Start!Steps[11] = "socket" /\ Start!Steps[12] = "start"
  BY DEF Start!Steps
<1>2. Start!Places = InLaunch
  <2>1. \A n \in 1..12 : n = 1 \/ n = 2 \/ n = 3 \/ n = 4 \/ n = 5 \/ n = 6 \/ n = 7 \/ n = 8 \/ n = 9
                         \/ n = 10 \/ n = 11 \/ n = 12
    OBVIOUS
  <2> QED BY <1>1, <2>1 DEF Start!Places, InLaunch
<1>3. ASSUME NEW m \in 2..12 PROVE Start!After(Start!Steps[m - 1]) = Start!Steps[m]
  <2>1. \A n \in 2..12 : Start!Steps[n - 1] = Start!Steps[m - 1] => n = m
    <3>1. \A n \in 2..12 : n = 2 \/ n = 3 \/ n = 4 \/ n = 5 \/ n = 6 \/ n = 7 \/ n = 8 \/ n = 9
                           \/ n = 10 \/ n = 11 \/ n = 12
      OBVIOUS
    <3> QED BY <1>1, <1>3, <3>1
  <2>2. \E n \in 2..12 : Start!Steps[n - 1] = Start!Steps[m - 1]
    BY <1>3
  <2> DEFINE n == CHOOSE n \in 2..12 : Start!Steps[n - 1] = Start!Steps[m - 1]
  <2>3. n \in 2..12 /\ Start!Steps[n - 1] = Start!Steps[m - 1]
    BY <2>2
  <2> HIDE DEF n
  <2>4. n = m
    BY <2>1, <2>3
  <2> QED BY <2>4 DEF Start!After, n
<1>4. Start!After(Start!Steps[1]) = Start!Steps[2] /\ Start!After(Start!Steps[2]) = Start!Steps[3]
  BY <1>3
<1>5. /\ Start!After(Start!Steps[5]) = Start!Steps[6] /\ Start!After(Start!Steps[6]) = Start!Steps[7]
      /\ Start!After(Start!Steps[7]) = Start!Steps[8] /\ Start!After(Start!Steps[8]) = Start!Steps[9]
  BY <1>3
<1>6. /\ Start!After(Start!Steps[9]) = Start!Steps[10] /\ Start!After(Start!Steps[10]) = Start!Steps[11]
      /\ Start!After(Start!Steps[11]) = Start!Steps[12]
  BY <1>3
<1> QED BY <1>1, <1>2, <1>4, <1>5, <1>6

\* What is opened belongs to the place that comes next.
LEMMA StepOpens ==
  ASSUME LaunchInv, Start!Step
  PROVE  LaunchInv'
<1>1. /\ run.command = "claude" /\ run.pc \in Start!Places \ {"login", "models", "start"}
      /\ run' = [run EXCEPT !.pc = Start!After(run.pc), !.open = run.open \cup ({run.pc} \cap Start!Opens)]
      /\ UNCHANGED <<stored, claude>>
  BY DEF Start!Step, run, stored, claude, logins
<1>2. run \in LaunchRecords
  BY DEF LaunchInv, LaunchTypes
<1>3. /\ run'.pc = Start!After(run.pc) /\ run'.open = run.open \cup ({run.pc} \cap Start!Opens)
      /\ run'.command = run.command /\ run'.catches = run.catches /\ run'.file = run.file
      /\ run'.catalog = run.catalog /\ run'.refreshed = run.refreshed
  BY <1>1, <1>2 DEF LaunchRecords
<1>4. /\ run.pc \in {"locate", "lease", "again", "settings", "mirror", "arguments", "server", "proxy", "socket"}
      /\ run'.pc \in InLaunch /\ run'.pc # "locate"
      /\ run.pc \notin {"locate", "lease"} => run'.pc \notin {"lease", "login"}
  BY <1>1, <1>3, NextSteps DEF InLaunch
<1>5. run' \in LaunchRecords
  BY <1>1, <1>2, <1>3, <1>4 DEF LaunchRecords, LaunchPcs
<1>6. Opened(run'.pc) \subseteq run'.open
  <2>1. Opened(run.pc) \subseteq run.open
    BY <1>1 DEF LaunchInv
  <2>2. Opened(run'.pc) \subseteq Opened(run.pc) \cup ({run.pc} \cap Start!Opens)
    <3>1. CASE run.pc \in {"locate", "lease", "again", "settings"}
      BY <1>3, <3>1, NextSteps, Zenon DEF Opened, Start!Opens, WithClaude
    <3>2. CASE run.pc \in {"mirror", "arguments", "server", "proxy"}
      BY <1>3, <3>2, NextSteps, Zenon DEF Opened, Start!Opens, WithClaude
    <3>3. CASE run.pc = "socket"
      <4>1. run'.pc = "start"
        BY <1>3, <3>3, NextSteps
      <4> QED BY <3>3, <4>1 DEF Opened, Start!Opens, WithClaude
    <3> QED BY <1>4, <3>1, <3>2, <3>3
  <2> QED BY <1>3, <2>1, <2>2
<1>7. claude # "running" /\ run.catches \notin {"child", "serve"}
  BY <1>4 DEF LaunchInv, WithClaude
<1>8. run'.pc \in {"begin", "locate", "lease", "login"} => run'.catalog = 0 /\ ~run'.refreshed
  BY <1>3, <1>4 DEF LaunchInv, InLaunch
<1>9. LaunchTypes'
  BY <1>1, <1>5 DEF LaunchInv, LaunchTypes
<1> QED BY <1>1, <1>3, <1>4, <1>6, <1>7, <1>8, <1>9 DEF LaunchInv, InLaunch

\* The same for the steps that leave what is open as it is.
LEMMA LaunchMoves ==
  ASSUME LaunchInv, run' \in LaunchRecords, claude' \in {"none", "running", "over"}, stored' \in Start!Account,
         run'.command = run.command, run'.open = run.open,
         run'.command = "claude" => Opened(run'.pc) \subseteq run'.open,
         run'.pc \in {"closing", "over"} => "mirror" \notin run.open,
         run'.pc \in {"begin", "over"} => run.open = {},
         run'.pc \in {"begin", "locate", "lease", "login"} => run'.catalog = 0 /\ ~run'.refreshed,
         run'.catalog \in {0, run'.file}, run'.refreshed => run'.catalog = run'.file,
         claude' = "running" => run'.pc \in WithClaude \cup {"killed"},
         run'.catches = "child" => run'.pc \in {"running", "stopping", "killed"},
         run'.catches = "serve" =>
           run'.pc \in {"serving", "closing", "over", "killed"} /\ run.command # "claude"
  PROVE  LaunchInv'
BY DEF LaunchInv, LaunchTypes

LEMMA LaunchPrepares ==
  ASSUME LaunchInv,
         \/ Start!Run \/ Start!RunFails \/ Start!FastPath \/ Start!Login \/ Start!Load \/ Start!FetchUsage
         \/ Start!Refresh \/ Start!ModelsUnchanged
  PROVE  LaunchInv'
<1> USE DEF LaunchTypes
<1>1. /\ run \in LaunchRecords /\ stored \in Start!Account /\ claude \in {"none", "running", "over"}
      /\ run.command = "claude" => Opened(run.pc) \subseteq run.open
      /\ run.command # "claude" => "mirror" \notin run.open
  BY DEF LaunchInv
<1>2. UNCHANGED <<stored, claude>>
  BY DEF Start!Run, Start!RunFails, Start!FastPath, Start!Login, Start!Load, Start!FetchUsage,
         Start!Refresh, Start!ModelsUnchanged, stored, claude
<1>3. claude # "running" /\ run.catches \notin {"child", "serve"} /\ stored \in 1..2
  BY DEF Start!Run, Start!RunFails, Start!FastPath, Start!Login, Start!Load, Start!FetchUsage,
         Start!Refresh, Start!ModelsUnchanged, run, LaunchInv, WithClaude, Start!Account
<1>4. CASE Start!Run
  <2>1. /\ run.pc = "begin" /\ run'.pc \in {"locate", "login"} /\ run'.catches \in {"nobody", "display"}
        /\ run.command = "claude" => run'.pc = "locate"
        /\ run' = [run EXCEPT !.pc = run'.pc, !.catches = run'.catches]
    BY <1>1, <1>4 DEF Start!Run, run, LaunchRecords
  <2>2. /\ run' \in LaunchRecords /\ run'.command = run.command /\ run'.open = run.open
        /\ run'.catalog = run.catalog /\ run'.refreshed = run.refreshed /\ run'.file = run.file
    BY <1>1, <2>1 DEF LaunchRecords, LaunchPcs, InLaunch
  <2>3. Opened("locate") = {}
    BY DEF Opened, WithClaude
  <2>4. run.catalog = 0 /\ ~run.refreshed
    BY <2>1 DEF LaunchInv
  <2> QED BY <1>1, <1>2, <1>3, <2>1, <2>2, <2>3, <2>4, LaunchMoves
<1>5. CASE Start!RunFails \/ Start!FastPath \/ Start!ModelsUnchanged
  <2>1. /\ run' = [run EXCEPT !.pc = run'.pc]
        /\ \/ run.pc = "begin" /\ run'.pc = "over"
           \/ run.pc = "locate" /\ run'.pc = "start" /\ run.command = "version"
           \/ run.pc = "again" /\ run'.pc = "settings"
    BY <1>1, <1>5, NextSteps DEF Start!RunFails, Start!FastPath, Start!ModelsUnchanged, Start!Goes, run, LaunchRecords
  <2>2. /\ run' \in LaunchRecords /\ run'.command = run.command /\ run'.open = run.open
        /\ run'.catalog = run.catalog /\ run'.refreshed = run.refreshed /\ run'.file = run.file
        /\ run'.catches = run.catches
    BY <1>1, <2>1 DEF LaunchRecords, LaunchPcs, InLaunch
  <2>3. Opened("over") = {} /\ Opened("settings") = Opened("again")
    BY DEF Opened, WithClaude
  <2>4. /\ run.catalog \in {0, run.file} /\ (run.refreshed => run.catalog = run.file)
        /\ run.pc = "begin" => run.open = {}
    BY DEF LaunchInv
  <2> QED BY <1>1, <1>2, <1>3, <2>1, <2>2, <2>3, <2>4, LaunchMoves
<1>6. CASE Start!Login
  <2>1. run.pc = "login" /\ run' = [run EXCEPT !.pc = "models", !.file = stored, !.refreshed = FALSE]
    BY <1>6 DEF Start!Login, run, stored
  <2>2. /\ run' \in LaunchRecords /\ run'.command = run.command /\ run'.open = run.open /\ run'.pc = "models"
        /\ run'.catalog = run.catalog /\ run'.refreshed = FALSE /\ run'.catches = run.catches
    <3>1. stored \in 0..2
      BY <1>3
    <3>2. "models" \in LaunchPcs
      BY DEF LaunchPcs, InLaunch
    <3> QED BY <1>1, <2>1, <3>1, <3>2 DEF LaunchRecords
  <2>3. Opened("models") = Opened("login") /\ run.catalog = 0
    BY <2>1 DEF LaunchInv, Opened, WithClaude
  <2> QED BY <1>1, <1>2, <1>3, <2>1, <2>2, <2>3, LaunchMoves
<1>7. CASE Start!Load \/ Start!FetchUsage
  <2> DEFINE catalog == IF run.refreshed THEN run.catalog ELSE run.file
  <2>1. /\ run.pc = "models"
        /\ \E pc \in {"again", "server", "closing"} :
             /\ run' = [run EXCEPT !.catalog = catalog, !.pc = pc]
             /\ run.command = "claude" => pc = "again"
    BY <1>1, <1>7 DEF Start!Load, Start!FetchUsage, run
  <2>2. catalog = run.file /\ catalog \in 0..2
    BY <1>1 DEF LaunchInv, LaunchRecords
  <2> HIDE DEF catalog
  <2>3. /\ run' \in LaunchRecords /\ run'.command = run.command /\ run'.open = run.open
        /\ run'.pc \in {"again", "server", "closing"} /\ (run.command = "claude" => run'.pc = "again")
        /\ run'.catalog = run'.file /\ run'.catches = run.catches
    BY <1>1, <2>1, <2>2 DEF LaunchRecords, LaunchPcs, InLaunch
  <2>4. Opened("again") = Opened("models")
    BY DEF Opened, WithClaude
  <2> QED BY <1>1, <1>2, <1>3, <2>1, <2>3, <2>4, LaunchMoves
<1>8. CASE Start!Refresh
  <2>1. /\ run.pc = "models" /\ stored = run.file
        /\ run' = [run EXCEPT !.refreshed = TRUE, !.catalog = stored]
    BY <1>8 DEF Start!Refresh, Start!SameLogin, run, stored
  <2>2. /\ run' \in LaunchRecords /\ run'.command = run.command /\ run'.open = run.open /\ run'.pc = "models"
        /\ run'.catalog = run'.file /\ run'.catches = run.catches
    BY <1>1, <1>3, <2>1 DEF LaunchRecords
  <2> QED BY <1>1, <1>2, <1>3, <2>1, <2>2, LaunchMoves
<1> QED BY <1>4, <1>5, <1>6, <1>7, <1>8

\* What is closed is no longer needed.
LEMMA LaunchCloses ==
  ASSUME LaunchInv, \/ Start!StepFails \/ Start!CloseMirror \/ Start!CloseNext \/ Start!Serve
  PROVE  LaunchInv'
<1>1. run \in LaunchRecords /\ UNCHANGED <<stored, claude>>
  BY DEF LaunchInv, LaunchTypes, Start!StepFails, Start!CloseMirror, Start!CloseNext, Start!Serve,
         stored, claude
<1>2. claude # "running" /\ run.catches # "child"
  BY NextSteps
  DEF LaunchInv, Start!StepFails, Start!CloseMirror, Start!CloseNext, Start!Serve, run, InLaunch, WithClaude
<1>3. /\ run' \in LaunchRecords /\ run'.command = run.command /\ run'.catalog = run.catalog
      /\ run'.file = run.file /\ run'.refreshed = run.refreshed
      /\ run'.pc \in {"closing", "over", "serving"} /\ "mirror" \notin run'.open
      /\ run'.pc = "over" => run'.open = {}
      /\ \/ run'.catches = run.catches /\ run'.pc # "serving"
         \/ run'.catches = "serve" /\ run'.pc = "serving" /\ run.command = "serve"
  <2>1. CASE Start!StepFails \/ Start!CloseMirror
    <3>1. run' = [run EXCEPT !.pc = "closing", !.open = run.open \ {"mirror"}]
      BY <1>1, <2>1 DEF Start!StepFails, Start!CloseMirror, Start!MirrorClosed, run, LaunchRecords
    <3> QED BY <1>1, <3>1 DEF LaunchRecords, LaunchPcs
  <2>2. CASE Start!CloseNext
    <3>1. run.pc = "closing" /\ "mirror" \notin run.open
      BY <2>2 DEF Start!CloseNext, run, LaunchInv
    <3>2. CASE run.open = {}
      <4>1. run' = [run EXCEPT !.pc = "over"]
        BY <2>2, <3>1, <3>2 DEF Start!CloseNext, Start!Goes, run
      <4> QED BY <1>1, <3>2, <4>1 DEF LaunchRecords, LaunchPcs
    <3>3. CASE run.open # {}
      <4>1. PICK last \in run.open : run' = [run EXCEPT !.open = run.open \ {last}]
        BY <2>2, <3>1, <3>3 DEF Start!CloseNext, run
      <4> QED BY <1>1, <3>1, <4>1 DEF LaunchRecords
    <3> QED BY <3>2, <3>3
  <2>3. CASE Start!Serve
    <3>1. /\ run.command = "serve" /\ {"server"} \in SUBSET Start!Opens
          /\ run' = [run EXCEPT !.pc = "serving", !.catches = "serve", !.open = {"server"}]
      BY <1>1, <2>3 DEF Start!Serve, run, Start!Opens, LaunchRecords
    <3> QED BY <1>1, <3>1 DEF LaunchRecords, LaunchPcs
  <2> QED BY <2>1, <2>2, <2>3
<1>4. Opened("closing") = {} /\ Opened("over") = {}
  BY DEF Opened, WithClaude
<1>5. run.command = "claude" => run'.pc # "serving"
  BY <1>3, <1>4 DEF LaunchInv
<1> QED BY <1>1, <1>2, <1>3, <1>4, <1>5 DEF LaunchInv, LaunchTypes

\* While Claude Code runs nothing is closed.
LEMMA ChildKeeps ==
  ASSUME LaunchInv,
         \/ Start!CloseDisplay \/ Start!StartChild \/ Start!Notify \/ Start!ClaudeEnds \/ Start!TimesOut
         \/ Start!ChildIsOver \/ Start!LogsIn
  PROVE  LaunchInv'
<1>1. /\ run \in LaunchRecords /\ stored' \in Start!Account /\ claude' \in {"none", "running", "over"}
  BY DEF LaunchInv, LaunchTypes, Start!CloseDisplay, Start!StartChild, Start!Notify, Start!ClaudeEnds,
         Start!TimesOut, Start!Kill, Start!ChildIsOver, Start!LogsIn, stored, claude
<1>2. PICK pc \in {run.pc, "notify", "running", "returned"}, catches \in {run.catches, "nobody", "child"} :
        /\ run' = [run EXCEPT !.pc = pc, !.catches = catches]
        /\ pc = "notify" => pc = run.pc \/ run.pc = "start"
        /\ pc = "running" => pc = run.pc \/ run.pc = "notify"
        /\ pc = "notify" /\ run.pc = "start" => catches = "nobody"
        /\ pc = "running" /\ run.pc = "notify" => catches = "child"
        /\ pc = "returned" => pc = run.pc \/ (run.pc \in {"running", "stopping"} /\ catches = "nobody")
        /\ catches = "child" => catches = run.catches \/ pc = "running"
        /\ claude' = "running" => \/ claude = "running" /\ pc # "returned"
                                  \/ claude = "running" /\ pc = run.pc
                                  \/ pc = "notify"
  <2> DEFINE Sets(pc, catches) == run' = [run EXCEPT !.pc = pc, !.catches = catches]
  <2>1. ASSUME UNCHANGED run PROVE Sets(run.pc, run.catches)
    BY <1>1, <2>1 DEF LaunchRecords
  <2>2. CASE Start!CloseDisplay
    <3>1. run' = [run EXCEPT !.catches = "nobody"] /\ claude' = claude
      BY <2>2 DEF Start!CloseDisplay, run, claude
    <3>2. Sets(run.pc, "nobody") /\ run.pc = "start"
      BY <1>1, <2>2, <3>1 DEF LaunchRecords, Start!CloseDisplay, run
    <3> QED BY <3>1, <3>2
  <2>3. CASE Start!StartChild
    <3>1. run' = [run EXCEPT !.pc = "notify"] /\ run.pc = "start" /\ run.catches = "nobody"
      BY <2>3 DEF Start!StartChild, Start!Goes, run
    <3>2. Sets("notify", "nobody")
      BY <1>1, <3>1 DEF LaunchRecords
    <3> QED BY <3>1, <3>2
  <2>4. CASE Start!Notify
    BY <2>4 DEF Start!Notify, run, claude
  <2>5. CASE Start!ClaudeEnds \/ Start!TimesOut \/ Start!LogsIn
    <3>1. UNCHANGED run /\ claude' \in {claude, "over"}
      BY <2>5 DEF Start!ClaudeEnds, Start!TimesOut, Start!Kill, Start!LogsIn, run, claude
    <3> QED BY <2>1, <3>1
  <2>6. CASE Start!ChildIsOver
    BY <2>6 DEF Start!ChildIsOver, run, claude
  <2> QED BY <2>2, <2>3, <2>4, <2>5, <2>6
<1>3. /\ run' \in LaunchRecords /\ run'.pc = pc /\ run'.catches = catches /\ run'.open = run.open
      /\ run'.command = run.command /\ run'.catalog = run.catalog /\ run'.file = run.file
      /\ run'.refreshed = run.refreshed
  BY <1>1, <1>2 DEF LaunchRecords, LaunchPcs, WithClaude
<1>4. run.command = "claude" => Opened(pc) \subseteq run.open
  BY <1>2 DEF LaunchInv, Opened, WithClaude, Start!Opens
<1>5. run.catches = "child" => run.pc \in {"running", "stopping", "killed"}
  BY DEF LaunchInv
<1>6. claude' = "running" => pc \in WithClaude \cup {"killed"}
  BY <1>2 DEF LaunchInv, WithClaude
<1>7. /\ catches = "child" => pc \in {"running", "stopping", "killed"}
      /\ catches = "serve" => pc \in {"serving", "closing", "over", "killed"}
  BY <1>2 DEF LaunchInv
<1> QED BY <1>1, <1>2, <1>3, <1>4, <1>6, <1>7, LaunchMoves DEF LaunchInv

LEMMA SignalKeeps == ASSUME LaunchInv, Start!Signal PROVE LaunchInv'
<1>1. run \in LaunchRecords /\ UNCHANGED <<stored, claude>> /\ run.pc \notin {"over", "killed"}
  BY DEF LaunchInv, LaunchTypes, Start!Signal, stored, claude, run
<1>2. /\ run.catches = "child" => run.pc \in {"running", "stopping"}
      /\ run.catches = "serve" => run.pc \in {"serving", "closing"} /\ run.command # "claude"
  BY <1>1, SMTT(30) DEF LaunchInv
<1>3. PICK pc \in {run.pc, "closing", "stopping", "killed"}, cancelled \in BOOLEAN :
        /\ run' = [run EXCEPT !.pc = pc, !.cancelled = cancelled]
        /\ pc = "closing" => run.catches = "serve" \/ run.pc = "closing"
        /\ pc = "stopping" => run.catches = "child" \/ run.pc = "stopping"
  <2>1. CASE run.catches = "display" /\ run' = [run EXCEPT !.cancelled = TRUE]
    <3>1. run' = [run EXCEPT !.pc = run.pc, !.cancelled = TRUE]
      BY <1>1, <2>1 DEF LaunchRecords
    <3> QED BY <1>2, <2>1, <3>1, Zenon
  <2>2. CASE run.catches = "serve" /\ run' = [run EXCEPT !.pc = "closing"]
    <3>1. run' = [run EXCEPT !.pc = "closing", !.cancelled = run.cancelled] /\ run.cancelled \in BOOLEAN
      BY <1>1, <2>2 DEF LaunchRecords
    <3> QED BY <2>2, <3>1, Zenon
  <2>3. ASSUME run.catches = "child", NEW pc \in {run.pc, "stopping"}, run' = [run EXCEPT !.pc = pc]
        PROVE  \E c \in BOOLEAN : run' = [run EXCEPT !.pc = pc, !.cancelled = c]
    <3>1. run' = [run EXCEPT !.pc = pc, !.cancelled = run.cancelled] /\ run.cancelled \in BOOLEAN
      BY <1>1, <2>3 DEF LaunchRecords
    <3> QED BY <3>1, Zenon
  <2>4. CASE run' = [run EXCEPT !.pc = "killed"]
    <3>1. run' = [run EXCEPT !.pc = "killed", !.cancelled = run.cancelled] /\ run.cancelled \in BOOLEAN
      BY <1>1, <2>4 DEF LaunchRecords
    <3> QED BY <3>1, Zenon
  <2>5. \/ run.catches = "display" /\ run' = [run EXCEPT !.cancelled = TRUE]
        \/ run.catches = "serve" /\ run' = [run EXCEPT !.pc = "closing"]
        \/ run.catches = "child" /\ \E pc \in {run.pc, "stopping"} : run' = [run EXCEPT !.pc = pc]
        \/ run' = [run EXCEPT !.pc = "killed"]
    BY DEF Start!Signal, Start!Goes, run
  <2>6. CASE run.catches = "child" /\ \E pc \in {run.pc, "stopping"} : run' = [run EXCEPT !.pc = pc]
    <3>1. PICK pc \in {run.pc, "stopping"} : run' = [run EXCEPT !.pc = pc]
      BY <2>6
    <3>2. PICK c \in BOOLEAN : run' = [run EXCEPT !.pc = pc, !.cancelled = c]
      BY <2>3, <2>6, <3>1, Zenon
    <3> QED BY <1>2, <2>6, <3>2, Zenon
  <2> QED BY <2>1, <2>2, <2>4, <2>5, <2>6, ZenonT(40)
<1>4. /\ run' \in LaunchRecords /\ run'.pc = pc /\ run'.open = run.open
      /\ run'.command = run.command /\ run'.catalog = run.catalog /\ run'.file = run.file
      /\ run'.refreshed = run.refreshed /\ run'.catches = run.catches
  BY <1>1, <1>3 DEF LaunchRecords, LaunchPcs, WithClaude
<1>5. run.command = "claude" => Opened(pc) \subseteq run.open
  BY <1>2, <1>3 DEF LaunchInv, Opened, WithClaude
<1>6. pc \in {"closing", "over"} => "mirror" \notin run.open
  BY <1>1, <1>2, <1>3 DEF LaunchInv
<1>7. claude = "running" => pc \in WithClaude \cup {"killed"}
  BY <1>2, <1>3 DEF LaunchInv, WithClaude
<1>8. /\ run.catches = "child" => pc \in {"running", "stopping", "killed"}
      /\ run.catches = "serve" => pc \in {"serving", "closing", "over", "killed"}
  BY <1>2, <1>3
<1>9. /\ pc \in {"begin", "over"} => run.open = {}
      /\ pc \in {"begin", "locate", "lease", "login"} => run.catalog = 0 /\ ~run.refreshed
  BY <1>1, <1>3 DEF LaunchInv
<1> QED BY <1>1, <1>2, <1>4, <1>5, <1>6, <1>7, <1>8, <1>9, LaunchMoves DEF LaunchInv, LaunchTypes

LEMMA LaunchContinues == LaunchInv /\ [Start!Next]_(Start!vars) => LaunchInv'
<1>1. SUFFICES ASSUME LaunchInv, [Start!Next]_(Start!vars) PROVE LaunchInv'
  OBVIOUS
<1>2. CASE UNCHANGED Start!vars
  BY <1>1, <1>2 DEF Start!vars, LaunchInv, LaunchTypes, stored, logins, run, claude
<1> QED
  BY <1>1, <1>2, StepOpens, LaunchPrepares, LaunchCloses, ChildKeeps, SignalKeeps DEF Start!Next

LEMMA ClaudeHasAll == LaunchInv => Start!ClaudeIsServed
<1>1. SUFFICES ASSUME LaunchInv PROVE Start!ClaudeIsServed
  OBVIOUS
<1>2. \A pc \in WithClaude : Opened(pc) = Start!Opens \ {"again"}
  BY DEF Opened, WithClaude
<1> QED BY <1>1, <1>2 DEF LaunchInv, WithClaude, Start!ClaudeIsServed, run, claude

-----------------------------------------------------------------------------
(* The connection to the proxy                                             *)

conn == x1
wire == x2
asked == x3
replies == x4
remote == x5

LEMMA TablesOfOne == Proxy!GetRoutes = Proxy!LocalReads \union {<<"healthz">>}
  BY DEF Proxy!GetRoutes, Proxy!LocalReads

LEMMA TablesApart == Proxy!LocalReads \intersect Proxy!PostRoutes = {}
  BY DEF Proxy!PostRoutes, Proxy!LocalReads

LEMMA HealthStaysHere ==
  ASSUME NEW method PROVE ~Proxy!RemoteControlRouteAllowed(method, <<"healthz">>)
<1>1. Len(<<"healthz">>) = 1
  OBVIOUS
<1>2. ASSUME NEW top \in {<<"v1", "sessions">>, <<"v1", "code", "sessions">>, <<"v1", "environments">>,
                          <<"v1", "session_ingress">>, <<"api", "oauth", "files">>}
      PROVE  Len(top) > 1
  BY <1>2
<1>3. QED
  BY <1>1, <1>2 DEF Proxy!RemoteControlRouteAllowed, Proxy!Below

LEMMA TablesAlwaysAgree == ASSUME NEW method, NEW path PROVE Proxy!TablesAgree(method, path)
<1> DEFINE known == Proxy!NormalizePath(path)
<1>1. Proxy!Normalize(path) = known
  BY DEF Proxy!Normalize
<1> HIDE DEF known
<1>2. Proxy!RouteFor(method, path) = Proxy!RouteForRaw(method, known)
  BY <1>1 DEF Proxy!RouteFor
<1>3. ASSUME Proxy!RouteFor(method, path) = "local"
      PROVE  Proxy!Serves(method, path) = "handler" \/ method = "HEAD"
  BY <1>2, <1>3, TablesOfOne DEF Proxy!RouteForRaw, Proxy!Serves, Proxy!ReadOnly, known
<1>4. ASSUME Proxy!Serves(method, path) = "handler", known # <<"healthz">>
      PROVE  Proxy!RouteFor(method, path) = "local"
  <2>1. \/ method = "GET" /\ known \in Proxy!LocalReads
        \/ method = "POST" /\ known \in Proxy!PostRoutes
    BY <1>4, TablesOfOne DEF Proxy!Serves, known
  <2>2. QED
    BY <2>1, <1>2, TablesApart DEF Proxy!RouteForRaw, Proxy!ReadOnly
<1>5. ASSUME Proxy!RouteFor(method, path) = "anthropic"
      PROVE  Proxy!Serves(method, path) = "not found"
  <2>1. known \notin Proxy!LocalReads /\ known \notin Proxy!PostRoutes
          /\ Proxy!RemoteControlRouteAllowed(method, known)
    BY <1>2, <1>5 DEF Proxy!RouteForRaw
  <2>2. known \notin Proxy!GetRoutes \union Proxy!PostRoutes
    BY <2>1, HealthStaysHere, TablesOfOne
  <2>3. QED
    BY <2>2 DEF Proxy!Serves, known
<1>6. QED
  BY <1>3, <1>4, <1>5, Zenon DEF Proxy!TablesAgree, known

Asked == [method : {"GET", "POST"}, path : Proxy!AskedPaths, body : BOOLEAN, upgrade : BOOLEAN, close : BOOLEAN]
Answers == [to : Nat, by : {"proxy", "server", "anthropic"}]
Wires == Seq({"head", "body"})

ProxyTypes ==
  /\ conn \in {"open", "handshake", "idle", "routing", "tunnel", "closed"}
  /\ asked \in Seq(Asked)
  /\ replies \in Seq(Answers)
  /\ wire \in Wires
  /\ remote \in {"none", "open", "closed", "unreachable"}

\* Every answer is to the request it follows, and of one who may give it.
FromWhoMay(answer, request) ==
  /\ answer.by = "anthropic" => Proxy!Serves(request.method, request.path) = "not found"
  /\ answer.by = "server" => Proxy!Serves(request.method, request.path) = "handler"

EachItsAnswer ==
  /\ Len(replies) <= Len(asked)
  /\ \A i \in 1 .. Len(replies) : replies[i].to = i /\ FromWhoMay(replies[i], asked[i])

\* At most the body of a request whose head has been read
ARest(w) == IF w = <<>> THEN TRUE ELSE Len(w) = 1 /\ w[1] = "body"

\* The head of the last request, perhaps behind a body that nobody has read
AHead(w) == w # <<>> /\ IF w[1] = "head" THEN ARest(Tail(w)) ELSE Len(w) > 1

\* Where the connection is, what is on the wire and how many requests have no
\* answer go together.
WireFits ==
  /\ conn \in {"open", "handshake"} => Len(asked) = 0 /\ Len(replies) = 0 /\ wire = <<>>
  /\ conn = "idle" => IF ARest(wire) THEN Len(replies) = Len(asked)
                      ELSE AHead(wire) /\ Len(replies) + 1 = Len(asked)
  /\ conn = "routing" => Len(replies) + 1 = Len(asked) /\ ARest(wire)
  /\ conn = "tunnel" => Len(replies) = Len(asked)
  /\ remote = "open" => conn = "tunnel"

ProxyInv == ProxyTypes /\ EachItsAnswer /\ WireFits

LEMMA ProxyBegins == Proxy!Init => ProxyInv
<1> SUFFICES ASSUME Proxy!Init PROVE ProxyInv
  OBVIOUS
<1>1. /\ conn = "open" /\ remote = "none" /\ wire = <<>> /\ asked = <<>> /\ replies = <<>>
  BY DEF Proxy!Init, conn, wire, asked, replies, remote
<1>2. Len(asked) = 0 /\ Len(replies) = 0
  BY <1>1
<1>3. QED
  BY <1>1, <1>2 DEF ProxyInv, ProxyTypes, EachItsAnswer, WireFits, Wires

\* Nothing is asked or answered: the connection opens, ends or reads a head.
LEMMA WireKeeps ==
  ASSUME ProxyInv, asked' = asked, replies' = replies,
         conn' \in {"open", "handshake", "idle", "routing", "tunnel", "closed"},
         remote' \in {"none", "open", "closed", "unreachable"}, wire' \in Wires, WireFits'
  PROVE  ProxyInv'
<1>1. ProxyTypes'
  BY DEF ProxyInv, ProxyTypes
<1>2. EachItsAnswer'
  BY Zenon DEF ProxyInv, EachItsAnswer, FromWhoMay
<1>3. QED
  BY <1>1, <1>2 DEF ProxyInv

LEMMA OpeningKeeps ==
  ASSUME ProxyInv,
         \/ \E method \in {"CONNECT", "GET"}, host \in {"anthropic", "another"} : Proxy!Connect(method, host)
         \/ Proxy!Handshake
  PROVE  ProxyInv'
<1>1. /\ asked' = asked /\ replies' = replies /\ wire' = wire
      /\ conn \in {"open", "handshake"}
      /\ conn' \in {"handshake", "idle", "tunnel", "closed"}
      /\ remote' \in {remote, "open", "unreachable"}
      /\ remote' = "open" => conn' = "tunnel" \/ remote = "open"
  BY DEF Proxy!Connect, Proxy!Handshake, Proxy!Goes, conn, wire, asked, replies, remote
<1>2. Len(asked) = 0 /\ Len(replies) = 0 /\ wire = <<>> /\ remote # "open"
  BY <1>1 DEF ProxyInv, WireFits
<1>3. WireFits'
  BY <1>1, <1>2 DEF WireFits, ARest
<1>4. QED
  BY <1>1, <1>3, WireKeeps DEF ProxyInv, ProxyTypes

LEMMA EndingProxyKeeps ==
  ASSUME ProxyInv, Proxy!TunnelEnds \/ Proxy!ConnectionEnds PROVE ProxyInv'
<1>1. /\ asked' = asked /\ replies' = replies /\ wire' = wire /\ conn' = "closed"
      /\ remote' = IF remote = "open" THEN "closed" ELSE remote
  BY DEF Proxy!TunnelEnds, Proxy!ConnectionEnds, Proxy!CloseAll, Proxy!Goes, conn, wire, asked, replies, remote
<1>2. WireFits'
  BY <1>1 DEF WireFits
<1>3. QED
  BY <1>1, <1>2, WireKeeps DEF ProxyInv, ProxyTypes

LEMMA ReadingRequestKeeps == ASSUME ProxyInv, Proxy!ReadRequest PROVE ProxyInv'
<1>1. /\ asked' = asked /\ replies' = replies /\ remote' = remote
      /\ conn = "idle" /\ wire # <<>>
      /\ \/ wire[1] = "body" /\ conn' = "closed"
            /\ wire' = wire
         \/ wire[1] # "body" /\ conn' = "routing" /\ wire' = Tail(wire)
  BY DEF Proxy!ReadRequest, Proxy!Goes, conn, wire, asked, replies, remote
<1>2. WireFits'
  <2>1. remote # "open"
    BY <1>1 DEF ProxyInv, WireFits
  <2>2. CASE wire[1] = "body"
    BY <2>1, <2>2, <1>1 DEF WireFits
  <2>3. CASE wire[1] # "body"
    <3>1. wire[1] = "head"
      BY <2>3, <1>1 DEF ProxyInv, ProxyTypes, Wires
    <3>2. ~ARest(wire)
      BY <3>1, <1>1 DEF ARest
    <3>3. Len(replies) + 1 = Len(asked) /\ ARest(Tail(wire))
      BY <3>1, <3>2, <1>1 DEF ProxyInv, WireFits, AHead
    <3>4. QED
      BY <2>1, <2>3, <3>3, <1>1 DEF WireFits
  <2>4. QED
    BY <2>2, <2>3
<1>3. wire' \in Wires
  BY <1>1 DEF ProxyInv, ProxyTypes, Wires
<1>4. QED
  BY <1>1, <1>2, <1>3, WireKeeps DEF ProxyInv, ProxyTypes

LEMMA AskKeeps ==
  ASSUME ProxyInv, NEW method \in {"GET", "POST"}, NEW path \in Proxy!AskedPaths, NEW body \in BOOLEAN,
         NEW upgrade \in BOOLEAN, NEW close \in BOOLEAN, Proxy!Ask(method, path, body, upgrade, close)
  PROVE  ProxyInv'
<1> DEFINE request == [method |-> method, path |-> path, body |-> body, upgrade |-> upgrade, close |-> close]
<1>1. /\ conn = "idle" /\ conn' = conn /\ replies' = replies /\ remote' = remote
      /\ wire = <<>> \/ wire = <<"body">>
      /\ asked' = Append(asked, request)
      /\ wire' = wire \o <<"head">> \o (IF body THEN <<"body">> ELSE <<>>)
  BY DEF Proxy!Ask, conn, wire, asked, replies, remote
<1>2. request \in Asked
  BY DEF Asked
<1> HIDE DEF request
<1>3. /\ asked' \in Seq(Asked) /\ Len(asked') = Len(asked) + 1
      /\ \A i \in 1 .. Len(asked) : asked'[i] = asked[i]
  BY <1>1, <1>2 DEF ProxyInv, ProxyTypes
<1>4. wire' \in Wires /\ AHead(wire') /\ ~ARest(wire')
  <2> DEFINE rest == IF body THEN <<"body">> ELSE <<>>
  <2>1. rest \in Wires /\ ARest(rest)
    <3>1. <<>> \in Wires /\ ARest(<<>>)
      BY DEF ARest, Wires
    <3>2. <<"body">> \in Wires /\ Len(<<"body">>) = 1 /\ <<"body">>[1] = "body"
      BY DEF Wires
    <3>3. ARest(<<"body">>)
      BY <3>2 DEF ARest
    <3>4. QED
      BY <3>1, <3>2, <3>3
  <2> HIDE DEF rest
  <2>2. wire' = wire \o <<"head">> \o rest
    BY <1>1 DEF rest
  <2>3. CASE wire = <<>>
    <3>1. /\ wire' \in Wires /\ wire'[1] = "head" /\ Len(wire') = 1 + Len(rest)
          /\ \A i \in 1 .. Len(rest) : Tail(wire')[i] = rest[i]
      BY <2>1, <2>2, <2>3 DEF Wires
    <3>2. ARest(Tail(wire'))
      BY <2>1, <3>1 DEF ARest, Wires
    <3>3. QED
      BY <3>1, <3>2, <2>1 DEF AHead, ARest, Wires
  <2>4. CASE wire = <<"body">>
    <3>1. wire' \in Wires /\ wire'[1] = "body" /\ Len(wire') > 1 /\ Len(wire') # 1
      BY <2>1, <2>2, <2>4 DEF Wires
    <3>2. wire' # <<>> /\ wire'[1] # "head"
      BY <3>1
    <3>3. AHead(wire')
      BY <3>1, <3>2 DEF AHead
    <3>4. ~ARest(wire')
      BY <3>1, <3>2 DEF ARest
    <3>5. QED
      BY <3>1, <3>3, <3>4
  <2>5. QED
    BY <2>3, <2>4, <1>1
<1>5. Len(replies) = Len(asked)
  BY <1>1 DEF ProxyInv, WireFits, ARest
<1>6. EachItsAnswer'
  <2>1. Len(replies) \in Nat
    BY DEF ProxyInv, ProxyTypes
  <2>2. ASSUME NEW i \in 1 .. Len(replies) PROVE asked'[i] = asked[i]
    BY <2>2, <1>3, <1>5
  <2>3. ASSUME NEW i \in 1 .. Len(replies)
        PROVE  replies'[i].to = i /\ FromWhoMay(replies'[i], asked'[i])
    BY <2>2, <1>1 DEF ProxyInv, EachItsAnswer
  <2>4. \A i \in 1 .. Len(replies') : replies'[i].to = i /\ FromWhoMay(replies'[i], asked'[i])
    BY <2>3, <1>1
  <2>5. QED
    BY <2>1, <2>4, <1>1, <1>3, <1>5 DEF EachItsAnswer
<1>7. ProxyTypes'
  BY <1>1, <1>3, <1>4 DEF ProxyInv, ProxyTypes
<1>8. WireFits'
  BY <1>1, <1>3, <1>4, <1>5 DEF ProxyInv, WireFits
<1>9. QED
  BY <1>6, <1>7, <1>8 DEF ProxyInv

\* A request is answered by one who may answer it.
LEMMA AnswerFits ==
  ASSUME ProxyInv, conn = "routing", asked' = asked, wire' \in Wires, ARest(wire'),
         NEW by \in {"proxy", "server", "anthropic"},
         by = "server" => Proxy!Route = "local",
         by = "anthropic" => Proxy!Route = "anthropic",
         replies' = Append(replies, [to |-> Len(asked), by |-> by]),
         conn' \in {"idle", "tunnel", "closed"},
         remote' \in {"none", "open", "closed", "unreachable"}, remote' = "open" => conn' = "tunnel"
  PROVE  ProxyInv'
<1> DEFINE answer == [to |-> Len(asked), by |-> by]
<1>1. Len(replies) + 1 = Len(asked) /\ Len(asked) \in Nat /\ Len(replies) \in Nat
  BY DEF ProxyInv, ProxyTypes, WireFits
<1>2. answer \in Answers /\ answer.to = Len(asked) /\ answer.by = by
  BY <1>1 DEF Answers
<1> HIDE DEF answer
<1>3. replies' = Append(replies, answer)
  BY DEF answer
<1>4. /\ replies' \in Seq(Answers) /\ Len(replies') = Len(replies) + 1
      /\ \A i \in 1 .. Len(replies) : replies'[i] = replies[i]
      /\ replies'[Len(replies) + 1] = answer
  BY <1>2, <1>3 DEF ProxyInv, ProxyTypes
<1>5. ProxyTypes'
  BY <1>4 DEF ProxyInv, ProxyTypes
<1>6. FromWhoMay(answer, asked[Len(asked)])
  <2> DEFINE request == asked[Len(asked)]
  <2>1. request \in Asked
    BY <1>1 DEF ProxyInv, ProxyTypes
  <2>2. request.method # "HEAD"
    BY <2>1 DEF Asked
  <2>3. Proxy!Route = Proxy!RouteFor(request.method, request.path)
    BY DEF Proxy!Route, Proxy!Current, asked
  <2> HIDE DEF request
  <2>4. Proxy!TablesAgree(request.method, request.path)
    BY TablesAlwaysAgree
  <2>5. FromWhoMay(answer, request)
    BY <2>2, <2>3, <2>4, <1>2, Zenon DEF FromWhoMay, Proxy!TablesAgree
  <2>6. QED
    BY <2>5 DEF request
<1>7. EachItsAnswer'
  <2>1. ASSUME NEW i \in 1 .. Len(replies')
        PROVE  replies'[i].to = i /\ FromWhoMay(replies'[i], asked[i])
    <3>1. CASE i \in 1 .. Len(replies)
      BY <3>1, <1>4 DEF ProxyInv, EachItsAnswer
    <3>2. CASE i = Len(asked)
      BY <3>2, <1>1, <1>2, <1>4, <1>6
    <3>3. QED
      BY <3>1, <3>2, <1>1, <1>4
  <2>2. \A i \in 1 .. Len(replies') : replies'[i].to = i /\ FromWhoMay(replies'[i], asked'[i])
    BY <2>1
  <2>3. QED
    BY <2>2, <1>1, <1>4 DEF EachItsAnswer
<1>8. WireFits'
  BY <1>1, <1>4 DEF ProxyInv, WireFits
<1>9. QED
  BY <1>5, <1>7, <1>8 DEF ProxyInv

LEMMA ReplyKeeps == ASSUME ProxyInv, Proxy!Refuse \/ Proxy!Forward \/ Proxy!Upgrade PROVE ProxyInv'
<1>1. PICK by \in {"proxy", "server", "anthropic"} :
        /\ replies' = Append(replies, [to |-> Len(asked), by |-> by])
        /\ by = "server" => Proxy!Route = "local"
        /\ by = "anthropic" => Proxy!Route = "anthropic"
  BY DEF Proxy!Refuse, Proxy!Forward, Proxy!Upgrade, Proxy!Replied, asked, replies
<1>2. /\ conn = "routing" /\ asked' = asked
      /\ wire' \in {wire, <<>>}
      /\ conn' \in {"idle", "tunnel", "closed"}
      /\ remote' \in {remote, "open"}
      /\ remote' = "open" => conn' = "tunnel" \/ remote = "open"
  BY DEF Proxy!Refuse, Proxy!Forward, Proxy!Upgrade, Proxy!Replied, Proxy!Drained, Proxy!Goes,
         conn, wire, asked, remote
<1>3. wire' \in Wires /\ ARest(wire') /\ remote # "open"
  <2>1. wire \in Wires /\ ARest(wire) /\ remote # "open"
    BY <1>2 DEF ProxyInv, ProxyTypes, WireFits
  <2>2. <<>> \in Wires /\ ARest(<<>>)
    BY DEF Wires, ARest
  <2>3. CASE wire' = wire
    BY <2>1, <2>3
  <2>4. CASE wire' = <<>>
    BY <2>1, <2>2, <2>4
  <2>5. QED
    BY <2>3, <2>4, <1>2
<1>4. QED
  BY <1>1, <1>2, <1>3, AnswerFits DEF ProxyInv, ProxyTypes

LEMMA ProxyContinues == ProxyInv /\ [Proxy!Next]_(Proxy!vars) => ProxyInv'
<1> SUFFICES ASSUME ProxyInv, [Proxy!Next]_(Proxy!vars) PROVE ProxyInv'
  OBVIOUS
<1>1. CASE Proxy!vars' = Proxy!vars
  <2>1. conn' = conn /\ wire' = wire /\ asked' = asked /\ replies' = replies /\ remote' = remote
    BY <1>1 DEF Proxy!vars, conn, wire, asked, replies, remote
  <2>2. QED
    BY <2>1, WireKeeps DEF ProxyInv, ProxyTypes, WireFits
<1>2. CASE Proxy!Next
  BY <1>2, OpeningKeeps, EndingProxyKeeps, ReadingRequestKeeps, AskKeeps, ReplyKeeps DEF Proxy!Next
<1>3. QED
  BY <1>1, <1>2

LEMMA AnswersAlwaysFit == ProxyInv => Proxy!AnswersFit
<1> SUFFICES ASSUME ProxyInv PROVE Proxy!AnswersFit
  OBVIOUS
<1>1. \A i \in 1 .. Len(replies) : replies[i].to = i /\ FromWhoMay(replies[i], asked[i])
  BY DEF ProxyInv, EachItsAnswer
<1>2. Len(replies) < Len(asked) => conn \in {"routing", "closed"} \/ wire # <<>>
  <2>1. Len(replies) \in Nat /\ Len(asked) \in Nat
    BY DEF ProxyInv, ProxyTypes
  <2>2. QED
    BY <2>1 DEF ProxyInv, ProxyTypes, WireFits, AHead
<1>3. remote = "open" => conn = "tunnel"
  BY DEF ProxyInv, WireFits
<1>4. QED
  BY <1>1, <1>2, <1>3, Zenon DEF Proxy!AnswersFit, FromWhoMay, conn, wire, asked, replies, remote

-----------------------------------------------------------------------------
(* Tokens and limits                                                       *)

Counts == [input : Nat, cached : Nat, flat : Nat, read : Nat, creation : Nat, output : Nat, total : Nat]
Usages == [input : Nat, creation : Nat, read : Nat, output : Nat]

LEMMA UsageIsKnown ==
  ASSUME NEW u \in Counts
  PROVE  /\ Tokens!UsageFromMap(u) \in Usages
         /\ Tokens!CountOnce(u)
<1>1. /\ u.input \in Nat /\ u.cached \in Nat /\ u.flat \in Nat /\ u.read \in Nat
      /\ u.creation \in Nat /\ u.output \in Nat /\ u.total \in Nat
  BY DEF Counts
<1>2. Tokens!InputOf(u) \in Nat
  BY <1>1 DEF Tokens!InputOf
<1> DEFINE whole == Tokens!InputOf(u)
           cached == Tokens!Least(IF u.cached # 0 THEN u.cached ELSE u.flat, whole)
           included == u.cached + u.flat > 0
           usage == [input |-> IF included THEN whole - cached ELSE whole, creation |-> u.creation,
                     read |-> IF included THEN cached ELSE u.read, output |-> u.output]
<1>3. Tokens!UsageFromMap(u) = usage
  BY DEF Tokens!UsageFromMap
<1>4. cached \in Nat /\ cached <= whole
  BY <1>1, <1>2 DEF Tokens!Least
<1>5. usage.input \in Nat /\ usage.read \in Nat /\ usage.creation \in Nat /\ usage.output \in Nat
  BY <1>1, <1>2, <1>4
<1>6. usage \in Usages
  BY <1>5 DEF Usages
<1>7. included \/ u.read = 0 => usage.input + usage.read = whole
  BY <1>1, <1>2, <1>4
<1>8. QED
  BY <1>3, <1>5, <1>6, <1>7 DEF Tokens!CountOnce

LEMMA FinishIsKnown ==
  ASSUME NEW u \in Counts, NEW chars \in Nat, NEW blocks \in Nat
  PROVE  /\ Tokens!UsageForFinish(u, 1, chars, blocks) \in Usages
         /\ Tokens!UsageInputTokens(Tokens!UsageForFinish(u, 1, chars, blocks)) > 0
<1> DEFINE told == Tokens!UsageFromMap(u)
           filled == Tokens!UsageWithInputFallback(told, 1)
           last == Tokens!UsageForFinish(u, 1, chars, blocks)
<1>1. told \in Usages
  BY UsageIsKnown
<1> HIDE DEF told
<1>2. filled \in Usages /\ filled.input + filled.creation + filled.read > 0
  BY <1>1 DEF Usages, Tokens!UsageWithInputFallback, Tokens!UsageInputTokens
<1>3. Tokens!VisibleOutput(chars, blocks) \in Nat
  BY DEF Tokens!VisibleOutput
<1>4. \/ last = filled
      \/ last = [filled EXCEPT !.output = Tokens!VisibleOutput(chars, blocks)]
  BY DEF Tokens!UsageForFinish, told
<1> HIDE DEF filled, last
<1>5. last \in Usages /\ last.input + last.creation + last.read > 0
  BY <1>2, <1>3, <1>4 DEF Usages
<1>6. QED
  BY <1>5 DEF Tokens!UsageInputTokens, last

LEMMA StartsGrow ==
  ASSUME NEW u \in Counts, NEW added \in Nat, NEW chars \in Nat, NEW blocks \in Nat
  PROVE  Tokens!StartIsTheRest(u, added, chars, blocks)
<1> DEFINE last == Tokens!UsageForFinish(u, 1, chars, blocks)
           next == Tokens!EstimatedNextInputUsage(last, added)
           start == Tokens!UsageForStart(Tokens!Unsaid, next, 1)
           said == Tokens!UsageFromMap(Tokens!Unsaid)
<1>1. last \in Usages /\ Tokens!UsageInputTokens(last) > 0
  BY FinishIsKnown
<1>2. Tokens!UsageInputTokens(last) = last.input + last.creation + last.read
  BY DEF Tokens!UsageInputTokens
<1> HIDE DEF last
<1>3. /\ next \in Usages /\ next.input = last.input + last.output + added
      /\ next.creation = last.creation /\ next.read = last.read
  <2>1. next = [last EXCEPT !.input = last.input + last.output + added, !.output = 0]
    BY DEF Tokens!EstimatedNextInputUsage
  <2>2. last.input + last.output + added \in Nat
    BY <1>1 DEF Usages
  <2> HIDE DEF next
  <2>3. QED
    BY <1>1, <2>1, <2>2 DEF Usages
<1>4. said.input = 0 /\ said.creation = 0 /\ said.read = 0
  BY DEF Tokens!UsageFromMap, Tokens!Unsaid, Tokens!InputOf, Tokens!Least
<1> HIDE DEF next, said
<1>5. Tokens!UsageInputTokens(next) = Tokens!UsageInputTokens(last) + last.output + added
  BY <1>1, <1>2, <1>3 DEF Usages, Tokens!UsageInputTokens
<1>6. Tokens!UsageInputTokens(next) > 0 /\ Tokens!UsageInputTokens(said) = 0
  BY <1>1, <1>2, <1>4, <1>5 DEF Usages, Tokens!UsageInputTokens
<1>7. start = [Tokens!UsageWithInputFallback(next, 1) EXCEPT !.output = 0]
  BY <1>6 DEF Tokens!UsageForStart, said
<1>8. start = [next EXCEPT !.output = 0]
  BY <1>6, <1>7 DEF Tokens!UsageWithInputFallback
<1> HIDE DEF start
<1>9. start.output = 0 /\ Tokens!UsageInputTokens(start) = Tokens!UsageInputTokens(next)
  BY <1>3, <1>8 DEF Usages, Tokens!UsageInputTokens
<1>10. QED
  BY <1>5, <1>9 DEF Tokens!StartIsTheRest, start, next, last

AnyWindows == [minutes : Nat, used : Int]

LEMMA MinutesAreSeconds ==
  ASSUME NEW window \in AnyWindows
  PROVE  /\ Tokens!ApproxWindow(window, 5 * 3600) <=> Tokens!ApproxMinutes(window, 300)
         /\ Tokens!ApproxWindow(window, 7 * 24 * 3600) <=> Tokens!ApproxMinutes(window, 10080)
<1>1. window.minutes \in Nat
  BY DEF AnyWindows
<1>2. QED
  BY <1>1 DEF Tokens!ApproxWindow, Tokens!ApproxMinutes, Tokens!Distance

LEMMA WindowsAgree ==
  ASSUME NEW primary \in AnyWindows, NEW secondary \in AnyWindows
  PROVE  Tokens!ToldAlike(primary, secondary)
<1> DEFINE snapshot == Tokens!FromCodexHeaders(primary, secondary)
           claim == Tokens!RepresentativeClaim(snapshot)
           none == Tokens!NoWindow
<1>1. Tokens!CodexUsageToClaude(primary, secondary) = snapshot
  BY MinutesAreSeconds DEF Tokens!CodexUsageToClaude, Tokens!FromCodexHeaders
<1>2. none.used = -1
  BY DEF Tokens!NoWindow
<1>3. PICK five \in {primary, secondary, none}, seven \in {primary, secondary, none} :
        snapshot = [fiveHour |-> five, sevenDay |-> seven]
  BY DEF Tokens!FromCodexHeaders
<1>4. five.used \in Int /\ seven.used \in Int
  BY <1>2 DEF AnyWindows
<1> HIDE DEF snapshot, none
<1>5. snapshot.fiveHour = five /\ snapshot.sevenDay = seven
  BY <1>3
<1>6. ASSUME five.used >= 90 \/ seven.used >= 90
      PROVE  /\ claim = IF seven.used > five.used THEN "sevenDay" ELSE "fiveHour"
             /\ snapshot[claim].used >= five.used /\ snapshot[claim].used >= seven.used
  <2>1. snapshot # [fiveHour |-> none, sevenDay |-> none]
    BY <1>2, <1>4, <1>5, <1>6
  <2>2. claim = IF seven.used > five.used THEN "sevenDay" ELSE "fiveHour"
    BY <2>1, <1>5 DEF Tokens!RepresentativeClaim, none
  <2>3. QED
    BY <2>2, <1>3, <1>4
<1>7. Tokens!Status(snapshot, FALSE) = "rejected" => snapshot[claim].used >= 100
  <2>1. SUFFICES ASSUME five.used >= 100 \/ seven.used >= 100 PROVE snapshot[claim].used >= 100
    BY <1>5 DEF Tokens!Status
  <2>2. QED
    BY <2>1, <1>4, <1>6, <1>3
<1>8. Tokens!Status(snapshot, FALSE) = "allowed_warning" => snapshot[claim].used >= 90
  <2>1. SUFFICES ASSUME five.used >= 90 \/ seven.used >= 90 PROVE snapshot[claim].used >= 90
    BY <1>5 DEF Tokens!Status
  <2>2. QED
    BY <2>1, <1>4, <1>6, <1>3
<1>9. QED
  BY <1>1, <1>7, <1>8 DEF Tokens!ToldAlike, snapshot

-----------------------------------------------------------------------------
(* The conversation of a request                                           *)

LEMMA PairsDiffer ==
  ASSUME NEW a, NEW b, NEW c, NEW d, <<a, b>> = <<c, d>> PROVE a = c /\ b = d
<1>1. <<a, b>>[1] = <<c, d>>[1] /\ <<a, b>>[2] = <<c, d>>[2]
  OBVIOUS
<1>2. QED
  BY <1>1

\* What is drawn at random is nobody's name, and not 0.
LEMMA SharingIsOfOneSpeaker ==
  ASSUME NEW Names, "" \in Names, NEW Draws, Names \intersect Draws = {}, 0 \notin Draws,
         NEW q, NEW r, q.n \in Draws, r.n \in Draws, q.tools \in BOOLEAN, r.tools \in BOOLEAN,
         q.session \in Names, q.agent \in Names, r.session \in Names, r.agent \in Names,
         Routing!Share(q, r)
  PROVE  Routing!OneSpeaker(q, r)
<1>1. Routing!ResponseChainKey(q) = Routing!ResponseChainKey(r) /\ q.n # r.n
  BY Zenon DEF Routing!Share
<1>2. q.tools /\ r.tools /\ Routing!ThreadID(q) = Routing!ThreadID(r)
  BY <1>1, Zenon DEF Routing!ResponseChainKey
<1>3. ASSUME NEW p \in {q, r}
      PROVE  \/ /\ Routing!ThreadID(p) = <<p.session, "">> /\ p.session # ""
                /\ Routing!Speaker(p) = {<<p.session>>}
             \/ /\ Routing!ThreadID(p) = <<p.session, p.agent>> /\ p.agent # ""
                /\ Routing!Speaker(p) = {<<p.session, p.agent>>}
             \/ Routing!ThreadID(p) = <<"worker-request", p.n>>
             \/ Routing!ThreadID(p) = <<"random", p.n>>
  <2>1. p.n \in Draws /\ p.session \in Names /\ p.agent \in Names
    BY Zenon
  <2>2. CASE ~Routing!IsSubagent(p)
    BY <2>1, <2>2, Zenon DEF Routing!ThreadID, Routing!RouteSessionID, Routing!Speaker
  <2>3. CASE Routing!IsSubagent(p) /\ (p.session = "" \/ p.agent = "")
    <3>1. Routing!RouteSessionID(p) = <<"worker-request", p.n>>
      BY <2>3, Zenon DEF Routing!RouteSessionID, Routing!StatelessSubagent
    <3>2. Routing!RouteSessionID(p) # <<"", "">>
      BY <3>1, PairsDiffer, Zenon
    <3>3. QED
      BY <3>1, <3>2, Zenon DEF Routing!ThreadID
  <2>4. CASE Routing!IsSubagent(p) /\ p.session # "" /\ p.agent # ""
    <3>1. Routing!RouteSessionID(p) = <<p.session, p.agent>>
      BY <2>4, Zenon DEF Routing!RouteSessionID, Routing!StatelessSubagent
    <3>2. Routing!RouteSessionID(p) # <<"", "">>
      BY <2>4, <3>1, PairsDiffer, Zenon
    <3>3. QED
      BY <2>4, <3>1, <3>2, Zenon DEF Routing!ThreadID, Routing!Speaker
  <2>5. QED
    BY <2>2, <2>3, <2>4, Zenon
<1>4. Routing!Speaker(q) = Routing!Speaker(r) /\ Routing!Speaker(r) # {}
  <2> DEFINE Main(p) == /\ Routing!ThreadID(p) = <<p.session, "">>
                        /\ Routing!Speaker(p) = {<<p.session>>}
             Worker(p) == /\ Routing!ThreadID(p) = <<p.session, p.agent>> /\ p.agent # ""
                          /\ Routing!Speaker(p) = {<<p.session, p.agent>>}
             Drawn(p) == \E name : Routing!ThreadID(p) = <<name, p.n>>
  <2>1. /\ q.n \notin Names /\ r.n \notin Names /\ q.n # r.n
        /\ q.session \in Names /\ q.agent \in Names /\ r.session \in Names /\ r.agent \in Names
    BY <1>1, Zenon
  <2>2. (Main(q) \/ Worker(q) \/ Drawn(q)) /\ (Main(r) \/ Worker(r) \/ Drawn(r))
    BY <1>3, Zenon
  <2>3. CASE Drawn(q) \/ Drawn(r)
    <3>1. ASSUME NEW a, NEW m, NEW b, NEW n, Routing!ThreadID(q) = <<a, m>>, Routing!ThreadID(r) = <<b, n>>
          PROVE  m = n
      BY <3>1, <1>2, PairsDiffer, ZenonT(40)
    <3>2. CASE Drawn(q) /\ Drawn(r)
      BY <3>1, <3>2, <2>1, Zenon
    <3>3. CASE Drawn(q) /\ ~Drawn(r)
      BY <3>1, <3>3, <2>1, <2>2, Zenon
    <3>4. CASE Drawn(r) /\ ~Drawn(q)
      BY <3>1, <3>4, <2>1, <2>2, Zenon
    <3>5. QED
      BY <2>3, <3>2, <3>3, <3>4, Zenon
  <2>4. CASE Main(q) /\ Main(r)
    <3>1. <<q.session, "">> = <<r.session, "">>
      BY <2>4, <1>2, Zenon
    <3>2. q.session = r.session
      BY <3>1, PairsDiffer, Zenon
    <3>3. QED
      BY <2>4, <3>2, Zenon
  <2>5. CASE Worker(q) /\ Worker(r)
    BY <2>5, <1>2, PairsDiffer, Zenon
  <2>6. CASE (Main(q) /\ Worker(r)) \/ (Worker(q) /\ Main(r))
    <3>1. ASSUME NEW p, NEW o, Main(p), Worker(o), Routing!ThreadID(p) = Routing!ThreadID(o) PROVE FALSE
      <4>1. <<p.session, "">> = <<o.session, o.agent>>
        BY <3>1, Zenon
      <4>2. QED
        BY <3>1, <4>1, PairsDiffer, Zenon
    <3>2. QED
      BY <2>6, <3>1, <1>2, Zenon
  <2>7. QED
    BY <2>2, <2>3, <2>4, <2>5, <2>6, Zenon
<1>5. QED
  BY <1>2, <1>4, Zenon DEF Routing!OneSpeaker

LEMMA ConversationsAreApart == ASSUME NEW q \in Routing!Requests PROVE Routing!Apart(q)
<1> DEFINE Names == {"", "s", "t", "a", "b", "bad"}
           Draws == 1 .. 2
<1>1. ASSUME NEW r \in Routing!Requests, Routing!Share(q, r) PROVE Routing!OneSpeaker(q, r)
  <2>1. ASSUME NEW p \in {q, r}
        PROVE  p.n \in Draws /\ p.tools \in BOOLEAN /\ p.session \in Names /\ p.agent \in Names
    BY Zenon DEF Routing!Requests
  <2>2. "" \in Names /\ Names \intersect Draws = {} /\ 0 \notin Draws
    OBVIOUS
  <2> HIDE DEF Names, Draws
  <2>3. QED
    BY <1>1, <2>1, <2>2, SharingIsOfOneSpeaker, Zenon
<1>2. QED
  BY <1>1 DEF Routing!Apart

-----------------------------------------------------------------------------
(* Failures                                                                *)

Delays == Nat \union {Errors!Unset}

\* What a failure may say, with any delays
AnyReports ==
  [code : Errors!Codes, says : Delays, words : BOOLEAN, header : Delays, retryable : BOOLEAN,
   headers : Delays, live : BOOLEAN, left : BOOLEAN, resumed : BOOLEAN, wrote : BOOLEAN]

Said(in) ==
  [code |-> in.code, says |-> in.says, words |-> in.words, header |-> in.header,
   retryable |-> in.retryable]
At(in, status) ==
  [status |-> status, headers |-> in.headers, live |-> in.live, left |-> in.left,
   resumed |-> in.resumed, wrote |-> in.wrote]

LEMMA SaidAlike ==
  ASSUME NEW in \in AnyReports, Errors!Tells(in), NEW payload \in Errors!Payloads(in)
  PROVE  Errors!ParseResponseFailure(payload) = Said(in)
<1> DEFINE silent == Errors!Silent
           said == Said(in)
           bare == [said EXCEPT !.header = Errors!Unset]
           headed == [silent EXCEPT !.header = in.header]
           other == [silent EXCEPT !.code = "another", !.words = TRUE]
           places == Errors!Candidates(payload)
           told == {n \in 1 .. 3 : Errors!Tells(places[n])}
           marked == {n \in 1 .. 3 : places[n].header # Errors!Unset}
<1>1. \/ payload = [error |-> said, response |-> silent, top |-> silent]
      \/ payload = [error |-> silent, response |-> said, top |-> silent]
      \/ payload = [error |-> silent, response |-> silent, top |-> said]
      \/ payload = [error |-> said, response |-> other, top |-> other]
      \/ payload = [error |-> bare, response |-> silent, top |-> headed]
      \/ payload = [error |-> headed, response |-> bare, top |-> silent]
  BY DEF Errors!Payloads, Said
<1>2. places = <<payload.error, payload.response, payload.top>>
  BY DEF Errors!Candidates
<1>3. /\ places[1] = payload.error /\ places[2] = payload.response /\ places[3] = payload.top
  BY <1>2
<1>4. /\ Errors!Tells(said) /\ Errors!Tells(bare) /\ ~Errors!Tells(silent) /\ ~Errors!Tells(headed)
      /\ said.header = in.header /\ headed.header = in.header
      /\ bare.header = Errors!Unset /\ silent.header = Errors!Unset /\ other.header = Errors!Unset
  BY Zenon DEF Errors!Tells, Errors!Silent, Said
<1>5. Errors!ParseResponseFailure(payload)
        = IF told = {} THEN silent
          ELSE [Errors!First(places, told) EXCEPT !.header = Errors!First(places, marked).header]
  BY DEF Errors!ParseResponseFailure
<1>6. [said EXCEPT !.header = in.header] = said /\ [bare EXCEPT !.header = in.header] = said
  <2> DEFINE Stated == [code : {in.code}, says : {in.says}, words : {in.words}, header : {in.header, Errors!Unset},
                        retryable : {in.retryable}]
  <2>1. said \in Stated /\ said.header = in.header
    BY DEF Said
  <2> HIDE DEF said
  <2>2. bare \in Stated
    BY <2>1
  <2>3. [said EXCEPT !.header = in.header] = said
    BY <2>1
  <2>4. [bare EXCEPT !.header = in.header] = said
    BY <2>1, <2>2
  <2>5. QED
    BY <2>3, <2>4
<1> HIDE DEF places, said, bare, headed, silent, other
<1>7. \A n \in 1 .. 3 : n = 1 \/ n = 2 \/ n = 3
  OBVIOUS
<1>8. /\ told # {} /\ Errors!First(places, marked).header = in.header
      /\ Errors!First(places, told) = said \/ Errors!First(places, told) = bare
  <2>1. CASE payload = [error |-> said, response |-> silent, top |-> silent]
    BY <2>1, <1>3, <1>4, <1>7 DEF Errors!First
  <2>2. CASE payload = [error |-> silent, response |-> said, top |-> silent]
    BY <2>2, <1>3, <1>4, <1>7 DEF Errors!First
  <2>3. CASE payload = [error |-> silent, response |-> silent, top |-> said]
    BY <2>3, <1>3, <1>4, <1>7 DEF Errors!First
  <2>4. CASE payload = [error |-> bare, response |-> silent, top |-> headed]
    BY <2>4, <1>3, <1>4, <1>7 DEF Errors!First
  <2>5. CASE payload = [error |-> headed, response |-> bare, top |-> silent]
    BY <2>5, <1>3, <1>4, <1>7 DEF Errors!First
  <2>7. CASE payload = [error |-> said, response |-> other, top |-> other]
    BY <2>7, <1>3, <1>4, <1>7 DEF Errors!First
  <2>6. QED
    BY <1>1, <2>1, <2>2, <2>3, <2>4, <2>5, <2>7
<1>9. QED
  BY <1>5, <1>6, <1>8 DEF said

LEMMA TellOrTryAgain ==
  ASSUME NEW type, NEW wait
  PROVE  /\ Errors!Tell(type).then = "tell" /\ Errors!Tell(type).type = type
         /\ Errors!TryAgain(wait).then = "try again" /\ Errors!TryAgain(wait).wait = wait
  BY DEF Errors!Tell, Errors!TryAgain

\* What an event of a stream becomes
StreamedOf(in) ==
  IF ~Errors!GivenUp(At(in, 0), Said(in)) THEN Errors!Tell(Errors!EventType(Said(in), ""))
  ELSE IF in.wrote THEN Errors!Tell("overloaded_error")
  ELSE IF in.left /\ Errors!ShouldRetryStream(At(in, 0), Said(in))
       THEN Errors!TryAgain(Errors!Longest(Errors!DelayOf(in.headers), Errors!RetryAfter(Said(in))))
       ELSE Errors!Tell(Errors!MappedStreamError(Said(in)))

CollectedOf(in) ==
  IF in.left /\ Errors!ShouldRetryStream(At(in, 0), Said(in)) THEN Errors!TryAgain(0)
  ELSE Errors!Tell(IF in.code = "rate" THEN "rate_limit_error" ELSE "api_error")

LEMMA OutcomesKnown ==
  ASSUME NEW in \in AnyReports, Errors!Tells(in), NEW payload \in Errors!Payloads(in)
  PROVE  /\ Errors!Streamed(At(in, 0), payload, "") = StreamedOf(in)
         /\ Errors!Collected(At(in, 0), payload) = CollectedOf(in)
<1>1. Errors!ParseResponseFailure(payload) = Said(in)
  BY SaidAlike
<1>2. /\ At(in, 0).wrote = in.wrote /\ At(in, 0).left = in.left /\ At(in, 0).headers = in.headers
      /\ Said(in).code = in.code
  BY DEF At, Said
<1>3. Errors!Streamed(At(in, 0), payload, "") = StreamedOf(in)
  BY <1>1, <1>2, Zenon DEF Errors!Streamed, StreamedOf
<1>4. Errors!Collected(At(in, 0), payload) = CollectedOf(in)
  BY <1>1, <1>2 DEF Errors!Collected, CollectedOf
<1>5. QED
  BY <1>3, <1>4, Zenon

LEMMA StreamsTold ==
  ASSUME NEW in \in AnyReports
  PROVE  /\ StreamedOf(in).then = "tell" =>
              /\ in.code = "rate" => StreamedOf(in).type = "rate_limit_error"
              /\ in.code = "policy" => StreamedOf(in).type = "invalid_request_error"
         /\ in.code \in Errors!TerminalCodes => StreamedOf(in).then = "tell"
         /\ StreamedOf(in).then = "try again" =>
              /\ in.live /\ in.left /\ ~in.wrote
              /\ StreamedOf(in).wait >= in.headers /\ StreamedOf(in).wait >= in.header
              /\ in.header = Errors!Unset => StreamedOf(in).wait >= in.says
         /\ in.live /\ in.left /\ ~in.wrote /\ in.code \notin Errors!TerminalCodes
              /\ (in.header # Errors!Unset \/ in.code = "rate") => StreamedOf(in).then = "try again"
<1> DEFINE at == At(in, 0)
           failure == Said(in)
           wait == Errors!Longest(Errors!DelayOf(in.headers), Errors!RetryAfter(failure))
<1>1. /\ in.live \in BOOLEAN /\ in.left \in BOOLEAN /\ in.wrote \in BOOLEAN
      /\ in.headers \in Delays /\ in.header \in Delays /\ in.says \in Delays /\ in.code \in Errors!Codes
  BY DEF AnyReports
<1>2. /\ at.live = in.live /\ at.left = in.left /\ at.wrote = in.wrote /\ at.resumed = in.resumed
      /\ failure.code = in.code /\ failure.header = in.header /\ failure.says = in.says
  BY DEF At, Said
<1> HIDE DEF at, failure
<1>3. /\ wait >= in.headers /\ wait >= in.header
      /\ in.header = Errors!Unset => wait >= in.says
  BY <1>1, <1>2 DEF Errors!Longest, Errors!DelayOf, Errors!RetryAfter, Delays, Errors!Unset
<1>4. Errors!GivenUp(at, failure) =>
        in.code \notin Errors!TerminalCodes /\ (in.wrote => in.code = "content_filter")
  BY <1>2 DEF Errors!GivenUp
<1>5. Errors!ShouldRetryStream(at, failure) => in.live /\ in.code \notin Errors!TerminalCodes
  BY <1>2 DEF Errors!ShouldRetryStream
<1>6. ASSUME in.live, ~in.wrote, in.code \notin Errors!TerminalCodes,
             in.header # Errors!Unset \/ in.code = "rate"
      PROVE  Errors!GivenUp(at, failure) /\ Errors!ShouldRetryStream(at, failure)
  BY <1>2, <1>6 DEF Errors!GivenUp, Errors!ShouldRetryStream, Errors!RetrySet, Errors!RetryableCodes
<1>7. /\ in.code = "rate" => /\ Errors!EventType(failure, "") = "rate_limit_error"
                             /\ Errors!MappedStreamError(failure) = "rate_limit_error"
      /\ in.code = "policy" => /\ Errors!EventType(failure, "") = "invalid_request_error"
                               /\ Errors!MappedStreamError(failure) = "invalid_request_error"
  BY <1>2 DEF Errors!EventType, Errors!AnthropicFailureType, Errors!MappedStreamError
<1> DEFINE told == StreamedOf(in)
<1>8. \/ ~Errors!GivenUp(at, failure) /\ told.then = "tell" /\ told.type = Errors!EventType(failure, "")
      \/ Errors!GivenUp(at, failure) /\ in.wrote /\ told.then = "tell"
      \/ /\ Errors!GivenUp(at, failure) /\ ~in.wrote /\ in.left /\ Errors!ShouldRetryStream(at, failure)
         /\ told.then = "try again" /\ told.wait = wait
      \/ /\ ~(in.left /\ Errors!ShouldRetryStream(at, failure)) /\ ~in.wrote
         /\ told.then = "tell" /\ told.type = Errors!MappedStreamError(failure)
  BY TellOrTryAgain, Zenon DEF StreamedOf, at, failure
<1> HIDE DEF told, wait
<1>9. "rate" \notin Errors!TerminalCodes
  BY DEF Errors!TerminalCodes
<1>10. QED
  BY <1>1, <1>3, <1>4, <1>5, <1>6, <1>7, <1>8, <1>9, Zenon DEF told

LEMMA AnswersTold ==
  ASSUME NEW in \in AnyReports, Errors!Tells(in), NEW payload \in Errors!Payloads(in),
         NEW status \in Errors!Statuses(in),
         Errors!Answered(At(in, status), payload).then = "tell"
  PROVE  LET told == Errors!Answered(At(in, status), payload) IN
         /\ in.code = "rate" => told.type = "rate_limit_error"
         /\ in.code = "policy" => told.type = "invalid_request_error"
<1> DEFINE told == Errors!Answered(At(in, status), payload)
<1>1. Errors!ParseResponseFailure(payload) = Said(in) /\ Said(in).code = in.code
        /\ At(in, status).status = status
  BY SaidAlike DEF Said, At
<1>2. told.type = Errors!MapUpstreamStatus(status, in.code)
  <2>1. \/ told = Errors!Tell(Errors!MapUpstreamStatus(status, in.code))
        \/ \E wait : told = Errors!TryAgain(wait)
    BY <1>1 DEF Errors!Answered
  <2>2. QED
    BY <2>1, TellOrTryAgain, Zenon
<1>3. in.code = "rate" => status = 429 \/ status = 503
  BY DEF Errors!Statuses
<1>4. in.code = "policy" => Errors!MapUpstreamStatus(status, in.code) = "invalid_request_error"
  BY DEF Errors!MapUpstreamStatus
<1>5. in.code = "rate" => Errors!MapUpstreamStatus(status, in.code) = "rate_limit_error"
  BY <1>3 DEF Errors!MapUpstreamStatus
<1>6. QED
  BY <1>2, <1>4, <1>5

LEMMA FailuresAlwaysTold ==
  ASSUME NEW in \in AnyReports, Errors!Tells(in)
  PROVE  Errors!FailuresAreTold(in)
<1> DEFINE ways == UNION {{Errors!Streamed(At(in, 0), payload, "")}
                            \cup {Errors!Answered(At(in, s), payload) : s \in Errors!Statuses(in)}
                            : payload \in Errors!Payloads(in)}
           stream == {Errors!Streamed(At(in, 0), payload, "") : payload \in Errors!Payloads(in)}
           collected == {Errors!Collected(At(in, 0), payload) : payload \in Errors!Payloads(in)}
<1>1. Errors!Payloads(in) # {}
  BY DEF Errors!Payloads
<1>2. stream = {StreamedOf(in)} /\ collected = {CollectedOf(in)}
  BY <1>1, OutcomesKnown, Zenon
<1>3. \A told \in ways : told.then = "tell" =>
        /\ in.code = "rate" => told.type = "rate_limit_error"
        /\ in.code = "policy" => told.type = "invalid_request_error"
  <2> SUFFICES ASSUME NEW payload \in Errors!Payloads(in), NEW told,
                      \/ told = Errors!Streamed(At(in, 0), payload, "")
                      \/ \E s \in Errors!Statuses(in) : told = Errors!Answered(At(in, s), payload),
                      told.then = "tell"
               PROVE  /\ in.code = "rate" => told.type = "rate_limit_error"
                      /\ in.code = "policy" => told.type = "invalid_request_error"
    BY Zenon
  <2>1. QED
    BY StreamsTold, AnswersTold, OutcomesKnown, Zenon
<1>4. CollectedOf(in).then = "tell" /\ in.code = "rate" => CollectedOf(in).type = "rate_limit_error"
  BY TellOrTryAgain, Zenon DEF CollectedOf
<1> HIDE DEF ways, stream, collected
<1>5. /\ \A told \in ways : told.then = "tell" =>
           /\ in.code = "rate" => told.type = "rate_limit_error"
           /\ in.code = "policy" => told.type = "invalid_request_error"
      /\ \A told, other \in stream : told = other
      /\ \A told, other \in collected : told = other
      /\ \A told \in stream :
           /\ in.code \in Errors!TerminalCodes => told.then = "tell"
           /\ told.then = "try again" =>
                /\ in.live /\ in.left /\ ~in.wrote
                /\ told.wait >= in.headers /\ told.wait >= in.header
                /\ in.header = Errors!Unset => told.wait >= in.says
           /\ in.live /\ in.left /\ ~in.wrote /\ in.code \notin Errors!TerminalCodes
                /\ (in.header # Errors!Unset \/ in.code = "rate") => told.then = "try again"
      /\ \A told \in collected : told.then = "tell" /\ in.code = "rate" => told.type = "rate_limit_error"
  BY <1>2, <1>3, <1>4, StreamsTold, Zenon
<1>6. QED
  BY <1>5, Zenon DEF Errors!FailuresAreTold, At, ways, stream, collected

-----------------------------------------------------------------------------
(* The environment of Claude Code and of its tools                         *)

\* An environment that nothing of claudodex is in, whatever is set.
Untouched(env) ==
  /\ env = [set |-> env.set, original |-> env.original, real |-> env.real, token |-> env.token,
            bridge |-> env.bridge, keychain |-> env.keychain, credentials |-> env.credentials]
  /\ env.set = [k \in DOMAIN env.set |-> env.set[k]]
  /\ env.original = Environment!Nothing
  /\ env.keychain \in Environment!Secrets /\ env.credentials \in Environment!Secrets /\ env.bridge \in {"", "user's"}

\* One that claudodex has not been started from.
Fresh(env) == Untouched(env) /\ env.bridge = ""

LEMMA CaptureKeepsAll ==
  ASSUME NEW env, Untouched(env)
  PROVE  LET captured == Environment!CaptureOriginalToolEnv(env) IN
         captured = [set |-> env.set, original |-> env.set, real |-> env.real, token |-> env.token,
                     bridge |-> env.bridge, keychain |-> env.keychain, credentials |-> env.credentials]
<1>1. DOMAIN env.original = {}
  BY Zenon DEF Untouched, Environment!Nothing
<1> DEFINE kept == [k \in DOMAIN env.set \cup DOMAIN env.original |->
                      Environment!Given(env.set, k, Environment!Given(env.original, k, ""))]
<1>2. kept = env.set
  BY <1>1, Zenon DEF Untouched, Environment!Given
<1>6. Environment!CaptureOriginalToolEnv(env) = [env EXCEPT !.original = kept]
  BY DEF Environment!CaptureOriginalToolEnv
<1> HIDE DEF kept
<1>3. Environment!CaptureOriginalToolEnv(env) = [env EXCEPT !.original = env.set]
  BY <1>2, <1>6
<1> DEFINE set == env.set
           captured == Environment!CaptureOriginalToolEnv(env)
<1>4. env = [set |-> set, original |-> env.original, real |-> env.real, token |-> env.token,
             bridge |-> env.bridge, keychain |-> env.keychain, credentials |-> env.credentials]
  BY Zenon DEF Untouched
<1>5. QED
  BY <1>3, <1>4

\* What claudodex makes of what is set.
ClaudeSet(set, socket) ==
  LET shimmed == Environment!Put(set, "SHELL", "shim")
      routed == IF socket THEN Environment!Delete(shimmed, Environment!Proxies) ELSE shimmed
      entries == Environment!MergeNoProxy(
                   Environment!FilterNoProxy(Environment!Given(routed, "NO_PROXY", {})),
                   {Environment!Host("127.0.0.1"), Environment!Host("localhost")})
  IN  Environment!Put(Environment!Put(Environment!Put(routed, "HTTPS_PROXY", "claudodex"),
                                      "NO_PROXY", entries),
                      "NODE_EXTRA_CA_CERTS", "claudodex")

LEMMA ChildIsKnown ==
  ASSUME NEW env, Untouched(env), NEW socket \in BOOLEAN
  PROVE  LET child == Environment!BuildClaudeEnv(env, socket) IN
         /\ child.set = ClaudeSet(env.set, socket)
         /\ child.original = env.set
         /\ child.real = Environment!CompatibleToolShell(Environment!Given(env.set, "SHELL", ""))
         /\ child.token = IF socket THEN "local" ELSE ""
         /\ child.bridge = IF env.bridge = "" THEN Environment!RealToken(env) ELSE env.bridge
         /\ child.keychain = env.keychain /\ child.credentials = env.credentials
         /\ child = [set |-> child.set, original |-> child.original, real |-> child.real,
                     token |-> child.token, bridge |-> child.bridge, keychain |-> child.keychain,
                     credentials |-> child.credentials]
<1> DEFINE shell == Environment!CompatibleToolShell(Environment!Given(env.set, "SHELL", ""))
           shimmed == Environment!Put(env.set, "SHELL", "shim")
           routed == IF socket THEN Environment!Delete(shimmed, Environment!Proxies) ELSE shimmed
           token == IF socket THEN "local" ELSE ""
           one == Environment!CaptureOriginalToolEnv(env)
           two == Environment!ConfigureShellShim(one)
           three == Environment!UseSocket(two, socket)
           four == Environment!UseProxy(three)
           child == Environment!BuildClaudeEnv(env, socket)
<1>1. one = [set |-> env.set, original |-> env.set, real |-> env.real, token |-> env.token,
             bridge |-> env.bridge, keychain |-> env.keychain, credentials |-> env.credentials]
  BY CaptureKeepsAll
<1>2. child = Environment!WithRealClaudeBridgeAuth(four)
  BY DEF Environment!BuildClaudeEnv
<1> HIDE DEF one, child
<1>3. two = [set |-> shimmed, original |-> env.set, real |-> shell, token |-> env.token,
             bridge |-> env.bridge, keychain |-> env.keychain, credentials |-> env.credentials]
  <2>1. two = [one EXCEPT !.real = Environment!CompatibleToolShell(Environment!Given(one.set, "SHELL", "")),
                          !.set = Environment!Put(one.set, "SHELL", "shim")]
    BY DEF Environment!ConfigureShellShim
  <2>2. one.set = env.set
    BY <1>1
  <2>3. two = [one EXCEPT !.real = shell, !.set = shimmed]
    BY <2>1, <2>2
  <2> HIDE DEF two, shell, shimmed
  <2>4. QED
    BY <1>1, <2>3
<1> HIDE DEF two, shell, shimmed
<1>4. three = [set |-> routed, original |-> env.set, real |-> shell, token |-> token,
               bridge |-> env.bridge, keychain |-> env.keychain, credentials |-> env.credentials]
  BY <1>3, Zenon DEF Environment!UseSocket
<1>5. ClaudeSet(env.set, socket) =
        Environment!Put(Environment!Put(Environment!Put(routed, "HTTPS_PROXY", "claudodex"), "NO_PROXY",
          Environment!MergeNoProxy(
            Environment!FilterNoProxy(Environment!Given(routed, "NO_PROXY", {})),
            {Environment!Host("127.0.0.1"), Environment!Host("localhost")})), "NODE_EXTRA_CA_CERTS", "claudodex")
  BY DEF ClaudeSet, shimmed
<1> HIDE DEF three, routed, token
<1>6. four = [set |-> ClaudeSet(env.set, socket), original |-> env.set, real |-> shell, token |-> token,
              bridge |-> env.bridge, keychain |-> env.keychain, credentials |-> env.credentials]
  BY <1>4, <1>5 DEF Environment!UseProxy
<1> HIDE DEF four
<1>7. Environment!RealToken(four) = Environment!RealToken(env)
  BY <1>6 DEF Environment!RealToken
<1>8. child = [set |-> ClaudeSet(env.set, socket), original |-> env.set, real |-> shell, token |-> token,
               bridge |-> IF env.bridge = "" THEN Environment!RealToken(env) ELSE env.bridge,
               keychain |-> env.keychain, credentials |-> env.credentials]
  BY <1>2, <1>6, <1>7, Zenon DEF Environment!WithRealClaudeBridgeAuth
<1>9. /\ child.set = ClaudeSet(env.set, socket) /\ child.original = env.set /\ child.real = shell
      /\ child.token = token
      /\ child.bridge = IF env.bridge = "" THEN Environment!RealToken(env) ELSE env.bridge
      /\ child.keychain = env.keychain /\ child.credentials = env.credentials
      /\ child = [set |-> child.set, original |-> child.original, real |-> child.real,
                  token |-> child.token, bridge |-> child.bridge, keychain |-> child.keychain,
                  credentials |-> child.credentials]
  BY <1>8, Zenon
<1>10. QED
  BY <1>9, Zenon DEF child, shell, token

\* The tools get back what was there, and claudodex can be started from them.
LEMMA ToolsGetTheirOwn ==
  ASSUME NEW env, Untouched(env), NEW socket \in BOOLEAN
  PROVE  LET tool == Environment!ShellShim(Environment!BuildClaudeEnv(env, socket)) IN
         tool.set = env.set /\ Untouched(tool)
<1> DEFINE child == Environment!BuildClaudeEnv(env, socket)
           tool == Environment!ShellShim(child)
<1>1. /\ child.original = env.set
      /\ child.bridge = IF env.bridge = "" THEN Environment!RealToken(env) ELSE env.bridge
      /\ child.keychain = env.keychain /\ child.credentials = env.credentials
      /\ child = [set |-> child.set, original |-> child.original, real |-> child.real,
                  token |-> child.token, bridge |-> child.bridge, keychain |-> child.keychain,
                  credentials |-> child.credentials]
  BY ChildIsKnown, Zenon
<1> HIDE DEF child
<1>2. [k \in DOMAIN child.original |-> child.original[k]] = env.set
  BY <1>1, Zenon DEF Untouched
<1>3. tool = [child EXCEPT !.set = env.set, !.original = Environment!Nothing, !.real = ""]
  BY <1>2 DEF Environment!ShellShim
<1>4. tool = [set |-> env.set, original |-> Environment!Nothing, real |-> "", token |-> child.token,
              bridge |-> child.bridge, keychain |-> child.keychain, credentials |-> child.credentials]
  BY <1>1, <1>3, Zenon
<1> HIDE DEF tool
<1>5. child.bridge \in {"", "user's"}
  BY <1>1, Zenon DEF Untouched, Environment!RealToken, Environment!Secrets
<1>6. QED
  <2>1. /\ tool.set = env.set /\ tool.original = Environment!Nothing /\ tool.bridge = child.bridge
        /\ tool.keychain = env.keychain /\ tool.credentials = env.credentials
        /\ tool = [set |-> tool.set, original |-> tool.original, real |-> tool.real, token |-> tool.token,
                   bridge |-> tool.bridge, keychain |-> tool.keychain, credentials |-> tool.credentials]
    BY <1>1, <1>4, Zenon
  <2>2. Untouched(tool)
    BY <1>5, <2>1, Zenon DEF Untouched
  <2>3. QED
    BY <2>1, <2>2 DEF tool, child

\* Claude Code reaches Anthropic by way of claudodex, and this machine directly.
LEMMA WaysOfClaude ==
  ASSUME NEW env, Untouched(env), NEW socket \in BOOLEAN
  PROVE  LET child == Environment!BuildClaudeEnv(env, socket) IN
         /\ Environment!Way(child, "api.anthropic.com") = "claudodex"
         /\ Environment!Way(child, "127.0.0.1") = "direct"
<1> DEFINE child == Environment!BuildClaudeEnv(env, socket)
           local == {Environment!Host("127.0.0.1"), Environment!Host("localhost")}
<1>1. child.set = ClaudeSet(env.set, socket)
  BY ChildIsKnown, Zenon
<1> HIDE DEF child
<1>2. PICK given :
        LET entries == Environment!MergeNoProxy(Environment!FilterNoProxy(given), local) IN
        /\ "NO_PROXY" \in DOMAIN child.set /\ child.set["NO_PROXY"] = entries
        /\ "HTTPS_PROXY" \in DOMAIN child.set /\ child.set["HTTPS_PROXY"] = "claudodex"
  BY <1>1 DEF ClaudeSet, Environment!Put
<1> DEFINE entries == Environment!MergeNoProxy(Environment!FilterNoProxy(given), local)
<1>3. \A entry \in entries : entry.host \notin {"*", "anthropic.com", "api.anthropic.com"}
  BY DEF Environment!MergeNoProxy, Environment!FilterNoProxy, Environment!NoProxyEntryMatchesAnthropic,
         Environment!Host
<1>4. \E entry \in entries : entry.host = "127.0.0.1"
  <2>1. Environment!Host("127.0.0.1") \in entries
    BY DEF Environment!MergeNoProxy
  <2>2. Environment!Host("127.0.0.1").host = "127.0.0.1"
    BY DEF Environment!Host
  <2>3. QED
    BY <2>1, <2>2
<1> HIDE DEF entries
<1>5. Environment!Given(child.set, "NO_PROXY", {}) = entries
  BY <1>2 DEF Environment!Given, entries
<1>6. ~Environment!Excepted(child, "api.anthropic.com") /\ Environment!Excepted(child, "127.0.0.1")
  BY <1>3, <1>4, <1>5 DEF Environment!Excepted
<1>7. QED
  BY <1>2, <1>6 DEF Environment!Way, Environment!Given, child

LEMMA EnvironmentsStayApart ==
  ASSUME NEW env, Fresh(env), NEW socket \in BOOLEAN
  PROVE  Environment!EnvironmentsAreApart(env, socket)
<1> DEFINE child == Environment!BuildClaudeEnv(env, socket)
           tool == Environment!ShellShim(child)
           shell == Environment!Given(env.set, "SHELL", "")
<1>. Untouched(env) /\ env.bridge = ""
  BY Zenon DEF Fresh
<1>1. Environment!Way(child, "api.anthropic.com") = "claudodex" /\ Environment!Way(child, "127.0.0.1") = "direct"
  BY WaysOfClaude, Zenon
<1>2. /\ child.token = IF socket THEN "local" ELSE ""
      /\ child.bridge = Environment!RealToken(env)
      /\ child.real = Environment!CompatibleToolShell(shell)
  BY ChildIsKnown, Zenon
<1>3. tool.set = env.set /\ Untouched(tool)
  BY ToolsGetTheirOwn, Zenon
<1>4. Environment!ShellShim(Environment!BuildClaudeEnv(tool, socket)).set = env.set
  BY <1>3, ToolsGetTheirOwn, Zenon
<1>5. child.token \in {"", "local"} /\ child.bridge \in {"", "user's"}
        /\ ("user's" \in {env.keychain, env.credentials} => child.bridge = "user's")
  BY <1>2, Zenon DEF Untouched, Environment!Secrets, Environment!RealToken
<1>6. Environment!ToolShell(child) = IF shell \in Environment!Compatible THEN shell ELSE Environment!Installed
  BY <1>2, Zenon DEF Environment!ToolShell, Environment!CompatibleToolShell, Environment!Compatible, Environment!Installed
<1> HIDE DEF child, tool, shell
<1>7. QED
  BY <1>1, <1>3, <1>4, <1>5, <1>6, Zenon DEF Environment!EnvironmentsAreApart, child, tool, shell

LEMMA KeychainStaysTheUsers ==
  ASSUME NEW words, words.operation \in Environment!Operations, words.interactive \in BOOLEAN
  PROVE  Environment!KeychainIsTheUsers(words)
BY Zenon DEF Environment!KeychainIsTheUsers, Environment!SecurityShim, Environment!Generic, Environment!Operations

LEMMA EnvironmentsAreUntouched ==
  ASSUME NEW env \in Environment!Environments PROVE Fresh(env)
<1>1. PICK given \in SUBSET Environment!Keys, shell \in Environment!Shells,
            no \in SUBSET Environment!Entries, keychain \in Environment!Secrets :
        env = Environment!OfUser(Environment!Setting(given, shell, no), keychain)
  BY DEF Environment!Environments
<1>2. QED
  BY <1>1, Zenon DEF Environment!OfUser, Environment!Setting, Untouched, Fresh, Environment!Secrets

-----------------------------------------------------------------------------
(* The schemas of tools                                                    *)

\* Any schema over the names: branches without number.
AnySchemas ==
  [required : SUBSET Tools!Keys, allOf : SUBSET Tools!Branches, oneOf : SUBSET Tools!Branches,
   anyOf : SUBSET Tools!Branches]

\* What all variants require is in every object that is of one of them.
LEMMA VariantsRequire ==
  ASSUME NEW required, NEW branches \in SUBSET Tools!Branches, NEW names,
         required \subseteq names, Tools!OfOne(branches, names)
  PROVE  Tools!MergeVariantOf(required, branches) \subseteq names
<1> DEFINE kept == Tools!SchemaBranches(branches)
<1>1. CASE kept = {}
  BY <1>1 DEF Tools!MergeVariantOf
<1>2. CASE kept # {}
  <2>1. PICK b \in branches : b.object /\ b.required \subseteq names
    BY <1>2 DEF Tools!OfOne, Tools!SchemaBranches
  <2>2. b \in kept
    BY <2>1 DEF Tools!SchemaBranches
  <2>3. QED
    BY <1>2, <2>1, <2>2 DEF Tools!MergeVariantOf
<1>3. QED
  BY <1>1, <1>2

\* A name that a merged schema does not require is missing in some variant.
LEMMA VariantsLeaveAway ==
  ASSUME NEW required, NEW branches \in SUBSET Tools!Branches, NEW name,
         name \notin Tools!MergeVariantOf(required, branches),
         NEW names, Tools!OfOne(branches, names)
  PROVE  \E more \in SUBSET Tools!Keys :
           name \notin more /\ (branches # {} => \E b \in branches : b.object /\ b.required \subseteq more)
<1> DEFINE kept == Tools!SchemaBranches(branches)
<1>1. CASE branches = {}
  BY <1>1
<1>2. CASE branches # {}
  <2>1. kept # {}
    BY <1>2 DEF Tools!OfOne, Tools!SchemaBranches
  <2>2. PICK b \in kept : name \notin b.required
    <3>1. name \notin {n \in UNION {b.required : b \in kept} : \A b \in kept : n \in b.required}
      BY <2>1 DEF Tools!MergeVariantOf
    <3>2. CASE name \in UNION {b.required : b \in kept}
      BY <3>1, <3>2
    <3>3. CASE name \notin UNION {b.required : b \in kept}
      BY <2>1, <3>3
    <3>4. QED
      BY <3>2, <3>3
  <2>3. b \in branches /\ b.object /\ b.required \in SUBSET Tools!Keys
    BY <2>2 DEF Tools!SchemaBranches, Tools!Branches
  <2>4. QED
    BY <2>2, <2>3
<1>3. QED
  BY <1>1, <1>2

LEMMA MergingKeeps ==
  ASSUME NEW required, NEW branches
  PROVE  required \subseteq Tools!MergeVariantOf(required, branches)
BY DEF Tools!MergeVariantOf

\* What a merged schema requires is what all valid objects have.
LEMMA RequiredIsNeeded ==
  ASSUME NEW schema \in AnySchemas, Tools!Accepted(schema) # {}
  PROVE  Tools!Required(schema) = {n \in Tools!Keys : \A names \in Tools!Accepted(schema) : n \in names}
<1> DEFINE one == Tools!MergeAllOf(schema.required, schema.allOf)
           two == Tools!MergeVariantOf(one, schema.oneOf)
           required == Tools!Required(schema)
<1>1. /\ schema.required \in SUBSET Tools!Keys /\ schema.allOf \in SUBSET Tools!Branches
      /\ schema.oneOf \in SUBSET Tools!Branches /\ schema.anyOf \in SUBSET Tools!Branches
  BY DEF AnySchemas
<1>2. required = Tools!MergeVariantOf(two, schema.anyOf)
  BY DEF Tools!Required
<1>3. PICK some \in Tools!Accepted(schema) : TRUE
  OBVIOUS
<1>4. some \in SUBSET Tools!Keys /\ Tools!Accepts(schema, some)
  BY <1>3 DEF Tools!Accepted
<1>5. ASSUME NEW names \in Tools!Accepted(schema) PROVE required \subseteq names
  <2>1. Tools!Accepts(schema, names)
    BY DEF Tools!Accepted
  <2>2. one \subseteq names
    BY <2>1 DEF Tools!MergeAllOf, Tools!Accepts, Tools!SchemaBranches
  <2> HIDE DEF one
  <2>3. two \subseteq names
    BY <1>1, <2>1, <2>2, VariantsRequire DEF Tools!Accepts
  <2> HIDE DEF two
  <2>4. QED
    BY <1>1, <1>2, <2>1, <2>3, VariantsRequire DEF Tools!Accepts
<1>6. ASSUME NEW n \in Tools!Keys, n \notin required
      PROVE  \E names \in Tools!Accepted(schema) : n \notin names
  <2>1. two \subseteq required /\ one \subseteq two
    BY <1>2, MergingKeeps
  <2>2. n \notin one /\ n \notin two
    BY <1>6, <2>1
  <2>3. one \in SUBSET Tools!Keys /\ schema.required \subseteq one
          /\ \A b \in schema.allOf : b.object => b.required \subseteq one
    BY <1>1 DEF Tools!MergeAllOf, Tools!SchemaBranches, Tools!Branches
  <2> HIDE DEF one, two, required
  <2>4. PICK more \in SUBSET Tools!Keys :
          n \notin more /\ (schema.oneOf # {} => \E b \in schema.oneOf : b.object /\ b.required \subseteq more)
    <3>1. n \notin Tools!MergeVariantOf(one, schema.oneOf) /\ Tools!OfOne(schema.oneOf, some)
      BY <1>4, <2>2 DEF two, Tools!Accepts
    <3>2. QED
      BY <1>1, <3>1, VariantsLeaveAway
  <2>5. PICK still \in SUBSET Tools!Keys :
          n \notin still /\ (schema.anyOf # {} => \E b \in schema.anyOf : b.object /\ b.required \subseteq still)
    <3>1. n \notin Tools!MergeVariantOf(two, schema.anyOf) /\ Tools!OfOne(schema.anyOf, some)
      BY <1>2, <1>4, <1>6 DEF Tools!Accepts
    <3>2. QED
      BY <1>1, <3>1, VariantsLeaveAway
  <2> DEFINE names == one \cup more \cup still
  <2>6. names \in SUBSET Tools!Keys /\ n \notin names
    BY <2>2, <2>3, <2>4, <2>5
  <2>7. Tools!Accepts(schema, names)
    <3>1. \A b \in schema.allOf : b.object
      BY <1>4 DEF Tools!Accepts
    <3>2. Tools!OfOne(schema.oneOf, names)
      BY <2>4 DEF Tools!OfOne
    <3>3. Tools!OfOne(schema.anyOf, names)
      BY <2>5 DEF Tools!OfOne
    <3>4. QED
      BY <2>3, <3>1, <3>2, <3>3 DEF Tools!Accepts
  <2>8. QED
    BY <2>6, <2>7 DEF Tools!Accepted
<1>7. required \subseteq Tools!Keys
  BY <1>3, <1>4, <1>5
<1> HIDE DEF required
<1>8. QED
  BY <1>5, <1>6, <1>7 DEF required

LEMMA NeededAlwaysSurvive ==
  ASSUME NEW half \in Tools!Halves PROVE Tools!NeededSurvive(half)
<1>1. SUFFICES ASSUME NEW any \in Tools!SomeBranches, Tools!Accepted(Tools!WithAnyOf(half, any)) # {}
               PROVE  Tools!ExactlyNeeded(Tools!WithAnyOf(half, any))
  BY DEF Tools!NeededSurvive
<1> DEFINE schema == Tools!WithAnyOf(half, any)
<1>2. Tools!SomeBranches \subseteq SUBSET Tools!Branches
  BY DEF Tools!SomeBranches
<1>3. schema \in AnySchemas
  BY <1>2 DEF Tools!Halves, Tools!WithAnyOf, AnySchemas
<1> HIDE DEF schema
<1>4. Tools!Required(schema) = {n \in Tools!Keys : \A names \in Tools!Accepted(schema) : n \in names}
  BY <1>1, <1>3, RequiredIsNeeded DEF schema
<1>5. Tools!ExactlyNeeded(schema)
  BY <1>4 DEF Tools!ExactlyNeeded, Tools!PruneEmptyOptionalToolArgs
<1>6. QED
  BY <1>5 DEF schema

-----------------------------------------------------------------------------
\* Of the subsets of a finite set, some of which are of T, one is of T and none
\* of its own subsets is: induction over the size of a set.
LEMMA SmallestSubset ==
  ASSUME NEW S, IsFiniteSet(S), NEW T, T \subseteq SUBSET S, T # {}
  PROVE  \E x \in T : \A y \in T : y \subseteq x => y = x
<1>1. IsWellFoundedOn(StrictSubsetOrdering(S), FiniteSubsetsOf(S))
  BY FS_StrictSubsetOrderingWellFounded
<1>2. FiniteSubsetsOf(S) = SUBSET S
  BY FS_FiniteSubsetsOfFinite
<1>3. PICK x \in T : \A y \in T : ~ (<<y, x>> \in StrictSubsetOrdering(S))
  <2>1. T \subseteq FiniteSubsetsOf(S)
    BY <1>2
  <2> QED BY ONLY <2>1, <1>1, WFMin, T # {}
<1>4. ASSUME NEW y \in T, y \subseteq x PROVE y = x
  <2>1. <<y, x>> \in (SUBSET S) \X (SUBSET S)
    OBVIOUS
  <2>2. <<y, x>> \notin StrictSubsetOrdering(S)
    BY <1>3
  <2> QED BY <2>1, <2>2, <1>4 DEF StrictSubsetOrdering
<1> QED BY <1>4

\* The sets of numbers in S that have no least one
WithoutLeast(S) == {s \in SUBSET S : s # {} /\ ~(\E m \in s : \A n \in s : m <= n)}

LEMMA LeastOf ==
  ASSUME NEW S, IsFiniteSet(S), S # {}, S \subseteq Int
  PROVE  \E m \in S : \A n \in S : m <= n
<1> SUFFICES ASSUME WithoutLeast(S) # {} PROVE FALSE
  BY DEF WithoutLeast
<1>1. WithoutLeast(S) \subseteq SUBSET S
  BY DEF WithoutLeast
<1>2. PICK s \in WithoutLeast(S) : \A t \in WithoutLeast(S) : t \subseteq s => t = s
  BY <1>1, SmallestSubset
<1>3. PICK x \in s : TRUE
  BY DEF WithoutLeast
<1>4. s \ {x} \notin WithoutLeast(S)
  BY <1>2, <1>3
<1>5. CASE s \ {x} = {}
  BY <1>1, <1>3, <1>5 DEF WithoutLeast
<1>6. CASE \E m \in s \ {x} : \A n \in s \ {x} : m <= n
  <2>1. PICK m \in s \ {x} : \A n \in s \ {x} : m <= n
    BY <1>6
  <2>2. m \in Int /\ x \in Int /\ \A n \in s : n \in Int /\ ~(\A k \in s : n <= k)
    BY <1>3, <2>1 DEF WithoutLeast
  <2> QED BY <1>3, <2>1, <2>2
<1> QED BY <1>1, <1>4, <1>5, <1>6 DEF WithoutLeast

LEMMA RangesAreFinite ==
  ASSUME NEW top \in Nat, NEW S, S \subseteq 0 .. top
  PROVE  IsFiniteSet(S) /\ S \subseteq Int
<1>1. 0 \in Int /\ top \in Int
  OBVIOUS
<1>2. IsFiniteSet(0 .. top)
  BY <1>1, FS_Interval
<1>3. IsFiniteSet(S)
  BY <1>2, FS_Subset
<1>4. S \subseteq Int
  OBVIOUS
<1> QED BY <1>3, <1>4

\* Min of numbers, and Max of a range of them
LEMMA MinIs ==
  ASSUME NEW S, S \subseteq Int, IsFiniteSet(S), S # {}
  PROVE  Choice!Min(S) \in S /\ \A n \in S : Choice!Min(S) <= n
<1>1. \E m \in S : \A n \in S : m <= n
  BY LeastOf
<1> QED BY <1>1 DEF Choice!Min

LEMMA MaxIs ==
  ASSUME NEW top \in Nat, NEW S \in SUBSET (0 .. top), S # {}
  PROVE  Choice!Max(S) \in S /\ \A n \in S : n <= Choice!Max(S)
<1> DEFINE R == {top - n : n \in S}
<1>1. R \in SUBSET (0 .. top) /\ R # {}
  <2>1. \A n \in S : n \in 0 .. top /\ top - n \in 0 .. top
    OBVIOUS
  <2> QED BY <2>1
<1>2. PICK m \in R : \A n \in R : m <= n
  <2>1. IsFiniteSet(R)
    BY <1>1, FS_Interval, FS_Subset, 0 \in Int, top \in Int
  <2>2. R \subseteq Int
    OBVIOUS
  <2> QED BY <1>1, <2>1, <2>2, LeastOf
<1>3. PICK x \in S : m = top - x
  OBVIOUS
<1>4. \A n \in S : x >= n
  BY <1>2, <1>3
<1> QED BY <1>4 DEF Choice!Max

\* The efforts by their ranks
LEMMA EffortsRank ==
  /\ Choice!Efforts = {Choice!OrdinaryEfforts[n] : n \in 1 .. 7}
  /\ DOMAIN Choice!OrdinaryEfforts = 1 .. 7
  /\ \A n \in 1 .. 7 : Choice!Rank(Choice!OrdinaryEfforts[n]) = n
<1>1. DOMAIN Choice!OrdinaryEfforts = 1 .. 7
  BY DEF Choice!OrdinaryEfforts
<1>2. \A m, n \in 1 .. 7 : Choice!OrdinaryEfforts[m] = Choice!OrdinaryEfforts[n] => m = n
  BY DEF Choice!OrdinaryEfforts
<1>3. \A n \in 1 .. 7 : Choice!Rank(Choice!OrdinaryEfforts[n]) = n
  BY <1>1, <1>2 DEF Choice!Rank
<1> QED BY <1>1, <1>3 DEF Choice!Efforts

LEMMA Ranks ==
  ASSUME NEW effort \in Choice!Efforts
  PROVE  Choice!Rank(effort) \in 1 .. 7 /\ Choice!OrdinaryEfforts[Choice!Rank(effort)] = effort
BY EffortsRank

\* What is clamped is supported; it is the highest that is asked for, or the
\* lowest if all are higher.
LEMMA Clamped ==
  ASSUME NEW model, Choice!OrdinaryReasoningLevels(model) # {}, NEW effort \in Choice!Efforts
  PROVE  /\ Choice!Clamp(model, effort) \in Choice!OrdinaryReasoningLevels(model)
         /\ \A level \in Choice!OrdinaryReasoningLevels(model) :
              IF Choice!Rank(Choice!Clamp(model, effort)) <= Choice!Rank(effort)
              THEN Choice!Rank(level) <= Choice!Rank(effort) =>
                     Choice!Rank(level) <= Choice!Rank(Choice!Clamp(model, effort))
              ELSE Choice!Rank(Choice!Clamp(model, effort)) <= Choice!Rank(level)
                   /\ Choice!Rank(level) > Choice!Rank(effort)
<1> DEFINE levels == {Choice!Rank(level) : level \in Choice!OrdinaryReasoningLevels(model)}
           upTo == {n \in levels : n <= Choice!Rank(effort)}
           n == IF upTo = {} THEN Choice!Min(levels) ELSE Choice!Max(upTo)
<1>1. Choice!OrdinaryReasoningLevels(model) \subseteq Choice!Efforts
  BY DEF Choice!OrdinaryReasoningLevels
<1>2. levels \in SUBSET (0 .. 7) /\ levels # {} /\ upTo \in SUBSET (0 .. 7)
  BY <1>1, Ranks
<1>3. /\ n \in levels
      /\ upTo = {} => \A m \in levels : n <= m
      /\ upTo # {} => n \in upTo /\ \A m \in upTo : m <= n
  <2>1. CASE upTo = {}
    <3>1. levels \subseteq Int /\ IsFiniteSet(levels)
      <4>1. PICK top \in Nat : levels \subseteq 0 .. top
        BY <1>2
      <4> HIDE DEF levels
      <4> QED BY <4>1, RangesAreFinite
    <3> HIDE DEF levels
    <3>2. Choice!Min(levels) \in levels /\ \A m \in levels : Choice!Min(levels) <= m
      BY <1>2, <3>1, MinIs
    <3> QED BY <2>1, <3>2
  <2>2. CASE upTo # {}
    BY <1>2, <2>2, MaxIs
  <2> QED BY <2>1, <2>2
<1>4. PICK level \in Choice!OrdinaryReasoningLevels(model) : Choice!Rank(level) = n
  BY <1>3
<1>5. Choice!Clamp(model, effort) = level
  BY <1>1, <1>4, Ranks DEF Choice!Clamp
<1>6. Choice!Rank(effort) \in 1 .. 7 /\ n \in 0 .. 7
  BY <1>2, <1>3, Ranks
<1>7. Choice!Rank(Choice!Clamp(model, effort)) = n
  BY <1>4, <1>5
<1>8. ASSUME NEW m \in levels
      PROVE  IF n <= Choice!Rank(effort) THEN m <= Choice!Rank(effort) => m <= n
             ELSE n <= m /\ m > Choice!Rank(effort)
  <2> HIDE DEF levels, n
  <2>1. m \in 0 .. 7
    BY <1>2
  <2>2. CASE upTo = {}
    BY <1>3, <1>6, <2>1, <2>2
  <2>3. CASE upTo # {}
    BY <1>3, <1>6, <2>1, <2>3
  <2> QED BY <2>2, <2>3
<1>9. QED
  <2> HIDE DEF n
  <2> QED BY <1>4, <1>5, <1>7, <1>8

LEMMA ClampingGrows ==
  ASSUME NEW model, Choice!OrdinaryReasoningLevels(model) # {},
         NEW a \in Choice!Efforts, NEW b \in Choice!Efforts, Choice!Rank(a) <= Choice!Rank(b)
  PROVE  Choice!Rank(Choice!Clamp(model, a)) <= Choice!Rank(Choice!Clamp(model, b))
<1>1. /\ Choice!Clamp(model, a) \in Choice!OrdinaryReasoningLevels(model)
      /\ Choice!Clamp(model, b) \in Choice!OrdinaryReasoningLevels(model)
  BY Clamped
<1>2. /\ Choice!Rank(a) \in 1 .. 7 /\ Choice!Rank(b) \in 1 .. 7
      /\ Choice!Rank(Choice!Clamp(model, a)) \in 1 .. 7 /\ Choice!Rank(Choice!Clamp(model, b)) \in 1 .. 7
  BY <1>1, Ranks DEF Choice!OrdinaryReasoningLevels
<1> QED BY <1>1, <1>2, Clamped

\* The efforts that a budget asks for, by their ranks
LEMMA SomeRanks ==
  /\ {"low", "medium", "high", "xhigh"} \subseteq Choice!Efforts
  /\ Choice!Rank("low") = 3 /\ Choice!Rank("medium") = 4
  /\ Choice!Rank("high") = 5 /\ Choice!Rank("xhigh") = 6
<1>1. /\ Choice!OrdinaryEfforts[3] = "low" /\ Choice!OrdinaryEfforts[4] = "medium"
      /\ Choice!OrdinaryEfforts[5] = "high" /\ Choice!OrdinaryEfforts[6] = "xhigh"
  BY DEF Choice!OrdinaryEfforts
<1> QED BY <1>1, EffortsRank

\* What is not an effort: nothing, auto and the levels of workflows
LEMMA NoEfforts ==
  "auto" \notin Choice!Efforts /\ Choice!Unset \notin Choice!Efforts /\ Choice!Unset # "auto" /\ "ultra" \notin Choice!Efforts
<1>1. Choice!Efforts = {"none", "minimal", "low", "medium", "high", "xhigh", "max"}
  BY EffortsRank DEF Choice!OrdinaryEfforts
<1> QED BY <1>1 DEF Choice!Unset

LEMMA EffortsAreSupported ==
  ASSUME NEW model, Choice!OrdinaryReasoningLevels(model) # {}, NEW effort, NEW budget
  PROVE  Choice!MapReasoningEffort(model, effort, budget) \in Choice!OrdinaryReasoningLevels(model)
BY Clamped, SomeRanks DEF Choice!MapReasoningEffort

LEMMA BudgetsGrow ==
  ASSUME NEW model, Choice!OrdinaryReasoningLevels(model) # {},
         NEW effort, effort \notin Choice!Efforts, effort # "auto",
         NEW a \in Nat \ {0}, NEW b \in Nat \ {0}, a <= b
  PROVE  Choice!Rank(Choice!MapReasoningEffort(model, effort, a))
           <= Choice!Rank(Choice!MapReasoningEffort(model, effort, b))
<1> DEFINE low(n) == IF n < 4000 THEN "low" ELSE IF n < 16000 THEN "medium" ELSE IF n < 32000 THEN "high" ELSE "xhigh"
<1>1. low(a) \in Choice!Efforts /\ low(b) \in Choice!Efforts
  BY SomeRanks
<1>2. Choice!Rank(low(a)) <= Choice!Rank(low(b))
  BY SomeRanks
<1>3. /\ Choice!MapReasoningEffort(model, effort, a) = Choice!Clamp(model, low(a))
      /\ Choice!MapReasoningEffort(model, effort, b) = Choice!Clamp(model, low(b))
  BY DEF Choice!MapReasoningEffort
<1>4. QED
  <2> HIDE DEF low
  <2> QED BY <1>1, <1>2, <1>3, ClampingGrows

\* The model whose levels are these, with this one as its default
OfLevels(levels, default) ==
  [Choice!Model("m", "none", <<1>>) EXCEPT !.levels = levels \cup {"ultra"}, !.default = default]

LEMMA MoreIsNeverLess ==
  ASSUME NEW levels \in SUBSET Choice!Efforts, levels # {}
  PROVE  Choice!MoreIsNotLess(levels)
<1> SUFFICES ASSUME NEW default \in Choice!Defaults, NEW model, model = OfLevels(levels, default)
             PROVE  /\ \A effort \in Choice!Efforts \cup Choice!Unasked, budget \in Choice!Budgets \cup {0} :
                         Choice!MapReasoningEffort(model, effort, budget) \in levels
                    /\ \A a, b \in DOMAIN Choice!OrdinaryEfforts : a <= b =>
                         Choice!Rank(Choice!MapReasoningEffort(model, Choice!OrdinaryEfforts[a], 0))
                           <= Choice!Rank(Choice!MapReasoningEffort(model, Choice!OrdinaryEfforts[b], 0))
                    /\ \A a, b \in Choice!Budgets : a <= b =>
                         Choice!Rank(Choice!MapReasoningEffort(model, Choice!Unset, a))
                           <= Choice!Rank(Choice!MapReasoningEffort(model, Choice!Unset, b))
  BY Zenon DEF Choice!MoreIsNotLess, OfLevels
<1>1. Choice!OrdinaryReasoningLevels(model) = levels
  <2>1. model.levels = levels \cup {"ultra"}
    BY DEF OfLevels, Choice!Model
  <2> QED BY <2>1, NoEfforts DEF Choice!OrdinaryReasoningLevels
<1>2. \A effort, budget : Choice!MapReasoningEffort(model, effort, budget) \in levels
  BY <1>1, EffortsAreSupported
<1>3. ASSUME NEW a \in 1 .. 7, NEW b \in 1 .. 7, a <= b
      PROVE  Choice!Rank(Choice!MapReasoningEffort(model, Choice!OrdinaryEfforts[a], 0))
               <= Choice!Rank(Choice!MapReasoningEffort(model, Choice!OrdinaryEfforts[b], 0))
  <2>1. /\ Choice!OrdinaryEfforts[a] \in Choice!Efforts /\ Choice!OrdinaryEfforts[b] \in Choice!Efforts
        /\ Choice!Rank(Choice!OrdinaryEfforts[a]) = a /\ Choice!Rank(Choice!OrdinaryEfforts[b]) = b
    BY EffortsRank
  <2> QED BY <1>1, <1>3, <2>1, ClampingGrows DEF Choice!MapReasoningEffort
<1>4. \A a, b \in Choice!Budgets : a <= b =>
        Choice!Rank(Choice!MapReasoningEffort(model, Choice!Unset, a))
          <= Choice!Rank(Choice!MapReasoningEffort(model, Choice!Unset, b))
  BY <1>1, NoEfforts, BudgetsGrow DEF Choice!Budgets
<1> QED BY <1>2, <1>3, <1>4, EffortsRank

\* What the models of the catalogs have in common
Described(m) ==
  /\ m.slug # Choice!Unset /\ m.percent = 0 /\ m.compact \in {0, 150}
  /\ <<m.window, m.longWindow>> \in {<<400, 1200>>, <<200, 0>>}

LEMMA ModelsAreDescribed == \A m \in Choice!Others \cup Choice!Suns : Described(m)
<1>1. ASSUME NEW slug, slug # Choice!Unset, NEW line, NEW version
      PROVE  Described(Choice!Model(slug, line, version))
  BY <1>1 DEF Choice!Model, Described
<1>2. /\ "gpt-6-terra" # Choice!Unset /\ "gpt-6-luna" # Choice!Unset /\ "gpt-6-astra" # Choice!Unset
      /\ "gpt-5.9-sol" # Choice!Unset /\ "gpt-5.10-sol" # Choice!Unset /\ "gpt-6-sol" # Choice!Unset
      /\ "gpt-7-sol" # Choice!Unset /\ "gpt-5.10.0-sol" # Choice!Unset /\ "gpt-x" # Choice!Unset
  BY DEF Choice!Unset
<1>3. \A m \in Choice!Others : Described(m)
  BY <1>1, <1>2 DEF Choice!Others
<1>4. Described(Choice!Demanding)
  BY <1>2 DEF Choice!Demanding, Choice!Model, Described
<1>5. Described(Choice!Hidden)
  BY <1>2 DEF Choice!Hidden, Choice!Model, Described
<1>6. Described(Choice!Effortless)
  BY <1>2 DEF Choice!Effortless, Choice!Model, Described
<1>7. Described(Choice!Small)
  BY <1>2 DEF Choice!Small, Choice!Model, Described
<1>8. \A m \in Choice!Suns : Described(m)
  BY <1>1, <1>2, <1>4, <1>5, <1>6, <1>7 DEF Choice!Suns
<1> QED BY <1>3, <1>8

LEMMA SlugsAreUnique == \A m, o \in Choice!Others \cup Choice!Suns : m.slug = o.slug => m = o
<1>1. \A slug, line, version : Choice!Model(slug, line, version).slug = slug
  BY DEF Choice!Model
<1>3. Choice!Demanding.slug = "gpt-6-sol"
  BY DEF Choice!Demanding, Choice!Model
<1>4. Choice!Hidden.slug = "gpt-7-sol"
  BY DEF Choice!Hidden, Choice!Model
<1>5. Choice!Effortless.slug = "gpt-5.10.0-sol"
  BY DEF Choice!Effortless, Choice!Model
<1>6. Choice!Small.slug = "gpt-x"
  BY DEF Choice!Small, Choice!Model
<1> DEFINE named(slug) ==
      IF slug = "gpt-6-terra" THEN Choice!Model("gpt-6-terra", "terra", <<6>>)
      ELSE IF slug = "gpt-6-luna" THEN Choice!Model("gpt-6-luna", "luna", <<6>>)
      ELSE IF slug = "gpt-6-astra" THEN Choice!Model("gpt-6-astra", "astra", <<6>>)
      ELSE IF slug = "gpt-5.9-sol" THEN Choice!Model("gpt-5.9-sol", "sol", <<5, 9>>)
      ELSE IF slug = "gpt-5.10-sol" THEN Choice!Model("gpt-5.10-sol", "sol", <<5, 10>>)
      ELSE IF slug = "gpt-6-sol" THEN Choice!Demanding ELSE IF slug = "gpt-7-sol" THEN Choice!Hidden
      ELSE IF slug = "gpt-5.10.0-sol" THEN Choice!Effortless ELSE Choice!Small
<1>7. \A m \in Choice!Others : m = named(m.slug)
  BY <1>1 DEF Choice!Others
<1>8. \A m \in Choice!Suns : m = named(m.slug)
  BY <1>1, <1>3, <1>4, <1>5, <1>6 DEF Choice!Suns
<1>9. QED
  <2> HIDE DEF named
  <2> QED BY <1>7, <1>8

\* A configuration names for every family a model that can serve: the one that
\* is pinned, or else a candidate that no other is newer than.
LEMMA ConfigServes ==
  ASSUME NEW models, NEW pins, NEW program, NEW config \in Choice!Resolve(models, pins, program),
         NEW family \in Choice!Families
  PROVE  \E m \in models :
           /\ m.slug = config[family] /\ Choice!Usable(m, program)
           /\ pins[family] # Choice!Unset => config[family] = pins[family]
           /\ pins[family] = Choice!Unset => m \in Choice!Candidates(models, family, program)
                /\ \A o \in Choice!Candidates(models, family, program) : ~Choice!NewerVersion(o.version, m.version)
<1> DEFINE of(f) == IF pins[f] # Choice!Unset THEN Choice!Target(models, pins[f], program)
                    ELSE Choice!Automatic(models, f, program)
<1>1. of(family) # {} /\ config[family] = (CHOOSE m \in of(family) : TRUE).slug
  BY DEF Choice!Resolve
<1>2. PICK m \in of(family) : config[family] = m.slug
  <2> HIDE DEF of
  <2> QED BY <1>1
<1>3. CASE pins[family] # Choice!Unset
  BY <1>2, <1>3 DEF Choice!Target
<1>4. CASE pins[family] = Choice!Unset
  <2>1. m \in Choice!Automatic(models, family, program)
    BY <1>2, <1>4
  <2> DEFINE each == Choice!Candidates(models, family, program)
             best == {n \in each : \A o \in each : ~Choice!NewerVersion(o.version, n.version)}
             earliest == {n \in best : \A o \in best : n.priority <= o.priority}
  <2>2. m \in earliest /\ Choice!Usable(m, program)
    <3>1. m \in {CHOOSE x \in earliest : TRUE : y \in earliest} /\ Choice!Usable(m, program)
      BY <2>1 DEF Choice!Automatic
    <3> HIDE DEF earliest
    <3> QED BY <3>1
  <2>3. m \in models
    BY <2>2 DEF Choice!Candidates
  <2> QED BY <1>2, <1>4, <2>2, <2>3
<1> QED BY <1>3, <1>4

\* A family is one of four.
LEMMA NamesHaveAFamily == ASSUME NEW name PROVE Choice!FamilyForModel(name) \in Choice!Families
BY DEF Choice!FamilyForModel, Choice!Families

\* The models of a catalog are known by their slugs.
LEMMA OfACatalog ==
  ASSUME NEW models \in Choice!Catalogs
  PROVE  (\A m \in models : Described(m)) /\ \A m, o \in models : m.slug = o.slug => m = o
<1>1. models \subseteq Choice!Others \cup Choice!Suns
  BY DEF Choice!Catalogs
<1> QED BY <1>1, ModelsAreDescribed, SlugsAreUnique

LEMMA ResolvedServe ==
  ASSUME NEW models \in Choice!Catalogs, NEW pins
  PROVE  Choice!ResolvedModelsServe(models, pins)
<1> SUFFICES ASSUME NEW program \in Choice!Clients, NEW config \in Choice!Resolve(models, pins, program)
    PROVE  /\ \A name \in Choice!ClaudeNames :
                Choice!Target(models, Choice!MapModel(config, name), program) # {}
           /\ \A family \in Choice!Families : pins[family] # Choice!Unset => config[family] = pins[family]
           /\ pins["opus"] = Choice!Unset =>
                \A m \in Choice!Candidates(models, "opus", program), o \in models :
                  o.slug = config["opus"] => ~Choice!NewerVersion(m.version, o.version)
  BY DEF Choice!ResolvedModelsServe
<1>1. ASSUME NEW name \in Choice!ClaudeNames
      PROVE  Choice!Target(models, Choice!MapModel(config, name), program) # {}
  <2>1. Choice!MapModel(config, name) = config[Choice!FamilyForModel(name)]
    BY DEF Choice!ClaudeNames, Choice!MapModel
  <2>2. PICK m \in models : m.slug = config[Choice!FamilyForModel(name)] /\ Choice!Usable(m, program)
    BY NamesHaveAFamily, ConfigServes
  <2> QED BY <2>1, <2>2 DEF Choice!Target
<1>2. \A family \in Choice!Families : pins[family] # Choice!Unset => config[family] = pins[family]
  BY ConfigServes
<1>3. ASSUME pins["opus"] = Choice!Unset, NEW m \in Choice!Candidates(models, "opus", program),
             NEW o \in models, o.slug = config["opus"]
      PROVE  ~Choice!NewerVersion(m.version, o.version)
  <2>1. "opus" \in Choice!Families
    BY DEF Choice!Families
  <2>2. PICK n \in models : /\ n.slug = config["opus"]
                            /\ \A x \in Choice!Candidates(models, "opus", program) :
                                 ~Choice!NewerVersion(x.version, n.version)
    BY <1>3, <2>1, ConfigServes
  <2> QED BY <1>3, <2>2, OfACatalog
<1> QED BY <1>1, <1>2, <1>3

\* A name of one family is that family's model's, and what an Agent call says
\* instead is that model's slug.
LEMMA WorkersAreServed ==
  ASSUME NEW models \in Choice!Catalogs, NEW pins
  PROVE  Choice!WorkersGetTheirModel(models, pins)
<1> SUFFICES ASSUME NEW config \in Choice!Resolve(models, pins, <<2, 0>>),
                    NEW name \in Choice!Names, \A f, g \in name.families : f = g
    PROVE  /\ Choice!MapModel(config, Choice!AgentModel(config, name)) = Choice!MapModel(config, name)
           /\ name.slug # Choice!Unset => Choice!MapModel(config, name) = name.slug
  BY DEF Choice!WorkersGetTheirModel
<1>1. name.slug # Choice!Unset => Choice!MapModel(config, name) = name.slug
  BY DEF Choice!MapModel
<1>2. CASE name.slug # Choice!Unset \/ name.families = {}
  BY <1>1, <1>2 DEF Choice!AgentModel
<1>3. CASE name.slug = Choice!Unset /\ name.families # {}
  <2>1. name.families \subseteq Choice!Families
    BY <1>3 DEF Choice!Names, Choice!ClaudeNames, Choice!CodexName
  <2>2. PICK f \in Choice!Families : name.families = {f}
    BY <1>3, <2>1
  <2>3. Choice!FamilyForModel(name) = f
    BY <2>2 DEF Choice!FamilyForModel, Choice!Families
  <2>4. Choice!AgentModel(config, name) = Choice!CodexName(config[f])
    BY <1>3, <2>2 DEF Choice!AgentModel, Choice!Families
  <2>5. config[f] # Choice!Unset
    BY ConfigServes, OfACatalog DEF Described
  <2> QED BY <1>3, <2>3, <2>4, <2>5 DEF Choice!MapModel, Choice!CodexName
<1> QED BY <1>1, <1>2, <1>3

LEMMA LeastOfTwo ==
  ASSUME NEW a \in Int, NEW b \in Int
  PROVE  Choice!Min({a, b}) = IF a <= b THEN a ELSE b
<1> DEFINE S == {a, b}
<1>1. S \subseteq Int /\ S # {}
  OBVIOUS
<1>2. IsFiniteSet(S)
  <2>1. IsFiniteSet({a}) /\ IsFiniteSet({b})
    BY FS_Singleton
  <2>2. IsFiniteSet({a} \cup {b})
    BY <2>1, FS_Union
  <2>3. S = {a} \cup {b}
    OBVIOUS
  <2> QED BY <2>2, <2>3
<1>3. Choice!Min(S) \in S /\ \A n \in S : Choice!Min(S) <= n
  <2> HIDE DEF S
  <2> QED BY <1>1, <1>2, MinIs
<1>4. Choice!Min(S) \in {a, b} /\ Choice!Min(S) <= a /\ Choice!Min(S) <= b
  BY <1>3
<1> QED BY <1>4

\* The windows of a model and when they are compacted; the long one is never
\* less than the ordinary one.
LEMMA WindowsOf ==
  ASSUME NEW m, Described(m)
  PROVE  /\ Choice!Ordinary(m) \in {200, 400} /\ Choice!Long(m) \in {200, 1200}
         /\ Choice!Ordinary(m) <= Choice!Long(m)
BY DEF Described, Choice!Ordinary, Choice!Long

LEMMA LimitIs ==
  ASSUME NEW m, Described(m), NEW window \in {200, 400, 1200}
  PROVE  Choice!Limit(m, window) = IF m.compact = 150 THEN 150
                                   ELSE IF window = 200 THEN 190 ELSE IF window = 400 THEN 380 ELSE 1140
<1>1. m.percent = 0 /\ m.compact \in {0, 150}
  BY DEF Described
<1> DEFINE value == (window * 95) \div 100
<1>2. value = IF window = 200 THEN 190 ELSE IF window = 400 THEN 380 ELSE 1140
  OBVIOUS
<1>3. Choice!Limit(m, window) = IF m.compact > 0 THEN Choice!Min({value, m.compact}) ELSE value
  BY <1>1 DEF Choice!Limit
<1>4. CASE m.compact = 0
  BY <1>2, <1>3, <1>4
<1>5. CASE m.compact = 150
  <2>1. Choice!Min({value, m.compact}) = IF value <= m.compact THEN value ELSE m.compact
    BY <1>2, <1>5, LeastOfTwo
  <2> QED BY <1>2, <1>3, <1>5, <2>1
<1> QED BY <1>1, <1>4, <1>5

\* What is compacted at is of the model that serves the name, which is one.
LEMMA CompactionFits ==
  ASSUME NEW models \in Choice!Catalogs, NEW pins
  PROVE  Choice!WindowsFit(models, pins)
<1> SUFFICES ASSUME NEW config, NEW name, NEW long \in BOOLEAN, NEW m \in models,
                    m.slug = Choice!MapModel(config, name),
                    NEW v \in Choice!AutoCompactWindow(models, config, name, long)
    PROVE  /\ v <= Choice!Limit(m, IF name.slug # Choice!Unset /\ long THEN Choice!Long(m) ELSE Choice!Ordinary(m))
           /\ m.compact > 0 => v <= m.compact
  BY DEF Choice!WindowsFit
<1> DEFINE window(x) == IF long /\ name.slug # Choice!Unset THEN Choice!Long(x) ELSE Choice!Ordinary(x)
<1>1. PICK x \in models : x.slug = Choice!MapModel(config, name)
                          /\ v = Choice!Min({Choice!Limit(x, window(x)), 1000})
  BY DEF Choice!AutoCompactWindow
<1>2. x = m /\ Described(m)
  BY <1>1, OfACatalog
<1>3. window(m) \in {200, 400, 1200}
  BY <1>2, WindowsOf
<1> DEFINE limit == Choice!Limit(m, window(m))
<1>4. limit = IF m.compact = 150 THEN 150
              ELSE IF window(m) = 200 THEN 190 ELSE IF window(m) = 400 THEN 380 ELSE 1140
  BY <1>2, <1>3, LimitIs
<1>5. limit \in Int /\ (m.compact > 0 => limit <= m.compact)
  BY <1>2, <1>4 DEF Described
<1>6. v = Choice!Min({limit, 1000})
  BY <1>1, <1>2
<1>7. limit = Choice!Limit(m, IF name.slug # Choice!Unset /\ long THEN Choice!Long(m) ELSE Choice!Ordinary(m))
  OBVIOUS
<1>8. v <= limit /\ v \in Int
  <2> HIDE DEF limit
  <2>1. 1000 \in Int
    OBVIOUS
  <2> QED BY <1>5, <1>6, <2>1, LeastOfTwo
<1>9. m.compact \in Int
  BY <1>2 DEF Described
<1> QED
  <2> HIDE DEF limit
  <2> QED BY <1>5, <1>7, <1>8, <1>9

\* What a name is said to have room for is the window of the model that serves it.
LEMMA RowsAreTheirModels ==
  ASSUME NEW models \in Choice!Catalogs, NEW config,
         NEW row \in Choice!ClaudeModelCapabilities(models, config)
  PROVE  \E x \in models : /\ x.slug = Choice!MapModel(config, row.name)
                           /\ row.window = Choice!RouteWindow(x, row.long)
<1>1. ASSUME NEW x \in models, NEW long, row = Choice!Row(Choice!CodexName(x.slug), long, x)
      PROVE  x.slug = Choice!MapModel(config, row.name) /\ row.window = Choice!RouteWindow(x, row.long)
  <2>1. x.slug # Choice!Unset
    BY OfACatalog DEF Described
  <2> QED BY <1>1, <2>1 DEF Choice!Row, Choice!CodexName, Choice!MapModel
<1>2. ASSUME NEW family \in Choice!Families, NEW x \in models, x.slug = config[family],
             row = Choice!Row([slug |-> Choice!Unset, families |-> {family}], FALSE, x)
      PROVE  x.slug = Choice!MapModel(config, row.name) /\ row.window = Choice!RouteWindow(x, row.long)
  <2>1. row.name.slug = Choice!Unset /\ row.name.families = {family} /\ row.long = FALSE
        /\ row.window = Choice!RouteWindow(x, FALSE)
    BY <1>2 DEF Choice!Row
  <2>2. Choice!FamilyForModel(row.name) = family
    BY <2>1 DEF Choice!FamilyForModel, Choice!Families
  <2> QED BY <1>2, <2>1, <2>2 DEF Choice!MapModel
<1>3. CASE row \in Choice!Specs(models, config)
  <2>1. CASE \E x \in models : row = Choice!Row(Choice!CodexName(x.slug), TRUE, x)
    BY <1>1, <2>1
  <2>2. CASE \E family \in Choice!Families : \E x \in models :
               /\ x.slug = config[family]
               /\ row = Choice!Row([slug |-> Choice!Unset, families |-> {family}], FALSE, x)
    BY <1>2, <2>2
  <2> DEFINE roles ==
               UNION {{Choice!Row([slug |-> Choice!Unset, families |-> {family}], FALSE, m) :
                         m \in {x \in models : x.slug = config[family]}} : family \in Choice!Families}
             targets == {Choice!Row(Choice!CodexName(m.slug), TRUE, m) :
                           m \in {x \in models : x.slug \in Choice!RequiredModels(config)}}
  <2>3. Choice!Specs(models, config) = roles \cup targets
    BY DEF Choice!Specs
  <2>4. row \in roles \/ row \in targets
    <3> HIDE DEF roles, targets
    <3> QED BY <1>3, <2>3
  <2> QED BY <2>1, <2>2, <2>4
<1>4. CASE row \notin Choice!Specs(models, config)
  <2>1. \E x \in models : \E long \in BOOLEAN : row = Choice!Row(Choice!CodexName(x.slug), long, x)
    BY <1>4 DEF Choice!ClaudeModelCapabilities
  <2> QED BY <1>1, <2>1
<1> QED BY <1>3, <1>4

\* What all that can be changed to have room for is there, and suits each of them.
LEMMA CeilingFits ==
  ASSUME NEW models \in Choice!Catalogs, NEW pins, NEW program, NEW config \in Choice!Resolve(models, pins, program)
  PROVE  /\ Choice!RequiredModelAutoCompactWindow(models, config) # {}
         /\ \A v \in Choice!RequiredModelAutoCompactWindow(models, config), m \in models :
              Choice!Usable(m, program) => v \in Int /\ v <= Choice!Limit(m, Choice!Ordinary(m))
<1> DEFINE room(m) == Choice!Limit(m, IF m.visible THEN Choice!Min({Choice!Long(m), Choice!Ordinary(m)})
                                      ELSE Choice!Long(m))
           rooms == {room(m) : m \in Choice!Selectable(models, config)}
<1>1. \A m \in models : Described(m)
  BY OfACatalog
<1>2. \A m \in models : Choice!Min({Choice!Long(m), Choice!Ordinary(m)}) = Choice!Ordinary(m)
  <2> SUFFICES ASSUME NEW m \in models
               PROVE  Choice!Min({Choice!Long(m), Choice!Ordinary(m)}) = Choice!Ordinary(m)
    OBVIOUS
  <2>1. /\ Choice!Ordinary(m) \in {200, 400} /\ Choice!Long(m) \in {200, 1200}
        /\ Choice!Ordinary(m) <= Choice!Long(m)
    BY <1>1, WindowsOf
  <2>2. Choice!Ordinary(m) \in Int /\ Choice!Long(m) \in Int
    BY <2>1
  <2> QED BY <2>1, <2>2, LeastOfTwo
<1>3. \A m \in models : room(m) \in 1 .. 1200 /\ (m.visible => room(m) = Choice!Limit(m, Choice!Ordinary(m)))
  <2> SUFFICES ASSUME NEW m \in models
               PROVE  room(m) \in 1 .. 1200 /\ (m.visible => room(m) = Choice!Limit(m, Choice!Ordinary(m)))
    OBVIOUS
  <2>1. Described(m) /\ Choice!Ordinary(m) \in {200, 400, 1200} /\ Choice!Long(m) \in {200, 400, 1200}
    BY <1>1, WindowsOf
  <2>2. Choice!Limit(m, Choice!Ordinary(m)) \in 1 .. 1200 /\ Choice!Limit(m, Choice!Long(m)) \in 1 .. 1200
    BY <2>1, LimitIs
  <2> QED BY <1>2, <2>2
<1>4. Choice!Selectable(models, config) \subseteq models
  BY DEF Choice!Selectable
<1>5. Choice!RequiredModels(config) \subseteq {m.slug : m \in models}
  BY ConfigServes DEF Choice!RequiredModels
<1>6. PICK earliest \in models : earliest.slug = config["opus"]
  BY ConfigServes DEF Choice!Families
<1>7. earliest \in Choice!Selectable(models, config)
  BY <1>6 DEF Choice!Selectable, Choice!Shown, Choice!RequiredModels, Choice!Families
<1>8. /\ Choice!RequiredModelAutoCompactWindow(models, config) = {Choice!Min(rooms)}
      /\ rooms \subseteq Int /\ rooms # {} /\ IsFiniteSet(rooms)
  <2>1. \A r \in rooms : r > 0 /\ r \in 0 .. 1200
    <3> HIDE DEF room
    <3> QED BY <1>3, <1>4
  <2>2. rooms # {}
    BY <1>7
  <2> HIDE DEF rooms
  <2>3. IsFiniteSet(rooms)
    <3>1. PICK top \in Nat : rooms \subseteq 0 .. top
      <4> DEFINE top == 1200
      <4>1. top \in Nat /\ rooms \subseteq 0 .. top
        BY <2>1
      <4> HIDE DEF top
      <4> QED BY <4>1
    <3> QED BY <3>1, RangesAreFinite
  <2>4. rooms \subseteq Int /\ \A r \in rooms : r > 0
    BY <2>1
  <2>5. Choice!RequiredModelAutoCompactWindow(models, config) =
          IF Choice!RequiredModels(config) \subseteq {m.slug : m \in models} /\ \A r \in rooms : r > 0
          THEN {Choice!Min(rooms)} ELSE {}
    BY DEF Choice!RequiredModelAutoCompactWindow, rooms
  <2> QED BY <1>5, <2>2, <2>3, <2>4, <2>5
<1>9. ASSUME NEW m \in models, Choice!Usable(m, program)
      PROVE  Choice!Min(rooms) <= Choice!Limit(m, Choice!Ordinary(m)) /\ Choice!Min(rooms) \in Int
  <2>1. m.visible /\ Choice!OrdinaryReasoningLevels(m) # {}
    BY <1>9 DEF Choice!Usable
  <2>2. Choice!Ordinary(m) > 0
    BY <1>1, WindowsOf
  <2>3. m \in Choice!Selectable(models, config)
    BY <2>1, <2>2 DEF Choice!Selectable, Choice!Shown
  <2>4. room(m) \in rooms /\ room(m) = Choice!Limit(m, Choice!Ordinary(m))
    BY <1>3, <2>1, <2>3
  <2> HIDE DEF rooms, room
  <2>5. Choice!Min(rooms) \in rooms /\ \A n \in rooms : Choice!Min(rooms) <= n
    <3>1. rooms \subseteq Int /\ rooms # {} /\ IsFiniteSet(rooms)
      BY <1>8
    <3> QED BY <3>1, MinIs
  <2>6. Choice!Min(rooms) <= room(m) /\ Choice!Min(rooms) \in Int
    BY <1>8, <2>4, <2>5
  <2> QED BY <2>4, <2>6
<1> QED
  <2> HIDE DEF rooms
  <2> QED BY <1>8, <1>9

LEMMA RoomsAreReal ==
  ASSUME NEW models \in Choice!Catalogs, NEW pins
  PROVE  Choice!RoomIsReal(models, pins)
<1> SUFFICES ASSUME NEW config \in Choice!Resolve(models, pins, <<2, 0>>)
    PROVE  LET ceiling == Choice!RequiredModelAutoCompactWindow(models, config) IN
           /\ ceiling # {}
           /\ \A row \in Choice!ClaudeModelCapabilities(models, config) :
                \A m \in Choice!Target(models, Choice!MapModel(config, row.name), <<2, 0>>) :
                  /\ row.window = Choice!RouteWindow(m, row.long)
                  /\ Choice!StatusLineContextWindow(models, config, row.name, row.long) = row.window
                  /\ \A v \in ceiling : v <= Choice!Limit(m, row.window)
  BY DEF Choice!RoomIsReal
<1> DEFINE ceiling == Choice!RequiredModelAutoCompactWindow(models, config)
<1>1. ceiling # {}
  BY CeilingFits
<1>2. ASSUME NEW row \in Choice!ClaudeModelCapabilities(models, config),
             NEW m \in Choice!Target(models, Choice!MapModel(config, row.name), <<2, 0>>)
      PROVE  /\ row.window = Choice!RouteWindow(m, row.long)
             /\ Choice!StatusLineContextWindow(models, config, row.name, row.long) = row.window
             /\ \A v \in ceiling : v <= Choice!Limit(m, row.window)
  <2>1. m \in models /\ m.slug = Choice!MapModel(config, row.name) /\ Choice!Usable(m, <<2, 0>>)
    BY DEF Choice!Target
  <2>2. Described(m)
    BY <2>1, OfACatalog
  <2>3. \A r \in Choice!ClaudeModelCapabilities(models, config) :
          r.name = row.name /\ r.long = row.long => r.window = Choice!RouteWindow(m, row.long)
    <3> SUFFICES ASSUME NEW r \in Choice!ClaudeModelCapabilities(models, config),
                        r.name = row.name, r.long = row.long
                 PROVE  r.window = Choice!RouteWindow(m, row.long)
      OBVIOUS
    <3>1. PICK x \in models : /\ x.slug = Choice!MapModel(config, r.name)
                              /\ r.window = Choice!RouteWindow(x, r.long)
      BY RowsAreTheirModels
    <3>2. x = m
      BY <2>1, <3>1, OfACatalog
    <3> QED BY <3>1, <3>2
  <2>4. row.window = Choice!RouteWindow(m, row.long)
    BY <2>3
  <2>5. /\ Choice!RouteWindow(m, row.long) \in {Choice!Ordinary(m), Choice!Long(m)}
        /\ Choice!Ordinary(m) \in {200, 400} /\ Choice!Long(m) \in {200, 1200}
        /\ Choice!Ordinary(m) <= Choice!RouteWindow(m, row.long)
    BY <2>2, WindowsOf DEF Choice!RouteWindow
  <2>6. Choice!StatusLineContextWindow(models, config, row.name, row.long) = row.window
    <3> DEFINE rows == {r \in Choice!ClaudeModelCapabilities(models, config) :
                          r.name = row.name /\ r.long = row.long /\ r.window > 0}
    <3>1. row \in rows
      BY <2>4, <2>5
    <3>2. \A r \in rows : r.window = row.window
      BY <2>3, <2>4
    <3>3. (CHOOSE r \in rows : TRUE).window = row.window
      <4> HIDE DEF rows
      <4> QED BY <3>1, <3>2
    <3> QED BY <3>1, <3>3 DEF Choice!StatusLineContextWindow
  <2>7. Choice!Limit(m, Choice!Ordinary(m)) <= Choice!Limit(m, row.window)
        /\ Choice!Limit(m, row.window) \in Int /\ Choice!Limit(m, Choice!Ordinary(m)) \in Int
    <3>1. Choice!Ordinary(m) \in {200, 400, 1200} /\ row.window \in {200, 400, 1200}
          /\ Choice!Ordinary(m) <= row.window
      BY <2>4, <2>5
    <3> QED BY <2>2, <3>1, LimitIs
  <2>8. \A v \in ceiling : v \in Int /\ v <= Choice!Limit(m, Choice!Ordinary(m))
    BY <2>1, CeilingFits
  <2> QED
    <3> HIDE DEF ceiling
    <3> QED BY <2>4, <2>6, <2>7, <2>8
<1> QED BY <1>1, <1>2

-----------------------------------------------------------------------------
(* What a launch makes of settings                                         *)

Keys == {"model", "effort", "perModel", "command", "padding"}
IsSettings(s) == s = [key \in Keys |-> s[key]]
IsArgs(a) ==
  /\ a = [model |-> a.model, effort |-> a.effort, flags |-> a.flags, sources |-> a.sources]
  /\ IsSettings(a.flags)

LEMMA OverlayIs ==
  ASSUME NEW base, DOMAIN base = Keys, NEW over, NEW key \in Keys \ {"perModel"}
  PROVE  /\ DOMAIN Choice!Overlay(base, over) = Keys
         /\ Choice!Overlay(base, over)[key] = IF over[key] # {} THEN over[key] ELSE base[key]
BY DEF Choice!Overlay, Keys

\* What files say comes from one of them.
LEMMA ConfiguredIs ==
  ASSUME NEW files, NEW sources, DOMAIN sources \in {1 .. 1, 1 .. 2}, NEW key \in Keys \ {"perModel"}
  PROVE  /\ DOMAIN Choice!Configured(files, sources) = Keys
         /\ \/ Choice!Configured(files, sources)[key] = {}
            \/ \E n \in DOMAIN sources : Choice!Configured(files, sources)[key] = files[sources[n]][key]
<1> DEFINE given == {n \in DOMAIN sources : files[sources[n]][key] # {}}
<1>1. DOMAIN Choice!Configured(files, sources) = Keys
  BY DEF Choice!Configured, Choice!NoSettings, Keys
<1>2. Choice!Configured(files, sources)[key] = IF given = {} THEN {} ELSE files[sources[Choice!Max(given)]][key]
  BY DEF Choice!Configured, Choice!NoSettings, Keys
<1>3. ASSUME given # {}
      PROVE  \E n \in DOMAIN sources : Choice!Configured(files, sources)[key] = files[sources[n]][key]
  <2>1. given \in SUBSET (0 .. 2)
    OBVIOUS
  <2> HIDE DEF given
  <2>2. Choice!Max(given) \in given
    BY <1>3, <2>1, MaxIs
  <2>3. given \subseteq DOMAIN sources
    BY DEF given
  <2> QED BY <1>2, <1>3, <2>2, <2>3
<1> HIDE DEF given
<1> QED BY <1>1, <1>2, <1>3

\* The arguments that are prepared, piece by piece
Prepared(config, target, files, args, env, out) ==
  LET active == Choice!Overlay(Choice!Configured(files, args.sources), args.flags)
        aliases == {Choice!SettingsAlias(config, n) : n \in active.model}
        effort == IF args.effort = {"ultracode"} THEN {} ELSE args.effort
    IN
    /\ IsArgs(out) /\ out.model = args.model /\ out.sources = args.sources
    /\ out.flags.model = IF args.model = {} /\ aliases # active.model /\ aliases # {}
                         THEN aliases ELSE args.flags.model
    /\ out.flags.effort = IF args.effort = {"ultracode"} THEN {"ultracode"} ELSE args.flags.effort
    /\ out.flags.command = IF active.command # {} THEN {Choice!Wrapper} ELSE args.flags.command
    /\ \/ out.effort = effort
       \/ args.effort = {} /\ env = {} /\ active.effort = {}
          /\ out.effort = Choice!NativeCatalogDefaultEffort(target)

LEMMA PreparedIs ==
  ASSUME NEW config, NEW target, NEW files, NEW args, IsArgs(args), NEW env,
         DOMAIN args.sources \in {1 .. 1, 1 .. 2},
         NEW out \in Choice!Prepare(config, target, files, args, env)
  PROVE  Prepared(config, target, files, args, env, out)
<1> DEFINE lifted == Choice!LiftUltracodeEffort(args)
           active == Choice!Overlay(Choice!Configured(files, args.sources), lifted.flags)
           name == IF args.model # {} THEN args.model ELSE active.model
           slug == IF name = {} THEN config["opus"] ELSE Choice!MapModel(config, CHOOSE n \in name : TRUE)
           needsDefault == /\ args.effort = {} /\ active.effort = {} /\ env = {}
                           /\ ~Choice!HasModelSettingsEffort(config, active, slug)
           inherited == IF args.model = {} THEN {Choice!SettingsAlias(config, n) : n \in active.model} ELSE {}
           flags == [lifted.flags EXCEPT
                       !.model = IF inherited # active.model /\ inherited # {} THEN inherited ELSE @,
                       !.command = IF active.command # {} THEN {Choice!Wrapper} ELSE @,
                       !.padding = IF active.command # {} THEN active.padding ELSE @]
           default == IF needsDefault THEN Choice!NativeCatalogDefaultEffort(target) ELSE {}
<1>1. out = [lifted EXCEPT !.flags = flags, !.effort = IF needsDefault THEN default ELSE @]
  BY DEF Choice!Prepare
<1>2. /\ IsArgs(lifted) /\ lifted.model = args.model /\ lifted.sources = args.sources
      /\ lifted.effort = IF args.effort = {"ultracode"} THEN {} ELSE args.effort
      /\ lifted.flags.effort = IF args.effort = {"ultracode"} THEN {"ultracode"} ELSE args.flags.effort
      /\ \A key \in Keys \ {"effort"} : lifted.flags[key] = args.flags[key]
  BY DEF Choice!LiftUltracodeEffort, IsArgs, IsSettings, Keys
<1>3. DOMAIN Choice!Configured(files, args.sources) = Keys
  BY ConfiguredIs DEF Keys
<1>4. \A key \in {"model", "command"} :
        active[key] = Choice!Overlay(Choice!Configured(files, args.sources), args.flags)[key]
  BY <1>2, <1>3, OverlayIs DEF Keys
<1>5. args.effort = {} => active.effort = Choice!Overlay(Choice!Configured(files, args.sources), args.flags).effort
  BY <1>2, <1>3, OverlayIs DEF Keys
<1> HIDE DEF lifted, active, needsDefault
<1>6. /\ IsSettings(flags) /\ flags.effort = lifted.flags.effort
      /\ flags.model = IF inherited # active.model /\ inherited # {} THEN inherited ELSE lifted.flags.model
      /\ flags.command = IF active.command # {} THEN {Choice!Wrapper} ELSE lifted.flags.command
  BY <1>2 DEF IsArgs, IsSettings, Keys
<1> HIDE DEF flags
<1>7. /\ IsArgs(out) /\ out.model = lifted.model /\ out.sources = lifted.sources /\ out.flags = flags
      /\ out.effort = IF needsDefault THEN default ELSE lifted.effort
  BY <1>1, <1>2, <1>6 DEF IsArgs
<1>8. needsDefault => args.effort = {} /\ env = {} /\ active.effort = {}
  BY DEF needsDefault
<1>9. flags.model = IF /\ args.model = {}
                       /\ {Choice!SettingsAlias(config, n) : n \in active.model} # active.model
                       /\ {Choice!SettingsAlias(config, n) : n \in active.model} # {}
                    THEN {Choice!SettingsAlias(config, n) : n \in active.model} ELSE args.flags.model
  BY <1>2, <1>6 DEF Keys
<1> QED BY <1>2, <1>4, <1>5, <1>6, <1>7, <1>8, <1>9 DEF Keys, Prepared

\* What is in force, by key
LEMMA InForceIs ==
  ASSUME NEW files, NEW args, DOMAIN args.sources \in {1 .. 1, 1 .. 2}, NEW key \in Keys \ {"perModel"}
  PROVE  Choice!InForce(files, args)[key] =
           IF args.flags[key] # {} THEN args.flags[key] ELSE Choice!Configured(files, args.sources)[key]
BY ConfiguredIs, OverlayIs DEF Choice!InForce

\* The first role that has a target has it.
LEMMA RolesKeepTheTarget ==
  ASSUME NEW config \in Choice!Configs, NEW name
  PROVE  /\ Choice!MapModel(config, Choice!CanonicalClaudeRuntimeModel(config, name)) = Choice!MapModel(config, name)
         /\ Choice!MapModel(config, Choice!ClaudeRuntimeModel(config, name)) = Choice!MapModel(config, name)
         /\ Choice!MapModel(config, Choice!SettingsAlias(config, name)) = Choice!MapModel(config, name)
<1>1. \A family \in Choice!Families : config[family] # Choice!Unset
  <2>1. PICK a \in {"gpt-a"}, b \in {"gpt-a", "gpt-b"}, c \in {"gpt-b", "gpt-d"} :
          config = [opus |-> a, sonnet |-> b, haiku |-> c, fable |-> "gpt-d"]
    BY DEF Choice!Configs
  <2>2. "gpt-a" # Choice!Unset /\ "gpt-b" # Choice!Unset /\ "gpt-d" # Choice!Unset
    BY DEF Choice!Unset
  <2> QED BY <2>1, <2>2 DEF Choice!Families
<1>2. \A family \in Choice!Families : Choice!FamilyForModel(Choice!Alias(family)) = family
                                       /\ Choice!Alias(family).slug = Choice!Unset
  BY DEF Choice!FamilyForModel, Choice!Alias, Choice!Families
<1>3. \A family \in Choice!Families : Choice!MapModel(config, Choice!Alias(family)) = config[family]
  BY <1>2 DEF Choice!MapModel
<1>4. CASE name.slug # Choice!Unset
  BY <1>4 DEF Choice!CanonicalClaudeRuntimeModel, Choice!ClaudeRuntimeModel, Choice!SettingsAlias,
              Choice!MapModel, Choice!CodexName
<1>5. CASE name.slug = Choice!Unset
  <2>1. Choice!MapModel(config, name) = config[Choice!FamilyForModel(name)]
        /\ Choice!FamilyForModel(name) \in Choice!Families
    BY <1>5, NamesHaveAFamily DEF Choice!MapModel
  <2> DEFINE roles == {n \in DOMAIN Choice!RoleOrder :
                         config[Choice!RoleOrder[n]] = Choice!MapModel(config, name)}
  <2>2. /\ DOMAIN Choice!RoleOrder = 1 .. 4
        /\ \A n \in 1 .. 4 : Choice!RoleOrder[n] \in Choice!Families
        /\ \A family \in Choice!Families : \E n \in 1 .. 4 : Choice!RoleOrder[n] = family
    BY DEF Choice!RoleOrder, Choice!Families
  <2>3. roles \subseteq 0 .. 4 /\ roles # {}
    BY <2>1, <2>2
  <2>4. Choice!Min(roles) \in roles
    <3> HIDE DEF roles
    <3>1. PICK top \in Nat : roles \subseteq 0 .. top
      BY <2>3
    <3> QED BY <2>3, <3>1, RangesAreFinite, MinIs
  <2>5. Choice!MapModel(config, Choice!Alias(Choice!RoleOrder[Choice!Min(roles)])) = Choice!MapModel(config, name)
    BY <1>3, <2>2, <2>4
  <2>6. Choice!CanonicalClaudeRuntimeModel(config, name) = Choice!Alias(Choice!RoleOrder[Choice!Min(roles)])
    BY <1>5 DEF Choice!CanonicalClaudeRuntimeModel
  <2>7. Choice!MapModel(config, Choice!ClaudeRuntimeModel(config, name)) = Choice!MapModel(config, name)
    BY <1>1, <2>1 DEF Choice!ClaudeRuntimeModel, Choice!CodexName, Choice!MapModel
  <2>8. Choice!MapModel(config, Choice!SettingsAlias(config, name)) = Choice!MapModel(config, name)
    BY <1>3, <1>5, <2>1 DEF Choice!SettingsAlias
  <2> QED BY <2>5, <2>6, <2>7, <2>8
<1> QED BY <1>4, <1>5

\* The default of Claude Code asks for what the model's own default is.
LEMMA DefaultIsAskedFor ==
  ASSUME NEW target, Choice!OrdinaryReasoningLevels(target) # {},
         NEW e \in Choice!NativeCatalogDefaultEffort(target)
  PROVE  Choice!MapReasoningEffort(target, e, 0) = Choice!MapReasoningEffort(target, Choice!Unset, 0)
<1> DEFINE desired == Choice!MapReasoningEffort(target, "auto", 0)
           same == {n \in 3 .. Len(Choice!OrdinaryEfforts) :
                      Choice!MapReasoningEffort(target, Choice!OrdinaryEfforts[n], 0) = desired}
<1>1. "auto" \notin Choice!Efforts /\ Choice!Unset \notin Choice!Efforts
  BY NoEfforts
<1>2. desired = Choice!MapReasoningEffort(target, Choice!Unset, 0)
  BY <1>1 DEF Choice!MapReasoningEffort
<1>3. desired \in Choice!OrdinaryReasoningLevels(target) /\ desired \in Choice!Efforts
  BY EffortsAreSupported DEF Choice!OrdinaryReasoningLevels
<1>4. Choice!MapReasoningEffort(target, desired, 0) = desired
  <2> HIDE DEF desired
  <2>1. Choice!MapReasoningEffort(target, desired, 0) = Choice!Clamp(target, desired)
    BY <1>3 DEF Choice!MapReasoningEffort
  <2> DEFINE got == Choice!Clamp(target, desired)
  <2>2. got \in Choice!OrdinaryReasoningLevels(target) /\ got \in Choice!Efforts
    BY <1>3, Clamped DEF Choice!OrdinaryReasoningLevels
  <2>3. Choice!Rank(got) \in 1 .. 7 /\ Choice!Rank(desired) \in 1 .. 7
    BY <1>3, <2>2, Ranks
  <2>4. IF Choice!Rank(got) <= Choice!Rank(desired)
        THEN Choice!Rank(desired) <= Choice!Rank(desired) => Choice!Rank(desired) <= Choice!Rank(got)
        ELSE Choice!Rank(desired) > Choice!Rank(desired)
    BY <1>3, Clamped
  <2>5. Choice!Rank(got) = Choice!Rank(desired)
    BY <2>3, <2>4
  <2> QED BY <1>3, <2>1, <2>2, <2>5, Ranks
<1>5. CASE e = desired
  BY <1>2, <1>4, <1>5
<1>6. CASE e # desired
  <2>1. e \in {Choice!OrdinaryEfforts[n] : n \in {m \in same : \A o \in same : m <= o}}
    <3> HIDE DEF desired
    <3> QED BY <1>6 DEF Choice!NativeCatalogDefaultEffort, desired
  <2>2. PICK n \in same : e = Choice!OrdinaryEfforts[n]
    <3> HIDE DEF same
    <3> QED BY <2>1
  <2> QED BY <1>2, <2>2
<1> QED BY <1>5, <1>6

\* What can be set: nothing, or one value
LEMMA SetOnce == ASSUME NEW S, NEW x \in Choice!Optional(S) PROVE \A a, b \in x : a = b /\ a \in S
BY DEF Choice!Optional

\* What a launch and its settings are
LEMMA LaunchIs ==
  ASSUME NEW in \in Choice!Launches
  PROVE  /\ IsArgs(in.args) /\ in.args.flags.model = {} /\ DOMAIN in.args.sources \in {1 .. 1, 1 .. 2}
         /\ \A a, b \in in.args.model : a = b
         /\ \A n \in DOMAIN in.args.sources : \A a, b \in in.files[in.args.sources[n]].model : a = b
<1>1. /\ in.files.user \in Choice!UserFiles /\ in.files.project \in Choice!ProjectFiles
      /\ in.args.flags \in Choice!FlagSettings /\ in.args.sources \in Choice!Sources
      /\ in.args.model \in Choice!Optional(Choice!AskedNames)
      /\ in.args = [model |-> in.args.model, effort |-> in.args.effort, flags |-> in.args.flags,
                    sources |-> in.args.sources]
  BY DEF Choice!Launches
<1>2. PICK e \in Choice!Optional({"medium"}) : in.args.flags = Choice!Chosen({}, e)
  BY <1>1 DEF Choice!FlagSettings
<1>3. IsSettings(in.args.flags) /\ in.args.flags.model = {}
  BY <1>2 DEF Choice!Chosen, IsSettings, Keys, Choice!NoSettings
<1>4. \A a, b \in in.args.model : a = b
  BY <1>1, SetOnce
<1>5. \A a, b \in in.files.user.model : a = b
  <2>1. PICK m \in Choice!Optional(Choice!AskedNames), d \in Choice!Optional({"high"}) :
          in.files.user = Choice!Chosen(m, d)
    BY <1>1 DEF Choice!UserFiles
  <2>2. in.files.user.model = m
    BY <2>1 DEF Choice!Chosen, Choice!NoSettings
  <2> QED BY <2>2, SetOnce
<1>6. \A a, b \in in.files.project.model : a = b
  <2>1. \/ in.files.project = Choice!NoSettings
        \/ in.files.project = Choice!Chosen({Choice!Alias("haiku")}, {})
        \/ in.files.project = [Choice!NoSettings EXCEPT !.perModel = {Choice!Alias("haiku")}]
    BY <1>1 DEF Choice!ProjectFiles
  <2>2. /\ Choice!NoSettings.model = {} /\ Choice!Chosen({Choice!Alias("haiku")}, {}).model = {Choice!Alias("haiku")}
        /\ [Choice!NoSettings EXCEPT !.perModel = {Choice!Alias("haiku")}].model = {}
    BY DEF Choice!Chosen, Choice!NoSettings
  <2>3. in.files.project.model = {} \/ in.files.project.model = {Choice!Alias("haiku")}
    BY <2>1, <2>2
  <2> QED BY <2>3
<1>7. DOMAIN in.args.sources \in {1 .. 1, 1 .. 2}
      /\ \A n \in DOMAIN in.args.sources : in.args.sources[n] \in {"user", "project"}
  BY <1>1 DEF Choice!Sources
<1> QED BY <1>1, <1>3, <1>4, <1>5, <1>6, <1>7 DEF IsArgs

LEMMA ChoicesStay ==
  ASSUME NEW in \in Choice!Launches
  PROVE  Choice!ChoicesAreKept(in)
<1> SUFFICES ASSUME NEW config \in Choice!Configs, NEW target \in Choice!Targets, NEW picker \in {"roles", "targets"},
                    NEW out \in Choice!Prepare(config, target, in.files, Choice!Rewrite(config, in.args, picker), in.env)
    PROVE  LET before == Choice!ModelInForce(in.files, in.args)
               chosen == Choice!EffortInForce(in.files, in.args, in.env)
               then == Choice!EffortInForce(in.files, out, in.env)
           IN
           /\ \A n \in before, m \in Choice!ModelInForce(in.files, out) :
                Choice!MapModel(config, m) = Choice!MapModel(config, n)
           /\ before = {} <=> Choice!ModelInForce(in.files, out) = {}
           /\ chosen # {} => then = chosen
           /\ chosen = {} => \A e \in then :
                Choice!MapReasoningEffort(target, e, 0) = Choice!MapReasoningEffort(target, Choice!Unset, 0)
  BY DEF Choice!ChoicesAreKept
<1> DEFINE files == in.files
           args == in.args
           env == in.env
           rewritten == Choice!Rewrite(config, args, picker)
           named(n) == IF picker = "roles" THEN Choice!CanonicalClaudeRuntimeModel(config, n)
                       ELSE Choice!ClaudeRuntimeModel(config, n)
           configured == Choice!Configured(files, args.sources)
           active == Choice!Overlay(configured, args.flags)
           aliases == {Choice!SettingsAlias(config, n) : n \in active.model}
<1>1. /\ IsArgs(args) /\ args.flags.model = {} /\ DOMAIN args.sources \in {1 .. 1, 1 .. 2}
      /\ \A a, b \in args.model : a = b
      /\ \A n \in DOMAIN args.sources : \A a, b \in files[args.sources[n]].model : a = b
  BY LaunchIs
<1>2. /\ IsArgs(rewritten) /\ rewritten.model = {named(n) : n \in args.model}
      /\ rewritten.effort = args.effort /\ rewritten.flags = args.flags /\ rewritten.sources = args.sources
  <2> DEFINE models == {named(n) : n \in args.model}
  <2>1. rewritten = [args EXCEPT !.model = models]
    BY DEF Choice!Rewrite
  <2> HIDE DEF models, rewritten, args
  <2>2. /\ IsArgs(rewritten) /\ rewritten.model = models
        /\ rewritten.effort = args.effort /\ rewritten.flags = args.flags /\ rewritten.sources = args.sources
    BY <1>1, <2>1 DEF IsArgs
  <2> QED BY <2>2 DEF models
<1> HIDE DEF rewritten, files, args, env
<1>3. /\ IsArgs(out) /\ out.model = rewritten.model /\ out.sources = args.sources
      /\ out.flags.model = IF rewritten.model = {} /\ aliases # active.model /\ aliases # {}
                           THEN aliases ELSE {}
      /\ out.flags.effort = IF args.effort = {"ultracode"} THEN {"ultracode"} ELSE args.flags.effort
      /\ \/ out.effort = IF args.effort = {"ultracode"} THEN {} ELSE args.effort
         \/ args.effort = {} /\ env = {} /\ active.effort = {}
            /\ out.effort = Choice!NativeCatalogDefaultEffort(target)
  <2>1. out \in Choice!Prepare(config, target, files, rewritten, env)
    BY DEF rewritten, files, args, env
  <2>2. DOMAIN rewritten.sources \in {1 .. 1, 1 .. 2}
    BY <1>1, <1>2
  <2>3. Prepared(config, target, files, rewritten, env, out)
    BY <1>2, <2>1, <2>2, PreparedIs
  <2>4. active = Choice!Overlay(Choice!Configured(files, rewritten.sources), rewritten.flags)
    BY <1>2
  <2>5. aliases = {Choice!SettingsAlias(config, n) :
                     n \in Choice!Overlay(Choice!Configured(files, rewritten.sources), rewritten.flags).model}
    BY <2>4
  <2> HIDE DEF active, aliases
  <2> QED BY <1>1, <1>2, <2>3, <2>4, <2>5 DEF Prepared
<1>4. "model" \in Keys \ {"perModel"} /\ "effort" \in Keys \ {"perModel"}
  BY DEF Keys
<1>5. DOMAIN configured = Keys /\ \A a, b \in configured.model : a = b
  BY <1>1, <1>4, ConfiguredIs
<1>6. /\ active.model = configured.model
      /\ active.effort = IF args.flags.effort # {} THEN args.flags.effort ELSE configured.effort
  BY <1>1, <1>4, <1>5, OverlayIs
<1>7. /\ Choice!InForce(files, args).model = configured.model
      /\ Choice!InForce(files, args).effort = active.effort
  BY <1>1, <1>4, <1>6, InForceIs
<1>8. /\ Choice!InForce(files, out).model = IF out.flags.model # {} THEN out.flags.model ELSE configured.model
      /\ Choice!InForce(files, out).effort = IF out.flags.effort # {} THEN out.flags.effort ELSE configured.effort
  BY <1>1, <1>3, <1>4, InForceIs
<1> HIDE DEF configured, active
<1>9. /\ \A n \in Choice!ModelInForce(files, args), m \in Choice!ModelInForce(files, out) :
           Choice!MapModel(config, m) = Choice!MapModel(config, n)
      /\ Choice!ModelInForce(files, args) = {} <=> Choice!ModelInForce(files, out) = {}
  <2>1. \A n : Choice!MapModel(config, named(n)) = Choice!MapModel(config, n)
               /\ Choice!MapModel(config, Choice!SettingsAlias(config, n)) = Choice!MapModel(config, n)
    BY RolesKeepTheTarget
  <2>2. CASE args.model # {}
    <3>1. /\ Choice!ModelInForce(files, args) = args.model
          /\ Choice!ModelInForce(files, out) = {named(n) : n \in args.model}
      BY <1>2, <1>3, <2>2 DEF Choice!ModelInForce
    <3> HIDE DEF named
    <3> QED BY <1>1, <2>1, <2>2, <3>1
  <2>3. CASE args.model = {}
    <3>1. rewritten.model = {} /\ out.model = {}
      BY <1>2, <1>3, <2>3
    <3>2. Choice!ModelInForce(files, args) = configured.model
      BY <1>7, <2>3 DEF Choice!ModelInForce
    <3>3. Choice!ModelInForce(files, out) = configured.model \/ Choice!ModelInForce(files, out) = aliases
      BY <1>3, <1>8, <3>1 DEF Choice!ModelInForce
    <3>4. aliases = {Choice!SettingsAlias(config, n) : n \in configured.model}
      BY <1>6
    <3> HIDE DEF aliases, named
    <3> QED BY <1>5, <2>1, <3>2, <3>3, <3>4
  <2> QED BY <2>2, <2>3
<1>10. Choice!EffortInForce(files, args, env) =
         IF env # {} THEN env ELSE IF args.effort # {} THEN args.effort ELSE active.effort
  BY <1>7 DEF Choice!EffortInForce
<1>11. Choice!EffortInForce(files, out, env) =
         IF env # {} THEN env ELSE IF out.effort # {} THEN out.effort
         ELSE IF out.flags.effort # {} THEN out.flags.effort ELSE configured.effort
  BY <1>8 DEF Choice!EffortInForce
<1>12. Choice!EffortInForce(files, args, env) # {} =>
         Choice!EffortInForce(files, out, env) = Choice!EffortInForce(files, args, env)
  BY <1>3, <1>6, <1>10, <1>11
<1>13. ASSUME Choice!EffortInForce(files, args, env) = {}, NEW e \in Choice!EffortInForce(files, out, env)
       PROVE  Choice!MapReasoningEffort(target, e, 0) = Choice!MapReasoningEffort(target, Choice!Unset, 0)
  <2>1. Choice!OrdinaryReasoningLevels(target) # {}
    <3>1. PICK levels \in {{"none"}, {"none", "low"}, {"minimal", "high"}, {"medium"}} :
            target = [Choice!Model("m", "none", <<1>>) EXCEPT !.levels = levels, !.default = "none"]
      BY DEF Choice!Targets
    <3>3. target.levels = levels
      BY <3>1 DEF Choice!Model
    <3>2. {"none", "minimal", "medium"} \subseteq Choice!Efforts
      BY EffortsRank DEF Choice!OrdinaryEfforts
    <3> QED BY <3>2, <3>3 DEF Choice!OrdinaryReasoningLevels
  <2>2. e \in Choice!NativeCatalogDefaultEffort(target)
    BY <1>3, <1>6, <1>10, <1>11, <1>13
  <2> QED BY <2>1, <2>2, DefaultIsAskedFor
<1> QED BY <1>9, <1>12, <1>13 DEF files, args, env

\* A status line is "a" or "b", or there is none.
LEMMA LinesAre ==
  ASSUME NEW line \in Choice!Lines
  PROVE  IsSettings(line) /\ line.model = {} /\ line.effort = {} /\ Choice!Wrapper \notin line.command
<1>1. PICK c \in Choice!Optional({"a", "b"}), p \in Choice!Optional({1}) :
        line = Choice!Shows(c, p)
  BY DEF Choice!Lines
<1>2. IsSettings(line) /\ line.model = {} /\ line.effort = {} /\ line.command = c
  BY <1>1 DEF Choice!Shows, Choice!NoSettings, IsSettings, Keys
<1>3. Choice!Wrapper \notin c
  BY DEF Choice!Optional, Choice!Wrapper
<1> QED BY <1>2, <1>3

LEMMA LinesStay ==
  ASSUME NEW in \in Choice!StatusLines
  PROVE  Choice!StatusLineIsTheUsers(in)
<1> DEFINE config == CHOOSE c \in Choice!Configs : TRUE
           target == CHOOSE t \in Choice!Targets : t.levels = {"medium"}
<1> SUFFICES ASSUME NEW out \in Choice!Prepare(config, target, in.files, in.args, in.env),
                    NEW later \in [user : Choice!Lines, project : Choice!Lines]
    PROVE  Choice!StatusLineRun(later, out, in.args) = Choice!InForce(later, in.args).command
  BY DEF Choice!StatusLineIsTheUsers
<1> HIDE DEF config, target
<1> DEFINE files == in.files
           args == in.args
           env == in.env
<1>1. /\ args.flags \in Choice!Lines /\ args.sources \in Choice!Sources
      /\ args = [model |-> args.model, effort |-> args.effort, flags |-> args.flags, sources |-> args.sources]
  BY DEF Choice!StatusLines
<1>3. DOMAIN args.sources \in {1 .. 1, 1 .. 2} /\ \A n \in DOMAIN args.sources : args.sources[n] \in {"user", "project"}
  BY <1>1 DEF Choice!Sources
<1>5. IsArgs(args) /\ Choice!Wrapper \notin args.flags.command
  BY <1>1, LinesAre DEF IsArgs
<1>6. \A n \in DOMAIN args.sources : later[args.sources[n]] \in Choice!Lines
  BY <1>3
<1> HIDE DEF files, args, env
<1>7. "command" \in Keys \ {"perModel"} /\ Choice!Wrapper \notin {}
  BY DEF Keys
<1> DEFINE configured(f) == Choice!Configured(f, args.sources)
<1>8. DOMAIN configured(later) = Keys /\ DOMAIN configured(files) = Keys /\ Choice!Wrapper \notin configured(later).command
  <2>1. \A n \in DOMAIN args.sources : Choice!Wrapper \notin later[args.sources[n]].command
    BY <1>6, LinesAre
  <2> QED BY <1>3, <1>7, <2>1, ConfiguredIs
<1> HIDE DEF configured
<1>9. /\ out.sources = args.sources
      /\ out.flags.command = IF args.flags.command # {} \/ configured(files).command # {}
                             THEN {Choice!Wrapper} ELSE {}
  <2>1. out \in Choice!Prepare(config, target, files, args, env)
    BY DEF files, args, env
  <2> DEFINE active == Choice!Overlay(configured(files), args.flags)
  <2>2. active.command = IF args.flags.command # {} THEN args.flags.command ELSE configured(files).command
    BY <1>7, <1>8, OverlayIs
  <2>3. Prepared(config, target, files, args, env, out)
    BY <1>3, <1>5, <2>1, PreparedIs
  <2>4. active = Choice!Overlay(Choice!Configured(files, args.sources), args.flags)
    BY DEF configured
  <2> HIDE DEF active
  <2> QED BY <2>2, <2>3, <2>4 DEF Prepared
<1>10. /\ Choice!InForce(later, args).command =
            IF args.flags.command # {} THEN args.flags.command ELSE configured(later).command
       /\ Choice!InForce(later, out).command =
            IF out.flags.command # {} THEN out.flags.command ELSE configured(later).command
  BY <1>3, <1>7, <1>9, InForceIs DEF configured
<1>11. Choice!RunStatusLineWrapper(later, args) = Choice!InForce(later, args).command \ {Choice!Wrapper}
  <2> DEFINE line == [Choice!NoSettings EXCEPT !.command = args.flags.command, !.padding = args.flags.padding]
  <2>1. line.command = args.flags.command
    BY DEF Choice!NoSettings
  <2> HIDE DEF line
  <2>2. Choice!Overlay(configured(later), line).command =
          IF args.flags.command # {} THEN args.flags.command ELSE configured(later).command
    BY <1>7, <1>8, <2>1, OverlayIs
  <2> QED BY <1>10, <2>2 DEF Choice!RunStatusLineWrapper, configured, line
<1>12. Choice!Wrapper \notin Choice!InForce(later, args).command
  BY <1>5, <1>8, <1>10
<1>13. Choice!StatusLineRun(later, out, args) = Choice!InForce(later, args).command
  BY <1>8, <1>9, <1>10, <1>11, <1>12 DEF Choice!StatusLineRun
<1> QED BY <1>13 DEF args

-----------------------------------------------------------------------------
(* The arguments that name models                                          *)

\* Induction along a range: a set that has its beginning, and every number whose
\* predecessor it has, has all of it.
LEMMA AlongTheRange ==
  ASSUME NEW top \in Nat, NEW good, 0 \in good, \A n \in 1 .. top : n - 1 \in good => n \in good
  PROVE  0 .. top \subseteq good
<1> DEFINE bad == (0 .. top) \ good
<1> SUFFICES ASSUME bad # {} PROVE FALSE
  OBVIOUS
<1>1. bad \subseteq 0 .. top
  OBVIOUS
<1>2. PICK m \in bad : \A n \in bad : m <= n
  <2> HIDE DEF bad
  <2>1. IsFiniteSet(bad) /\ bad \subseteq Int
    BY <1>1, RangesAreFinite
  <2> QED BY <2>1, LeastOf
<1>3. m \in 1 .. top /\ m - 1 \in 0 .. top
  BY <1>2
<1>4. m - 1 \in bad
  BY <1>2, <1>3
<1> QED BY <1>2, <1>3, <1>4

\* The turns of the loop are what they are defined by.
LEMMA TurnsAre ==
  ASSUME NEW args, Len(args) \in Nat, NEW start
  PROVE  /\ Flags!Turns(args, start)[0] = start
         /\ \A n \in 1 .. Len(args) :
              Flags!Turns(args, start)[n] =
                IF Flags!Turns(args, start)[n - 1].failed \/ Flags!Turns(args, start)[n - 1].at > Len(args)
                THEN Flags!Turns(args, start)[n - 1]
                ELSE Flags!Step(args, Flags!Turns(args, start)[n - 1])
<1> DEFINE next(s) == IF s.failed \/ s.at > Len(args) THEN s ELSE Flags!Step(args, s)
           good == {n \in 0 .. Len(args) : \E f : f = [k \in 0 .. n |-> IF k = 0 THEN start ELSE next(f[k - 1])]}
<1> HIDE DEF next
<1>1. 0 \in good
  <2> DEFINE f == [k \in 0 .. 0 |-> start]
  <2>1. f = [k \in 0 .. 0 |-> IF k = 0 THEN start ELSE next(f[k - 1])]
    OBVIOUS
  <2> HIDE DEF f
  <2>2. \E h : h = [k \in 0 .. 0 |-> IF k = 0 THEN start ELSE next(h[k - 1])]
    BY <2>1
  <2> QED BY <2>2
<1>2. ASSUME NEW n \in 1 .. Len(args), n - 1 \in good PROVE n \in good
  <2>1. PICK f : f = [k \in 0 .. (n - 1) |-> IF k = 0 THEN start ELSE next(f[k - 1])]
    BY <1>2
  <2> DEFINE g == [k \in 0 .. n |-> IF k = n THEN next(f[n - 1]) ELSE f[k]]
  <2>2. \A k \in 0 .. n : g[k] = IF k = 0 THEN start ELSE next(g[k - 1])
    <3>1. g[n] = next(g[n - 1])
      OBVIOUS
    <3>2. \A k \in 0 .. (n - 1) : g[k] = f[k]
      OBVIOUS
    <3>3. \A k \in 1 .. (n - 1) : g[k] = next(g[k - 1])
      BY <2>1, <3>2
    <3>4. g[0] = start
      BY <2>1, <3>2
    <3>5. \A k \in 0 .. n : k = 0 \/ k = n \/ (k \in 1 .. (n - 1) /\ k # 0)
      OBVIOUS
    <3> HIDE DEF g
    <3> QED BY <3>1, <3>3, <3>4, <3>5
  <2>3. g = [k \in 0 .. n |-> IF k = 0 THEN start ELSE next(g[k - 1])]
    BY <2>2
  <2> HIDE DEF g
  <2> QED BY <2>3
<1>3. Len(args) \in good
  <2> HIDE DEF good
  <2>1. 0 .. Len(args) \subseteq good
    BY <1>1, <1>2, AlongTheRange
  <2> QED BY <2>1
<1>4. PICK f : f = [k \in 0 .. Len(args) |-> IF k = 0 THEN start ELSE next(f[k - 1])]
  BY <1>3
<1>5. Flags!Turns(args, start) =
        [k \in 0 .. Len(args) |-> IF k = 0 THEN start ELSE next(Flags!Turns(args, start)[k - 1])]
  BY <1>4, Zenon DEF Flags!Turns, next
<1>6. \A k \in 0 .. Len(args) :
        Flags!Turns(args, start)[k] = IF k = 0 THEN start ELSE next(Flags!Turns(args, start)[k - 1])
  <2> DEFINE turns == Flags!Turns(args, start)
  <2>1. turns = [k \in 0 .. Len(args) |-> IF k = 0 THEN start ELSE next(turns[k - 1])]
    BY <1>5
  <2> HIDE DEF turns
  <2>2. \A k \in 0 .. Len(args) : turns[k] = IF k = 0 THEN start ELSE next(turns[k - 1])
    BY <2>1
  <2> QED BY <2>2 DEF turns
<1> QED BY <1>6 DEF next

\* Which arguments are values of the flag before them
LEMMA ValuesAre ==
  ASSUME NEW args, Len(args) \in Nat, DOMAIN args = 1 .. Len(args)
  PROVE  \A i \in 1 .. Len(args) :
           Flags!Values(args)[i] = (i > 1 /\ args[i - 1].kind = "bare" /\ ~Flags!Values(args)[i - 1])
<1> DEFINE next(i, v) == args[i].kind = "bare" /\ ~v
           good == {n \in 0 .. Len(args) : \E f : f = [i \in 1 .. n |-> i > 1 /\ next(i - 1, f[i - 1])]}
<1> HIDE DEF next
<1>1. 0 \in good
  <2>1. ASSUME NEW n, n = 0 PROVE \E h : h = [i \in 1 .. n |-> i > 1 /\ next(i - 1, h[i - 1])]
    <3> DEFINE f == [i \in 1 .. n |-> FALSE]
    <3>1. f = [i \in 1 .. n |-> i > 1 /\ next(i - 1, f[i - 1])]
      BY <2>1
    <3> HIDE DEF f
    <3> QED BY <3>1
  <2>2. 0 \in 0 .. Len(args)
    OBVIOUS
  <2> QED BY <2>1, <2>2
<1>2. ASSUME NEW n \in 1 .. Len(args), n - 1 \in good PROVE n \in good
  <2>1. PICK f : f = [i \in 1 .. (n - 1) |-> i > 1 /\ next(i - 1, f[i - 1])]
    BY <1>2
  <2> DEFINE g == [i \in 1 .. n |-> IF i = n THEN n > 1 /\ next(n - 1, f[n - 1]) ELSE f[i]]
  <2>2. \A i \in 1 .. n : g[i] = (i > 1 /\ next(i - 1, g[i - 1]))
    <3>1. \A i \in 1 .. (n - 1) : g[i] = f[i]
      OBVIOUS
    <3>2. g[n] = (n > 1 /\ next(n - 1, f[n - 1]))
      OBVIOUS
    <3>3. n > 1 => g[n - 1] = f[n - 1]
      BY <3>1
    <3>4. g[n] = (n > 1 /\ next(n - 1, g[n - 1]))
      BY <3>2, <3>3
    <3>5. \A i \in 1 .. (n - 1) : g[i] = (i > 1 /\ next(i - 1, g[i - 1]))
      BY <2>1, <3>1
    <3>6. \A i \in 1 .. n : i = n \/ i \in 1 .. (n - 1)
      OBVIOUS
    <3> HIDE DEF g
    <3> QED BY <3>4, <3>5, <3>6
  <2>3. g = [i \in 1 .. n |-> i > 1 /\ next(i - 1, g[i - 1])]
    BY <2>2
  <2> HIDE DEF g
  <2> QED BY <2>3
<1>3. Len(args) \in good
  <2> HIDE DEF good
  <2>1. 0 .. Len(args) \subseteq good
    BY <1>1, <1>2, AlongTheRange
  <2> QED BY <2>1
<1>4. PICK f : f = [i \in 1 .. Len(args) |-> i > 1 /\ next(i - 1, f[i - 1])]
  BY <1>3
<1> DEFINE values == Flags!Values(args)
<1>5. values = [i \in 1 .. Len(args) |-> i > 1 /\ next(i - 1, values[i - 1])]
  BY <1>4 DEF Flags!Values, next
<1> HIDE DEF values
<1>6. \A i \in 1 .. Len(args) : values[i] = (i > 1 /\ next(i - 1, values[i - 1]))
  BY <1>5
<1> QED BY <1>6 DEF values, next

\* A line of arguments, each of one kind, and a state of the loop
IsArgument(a) ==
  /\ a.kind \in {"word", "end", "inline", "bare", "map"}
  /\ a.kind \in {"inline", "bare"} => a.family \in Flags!Families
  /\ a.kind = "map" => Len(a.entries) \in Nat /\ DOMAIN a.entries = 1 .. Len(a.entries)
IsLine(args) ==
  /\ Len(args) \in Nat /\ args \in [1 .. Len(args) -> {args[i] : i \in 1 .. Len(args)}]
  /\ \A i \in 1 .. Len(args) : IsArgument(args[i])
IsState(s) ==
  /\ s = [at |-> s.at, out |-> s.out, failed |-> s.failed, models |-> s.models, pins |-> s.pins]
  /\ s.failed \in BOOLEAN /\ s.models = [f \in Flags!Families |-> s.models[f]]

\* What a flag that says this makes of a state
TakenUp(s, r, said) ==
  /\ IsState(r) /\ r.out = s.out /\ r.at = s.at
  /\ r.failed = (\E x \in said : x[2] = Flags!Unset \/ x[1] \notin Flags!Families)
  /\ ~r.failed => \A f \in Flags!Families :
       /\ f \in r.pins <=> f \in s.pins \/ \E x \in said : x[1] = f
       /\ IF \E x \in said : x[1] = f THEN <<f, r.models[f]>> \in said ELSE r.models[f] = s.models[f]

LEMMA NameIs ==
  ASSUME NEW s, IsState(s), NEW family \in Flags!Families, NEW value
  PROVE  /\ value = Flags!Unset => Flags!Name(s, family, value) = Flags!Failed(s)
         /\ IsState(Flags!Name(s, family, value))
         /\ Flags!Name(s, family, value).out = s.out /\ Flags!Name(s, family, value).at = s.at
         /\ value = Flags!Unset => Flags!Name(s, family, value).failed
         /\ value # Flags!Unset =>
              /\ Flags!Name(s, family, value).failed = s.failed
              /\ Flags!Name(s, family, value).pins = s.pins \cup {family}
              /\ Flags!Name(s, family, value).models[family] = value
              /\ \A f \in Flags!Families : f # family => Flags!Name(s, family, value).models[f] = s.models[f]
<1> DEFINE r == Flags!Name(s, family, value)
<1>1. CASE value = Flags!Unset
  <2>1. r = [s EXCEPT !.failed = TRUE]
    BY <1>1 DEF Flags!Name, Flags!Failed
  <2> QED BY <1>1, <2>1 DEF IsState, Flags!Failed
<1>2. CASE value # Flags!Unset
  <2>1. r = [s EXCEPT !.models[family] = value, !.pins = s.pins \cup {family}]
    BY <1>2 DEF Flags!Name
  <2> QED BY <1>2, <2>1 DEF IsState
<1> QED BY <1>1, <1>2

LEMMA OneNameIsTakenUp ==
  ASSUME NEW s, IsState(s), ~s.failed, NEW family \in Flags!Families, NEW value
  PROVE  TakenUp(s, Flags!Name(s, family, value), {<<family, value>>})
<1>1. \A x \in {<<family, value>>} : x[1] = family /\ x[2] = value
  OBVIOUS
<1> DEFINE r == Flags!Name(s, family, value)
<1>2. /\ IsState(r) /\ r.out = s.out /\ r.at = s.at
      /\ value = Flags!Unset => r.failed
      /\ value # Flags!Unset =>
           /\ r.failed = s.failed /\ r.pins = s.pins \cup {family} /\ r.models[family] = value
           /\ \A f \in Flags!Families : f # family => r.models[f] = s.models[f]
  BY NameIs
<1> HIDE DEF r
<1>3. r.failed = (value = Flags!Unset)
  BY <1>2 DEF IsState
<1>4. (\E x \in {<<family, value>>} : x[2] = Flags!Unset \/ x[1] \notin Flags!Families) = (value = Flags!Unset)
  BY <1>1
<1>5. ASSUME ~r.failed, NEW f \in Flags!Families
      PROVE  /\ f \in r.pins <=> f \in s.pins \/ \E x \in {<<family, value>>} : x[1] = f
             /\ IF \E x \in {<<family, value>>} : x[1] = f THEN <<f, r.models[f]>> \in {<<family, value>>}
                ELSE r.models[f] = s.models[f]
  BY <1>1, <1>2, <1>3, <1>5
<1>6. TakenUp(s, r, {<<family, value>>})
  BY <1>2, <1>3, <1>4, <1>5 DEF TakenUp
<1> QED BY <1>6 DEF r

\* The entries of a map, one after the other
LEMMA MappedIs ==
  ASSUME NEW state, NEW entries, Len(entries) \in Nat
  PROVE  /\ Flags!Mapped(state, entries)[0] = state
         /\ \A n \in 1 .. Len(entries) :
              Flags!Mapped(state, entries)[n] =
                IF Flags!Mapped(state, entries)[n - 1].failed \/ entries[n].family \notin Flags!Families
                THEN Flags!Failed(Flags!Mapped(state, entries)[n - 1])
                ELSE Flags!Name(Flags!Mapped(state, entries)[n - 1], entries[n].family, entries[n].value)
<1> DEFINE next(n, s) == IF s.failed \/ entries[n].family \notin Flags!Families THEN Flags!Failed(s)
                         ELSE Flags!Name(s, entries[n].family, entries[n].value)
           good == {n \in 0 .. Len(entries) : \E f : f = [k \in 0 .. n |-> IF k = 0 THEN state ELSE next(k, f[k - 1])]}
<1> HIDE DEF next
<1>1. 0 \in good
  <2> DEFINE f == [k \in 0 .. 0 |-> state]
  <2>1. f = [k \in 0 .. 0 |-> IF k = 0 THEN state ELSE next(k, f[k - 1])]
    OBVIOUS
  <2> HIDE DEF f
  <2>2. \E h : h = [k \in 0 .. 0 |-> IF k = 0 THEN state ELSE next(k, h[k - 1])]
    BY <2>1
  <2> QED BY <2>2
<1>2. ASSUME NEW n \in 1 .. Len(entries), n - 1 \in good PROVE n \in good
  <2>1. PICK f : f = [k \in 0 .. (n - 1) |-> IF k = 0 THEN state ELSE next(k, f[k - 1])]
    BY <1>2
  <2> DEFINE g == [k \in 0 .. n |-> IF k = n THEN next(n, f[n - 1]) ELSE f[k]]
  <2>2. \A k \in 0 .. n : g[k] = IF k = 0 THEN state ELSE next(k, g[k - 1])
    <3>1. g[n] = next(n, g[n - 1])
      OBVIOUS
    <3>2. \A k \in 0 .. (n - 1) : g[k] = f[k]
      OBVIOUS
    <3>3. \A k \in 1 .. (n - 1) : g[k] = next(k, g[k - 1])
      BY <2>1, <3>2
    <3>4. g[0] = state
      BY <2>1, <3>2
    <3>5. \A k \in 0 .. n : k = 0 \/ k = n \/ (k \in 1 .. (n - 1) /\ k # 0)
      OBVIOUS
    <3> HIDE DEF g
    <3> QED BY <3>1, <3>3, <3>4, <3>5
  <2>3. g = [k \in 0 .. n |-> IF k = 0 THEN state ELSE next(k, g[k - 1])]
    BY <2>2
  <2> HIDE DEF g
  <2> QED BY <2>3
<1>3. Len(entries) \in good
  <2> HIDE DEF good
  <2>1. 0 .. Len(entries) \subseteq good
    BY <1>1, <1>2, AlongTheRange
  <2> QED BY <2>1
<1>4. PICK f : f = [k \in 0 .. Len(entries) |-> IF k = 0 THEN state ELSE next(k, f[k - 1])]
  BY <1>3
<1> DEFINE mapped == Flags!Mapped(state, entries)
<1>5. mapped = [k \in 0 .. Len(entries) |-> IF k = 0 THEN state ELSE next(k, mapped[k - 1])]
  BY <1>4, Zenon DEF Flags!Mapped, next
<1> HIDE DEF mapped
<1>6. \A k \in 0 .. Len(entries) : mapped[k] = IF k = 0 THEN state ELSE next(k, mapped[k - 1])
  BY <1>5
<1> QED BY <1>6 DEF mapped, next

LEMMA AMapIsTakenUp ==
  ASSUME NEW s, IsState(s), ~s.failed, NEW entries, Len(entries) \in Nat, DOMAIN entries = 1 .. Len(entries)
  PROVE  TakenUp(s, Flags!ApplyModelMapFlag(s, entries),
                 {<<entries[n].family, entries[n].value>> : n \in DOMAIN entries})
<1> DEFINE said(n) == {<<entries[k].family, entries[k].value>> : k \in 1 .. n}
           mapped == Flags!Mapped(s, entries)
           good == {n \in 0 .. Len(entries) : TakenUp(s, mapped[n], said(n))}
<1> HIDE DEF mapped
<1>1. 0 \in good
  <2>1. said(0) = {} /\ mapped[0] = s
    BY MappedIs DEF mapped
  <2>2. TakenUp(s, s, {})
    BY DEF TakenUp, IsState
  <2> HIDE DEF said
  <2> QED BY <2>1, <2>2
<1>2. ASSUME NEW n \in 1 .. Len(entries), n - 1 \in good PROVE n \in good
  <2> DEFINE last == mapped[n - 1]
             family == entries[n].family
             value == entries[n].value
  <2>1. TakenUp(s, last, said(n - 1))
    BY <1>2
  <2>2. mapped[n] = IF last.failed \/ family \notin Flags!Families THEN Flags!Failed(last)
                    ELSE Flags!Name(last, family, value)
    BY MappedIs DEF mapped
  <2>3. said(n) = said(n - 1) \cup {<<family, value>>}
    <3>1. \A k : k \in 1 .. n <=> k \in 1 .. (n - 1) \/ k = n
      OBVIOUS
    <3> QED BY <3>1
  <2>4. IsState(last) /\ last.failed \in BOOLEAN
    BY <2>1 DEF TakenUp, IsState
  <2> HIDE DEF said, last, family, value
  <2>5. CASE last.failed \/ family \notin Flags!Families
    <3>1. IsState(mapped[n]) /\ mapped[n].failed /\ mapped[n].out = last.out /\ mapped[n].at = last.at
          /\ mapped[n].failed = TRUE
      BY <2>2, <2>4, <2>5 DEF Flags!Failed, IsState
    <3>2. \E x \in said(n) : x[2] = Flags!Unset \/ x[1] \notin Flags!Families
      <4>1. <<family, value>>[1] = family /\ <<family, value>> \in said(n)
        BY <2>3
      <4>2. CASE family \notin Flags!Families
        BY <4>1, <4>2
      <4>3. CASE last.failed
        BY <2>1, <2>3, <4>3 DEF TakenUp
      <4> QED BY <2>5, <4>2, <4>3
    <3>3. mapped[n].out = s.out /\ mapped[n].at = s.at
      BY <2>1, <3>1 DEF TakenUp
    <3>4. TakenUp(s, mapped[n], said(n))
      BY <3>1, <3>2, <3>3 DEF TakenUp
    <3> QED BY <3>4
  <2>6. CASE ~last.failed /\ family \in Flags!Families
    <3>1. TakenUp(last, mapped[n], {<<family, value>>})
      BY <2>2, <2>4, <2>6, OneNameIsTakenUp
    <3>2. <<family, value>>[1] = family /\ <<family, value>>[2] = value
      OBVIOUS
    <3>3. IsState(mapped[n]) /\ mapped[n].out = s.out /\ mapped[n].at = s.at
          /\ mapped[n].failed = (value = Flags!Unset)
      BY <2>1, <2>6, <3>1, <3>2, Zenon DEF TakenUp
    <3>4. ~(\E x \in said(n - 1) : x[2] = Flags!Unset \/ x[1] \notin Flags!Families)
      BY <2>1, <2>6 DEF TakenUp
    <3>5. mapped[n].failed = (\E x \in said(n) : x[2] = Flags!Unset \/ x[1] \notin Flags!Families)
      BY <2>3, <2>6, <3>2, <3>3, <3>4
    <3>6. ASSUME ~mapped[n].failed, NEW f \in Flags!Families
          PROVE  /\ f \in mapped[n].pins <=> f \in s.pins \/ \E x \in said(n) : x[1] = f
                 /\ IF \E x \in said(n) : x[1] = f THEN <<f, mapped[n].models[f]>> \in said(n)
                    ELSE mapped[n].models[f] = s.models[f]
      <4>1. /\ f \in last.pins <=> f \in s.pins \/ \E x \in said(n - 1) : x[1] = f
            /\ IF \E x \in said(n - 1) : x[1] = f THEN <<f, last.models[f]>> \in said(n - 1)
               ELSE last.models[f] = s.models[f]
        BY <2>1, <2>6 DEF TakenUp
      <4>2. /\ f \in mapped[n].pins <=> f \in last.pins \/ f = family
            /\ IF f = family THEN <<f, mapped[n].models[f]>> = <<family, value>>
               ELSE mapped[n].models[f] = last.models[f]
        BY <3>1, <3>2, <3>6 DEF TakenUp
      <4> QED BY <2>3, <3>2, <4>1, <4>2
    <3>7. TakenUp(s, mapped[n], said(n))
      BY <3>3, <3>5, <3>6 DEF TakenUp
    <3> QED BY <3>7
  <2> QED BY <2>4, <2>5, <2>6
<1>3. Len(entries) \in good
  <2> HIDE DEF good
  <2>1. 0 .. Len(entries) \subseteq good
    BY <1>1, <1>2, AlongTheRange
  <2> QED BY <2>1
<1>4. TakenUp(s, mapped[Len(entries)], said(Len(entries)))
  BY <1>3
<1> QED BY <1>4 DEF Flags!ApplyModelMapFlag, mapped

\* The first "--" that is no value
LEMMA StopIs ==
  ASSUME NEW args, IsLine(args)
  PROVE  /\ Flags!Stop(args) \in 1 .. Len(args) + 1
         /\ Flags!Stop(args) <= Len(args) => Flags!Stop(args) \in Flags!Ends(args)
         /\ \A i \in Flags!Ends(args) : Flags!Stop(args) <= i
<1>1. Len(args) \in Nat /\ DOMAIN args = 1 .. Len(args)
  BY DEF IsLine
<1>2. Flags!Ends(args) \subseteq 1 .. Len(args)
  BY <1>1 DEF Flags!Ends
<1>3. CASE Flags!Ends(args) = {}
  BY <1>1, <1>3 DEF Flags!Stop
<1>4. CASE Flags!Ends(args) # {}
  <2>1. Flags!Ends(args) \subseteq 0 .. Len(args)
    BY <1>2
  <2>2. IsFiniteSet(Flags!Ends(args)) /\ Flags!Ends(args) \subseteq Int
    BY <1>1, <2>1, RangesAreFinite
  <2>3. \E i \in Flags!Ends(args) : \A j \in Flags!Ends(args) : i <= j
    BY <1>4, <2>2, LeastOf
  <2>4. Flags!Stop(args) \in Flags!Ends(args) /\ \A j \in Flags!Ends(args) : Flags!Stop(args) <= j
    BY <1>4, <2>3 DEF Flags!Stop
  <2> QED BY <1>1, <1>2, <2>4
<1> QED BY <1>3, <1>4

Below(S, i) == {j \in S : j < i}

\* Of the arguments in S exactly these, in their order
InOrder(out, args, S) ==
  \E from \in [DOMAIN out -> S] :
    /\ S \subseteq {from[n] : n \in DOMAIN out}
    /\ \A n \in DOMAIN out : out[n] = args[from[n]] /\ \A m \in 1 .. n - 1 : from[m] < from[n]

\* What the flags before i say is in the state.
Told(args, base, s, i) ==
  \A f \in Flags!Families :
    /\ f \in s.pins <=> Below(Flags!NamedBy(args, f), i) # {} \/ base[f] # Flags!Unset
    /\ IF Below(Flags!NamedBy(args, f), i) = {} THEN s.models[f] = Flags!Start(base).models[f]
       ELSE \E j \in Below(Flags!NamedBy(args, f), i) :
              <<f, s.models[f]>> \in Flags!Says(args, j) /\ \A k \in Below(Flags!NamedBy(args, f), i) : k <= j

TurnInv(args, base, s, n) ==
  /\ IsState(s)
  /\ s.failed => Flags!Wrong(args) # {}
  /\ ~s.failed =>
       /\ s.at \in n + 1 .. Len(args) + 1
       /\ s.at <= Len(args) => s.at <= Flags!Stop(args) /\ ~Flags!Values(args)[s.at]
       /\ \A i \in Flags!Wrong(args) : i >= s.at
       /\ Told(args, base, s, s.at)
       /\ Len(s.out) \in Nat /\ s.out \in [1 .. Len(s.out) -> {args[i] : i \in 1 .. Len(args)}]
       /\ InOrder(s.out, args, Below(Flags!Left(args), s.at))

\* An argument that is taken as a flag, with what may be its value
LEMMA AFlagIsTaken ==
  ASSUME NEW args, IsLine(args), NEW base, NEW n \in 0 .. Len(args) - 1,
         NEW s, TurnInv(args, base, s, n), ~s.failed, s.at <= Len(args),
         NEW named, TakenUp(s, named, Flags!Says(args, s.at)),
         NEW next \in s.at + 1 .. Len(args) + 1,
         next <= Len(args) => next <= Flags!Stop(args) /\ ~Flags!Values(args)[next],
         \A i \in s.at .. next - 1 : (i \in Flags!FlagsOf(args) <=> i = s.at) /\ i \notin Flags!Left(args)
  PROVE  TurnInv(args, base, [named EXCEPT !.at = next], n + 1)
<1> DEFINE r == [named EXCEPT !.at = next]
           at == s.at
<1>1. IsState(named) /\ named.out = s.out /\ named.at = at
  BY DEF TakenUp
<1>2. /\ IsState(r) /\ r.out = s.out /\ r.at = next /\ r.failed = named.failed
      /\ r.pins = named.pins /\ r.models = named.models
  BY <1>1 DEF IsState
<1>3. at \in n + 1 .. Len(args) /\ Len(args) \in Nat /\ at \in Flags!FlagsOf(args) /\ at \in Int /\ next \in Int
  BY DEF TurnInv, IsLine
<1> HIDE DEF r
<1>4. CASE r.failed
  <2>1. at \in Flags!Wrong(args)
    BY <1>2, <1>3, <1>4 DEF TakenUp, Flags!Wrong
  <2> QED BY <1>2, <1>4, <2>1 DEF TurnInv, r
<1>5. CASE ~r.failed
  <2>1. ~(\E x \in Flags!Says(args, at) : x[2] = Flags!Unset \/ x[1] \notin Flags!Families)
    BY <1>2, <1>5 DEF TakenUp
  <2>2. \A i \in Flags!FlagsOf(args) : i \in Int
    BY StopIs, <1>3 DEF Flags!FlagsOf
  <2>3. \A i \in Flags!Wrong(args) : i >= next
    <3> SUFFICES ASSUME NEW i \in Flags!Wrong(args) PROVE i >= next
      OBVIOUS
    <3>1. i \in Flags!FlagsOf(args) /\ i >= at /\ i # at
      BY <2>1 DEF TurnInv, Flags!Wrong
    <3> QED BY <1>3, <2>2, <3>1
  <2>4. ASSUME NEW f \in Flags!Families
        PROVE  Below(Flags!NamedBy(args, f), next) =
                 Below(Flags!NamedBy(args, f), at) \cup
                   IF \E x \in Flags!Says(args, at) : x[1] = f THEN {at} ELSE {}
    <3>1. Flags!NamedBy(args, f) \subseteq Flags!FlagsOf(args)
      BY DEF Flags!NamedBy
    <3>2. at \in Flags!NamedBy(args, f) <=> \E x \in Flags!Says(args, at) : x[1] = f
      BY <1>3 DEF Flags!NamedBy
    <3>3. \A i \in Flags!NamedBy(args, f) : i < next <=> i < at \/ i = at
      BY <1>3, <2>2, <3>1
    <3> QED BY <3>2, <3>3 DEF Below
  <2>5. Told(args, base, r, next)
    <3> SUFFICES ASSUME NEW f \in Flags!Families
        PROVE  /\ f \in r.pins <=> Below(Flags!NamedBy(args, f), next) # {} \/ base[f] # Flags!Unset
               /\ IF Below(Flags!NamedBy(args, f), next) = {} THEN r.models[f] = Flags!Start(base).models[f]
                  ELSE \E j \in Below(Flags!NamedBy(args, f), next) :
                         <<f, r.models[f]>> \in Flags!Says(args, j)
                         /\ \A k \in Below(Flags!NamedBy(args, f), next) : k <= j
      BY DEF Told
    <3> DEFINE old == Below(Flags!NamedBy(args, f), at)
               then == Below(Flags!NamedBy(args, f), next)
               says == \E x \in Flags!Says(args, at) : x[1] = f
    <3>1. /\ f \in s.pins <=> old # {} \/ base[f] # Flags!Unset
          /\ IF old = {} THEN s.models[f] = Flags!Start(base).models[f]
             ELSE \E j \in old : <<f, s.models[f]>> \in Flags!Says(args, j) /\ \A k \in old : k <= j
      BY DEF TurnInv, Told
    <3>2. /\ f \in r.pins <=> f \in s.pins \/ says
          /\ IF says THEN <<f, r.models[f]>> \in Flags!Says(args, at) ELSE r.models[f] = s.models[f]
      BY <1>2, <1>5 DEF TakenUp
    <3>3. then = old \cup IF says THEN {at} ELSE {}
      BY <2>4
    <3>4. \A k \in old : k < at /\ k \in Int
      BY <2>2 DEF Below, Flags!NamedBy
    <3> HIDE DEF old, then, says
    <3>5. CASE says
      <4>1. at \in then /\ \A k \in then : k <= at
        BY <1>3, <3>3, <3>4, <3>5
      <4> QED BY <3>1, <3>2, <3>5, <4>1 DEF then
    <3>6. CASE ~says
      BY <3>1, <3>2, <3>3, <3>6 DEF then
    <3> QED BY <3>5, <3>6
  <2>6. Below(Flags!Left(args), next) = Below(Flags!Left(args), at)
    <3>1. \A i \in Flags!Left(args) : i \in Int
      BY <1>3 DEF Flags!Left, IsLine
    <3>2. \A i \in Flags!Left(args) : i < next <=> i < at
      BY <1>3, <3>1
    <3> QED BY <3>2 DEF Below
  <2>7. next \in n + 2 .. Len(args) + 1
    BY <1>3
  <2>8. /\ Len(r.out) \in Nat /\ r.out \in [1 .. Len(r.out) -> {args[i] : i \in 1 .. Len(args)}]
        /\ InOrder(r.out, args, Below(Flags!Left(args), next))
    BY <1>2, <2>6 DEF TurnInv
  <2>9. n + 1 + 1 = n + 2
    OBVIOUS
  <2>10. TurnInv(args, base, r, n + 1)
    BY <1>2, <1>5, <2>3, <2>5, <2>7, <2>8, <2>9 DEF TurnInv
  <2> QED BY <2>10 DEF r
<1> QED BY <1>4, <1>5 DEF r

\* More arguments that are no flags, the first of them right behind the others
LEMMA OthersFollow ==
  ASSUME NEW args, IsLine(args), NEW out, Len(out) \in Nat,
         out \in [1 .. Len(out) -> {args[i] : i \in 1 .. Len(args)}],
         NEW at \in 1 .. Len(args), NEW next \in at + 1 .. Len(args) + 1,
         \A i \in at .. next - 1 : i \in Flags!Left(args),
         InOrder(out, args, Below(Flags!Left(args), at)),
         NEW more, more = [n \in 1 .. (Len(out) + next - at) |-> IF n <= Len(out) THEN out[n] ELSE args[at + n - Len(out) - 1]]
  PROVE  InOrder(more, args, Below(Flags!Left(args), next))
<1> DEFINE len == Len(out)
           S == Below(Flags!Left(args), at)
           T == Below(Flags!Left(args), next)
<1>1. /\ len \in Nat /\ at \in Int /\ next \in Int /\ DOMAIN out = 1 .. len
      /\ DOMAIN more = 1 .. (len + next - at) /\ Len(args) \in Nat
  BY DEF IsLine
<1>2. PICK from \in [1 .. len -> S] :
        /\ S \subseteq {from[n] : n \in 1 .. len}
        /\ \A n \in 1 .. len : out[n] = args[from[n]] /\ \A m \in 1 .. n - 1 : from[m] < from[n]
  BY <1>1 DEF InOrder
<1>3. \A i \in Flags!Left(args) : i \in Int
  BY DEF Flags!Left, IsLine
<1>4. \A i : i \in T <=> i \in S \/ i \in at .. next - 1
  BY <1>1, <1>3 DEF Below
<1>5. \A i \in S : i \in Int /\ i < at
  BY <1>3 DEF Below
<1> DEFINE onto == [n \in 1 .. (len + next - at) |-> IF n <= len THEN from[n] ELSE at + n - len - 1]
<1> HIDE DEF len, S, T
<1>6. \A n \in 1 .. (len + next - at) : IF n <= len THEN n \in 1 .. len ELSE at + n - len - 1 \in at .. next - 1
  BY <1>1
<1>7. onto \in [1 .. (len + next - at) -> T]
  BY <1>2, <1>4, <1>6
<1>8. T \subseteq {onto[n] : n \in 1 .. (len + next - at)}
  <2> SUFFICES ASSUME NEW i \in T PROVE \E n \in 1 .. (len + next - at) : i = onto[n]
    OBVIOUS
  <2>1. CASE i \in S
    <3>1. PICK n \in 1 .. len : i = from[n]
      BY <1>2, <2>1
    <3>2. n \in 1 .. (len + next - at) /\ n <= len
      BY <1>1
    <3> QED BY <3>1, <3>2
  <2>2. CASE i \in at .. next - 1
    <3>1. /\ i - at + len + 1 \in 1 .. (len + next - at) /\ ~(i - at + len + 1 <= len)
          /\ at + (i - at + len + 1) - len - 1 = i
      BY <1>1, <2>2
    <3> QED BY <3>1
  <2> QED BY <1>4, <2>1, <2>2
<1>9. ASSUME NEW n \in 1 .. (len + next - at)
      PROVE  more[n] = args[onto[n]] /\ \A m \in 1 .. n - 1 : onto[m] < onto[n]
  <2>1. more[n] = IF n <= len THEN out[n] ELSE args[at + n - len - 1]
    BY DEF len
  <2>2. more[n] = args[onto[n]]
    <3>1. n <= len => n \in 1 .. len
      OBVIOUS
    <3> QED BY <1>2, <2>1, <3>1
  <2>3. ASSUME NEW m \in 1 .. n - 1 PROVE onto[m] < onto[n]
    <3>1. m \in 1 .. (len + next - at) /\ m < n
      BY <1>1
    <3>2. CASE n <= len
      <4>1. m <= len /\ n \in 1 .. len /\ m \in 1 .. n - 1
        BY <1>1, <3>1, <3>2
      <4> QED BY <1>2, <3>1, <3>2, <4>1
    <3>3. CASE m <= len /\ ~(n <= len)
      <4>1. from[m] \in S /\ onto[m] = from[m] /\ onto[n] = at + n - len - 1
        BY <1>2, <1>6, <3>1, <3>3
      <4>2. onto[n] >= at /\ onto[n] \in Int
        BY <1>1, <3>3, <4>1
      <4> QED BY <1>1, <1>5, <4>1, <4>2
    <3>4. CASE ~(m <= len)
      <4>1. ~(n <= len) /\ onto[m] = at + m - len - 1 /\ onto[n] = at + n - len - 1
        BY <1>1, <3>1, <3>4
      <4> QED BY <1>1, <3>1, <4>1
    <3> QED BY <1>1, <3>2, <3>3, <3>4
  <2> QED BY <2>2, <2>3
<1> HIDE DEF onto
<1> QED BY <1>1, <1>7, <1>8, <1>9 DEF InOrder, T

\* No flag, and nothing wrong, from here to there
LEMMA NothingIsSaid ==
  ASSUME NEW args, IsLine(args), NEW base, NEW s, NEW at \in Nat, NEW next \in Nat, at <= next, Told(args, base, s, at),
         \A i \in Flags!FlagsOf(args) : i < next => i < at
  PROVE  /\ Told(args, base, s, next)
         /\ (\A i \in Flags!Wrong(args) : i >= at) => \A i \in Flags!Wrong(args) : i >= next
<1>1. \A i \in Flags!FlagsOf(args) : i \in Int
  BY StopIs DEF Flags!FlagsOf, IsLine
<1>2. \A f : Below(Flags!NamedBy(args, f), next) = Below(Flags!NamedBy(args, f), at)
  BY <1>1 DEF Below, Flags!NamedBy
<1>3. \A i \in Flags!Wrong(args) : i \in Flags!FlagsOf(args)
  BY DEF Flags!Wrong
<1> QED BY <1>1, <1>2, <1>3 DEF Told

\* One argument behind those so far, and all that are left
LEMMA OneMore ==
  ASSUME NEW A, NEW out \in Seq(A), NEW args \in Seq(A), NEW at \in 1 .. Len(args)
  PROVE  /\ Append(out, args[at]) \in Seq(A)
         /\ Append(out, args[at]) =
              [n \in 1 .. (Len(out) + (at + 1) - at) |-> IF n <= Len(out) THEN out[n] ELSE args[at + n - Len(out) - 1]]
<1>1. Len(out) \in Nat /\ Len(args) \in Nat /\ args[at] \in A
  OBVIOUS
<1> DEFINE len == Len(out)
           last == args[at]
           more == Append(out, last)
<1>2. more \in Seq(A) /\ Len(more) = len + 1
  BY <1>1
<1>3. \A n \in 1 .. len + 1 : more[n] = IF n <= len THEN out[n] ELSE last
  BY <1>1
<1>4. more = [n \in 1 .. len + 1 |-> more[n]]
  BY <1>2
<1> HIDE DEF len, more
<1>5. len + (at + 1) - at = len + 1
  BY <1>1 DEF len
<1>6. \A n \in 1 .. len + 1 : n <= len \/ at + n - len - 1 = at
  BY <1>1 DEF len
<1>7. \A n \in 1 .. len + 1 : more[n] = IF n <= len THEN out[n] ELSE args[at + n - len - 1]
  BY <1>3, <1>6
<1>8. more = [n \in 1 .. (len + (at + 1) - at) |-> IF n <= len THEN out[n] ELSE args[at + n - len - 1]]
  BY <1>4, <1>5, <1>7
<1> QED BY <1>2, <1>8 DEF more, len

LEMMA AllTheRest ==
  ASSUME NEW A, NEW out \in Seq(A), NEW args \in Seq(A), NEW at \in 1 .. Len(args)
  PROVE  /\ out \o SubSeq(args, at, Len(args)) \in Seq(A)
         /\ out \o SubSeq(args, at, Len(args)) =
              [n \in 1 .. (Len(out) + (Len(args) + 1) - at) |->
                 IF n <= Len(out) THEN out[n] ELSE args[at + n - Len(out) - 1]]
<1>1. Len(out) \in Nat /\ Len(args) \in Nat /\ \A q \in Seq(A) : q = [n \in 1 .. Len(q) |-> q[n]]
  OBVIOUS
<1> DEFINE len == Len(out)
           top == Len(args)
           rest == SubSeq(args, at, top)
           more == out \o rest
<1>2. rest \in Seq(A) /\ Len(rest) = top - at + 1 /\ \A n \in 1 .. top - at + 1 : rest[n] = args[at + n - 1]
  BY <1>1, SubSeqProperties
<1> HIDE DEF rest
<1>3. /\ more \in Seq(A) /\ Len(more) = len + Len(rest)
      /\ \A n \in 1 .. len + Len(rest) : more[n] = IF n <= len THEN out[n] ELSE rest[n - len]
  BY <1>2, ConcatProperties
<1>4. more = [n \in 1 .. len + Len(rest) |-> more[n]]
  <2> HIDE DEF more
  <2>1. more = [n \in 1 .. Len(more) |-> more[n]]
    BY <1>1, <1>3
  <2> QED BY <1>3, <2>1
<1> HIDE DEF more
<1>5. len \in Nat /\ top \in Nat /\ at \in 1 .. top
  BY <1>1
<1> HIDE DEF len, top
<1>6. len + Len(rest) = len + (top + 1) - at
  BY <1>2, <1>5
<1>7. \A n \in 1 .. (len + (top + 1) - at) :
        n <= len \/ (n - len \in 1 .. top - at + 1 /\ at + (n - len) - 1 = at + n - len - 1)
  BY <1>5
<1>8. \A n \in 1 .. (len + (top + 1) - at) : more[n] = IF n <= len THEN out[n] ELSE args[at + n - len - 1]
  BY <1>2, <1>3, <1>6, <1>7
<1>9. more = [n \in 1 .. (len + (top + 1) - at) |-> IF n <= len THEN out[n] ELSE args[at + n - len - 1]]
  BY <1>4, <1>6, <1>8
<1> QED BY <1>3, <1>9 DEF more, len, rest, top

\* The state behind arguments that are left
Ahead(s, more, next) == [s EXCEPT !.out = more, !.at = next]

LEMMA AheadIs ==
  ASSUME NEW s, IsState(s), NEW more, NEW next
  PROVE  /\ IsState(Ahead(s, more, next)) /\ Ahead(s, more, next).out = more /\ Ahead(s, more, next).at = next
         /\ Ahead(s, more, next).failed = s.failed
         /\ Ahead(s, more, next).pins = s.pins /\ Ahead(s, more, next).models = s.models
<1> DEFINE t == Ahead(s, more, next)
<1>1. t = [s EXCEPT !.out = more, !.at = next]
  BY DEF Ahead
<1> HIDE DEF t
<1>2. t = [at |-> next, out |-> more, failed |-> s.failed, models |-> s.models, pins |-> s.pins]
  BY <1>1 DEF IsState
<1>3. IsState(t) /\ t.out = more /\ t.at = next /\ t.failed = s.failed /\ t.pins = s.pins /\ t.models = s.models
  BY <1>2 DEF IsState
<1> QED BY <1>3 DEF t

\* The turn that takes up the argument at hand, by its kind
LEMMA TurnKeeps ==
  ASSUME NEW args, IsLine(args), NEW base, NEW n \in 0 .. Len(args) - 1,
         NEW s, TurnInv(args, base, s, n), ~s.failed, s.at <= Len(args)
  PROVE  TurnInv(args, base, Flags!Step(args, s), n + 1)
<1> DEFINE at == s.at
           arg == args[at]
           A == {args[i] : i \in 1 .. Len(args)}
           r == Flags!Step(args, s)
<1>1. /\ Len(args) \in Nat /\ DOMAIN args = 1 .. Len(args) /\ at \in n + 1 .. Len(args) /\ at \in 1 .. Len(args)
      /\ at \in Int /\ IsArgument(arg)
  BY DEF IsLine, TurnInv
<1>2. at <= Flags!Stop(args) /\ ~Flags!Values(args)[at] /\ Flags!Stop(args) \in Int
  BY StopIs DEF TurnInv
<1>3. args \in Seq(A) /\ s.out \in Seq(A) /\ Len(s.out) \in Nat
  <2>1. Len(s.out) \in Nat /\ s.out \in [1 .. Len(s.out) -> A] /\ args \in [1 .. Len(args) -> A]
    BY DEF IsLine, TurnInv
  <2> HIDE DEF A
  <2> QED BY <1>1, <2>1, SeqDef
<1>17. \A q \in Seq(A) : Len(q) \in Nat /\ q \in [1 .. Len(q) -> A]
  <2> HIDE DEF A
  <2> QED OBVIOUS
<1>4. arg.kind # "end" => at < Flags!Stop(args)
  <2> SUFFICES ASSUME arg.kind # "end", at = Flags!Stop(args) PROVE FALSE
    BY <1>1, <1>2
  <2>1. at \in Flags!Ends(args)
    BY <1>1, StopIs
  <2> QED BY <2>1 DEF Flags!Ends
<1>5. \A i \in Flags!FlagsOf(args) : i \in Int /\ i < Flags!Stop(args)
  BY <1>2 DEF Flags!FlagsOf
<1>6. ASSUME arg.kind # "bare", at + 1 <= Len(args) PROVE ~Flags!Values(args)[at + 1]
  <2>1. at + 1 \in 1 .. Len(args) /\ (at + 1) - 1 = at
    BY <1>1, <1>6
  <2> QED BY <1>1, <1>6, <2>1, ValuesAre
<1>7. /\ Told(args, base, s, at) /\ IsState(s) /\ \A i \in Flags!Wrong(args) : i >= at
      /\ InOrder(s.out, args, Below(Flags!Left(args), at))
  BY DEF TurnInv
<1>8. ASSUME NEW next \in at + 1 .. Len(args) + 1, next <= Len(args) => next <= Flags!Stop(args) /\ ~Flags!Values(args)[next],
             \A i \in at .. next - 1 : i \in Flags!Left(args),
             \A i \in Flags!FlagsOf(args) : i < next => i < at,
             NEW more, more \in Seq(A),
             more = [k \in 1 .. (Len(s.out) + next - at) |->
                       IF k <= Len(s.out) THEN s.out[k] ELSE args[at + k - Len(s.out) - 1]]
      PROVE  TurnInv(args, base, Ahead(s, more, next), n + 1)
  <2> DEFINE t == Ahead(s, more, next)
  <2>1. /\ IsState(t) /\ t.out = more /\ t.at = next /\ t.failed = s.failed /\ t.pins = s.pins /\ t.models = s.models
    BY <1>7, AheadIs
  <2> HIDE DEF t
  <2>2. InOrder(more, args, Below(Flags!Left(args), next))
    <3>1. s.out \in [1 .. Len(s.out) -> {args[i] : i \in 1 .. Len(args)}]
      BY DEF TurnInv
    <3> QED BY <1>1, <1>3, <1>7, <1>8, <3>1, OthersFollow
  <2>3. at \in Nat /\ next \in Nat /\ at <= next
    BY <1>1, <1>8
  <2>4. Told(args, base, s, next) /\ \A i \in Flags!Wrong(args) : i >= next
    BY <1>7, <1>8, <2>3, NothingIsSaid
  <2>5. Told(args, base, t, next)
    BY <2>1, <2>4 DEF Told
  <2>6. Len(more) \in Nat /\ more \in [1 .. Len(more) -> A]
    BY <1>8, <1>17
  <2>7. next \in n + 1 + 1 .. Len(args) + 1
    BY <1>1, <1>8
  <2>8. TurnInv(args, base, t, n + 1)
    BY <1>8, <2>1, <2>2, <2>4, <2>5, <2>6, <2>7 DEF TurnInv
  <2> QED BY <2>8 DEF t
<1>9. arg.kind \notin {"end", "word"} => at \in Flags!FlagsOf(args) /\ at \notin Flags!Left(args)
  BY <1>1, <1>2, <1>4 DEF Flags!FlagsOf, Flags!Left
<1> DEFINE last == at + 1
<1>10. last \in at + 1 .. Len(args) + 1 /\ \A i \in at .. last - 1 : i = at
  BY <1>1
<1>11. arg.kind # "end" => last <= Flags!Stop(args)
  BY <1>1, <1>2, <1>4
<1>12. CASE arg.kind = "end"
  <2> DEFINE next == Len(args) + 1
             more == s.out \o SubSeq(args, at, Len(args))
  <2>1. r = Ahead(s, more, next)
    BY <1>12 DEF Flags!Step, Ahead
  <2>2. at = Flags!Stop(args)
    <3>1. at \in Flags!Ends(args)
      BY <1>1, <1>2, <1>12 DEF Flags!Ends
    <3> QED BY <1>1, <1>2, <3>1, StopIs
  <2>3. \A i \in at .. next - 1 : i \in Flags!Left(args)
    BY <1>1, <2>2 DEF Flags!Left
  <2>4. next \in at + 1 .. Len(args) + 1 /\ ~(next <= Len(args))
    BY <1>1
  <2>5. \A i \in Flags!FlagsOf(args) : i < next => i < at
    BY <1>5, <2>2
  <2>6. /\ more \in Seq(A)
        /\ more = [k \in 1 .. (Len(s.out) + next - at) |->
                     IF k <= Len(s.out) THEN s.out[k] ELSE args[at + k - Len(s.out) - 1]]
    <3> DEFINE out == s.out
    <3> HIDE DEF A, r, arg, at, out
    <3>1. out \in Seq(A) /\ args \in Seq(A) /\ at \in 1 .. Len(args)
      BY <1>1, <1>3 DEF out
    <3>2. /\ out \o SubSeq(args, at, Len(args)) \in Seq(A)
          /\ out \o SubSeq(args, at, Len(args)) =
               [k \in 1 .. (Len(out) + (Len(args) + 1) - at) |->
                  IF k <= Len(out) THEN out[k] ELSE args[at + k - Len(out) - 1]]
      BY <3>1, AllTheRest
    <3> QED BY <3>2 DEF out
  <2> HIDE DEF more, next, A, r
  <2>7. TurnInv(args, base, Ahead(s, more, next), n + 1)
    BY <1>8, <2>3, <2>4, <2>5, <2>6
  <2> QED BY <2>1, <2>7 DEF r
<1>13. CASE arg.kind = "word"
  <2> DEFINE more == Append(s.out, arg)
  <2>1. r = Ahead(s, more, last)
    BY <1>7, <1>13 DEF Flags!Step, IsState, Ahead
  <2>2. at \notin Flags!FlagsOf(args) /\ at \in Flags!Left(args)
    BY <1>1, <1>2, <1>13 DEF Flags!FlagsOf, Flags!Left
  <2>3. \A i \in Flags!FlagsOf(args) : i < last => i < at
    BY <1>1, <1>5, <2>2
  <2>4. /\ more \in Seq(A)
        /\ more = [k \in 1 .. (Len(s.out) + last - at) |->
                     IF k <= Len(s.out) THEN s.out[k] ELSE args[at + k - Len(s.out) - 1]]
    <3> HIDE DEF A
    <3> QED BY <1>1, <1>3, OneMore
  <2>5. last <= Len(args) => last <= Flags!Stop(args) /\ ~Flags!Values(args)[last]
    BY <1>6, <1>11, <1>13
  <2>6. \A i \in at .. last - 1 : i \in Flags!Left(args)
    BY <1>10, <2>2
  <2> HIDE DEF more, last, A, r
  <2>7. TurnInv(args, base, Ahead(s, more, last), n + 1)
    BY <1>8, <1>10, <2>3, <2>4, <2>5, <2>6
  <2> QED BY <2>1, <2>7 DEF r
<1>14. CASE arg.kind \in {"inline", "map"}
  <2>1. PICK named : TakenUp(s, named, Flags!Says(args, at)) /\ r = [named EXCEPT !.at = last]
    <3>1. CASE arg.kind = "inline"
      <4>1. r = [Flags!Name(s, arg.family, arg.value) EXCEPT !.at = last]
        BY <3>1 DEF Flags!Step
      <4>2. Flags!Says(args, at) = {<<arg.family, arg.value>>} /\ arg.family \in Flags!Families
        BY <1>1, <3>1 DEF Flags!Says, IsArgument
      <4> HIDE DEF r, last, arg
      <4>3. TakenUp(s, Flags!Name(s, arg.family, arg.value), {<<arg.family, arg.value>>})
        BY <1>7, <4>2, OneNameIsTakenUp
      <4> QED BY <4>1, <4>2, <4>3
    <3>2. CASE arg.kind = "map"
      <4>1. r = [Flags!ApplyModelMapFlag(s, arg.entries) EXCEPT !.at = last]
        BY <3>2 DEF Flags!Step
      <4>2. Flags!Says(args, at) = {<<arg.entries[k].family, arg.entries[k].value>> : k \in DOMAIN arg.entries}
        BY <3>2 DEF Flags!Says
      <4>3. Len(arg.entries) \in Nat /\ DOMAIN arg.entries = 1 .. Len(arg.entries)
        BY <1>1, <3>2 DEF IsArgument
      <4> DEFINE entries == arg.entries
      <4> HIDE DEF r, last, arg, entries
      <4>4. TakenUp(s, Flags!ApplyModelMapFlag(s, entries), {<<entries[k].family, entries[k].value>> : k \in DOMAIN entries})
        BY <1>7, <4>3, AMapIsTakenUp DEF entries
      <4> QED BY <4>1, <4>2, <4>4 DEF entries
    <3> QED BY <1>14, <3>1, <3>2
  <2>2. last <= Len(args) => last <= Flags!Stop(args) /\ ~Flags!Values(args)[last]
    BY <1>6, <1>11, <1>14
  <2>3. \A i \in at .. last - 1 : (i \in Flags!FlagsOf(args) <=> i = at) /\ i \notin Flags!Left(args)
    BY <1>9, <1>10, <1>14
  <2> HIDE DEF last, r
  <2>4. TurnInv(args, base, [named EXCEPT !.at = last], n + 1)
    BY <1>10, <2>1, <2>2, <2>3, AFlagIsTaken
  <2> QED BY <2>1, <2>4 DEF r
<1>15. CASE arg.kind = "bare" /\ at = Len(args)
  <2>1. r = Flags!Failed(s)
    BY <1>15 DEF Flags!Step
  <2>2. Flags!Says(args, at) = {<<arg.family, Flags!Unset>>}
    BY <1>15 DEF Flags!Says
  <2>3. <<arg.family, Flags!Unset>>[2] = Flags!Unset
    OBVIOUS
  <2>4. at \in Flags!Wrong(args)
    BY <1>9, <1>15, <2>2, <2>3 DEF Flags!Wrong
  <2> QED BY <1>7, <2>1, <2>4 DEF TurnInv, IsState, Flags!Failed
<1>16. CASE arg.kind = "bare" /\ at # Len(args)
  <2> DEFINE next == at + 2
             value == Flags!TextOf(args[at + 1])
  <2>1. r = [Flags!Name(s, arg.family, value) EXCEPT !.at = next]
    BY <1>16 DEF Flags!Step
  <2>2. Flags!Says(args, at) = {<<arg.family, value>>} /\ arg.family \in Flags!Families
    BY <1>1, <1>16 DEF Flags!Says, IsArgument
  <2>3. TakenUp(s, Flags!Name(s, arg.family, value), {<<arg.family, value>>})
    <3> HIDE DEF arg, value, r
    <3> QED BY <1>7, <2>2, OneNameIsTakenUp
  <2>4. last \in 1 .. Len(args) /\ last > 1 /\ last - 1 = at
    BY <1>1, <1>16
  <2>5. Flags!Values(args)[last]
    <3>1. Flags!Values(args)[last] = (last > 1 /\ args[last - 1].kind = "bare" /\ ~Flags!Values(args)[last - 1])
      BY <1>1, <2>4, ValuesAre
    <3> QED BY <1>2, <1>16, <2>4, <3>1
  <2>6. last < Flags!Stop(args)
    <3> SUFFICES ASSUME last = Flags!Stop(args) PROVE FALSE
      BY <1>1, <1>2, <1>11, <1>16
    <3>1. last \in Flags!Ends(args)
      BY <2>4, StopIs
    <3> QED BY <2>5, <3>1 DEF Flags!Ends
  <2>7. next \in at + 1 .. Len(args) + 1 /\ next <= Flags!Stop(args)
    BY <1>1, <1>2, <1>16, <2>6
  <2>8. ASSUME next <= Len(args) PROVE ~Flags!Values(args)[next]
    <3>1. next \in 1 .. Len(args) /\ next - 1 = last
      BY <1>1, <2>8
    <3> QED BY <1>1, <2>5, <3>1, ValuesAre
  <2>9. \A i \in at .. next - 1 : (i \in Flags!FlagsOf(args) <=> i = at) /\ i \notin Flags!Left(args)
    <3>1. \A i \in at .. next - 1 : i = at \/ i = last
      BY <1>1
    <3>2. last \notin Flags!FlagsOf(args) /\ last \notin Flags!Left(args) /\ last # at
      BY <1>1, <1>2, <2>5, <2>6 DEF Flags!FlagsOf, Flags!Left
    <3> QED BY <1>9, <1>16, <3>1, <3>2
  <2> DEFINE named == Flags!Name(s, arg.family, value)
  <2> HIDE DEF next, named, r
  <2>10. TakenUp(s, named, Flags!Says(args, at))
    BY <2>2, <2>3 DEF named
  <2>11. TurnInv(args, base, [named EXCEPT !.at = next], n + 1)
    BY <2>7, <2>8, <2>9, <2>10, AFlagIsTaken
  <2> QED BY <2>1, <2>11 DEF named, r
<1> QED BY <1>1, <1>12, <1>13, <1>14, <1>15, <1>16 DEF IsArgument, r

LEMMA StartIs ==
  ASSUME NEW args, IsLine(args), NEW base
  PROVE  TurnInv(args, base, Flags!Start(base), 0)
<1> DEFINE s == Flags!Start(base)
<1>1. /\ IsState(s) /\ s.at = 1 /\ s.out = <<>> /\ s.failed = FALSE
      /\ s.pins = {f \in Flags!Families : base[f] # Flags!Unset}
  BY DEF Flags!Start, IsState
<1>2. Len(args) \in Nat /\ DOMAIN args = 1 .. Len(args) /\ Flags!Stop(args) \in 1 .. Len(args) + 1
  BY StopIs DEF IsLine
<1>3. \A i \in Flags!FlagsOf(args) \cup Flags!Left(args) : i \in Int /\ i >= 1
  BY <1>2 DEF Flags!FlagsOf, Flags!Left
<1>4. Below(Flags!Left(args), 1) = {} /\ \A f : Below(Flags!NamedBy(args, f), 1) = {}
  BY <1>3 DEF Below, Flags!NamedBy
<1>5. \A i \in Flags!Wrong(args) : i >= 1
  BY <1>3 DEF Flags!Wrong
<1>6. ASSUME 1 <= Len(args) PROVE 1 <= Flags!Stop(args) /\ ~Flags!Values(args)[1]
  <2>1. 1 \in 1 .. Len(args) /\ ~(1 > 1)
    BY <1>2, <1>6
  <2>2. Flags!Values(args)[1] = (1 > 1 /\ args[1 - 1].kind = "bare" /\ ~Flags!Values(args)[1 - 1])
    BY <1>2, <2>1, ValuesAre
  <2>3. ~Flags!Values(args)[1]
    BY <2>1, <2>2, Zenon
  <2> QED BY <1>2, <2>3
<1>7. Told(args, base, s, 1)
  BY <1>1, <1>4 DEF Told
<1>8. Len(<<>>) \in Nat /\ <<>> \in [1 .. Len(<<>>) -> {args[i] : i \in 1 .. Len(args)}]
  OBVIOUS
<1>9. InOrder(<<>>, args, {})
  <2>1. <<>> \in [DOMAIN <<>> -> {}] /\ DOMAIN <<>> = {}
    OBVIOUS
  <2> QED BY <2>1 DEF InOrder
<1>10. 1 \in 0 + 1 .. Len(args) + 1
  BY <1>2
<1> HIDE DEF s
<1>11. TurnInv(args, base, s, 0)
  BY <1>1, <1>4, <1>5, <1>6, <1>7, <1>8, <1>9, <1>10 DEF TurnInv
<1> QED BY <1>11 DEF s

\* Every command line is understood.
LEMMA FlagsStay ==
  ASSUME NEW args, IsLine(args), NEW base
  PROVE  Flags!FlagsAreUnderstood(args, base)
<1> DEFINE top == Len(args)
           turns == Flags!Turns(args, Flags!Start(base))
           good == {n \in 0 .. top : TurnInv(args, base, turns[n], n)}
           result == turns[top]
<1>1. top \in Nat /\ DOMAIN args = 1 .. top /\ Flags!Stop(args) \in 1 .. top + 1
  BY StopIs DEF IsLine
<1>2. /\ turns[0] = Flags!Start(base)
      /\ \A n \in 1 .. top :
           turns[n] = IF turns[n - 1].failed \/ turns[n - 1].at > top THEN turns[n - 1]
                      ELSE Flags!Step(args, turns[n - 1])
  BY <1>1, TurnsAre
<1> HIDE DEF turns
<1>3. 0 \in good
  BY <1>1, <1>2, StartIs
<1>4. ASSUME NEW n \in 1 .. top, n - 1 \in good PROVE n \in good
  <2> DEFINE before == turns[n - 1]
             m == n - 1
  <2>1. /\ m \in 0 .. top - 1 /\ m + 1 = n /\ n \in 0 .. top
        /\ TurnInv(args, base, before, m)
    BY <1>1, <1>4
  <2>2. turns[n] = IF before.failed \/ before.at > top THEN before ELSE Flags!Step(args, before)
    BY <1>2
  <2>3. before.failed \in BOOLEAN /\ (~before.failed => before.at \in m + 1 .. top + 1)
    BY <2>1 DEF TurnInv, IsState
  <2> HIDE DEF before, m
  <2>4. CASE before.failed
    <3>1. TurnInv(args, base, before, n)
      BY <2>1, <2>4 DEF TurnInv
    <3> QED BY <2>1, <2>2, <2>4, <3>1
  <2>5. CASE ~before.failed /\ before.at > top
    <3>1. before.at \in n + 1 .. top + 1
      BY <1>1, <2>1, <2>3, <2>5
    <3>2. TurnInv(args, base, before, n)
      BY <2>1, <2>5, <3>1 DEF TurnInv
    <3> QED BY <2>1, <2>2, <2>5, <3>2
  <2>6. CASE ~before.failed /\ ~(before.at > top)
    <3>1. before.at <= top
      BY <1>1, <2>1, <2>3, <2>6
    <3>2. TurnInv(args, base, Flags!Step(args, before), m + 1)
      BY <2>1, <2>6, <3>1, TurnKeeps
    <3> QED BY <2>1, <2>2, <2>6, <3>2
  <2> QED BY <2>3, <2>4, <2>5, <2>6
<1>5. TurnInv(args, base, result, top)
  <2> HIDE DEF good
  <2>1. 0 .. top \subseteq good
    BY <1>1, <1>3, <1>4, AlongTheRange
  <2>2. top \in good
    BY <1>1, <2>1
  <2> QED BY <2>2 DEF good
<1> HIDE DEF result
<1>6. Flags!ExtractStartupModelConfigWithPins(args, base) = result
  BY DEF Flags!ExtractStartupModelConfigWithPins, result, turns, top
<1> HIDE DEF top
<1>7. /\ \A i \in Flags!FlagsOf(args) : i \in Int /\ i < top + 1
      /\ \A i \in Flags!Left(args) : i \in Int /\ i < top + 1
  BY <1>1 DEF Flags!FlagsOf, Flags!Left
<1>8. ~result.failed => result.at = top + 1
  BY <1>1, <1>5 DEF TurnInv, top
<1>9. Below(Flags!Left(args), top + 1) = Flags!Left(args)
      /\ \A f : Below(Flags!NamedBy(args, f), top + 1) = Flags!NamedBy(args, f)
  BY <1>7 DEF Below, Flags!NamedBy
<1>10. ~result.failed => Flags!Wrong(args) = {}
  <2>1. \A i \in Flags!Wrong(args) : i \in Flags!FlagsOf(args)
    BY DEF Flags!Wrong
  <2>2. ~result.failed => \A i \in Flags!Wrong(args) : i >= top + 1
    BY <1>5, <1>8 DEF TurnInv
  <2> QED BY <1>1, <1>7, <2>1, <2>2
<1>11. result.failed <=> Flags!Wrong(args) # {}
  BY <1>5, <1>10 DEF TurnInv
<1>12. ASSUME ~result.failed
       PROVE  /\ Told(args, base, result, top + 1)
              /\ InOrder(result.out, args, Below(Flags!Left(args), top + 1))
  BY <1>5, <1>8, <1>12 DEF TurnInv
<1>13. ASSUME ~result.failed, NEW f \in Flags!Families
       PROVE  /\ f \in result.pins <=> Flags!NamedBy(args, f) # {} \/ base[f] # Flags!Unset
              /\ IF Flags!NamedBy(args, f) = {} THEN result.models[f] = Flags!Start(base).models[f]
                 ELSE \E i \in Flags!NamedBy(args, f) :
                        <<f, result.models[f]>> \in Flags!Says(args, i) /\ \A j \in Flags!NamedBy(args, f) : j <= i
  <2>1. Told(args, base, result, top + 1)
    BY <1>12, <1>13
  <2> QED BY <1>9, <2>1 DEF Told
<1>14. ASSUME ~result.failed
       PROVE  \E from \in [DOMAIN result.out -> Flags!Left(args)] :
                /\ Flags!Left(args) \subseteq {from[n] : n \in DOMAIN result.out}
                /\ \A n \in DOMAIN result.out :
                     result.out[n] = args[from[n]] /\ \A m \in 1 .. n - 1 : from[m] < from[n]
  BY <1>9, <1>12, <1>14 DEF InOrder
<1> QED BY <1>6, <1>11, <1>13, <1>14 DEF Flags!FlagsAreUnderstood

LEMMA CommandLinesAreLines ==
  ASSUME NEW args \in Flags!CommandLines
  PROVE  IsLine(args)
<1>1. \A a \in Flags!Arguments : IsArgument(a)
  <2> SUFFICES ASSUME NEW a \in Flags!Arguments PROVE IsArgument(a)
    OBVIOUS
  <2>1. \A b, c : Len(<<b, c>>) \in Nat /\ DOMAIN <<b, c>> = 1 .. Len(<<b, c>>)
    OBVIOUS
  <2>2. \A b, c : IsArgument(Flags!Map(<<b, c>>))
    BY <2>1 DEF IsArgument, Flags!Map
  <2>3. \A w : IsArgument(Flags!Word(w))
    BY DEF IsArgument, Flags!Word
  <2>4. IsArgument(Flags!End)
    BY DEF IsArgument, Flags!End
  <2>5. \A f \in Flags!Families : \A v : IsArgument(Flags!Flag(f, v)) /\ IsArgument(Flags!Bare(f))
    BY DEF IsArgument, Flags!Flag, Flags!Bare
  <2>6. "opus" \in Flags!Families /\ "haiku" \in Flags!Families
    BY DEF Flags!Families
  <2> QED BY <2>2, <2>3, <2>4, <2>5, <2>6 DEF Flags!Arguments
<1>2. PICK n \in 0 .. 3 : args \in [1 .. n -> Flags!Arguments]
  BY DEF Flags!CommandLines
<1>3. n \in Nat /\ Len(args) = n /\ DOMAIN args = 1 .. n
  <2> DEFINE A == Flags!Arguments
  <2>1. args \in [1 .. n -> A] /\ n \in Nat
    BY <1>2
  <2> HIDE DEF A
  <2> QED BY <2>1
<1>4. args \in [1 .. n -> {args[i] : i \in 1 .. n}]
  BY <1>2
<1> QED BY <1>1, <1>2, <1>3, <1>4 DEF IsLine

-----------------------------------------------------------------------------
(* What is recorded of a response                                          *)

\* The items of a response: only calls have arguments, and no two of them an id.
Fields == {"type", "call", "args", "text"}
IsItem(x) == x = [f \in Fields |-> x[f]]
IsResponse(items) ==
  /\ Len(items) \in Nat /\ DOMAIN items = 1 .. Len(items)
  /\ \A n \in DOMAIN items : IsItem(items[n]) /\ (items[n].type # "call" => items[n].args = Trace!Absent)
  /\ \A m, n \in DOMAIN items : items[m].call = items[n].call /\ items[m].call # Trace!Absent => m = n

\* What an item may have said of itself
Partly(item) == {item, Trace!Bare(item)}
Parts(items) == UNION {Partly(items[n]) : n \in DOMAIN items}

\* Item n has been recorded with all it says.
Known(items, t, n) == n \in DOMAIN t.byIndex /\ t.output[t.byIndex[n]] = items[n]

IsTrace(t) ==
  t = [id |-> t.id, output |-> t.output, args |-> t.args, byIndex |-> t.byIndex, byCall |-> t.byCall]

\* What is recorded is of the response, every item at a place of its own, with its
\* arguments as soon as those are known.
ItemsFit(items, t) ==
  /\ t.output \in Seq(Parts(items))
  /\ DOMAIN t.byIndex \subseteq DOMAIN items
  /\ \A n \in DOMAIN t.byIndex : /\ t.byIndex[n] \in 1 .. Len(t.output)
                                 /\ t.output[t.byIndex[n]] \in Partly(items[n])
  /\ \A m, n \in DOMAIN t.byIndex : t.byIndex[m] = t.byIndex[n] => m = n
  /\ \A p \in 1 .. Len(t.output) : \E n \in DOMAIN t.byIndex : t.byIndex[n] = p
CallsFit(items, t) == \A c \in DOMAIN t.byCall : c # Trace!Absent /\ \E n \in DOMAIN t.byIndex : items[n].call = c
ArgumentsFit(items, t) ==
  \A n \in DOMAIN t.args : /\ n \in DOMAIN items /\ t.args[n] = items[n].args /\ t.args[n] # Trace!Absent
                           /\ n \in DOMAIN t.byIndex => Known(items, t, n)
TraceFits(items, t) == IsTrace(t) /\ ItemsFit(items, t) /\ CallsFit(items, t) /\ ArgumentsFit(items, t)

\* Nothing is forgotten.
Grows(items, t, u) ==
  /\ DOMAIN t.byIndex \subseteq DOMAIN u.byIndex /\ DOMAIN t.args \subseteq DOMAIN u.args
  /\ \A n \in DOMAIN t.byIndex : Known(items, t, n) => Known(items, u, n)

\* An event of the response, and what is known behind it
Tells(items, e) ==
  \/ e.event = "created"
  \/ e.event = "done" /\ e.index \in DOMAIN items /\ e.item \in Partly(items[e.index])
  \/ e.event = "arguments" /\ e.index \in DOMAIN items /\ e.args = items[e.index].args
  \/ e.event = "completed" /\ e.output \in {<<>>, items}
Learnt(items, e, t) ==
  /\ e.event = "done" => /\ e.index \in DOMAIN t.byIndex
                         /\ e.item = items[e.index] => Known(items, t, e.index)
  /\ e.event = "arguments" /\ e.args # Trace!Absent => e.index \in DOMAIN t.args
  /\ e.event = "completed" /\ e.output = items => \A n \in DOMAIN items : Known(items, t, n)

\* An item is what its fields are.
LEMMA ItemsAreFields ==
  ASSUME NEW x, IsItem(x), NEW y, IsItem(y),
         x.type = y.type, x.call = y.call, x.args = y.args, x.text = y.text
  PROVE  x = y
<1>1. \A f \in Fields : x[f] = y[f]
  BY DEF Fields
<1> QED BY <1>1 DEF IsItem

LEMMA BareIs ==
  ASSUME NEW x, IsItem(x)
  PROVE  /\ IsItem(Trace!Bare(x))
         /\ Trace!Bare(x).type = x.type /\ Trace!Bare(x).call = x.call
         /\ Trace!Bare(x).args = Trace!Absent /\ Trace!Bare(x).text = x.text
         /\ x.args = Trace!Absent => Trace!Bare(x) = x
<1> DEFINE b == Trace!Bare(x)
<1>1. b = [f \in Fields |-> IF f = "args" THEN Trace!Absent ELSE x[f]]
  BY DEF Trace!Bare, IsItem, Fields
<1> HIDE DEF b
<1>2. IsItem(b)
  BY <1>1 DEF IsItem
<1>3. b["type"] = x["type"] /\ b["call"] = x["call"] /\ b["args"] = Trace!Absent /\ b["text"] = x["text"]
  BY <1>1 DEF Fields
<1> QED BY <1>2, <1>3, ItemsAreFields DEF b

\* Of an item that is told twice all is known that one of them says.
LEMMA MergingIs ==
  ASSUME NEW x, IsItem(x), NEW p \in Partly(x), NEW q \in Partly(x)
  PROVE  /\ IsItem(p) /\ p.call = x.call
         /\ Trace!MergeOutputItem(p, q) \in Partly(x)
         /\ p = x \/ q = x => Trace!MergeOutputItem(p, q) = x
<1>1. \A y \in Partly(x) : /\ IsItem(y) /\ y.type = x.type /\ y.call = x.call /\ y.text = x.text
                           /\ y.args \in {Trace!Absent, x.args} /\ (y = x => y.args = x.args)
  BY BareIs DEF Partly
<1> DEFINE m == Trace!MergeOutputItem(p, q)
<1>2. m = [f \in Fields |-> IF q[f] # Trace!Absent THEN q[f] ELSE p[f]]
  <2>1. DOMAIN p = Fields
    BY <1>1 DEF IsItem
  <2> QED BY <2>1 DEF Trace!MergeOutputItem
<1> HIDE DEF m
<1>3. IsItem(m)
  BY <1>2 DEF IsItem
<1>4. \A f \in Fields : m[f] = IF q[f] # Trace!Absent THEN q[f] ELSE p[f]
  BY <1>2
<1>5. /\ m.type = IF q.type # Trace!Absent THEN q.type ELSE p.type
      /\ m.call = IF q.call # Trace!Absent THEN q.call ELSE p.call
      /\ m.args = IF q.args # Trace!Absent THEN q.args ELSE p.args
      /\ m.text = IF q.text # Trace!Absent THEN q.text ELSE p.text
  BY <1>4 DEF Fields
<1>6. m.type = x.type /\ m.call = x.call /\ m.text = x.text
  <2>1. /\ p.type = x.type /\ p.call = x.call /\ p.text = x.text
        /\ q.type = x.type /\ q.call = x.call /\ q.text = x.text
    BY <1>1
  <2> QED BY <1>5, <2>1
<1>7. (m.args = Trace!Absent \/ m.args = x.args) /\ (p = x \/ q = x => m.args = x.args)
  <2>1. (p.args = Trace!Absent \/ p.args = x.args) /\ (q.args = Trace!Absent \/ q.args = x.args)
    BY <1>1
  <2>2. (p = x => p.args = x.args) /\ (q = x => q.args = x.args)
    BY <1>1
  <2> QED BY <1>5, <2>1, <2>2
<1>8. m.args = x.args => m = x
  BY <1>3, <1>6, ItemsAreFields
<1>9. m.args = Trace!Absent => m = Trace!Bare(x)
  <2> DEFINE b == Trace!Bare(x)
  <2>1. IsItem(b) /\ b.type = x.type /\ b.call = x.call /\ b.args = Trace!Absent /\ b.text = x.text
    BY BareIs
  <2> HIDE DEF b
  <2>2. m.args = Trace!Absent => m = b
    BY <1>3, <1>6, <2>1, ItemsAreFields
  <2> QED BY <2>2 DEF b
<1> QED BY <1>1, <1>7, <1>8, <1>9 DEF m, Partly

\* A new item comes behind the others, an item that is known already to its place.
LEMMA PlaceIs ==
  ASSUME NEW items, IsResponse(items), NEW t, TraceFits(items, t),
         NEW n \in DOMAIN items, NEW item, item.call = items[n].call
  PROVE  Trace!Place(t, n, item) = IF n \in DOMAIN t.byIndex THEN t.byIndex[n] ELSE Len(t.output) + 1
<1>1. item.call \in DOMAIN t.byCall => n \in DOMAIN t.byIndex
  <2> SUFFICES ASSUME item.call \in DOMAIN t.byCall PROVE n \in DOMAIN t.byIndex
    OBVIOUS
  <2>1. PICK m \in DOMAIN t.byIndex : items[m].call = items[n].call /\ items[n].call # Trace!Absent
    BY DEF TraceFits, CallsFit
  <2>2. m \in DOMAIN items
    BY DEF TraceFits, ItemsFit
  <2> QED BY <2>1, <2>2 DEF IsResponse
<1> QED BY <1>1 DEF Trace!Place

\* An item is recorded once: at its place if it has one, otherwise behind the others.
LEMMA UpsertKeeps ==
  ASSUME NEW items, IsResponse(items), NEW t, TraceFits(items, t),
         NEW n \in DOMAIN items, NEW item \in Partly(items[n]), n \in DOMAIN t.args => item = items[n],
         NEW u, u = Trace!UpsertOutputItem(t, n, item)
  PROVE  /\ TraceFits(items, u) /\ Grows(items, t, u)
         /\ n \in DOMAIN u.byIndex /\ (item = items[n] => Known(items, u, n))
<1> DEFINE pos == Trace!Place(t, n, item)
           item2 == IF n \in DOMAIN t.byIndex THEN Trace!MergeOutputItem(t.output[pos], item) ELSE item
<1>0. IsTrace(t) /\ ItemsFit(items, t) /\ CallsFit(items, t) /\ ArgumentsFit(items, t)
  BY DEF TraceFits
<1>1. IsItem(items[n]) /\ IsItem(item) /\ item.call = items[n].call
  BY BareIs DEF IsResponse, Partly
<1>2. pos = IF n \in DOMAIN t.byIndex THEN t.byIndex[n] ELSE Len(t.output) + 1
  BY <1>1, PlaceIs
<1>3. Len(t.output) \in Nat /\ DOMAIN t.output = 1 .. Len(t.output)
  BY <1>0 DEF ItemsFit
<1>4. pos \in DOMAIN t.output <=> n \in DOMAIN t.byIndex
  BY <1>0, <1>2, <1>3 DEF ItemsFit
<1>5. /\ item2 \in Partly(items[n]) /\ item2 \in Parts(items)
      /\ item = items[n] \/ Known(items, t, n) => item2 = items[n]
  <2>1. ASSUME n \in DOMAIN t.byIndex
        PROVE  /\ item2 \in Partly(items[n])
               /\ item = items[n] \/ Known(items, t, n) => item2 = items[n]
    <3>1. t.output[pos] \in Partly(items[n]) /\ (Known(items, t, n) => t.output[pos] = items[n])
      BY <1>0, <1>2, <2>1 DEF ItemsFit, Known
    <3> QED BY <1>1, <2>1, <3>1, MergingIs
  <2>2. ASSUME n \notin DOMAIN t.byIndex
        PROVE  /\ item2 \in Partly(items[n])
               /\ item = items[n] \/ Known(items, t, n) => item2 = items[n]
    BY <2>2 DEF Known
  <2> QED BY <2>1, <2>2 DEF Parts
<1>6. /\ IsTrace(u)
      /\ u.args = t.args
      /\ u.output = IF pos \in DOMAIN t.output THEN [t.output EXCEPT ![pos] = item2] ELSE Append(t.output, item2)
      /\ u.byIndex = Trace!Put(t.byIndex, n, pos)
      /\ u.byCall = IF item.call = Trace!Absent THEN t.byCall ELSE Trace!Put(t.byCall, item.call, pos)
  <2> HIDE DEF item2
  <2>1. /\ IsTrace(u) /\ u.args = t.args
        /\ u.output = IF pos \in DOMAIN t.output
                      THEN [t.output EXCEPT ![pos] = Trace!MergeOutputItem(t.output[pos], item)]
                      ELSE Append(t.output, item)
        /\ u.byIndex = Trace!Put(t.byIndex, n, pos)
        /\ u.byCall = IF item.call = Trace!Absent THEN t.byCall ELSE Trace!Put(t.byCall, item.call, pos)
    <3> DEFINE output == IF pos \in DOMAIN t.output
                         THEN [t.output EXCEPT ![pos] = Trace!MergeOutputItem(t.output[pos], item)]
                         ELSE Append(t.output, item)
               byIndex == Trace!Put(t.byIndex, n, pos)
               byCall == IF item.call = Trace!Absent THEN t.byCall ELSE Trace!Put(t.byCall, item.call, pos)
    <3>1. u = [t EXCEPT !.output = output, !.byIndex = byIndex, !.byCall = byCall]
      BY DEF Trace!UpsertOutputItem
    <3> HIDE DEF output, byIndex, byCall
    <3>2. u = [id |-> t.id, output |-> output, args |-> t.args, byIndex |-> byIndex, byCall |-> byCall]
      BY <1>0, <3>1 DEF IsTrace
    <3>3. u.id = t.id /\ u.output = output /\ u.args = t.args /\ u.byIndex = byIndex /\ u.byCall = byCall
      BY <3>2
    <3> QED BY <3>2, <3>3 DEF IsTrace, output, byIndex, byCall
  <2>2. CASE n \in DOMAIN t.byIndex
    BY <1>4, <2>1, <2>2 DEF item2
  <2>3. CASE n \notin DOMAIN t.byIndex
    BY <1>4, <2>1, <2>3 DEF item2
  <2> QED BY <2>2, <2>3
<1> HIDE DEF pos, item2
<1>7. /\ u.output \in Seq(Parts(items)) /\ Len(u.output) \in Nat
      /\ Len(u.output) = IF n \in DOMAIN t.byIndex THEN Len(t.output) ELSE Len(t.output) + 1
      /\ pos \in 1 .. Len(u.output) /\ u.output[pos] = item2
      /\ \A p \in 1 .. Len(t.output) : p # pos => u.output[p] = t.output[p]
  <2>1. CASE n \in DOMAIN t.byIndex
    <3>1. t.output \in Seq(Parts(items)) /\ pos \in 1 .. Len(t.output)
      BY <1>0, <1>2, <2>1 DEF ItemsFit
    <3>2. u.output = [t.output EXCEPT ![pos] = item2]
      BY <1>4, <1>6, <2>1
    <3> QED BY <1>3, <1>5, <2>1, <3>1, <3>2
  <2>2. CASE n \notin DOMAIN t.byIndex
    <3>1. t.output \in Seq(Parts(items)) /\ pos = Len(t.output) + 1
      BY <1>0, <1>2, <2>2 DEF ItemsFit
    <3>2. u.output = Append(t.output, item2)
      BY <1>4, <1>6, <2>2
    <3> QED BY <1>3, <1>5, <2>2, <3>1, <3>2
  <2> QED BY <2>1, <2>2
<1>8. /\ DOMAIN u.byIndex = DOMAIN t.byIndex \cup {n} /\ u.byIndex[n] = pos
      /\ \A m \in DOMAIN t.byIndex : u.byIndex[m] = t.byIndex[m]
  <2>1. /\ DOMAIN u.byIndex = DOMAIN t.byIndex \cup {n}
        /\ \A x \in DOMAIN t.byIndex \cup {n} : u.byIndex[x] = IF x = n THEN pos ELSE t.byIndex[x]
    <3>1. /\ DOMAIN Trace!Put(t.byIndex, n, pos) = DOMAIN t.byIndex \cup {n}
          /\ \A x \in DOMAIN t.byIndex \cup {n} :
               Trace!Put(t.byIndex, n, pos)[x] = IF x = n THEN pos ELSE t.byIndex[x]
      BY DEF Trace!Put
    <3>2. u.byIndex = Trace!Put(t.byIndex, n, pos)
      BY <1>6
    <3> QED BY <3>1, <3>2, Zenon
  <2> QED BY <1>2, <2>1
<1>9. \A m \in DOMAIN t.byIndex : m # n => /\ u.byIndex[m] \in 1 .. Len(t.output) /\ u.byIndex[m] # pos
                                           /\ u.output[u.byIndex[m]] = t.output[t.byIndex[m]]
  <2> SUFFICES ASSUME NEW m \in DOMAIN t.byIndex, m # n
               PROVE  /\ u.byIndex[m] \in 1 .. Len(t.output) /\ u.byIndex[m] # pos
                      /\ u.output[u.byIndex[m]] = t.output[t.byIndex[m]]
    OBVIOUS
  <2>1. u.byIndex[m] = t.byIndex[m] /\ t.byIndex[m] \in 1 .. Len(t.output)
    BY <1>0, <1>8 DEF ItemsFit
  <2>2. t.byIndex[m] # pos
    BY <1>0, <1>2, <1>3, <2>1 DEF ItemsFit
  <2> QED BY <1>7, <2>1, <2>2
<1>10. \A c \in DOMAIN u.byCall : c # Trace!Absent /\ (c \in DOMAIN t.byCall \/ c = items[n].call)
  <2>1. CASE item.call = Trace!Absent
    BY <1>0, <1>6, <2>1 DEF CallsFit
  <2>2. CASE item.call # Trace!Absent
    <3>1. DOMAIN u.byCall = DOMAIN t.byCall \cup {item.call}
      <4>1. u.byCall = Trace!Put(t.byCall, item.call, pos)
        BY <1>6, <2>2
      <4>2. DOMAIN Trace!Put(t.byCall, item.call, pos) = DOMAIN t.byCall \cup {item.call}
        BY DEF Trace!Put
      <4> QED BY <4>1, <4>2
    <3> QED BY <1>0, <1>1, <2>2, <3>1 DEF CallsFit
  <2> QED BY <2>1, <2>2
<1>11. \A m \in DOMAIN t.byIndex : Known(items, t, m) => Known(items, u, m)
  BY <1>5, <1>7, <1>8, <1>9 DEF Known
<1>12. n \in DOMAIN u.byIndex /\ (item = items[n] => Known(items, u, n))
  BY <1>5, <1>7, <1>8 DEF Known
<1>13. TraceFits(items, u)
  <2>1. DOMAIN u.byIndex \subseteq DOMAIN items
    BY <1>0, <1>8 DEF ItemsFit
  <2>2. \A m \in DOMAIN u.byIndex : /\ u.byIndex[m] \in 1 .. Len(u.output)
                                    /\ u.output[u.byIndex[m]] \in Partly(items[m])
    <3> SUFFICES ASSUME NEW m \in DOMAIN u.byIndex
                 PROVE  /\ u.byIndex[m] \in 1 .. Len(u.output)
                        /\ u.output[u.byIndex[m]] \in Partly(items[m])
      OBVIOUS
    <3>1. CASE m = n
      BY <1>5, <1>7, <1>8, <3>1
    <3>2. CASE m # n
      BY <1>0, <1>3, <1>7, <1>8, <1>9, <3>2 DEF ItemsFit
    <3> QED BY <3>1, <3>2
  <2>3. \A m, k \in DOMAIN u.byIndex : u.byIndex[m] = u.byIndex[k] => m = k
    BY <1>0, <1>8, <1>9 DEF ItemsFit
  <2>4. \A p \in 1 .. Len(u.output) : \E m \in DOMAIN u.byIndex : u.byIndex[m] = p
    <3> SUFFICES ASSUME NEW p \in 1 .. Len(u.output), p # pos
                 PROVE  \E m \in DOMAIN u.byIndex : u.byIndex[m] = p
      BY <1>8
    <3>1. p \in 1 .. Len(t.output)
      BY <1>2, <1>3, <1>7
    <3> QED BY <1>0, <1>8, <3>1 DEF ItemsFit
  <2>5. \A c \in DOMAIN u.byCall : c # Trace!Absent /\ \E m \in DOMAIN u.byIndex : items[m].call = c
    BY <1>0, <1>8, <1>10 DEF CallsFit
  <2>6. \A m \in DOMAIN u.args : /\ m \in DOMAIN items /\ u.args[m] = items[m].args /\ u.args[m] # Trace!Absent
                                 /\ m \in DOMAIN u.byIndex => Known(items, u, m)
    BY <1>0, <1>6, <1>8, <1>11, <1>12 DEF ArgumentsFit
  <2> QED BY <1>6, <1>7, <2>1, <2>2, <2>3, <2>4, <2>5, <2>6 DEF TraceFits, ItemsFit, CallsFit, ArgumentsFit
<1>14. Grows(items, t, u)
  BY <1>6, <1>8, <1>11 DEF Grows
<1> QED BY <1>12, <1>13, <1>14

LEMMA GrowingGoesOn ==
  ASSUME NEW items, NEW t, NEW u, NEW v, Grows(items, t, u)
  PROVE  /\ Grows(items, u, v) => Grows(items, t, v)
         /\ \A e : Learnt(items, e, t) => Learnt(items, e, u)
         /\ Grows(items, t, t)
<1>1. \A n : Known(items, t, n) => Known(items, u, n)
  BY DEF Grows, Known
<1>2. ASSUME NEW e, Learnt(items, e, t) PROVE Learnt(items, e, u)
  BY <1>1, <1>2, Zenon DEF Learnt, Grows
<1> QED BY <1>1, <1>2 DEF Grows

LEMMA ArgumentsKeep ==
  ASSUME NEW items, IsResponse(items), NEW t, TraceFits(items, t),
         NEW e, e.event = "arguments", Tells(items, e),
         NEW u, u = Trace!ObserveFunctionCallArguments(t, e)
  PROVE  TraceFits(items, u) /\ Grows(items, t, u) /\ (e.args # Trace!Absent => e.index \in DOMAIN u.args)
<1> DEFINE n == e.index
           pos == IF n \in DOMAIN t.byIndex THEN t.byIndex[n] ELSE 0
<1>0. IsTrace(t) /\ ItemsFit(items, t) /\ CallsFit(items, t) /\ ArgumentsFit(items, t)
  BY DEF TraceFits
<1>1. n \in DOMAIN items /\ e.args = items[n].args
  BY DEF Tells
<1>2. CASE e.args = Trace!Absent
  BY <1>2, GrowingGoesOn DEF Trace!ObserveFunctionCallArguments, Grows
<1>3. CASE e.args # Trace!Absent
  <2> DEFINE args == Trace!Put(t.args, n, e.args)
             output == IF pos # 0 /\ t.output[pos].args = Trace!Absent THEN [t.output EXCEPT ![pos].args = e.args]
                       ELSE t.output
  <2>1. u = [t EXCEPT !.args = args, !.output = output]
    BY <1>3 DEF Trace!ObserveFunctionCallArguments
  <2>2. DOMAIN args = DOMAIN t.args \cup {n} /\ \A m \in DOMAIN args : args[m] = IF m = n THEN e.args ELSE t.args[m]
    BY DEF Trace!Put
  <2>3. /\ output \in Seq(Parts(items)) /\ Len(output) = Len(t.output)
        /\ n \in DOMAIN t.byIndex => output[t.byIndex[n]] = items[n]
        /\ \A p \in 1 .. Len(t.output) : p # pos => output[p] = t.output[p]
    <3>1. t.output \in Seq(Parts(items)) /\ Len(t.output) \in Nat
      BY <1>0 DEF ItemsFit
    <3>2. CASE n \notin DOMAIN t.byIndex
      BY <3>1, <3>2
    <3>3. CASE n \in DOMAIN t.byIndex
      <4> DEFINE x == t.output[pos]
                 y == [x EXCEPT !.args = e.args]
      <4>1. pos = t.byIndex[n] /\ pos \in 1 .. Len(t.output) /\ x \in Partly(items[n]) /\ pos # 0
        BY <1>0, <3>1, <3>3 DEF ItemsFit
      <4>2. IsItem(items[n])
        BY <1>1 DEF IsResponse
      <4>3. x.args # Trace!Absent => x = items[n]
        <5>1. x = items[n] \/ x = Trace!Bare(items[n])
          BY <4>1 DEF Partly
        <5> HIDE DEF x
        <5>2. Trace!Bare(items[n]).args = Trace!Absent
          BY <4>2, BareIs
        <5> QED BY <5>1, <5>2
      <4>4. y = items[n]
        <5>1. /\ IsItem(x) /\ x.type = items[n].type /\ x.call = items[n].call /\ x.text = items[n].text
          <6>1. x = items[n] \/ x = Trace!Bare(items[n])
            BY <4>1 DEF Partly
          <6> HIDE DEF x
          <6> QED BY <4>2, <6>1, BareIs
        <5> HIDE DEF x
        <5>2. y = [f \in Fields |-> IF f = "args" THEN e.args ELSE x[f]]
          BY <5>1 DEF IsItem, Fields
        <5> HIDE DEF y
        <5>3. IsItem(y) /\ y["type"] = x["type"] /\ y["call"] = x["call"] /\ y["args"] = e.args /\ y["text"] = x["text"]
          BY <5>2 DEF IsItem, Fields
        <5> QED BY <1>1, <4>2, <5>1, <5>3, ItemsAreFields
      <4>5. output = [t.output EXCEPT ![pos] = items[n]]
        <5>1. CASE x.args = Trace!Absent
          BY <4>1, <4>4, <5>1
        <5>2. CASE x.args # Trace!Absent
          <6>1. output = t.output /\ t.output[pos] = items[n]
            BY <4>3, <5>2
          <6> HIDE DEF pos, output
          <6>2. t.output \in [1 .. Len(t.output) -> Parts(items)]
            BY <3>1
          <6> QED BY <4>1, <6>1, <6>2
        <5> QED BY <5>1, <5>2
      <4>6. items[n] \in Parts(items)
        BY <1>1 DEF Parts, Partly
      <4> HIDE DEF pos, output
      <4> QED BY <3>1, <4>1, <4>5, <4>6
    <3> QED BY <3>2, <3>3
  <2> HIDE DEF args, output
  <2>4. /\ IsTrace(u) /\ u.output = output /\ u.args = args /\ u.byIndex = t.byIndex /\ u.byCall = t.byCall
    <3>1. u = [id |-> t.id, output |-> output, args |-> args, byIndex |-> t.byIndex, byCall |-> t.byCall]
      BY <1>0, <2>1 DEF IsTrace
    <3> QED BY <3>1 DEF IsTrace
  <2>5. \A m \in DOMAIN t.byIndex : m # n => t.byIndex[m] \in 1 .. Len(t.output) /\ t.byIndex[m] # pos
    <3>1. \A m \in DOMAIN t.byIndex : t.byIndex[m] \in 1 .. Len(t.output)
      BY <1>0 DEF ItemsFit
    <3>2. \A m \in DOMAIN t.byIndex : m # n => t.byIndex[m] # pos
      BY <1>0, <3>1 DEF ItemsFit
    <3> QED BY <3>1, <3>2
  <2> HIDE DEF pos
  <2>6. \A m \in DOMAIN t.byIndex : m # n => u.output[u.byIndex[m]] = t.output[t.byIndex[m]]
    BY <2>3, <2>4, <2>5
  <2>7. n \in DOMAIN u.byIndex => Known(items, u, n)
    BY <2>3, <2>4 DEF Known
  <2>8. \A m \in DOMAIN t.byIndex : Known(items, t, m) => Known(items, u, m)
    BY <2>4, <2>6, <2>7 DEF Known
  <2>9. ItemsFit(items, u)
    <3>1. \A m \in DOMAIN u.byIndex : /\ u.byIndex[m] \in 1 .. Len(u.output)
                                      /\ u.output[u.byIndex[m]] \in Partly(items[m])
      <4> SUFFICES ASSUME NEW m \in DOMAIN u.byIndex
                   PROVE  /\ u.byIndex[m] \in 1 .. Len(u.output)
                          /\ u.output[u.byIndex[m]] \in Partly(items[m])
        OBVIOUS
      <4>1. CASE m = n
        BY <1>0, <2>3, <2>4, <2>7, <4>1 DEF Known, Partly, ItemsFit
      <4>2. CASE m # n
        BY <1>0, <2>3, <2>4, <2>6, <4>2 DEF ItemsFit
      <4> QED BY <4>1, <4>2
    <3> QED BY <1>0, <2>3, <2>4, <3>1 DEF ItemsFit
  <2>10. CallsFit(items, u)
    BY <1>0, <2>4 DEF CallsFit
  <2>11. ArgumentsFit(items, u)
    <3> SUFFICES ASSUME NEW m \in DOMAIN u.args
                 PROVE  /\ m \in DOMAIN items /\ u.args[m] = items[m].args /\ u.args[m] # Trace!Absent
                        /\ m \in DOMAIN u.byIndex => Known(items, u, m)
      BY DEF ArgumentsFit
    <3>1. CASE m = n
      BY <1>1, <1>3, <2>2, <2>4, <2>7, <3>1
    <3>2. CASE m # n
      <4>1. m \in DOMAIN t.args /\ u.args[m] = t.args[m]
        BY <2>2, <2>4, <3>2
      <4> QED BY <1>0, <2>4, <2>8, <4>1 DEF ArgumentsFit
    <3> QED BY <3>1, <3>2
  <2> QED BY <2>2, <2>4, <2>8, <2>9, <2>10, <2>11 DEF TraceFits, Grows
<1> QED BY <1>2, <1>3

LEMMA DoneKeeps ==
  ASSUME NEW items, IsResponse(items), NEW t, TraceFits(items, t),
         NEW e, e.event = "done", Tells(items, e),
         NEW u, u = Trace!ObserveOutputItemDone(t, e)
  PROVE  TraceFits(items, u) /\ Grows(items, t, u) /\ Learnt(items, e, u)
<1> DEFINE n == e.index
           x == e.item
           y == [x EXCEPT !.args = t.args[n]]
           item == IF x.type = "call" /\ x.args = Trace!Absent /\ n \in DOMAIN t.args THEN y ELSE x
<1>1. n \in DOMAIN items /\ x \in Partly(items[n])
  BY DEF Tells
<1>2. IsItem(items[n]) /\ (items[n].type # "call" => items[n].args = Trace!Absent)
  BY <1>1 DEF IsResponse
<1>3. n \in DOMAIN t.args => t.args[n] = items[n].args /\ items[n].args # Trace!Absent
  BY DEF TraceFits, ArgumentsFit
<1>4. /\ IsItem(x) /\ x.type = items[n].type /\ x.call = items[n].call /\ x.text = items[n].text
      /\ x.args = Trace!Absent \/ x = items[n]
  <2>1. x = items[n] \/ x = Trace!Bare(items[n])
    BY <1>1 DEF Partly
  <2> HIDE DEF x
  <2>2. Trace!Bare(items[n]).args = Trace!Absent
    BY <1>2, BareIs
  <2> QED BY <1>2, <2>1, <2>2, BareIs
<1>5. n \in DOMAIN t.args => y = items[n]
  <2> SUFFICES ASSUME n \in DOMAIN t.args PROVE y = items[n]
    OBVIOUS
  <2>1. t.args[n] = items[n].args
    BY <1>3
  <2> HIDE DEF x
  <2>2. y = [f \in Fields |-> IF f = "args" THEN items[n].args ELSE x[f]]
    BY <1>4, <2>1 DEF IsItem, Fields
  <2> HIDE DEF y
  <2>3. IsItem(y) /\ y["type"] = x["type"] /\ y["call"] = x["call"] /\ y["args"] = items[n].args /\ y["text"] = x["text"]
    BY <2>2 DEF IsItem, Fields
  <2> QED BY <1>2, <1>4, <2>3, ItemsAreFields
<1>6. item \in Partly(items[n]) /\ (n \in DOMAIN t.args => item = items[n]) /\ (x = items[n] => item = items[n])
  <2>1. item = x \/ (n \in DOMAIN t.args /\ item = y)
    OBVIOUS
  <2>2. ASSUME n \in DOMAIN t.args, item = x PROVE x = items[n]
    BY <1>2, <1>3, <1>4, <1>5, <2>2
  <2> HIDE DEF item
  <2> QED BY <1>1, <1>5, <2>1, <2>2 DEF Partly
<1>7. u = Trace!UpsertOutputItem(t, n, item)
  BY DEF Trace!ObserveOutputItemDone
<1> HIDE DEF item, x, n
<1>8. /\ TraceFits(items, u) /\ Grows(items, t, u)
      /\ n \in DOMAIN u.byIndex /\ (item = items[n] => Known(items, u, n))
  BY <1>1, <1>6, <1>7, UpsertKeeps
<1> QED BY <1>6, <1>8 DEF Learnt, x, n

\* An output is taken up item by item.
LEMMA ListedIs ==
  ASSUME NEW t, NEW output, Len(output) \in Nat
  PROVE  /\ Trace!Listed(t, output)[0] = t
         /\ \A n \in 1 .. Len(output) :
              Trace!Listed(t, output)[n] = Trace!UpsertOutputItem(Trace!Listed(t, output)[n - 1], n, output[n])
<1> DEFINE next(n, s) == Trace!UpsertOutputItem(s, n, output[n])
           good == {n \in 0 .. Len(output) : \E f : f = [k \in 0 .. n |-> IF k = 0 THEN t ELSE next(k, f[k - 1])]}
<1> HIDE DEF next
<1>1. 0 \in good
  <2> DEFINE f == [k \in 0 .. 0 |-> t]
  <2>1. f = [k \in 0 .. 0 |-> IF k = 0 THEN t ELSE next(k, f[k - 1])]
    OBVIOUS
  <2> HIDE DEF f
  <2>2. \E h : h = [k \in 0 .. 0 |-> IF k = 0 THEN t ELSE next(k, h[k - 1])]
    BY <2>1
  <2> QED BY <2>2
<1>2. ASSUME NEW n \in 1 .. Len(output), n - 1 \in good PROVE n \in good
  <2>1. PICK f : f = [k \in 0 .. (n - 1) |-> IF k = 0 THEN t ELSE next(k, f[k - 1])]
    BY <1>2
  <2> DEFINE g == [k \in 0 .. n |-> IF k = n THEN next(n, f[n - 1]) ELSE f[k]]
  <2>2. \A k \in 0 .. n : g[k] = IF k = 0 THEN t ELSE next(k, g[k - 1])
    <3>1. g[n] = next(n, g[n - 1])
      OBVIOUS
    <3>2. \A k \in 0 .. (n - 1) : g[k] = f[k]
      OBVIOUS
    <3>3. \A k \in 1 .. (n - 1) : g[k] = next(k, g[k - 1])
      BY <2>1, <3>2
    <3>4. g[0] = t
      BY <2>1, <3>2
    <3>5. \A k \in 0 .. n : k = 0 \/ k = n \/ (k \in 1 .. (n - 1) /\ k # 0)
      OBVIOUS
    <3> HIDE DEF g
    <3> QED BY <3>1, <3>3, <3>4, <3>5
  <2>3. g = [k \in 0 .. n |-> IF k = 0 THEN t ELSE next(k, g[k - 1])]
    BY <2>2
  <2> HIDE DEF g
  <2> QED BY <2>3
<1>3. Len(output) \in good
  <2> HIDE DEF good
  <2>1. 0 .. Len(output) \subseteq good
    BY <1>1, <1>2, AlongTheRange
  <2> QED BY <2>1
<1>4. PICK f : f = [k \in 0 .. Len(output) |-> IF k = 0 THEN t ELSE next(k, f[k - 1])]
  BY <1>3
<1> DEFINE listed == Trace!Listed(t, output)
<1>5. listed = [k \in 0 .. Len(output) |-> IF k = 0 THEN t ELSE next(k, listed[k - 1])]
  BY <1>4, Zenon DEF Trace!Listed, next
<1> HIDE DEF listed
<1>6. \A k \in 0 .. Len(output) : listed[k] = IF k = 0 THEN t ELSE next(k, listed[k - 1])
  BY <1>5
<1> QED BY <1>6 DEF listed, next

LEMMA CompletedKeeps ==
  ASSUME NEW items, IsResponse(items), NEW t, TraceFits(items, t),
         NEW e, e.event = "completed", Tells(items, e),
         NEW u, u = Trace!Listed([t EXCEPT !.id = e.id], e.output)[Len(e.output)]
  PROVE  TraceFits(items, u) /\ Grows(items, t, u) /\ Learnt(items, e, u)
<1> DEFINE s == [t EXCEPT !.id = e.id]
<1>1. TraceFits(items, s) /\ Grows(items, t, s)
  <2>1. IsTrace(t) /\ ItemsFit(items, t) /\ CallsFit(items, t) /\ ArgumentsFit(items, t)
    BY DEF TraceFits
  <2>2. IsTrace(s) /\ s.output = t.output /\ s.args = t.args /\ s.byIndex = t.byIndex /\ s.byCall = t.byCall
    BY <2>1 DEF IsTrace
  <2> HIDE DEF s
  <2>3. \A n : Known(items, t, n) <=> Known(items, s, n)
    BY <2>2 DEF Known
  <2>4. ItemsFit(items, s)
    BY <2>1, <2>2 DEF ItemsFit
  <2>5. CallsFit(items, s) /\ ArgumentsFit(items, s)
    BY <2>1, <2>2, <2>3, Zenon DEF CallsFit, ArgumentsFit
  <2> QED BY <2>2, <2>3, <2>4, <2>5 DEF TraceFits, Grows
<1> HIDE DEF s
<1>2. CASE e.output = <<>>
  <2>1. u = s
    <3>1. Len(<<>>) = 0
      OBVIOUS
    <3> QED BY <1>2, <3>1, ListedIs DEF s
  <2>2. items = <<>> => \A n \in DOMAIN items : Known(items, u, n)
    OBVIOUS
  <2> QED BY <1>1, <1>2, <2>1, <2>2 DEF Learnt
<1>3. CASE e.output = items
  <2> DEFINE listed == Trace!Listed(s, items)
             Good(v, n) == /\ TraceFits(items, v) /\ Grows(items, t, v)
                           /\ \A k \in 1 .. n : Known(items, v, k)
             good == {n \in 0 .. Len(items) : Good(listed[n], n)}
  <2>1. /\ Len(items) \in Nat /\ DOMAIN items = 1 .. Len(items) /\ listed[0] = s
        /\ \A n \in 1 .. Len(items) : listed[n] = Trace!UpsertOutputItem(listed[n - 1], n, items[n])
    <3>1. Len(items) \in Nat /\ DOMAIN items = 1 .. Len(items)
      BY DEF IsResponse
    <3>2. /\ listed[0] = s
          /\ \A n \in 1 .. Len(items) : listed[n] = Trace!UpsertOutputItem(listed[n - 1], n, items[n])
      BY <3>1, ListedIs
    <3> QED BY <3>1, <3>2
  <2> HIDE DEF listed
  <2>2. 0 \in good
    BY <1>1, <2>1
  <2>3. ASSUME NEW n \in 1 .. Len(items), n - 1 \in good PROVE n \in good
    <3> DEFINE v == listed[n - 1]
    <3>1. TraceFits(items, v) /\ Grows(items, t, v) /\ \A k \in 1 .. (n - 1) : Known(items, v, k)
      BY <2>3
    <3>2. listed[n] = Trace!UpsertOutputItem(v, n, items[n]) /\ n \in DOMAIN items /\ items[n] \in Partly(items[n])
      BY <2>1 DEF Partly
    <3> HIDE DEF v
    <3>3. TraceFits(items, listed[n]) /\ Grows(items, v, listed[n]) /\ Known(items, listed[n], n)
      BY <3>1, <3>2, UpsertKeeps
    <3>4. Grows(items, t, listed[n])
      BY <3>1, <3>3, GrowingGoesOn
    <3>5. \A k \in 1 .. (n - 1) : Known(items, listed[n], k)
      BY <3>1, <3>3 DEF Grows, Known
    <3>6. \A k \in 1 .. n : k = n \/ k \in 1 .. (n - 1)
      OBVIOUS
    <3> QED BY <3>3, <3>4, <3>5, <3>6
  <2>4. Len(items) \in good
    <3> HIDE DEF good
    <3>1. 0 .. Len(items) \subseteq good
      BY <2>1, <2>2, <2>3, AlongTheRange
    <3> QED BY <2>1, <3>1
  <2>5. u = listed[Len(items)]
    BY <1>3 DEF listed, s
  <2> QED BY <2>1, <2>4, <2>5 DEF Learnt
<1> QED BY <1>2, <1>3 DEF Tells

LEMMA ObserveKeeps ==
  ASSUME NEW items, IsResponse(items), NEW t, TraceFits(items, t), NEW e, Tells(items, e),
         NEW u, u = Trace!Observe(t, e)
  PROVE  TraceFits(items, u) /\ Grows(items, t, u) /\ Learnt(items, e, u)
<1>1. CASE e.event = "created"
  <2>1. u = [t EXCEPT !.id = e.id]
    BY <1>1 DEF Trace!Observe
  <2>2. IsTrace(t) /\ ItemsFit(items, t) /\ CallsFit(items, t) /\ ArgumentsFit(items, t)
    BY DEF TraceFits
  <2>3. IsTrace(u) /\ u.output = t.output /\ u.args = t.args /\ u.byIndex = t.byIndex /\ u.byCall = t.byCall
    BY <2>1, <2>2 DEF IsTrace
  <2>4. \A n : Known(items, t, n) <=> Known(items, u, n)
    BY <2>3 DEF Known
  <2>5. ItemsFit(items, u)
    BY <2>2, <2>3 DEF ItemsFit
  <2>6. CallsFit(items, u) /\ ArgumentsFit(items, u)
    BY <2>2, <2>3, <2>4, Zenon DEF CallsFit, ArgumentsFit
  <2> QED BY <1>1, <2>3, <2>4, <2>5, <2>6 DEF TraceFits, Grows, Learnt
<1>2. CASE e.event = "arguments"
  <2>1. u = Trace!ObserveFunctionCallArguments(t, e)
    BY <1>2 DEF Trace!Observe
  <2> QED BY <1>2, <2>1, ArgumentsKeep DEF Learnt
<1>3. CASE e.event = "done"
  <2>1. u = Trace!ObserveOutputItemDone(t, e)
    BY <1>3 DEF Trace!Observe
  <2> QED BY <1>3, <2>1, DoneKeeps
<1>4. CASE e.event = "completed"
  <2>1. u = Trace!Listed([t EXCEPT !.id = e.id], e.output)[Len(e.output)]
    BY <1>4 DEF Trace!Observe
  <2> QED BY <1>4, <2>1, CompletedKeeps
<1> QED BY <1>1, <1>2, <1>3, <1>4 DEF Tells

\* The trace behind each event
LEMMA RecordedIs ==
  ASSUME NEW events, Len(events) \in Nat
  PROVE  /\ Trace!Recorded(events)[0] = Trace!NewTrace
         /\ \A n \in 1 .. Len(events) :
              Trace!Recorded(events)[n] = Trace!Observe(Trace!Recorded(events)[n - 1], events[n])
<1> DEFINE next(n, s) == Trace!Observe(s, events[n])
           start == Trace!NewTrace
           good == {n \in 0 .. Len(events) : \E f : f = [k \in 0 .. n |-> IF k = 0 THEN start ELSE next(k, f[k - 1])]}
<1> HIDE DEF next, start
<1>1. 0 \in good
  <2> DEFINE f == [k \in 0 .. 0 |-> start]
  <2>1. f = [k \in 0 .. 0 |-> IF k = 0 THEN start ELSE next(k, f[k - 1])]
    OBVIOUS
  <2> HIDE DEF f
  <2>2. \E h : h = [k \in 0 .. 0 |-> IF k = 0 THEN start ELSE next(k, h[k - 1])]
    BY <2>1
  <2> QED BY <2>2
<1>2. ASSUME NEW n \in 1 .. Len(events), n - 1 \in good PROVE n \in good
  <2>1. PICK f : f = [k \in 0 .. (n - 1) |-> IF k = 0 THEN start ELSE next(k, f[k - 1])]
    BY <1>2
  <2> DEFINE g == [k \in 0 .. n |-> IF k = n THEN next(n, f[n - 1]) ELSE f[k]]
  <2>2. \A k \in 0 .. n : g[k] = IF k = 0 THEN start ELSE next(k, g[k - 1])
    <3>1. g[n] = next(n, g[n - 1])
      OBVIOUS
    <3>2. \A k \in 0 .. (n - 1) : g[k] = f[k]
      OBVIOUS
    <3>3. \A k \in 1 .. (n - 1) : g[k] = next(k, g[k - 1])
      BY <2>1, <3>2
    <3>4. g[0] = start
      BY <2>1, <3>2
    <3>5. \A k \in 0 .. n : k = 0 \/ k = n \/ (k \in 1 .. (n - 1) /\ k # 0)
      OBVIOUS
    <3> HIDE DEF g
    <3> QED BY <3>1, <3>3, <3>4, <3>5
  <2>3. g = [k \in 0 .. n |-> IF k = 0 THEN start ELSE next(k, g[k - 1])]
    BY <2>2
  <2> HIDE DEF g
  <2> QED BY <2>3
<1>3. Len(events) \in good
  <2> HIDE DEF good
  <2>1. 0 .. Len(events) \subseteq good
    BY <1>1, <1>2, AlongTheRange
  <2> QED BY <2>1
<1>4. PICK f : f = [k \in 0 .. Len(events) |-> IF k = 0 THEN start ELSE next(k, f[k - 1])]
  BY <1>3
<1> DEFINE recorded == Trace!Recorded(events)
<1>5. recorded = [k \in 0 .. Len(events) |-> IF k = 0 THEN start ELSE next(k, recorded[k - 1])]
  BY <1>4, Zenon DEF Trace!Recorded, next, start
<1> HIDE DEF recorded
<1>6. \A k \in 0 .. Len(events) : recorded[k] = IF k = 0 THEN start ELSE next(k, recorded[k - 1])
  BY <1>5
<1> QED BY <1>6 DEF recorded, next, start

\* Whatever the events of a response are and however they are ordered, what they
\* told so far is recorded.
LEMMA EventsAreRecorded ==
  ASSUME NEW items, IsResponse(items), NEW events, Len(events) \in Nat,
         \A k \in 1 .. Len(events) : Tells(items, events[k])
  PROVE  /\ TraceFits(items, Trace!Recorded(events)[Len(events)])
         /\ \A k \in 1 .. Len(events) : Learnt(items, events[k], Trace!Recorded(events)[Len(events)])
<1> DEFINE traces == Trace!Recorded(events)
           Good(t, n) == TraceFits(items, t) /\ \A k \in 1 .. n : Learnt(items, events[k], t)
           good == {n \in 0 .. Len(events) : Good(traces[n], n)}
<1>1. /\ traces[0] = Trace!NewTrace
      /\ \A n \in 1 .. Len(events) : traces[n] = Trace!Observe(traces[n - 1], events[n])
  BY RecordedIs
<1> HIDE DEF traces
<1>2. 0 \in good
  <2> DEFINE t == Trace!NewTrace
  <2>1. IsTrace(t) /\ t.output = <<>> /\ t.args = <<>> /\ t.byIndex = <<>> /\ t.byCall = <<>>
    BY DEF Trace!NewTrace, IsTrace
  <2> HIDE DEF t
  <2>2. DOMAIN (<<>>) = {} /\ Len(<<>>) = 0 /\ <<>> \in Seq(Parts(items))
    OBVIOUS
  <2>3. ItemsFit(items, t)
    BY <2>1, <2>2 DEF ItemsFit
  <2>4. CallsFit(items, t) /\ ArgumentsFit(items, t)
    BY <2>1, <2>2, Zenon DEF CallsFit, ArgumentsFit
  <2> QED BY <1>1, <2>1, <2>3, <2>4 DEF t, TraceFits
<1>3. ASSUME NEW n \in 1 .. Len(events), n - 1 \in good PROVE n \in good
  <2> DEFINE t == traces[n - 1]
  <2>1. TraceFits(items, t) /\ \A k \in 1 .. (n - 1) : Learnt(items, events[k], t)
    BY <1>3
  <2>2. traces[n] = Trace!Observe(t, events[n]) /\ Tells(items, events[n])
    BY <1>1
  <2> HIDE DEF t
  <2>3. TraceFits(items, traces[n]) /\ Grows(items, t, traces[n]) /\ Learnt(items, events[n], traces[n])
    BY <2>1, <2>2, ObserveKeeps
  <2>4. \A k \in 1 .. (n - 1) : Learnt(items, events[k], traces[n])
    BY <2>1, <2>3, GrowingGoesOn
  <2>5. \A k \in 1 .. n : k = n \/ k \in 1 .. (n - 1)
    OBVIOUS
  <2> QED BY <2>3, <2>4, <2>5
<1>4. Len(events) \in good
  <2> HIDE DEF good
  <2>1. 0 .. Len(events) \subseteq good
    BY <1>2, <1>3, AlongTheRange
  <2> QED BY <2>1
<1> QED BY <1>4 DEF traces

LEMMA CountsAgree == ASSUME NEW S PROVE Trace!Cardinality(S) = Cardinality(S)
BY DEF Trace!Cardinality, Cardinality

\* The numbers up to n, sorted, are the numbers up to n.
LEMMA SortedIs ==
  ASSUME NEW n \in Nat
  PROVE  Trace!Sorted(1 .. n) = [k \in 1 .. n |-> k]
<1>1. Trace!Cardinality(1 .. n) = n
  BY FS_Interval, CountsAgree
<1>2. ASSUME NEW k \in 1 .. n PROVE Trace!Nth(1 .. n, k) = k
  <2>1. ASSUME NEW x \in 1 .. n PROVE Trace!Cardinality({y \in 1 .. n : y <= x}) = x
    <3>1. {y \in 1 .. n : y <= x} = 1 .. x
      OBVIOUS
    <3>2. Trace!Cardinality(1 .. x) = x
      BY FS_Interval, CountsAgree
    <3> QED BY <3>1, <3>2
  <2> DEFINE P(x) == Trace!Cardinality({y \in 1 .. n : y <= x}) = k
  <2>2. \A x \in 1 .. n : P(x) <=> x = k
    BY <2>1
  <2> HIDE DEF P
  <2>3. (CHOOSE x \in 1 .. n : P(x)) = k
    BY <2>2
  <2> QED BY <2>3 DEF P, Trace!Nth
<1> QED BY <1>1, <1>2 DEF Trace!Sorted

LEMMA NothingIsSorted == Trace!Sorted({}) = <<>>
<1>1. Trace!Cardinality({}) = 0
  BY FS_EmptySet, CountsAgree
<1>2. 1 .. 0 = {}
  OBVIOUS
<1>3. Trace!Sorted({}) = [k \in {} |-> Trace!Nth({}, k)]
  BY <1>1, <1>2 DEF Trace!Sorted
<1>4. [k \in {} |-> Trace!Nth({}, k)] = <<>>
  OBVIOUS
<1> QED BY <1>3, <1>4

\* When all is known, the output is the response.
LEMMA OutputIsTheResponse ==
  ASSUME NEW items, IsResponse(items), items \in Seq(Parts(items)), NEW t, TraceFits(items, t),
         \A n \in DOMAIN items : Known(items, t, n)
  PROVE  Trace!OutputInOrder(t) = items
<1>1. DOMAIN items = 1 .. Len(items) /\ Len(items) \in Nat
  BY DEF IsResponse
<1>2. /\ DOMAIN t.byIndex = 1 .. Len(items)
      /\ DOMAIN t.output = 1 .. Len(t.output)
      /\ \A p \in 1 .. Len(t.output) : \E n \in DOMAIN t.byIndex : t.byIndex[n] = p
  <2>1. ItemsFit(items, t)
    BY DEF TraceFits
  <2>2. DOMAIN items \subseteq DOMAIN t.byIndex
    BY DEF Known
  <2>3. DOMAIN t.output = 1 .. Len(t.output)
    BY <2>1 DEF ItemsFit
  <2>4. /\ DOMAIN t.byIndex \subseteq DOMAIN items
        /\ \A p \in 1 .. Len(t.output) : \E n \in DOMAIN t.byIndex : t.byIndex[n] = p
    BY <2>1 DEF ItemsFit
  <2> QED BY <1>1, <2>2, <2>3, <2>4
<1>3. \A n \in 1 .. Len(items) : t.output[t.byIndex[n]] = items[n]
  BY <1>1 DEF Known
<1>4. DOMAIN t.output \ {t.byIndex[n] : n \in DOMAIN t.byIndex} = {}
  BY <1>2
<1> DEFINE indices == Trace!Sorted(DOMAIN t.byIndex)
           rest == Trace!Sorted(DOMAIN t.output \ {t.byIndex[n] : n \in DOMAIN t.byIndex})
           front == [n \in DOMAIN indices |-> t.output[t.byIndex[indices[n]]]]
           back == [n \in DOMAIN rest |-> t.output[rest[n]]]
<1>5. indices = [n \in 1 .. Len(items) |-> n]
  BY <1>1, <1>2, SortedIs
<1>6. rest = <<>>
  BY <1>4, NothingIsSorted
<1>7. Trace!OutputInOrder(t) = front \o back
  BY DEF Trace!OutputInOrder
<1> HIDE DEF indices, rest
<1>8. front = [n \in 1 .. Len(items) |-> items[n]]
  BY <1>3, <1>5
<1>9. back = <<>>
  BY <1>6
<1> HIDE DEF front, back
<1>10. front = items
  BY <1>1, <1>8
<1> QED BY <1>7, <1>9, <1>10

\* A response is told when of every item all is told.
AllTold(items, events) ==
  \A n \in DOMAIN items :
    \/ \E k \in 1 .. Len(events) : events[k].event = "completed" /\ events[k].output = items
    \/ \E k \in 1 .. Len(events) : events[k].event = "done" /\ events[k].index = n /\ events[k].item = items[n]
    \/ /\ \E k \in 1 .. Len(events) : events[k].event = "done" /\ events[k].index = n
       /\ \E k \in 1 .. Len(events) : /\ events[k].event = "arguments" /\ events[k].index = n
                                      /\ events[k].args # Trace!Absent

\* Every item is recorded once, in the order of the response, with its arguments: of a
\* response of any length, in whatever order and however often the items end and
\* their arguments come.
LEMMA ResponsesAreRecorded ==
  ASSUME NEW items, IsResponse(items), items \in Seq(Parts(items)), NEW events, Len(events) \in Nat,
         \A k \in 1 .. Len(events) : Tells(items, events[k]), AllTold(items, events)
  PROVE  Trace!OutputInOrder(Trace!Recorded(events)[Len(events)]) = items
<1> DEFINE t == Trace!Recorded(events)[Len(events)]
<1>1. TraceFits(items, t) /\ \A k \in 1 .. Len(events) : Learnt(items, events[k], t)
  BY EventsAreRecorded
<1> HIDE DEF t
<1>2. ASSUME NEW n \in DOMAIN items PROVE Known(items, t, n)
  <2>1. CASE \E k \in 1 .. Len(events) : events[k].event = "completed" /\ events[k].output = items
    BY <1>1, <2>1 DEF Learnt
  <2>2. CASE \E k \in 1 .. Len(events) : events[k].event = "done" /\ events[k].index = n /\ events[k].item = items[n]
    BY <1>1, <2>2 DEF Learnt
  <2>3. CASE /\ \E k \in 1 .. Len(events) : events[k].event = "done" /\ events[k].index = n
             /\ \E k \in 1 .. Len(events) : /\ events[k].event = "arguments" /\ events[k].index = n
                                            /\ events[k].args # Trace!Absent
    <3>1. n \in DOMAIN t.byIndex /\ n \in DOMAIN t.args
      BY <1>1, <2>3 DEF Learnt
    <3> QED BY <1>1, <3>1 DEF TraceFits, ArgumentsFit
  <2> QED BY <2>1, <2>2, <2>3 DEF AllTold
<1>3. Trace!OutputInOrder(t) = items
  BY <1>1, <1>2, OutputIsTheResponse
<1> QED BY <1>3 DEF t

\* What has as many places as a set has members, and no member twice, has them all.
LEMMA ArrangedHasAll ==
  ASSUME NEW S, IsFiniteSet(S), NEW said \in Trace!Arranged(S)
  PROVE  /\ Len(said) = Cardinality(S) /\ Cardinality(S) \in Nat /\ said \in Seq(S)
         /\ \A x \in S : \E k \in 1 .. Len(said) : said[k] = x
<1>1. Cardinality(S) \in Nat
  BY FS_CardinalityType
<1>2. said \in [1 .. Cardinality(S) -> S] /\ \A a, b \in 1 .. Cardinality(S) : said[a] = said[b] => a = b
  <2>1. said \in [1 .. Cardinality(S) -> S] /\ \A a, b \in DOMAIN said : said[a] = said[b] => a = b
    <3>1. Trace!Cardinality(S) = Cardinality(S)
      BY CountsAgree
    <3>2. /\ said \in [1 .. Trace!Cardinality(S) -> S]
          /\ \A a, b \in DOMAIN said : said[a] = said[b] => a = b
      BY Zenon DEF Trace!Arranged
    <3> QED BY <3>1, <3>2, Zenon
  <2> QED BY <2>1
<1>3. said \in Seq(S) /\ Len(said) = Cardinality(S)
  BY <1>1, <1>2
<1>4. ASSUME NEW x \in S, \A k \in 1 .. Cardinality(S) : said[k] # x PROVE FALSE
  <2> DEFINE T == S \ {x}
  <2>1. IsFiniteSet(T) /\ Cardinality(T) = Cardinality(S) - 1
    BY FS_RemoveElement
  <2>2. said \in [1 .. Cardinality(S) -> T]
    BY <1>2, <1>4
  <2>3. IsFiniteSet(1 .. Cardinality(S)) /\ Cardinality(1 .. Cardinality(S)) = Cardinality(S)
    BY <1>1, FS_Interval
  <2> HIDE DEF T
  <2>4. Cardinality(T) < Cardinality(1 .. Cardinality(S))
    BY <1>1, <2>1, <2>3
  <2>5. \E a, b \in 1 .. Cardinality(S) : a # b /\ said[a] = said[b]
    BY <2>1, <2>2, <2>3, <2>4, FS_PigeonHole
  <2> QED BY <1>2, <2>5
<1> QED BY <1>1, <1>3, <1>4

LEMMA EventsAre ==
  ASSUME NEW n, NEW x
  PROVE  /\ Trace!Done(n, x).event = "done" /\ Trace!Done(n, x).index = n /\ Trace!Done(n, x).item = x
         /\ Trace!Arguments(n, x).event = "arguments" /\ Trace!Arguments(n, x).index = n
         /\ Trace!Arguments(n, x).args = x
         /\ Trace!Completed(x).event = "completed" /\ Trace!Completed(x).output = x
         /\ Trace!Created.event = "created"
BY DEF Trace!Done, Trace!Arguments, Trace!Completed, Trace!Created

LEMMA TablesAreSequences ==
  ASSUME NEW top \in Nat, NEW S, NEW f \in [1 .. top -> S]
  PROVE  f \in Seq(S) /\ Len(f) = top
OBVIOUS

LEMMA ItemsAre ==
  ASSUME NEW r \in Trace!Responses
  PROVE  LET items == Trace!ItemsOf(r) IN
         /\ IsResponse(items) /\ items \in Seq(Parts(items)) /\ Len(items) = 3
         /\ \A n \in DOMAIN items : items[n].type = "call" => items[n].args # Trace!Absent
<1> DEFINE items == Trace!ItemsOf(r)
           key(n) == <<"a", "b", "c">>[n]
<1>1. items = [n \in 1 .. 3 |-> IF r[n] THEN Trace!Call(key(n)) ELSE Trace!Message(key(n))]
  BY Zenon DEF Trace!ItemsOf
<1>2. /\ key(1) = "a" /\ key(2) = "b" /\ key(3) = "c"
  OBVIOUS
<1> HIDE DEF key
<1>3. \A n \in 1 .. 3 : n = 1 \/ n = 2 \/ n = 3
  OBVIOUS
<1>4. \A n \in 1 .. 3 : key(n) # Trace!Absent /\ \A m \in 1 .. 3 : key(m) = key(n) => m = n
  BY <1>2, <1>3, Zenon DEF Trace!Absent
<1> HIDE DEF items
<1>5. ASSUME NEW n \in 1 .. 3
      PROVE  /\ IsItem(items[n]) /\ items[n].call \in {Trace!Absent, key(n)}
             /\ items[n].type # "call" => items[n].args = Trace!Absent
             /\ items[n].type = "call" => items[n].args # Trace!Absent
  <2>1. CASE items[n] = Trace!Call(key(n))
    <3>1. items[n] = [f \in Fields |-> items[n][f]]
      BY <2>1 DEF Trace!Call, Fields
    <3>2. items[n].type = "call" /\ items[n].call = key(n) /\ items[n].args = key(n)
      BY <2>1 DEF Trace!Call
    <3> QED BY <1>4, <3>1, <3>2 DEF IsItem
  <2>2. CASE items[n] = Trace!Message(key(n))
    <3>1. items[n] = [f \in Fields |-> items[n][f]]
      BY <2>2 DEF Trace!Message, Fields
    <3>2. items[n].type = "message" /\ items[n].call = Trace!Absent /\ items[n].args = Trace!Absent
      BY <2>2 DEF Trace!Message
    <3> QED BY <1>4, <3>1, <3>2 DEF IsItem
  <2> QED BY <1>1, <2>1, <2>2
<1>6. DOMAIN items = 1 .. 3
  BY <1>1
<1>7. items \in [1 .. 3 -> Parts(items)]
  <2>1. \A n \in 1 .. 3 : items[n] \in Parts(items)
    BY <1>6 DEF Parts, Partly
  <2> QED BY <1>1, <2>1
<1>8. items \in Seq(Parts(items)) /\ Len(items) = 3
  <2>1. 3 \in Nat
    OBVIOUS
  <2> QED BY <1>7, <2>1, TablesAreSequences
<1>9. \A m, n \in 1 .. 3 : items[m].call = items[n].call /\ items[m].call # Trace!Absent => m = n
  <2> SUFFICES ASSUME NEW m \in 1 .. 3, NEW n \in 1 .. 3, items[m].call = items[n].call, items[m].call # Trace!Absent
               PROVE  m = n
    OBVIOUS
  <2>1. items[m].call = key(m) /\ items[n].call = key(n)
    BY <1>5
  <2> QED BY <1>4, <2>1
<1>10. IsResponse(items)
  <2>1. Len(items) \in Nat /\ DOMAIN items = 1 .. Len(items)
    BY <1>6, <1>8
  <2> QED BY <1>5, <1>6, <1>9, <2>1, Zenon DEF IsResponse
<1> QED BY <1>5, <1>6, <1>8, <1>10 DEF items

LEMMA ValuesAreFinite ==
  ASSUME NEW D, IsFiniteSet(D), NEW f, DOMAIN f = D
  PROVE  IsFiniteSet({f[n] : n \in D})
<1> DEFINE T == {f[n] : n \in D}
           g == [n \in D |-> f[n]]
<1>1. g \in Surjection(D, T)
  BY DEF Surjection
<1> HIDE DEF g, T
<1>2. IsFiniteSet(T)
  BY <1>1, FS_Surjection
<1> QED BY <1>2 DEF T

LEMMA EndedIsFinite ==
  ASSUME NEW items, IsFiniteSet(DOMAIN items), NEW apart \in SUBSET DOMAIN items
  PROVE  IsFiniteSet(Trace!Ended(items, apart))
<1> DEFINE said(n) == Trace!Done(n, IF n \in apart THEN Trace!Bare(items[n]) ELSE items[n])
           told(n) == Trace!Arguments(n, items[n].args)
           f == [n \in DOMAIN items |-> said(n)]
           g == [n \in apart |-> told(n)]
<1>1. Trace!Ended(items, apart) = {said(n) : n \in DOMAIN items} \cup {told(n) : n \in apart}
  BY DEF Trace!Ended
<1> HIDE DEF said, told
<1>2. IsFiniteSet(apart)
  BY FS_Subset
<1>3. IsFiniteSet({f[n] : n \in DOMAIN items}) /\ IsFiniteSet({g[n] : n \in apart})
  <2>1. DOMAIN f = DOMAIN items /\ DOMAIN g = apart
    OBVIOUS
  <2> HIDE DEF f, g
  <2> QED BY <1>2, <2>1, ValuesAreFinite
<1>4. {f[n] : n \in DOMAIN items} = {said(n) : n \in DOMAIN items} /\ {g[n] : n \in apart} = {told(n) : n \in apart}
  OBVIOUS
<1>5. IsFiniteSet({said(n) : n \in DOMAIN items}) /\ IsFiniteSet({told(n) : n \in apart})
  BY <1>3, <1>4
<1> QED BY <1>1, <1>5, FS_Union

\* What a sequence between two things has
LEMMA BetweenIs ==
  ASSUME NEW S, NEW said \in Seq(S), NEW head, NEW end,
         NEW events, events = <<head>> \o said \o <<end>>
  PROVE  /\ Len(said) \in Nat /\ Len(events) = Len(said) + 2
         /\ events[1] = head /\ events[Len(said) + 2] = end
         /\ \A k \in 1 .. Len(said) : events[k + 1] = said[k]
<1> DEFINE T == S \cup {head, end}
           front == <<head>> \o said
<1>1. said \in Seq(T) /\ <<head>> \in Seq(T) /\ <<end>> \in Seq(T) /\ Len(<<head>>) = 1 /\ Len(<<end>>) = 1
  OBVIOUS
<1>2. Len(said) \in Nat
  OBVIOUS
<1> HIDE DEF T
<1>3. /\ front \in Seq(T) /\ Len(front) = Len(said) + 1 /\ front[1] = head
      /\ \A k \in 1 .. Len(said) : front[k + 1] = said[k]
  BY <1>1, <1>2
<1>4. events = front \o <<end>>
  OBVIOUS
<1> HIDE DEF front
<1>5. /\ Len(events) = Len(front) + 1 /\ events[Len(front) + 1] = end
      /\ \A k \in 1 .. Len(front) : events[k] = front[k]
  BY <1>1, <1>3, <1>4
<1>6. \A k \in 1 .. Len(said) : k + 1 \in 1 .. Len(front)
  BY <1>2, <1>3
<1> QED BY <1>2, <1>3, <1>5, <1>6

LEMMA AllInOrder == \A r \in Trace!Responses : Trace!InOrder(r)
<1> SUFFICES ASSUME NEW r \in Trace!Responses PROVE Trace!InOrder(r)
  OBVIOUS
<1> DEFINE items == Trace!ItemsOf(r)
<1>1. /\ IsResponse(items) /\ items \in Seq(Parts(items)) /\ Len(items) = 3
      /\ \A n \in DOMAIN items : items[n].type = "call" => items[n].args # Trace!Absent
  BY ItemsAre
<1> SUFFICES ASSUME NEW apart \in SUBSET Trace!Calls(items), NEW whole \in {<<>>, items},
                    NEW said \in Trace!Arranged(Trace!Ended(items, apart)),
                    NEW events, events = <<Trace!Created>> \o said \o <<Trace!Completed(whole)>>
             PROVE  Trace!OutputInOrder(Trace!Recorded(events)[Len(events)]) = items
  BY Zenon DEF Trace!InOrder
<1> HIDE DEF items
<1> DEFINE ended == Trace!Ended(items, apart)
           done(n) == Trace!Done(n, IF n \in apart THEN Trace!Bare(items[n]) ELSE items[n])
           arguments(n) == Trace!Arguments(n, items[n].args)
<1>2. apart \subseteq DOMAIN items /\ \A n \in apart : items[n].args # Trace!Absent
  BY <1>1 DEF Trace!Calls
<1>3. IsFiniteSet(ended)
  <2>1. IsFiniteSet(DOMAIN items)
    <3>1. DOMAIN items = 1 .. Len(items) /\ Len(items) \in Int /\ 1 \in Int
      BY <1>1 DEF IsResponse
    <3> QED BY <3>1, FS_Interval
  <2> QED BY <1>2, <2>1, EndedIsFinite
<1>4. ended = {done(n) : n \in DOMAIN items} \cup {arguments(n) : n \in apart}
  BY DEF Trace!Ended
<1>5. \A n \in DOMAIN items : /\ done(n).event = "done" /\ done(n).index = n
                              /\ done(n).item = IF n \in apart THEN Trace!Bare(items[n]) ELSE items[n]
                              /\ arguments(n).event = "arguments" /\ arguments(n).index = n
                              /\ arguments(n).args = items[n].args
  BY EventsAre
<1> HIDE DEF ended, done, arguments
<1>6. /\ said \in Seq(ended) /\ Len(said) \in Nat
      /\ \A x \in ended : \E k \in 1 .. Len(said) : said[k] = x
  BY <1>3, ArrangedHasAll DEF ended
<1>7. /\ Len(events) = Len(said) + 2
      /\ events[1] = Trace!Created /\ events[Len(said) + 2] = Trace!Completed(whole)
      /\ \A k \in 1 .. Len(said) : events[k + 1] = said[k]
  BY <1>6, BetweenIs
<1>8. ASSUME NEW k \in 1 .. Len(events) PROVE Tells(items, events[k])
  <2>1. CASE k = 1
    BY <1>7, <2>1, EventsAre DEF Tells
  <2>2. CASE k = Len(said) + 2
    BY <1>7, <2>2, EventsAre DEF Tells
  <2>3. CASE k # 1 /\ k # Len(said) + 2
    <3>1. k - 1 \in 1 .. Len(said) /\ (k - 1) + 1 = k
      BY <1>6, <1>7, <2>3
    <3>2. events[k] \in ended
      BY <1>6, <1>7, <3>1
    <3>3. ASSUME NEW n \in DOMAIN items PROVE Tells(items, done(n))
      BY <1>5 DEF Tells, Partly
    <3>4. ASSUME NEW n \in apart PROVE Tells(items, arguments(n))
      BY <1>2, <1>5 DEF Tells
    <3> QED BY <1>4, <3>2, <3>3, <3>4
  <2> QED BY <2>1, <2>2, <2>3
<1>9. AllTold(items, events)
  <2>1. \A x \in ended : \E k \in 1 .. Len(events) : events[k] = x
    <3>1. \A k \in 1 .. Len(said) : k + 1 \in 1 .. Len(events)
      BY <1>6, <1>7
    <3> QED BY <1>6, <1>7, <3>1
  <2> SUFFICES ASSUME NEW n \in DOMAIN items
               PROVE  \/ \E k \in 1 .. Len(events) : events[k].event = "done" /\ events[k].index = n /\ events[k].item = items[n]
                      \/ /\ \E k \in 1 .. Len(events) : events[k].event = "done" /\ events[k].index = n
                         /\ \E k \in 1 .. Len(events) : /\ events[k].event = "arguments" /\ events[k].index = n
                                                        /\ events[k].args # Trace!Absent
    BY DEF AllTold
  <2>2. PICK k \in 1 .. Len(events) : events[k] = done(n)
    BY <1>4, <2>1
  <2>3. CASE n \notin apart
    BY <1>5, <2>2, <2>3
  <2>4. CASE n \in apart
    <3>1. PICK j \in 1 .. Len(events) : events[j] = arguments(n)
      BY <1>4, <2>1, <2>4
    <3> QED BY <1>2, <1>5, <2>2, <2>4, <3>1
  <2> QED BY <2>3, <2>4
<1>10. Len(events) \in Nat
  BY <1>6, <1>7
<1> QED BY <1>1, <1>8, <1>9, <1>10, ResponsesAreRecorded

-----------------------------------------------------------------------------
(* The catalog cache                                                       *)

\* The types hold initially ...
LEMMA CacheTypesBegin == Cache!Init => Cache!TypeOK
<1> SUFFICES ASSUME Cache!Init PROVE Cache!TypeOK
  OBVIOUS
<1> USE DEF Cache!Init
<1>1. 0 \in Cache!Time
  BY ConstantsAssumption DEF Cache!Sensible, Cache!Time
<1>2. x2 \in [mode : {"absent", "private", "mode0"}, obs : Cache!Time, fet : Cache!Time, invalid : BOOLEAN]
  BY <1>1
<1>3. x5 \in [Session -> {"start"}]
  OBVIOUS
<1> QED BY <1>1, <1>2, <1>3 DEF Cache!TypeOK

\* ... and every step keeps them.
LEMMA CacheTypesStay == Cache!TypeOK /\ [Cache!Next]_(Cache!vars) => Cache!TypeOK'
<1> SUFFICES ASSUME Cache!TypeOK, [Cache!Next]_(Cache!vars) PROVE Cache!TypeOK'
  OBVIOUS
<1> USE DEF Cache!TypeOK, Cache!Goto, Cache!Terminal, Cache!Locking
<1>0. 0 \in Cache!Time
  BY ConstantsAssumption DEF Cache!Sensible, Cache!Time
<1>1. CASE Cache!Tick
  BY <1>1, ConstantsAssumption DEF Cache!Sensible, Cache!Tick, Cache!Time
<1>2. ASSUME NEW p \in Session, Cache!Request(p) PROVE Cache!TypeOK'
  BY <1>2 DEF Cache!Request
<1>3. ASSUME NEW p \in Session, Cache!FetchTemporary(p) PROVE Cache!TypeOK'
  BY <1>0, <1>3 DEF Cache!FetchTemporary
<1>4. ASSUME NEW p \in Session, NEW inv \in BOOLEAN, Cache!FetchAuthoritative(p, inv) PROVE Cache!TypeOK'
  BY <1>4 DEF Cache!FetchAuthoritative
<1>5. ASSUME NEW p \in Session, Cache!Write(p) PROVE Cache!TypeOK'
  <2>1. CASE Cache!AcquireLock(p) BY <2>1 DEF Cache!AcquireLock
  <2>2. CASE Cache!LockFails(p) BY <1>0, <2>2 DEF Cache!LockFails, Cache!Drop
  <2>3. CASE Cache!CompareSkip(p) BY <1>0, <2>3 DEF Cache!CompareSkip, Cache!Drop
  <2>4. CASE Cache!CompareReplace(p) BY <2>4 DEF Cache!CompareReplace
  <2>5. CASE Cache!WriteFails(p) BY <1>0, <2>5 DEF Cache!WriteFails, Cache!Drop
  <2>6. CASE Cache!Rename(p) BY <1>0, <2>6 DEF Cache!Rename, Cache!Drop
  <2>7. CASE Cache!PruneGlob(p) BY <2>7 DEF Cache!PruneGlob, Cache!Present
  <2>8. CASE \E q \in Session : Cache!PruneVisit(p, q) BY <2>8 DEF Cache!PruneVisit
  <2>9. CASE Cache!PruneEnd(p) BY <2>9 DEF Cache!PruneEnd
  <2>10. CASE Cache!Unlock(p) BY <2>10 DEF Cache!Unlock
  <2>11. CASE Cache!BarrierCreate(p) BY <2>11 DEF Cache!BarrierCreate
  <2>12. CASE Cache!BarrierEncode(p) BY <2>12 DEF Cache!BarrierEncode
  <2>13. CASE Cache!BarrierFails(p) BY <2>13 DEF Cache!BarrierFails
  <2>14. CASE Cache!Hide(p) BY <2>14 DEF Cache!Hide
  <2> QED BY <1>5, <2>1, <2>2, <2>3, <2>4, <2>5, <2>6, <2>7, <2>8, <2>9, <2>10,
             <2>11, <2>12, <2>13, <2>14 DEF Cache!Write
<1>6. ASSUME NEW p \in Session, Cache!Read(p) PROVE Cache!TypeOK'
  <2>1. CASE Cache!ReadEntry(p) BY <2>1 DEF Cache!ReadEntry, Cache!Settled, Cache!Closed
  <2>2. CASE Cache!ReadUnusable(p) BY <2>2 DEF Cache!ReadUnusable
  <2>3. CASE Cache!CheckGlob(p) BY <2>3 DEF Cache!CheckGlob, Cache!Present
  <2>4. CASE \E q \in Session : Cache!CheckVisit(p, q) BY <2>4 DEF Cache!CheckVisit
  <2>5. CASE Cache!Serve(p) BY <2>5 DEF Cache!Serve
  <2> QED BY <1>6, <2>1, <2>2, <2>3, <2>4, <2>5 DEF Cache!Read
<1>7. ASSUME NEW p \in Session, Cache!Crash(p) PROVE Cache!TypeOK'
  BY <1>0, <1>7 DEF Cache!Crash, Cache!Drop
<1>8. CASE UNCHANGED Cache!vars
  BY <1>8 DEF Cache!vars
<1> QED
  BY <1>1, <1>2, <1>3, <1>4, <1>5, <1>6, <1>7, <1>8 DEF Cache!Next

\* A step on which nobody hides the file keeps the cache at least as recent.
LEMMA CacheNotOlder ==
  ASSUME Cache!IInv, [Cache!Next]_(Cache!vars), Cache!NoneHidden'
  PROVE  /\ Cache!NoneHidden
         /\ x2'.mode # "mode0"
         /\ Cache!NotOlder
<1> USE DEF Cache!IInv, Cache!TypeOK, Cache!Goto, Cache!Terminal, Cache!Locking, Cache!NoneHidden, Cache!NotOlder, Cache!Time
<1>1. CASE Cache!Tick BY <1>1 DEF Cache!Tick
<1>2. ASSUME NEW p \in Session, Cache!Request(p) \/ Cache!FetchTemporary(p) \/ Cache!Crash(p)
      PROVE  /\ Cache!NoneHidden
             /\ x2' = x2
  BY <1>2 DEF Cache!Request, Cache!FetchTemporary, Cache!Crash
<1>3. ASSUME NEW p \in Session, NEW inv \in BOOLEAN, Cache!FetchAuthoritative(p, inv)
      PROVE  /\ Cache!NoneHidden
             /\ x2' = x2
  BY <1>3 DEF Cache!FetchAuthoritative
<1>4. ASSUME NEW p \in Session, Cache!Read(p)
      PROVE  /\ Cache!NoneHidden
             /\ x2' = x2
  BY <1>4 DEF Cache!Read, Cache!ReadEntry, Cache!ReadUnusable, Cache!CheckGlob, Cache!CheckVisit, Cache!Serve
<1>5. ASSUME NEW p \in Session, Cache!Hide(p) PROVE FALSE
  BY <1>5 DEF Cache!Hide
<1>6. ASSUME NEW p \in Session, Cache!Rename(p)
      PROVE  /\ Cache!NoneHidden
             /\ x2'.mode # "mode0"
             /\ Cache!NotOlder
  <2>1. Cache!NoneHidden BY <1>6 DEF Cache!Rename
  <2> QED BY <1>6, <2>1 DEF Cache!Rename, Cache!CompareHolds, Cache!Newer
<1>7. ASSUME NEW p \in Session, Cache!Write(p), ~Cache!Hide(p), ~Cache!Rename(p)
      PROVE  /\ Cache!NoneHidden
             /\ x2' = x2
  BY <1>7 DEF Cache!Write, Cache!AcquireLock, Cache!LockFails, Cache!CompareSkip, Cache!CompareReplace, Cache!WriteFails,
     Cache!PruneGlob, Cache!PruneVisit, Cache!PruneEnd, Cache!Unlock, Cache!BarrierCreate, Cache!BarrierEncode, Cache!BarrierFails
<1>8. CASE UNCHANGED Cache!vars BY <1>8 DEF Cache!vars
<1> QED
  BY <1>1, <1>2, <1>3, <1>4, <1>5, <1>6, <1>7, <1>8 DEF Cache!Next

\* The lock is exclusive: only the holder is between acquisition and release.
LEMMA LockStaysHeld == ASSUME Cache!IInv, [Cache!Next]_(Cache!vars) PROVE Cache!LockHeld'
<1> USE DEF Cache!IInv, Cache!TypeOK, Cache!LockHeld, Cache!Goto, Cache!Terminal, Cache!Locking
<1>1. CASE Cache!Tick \/ UNCHANGED Cache!vars BY <1>1 DEF Cache!Tick, Cache!vars
<1>2. ASSUME NEW p \in Session, Cache!Request(p) \/ Cache!FetchTemporary(p) \/ Cache!Crash(p) PROVE Cache!LockHeld'
  BY <1>2 DEF Cache!Request, Cache!FetchTemporary, Cache!Crash
<1>3. ASSUME NEW p \in Session, NEW inv \in BOOLEAN, Cache!FetchAuthoritative(p, inv) PROVE Cache!LockHeld'
  BY <1>3 DEF Cache!FetchAuthoritative
<1>4. ASSUME NEW p \in Session, Cache!Read(p) PROVE Cache!LockHeld'
  BY <1>4 DEF Cache!Read, Cache!ReadEntry, Cache!ReadUnusable, Cache!CheckGlob, Cache!CheckVisit, Cache!Serve
<1>5. ASSUME NEW p \in Session, Cache!Write(p) PROVE Cache!LockHeld'
  <2>1. CASE Cache!AcquireLock(p) \/ Cache!LockFails(p) \/ Cache!CompareSkip(p) \/ Cache!CompareReplace(p)
    BY <2>1, ConstantsAssumption DEF Cache!Sensible, Cache!AcquireLock, Cache!LockFails, Cache!CompareSkip, Cache!CompareReplace
  <2>2. CASE Cache!WriteFails(p) \/ Cache!Rename(p) \/ Cache!PruneGlob(p) \/ (\E q \in Session : Cache!PruneVisit(p, q))
    BY <2>2 DEF Cache!WriteFails, Cache!Rename, Cache!PruneGlob, Cache!PruneVisit
  <2>3. CASE Cache!PruneEnd(p) \/ Cache!Unlock(p) \/ Cache!BarrierCreate(p) \/ Cache!BarrierEncode(p) \/ Cache!BarrierFails(p) \/ Cache!Hide(p)
    BY <2>3 DEF Cache!PruneEnd, Cache!Unlock, Cache!BarrierCreate, Cache!BarrierEncode, Cache!BarrierFails, Cache!Hide
  <2> QED BY <1>5, <2>1, <2>2, <2>3 DEF Cache!Write
<1> QED BY <1>1, <1>2, <1>3, <1>4, <1>5 DEF Cache!Next

\* A truncated barrier stays, and a launch that is to see it has not got past it.
LEMMA ClosedStays ==
  ASSUME Cache!IInv, Cache!TypeOK', [Cache!Next]_(Cache!vars) PROVE Cache!ClosedAhead'
<1> USE DEF Cache!IInv, Cache!TypeOK, Cache!ClosedAhead, Cache!Closed, Cache!Settled, Cache!Goto, Cache!Terminal,
        Cache!Locking
<1>1. CASE Cache!Tick \/ UNCHANGED Cache!vars BY <1>1 DEF Cache!Tick, Cache!vars
<1>2. ASSUME NEW p \in Session, Cache!Request(p) \/ Cache!FetchTemporary(p) \/ Cache!Crash(p)
      PROVE  Cache!ClosedAhead'
  <2>1. CASE Cache!Request(p) BY <2>1 DEF Cache!Request
  <2>2. CASE Cache!FetchTemporary(p) BY <2>2 DEF Cache!FetchTemporary
  <2>3. CASE Cache!Crash(p) BY <2>3 DEF Cache!Crash
  <2> QED BY <1>2, <2>1, <2>2, <2>3
<1>3. ASSUME NEW p \in Session, NEW inv \in BOOLEAN, Cache!FetchAuthoritative(p, inv) PROVE Cache!ClosedAhead'
  BY <1>3 DEF Cache!FetchAuthoritative
<1>4. ASSUME NEW p \in Session, Cache!Read(p) PROVE Cache!ClosedAhead'
  <2>1. CASE Cache!ReadEntry(p) BY <2>1 DEF Cache!ReadEntry
  <2>2. CASE Cache!ReadUnusable(p) BY <2>2 DEF Cache!ReadUnusable
  <2>3. CASE Cache!CheckGlob(p)
    <3>1. UNCHANGED <<x4, x11>>
      BY <2>3 DEF Cache!CheckGlob
    <3>2. PICK to \in {"failed", "visit"} : Cache!Goto(p, "glob", to)
      BY <2>3, Zenon DEF Cache!CheckGlob
    <3>3. x9' = [x9 EXCEPT ![p] = Cache!Present]
      BY <2>3 DEF Cache!CheckGlob
    <3> QED BY <3>1, <3>2, <3>3 DEF Cache!Present
  <2>4. CASE \E q \in Session : Cache!CheckVisit(p, q) BY <2>4 DEF Cache!CheckVisit, Cache!Refuses
  <2>5. CASE Cache!Serve(p) BY <2>5 DEF Cache!Serve
  <2> QED BY <1>4, <2>1, <2>2, <2>3, <2>4, <2>5 DEF Cache!Read
<1>5. ASSUME NEW p \in Session, Cache!Write(p) PROVE Cache!ClosedAhead'
  <2>1. CASE Cache!AcquireLock(p) BY <2>1 DEF Cache!AcquireLock
  <2>2. CASE Cache!LockFails(p) BY <2>2 DEF Cache!LockFails
  <2>3. CASE Cache!CompareSkip(p) BY <2>3 DEF Cache!CompareSkip
  <2>4. CASE Cache!CompareReplace(p) BY <2>4 DEF Cache!CompareReplace
  <2>5. CASE Cache!WriteFails(p) BY <2>5 DEF Cache!WriteFails
  <2>6. CASE Cache!Rename(p) BY <2>6 DEF Cache!Rename
  <2>7. CASE Cache!PruneGlob(p) BY <2>7 DEF Cache!PruneGlob
  <2>8. CASE \E q \in Session : Cache!PruneVisit(p, q) BY <2>8 DEF Cache!PruneVisit
  <2>9. CASE Cache!PruneEnd(p) BY <2>9 DEF Cache!PruneEnd
  <2>10. CASE Cache!Unlock(p) BY <2>10 DEF Cache!Unlock
  <2>11. CASE Cache!BarrierCreate(p) BY <2>11 DEF Cache!BarrierCreate
  <2>12. CASE Cache!BarrierEncode(p) BY <2>12 DEF Cache!BarrierEncode
  <2>13. CASE Cache!BarrierFails(p) BY <2>13 DEF Cache!BarrierFails
  <2>14. CASE Cache!Hide(p) BY <2>14 DEF Cache!Hide
  <2> QED BY <1>5, <2>1, <2>2, <2>3, <2>4, <2>5, <2>6, <2>7, <2>8, <2>9, <2>10,
             <2>11, <2>12, <2>13, <2>14 DEF Cache!Write
<1> QED BY <1>1, <1>2, <1>3, <1>4, <1>5 DEF Cache!Next

\* What a step keeps while nobody hides the file.
LEMMA CacheKept ==
  ASSUME Cache!IInv, Cache!TypeOK', [Cache!Next]_(Cache!vars), Cache!NoneHidden'
  PROVE  Cache!CompareHolds' /\ Cache!StoreKept' /\ Cache!BarrierKept' /\ Cache!ReaderSound'
<1> DEFINE Kept == Cache!CompareHolds /\ Cache!StoreKept /\ Cache!BarrierKept /\ Cache!ReaderSound
<1>0. /\ Cache!NoneHidden
      /\ Cache!NotOlder
  BY CacheNotOlder
<1> SUFFICES Kept'
  OBVIOUS
<1> USE <1>0 DEF Cache!IInv, Cache!TypeOK, Cache!Goto, Cache!Terminal, Cache!Locking, Cache!CompareHolds, Cache!StoreKept, Cache!BarrierKept,
      Cache!ReaderSound, Cache!ClosedAhead, Cache!Closed, Cache!AtLeast, Cache!Newer, Cache!Settled,
      Cache!NotOlder, Cache!Time
<1>1. CASE Cache!Tick \/ UNCHANGED Cache!vars BY <1>1 DEF Cache!Tick, Cache!vars
<1>2. ASSUME NEW p \in Session, Cache!Request(p) PROVE Kept'
  BY <1>2 DEF Cache!Request
<1>3. ASSUME NEW p \in Session, Cache!FetchTemporary(p) \/ Cache!Crash(p) PROVE Kept'
  BY <1>3 DEF Cache!FetchTemporary, Cache!Crash
<1>4. ASSUME NEW p \in Session, NEW inv \in BOOLEAN, Cache!FetchAuthoritative(p, inv) PROVE Kept'
  BY <1>4 DEF Cache!FetchAuthoritative
<1>5. ASSUME NEW p \in Session, Cache!Read(p) PROVE Kept'
  <2>1. CASE Cache!ReadEntry(p) BY <2>1 DEF Cache!ReadEntry, Cache!Usable
  <2>2. CASE Cache!ReadUnusable(p) BY <2>2 DEF Cache!ReadUnusable
  <2>3. CASE Cache!CheckGlob(p)
    <3>1. UNCHANGED <<x2, x4, x6, x10, x11>>
      BY <2>3 DEF Cache!CheckGlob
    <3>2. PICK to \in {"failed", "visit"} : Cache!Goto(p, "glob", to)
      BY <2>3, Zenon DEF Cache!CheckGlob
    <3>3. x9' = [x9 EXCEPT ![p] = Cache!Present]
      BY <2>3 DEF Cache!CheckGlob
    <3> QED BY <3>1, <3>2, <3>3 DEF Cache!Present
  <2>4. CASE \E q \in Session : Cache!CheckVisit(p, q) BY <2>4 DEF Cache!CheckVisit, Cache!Refuses
  <2>5. CASE Cache!Serve(p) BY <2>5 DEF Cache!Serve
  <2> QED BY <1>5, <2>1, <2>2, <2>3, <2>4, <2>5 DEF Cache!Read
<1>6. ASSUME NEW p \in Session, Cache!Write(p) PROVE Kept'
  <2>1. CASE Cache!AcquireLock(p) BY <2>1 DEF Cache!AcquireLock
  <2>2. CASE Cache!LockFails(p) BY <2>2 DEF Cache!LockFails
  <2>3. CASE Cache!CompareSkip(p) BY <2>3 DEF Cache!CompareSkip
  <2>4. CASE Cache!CompareReplace(p) BY <2>4 DEF Cache!CompareReplace
  <2>5. CASE Cache!WriteFails(p) BY <2>5 DEF Cache!WriteFails
  <2>6. CASE Cache!Rename(p) BY <2>6 DEF Cache!Rename, Cache!LockHeld
  <2>7. CASE Cache!PruneGlob(p) BY <2>7 DEF Cache!PruneGlob
  <2>8. CASE \E q \in Session : Cache!PruneVisit(p, q) BY <2>8 DEF Cache!PruneVisit
  <2>9. CASE Cache!PruneEnd(p) BY <2>9 DEF Cache!PruneEnd
  <2>10. CASE Cache!Unlock(p) BY <2>10 DEF Cache!Unlock
  <2>11. CASE Cache!BarrierCreate(p) BY <2>11 DEF Cache!BarrierCreate
  <2>12. CASE Cache!BarrierEncode(p) BY <2>12 DEF Cache!BarrierEncode
  <2>13. CASE Cache!BarrierFails(p) BY <2>13 DEF Cache!BarrierFails
  <2>14. CASE Cache!Hide(p) BY <2>14 DEF Cache!Hide, Cache!NoneHidden
  <2> QED BY <1>6, <2>1, <2>2, <2>3, <2>4, <2>5, <2>6, <2>7, <2>8, <2>9, <2>10,
             <2>11, <2>12, <2>13, <2>14 DEF Cache!Write
<1> QED BY <1>1, <1>2, <1>3, <1>4, <1>5, <1>6 DEF Cache!Next

\* The inductive invariant of the cache holds at first, and each step keeps it.
LEMMA CacheBegins == Cache!Init => Cache!IInv
<1> SUFFICES ASSUME Cache!Init PROVE Cache!IInv
  OBVIOUS
<1>1. Cache!TypeOK
  BY CacheTypesBegin
<1> QED BY <1>1 DEF Cache!IInv, Cache!Init, Cache!LockHeld, Cache!CompareHolds, Cache!StoreKept,
           Cache!BarrierKept, Cache!ReaderSound, Cache!ClosedAhead, Cache!Locking

LEMMA CacheContinues == ASSUME Cache!IInv, [Cache!Next]_(Cache!vars) PROVE Cache!IInv'
<1>1. Cache!TypeOK'
  BY CacheTypesStay DEF Cache!IInv
<1>2. Cache!LockHeld' /\ Cache!ClosedAhead'
  BY <1>1, LockStaysHeld, ClosedStays
<1>3. ASSUME Cache!NoneHidden'
      PROVE  /\ x2'.mode # "mode0" /\ Cache!CompareHolds'
             /\ Cache!StoreKept' /\ Cache!BarrierKept' /\ Cache!ReaderSound'
  BY <1>1, <1>3, CacheNotOlder, CacheKept
<1> QED BY <1>1, <1>2, <1>3 DEF Cache!IInv

\* What was persisted stays, in the file or in a barrier; cached models in use are as
\* recent as all that was stored before they were read.
LEMMA CacheIsRecent == ASSUME Cache!IInv PROVE Cache!ObservationKept /\ Cache!ServedIsRecent
<1>1. Cache!ObservationKept
  BY DEF Cache!IInv, Cache!ObservationKept, Cache!StoreKept, Cache!BarrierKept, Cache!AtLeast, Cache!Settled
<1>2. Cache!ServedReflectsStores
  BY DEF Cache!IInv, Cache!ServedReflectsStores, Cache!ReaderSound
<1>3. Cache!ServedReflectsBarriers
  BY DEF Cache!IInv, Cache!ServedReflectsBarriers, Cache!ReaderSound, Cache!AtLeast
<1>4. Cache!ServedReflectsTruncated
  BY DEF Cache!IInv, Cache!ServedReflectsTruncated, Cache!ClosedAhead
<1> QED BY <1>1, <1>2, <1>3, <1>4 DEF Cache!ServedIsRecent

-----------------------------------------------------------------------------
(* The machine                                                             *)

\* A part without a state keeps what it was given.
InputsFit ==
  /\ part = "routing" => input \in Routing!Requests
  /\ part = "tools" => input \in Tools!Halves
  /\ part = "tokens" => input \in Tokens!Reports
  /\ part = "limits" => input \in Tokens!Windows
  /\ part = "failures" => input \in Errors!Reports
  /\ part = "environment" => input \in Environment!Environments \X BOOLEAN
  /\ part = "keychain" => input \in Environment!Commands
  /\ part = "choice" => input \in Choice!Catalogs \X Choice!PinSets
  /\ part = "effort" => input \in (SUBSET Choice!Efforts) \ {{}}
  /\ part = "launches" => input \in Choice!Launches
  /\ part = "lines" => input \in Choice!StatusLines
  /\ part = "flags" => input \in Flags!CommandLines \X Flags!Bases
  /\ part = "trace" => input \in Trace!Responses

MInv ==
  /\ InputsFit
  /\ part = "borrow" => Borrow!IInv
  /\ part = "update" => Update!IInv
  /\ part = "mirror" => Mirror!IInv
  /\ part = "release" => ReleaseInv
  /\ part = "browser" => BrowserInv
  /\ part = "http" => HTTPInv
  /\ part = "sources" => SourcesInv
  /\ part = "default" => DefaultInv
  /\ part = "start" => LaunchInv
  /\ part = "proxy" => ProxyInv
  /\ part = "cache" => Cache!IInv

LEMMA MachineBegins == Init => MInv
<1>1. SUFFICES ASSUME Init PROVE MInv
  OBVIOUS
<1>2. ASSUME part = "borrow" PROVE Borrow!IInv
  <2>1. Borrow!Init
    BY <1>1, <1>2 DEF Init
  <2> QED BY <2>1, ConstantsAssumption, Borrow!Begins
<1>3. ASSUME part = "update" PROVE Update!IInv
  <2>1. Update!Init
    BY <1>1, <1>3 DEF Init
  <2> QED BY <2>1, ConstantsAssumption, Update!Begins
<1>4. ASSUME part = "release" PROVE ReleaseInv
  <2>1. Releases!Init
    BY <1>1, <1>4 DEF Init
  <2> QED BY <2>1, ReleaseBegins
<1>5. ASSUME part = "browser" PROVE BrowserInv
  <2>1. Browser!Init
    BY <1>1, <1>5 DEF Init
  <2> QED BY <2>1, BrowserBegins
<1>6. ASSUME part = "http" PROVE HTTPInv
  <2>1. HTTP!Init
    BY <1>1, <1>6 DEF Init
  <2> QED BY <2>1, HTTPBegins
<1>7. ASSUME part = "sources" PROVE SourcesInv
  <2>1. Sources!Init
    BY <1>1, <1>7 DEF Init
  <2> QED BY <2>1, SourcesBegin
<1>8. ASSUME part = "mirror" PROVE Mirror!IInv
  <2>1. Mirror!Init
    BY <1>1, <1>8 DEF Init
  <2> QED BY <2>1, Mirror!Begins
<1>9. ASSUME part = "default" PROVE DefaultInv
  <2>1. Default!Init
    BY <1>1, <1>9 DEF Init
  <2> QED BY <2>1, DefaultBegins
<1>10. ASSUME part = "start" PROVE LaunchInv
  <2>1. Start!Init
    BY <1>1, <1>10 DEF Init
  <2> QED BY <2>1, LaunchBegins
<1>11. ASSUME part = "proxy" PROVE ProxyInv
  <2>1. Proxy!Init
    BY <1>1, <1>11 DEF Init
  <2> QED BY <2>1, ProxyBegins
<1>12. ASSUME part = "cache" PROVE Cache!IInv
  <2>1. Cache!Init
    BY <1>1, <1>12 DEF Init
  <2> QED BY <2>1, CacheBegins
<1>13. InputsFit
  BY <1>1 DEF Init, InputsFit, Stateful
<1> QED BY <1>2, <1>3, <1>4, <1>5, <1>6, <1>7, <1>8, <1>9, <1>10, <1>11, <1>12, <1>13 DEF MInv

\* A behaviour stays with its part, and the part takes the steps of its module.
LEMMA MachineContinues == MInv /\ [Next]_all => MInv'
<1>1. SUFFICES ASSUME MInv, [Next]_all PROVE MInv'
  OBVIOUS
<1>2. part' = part
  BY <1>1 DEF Next, all
<1>3. ASSUME part = "borrow" PROVE Borrow!IInv'
  <2>1. [Borrow!Next]_(Borrow!vars)
    BY <1>1, <1>3 DEF Next, all, after0, after4, after5, after6, after7, after8, after11, Borrow!vars
  <2>2. Borrow!IInv
    BY <1>1, <1>3 DEF MInv
  <2> QED BY <2>1, <2>2, ConstantsAssumption, Borrow!Continues
<1>4. ASSUME part = "update" PROVE Update!IInv'
  <2>1. [Update!Next]_(Update!vars)
    BY <1>1, <1>4 DEF Next, all, after0, after4, after5, after6, after7, Update!vars
  <2>2. Update!IInv
    BY <1>1, <1>4 DEF MInv
  <2> QED BY <2>1, <2>2, ConstantsAssumption, Update!Continues
<1>5. ASSUME part = "release" PROVE ReleaseInv'
  <2>1. [Releases!Next]_(Releases!vars)
    BY <1>1, <1>5 DEF Next, all, after0, after4, Releases!vars
  <2>2. ReleaseInv
    BY <1>1, <1>5 DEF MInv
  <2> QED BY <2>1, <2>2, ReleaseContinues
<1>6. ASSUME part = "browser" PROVE BrowserInv'
  <2>1. [Browser!Next]_(Browser!vars)
    BY <1>1, <1>6 DEF Next, all, after0, after4, after5, Browser!vars
  <2>2. BrowserInv
    BY <1>1, <1>6 DEF MInv
  <2> QED BY <2>1, <2>2, BrowserContinues
<1>7. ASSUME part = "http" PROVE HTTPInv'
  <2>1. [HTTP!Next]_(HTTP!vars)
    BY <1>1, <1>7 DEF Next, all, after0, after4, after5, after6, after7, HTTP!vars
  <2>2. HTTPInv
    BY <1>1, <1>7 DEF MInv
  <2> QED BY <2>1, <2>2, HTTPContinues
<1>8. ASSUME part = "sources" PROVE SourcesInv'
  <2>1. [Sources!Next]_(Sources!vars)
    BY <1>1, <1>8 DEF Next, all, after0, after4, after5, after6, Sources!vars
  <2>2. SourcesInv
    BY <1>1, <1>8 DEF MInv
  <2> QED BY <2>1, <2>2, SourcesContinue
<1>9. ASSUME part = "mirror" PROVE Mirror!IInv'
  <2>1. [Mirror!Next]_(Mirror!vars)
    BY <1>1, <1>9 DEF Next, all, after0, after4, after5, after6, after7, Mirror!vars
  <2>2. Mirror!IInv
    BY <1>1, <1>9 DEF MInv
  <2> QED BY <2>1, <2>2, ConstantsAssumption, Mirror!Continues
<1>10. ASSUME part = "default" PROVE DefaultInv'
  <2>1. [Default!Next]_(Default!vars)
    BY <1>1, <1>10 DEF Next, all, after0, after4, Default!vars
  <2>2. DefaultInv
    BY <1>1, <1>10 DEF MInv
  <2> QED BY <2>1, <2>2, DefaultContinues
<1>11. ASSUME part = "start" PROVE LaunchInv'
  <2>1. [Start!Next]_(Start!vars)
    BY <1>1, <1>11 DEF Next, all, after0, Start!vars
  <2>2. LaunchInv
    BY <1>1, <1>11 DEF MInv
  <2> QED BY <2>1, <2>2, LaunchContinues
<1>12. ASSUME part = "proxy" PROVE ProxyInv'
  <2>1. [Proxy!Next]_(Proxy!vars)
    BY <1>1, <1>12 DEF Next, all, after0, after4, Proxy!vars
  <2>2. ProxyInv
    BY <1>1, <1>12 DEF MInv
  <2> QED BY <2>1, <2>2, ProxyContinues
<1>13. ASSUME part = "cache" PROVE Cache!IInv'
  <2>1. [Cache!Next]_(Cache!vars)
    BY <1>1, <1>13 DEF Next, all, after0, after4, after5, after6, after7, after8, Cache!vars
  <2>2. Cache!IInv
    BY <1>1, <1>13 DEF MInv
  <2> QED BY <2>1, <2>2, CacheContinues
<1>14. InputsFit'
  <2>1. input' = input
    BY <1>1 DEF Next, all
  <2> QED BY <1>1, <1>2, <2>1 DEF MInv, InputsFit
<1> QED BY <1>2, <1>3, <1>4, <1>5, <1>6, <1>7, <1>8, <1>9, <1>10, <1>11, <1>12, <1>13, <1>14 DEF MInv

\* The strengthened invariants of the eleven parts hold in the machine, whatever
\* the constants are.
THEOREM Invariant == Spec => []MInv
BY MachineBegins, MachineContinues, PTL DEF Spec

\* A process runs only programs that its user has accepted and that were
\* verified for it, and a release is of one piece (selfupdate, clx-release).
THEOREM UpdatesAndReleases == Spec => []UpdatesAreAccepted
<1>1. MInv => UpdatesAreAccepted
  <2>1. ASSUME MInv, part = "update" PROVE Update!OnlyAcceptedRuns /\ Update!HandoffFitsOnce
    BY <2>1
    DEF MInv, Update!IInv, Update!Good, Update!Accepted, Update!Handed, Update!OnlyAcceptedRuns,
        Update!HandoffFitsOnce
  <2>2. ASSUME MInv, part = "release" PROVE Releases!WrittenOnce /\ Releases!OnePiece
    BY <2>2, ReleasesFit DEF MInv
  <2> QED BY <2>1, <2>2 DEF UpdatesAreAccepted
<1> QED BY <1>1, Invariant, PTL

\* A process that borrows Codex's login keeps to one account, and a login in the
\* browser to its own code and port (auth/provider.go, auth/oauth.go).
THEOREM AccountsAndLogins == Spec => []OneAccount
<1>1. MInv => OneAccount
  <2>1. ASSUME MInv, part = "borrow" PROVE Borrow!OneAccount
    BY <2>1, ConstantsAssumption, Borrow!OneOfThem DEF MInv
  <2>2. ASSUME MInv, part = "browser" PROVE Browser!LoginsAreApart
    BY <2>2, BrowserApart DEF MInv
  <2> QED BY <2>1, <2>2 DEF OneAccount
<1> QED BY <1>1, Invariant, PTL

\* After a logout nothing borrowed is given out, and no token that was refused
\* (auth/provider.go).
THEOREM BorrowedLoginsEnd == Spec => []BorrowingEnds
<1>1. MInv => BorrowingEnds
  BY DEF MInv, BorrowingEnds, Borrow!IInv, Borrow!Safe
<1> QED BY <1>1, Invariant, PTL

\* An answer whose headers came in time is not broken off by a timer, and no
\* request is left without a caller (codex/client.go).
THEOREM AnswersComeWhole == Spec => []ResponsesAreNotCutOff
<1>1. MInv => ResponsesAreNotCutOff
  BY CallsAreServed DEF MInv, ResponsesAreNotCutOff
<1> QED BY <1>1, Invariant, PTL

\* A borrowed login and the cookies of ChatGPT go only where they belong, through
\* redirects and the workspace's own address, and what Claude Code asks of
\* Anthropic is answered here if and only if it can be: for every method and
\* every path the two tables of routes agree (codex/workspace.go,
\* codex/credential_destination.go, codex/routing_cookies.go, oauth_proxy.go).
THEOREM CredentialsStayHome == Spec => []RequestsGoHome
<1>1. MInv => RequestsGoHome
  <2>1. ASSUME MInv, part = "http" PROVE HTTP!RequestsGoHome
    BY <2>1, CallsAreServed DEF MInv
  <2>2. ASSUME MInv, part = "proxy" PROVE Proxy!AnswersFit
    BY <2>2, AnswersAlwaysFit DEF MInv
  <2> QED BY <2>1, <2>2, TablesAlwaysAgree DEF RequestsGoHome
<1> QED BY <1>1, Invariant, PTL

\* While Claude Code runs, all that it was given is there, for the account whose
\* models it was shown, and a process that ends leaves nothing; and Claude Code
\* and the tools it starts each have their own environment, whatever of the
\* modelled variables and NO_PROXY entries the user has set (launcher/launcher.go, env.go, sidecar.go).
THEOREM ClaudeIsAlwaysServed == Spec => []ClaudeIsServed
<1>1. MInv => ClaudeIsServed
  <2>1. ASSUME MInv, part = "start" PROVE Start!ClaudeIsServed
    BY <2>1, ClaudeHasAll DEF MInv
  <2>2. ASSUME MInv, part = "environment" PROVE Environment!EnvironmentsAreApart(input[1], input[2])
    <3>1. input[1] \in Environment!Environments /\ input[2] \in BOOLEAN
      BY <2>2 DEF MInv, InputsFit
    <3> QED BY <3>1, EnvironmentsAreUntouched, EnvironmentsStayApart
  <2>3. ASSUME MInv, part = "keychain" PROVE Environment!KeychainIsTheUsers(input)
    <3>1. input.operation \in Environment!Operations /\ input.interactive \in BOOLEAN
      BY <2>3 DEF MInv, InputsFit, Environment!Commands
    <3> QED BY <3>1, KeychainStaysTheUsers
  <2> QED BY <2>1, <2>2, <2>3 DEF ClaudeIsServed
<1> QED BY <1>1, Invariant, PTL

\* A request takes up what another has left behind only if both come from the
\* same speaker and belong to its conversation (convert/request.go).
THEOREM WorkersStayApart == Spec => []WorkersAreApart
<1>1. MInv => WorkersAreApart
  BY ConversationsAreApart DEF MInv, InputsFit, WorkersAreApart
<1> QED BY <1>1, Invariant, PTL

\* Exactly the empty arguments that some valid object does without are removed
\* from a call, for any schemas (convert/request.go, convert/stream.go).
THEOREM NeededArgumentsStay == Spec => []NeededArgumentsSurvive
<1>1. MInv => NeededArgumentsSurvive
  BY NeededAlwaysSurvive DEF MInv, InputsFit, NeededArgumentsSurvive
<1> QED BY <1>1, Invariant, PTL

\* What Claude Code is told of tokens and limits adds up, with any numbers, and
\* of failures it is told what they are, with any delays (convert/stream.go,
\* ratelimit/snapshot.go, proxy/errors.go).
THEOREM AllIsToldAsItIs == Spec => []ToldAsItIs
<1>1. MInv => ToldAsItIs
  <2>1. ASSUME MInv, part = "tokens" PROVE Tokens!CountOnce(input) /\ Tokens!ContextGrows(input)
    <3>1. input \in Counts
      BY <2>1 DEF MInv, InputsFit, Tokens!Reports, Counts
    <3> QED BY <3>1, UsageIsKnown, StartsGrow DEF Tokens!ContextGrows
  <2>2. ASSUME MInv, part = "limits" PROVE Tokens!LimitsAgree(input)
    <3>1. Tokens!Windows \subseteq AnyWindows
      BY DEF Tokens!Windows, Tokens!Minutes, Tokens!NoWindow, AnyWindows
    <3>2. input \in AnyWindows
      BY <2>2, <3>1 DEF MInv, InputsFit
    <3> QED BY <3>1, <3>2, WindowsAgree DEF Tokens!LimitsAgree
  <2>3. ASSUME MInv, part = "failures" PROVE Errors!FailuresAreTold(input)
    <3>1. input \in AnyReports /\ Errors!Tells(input)
      BY <2>3 DEF MInv, InputsFit, Errors!Reports, AnyReports, Delays, Errors!Unset
    <3> QED BY <3>1, FailuresAlwaysTold
  <2> QED BY <2>1, <2>2, <2>3 DEF ToldAsItIs
<1> QED BY <1>1, Invariant, PTL

\* Once the mirrors of all running sessions have read what was saved, the default
\* is the model saved last, or one put into settings.json after it, and no name
\* that only Codex knows stays there after the last session; of model, effort and
\* status line what the user chose is in force behind all that a launch adds; and
\* a command line of any length is read as if every flag of it were looked at on
\* its own (launcher/sidecar_mirror.go, args.go, statusline.go, model_flags.go).
THEOREM ChoicesAlwaysStand == Spec => []LastChoiceStands
<1>1. MInv => LastChoiceStands
  <2>1. ASSUME MInv, part = "default" PROVE Default!LastChoiceStands
    BY <2>1, DefaultStands DEF MInv
  <2>2. ASSUME MInv, part = "flags" PROVE Flags!FlagsAreUnderstood(input[1], input[2])
    <3>1. input[1] \in Flags!CommandLines
      BY <2>2 DEF MInv, InputsFit
    <3> QED BY <3>1, CommandLinesAreLines, FlagsStay
  <2>3. ASSUME MInv, part = "launches" PROVE Choice!ChoicesAreKept(input)
    BY <2>3, ChoicesStay DEF MInv, InputsFit
  <2>4. ASSUME MInv, part = "lines" PROVE Choice!StatusLineIsTheUsers(input)
    BY <2>4, LinesStay DEF MInv, InputsFit
  <2> QED BY <2>1, <2>2, <2>3, <2>4 DEF LastChoiceStands
<1> QED BY <1>1, Invariant, PTL

\* Every name of a request gets a model that is offered and serves it, a worker
\* the model it was named, a limit that its window allows; a name asks for no
\* more room than its model has; and who asks for more effort does not get less,
\* of whatever levels a model has (modelcatalog/resolve.go, compaction.go).
THEOREM ModelsStayRight == Spec => []ModelsAreRight
<1>1. MInv => ModelsAreRight
  <2>1. ASSUME MInv, part = "choice"
        PROVE  /\ Choice!ResolvedModelsServe(input[1], input[2])
               /\ Choice!WorkersGetTheirModel(input[1], input[2])
               /\ Choice!WindowsFit(input[1], input[2])
               /\ Choice!RoomIsReal(input[1], input[2])
    <3>1. input[1] \in Choice!Catalogs
      BY <2>1 DEF MInv, InputsFit
    <3> DEFINE models == input[1]
               pins == input[2]
    <3> HIDE DEF models, pins
    <3>2. models \in Choice!Catalogs
      BY <3>1 DEF models
    <3>3. Choice!ResolvedModelsServe(models, pins)
      BY <3>2, ResolvedServe
    <3>4. Choice!WorkersGetTheirModel(models, pins)
      BY <3>2, WorkersAreServed
    <3>5. Choice!WindowsFit(models, pins)
      BY <3>2, CompactionFits
    <3>6. Choice!RoomIsReal(models, pins)
      BY <3>2, RoomsAreReal
    <3> QED BY <3>3, <3>4, <3>5, <3>6 DEF models, pins
  <2>2. ASSUME MInv, part = "effort" PROVE Choice!MoreIsNotLess(input)
    <3>1. input \in SUBSET Choice!Efforts /\ input # {}
      BY <2>2 DEF MInv, InputsFit
    <3> QED BY <3>1, MoreIsNeverLess
  <2> QED BY <2>1, <2>2 DEF ModelsAreRight
<1> QED BY <1>1, Invariant, PTL

\* The files that a living launch has selected stay whatever other launches do,
\* and the newest build that was ever kept remains (launcher/claude_verified.go).
THEOREM SelectedCopiesStay == Spec => []SelectedFilesStay
<1>1. MInv => SelectedFilesStay
  BY FilesStay DEF MInv, SelectedFilesStay
<1> QED BY <1>1, Invariant, PTL

\* A change of a setting that nothing interferes with is not undone by any merge
\* and reaches every file; logins and limits stay in the file they are in
\* (launcher/sidecar_mirror.go).
THEOREM ConfigurationStays == Spec => []ConfigurationIsKept
<1>1. MInv => ConfigurationIsKept
  <2>1. ASSUME MInv, part = "mirror" PROVE Mirror!LoneChangesSurvive /\ Mirror!ProtectedKeysStay
    BY <2>1, Mirror!Survival DEF MInv
  <2> QED BY <2>1 DEF ConfigurationIsKept
<1> QED BY <1>1, Invariant, PTL

\* The items of a response are recorded in the order of the response and with their
\* arguments, each once, in whatever order the events come (proxy/chain.go).
THEOREM RecordedStaysInOrder == Spec => []RecordedInOrder
<1>1. MInv => RecordedInOrder
  BY AllInOrder DEF MInv, InputsFit, RecordedInOrder
<1> QED BY <1>1, Invariant, PTL

\* A persisted observation stays, in the file or in a barrier (modelcatalog/load.go).
THEOREM ObservationsStay == Spec => []ObservationsAreKept
<1>1. MInv => ObservationsAreKept
  BY CacheIsRecent DEF MInv, ObservationsAreKept
<1> QED BY <1>1, Invariant, PTL

\* Cached models in use reflect every store that came before the read, and every
\* barrier that was not pruned since (modelcatalog/load.go).
THEOREM ServedModelsAreRecent == Spec => []ServedIsRecent
<1>1. MInv => ServedIsRecent
  BY CacheIsRecent DEF MInv, ServedIsRecent
<1> QED BY <1>1, Invariant, PTL

\* The cache file never gets older (modelcatalog/load.go).
THEOREM CacheIsNeverOlder == Spec => CacheNeverOlder
<1>1. MInv /\ [Next]_all => [part = "cache" /\ Cache!NoneHidden' => Cache!NotOlder]_all
  <2>1. SUFFICES ASSUME MInv, [Next]_all, part = "cache", Cache!NoneHidden' PROVE Cache!NotOlder
    OBVIOUS
  <2>2. [Cache!Next]_(Cache!vars)
    BY <2>1 DEF Next, all, after0, after4, after5, after6, after7, after8, Cache!vars
  <2>3. Cache!IInv
    BY <2>1 DEF MInv
  <2> QED BY <2>1, <2>2, <2>3, CacheNotOlder
<1> QED BY <1>1, Invariant, PTL DEF Spec, CacheNeverOlder

=============================================================================
