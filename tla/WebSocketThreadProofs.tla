------------------------ MODULE WebSocketThreadProofs ------------------------
(***************************************************************************)
(* For any requests with any budgets: the streams of a thread own their    *)
(* connections, no connection is shared or left open by everybody, and a   *)
(* handler receives only what answers its own request.                     *)
(***************************************************************************)
EXTENDS WebSocketThread, TLAPS, FiniteSetTheorems

Holding == {"reading", "writing", "closing", "unlocking"}

-----------------------------------------------------------------------------
\* What a handler does once the conversation is closed.
Plans == { <<"refused">>, <<"http">>, <<"again">>, <<"create">>, <<"done">>,
           <<"prefer", "refused">>, <<"prefer", "http">>, <<"close", "create">> }
Retiring == {"close", "prefer", "closing"}

\* A handler that has answered its client: its record is that of a new one.
Over(r) == req[r].pc \in {"done", "returned"} \/ req[r].after = <<"done">>

\* The place of a handler tells what it knows; a message at hand is one.
Placed(r, h) ==
  /\ h.pc \in Retiring <=> h.after \in Plans
  /\ h.pc \notin Retiring => h.after = <<>>
  /\ h.pc \in {"lock", "locked", "write"} => h.conv \in Id
  /\ h.pc = "streaming" => h.try \in 1..Budget[r]
  /\ h.try =< Budget[r]
Said(x) == x.stream = "writing" => x.kind.what \in Messages /\ x.kind.for \in Exchange
Places ==
  /\ \A r \in Request : Placed(r, req[r])
  /\ \A e \in Exchange : Said(ex[e])

TInv == TypeOK /\ Places

\* Exchanges to come have no stream yet.
ToCome ==
  \A r \in Request : ~Over(r) =>
    \A n \in 1..Budget[r] : n > req[r].try => ex[<<r, n>>].stream = "off"

\* The mutex of a conversation and the one that holds it know each other.
HandlerHolds ==
  \A r \in Request, c \in Id :
    mu[c] = <<r>> <=> req[r].pc \in {"locked", "write"} /\ req[r].conv = c
StreamHolds ==
  /\ \A e \in Exchange, c \in Id : mu[c] = e => ex[e].stream \in Holding
  /\ \A e \in Exchange, c \in Id, d \in Id : mu[c] = e /\ mu[d] = e => c = d

LInv == ToCome /\ HandlerHolds /\ StreamHolds

\* A connection belongs to one conversation, which has it open.
OneConversation == \A c \in Id, d \in Id : wconn[c] = wconn[d] /\ wconn[c] # 0 => c = d
OpenIsHeld == \A k \in Id : open[k] => \E c \in Id : wconn[c] = k
WriterConnected == \A r \in Request : req[r].pc = "write" => wconn[req[r].conv] \in Id
ReaderConnected == \A e \in Exchange : Active(e) => ex[e].link \in Id

CInv ==
  OneConversation /\ OpenIsHeld /\ WriterConnected /\ ReaderConnected /\ StreamOwnsConnection

\* The upstream owes at most one answer on a connection, to the stream that
\* reads it and has not yet read the end of it.
OwesItsReader ==
  \A k \in Id : answering[k] # <<>> =>
    /\ open[k]
    /\ \E e \in Exchange : /\ answering[k] = <<e>> /\ Active(e) /\ ex[e].link = k
                           /\ ex[e].stream = "writing" => ex[e].kind.what = "event"
ReadsItsOwn == \A e \in Exchange : ex[e].stream = "writing" => ex[e].kind.for = e

AInv == OwesItsReader /\ ReadsItsOwn /\ NoCrossTalk

IInv == TInv /\ LInv /\ CInv /\ AInv

-----------------------------------------------------------------------------
(* Names, holders of a mutex and plans                                     *)

LEMMA Names ==
  /\ \A e \in Exchange : /\ e[1] \in Request /\ e[2] \in 1..Budget[e[1]]
                         /\ e = <<e[1], e[2]>> /\ e # <<>>
  /\ \A e \in Exchange, r \in Request : e # <<r>>
  /\ \A r \in Request : <<r>> # <<>>
  /\ \A r \in Request, s \in Request : <<r>> = <<s>> => r = s
  /\ \A r \in Request : \A n \in 1..Budget[r] : <<r, n>> \in Exchange
<1>1. ASSUME NEW e \in Exchange
      PROVE  \E r \in Request : \E n \in 1..Budget[r] : e = <<r, n>>
  BY DEF Exchange
<1>2. \A e \in Exchange : /\ e[1] \in Request /\ e[2] \in 1..Budget[e[1]]
                         /\ e = <<e[1], e[2]>>
  BY <1>1
<1>3. \A r, n : Len(<<r, n>>) = 2 /\ Len(<<r>>) = 1 /\ Len(<<>>) = 0
  OBVIOUS
<1>4. \A r, s : <<r>> = <<s>> => r = s
  OBVIOUS
<1>5. \A r \in Request : \A n \in 1..Budget[r] : <<r, n>> \in Exchange
  BY DEF Exchange
<1>6. \A e \in Exchange : Len(e) = 2
  BY <1>1, <1>3
<1> QED BY <1>2, <1>3, <1>4, <1>5, <1>6

LEMMA PlanType ==
  ASSUME NEW p \in Plans
  PROVE  /\ p \in Seq({"refused", "http", "again", "create", "close", "prefer", "done"})
         /\ p # <<>>
         /\ Head(p) \in {"refused", "http", "again", "create", "close", "prefer", "done"}
         /\ Head(p) \in Retiring <=> Tail(p) \in Plans
         /\ Head(p) \notin Retiring => Tail(p) = <<>>
         /\ Head(p) = "done" => p = <<"done">>
         /\ Tail(p) # <<"done">>
<1>1. \A a, b : /\ Head(<<a>>) = a /\ Tail(<<a>>) = <<>> /\ <<a>> # <<>>
               /\ Head(<<a, b>>) = a /\ Tail(<<a, b>>) = <<b>> /\ <<a, b>> # <<>>
  OBVIOUS
<1>2. <<>> \notin Plans
  BY <1>1 DEF Plans
<1>3. \A a, b : a # b => <<a>> # <<b>>
  OBVIOUS
<1>4. \A S : \A a \in S, b \in S : <<a>> \in Seq(S) /\ <<a, b>> \in Seq(S)
  OBVIOUS
<1>5. p \in Seq({"refused", "http", "again", "create", "close", "prefer", "done"})
  BY <1>4 DEF Plans
<1>6. \/ \E a \in {"refused", "http", "again", "create", "done"} : p = <<a>>
      \/ \E b \in {"refused", "http"} : p = <<"prefer", b>>
      \/ p = <<"close", "create">>
  BY DEF Plans
<1>7. CASE \E a \in {"refused", "http", "again", "create", "done"} : p = <<a>>
  BY <1>1, <1>2, <1>5, <1>7 DEF Retiring
<1>8. CASE \E b \in {"refused", "http"} : p = <<"prefer", b>>
  BY <1>1, <1>3, <1>5, <1>8 DEF Plans, Retiring
<1>9. CASE p = <<"close", "create">>
  BY <1>1, <1>3, <1>5, <1>9 DEF Plans, Retiring
<1> QED BY <1>6, <1>7, <1>8, <1>9

-----------------------------------------------------------------------------
(* Types: records, and the closing of a connection                         *)

Pcs == {"start", "create", "again", "lock", "locked", "write", "close", "prefer",
        "closing", "refused", "http", "streaming", "done", "returned"}
Afters == Seq({"refused", "http", "again", "create", "close", "prefer", "done"})

LEMMA HandlerParts ==
  ASSUME NEW h \in Handlers
  PROVE  /\ h.pc \in Pcs /\ h.after \in Afters /\ h.victim \in 0..MaxId
         /\ h.delta \in BOOLEAN /\ h.prev \in 0..Http /\ h.conv \in 0..MaxId
         /\ h.conn \in 0..MaxId /\ h.left \in Nat /\ h.try \in Nat
         /\ h.finished \in {"none"} \cup Endings /\ h.retried \in BOOLEAN
BY DEF Handlers, Pcs, Afters

LEMMA ExchangeParts ==
  ASSUME NEW x \in Exchanges
  PROVE  /\ x.stream \in {"off", "reading", "writing", "closing", "unlocking", "ended"}
         /\ x.kind.what \in Messages \cup {"none"} /\ x.kind.for \in Exchange \cup {<<>>}
         /\ x.kind = [what |-> x.kind.what, for |-> x.kind.for]
         /\ x.pipe \in {"off", "open", "eof", "error", "readerClosed"}
         /\ x.link \in 0..MaxId /\ x.watcher \in {"off", "armed"}
         /\ x.got \in Exchange \cup {<<>>}
BY DEF Exchanges

\* A handler's record with parts of it replaced.
LEMMA UpdatePc ==
  ASSUME NEW h \in Handlers, NEW pc \in Pcs
  PROVE  [h EXCEPT !.pc = pc] \in Handlers
BY DEF Handlers, Pcs

LEMMA UpdatePcAfter ==
  ASSUME NEW h \in Handlers, NEW pc \in Pcs, NEW after \in Afters
  PROVE  [h EXCEPT !.pc = pc, !.after = after] \in Handlers
BY DEF Handlers, Pcs, Afters

LEMMA UpdatePcConv ==
  ASSUME NEW h \in Handlers, NEW pc \in Pcs, NEW conv \in 0..MaxId
  PROVE  [h EXCEPT !.pc = pc, !.conv = conv] \in Handlers
BY DEF Handlers, Pcs

LEMMA UpdatePcVictim ==
  ASSUME NEW h \in Handlers, NEW pc \in Pcs, NEW victim \in 0..MaxId
  PROVE  [h EXCEPT !.pc = pc, !.victim = victim] \in Handlers
BY DEF Handlers, Pcs

LEMMA UpdateUnlocked ==
  ASSUME NEW h \in Handlers, NEW after \in Afters
  PROVE  [h EXCEPT !.pc = "close", !.conv = 0, !.after = after] \in Handlers
<1>1. 0 \in 0..MaxId
  BY NumbersAssumption
<1> QED BY <1>1 DEF Handlers, Afters

LEMMA UpdateFailed ==
  ASSUME NEW h \in Handlers, NEW after \in Afters, NEW left \in Nat
  PROVE  [h EXCEPT !.pc = "close", !.after = after, !.left = left, !.conv = 0] \in Handlers
<1>1. 0 \in 0..MaxId
  BY NumbersAssumption
<1> QED BY <1>1 DEF Handlers, Afters

LEMMA UpdateClosed ==
  ASSUME NEW h \in Handlers, NEW pc \in Pcs, NEW after \in Afters
  PROVE  [h EXCEPT !.pc = pc, !.after = after, !.victim = 0] \in Handlers
<1>1. 0 \in 0..MaxId
  BY NumbersAssumption
<1> QED BY <1>1 DEF Handlers, Pcs, Afters

LEMMA UpdateWritten ==
  ASSUME NEW h \in Handlers, NEW try \in Nat, NEW left \in Nat, NEW conn \in 0..MaxId
  PROVE  [h EXCEPT !.pc = "streaming", !.try = try, !.left = left, !.conv = 0, !.conn = conn] \in Handlers
<1>1. 0 \in 0..MaxId
  BY NumbersAssumption
<1> QED BY <1>1 DEF Handlers

LEMMA UpdateFinished ==
  ASSUME NEW h \in Handlers, NEW finished \in {"none"} \cup Endings
  PROVE  [h EXCEPT !.finished = finished] \in Handlers
BY DEF Handlers

LEMMA UpdateBegun ==
  ASSUME NEW h \in Handlers, NEW delta \in BOOLEAN, NEW prev \in 0..Http
  PROVE  [h EXCEPT !.pc = "create", !.delta = delta, !.prev = prev] \in Handlers
BY DEF Handlers

\* The record of a request sent anew, and that of one that has ended.
LEMMA RestartType ==
  ASSUME NEW h \in Handlers, NEW close \in Pcs, NEW then \in Afters, NEW left \in Nat,
         NEW retried \in BOOLEAN
  PROVE  [h EXCEPT !.pc = close, !.after = then, !.left = left, !.delta = FALSE, !.prev = 0,
                   !.conn = 0, !.finished = "none", !.retried = retried] \in Handlers
<1>1. 0 \in 0..MaxId /\ 0 \in 0..Http
  BY NumbersAssumption DEF Http
<1> QED BY <1>1 DEF Handlers, Pcs, Afters

LEMMA ContinueType ==
  ASSUME NEW h \in Handlers, NEW delta \in BOOLEAN, NEW prev \in 0..Http
  PROVE  [h EXCEPT !.pc = "create", !.delta = delta, !.prev = prev, !.conn = 0,
                   !.finished = "none"] \in Handlers
<1>1. 0 \in 0..MaxId
  BY NumbersAssumption
<1> QED BY <1>1 DEF Handlers

LEMMA NewType ==
  ASSUME NEW r \in Request, NEW pc \in Pcs, NEW then \in Afters
  PROVE  /\ NewHandler(r, pc) \in Handlers
         /\ [NewHandler(r, pc) EXCEPT !.after = then] \in Handlers
<1>1. 0 \in 0..MaxId /\ 0 \in 0..Http /\ 0 \in Nat /\ Budget[r] \in Nat
  BY NumbersAssumption DEF Http
<1>2. <<>> \in Afters
  BY DEF Afters
<1>3. NewHandler(r, pc) \in Handlers
  BY <1>1, <1>2 DEF NewHandler, Handlers, Pcs, Afters
<1> QED BY <1>3 DEF Handlers, Afters

\* The record of a handler is replaced by one that fits its place.
LEMMA Replaced ==
  ASSUME TypeOK, Places, NEW r \in Request, NEW h \in Handlers, Placed(r, h),
         req' = [req EXCEPT ![r] = h]
  PROVE  req' \in [Request -> Handlers] /\ \A s \in Request : Placed(s, req'[s])
BY DEF TypeOK, Places

\* Credentials that an HTTP exchange cannot refresh end it as an error of the
\* WebSocket would.
LEMMA GivesUp ==
  ASSUME NEW r \in Request, HttpFails(r)
  PROVE  RetryOrEnd(r, Spend(req[r].left)) \/ WebSocketError(r)
<1>1. \A next : next = "refused" => next \notin {"http", "again", "create"}
  OBVIOUS
<1> QED BY <1>1 DEF HttpFails, WebSocketError

\* Each step of a handler leaves it a record that fits its place.
LEMMA HandlerReplaced ==
  ASSUME TypeOK, Places, NEW r \in Request, Handler(r)
  PROVE  req' \in [Request -> Handlers] /\ \A s \in Request : Placed(s, req'[s])
<1> DEFINE Goal == req' \in [Request -> Handlers] /\ \A s \in Request : Placed(s, req'[s])
<1>a. req[r] \in Handlers /\ Placed(r, req[r])
  BY DEF TypeOK, Places
<1>b. /\ req[r].pc \in Pcs /\ req[r].after \in Afters /\ req[r].victim \in 0..MaxId
      /\ req[r].delta \in BOOLEAN /\ req[r].prev \in 0..Http /\ req[r].conv \in 0..MaxId
      /\ req[r].conn \in 0..MaxId /\ req[r].left \in Nat /\ req[r].try \in Nat
      /\ req[r].finished \in {"none"} \cup Endings /\ req[r].retried \in BOOLEAN
  BY <1>a, HandlerParts
<1>c. /\ MaxId \in Nat \ {0} /\ entry \in 0..MaxId /\ chain \in 0..Http
      /\ Budget[r] \in Nat \ {0} /\ wconn \in [Id -> 0..MaxId]
      /\ 0 \in 0..MaxId /\ 0 \in 0..Http /\ Id \subseteq 0..MaxId /\ 0..MaxId \subseteq 0..Http
  BY NumbersAssumption DEF TypeOK, Id, Http
<1>d. Plans \subseteq Afters /\ <<>> \in Afters /\ <<>> \notin Plans
  BY PlanType DEF Afters
<1>e. Pcs = {"start", "create", "again", "lock", "locked", "write", "close", "prefer",
             "closing", "refused", "http", "streaming", "done", "returned"}
  BY DEF Pcs
<1>f. Spend(req[r].left) \in Nat
  BY <1>b DEF Spend
<1>g. \A h \in Handlers : Placed(r, h) /\ req' = [req EXCEPT ![r] = h] => Goal
  BY Replaced
<1>h. /\ \A b \in {"refused", "http", "again", "create", "done"} : <<b>> \in Plans
      /\ \A b \in {"refused", "http"} : <<"prefer", b>> \in Plans
      /\ <<"close", "create">> \in Plans
  BY DEF Plans
<1>i. req[r].try =< Budget[r]
  BY <1>a DEF Placed
<1> HIDE DEF Goal
<1>1. ASSUME Begin(r) PROVE Goal
  <2> PICK d \in BOOLEAN : req' = [req EXCEPT ![r].pc = "create", ![r].delta = d,
                                              ![r].prev = IF d THEN chain ELSE 0]
    BY <1>1 DEF Begin
  <2> DEFINE p == IF d THEN chain ELSE 0
  <2>4. p \in 0..Http
    BY <1>c
  <2> DEFINE h == [req[r] EXCEPT !.pc = "create", !.delta = d, !.prev = p]
  <2>1. h \in Handlers
    BY <1>a, <1>b, <1>c, <1>d, <1>e, <1>f, <1>h, <2>4, UpdateBegun
  <2>2. req' = [req EXCEPT ![r] = h]
    BY <1>1, <1>a, <1>b, <1>c DEF Begin
  <2>3. Placed(r, h)
    BY <1>1, <1>a, <1>b, <1>c, <1>d, <1>h, <2>4 DEF Placed, Begin, At, Retiring
  <2> HIDE DEF h
  <2> QED BY <2>1, <2>2, <2>3, <1>g
<1>2. ASSUME AuthFails(r) PROVE Goal
  <2> DEFINE h == [req[r] EXCEPT !.pc = "close", !.after = <<"refused">>]
  <2>1. h \in Handlers
    BY <1>a, <1>b, <1>c, <1>d, <1>e, <1>f, <1>h, UpdatePcAfter
  <2>2. req' = [req EXCEPT ![r] = h]
    BY <1>2, <1>a, <1>b, <1>c DEF AuthFails
  <2>3. Placed(r, h)
    BY <1>2, <1>a, <1>b, <1>c, <1>d, <1>h DEF Placed, AuthFails, At, Retiring
  <2> HIDE DEF h
  <2> QED BY <2>1, <2>2, <2>3, <1>g
<1>3. ASSUME UseHttp(r) PROVE Goal
  <2> DEFINE h == [req[r] EXCEPT !.pc = IF req[r].delta THEN "refused" ELSE "http"]
  <2>1. h \in Handlers
    BY <1>a, <1>b, <1>c, <1>d, <1>e, <1>f, <1>h, UpdatePc
  <2>2. req' = [req EXCEPT ![r] = h]
    BY <1>3, <1>a, <1>b, <1>c DEF UseHttp
  <2>4. h.pc \in {"refused", "http"} /\ h.after = req[r].after /\ h.try = req[r].try
    BY <1>a DEF Handlers
  <2>5. req[r].after = <<>>
    BY <1>3, <1>a DEF Placed, UseHttp, At, Retiring
  <2> HIDE DEF h
  <2>3. Placed(r, h)
    BY <2>4, <2>5, <1>d, <1>i DEF Placed, Retiring
  <2> QED BY <2>1, <2>2, <2>3, <1>g
<1>4. ASSUME UseWebSocket(r) PROVE Goal
  <2>4. entry' \in Id
    BY <1>4, <1>c DEF UseWebSocket, Id
  <2>5. entry' \in 0..MaxId
    BY <2>4, <1>c
  <2> DEFINE h == [req[r] EXCEPT !.pc = "lock", !.conv = entry']
  <2>1. h \in Handlers
    BY <1>a, <1>b, <1>c, <1>d, <1>e, <1>f, <1>h, <2>4, UpdatePcConv
  <2>2. req' = [req EXCEPT ![r] = h]
    BY <1>4, <1>a, <1>b, <1>c DEF UseWebSocket
  <2>6. h.pc = "lock" /\ h.after = req[r].after /\ h.try = req[r].try /\ h.conv = entry'
    BY <2>5, <1>a DEF Handlers
  <2>7. req[r].after = <<>>
    BY <1>4, <1>a DEF Placed, UseWebSocket, At, Retiring
  <2> HIDE DEF h
  <2>3. Placed(r, h)
    BY <2>4, <2>6, <2>7, <1>d, <1>i DEF Placed, Retiring
  <2> QED BY <2>1, <2>2, <2>3, <1>g
<1>5. ASSUME AcquireMu(r) PROVE Goal
  <2> DEFINE h == [req[r] EXCEPT !.pc = "locked"]
  <2>1. h \in Handlers
    BY <1>a, <1>b, <1>c, <1>d, <1>e, <1>f, <1>h, UpdatePc
  <2>2. req' = [req EXCEPT ![r] = h]
    BY <1>5, <1>a, <1>b, <1>c DEF AcquireMu
  <2>3. Placed(r, h)
    BY <1>5, <1>a, <1>b, <1>c, <1>d, <1>h DEF Placed, AcquireMu, At, Retiring
  <2> HIDE DEF h
  <2> QED BY <2>1, <2>2, <2>3, <1>g
<1>6. ASSUME Busy(r) PROVE Goal
  <2> DEFINE h == [req[r] EXCEPT !.pc = "http", !.conv = 0]
  <2>1. h \in Handlers
    BY <1>a, <1>b, <1>c, <1>d, <1>e, <1>f, <1>h, UpdatePcConv
  <2>2. req' = [req EXCEPT ![r] = h]
    BY <1>6, <1>a, <1>b, <1>c DEF Busy
  <2>3. Placed(r, h)
    BY <1>6, <1>a, <1>b, <1>c, <1>d, <1>h DEF Placed, Busy, At, Retiring
  <2> HIDE DEF h
  <2> QED BY <2>1, <2>2, <2>3, <1>g
<1>7. ASSUME TooLarge(r) PROVE Goal
  <2>4. <<"prefer", IF req[r].delta THEN "refused" ELSE "http">> \in Plans
    BY <1>h
  <2> DEFINE h == [req[r] EXCEPT !.pc = "close", !.conv = 0,
                                !.after = <<"prefer", IF req[r].delta THEN "refused" ELSE "http">>]
  <2>1. h \in Handlers
    BY <1>a, <1>b, <1>c, <1>d, <1>e, <1>f, <1>h, <2>4, UpdateUnlocked
  <2>7. h.pc = "close" /\ h.try = req[r].try
        /\ h.after = <<"prefer", IF req[r].delta THEN "refused" ELSE "http">>
    BY <1>a DEF Handlers
  <2>2. req' = [req EXCEPT ![r] = h]
    BY <1>7, <1>a, <1>b, <1>c DEF TooLarge
  <2> HIDE DEF h
  <2>3. Placed(r, h)
    BY <2>4, <2>7, <1>i DEF Placed, Retiring
  <2> QED BY <2>1, <2>2, <2>3, <1>g
<1>8. ASSUME Reuse(r) PROVE Goal
  <2> DEFINE h == [req[r] EXCEPT !.pc = "write"]
  <2>1. h \in Handlers
    BY <1>a, <1>b, <1>c, <1>d, <1>e, <1>f, <1>h, UpdatePc
  <2>2. req' = [req EXCEPT ![r] = h]
    BY <1>8, <1>a, <1>b, <1>c DEF Reuse
  <2>3. Placed(r, h)
    BY <1>8, <1>a, <1>b, <1>c, <1>d, <1>h DEF Placed, Reuse, At, Retiring
  <2> HIDE DEF h
  <2> QED BY <2>1, <2>2, <2>3, <1>g
<1>9. ASSUME Dial(r) PROVE Goal
  <2> DEFINE h == [req[r] EXCEPT !.pc = "write"]
  <2>1. h \in Handlers
    BY <1>a, <1>b, <1>c, <1>d, <1>e, <1>f, <1>h, UpdatePc
  <2>2. req' = [req EXCEPT ![r] = h]
    BY <1>9, <1>a, <1>b, <1>c DEF Dial
  <2>3. Placed(r, h)
    BY <1>9, <1>a, <1>b, <1>c, <1>d, <1>h DEF Placed, Dial, At, Retiring
  <2> HIDE DEF h
  <2> QED BY <2>1, <2>2, <2>3, <1>g
<1>10. ASSUME WebSocketError(r) PROVE Goal
  <2> PICK next \in {"refused", "http", "again", "create"} :
          req' = [req EXCEPT ![r].pc = "close", ![r].after = <<next>>,
                             ![r].left = Spend(req[r].left), ![r].conv = 0]
    BY <1>10 DEF WebSocketError
  <2> DEFINE h == [req[r] EXCEPT !.pc = "close", !.after = <<next>>, !.left = Spend(req[r].left),
                                !.conv = 0]
  <2>1. h \in Handlers
    BY <1>a, <1>b, <1>c, <1>d, <1>e, <1>f, <1>h, UpdateFailed
  <2>7. h.pc = "close" /\ h.after = <<next>> /\ h.try = req[r].try
    BY <1>a DEF Handlers
  <2>2. req' = [req EXCEPT ![r] = h]
    BY <1>10, <1>a, <1>b, <1>c DEF WebSocketError
  <2> HIDE DEF h
  <2>3. Placed(r, h)
    BY <2>7, <1>h, <1>i DEF Placed, Retiring
  <2> QED BY <2>1, <2>2, <2>3, <1>g
<1>11. ASSUME Write(r) PROVE Goal
  <2>5. At(r, "write") /\ req[r].try < Budget[r]
    BY <1>11 DEF Write
  <2>6. req[r].conv \in Id /\ req[r].after = <<>>
    BY <2>5, <1>a DEF Placed, At, Retiring
  <2>7. req[r].try + 1 \in 1..Budget[r] /\ req[r].try + 1 \in Nat
    BY <2>5, <1>b, <1>c
  <2>4. wconn[req[r].conv] \in 0..MaxId /\ req[r].try + 1 \in 1..Budget[r]
        /\ req[r].try + 1 \in Nat
    BY <2>6, <2>7, <1>c
  <2> DEFINE h == [req[r] EXCEPT !.pc = "streaming", !.try = req[r].try + 1, !.left = Spend(req[r].left),
                                !.conv = 0, !.conn = wconn[req[r].conv]]
  <2>1. h \in Handlers
    BY <1>a, <1>b, <1>c, <1>d, <1>e, <1>f, <1>h, <2>4, UpdateWritten
  <2>2. req' = [req EXCEPT ![r] = h]
    BY <1>11, <1>a, <1>b, <1>c DEF Write
  <2>8. h.pc = "streaming" /\ h.after = req[r].after /\ h.try = req[r].try + 1
    BY <1>a DEF Handlers
  <2> HIDE DEF h
  <2>3. Placed(r, h)
    BY <2>6, <2>7, <2>8, <1>c, <1>d DEF Placed, Retiring
  <2> QED BY <2>1, <2>2, <2>3, <1>g
<1>12. ASSUME TakeEntry(r) PROVE Goal
  <2> DEFINE h == [req[r] EXCEPT !.pc = "closing", !.victim = entry]
  <2>1. h \in Handlers
    BY <1>a, <1>b, <1>c, <1>d, <1>e, <1>f, <1>h, UpdatePcVictim
  <2>2. req' = [req EXCEPT ![r] = h]
    BY <1>12, <1>a, <1>b, <1>c DEF TakeEntry
  <2>4. h.pc = "closing" /\ h.after = req[r].after /\ h.try = req[r].try
    BY <1>a DEF Handlers
  <2>5. req[r].after \in Plans
    BY <1>12, <1>a DEF Placed, TakeEntry, At, Retiring
  <2> HIDE DEF h
  <2>3. Placed(r, h)
    BY <2>4, <2>5, <1>i DEF Placed, Retiring
  <2> QED BY <2>1, <2>2, <2>3, <1>g
<1>13. ASSUME CloseVictim(r) PROVE Goal
  <2>4. req[r].after \in Plans
    BY <1>13, <1>a DEF CloseVictim, At, Placed, Retiring
  <2>5. Head(req[r].after) \in {"refused", "http", "again", "create", "close", "prefer", "done"}
    BY <2>4, PlanType
  <2>6. /\ Tail(req[r].after) \in Afters
        /\ Head(req[r].after) \in Retiring <=> Tail(req[r].after) \in Plans
        /\ Head(req[r].after) \notin Retiring => Tail(req[r].after) = <<>>
    BY <2>4, PlanType, <1>d
  <2> DEFINE h == [req[r] EXCEPT !.pc = Head(req[r].after), !.after = Tail(req[r].after), !.victim = 0]
  <2>1. h \in Handlers
    BY <1>a, <1>b, <1>c, <1>d, <1>e, <1>f, <1>h, <2>5, <2>6, UpdateClosed
  <2>2. req' = [req EXCEPT ![r] = h]
    BY <1>13, <1>a, <1>b, <1>c DEF CloseVictim
  <2>7. h.pc = Head(req[r].after) /\ h.after = Tail(req[r].after) /\ h.try = req[r].try
    BY <1>a DEF Handlers
  <2> HIDE DEF h
  <2>3. Placed(r, h)
    BY <2>5, <2>6, <2>7, <1>i DEF Placed, Retiring
  <2> QED BY <2>1, <2>2, <2>3, <1>g
<1>14. ASSUME Receive(r) PROVE Goal
  <2>4. Now(r) \in Exchange
    BY <1>14, <1>a, Names DEF Receive, Streaming, At, Placed, Now
  <2>5. ex[Now(r)].kind.what \in Messages
    BY <1>14, <2>4 DEF Receive, Deliver, Places, Said
  <2>6. (IF ex[Now(r)].kind.what = "event" THEN req[r].finished ELSE ex[Now(r)].kind.what)
          \in {"none"} \cup Endings
    BY <2>5, <1>b DEF Messages
  <2> DEFINE h == [req[r] EXCEPT !.finished = IF ex[Now(r)].kind.what = "event" THEN req[r].finished
                                          ELSE ex[Now(r)].kind.what]
  <2>1. h \in Handlers
    BY <1>a, <1>b, <1>c, <1>d, <1>e, <1>f, <1>h, <2>6, UpdateFinished
  <2>2. req' = [req EXCEPT ![r] = h]
    BY <1>14, <1>a, <1>b, <1>c DEF Receive
  <2>7. /\ h.pc = req[r].pc /\ h.after = req[r].after /\ h.try = req[r].try
        /\ h.conv = req[r].conv
    BY <1>a DEF Handlers
  <2> HIDE DEF h
  <2>3. Placed(r, h)
    BY <2>7, <1>a DEF Placed
  <2> QED BY <2>1, <2>2, <2>3, <1>g
<1>15. ASSUME Continue(r) PROVE Goal
  <2> DEFINE p == IF entry # 0 THEN req[r].conn ELSE 0
  <2>4. p \in 0..Http
    BY <1>b, <1>c
  <2> DEFINE h == [req[r] EXCEPT !.pc = "create", !.delta = entry # 0, !.prev = p, !.conn = 0,
                                !.finished = "none"]
  <2>1. h \in Handlers
    BY <1>a, <1>b, <1>c, <1>d, <1>e, <1>f, <1>h, <2>4, ContinueType
  <2>7. h.pc = "create" /\ h.after = req[r].after /\ h.try = req[r].try
    BY <1>a DEF Handlers
  <2>8. req[r].after = <<>>
    BY <1>15, <1>a DEF Placed, Continue, Streaming, At, Retiring
  <2>2. req' = [req EXCEPT ![r] = h]
    BY <1>15, <1>a, <1>b, <1>c DEF Continue
  <2> HIDE DEF h
  <2>3. Placed(r, h)
    BY <2>7, <2>8, <1>i, <1>d DEF Placed, Retiring
  <2> QED BY <2>1, <2>2, <2>3, <1>g
<1>16. ASSUME Return(r) PROVE Goal
  <2> DEFINE h == [req[r] EXCEPT !.pc = "returned"]
  <2>1. h \in Handlers
    BY <1>a, <1>b, <1>c, <1>d, <1>e, <1>f, <1>h, UpdatePc
  <2>2. req' = [req EXCEPT ![r] = h]
    BY <1>16, <1>a, <1>b, <1>c DEF Return
  <2>3. Placed(r, h)
    BY <1>16, <1>a, <1>b, <1>c, <1>d, <1>h DEF Placed, Return, At, Retiring
  <2> HIDE DEF h
  <2> QED BY <2>1, <2>2, <2>3, <1>g
<1>17. ASSUME NEW left \in Nat, NEW retried \in BOOLEAN, NEW close \in {"close", "prefer"},
             NEW then \in Plans, Restart(r, left, retried, close, then)
      PROVE  Goal
  <2> DEFINE h == [req[r] EXCEPT !.pc = close, !.after = then, !.left = left, !.delta = FALSE,
                                !.prev = 0, !.conn = 0, !.finished = "none", !.retried = retried]
  <2>5. close \in Pcs /\ then \in Afters
    BY <1>d, <1>e
  <2>1. h \in Handlers
    BY <1>a, <2>5, RestartType
  <2>3. req' = [req EXCEPT ![r] = h]
    BY <1>17, <1>a DEF Restart
  <2>4. h.pc = close /\ h.after = then /\ h.try = req[r].try
    BY <1>a DEF Handlers
  <2> HIDE DEF h
  <2>2. Placed(r, h)
    BY <2>4, <1>i DEF Placed, Retiring
  <2> QED BY <2>1, <2>2, <2>3, <1>g
<1>18. ASSUME End(r, "done", <<>>) \/ End(r, "prefer", <<"done">>)
      PROVE  Goal
  <2> PICK pc \in {"done", "prefer"} : \E then \in {<<>>, <<"done">>} :
          (pc = "prefer" <=> then \in Plans) /\ End(r, pc, then)
    BY <1>18, <1>d, <1>h
  <2> PICK then \in {<<>>, <<"done">>} : (pc = "prefer" <=> then \in Plans) /\ End(r, pc, then)
    OBVIOUS
  <2> DEFINE h == [NewHandler(r, pc) EXCEPT !.after = then]
  <2>1. h \in Handlers
    BY <1>d, <1>e, <1>h, NewType
  <2>2. h.pc = pc /\ h.after = then /\ h.try = 0
    BY DEF NewHandler
  <2>3. Placed(r, h)
    BY <2>2, <1>c, <1>d, <1>h DEF Placed, Retiring
  <2>4. req' = [req EXCEPT ![r] = h]
    BY <1>a DEF End
  <2> QED BY <2>1, <2>3, <2>4, <1>g
<1>19. ASSUME req' = [req EXCEPT ![r] = NewHandler(r, "done")]
      PROVE  Goal
  <2> DEFINE h == NewHandler(r, "done")
  <2>1. h \in Handlers
    BY <1>d, <1>e, NewType
  <2>2. Placed(r, h)
    BY <1>c, <1>d DEF Placed, Retiring, NewHandler
  <2> QED BY <1>19, <2>1, <2>2, <1>g
<1>20. ASSUME NEW left \in Nat, RetryOrEnd(r, left) \/ PreferHttp(r, left)
      PROVE  Goal
  BY <1>20, <1>17, <1>18, <1>h DEF RetryOrEnd, PreferHttp
<1>21. ASSUME Refused(r) PROVE Goal
  <2>1. ASSUME Restart(r, req[r].left, req[r].retried, "close", <<"create">>)
        PROVE  Goal
    BY <2>1, <1>17, <1>b, <1>h
  <2> QED BY <2>1, <1>21, <1>18, <1>20, <1>b DEF Refused
<1>22. ASSUME HttpFails(r) PROVE RetryOrEnd(r, Spend(req[r].left)) \/ WebSocketError(r)
  BY <1>22, GivesUp
<1> QED
  BY <1>1, <1>2, <1>3, <1>4, <1>5, <1>6, <1>7, <1>8, <1>9, <1>10, <1>11, <1>12, <1>13, <1>14, <1>15, <1>16, <1>19, <1>20, <1>21, <1>22, <1>b, <1>f
     DEF Handler, Goal, DialFails, WriteFails, HttpCompletes, StopReading, ReceiveFailure,
         Record, Broken

\* A request is written while its handler may open another response.
LEMMA WriteOpens ==
  ASSUME TypeOK, NEW r \in Request, Write(r)
  PROVE  /\ At(r, "write") /\ req[r].try \in Nat /\ Budget[r] \in Nat
         /\ req[r].try + 1 \in 1..Budget[r] /\ <<r, req[r].try + 1>> \in Exchange
<1>1. req[r].try \in Nat /\ Budget[r] \in Nat
  BY HandlerParts, NumbersAssumption DEF TypeOK
<1>2. At(r, "write") /\ req[r].try < Budget[r]
  BY DEF Write
<1>3. req[r].try + 1 \in 1..Budget[r]
  BY <1>1, <1>2
<1> QED BY <1>1, <1>2, <1>3, Names

\* A message at hand says what it is and whom it answers.
LEMMA ExReplaced ==
  ASSUME TypeOK, Places, NEW e \in Exchange, NEW x \in Exchanges, Said(x),
         ex' = [ex EXCEPT ![e] = x]
  PROVE  ex' \in [Exchange -> Exchanges] /\ \A f \in Exchange : Said(ex'[f])
BY DEF TypeOK, Places

\* The record of a stream with parts of it replaced.
LEMMA ExWritten ==
  ASSUME NEW x \in Exchanges, Said(x), NEW link \in 0..MaxId
  PROVE  /\ [x EXCEPT !.stream = "reading", !.pipe = "open", !.link = link, !.watcher = "armed"] \in Exchanges
         /\ Said([x EXCEPT !.stream = "reading", !.pipe = "open", !.link = link, !.watcher = "armed"])
BY DEF Exchanges, Said

LEMMA ExLeft ==
  ASSUME NEW x \in Exchanges, Said(x), NEW pipe \in {"off", "open", "eof", "error", "readerClosed"}
  PROVE  /\ [x EXCEPT !.pipe = pipe, !.got = <<>>] \in Exchanges
         /\ Said([x EXCEPT !.pipe = pipe, !.got = <<>>])
BY DEF Exchanges, Said

LEMMA ExClosing ==
  ASSUME NEW x \in Exchanges, Said(x), NEW stream \in {"closing", "unlocking"},
         NEW pipe \in {"off", "open", "eof", "error", "readerClosed"}
  PROVE  /\ [x EXCEPT !.stream = stream, !.pipe = pipe] \in Exchanges
         /\ Said([x EXCEPT !.stream = stream, !.pipe = pipe])
BY DEF Exchanges, Said

LEMMA ExDropped ==
  ASSUME NEW x \in Exchanges, Said(x)
  PROVE  /\ [x EXCEPT !.stream = "closing", !.kind = None] \in Exchanges
         /\ Said([x EXCEPT !.stream = "closing", !.kind = None])
<1>1. None \in [what : Messages \cup {"none"}, for : Exchange \cup {<<>>}]
  BY DEF None
<1> QED BY <1>1 DEF Exchanges, Said

LEMMA ExEnded ==
  ASSUME NEW x \in Exchanges, Said(x), NEW link \in 0..MaxId
  PROVE  /\ [x EXCEPT !.stream = "ended", !.link = link] \in Exchanges
         /\ Said([x EXCEPT !.stream = "ended", !.link = link])
BY DEF Exchanges, Said

LEMMA ExUnwatched ==
  ASSUME NEW x \in Exchanges, Said(x), NEW link \in 0..MaxId
  PROVE  /\ [x EXCEPT !.watcher = "off", !.link = link] \in Exchanges
         /\ Said([x EXCEPT !.watcher = "off", !.link = link])
BY DEF Exchanges, Said

LEMMA ExDelivered ==
  ASSUME NEW x \in Exchanges, NEW stream \in {"reading", "closing"},
         NEW got \in Exchange, NEW pipe \in {"open", "readerClosed"}
  PROVE  LET y == [x EXCEPT !.stream = stream, !.kind = None, !.got = got, !.pipe = pipe]
         IN  y \in Exchanges /\ Said(y)
BY DEF Exchanges, Said, None

LEMMA ExRead ==
  ASSUME NEW x \in Exchanges, NEW what \in Messages, NEW for \in Exchange
  PROVE  LET y == [x EXCEPT !.stream = "writing", !.kind = [what |-> what, for |-> for]]
         IN  y \in Exchanges /\ Said(y)
<1>1. [what |-> what, for |-> for] \in [what : Messages \cup {"none"}, for : Exchange \cup {<<>>}]
  OBVIOUS
<1> QED BY <1>1 DEF Exchanges, Said

\* Each step leaves every stream a record that fits.
LEMMA StreamReplaced ==
  ASSUME TypeOK, Places, ReaderConnected, [Next]_vars
  PROVE  ex' \in [Exchange -> Exchanges] /\ \A f \in Exchange : Said(ex'[f])
<1> DEFINE Goal == ex' \in [Exchange -> Exchanges] /\ \A f \in Exchange : Said(ex'[f])
<1>a. \A e \in Exchange : ex[e] \in Exchanges /\ Said(ex[e])
  BY DEF TypeOK, Places
<1>b. \A e \in Exchange, x \in Exchanges : Said(x) /\ ex' = [ex EXCEPT ![e] = x] => Goal
  BY ExReplaced
<1>c. 0 \in 0..MaxId /\ wconn \in [Id -> 0..MaxId]
  BY NumbersAssumption DEF TypeOK
<1>d. ex \in [Exchange -> Exchanges] /\ \A e \in Exchange : ex[e].link \in 0..MaxId
                                              /\ ex[e].pipe \in {"off", "open", "eof", "error", "readerClosed"}
  BY <1>a, ExchangeParts DEF TypeOK
<1>e. \A r \in Request : At(r, "streaming") => Now(r) \in Exchange
  BY Names DEF Places, Placed, At, Now
<1> HIDE DEF Goal
<1>1. ASSUME UNCHANGED ex PROVE Goal
  BY <1>1, <1>a DEF Goal, TypeOK
<1>2. ASSUME NEW r \in Request, Write(r) PROVE Goal
  <2> DEFINE e == <<r, req[r].try + 1>>
             k == wconn[req[r].conv]
             x == [ex[e] EXCEPT !.stream = "reading", !.pipe = "open", !.link = k,
                                !.watcher = "armed"]
  <2>1. e \in Exchange /\ k \in 0..MaxId
    <3>1. At(r, "write") /\ e \in Exchange
      BY <1>2, WriteOpens
    <3>2. req[r].conv \in Id
      BY <3>1 DEF Places, Placed, At
    <3> QED BY <3>1, <3>2, <1>c
  <2>2. ex' = [ex EXCEPT ![e] = x]
    BY <1>2 DEF Write
  <2> HIDE DEF e, k
  <2>3. x \in Exchanges /\ Said(x)
    BY <2>1, <1>a, ExWritten
  <2> QED BY <2>1, <2>2, <2>3, <1>b
<1>3. ASSUME NEW r \in Request, NEW pipe \in {"off", "readerClosed"}, At(r, "streaming"),
             LeavePipe(r, pipe)
      PROVE  Goal
  <2> DEFINE e == Now(r)
             x == [ex[e] EXCEPT !.pipe = pipe, !.got = <<>>]
  <2>1. e \in Exchange
    BY <1>3, <1>e
  <2>2. ex' = [ex EXCEPT ![e] = x]
    BY <1>3 DEF LeavePipe
  <2>3. x \in Exchanges /\ Said(x)
    BY <2>1, <1>a, ExLeft
  <2> QED BY <2>1, <2>2, <2>3, <1>b
<1>4. ASSUME NEW e \in Exchange, NEW pipe \in {"open", "readerClosed"}, Deliver(e, pipe)
      PROVE  Goal
  <2> DEFINE s == IF ex[e].kind.what \in {"failed", "completed"} THEN "closing" ELSE "reading"
             x == [ex[e] EXCEPT !.stream = s, !.kind = None, !.got = ex[e].kind.for,
                                !.pipe = pipe]
  <2>1. s \in {"reading", "closing"} /\ ex[e].kind.for \in Exchange
    BY <1>4, <1>a DEF Deliver, Said
  <2>2. ex' = [ex EXCEPT ![e] = x]
    BY <1>4 DEF Deliver
  <2> HIDE DEF s
  <2>3. x \in Exchanges /\ Said(x)
    BY <2>1, <1>a, ExDelivered
  <2> QED BY <2>2, <2>3, <1>b
<1>5. ASSUME NEW e \in Exchange, ReadMessage(e)
      PROVE  Goal
  <2>1. PICK what \in Messages :
          ex' = [ex EXCEPT ![e].stream = "writing",
                           ![e].kind = [what |-> what, for |-> Head(answering[ex[e].link])]]
    BY <1>5 DEF ReadMessage
  <2> DEFINE f == Head(answering[ex[e].link])
             x == [ex[e] EXCEPT !.stream = "writing", !.kind = [what |-> what, for |-> f]]
  <2>2. f \in Exchange
    <3>1. ex[e].link \in Id
      BY <1>5 DEF ReadMessage, ReaderConnected, Active
    <3> QED BY <3>1, <1>5 DEF ReadMessage, TypeOK
  <2>3. ex' = [ex EXCEPT ![e] = x]
    BY <2>1
  <2> HIDE DEF f
  <2>4. x \in Exchanges /\ Said(x)
    BY <2>2, <1>a, ExRead
  <2> QED BY <2>3, <2>4, <1>b
<1>6. ASSUME NEW e \in Exchange, Stream(e)
      PROVE  Goal
  <2>1. CASE ReadFails(e)
    <3> DEFINE p == IF ex[e].pipe = "open" THEN "error" ELSE ex[e].pipe
               x == [ex[e] EXCEPT !.stream = "closing", !.pipe = p]
    <3>1. p \in {"off", "open", "eof", "error", "readerClosed"}
      BY <1>d
    <3>2. ex' = [ex EXCEPT ![e] = x]
      BY <2>1 DEF ReadFails
    <3> HIDE DEF p
    <3>3. x \in Exchanges /\ Said(x)
      BY <3>1, <1>a, <1>c, ExClosing
    <3> QED BY <3>2, <3>3, <1>b
  <2>2. CASE PipeClosed(e)
    <3> DEFINE x == [ex[e] EXCEPT !.stream = "closing", !.kind = None]
    <3>1. ex' = [ex EXCEPT ![e] = x]
      BY <2>2 DEF PipeClosed
    <3>2. x \in Exchanges /\ Said(x)
      BY <1>a, <1>c, ExDropped
    <3> QED BY <3>1, <3>2, <1>b
  <2>3. CASE CloseWriter(e)
    <3> DEFINE p == IF ex[e].pipe = "open" THEN "eof" ELSE ex[e].pipe
               x == [ex[e] EXCEPT !.stream = "unlocking", !.pipe = p]
    <3>1. p \in {"off", "open", "eof", "error", "readerClosed"}
      BY <1>d
    <3>2. ex' = [ex EXCEPT ![e] = x]
      BY <2>3 DEF CloseWriter
    <3> HIDE DEF p
    <3>3. x \in Exchanges /\ Said(x)
      BY <3>1, <1>a, <1>c, ExClosing
    <3> QED BY <3>2, <3>3, <1>b
  <2>4. CASE UnlockAndSignal(e)
    <3> DEFINE l == IF ex[e].watcher = "off" THEN 0 ELSE ex[e].link
               x == [ex[e] EXCEPT !.stream = "ended", !.link = l]
    <3>1. l \in 0..MaxId
      BY <1>c, <1>d
    <3>2. ex' = [ex EXCEPT ![e] = x]
      BY <2>4 DEF UnlockAndSignal
    <3> HIDE DEF l
    <3>3. x \in Exchanges /\ Said(x)
      BY <3>1, <1>a, ExEnded
    <3> QED BY <3>2, <3>3, <1>b
  <2> QED BY <1>6, <2>1, <2>2, <2>3, <2>4 DEF Stream
<1>7. ASSUME NEW e \in Exchange, Watcher(e)
      PROVE  Goal
  <2> PICK l \in 0..MaxId : ex' = [ex EXCEPT ![e].watcher = "off", ![e].link = l]
    <3>1. CASE WatcherCloses(e)
      <4> DEFINE l == IF ex[e].stream = "ended" THEN 0 ELSE ex[e].link
      <4>1. l \in 0..MaxId
        BY <1>c, <1>d
      <4>2. ex' = [ex EXCEPT ![e].watcher = "off", ![e].link = l]
        BY <3>1 DEF WatcherCloses
      <4> HIDE DEF l
      <4> QED BY <4>1, <4>2
    <3>2. CASE WatcherQuits(e)
      BY <3>2, <1>c DEF WatcherQuits
    <3> QED BY <1>7, <3>1, <3>2 DEF Watcher
  <2> DEFINE x == [ex[e] EXCEPT !.watcher = "off", !.link = l]
  <2>1. ex' = [ex EXCEPT ![e] = x]
    OBVIOUS
  <2>2. x \in Exchanges /\ Said(x)
    BY <1>a, ExUnwatched
  <2> QED BY <2>1, <2>2, <1>b
<1>8. ASSUME NEW r \in Request, Handler(r)
      PROVE  Goal
  <2>1. CASE \/ Begin(r) \/ AuthFails(r) \/ UseHttp(r) \/ UseWebSocket(r) \/ AcquireMu(r) \/ Busy(r)
             \/ TooLarge(r) \/ Reuse(r) \/ Dial(r) \/ DialFails(r) \/ WriteFails(r) \/ TakeEntry(r)
             \/ CloseVictim(r) \/ Refused(r) \/ HttpCompletes(r) \/ HttpFails(r) \/ Return(r)
    <3>1. UNCHANGED ex
      BY <2>1 DEF Begin, AuthFails, UseHttp, UseWebSocket, AcquireMu, Busy, TooLarge, Reuse, Dial,
           DialFails, WriteFails, TakeEntry, CloseVictim, Refused, HttpCompletes, HttpFails, Return
    <3> QED BY <3>1, <1>1
  <2>2. CASE StopReading(r) \/ Record(r) \/ Continue(r) \/ Broken(r)
    <3>1. At(r, "streaming") /\ \E pipe \in {"off", "readerClosed"} : LeavePipe(r, pipe)
      BY <2>2 DEF StopReading, Record, Continue, Broken, Streaming
    <3> QED BY <3>1, <1>3
  <2>3. CASE ReceiveFailure(r) \/ Receive(r)
    <3>1. Now(r) \in Exchange /\ \E pipe \in {"open", "readerClosed"} : Deliver(Now(r), pipe)
      BY <2>3, <1>e DEF ReceiveFailure, Receive, Streaming
    <3> QED BY <3>1, <1>4
  <2> QED BY <1>8, <1>2, <2>1, <2>2, <2>3 DEF Handler
<1>9. CASE \E r \in Request : Handler(r)
  BY <1>8, <1>9 DEF Goal
<1>10. CASE \E e \in Exchange : Stream(e) \/ ReadMessage(e) \/ Watcher(e)
  BY <1>5, <1>6, <1>7, <1>10 DEF Goal
<1>11. CASE (\E r \in Request : ClientLeaves(r)) \/ (\E k \in Id : ConnectionDrops(k))
             \/ TokenChanges \/ Terminated \/ UNCHANGED vars
  <2>1. UNCHANGED ex
    BY <1>11 DEF ClientLeaves, ConnectionDrops, TokenChanges, Terminated, vars
  <2> QED BY <2>1, <1>1 DEF Goal
<1> QED BY <1>9, <1>10, <1>11 DEF Next

Holders == {<<>>} \cup {<<r>> : r \in Request} \cup Exchange
NetTypes ==
  /\ wconn \in [Id -> 0..MaxId] /\ wkey \in [Id -> 0..MaxToken]
  /\ open \in [Id -> BOOLEAN] /\ answering \in [Id -> Seq(Exchange)]

\* Closing keeps the types.
LEMMA ClosingType ==
  ASSUME NetTypes
  PROVE  /\ \A k : Hangup(k) => open' \in [Id -> BOOLEAN] /\ answering' \in [Id -> Seq(Exchange)]
         /\ \A c : Shut(c) => NetTypes'
         /\ \A e : ShutOwn(e) => NetTypes'
<1>1. <<>> \in Seq(Exchange)
  OBVIOUS
<1>2. ASSUME NEW k, Hangup(k)
      PROVE  open' \in [Id -> BOOLEAN] /\ answering' \in [Id -> Seq(Exchange)]
  BY <1>1, <1>2 DEF Hangup, NetTypes
<1>3. ASSUME NEW c, Shut(c) PROVE NetTypes'
  <2>1. 0 \in 0..MaxId /\ 0 \in 0..MaxToken
    BY NumbersAssumption
  <2> QED BY <1>2, <1>3, <2>1 DEF Shut, NetTypes
<1> QED BY <1>2, <1>3 DEF ShutOwn

LEMMA NetTyped ==
  ASSUME TypeOK, Places, [Next]_vars
  PROVE  NetTypes'
<1>a. NetTypes /\ token \in 0..MaxToken
  BY DEF TypeOK, NetTypes
<1>1. ASSUME UNCHANGED <<wconn, wkey, open, answering>> PROVE NetTypes'
  BY <1>1, <1>a DEF NetTypes
<1>2. ASSUME NEW r \in Request, Dial(r) PROVE NetTypes'
  <2>1. <<>> \in Seq(Exchange)
    OBVIOUS
  <2>2. PICK k \in Id :
           /\ open' = [i \in Id |-> i = k \/ (open[i] /\ i # wconn[req[r].conv])]
           /\ answering' = [i \in Id |-> IF i = wconn[req[r].conv] THEN <<>> ELSE answering[i]]
           /\ wconn' = [wconn EXCEPT ![req[r].conv] = k]
    BY <1>2 DEF Dial
  <2>3. wkey' = [wkey EXCEPT ![req[r].conv] = token]
    BY <1>2 DEF Dial
  <2>4. k \in 0..MaxId
    BY DEF Id
  <2>5. wconn' \in [Id -> 0..MaxId] /\ wkey' \in [Id -> 0..MaxToken]
    BY <1>a, <2>2, <2>3, <2>4 DEF NetTypes
  <2>6. open' \in [Id -> BOOLEAN]
    BY <2>2
  <2>7. answering' \in [Id -> Seq(Exchange)]
    BY <1>a, <2>1, <2>2 DEF NetTypes
  <2> QED BY <2>5, <2>6, <2>7 DEF NetTypes
<1>3. ASSUME NEW r \in Request, Write(r) PROVE NetTypes'
  <2> DEFINE e == <<r, req[r].try + 1>>
             k == wconn[req[r].conv]
  <2>1. e \in Exchange
    BY <1>3, WriteOpens
  <2>2. answering' = [answering EXCEPT ![k] = Append(@, e)] /\ UNCHANGED <<wconn, wkey, open>>
    BY <1>3 DEF Write
  <2> HIDE DEF e, k
  <2>3. k \in Id => Append(answering[k], e) \in Seq(Exchange)
    BY <1>a, <2>1 DEF NetTypes
  <2> QED BY <1>a, <2>2, <2>3 DEF NetTypes
<1>4. ASSUME NEW e \in Exchange, ReadMessage(e) PROVE NetTypes'
  <2> DEFINE k == ex[e].link
  <2>1. /\ answering[k] # <<>> /\ UNCHANGED <<wconn, wkey, open>>
        /\ \/ answering' = answering
           \/ answering' = [answering EXCEPT ![k] = Tail(@)]
    BY <1>4 DEF ReadMessage, convVars
  <2> HIDE DEF k
  <2>2. k \in Id => Tail(answering[k]) \in Seq(Exchange)
    BY <1>a, <2>1 DEF NetTypes
  <2> QED BY <1>a, <2>1, <2>2 DEF NetTypes
<1>5. ASSUME NEW r \in Request, Handler(r) PROVE NetTypes'
  <2>1. CASE \/ Begin(r) \/ AuthFails(r) \/ UseHttp(r) \/ UseWebSocket(r) \/ AcquireMu(r) \/ Busy(r)
             \/ TooLarge(r) \/ Reuse(r) \/ TakeEntry(r) \/ Refused(r) \/ HttpCompletes(r)
             \/ HttpFails(r) \/ Return(r) \/ StopReading(r) \/ Record(r) \/ Continue(r) \/ Broken(r)
    <3>1. UNCHANGED <<wconn, wkey, open, answering>>
      BY <2>1 DEF Begin, AuthFails, UseHttp, UseWebSocket, AcquireMu, Busy, TooLarge, Reuse,
           TakeEntry, Refused, HttpCompletes, HttpFails, Return, StopReading, Record, Continue,
           Broken, convVars, netVars
    <3> QED BY <3>1, <1>1
  <2>2. CASE DialFails(r) \/ WriteFails(r) \/ CloseVictim(r)
    <3>1. (\E c : Shut(c)) \/ UNCHANGED <<wconn, wkey, open, answering>>
      BY <2>2 DEF DialFails, WriteFails, CloseVictim, netVars
    <3> QED BY <3>1, <1>1, <1>a, ClosingType
  <2>3. CASE ReceiveFailure(r) \/ Receive(r)
    <3>1. (\E e : ShutOwn(e)) \/ UNCHANGED <<wconn, wkey, open, answering>>
      BY <2>3 DEF ReceiveFailure, Receive, Deliver, netVars
    <3> QED BY <3>1, <1>1, <1>a, ClosingType
  <2> QED BY <1>2, <1>3, <1>5, <2>1, <2>2, <2>3 DEF Handler
<1>6. ASSUME NEW e \in Exchange, Stream(e) PROVE NetTypes'
  <2>1. ShutOwn(e) \/ UNCHANGED <<wconn, wkey, open, answering>>
    BY <1>6 DEF Stream, ReadFails, PipeClosed, CloseWriter, UnlockAndSignal, convVars, netVars
  <2> QED BY <2>1, <1>1, <1>a, ClosingType
<1>7. ASSUME UNCHANGED <<wconn, wkey>>, \E k : Hangup(k) PROVE NetTypes'
  BY <1>7, <1>a, ClosingType DEF NetTypes
<1>8. ASSUME NEW e \in Exchange, Watcher(e) PROVE NetTypes'
  BY <1>8, <1>1, <1>7 DEF Watcher, WatcherCloses, WatcherQuits, convVars, netVars
<1>9. ASSUME NEW k \in Id, ConnectionDrops(k) PROVE NetTypes'
  BY <1>9, <1>7 DEF ConnectionDrops, convVars
<1>10. CASE \E r \in Request : Handler(r)
  BY <1>10, <1>5
<1>11. CASE \E e \in Exchange : Stream(e) \/ ReadMessage(e) \/ Watcher(e)
  BY <1>4, <1>6, <1>8, <1>11
<1>12. CASE (\E r \in Request : ClientLeaves(r)) \/ TokenChanges \/ Terminated \/ UNCHANGED vars
  <2>1. UNCHANGED <<wconn, wkey, open, answering>>
    BY <1>12 DEF ClientLeaves, TokenChanges, Terminated, vars, convVars, netVars
  <2> QED BY <2>1, <1>1
<1> QED BY <1>9, <1>10, <1>11, <1>12 DEF Next

RestTypes ==
  /\ entry \in 0..MaxId /\ httpOnly \in BOOLEAN /\ chain \in 0..Http
  /\ mu \in [Id -> Holders] /\ token \in 0..MaxToken /\ drops \in 0..MaxDrops
  /\ ctx \in [Request -> {"live", "cancelled"}]

LEMMA RestTyped ==
  ASSUME TypeOK, Places, [Next]_vars
  PROVE  RestTypes'
<1>a. RestTypes
  BY DEF TypeOK, RestTypes, Holders
<1>b. 0 \in 0..MaxId /\ 0 \in 0..Http /\ Http \in 0..Http /\ Id \subseteq 0..MaxId
      /\ 0..MaxId \subseteq 0..Http
  BY NumbersAssumption DEF Http, Id
<1>c. <<>> \in Holders /\ (\A r \in Request : <<r>> \in Holders) /\ Exchange \subseteq Holders
  BY DEF Holders
<1>1. ASSUME UNCHANGED <<serverVars, mu, envVars>> PROVE RestTypes'
  BY <1>1, <1>a DEF RestTypes, serverVars, envVars
<1>2. ASSUME UNCHANGED <<serverVars, envVars>>, NEW h \in Holders, NEW c, mu' = [mu EXCEPT ![c] = h]
      PROVE  RestTypes'
  BY <1>2, <1>a DEF RestTypes, serverVars, envVars
<1>3. ASSUME UNCHANGED <<entry, httpOnly, mu, envVars>>, chain' \in 0..Http
      PROVE  RestTypes'
  BY <1>3, <1>a DEF RestTypes, envVars
<1>4. ASSUME NEW r \in Request, Handler(r) PROVE RestTypes'
  <2>1. CASE \/ Begin(r) \/ AuthFails(r) \/ UseHttp(r) \/ Busy(r) \/ Reuse(r) \/ Dial(r)
             \/ CloseVictim(r) \/ Receive(r) \/ Continue(r)
    <3>1. UNCHANGED <<serverVars, mu, envVars>>
      BY <2>1 DEF Begin, AuthFails, UseHttp, Busy, Reuse, Dial, CloseVictim, Receive, Continue,
           convVars
    <3> QED BY <3>1, <1>1
  <2>2. CASE AcquireMu(r) \/ TooLarge(r) \/ DialFails(r) \/ WriteFails(r) \/ Write(r)
    <3>1. CASE Write(r)
      <4>3. <<r, req[r].try + 1>> \in Exchange
        BY <3>1, WriteOpens
      <4> QED BY <4>3, <3>1, <1>2, <1>c DEF Write
    <3> QED BY <3>1, <2>2, <1>2, <1>c DEF AcquireMu, TooLarge, DialFails, WriteFails
  <2>3. CASE \/ Refused(r) \/ HttpCompletes(r) \/ HttpFails(r) \/ StopReading(r) \/ ReceiveFailure(r)
             \/ Record(r) \/ Broken(r)
    <3>1. UNCHANGED <<entry, httpOnly, mu, envVars>>
      BY <2>3 DEF Refused, HttpCompletes, HttpFails, StopReading, ReceiveFailure, Record, Broken,
           convVars
    <3>2. req[r].conn \in 0..Http /\ chain \in 0..Http
      BY HandlerParts, <1>b DEF TypeOK
    <3>3. chain' \in 0..Http
      BY <2>3, <3>2, <1>b DEF Refused, HttpCompletes, HttpFails, StopReading, ReceiveFailure, Record,
           Broken, Restart, End, RetryOrEnd, PreferHttp
    <3> QED BY <3>1, <3>3, <1>3
  <2>4. CASE UseWebSocket(r)
    <3>1. entry' \in 0..MaxId
      BY <2>4, <1>b DEF UseWebSocket
    <3> QED BY <2>4, <3>1, <1>a DEF UseWebSocket, RestTypes, convVars, envVars
  <2>5. CASE TakeEntry(r)
    BY <2>5, <1>a, <1>b DEF TakeEntry, RestTypes, convVars, envVars
  <2>6. CASE Return(r)
    BY <2>6, <1>a DEF Return, RestTypes, convVars, serverVars
  <2> QED BY <1>4, <2>1, <2>2, <2>3, <2>4, <2>5, <2>6 DEF Handler
<1>5. ASSUME NEW e \in Exchange, Stream(e) \/ ReadMessage(e) \/ Watcher(e) PROVE RestTypes'
  <2>1. CASE UnlockAndSignal(e)
    BY <2>1, <1>2, <1>c DEF UnlockAndSignal
  <2>2. CASE ReadFails(e) \/ PipeClosed(e) \/ CloseWriter(e) \/ ReadMessage(e) \/ Watcher(e)
    <3>1. UNCHANGED <<serverVars, mu, envVars>>
      BY <2>2 DEF ReadFails, PipeClosed, CloseWriter, ReadMessage, Watcher, WatcherCloses,
           WatcherQuits, convVars
    <3> QED BY <3>1, <1>1
  <2> QED BY <1>5, <2>1, <2>2 DEF Stream
<1>6. CASE \E r \in Request : ClientLeaves(r)
  BY <1>6, <1>a DEF ClientLeaves, RestTypes, serverVars, convVars
<1>7. CASE \E k \in Id : ConnectionDrops(k)
  <2>1. drops' \in 0..MaxDrops
    BY <1>7, <1>a, NumbersAssumption DEF ConnectionDrops, RestTypes
  <2> QED BY <1>7, <1>a, <2>1 DEF ConnectionDrops, RestTypes, serverVars, convVars
<1>8. CASE TokenChanges
  <2>1. token' \in 0..MaxToken
    BY <1>8, <1>a, NumbersAssumption DEF TokenChanges, RestTypes
  <2> QED BY <1>8, <1>a, <2>1 DEF TokenChanges, RestTypes, serverVars, convVars
<1>9. CASE Terminated \/ UNCHANGED vars
  BY <1>9, <1>1 DEF Terminated, vars, convVars
<1>10. CASE \E r \in Request : Handler(r)
  BY <1>10, <1>4
<1>11. CASE \E e \in Exchange : Stream(e) \/ ReadMessage(e) \/ Watcher(e)
  BY <1>11, <1>5
<1> QED BY <1>6, <1>7, <1>8, <1>9, <1>10, <1>11 DEF Next

LEMMA HandlersKept ==
  ASSUME TypeOK, Places, [Next]_vars
  PROVE  req' \in [Request -> Handlers] /\ \A s \in Request : Placed(s, req'[s])
<1>1. ASSUME UNCHANGED req
      PROVE  req' \in [Request -> Handlers] /\ \A s \in Request : Placed(s, req'[s])
  BY <1>1 DEF TypeOK, Places
<1>2. CASE \E r \in Request : Handler(r)
  BY <1>2, HandlerReplaced
<1>3. CASE \E e \in Exchange : Stream(e) \/ ReadMessage(e) \/ Watcher(e)
  <2>1. UNCHANGED req
    BY <1>3 DEF Stream, ReadFails, PipeClosed, CloseWriter, UnlockAndSignal, ReadMessage, Watcher,
         WatcherCloses, WatcherQuits
  <2> QED BY <2>1, <1>1
<1>4. CASE (\E r \in Request : ClientLeaves(r)) \/ (\E k \in Id : ConnectionDrops(k))
             \/ TokenChanges \/ Terminated \/ UNCHANGED vars
  <2>1. UNCHANGED req
    BY <1>4 DEF ClientLeaves, ConnectionDrops, TokenChanges, Terminated, vars
  <2> QED BY <2>1, <1>1
<1> QED BY <1>2, <1>3, <1>4 DEF Next

LEMMA TypesKept == TInv /\ ReaderConnected /\ [Next]_vars => TInv'
BY StreamReplaced, HandlersKept, NetTyped, RestTyped
   DEF TInv, TypeOK, Places, NetTypes, RestTypes, Holders

-----------------------------------------------------------------------------
(* What the steps of a handler do to its record                            *)

Locking(h) == h.pc \in {"locked", "write"}
Others(r) == \A s \in Request : s # r => req'[s] = req[s]

\* A step that neither locks nor writes: it opens no response and leaves the
\* mutex, or it ends the request.
Passes(r) ==
  /\ Others(r)
  /\ ~Locking(req'[r])
  /\ Over(r)' \/ (~Over(r) /\ req'[r].try = req[r].try)

LEMMA EndPasses ==
  ASSUME TInv, NEW r \in Request, End(r, "done", <<>>) \/ End(r, "prefer", <<"done">>)
  PROVE  Passes(r)
<1>1. /\ Others(r)
      /\ \/ req'[r].pc = "done"
         \/ req'[r].pc = "prefer" /\ req'[r].after = <<"done">>
  BY DEF TInv, TypeOK, End, Others, NewHandler
<1> QED BY <1>1 DEF Passes, Over, Locking

LEMMA RestartPasses ==
  ASSUME TInv, NEW r \in Request, req[r].pc \in {"refused", "http", "streaming"},
         NEW left, NEW retried, NEW close \in {"close", "prefer"}, NEW then \in Plans \ {<<"done">>},
         Restart(r, left, retried, close, then)
  PROVE  Passes(r)
<1>1. /\ Others(r) /\ req'[r].pc = close /\ req'[r].after = then /\ req'[r].try = req[r].try
  BY DEF TInv, TypeOK, Restart, Others, Handlers
<1>2. ~Over(r)
  BY PlanType DEF TInv, Places, Placed, Over, Retiring, Plans
<1> QED BY <1>1, <1>2 DEF Passes, Over, Locking

LEMMA RetryPasses ==
  ASSUME TInv, NEW r \in Request, req[r].pc \in {"refused", "http", "streaming"}, NEW left,
         RetryOrEnd(r, left) \/ PreferHttp(r, left)
  PROVE  Passes(r)
<1>1. {<<"create">>, <<"close", "create">>} \subseteq Plans \ {<<"done">>}
  BY DEF Plans
<1> QED BY <1>1, EndPasses, RestartPasses DEF RetryOrEnd, PreferHttp

LEMMA HandlerPasses ==
  ASSUME TInv, NEW r \in Request,
         \/ Begin(r) \/ AuthFails(r) \/ UseHttp(r) \/ UseWebSocket(r) \/ Busy(r) \/ TooLarge(r)
         \/ DialFails(r) \/ WriteFails(r) \/ TakeEntry(r) \/ CloseVictim(r) \/ Refused(r)
         \/ HttpCompletes(r) \/ HttpFails(r) \/ StopReading(r) \/ ReceiveFailure(r) \/ Receive(r)
         \/ Record(r) \/ Continue(r) \/ Broken(r) \/ Return(r)
  PROVE  Passes(r)
<1>a. req \in [Request -> Handlers] /\ req[r] \in Handlers
  BY DEF TInv, TypeOK
<1>b. req[r].pc \notin Retiring \cup {"done", "returned"} => ~Over(r)
  <2>1. <<"done">> # <<>>
    OBVIOUS
  <2> QED BY <2>1 DEF TInv, Places, Placed, Over
<1>1. CASE Begin(r)
  <2>1. Others(r) /\ req'[r].pc = "create" /\ req'[r].try = req[r].try
    <3>1. PICK d \in BOOLEAN : req' = [req EXCEPT ![r].pc = "create", ![r].delta = d,
                                                 ![r].prev = IF d THEN chain ELSE 0]
      BY <1>1 DEF Begin
    <3> QED BY <3>1, <1>a DEF Others, Handlers
  <2> QED BY <1>1, <1>b, <2>1 DEF Begin, Passes, Locking, Retiring, At
<1>2. CASE AuthFails(r)
  <2>1. Others(r) /\ req'[r].pc = "close" /\ req'[r].try = req[r].try
    BY <1>2, <1>a DEF AuthFails, Others, Handlers
  <2> QED BY <1>2, <1>b, <2>1 DEF AuthFails, Passes, Locking, Retiring, At
<1>3. CASE UseHttp(r) \/ UseWebSocket(r)
  <2>1. Others(r) /\ req'[r].pc \in {"refused", "http", "lock"} /\ req'[r].try = req[r].try
    BY <1>3, <1>a DEF UseHttp, UseWebSocket, Others, Handlers
  <2> QED BY <1>3, <1>b, <2>1 DEF UseHttp, UseWebSocket, Passes, Locking, Retiring, At
<1>4. CASE Busy(r) \/ TooLarge(r)
  <2>1. Others(r) /\ req'[r].pc \in {"http", "close"} /\ req'[r].try = req[r].try
    BY <1>4, <1>a DEF Busy, TooLarge, Others, Handlers
  <2> QED BY <1>4, <1>b, <2>1 DEF Busy, TooLarge, Passes, Locking, Retiring, At
<1>5. CASE DialFails(r) \/ WriteFails(r)
  <2>1. Others(r) /\ req'[r].pc = "close" /\ req'[r].try = req[r].try
    <3>1. WebSocketError(r)
      BY <1>5 DEF DialFails, WriteFails
    <3>2. PICK next \in {"refused", "http", "again", "create"} :
              req' = [req EXCEPT ![r].pc = "close", ![r].after = <<next>>,
                                 ![r].left = Spend(req[r].left), ![r].conv = 0]
      BY <3>1 DEF WebSocketError
    <3> QED BY <3>2, <1>a DEF Others, Handlers
  <2> QED BY <1>5, <1>b, <2>1 DEF DialFails, WriteFails, Passes, Locking, Retiring, At
<1>6. CASE TakeEntry(r)
  <2>1. /\ Others(r) /\ req'[r].pc = "closing" /\ req'[r].after = req[r].after
        /\ req'[r].try = req[r].try
    BY <1>6, <1>a DEF TakeEntry, Others, Handlers
  <2> QED BY <1>6, <2>1 DEF TakeEntry, Passes, Locking, Over, At
<1>7. CASE CloseVictim(r)
  <2>1. req[r].after \in Plans /\ req[r].pc = "closing"
    BY <1>7 DEF CloseVictim, At, TInv, Places, Placed, Retiring
  <2>2. /\ Others(r) /\ req'[r].pc = Head(req[r].after) /\ req'[r].after = Tail(req[r].after)
        /\ req'[r].try = req[r].try
    BY <1>7, <1>a DEF CloseVictim, Others, Handlers
  <2>3. CASE req[r].after = <<"done">>
    BY <2>2, <2>3 DEF Passes, Over, Locking
  <2>4. CASE req[r].after # <<"done">>
    BY <2>1, <2>2, <2>4, PlanType DEF Passes, Over, Locking
  <2> QED BY <2>3, <2>4
<1>8. CASE Refused(r)
  <2>1. <<"create">> \in Plans \ {<<"done">>} /\ req[r].pc = "refused"
    BY <1>8 DEF Plans, Refused, At
  <2> QED BY <1>8, <2>1, EndPasses, RestartPasses, RetryPasses DEF Refused
<1>9. CASE HttpCompletes(r) \/ Record(r)
  <2>1. Others(r) /\ req'[r].pc = "done"
    BY <1>9, <1>a DEF HttpCompletes, Record, Others, NewHandler
  <2> QED BY <2>1 DEF Passes, Over, Locking
<1>10. CASE HttpFails(r)
  <2>1. req[r].pc = "http"
    BY <1>10 DEF HttpFails, At
  <2>2. CASE RetryOrEnd(r, Spend(req[r].left))
    BY <2>1, <2>2, RetryPasses
  <2>3. CASE WebSocketError(r)
    <3>1. PICK next \in {"refused", "http", "again", "create"} :
              req' = [req EXCEPT ![r].pc = "close", ![r].after = <<next>>,
                                 ![r].left = Spend(req[r].left), ![r].conv = 0]
      BY <2>3 DEF WebSocketError
    <3>2. Others(r) /\ req'[r].pc = "close" /\ req'[r].try = req[r].try
      BY <3>1, <1>a DEF Others, Handlers
    <3> QED BY <1>b, <2>1, <3>2 DEF Passes, Locking, Retiring
  <2> QED BY <1>10, <2>2, <2>3, GivesUp
<1>11. CASE StopReading(r) \/ ReceiveFailure(r) \/ Broken(r)
  BY <1>11, RetryPasses DEF StopReading, ReceiveFailure, Broken, Streaming, At
<1>12. CASE Receive(r)
  <2>1. Others(r) /\ req'[r].pc = req[r].pc /\ req'[r].try = req[r].try
    BY <1>12, <1>a DEF Receive, Others, Handlers
  <2> QED BY <1>12, <1>b, <2>1 DEF Receive, Streaming, Passes, Locking, Retiring, At
<1>13. CASE Continue(r)
  <2>1. Others(r) /\ req'[r].pc = "create" /\ req'[r].try = req[r].try
    BY <1>13, <1>a DEF Continue, Others, Handlers
  <2> QED BY <1>13, <1>b, <2>1 DEF Continue, Streaming, Passes, Locking, Retiring, At
<1>14. CASE Return(r)
  <2>1. Others(r) /\ req'[r].pc = "returned"
    BY <1>14, <1>a DEF Return, Others
  <2> QED BY <2>1 DEF Passes, Over, Locking
<1> QED BY <1>1, <1>2, <1>3, <1>4, <1>5, <1>6, <1>7, <1>8, <1>9, <1>10, <1>11, <1>12, <1>13, <1>14

-----------------------------------------------------------------------------
(* What the steps do to the streams                                        *)

\* A handler that gets nothing leaves its stream alone, but for the pipe.
SameStreams ==
  \A f \in Exchange :
    /\ ex'[f].stream = ex[f].stream /\ ex'[f].link = ex[f].link /\ ex'[f].kind = ex[f].kind
    /\ ex'[f].got \in {ex[f].got, <<>>}

LEMMA QuietSteps ==
  ASSUME TInv, NEW r \in Request,
         \/ Begin(r) \/ AuthFails(r) \/ UseHttp(r) \/ UseWebSocket(r) \/ AcquireMu(r) \/ Busy(r)
         \/ TooLarge(r) \/ Reuse(r) \/ Dial(r) \/ DialFails(r) \/ WriteFails(r) \/ TakeEntry(r)
         \/ CloseVictim(r) \/ Refused(r) \/ HttpCompletes(r) \/ HttpFails(r) \/ StopReading(r)
         \/ Record(r) \/ Continue(r) \/ Broken(r) \/ Return(r)
  PROVE  SameStreams
<1>a. ex \in [Exchange -> Exchanges]
  BY DEF TInv, TypeOK
<1>1. CASE \/ Begin(r) \/ AuthFails(r) \/ UseHttp(r) \/ UseWebSocket(r) \/ AcquireMu(r) \/ Busy(r)
           \/ TooLarge(r) \/ Reuse(r) \/ Dial(r) \/ DialFails(r) \/ WriteFails(r) \/ TakeEntry(r)
           \/ CloseVictim(r) \/ Refused(r) \/ HttpCompletes(r) \/ HttpFails(r) \/ Return(r)
  <2>1. UNCHANGED ex
    BY <1>1 DEF Begin, AuthFails, UseHttp, UseWebSocket, AcquireMu, Busy, TooLarge, Reuse, Dial,
         DialFails, WriteFails, TakeEntry, CloseVictim, Refused, HttpCompletes, HttpFails, Return
  <2> QED BY <2>1 DEF SameStreams
<1>2. CASE StopReading(r) \/ Record(r) \/ Continue(r) \/ Broken(r)
  <2>1. PICK pipe : LeavePipe(r, pipe)
    BY <1>2 DEF StopReading, Record, Continue, Broken
  <2> DEFINE e == Now(r)
  <2>2. ex' = [ex EXCEPT ![e].pipe = pipe, ![e].got = <<>>]
    BY <2>1 DEF LeavePipe
  <2> HIDE DEF e
  <2> QED BY <1>a, <2>2 DEF SameStreams, Exchanges
<1> QED BY <1>1, <1>2

\* The stream of a response begins with its request written.
LEMMA WriteSteps ==
  ASSUME TInv, NEW r \in Request, Write(r)
  PROVE  LET n == req[r].try + 1
             e == <<r, n>> IN
         /\ n \in 1..Budget[r] /\ e \in Exchange /\ req[r].conv \in Id /\ ~Over(r)
         /\ ex'[e].stream = "reading" /\ ex'[e].link = wconn[req[r].conv]
         /\ ex'[e].kind = ex[e].kind /\ ex'[e].got = ex[e].got
         /\ \A f \in Exchange : f # e => ex'[f] = ex[f]
         /\ Others(r) /\ ~Locking(req'[r]) /\ req'[r].try = n
<1> DEFINE n == req[r].try + 1
           e == <<r, n>>
           k == wconn[req[r].conv]
<1>1. /\ At(r, "write") /\ req[r].try \in Nat /\ Budget[r] \in Nat
      /\ n \in 1..Budget[r] /\ e \in Exchange
  BY WriteOpens DEF TInv
<1>2. req[r].conv \in Id /\ ~Over(r)
  <2>1. <<"done">> # <<>>
    OBVIOUS
  <2> QED BY <2>1, <1>1 DEF TInv, Places, Placed, Over, At, Retiring
<1>3. Others(r) /\ ~Locking(req'[r]) /\ req'[r].try = n
  <2>1. req \in [Request -> Handlers]
    BY DEF TInv, TypeOK
  <2>2. req' = [req EXCEPT ![r].pc = "streaming", ![r].try = @ + 1, ![r].left = Spend(@),
                           ![r].conv = 0, ![r].conn = k]
    BY DEF Write
  <2>3. Others(r) /\ req'[r].pc = "streaming" /\ req'[r].try = n
    BY <2>1, <2>2 DEF Others, Handlers
  <2> QED BY <2>3 DEF Locking
<1>4. ex' = [ex EXCEPT ![e].stream = "reading", ![e].pipe = "open", ![e].link = k,
                       ![e].watcher = "armed"]
  BY DEF Write
<1> HIDE DEF e, k
<1>5. ex \in [Exchange -> Exchanges]
  BY DEF TInv, TypeOK
<1>6. /\ ex'[e].stream = "reading" /\ ex'[e].link = k
      /\ ex'[e].kind = ex[e].kind /\ ex'[e].got = ex[e].got
      /\ \A f \in Exchange : f # e => ex'[f] = ex[f]
  BY <1>1, <1>4, <1>5 DEF Exchanges
<1> QED BY <1>1, <1>2, <1>3, <1>6 DEF e, k

\* What a stream delivers reaches its handler.
LEMMA DeliverSteps ==
  ASSUME TInv, NEW e \in Exchange, NEW pipe, Deliver(e, pipe)
  PROVE  /\ \A f \in Exchange : f # e => ex'[f] = ex[f]
         /\ ex[e].stream = "writing" /\ ex[e].kind.what \in Messages
         /\ ex'[e].link = ex[e].link /\ ex'[e].got = ex[e].kind.for
         /\ ex'[e].stream = IF ex[e].kind.what \in {"failed", "completed"} THEN "closing"
                            ELSE "reading"
<1>1. ex \in [Exchange -> Exchanges]
  BY DEF TInv, TypeOK
<1>2. ex[e].stream = "writing" /\ ex[e].kind.what \in Messages
  BY DEF TInv, Places, Said, Deliver
<1> DEFINE s == IF ex[e].kind.what \in {"failed", "completed"} THEN "closing" ELSE "reading"
<1>3. ex' = [ex EXCEPT ![e].stream = s, ![e].kind = None, ![e].got = ex[e].kind.for,
                       ![e].pipe = pipe]
  BY DEF Deliver
<1> HIDE DEF s
<1>4. /\ \A f \in Exchange : f # e => ex'[f] = ex[f]
      /\ ex'[e].link = ex[e].link /\ ex'[e].got = ex[e].kind.for /\ ex'[e].stream = s
  BY <1>1, <1>3 DEF Exchanges
<1> QED BY <1>2, <1>4 DEF s

LEMMA ReadSteps ==
  ASSUME TInv, NEW e \in Exchange, ReadMessage(e)
  PROVE  \E what \in Messages :
           /\ \A f \in Exchange : f # e => ex'[f] = ex[f]
           /\ ex'[e].stream = "writing" /\ ex'[e].link = ex[e].link /\ ex'[e].got = ex[e].got
           /\ ex'[e].kind.what = what /\ ex'[e].kind.for = Head(answering[ex[e].link])
           /\ answering' = IF what = "event" THEN answering
                           ELSE [answering EXCEPT ![ex[e].link] = Tail(@)]
<1>1. ex \in [Exchange -> Exchanges]
  BY DEF TInv, TypeOK
<1>2. PICK what \in Messages :
        /\ ex' = [ex EXCEPT ![e].stream = "writing",
                            ![e].kind = [what |-> what, for |-> Head(answering[ex[e].link])]]
        /\ answering' = IF what = "event" THEN answering
                        ELSE [answering EXCEPT ![ex[e].link] = Tail(@)]
  BY DEF ReadMessage
<1>3. /\ \A f \in Exchange : f # e => ex'[f] = ex[f]
      /\ ex'[e].stream = "writing" /\ ex'[e].link = ex[e].link /\ ex'[e].got = ex[e].got
      /\ ex'[e].kind.what = what /\ ex'[e].kind.for = Head(answering[ex[e].link])
  BY <1>1, <1>2 DEF Exchanges
<1> QED BY <1>2, <1>3

\* A stream that is closing its response, and the end of it.
LEMMA StreamSteps ==
  ASSUME TInv, NEW e \in Exchange, Stream(e)
  PROVE  /\ \A f \in Exchange : f # e => ex'[f] = ex[f]
         /\ ex[e].stream \in Holding /\ ex'[e].got = ex[e].got
         /\ ex'[e].stream \in {"closing", "unlocking", "ended"}
         /\ ex'[e].stream = "ended" <=> UnlockAndSignal(e)
<1>1. ex \in [Exchange -> Exchanges]
  BY DEF TInv, TypeOK
<1>2. ASSUME ReadFails(e) \/ PipeClosed(e)
      PROVE  /\ \A f \in Exchange : f # e => ex'[f] = ex[f]
             /\ ex[e].stream \in {"reading", "writing"} /\ ex'[e].got = ex[e].got
             /\ ex'[e].stream = "closing"
  BY <1>1, <1>2 DEF ReadFails, PipeClosed, Exchanges
<1>3. ASSUME CloseWriter(e)
      PROVE  /\ \A f \in Exchange : f # e => ex'[f] = ex[f]
             /\ ex[e].stream = "closing" /\ ex'[e].got = ex[e].got
             /\ ex'[e].stream = "unlocking"
  BY <1>1, <1>3 DEF CloseWriter, Exchanges
<1>4. ASSUME UnlockAndSignal(e)
      PROVE  /\ \A f \in Exchange : f # e => ex'[f] = ex[f]
             /\ ex[e].stream = "unlocking" /\ ex'[e].got = ex[e].got
             /\ ex'[e].stream = "ended"
  BY <1>1, <1>4 DEF UnlockAndSignal, Exchanges
<1> QED BY <1>2, <1>3, <1>4 DEF Stream, Holding

\* The watcher forgets the connection only of a response that has ended.
LEMMA WatcherSteps ==
  ASSUME TInv, NEW e \in Exchange, Watcher(e)
  PROVE  /\ \A f \in Exchange : f # e => ex'[f] = ex[f]
         /\ ex'[e].stream = ex[e].stream /\ ex'[e].kind = ex[e].kind /\ ex'[e].got = ex[e].got
         /\ ex'[e].link = ex[e].link \/ ex[e].stream = "ended"
<1>1. ex \in [Exchange -> Exchanges]
  BY DEF TInv, TypeOK
<1>2. CASE WatcherCloses(e)
  BY <1>1, <1>2 DEF WatcherCloses, Exchanges
<1>3. CASE WatcherQuits(e)
  BY <1>1, <1>3 DEF WatcherQuits, Exchanges
<1> QED BY <1>2, <1>3 DEF Watcher

-----------------------------------------------------------------------------
(* The mutex and its holder                                                *)

\* Steps that start no stream and end none.
StreamsGoOn ==
  \A f \in Exchange : ex'[f].stream = ex[f].stream
                      \/ (ex[f].stream \in Holding /\ ex'[f].stream \in Holding)

LEMMA PassKeepsLocks ==
  ASSUME TInv, LInv, NEW r \in Request, Passes(r), ~Locking(req[r]), UNCHANGED mu, StreamsGoOn
  PROVE  LInv'
<1>1. ToCome'
  <2> SUFFICES ASSUME NEW s \in Request, ~Over(s)', NEW n \in 1..Budget[s], n > req'[s].try
               PROVE  ex'[<<s, n>>].stream = "off"
    BY DEF ToCome
  <2>1. ~Over(s) /\ req'[s].try = req[s].try
    BY DEF Passes, Others, Over
  <2>2. ex[<<s, n>>].stream = "off" /\ <<s, n>> \in Exchange
    BY <2>1, Names DEF LInv, ToCome
  <2> QED BY <2>2 DEF StreamsGoOn, Holding
<1>2. HandlerHolds'
  BY DEF LInv, HandlerHolds, Passes, Others, Locking
<1>3. StreamHolds'
  BY DEF LInv, StreamHolds, StreamsGoOn, Holding
<1> QED BY <1>1, <1>2, <1>3 DEF LInv

LEMMA ReleaseKeepsLocks ==
  ASSUME TInv, LInv, NEW r \in Request, Passes(r), Locking(req[r]), SameStreams,
         mu' = [mu EXCEPT ![req[r].conv] = <<>>]
  PROVE  LInv'
<1>a. mu \in [Id -> Holders] /\ req[r].conv \in Id
  BY DEF TInv, TypeOK, Holders, Places, Placed, Locking
<1>1. ToCome'
  <2> SUFFICES ASSUME NEW s \in Request, ~Over(s)', NEW n \in 1..Budget[s], n > req'[s].try
               PROVE  ex'[<<s, n>>].stream = "off"
    BY DEF ToCome
  <2>1. ~Over(s) /\ req'[s].try = req[s].try
    BY DEF Passes, Others, Over
  <2>2. ex[<<s, n>>].stream = "off" /\ <<s, n>> \in Exchange
    BY <2>1, Names DEF LInv, ToCome
  <2> QED BY <2>2 DEF SameStreams
<1>2. HandlerHolds'
  <2> SUFFICES ASSUME NEW s \in Request, NEW c \in Id
               PROVE  mu'[c] = <<s>> <=> Locking(req'[s]) /\ req'[s].conv = c
    BY DEF HandlerHolds, Locking
  <2>1. mu[c] = <<s>> <=> Locking(req[s]) /\ req[s].conv = c
    BY DEF LInv, HandlerHolds, Locking
  <2>2. mu[req[r].conv] = <<r>>
    BY <1>a DEF LInv, HandlerHolds, Locking
  <2>3. CASE s = r
    BY <2>1, <2>3, <1>a, Names DEF Passes
  <2>4. CASE s # r
    <3>1. req'[s] = req[s]
      BY <2>4 DEF Passes, Others
    <3>2. CASE c = req[r].conv
      BY <2>1, <2>2, <2>4, <3>1, <3>2, <1>a, Names
    <3>3. CASE c # req[r].conv
      BY <2>1, <3>1, <3>3, <1>a
    <3> QED BY <3>2, <3>3
  <2> QED BY <2>3, <2>4
<1>3. StreamHolds'
  BY <1>a, Names DEF LInv, StreamHolds, SameStreams
<1> QED BY <1>1, <1>2, <1>3 DEF LInv

LEMMA AcquireKeepsLocks ==
  ASSUME TInv, LInv, NEW r \in Request, AcquireMu(r)
  PROVE  LInv'
<1>a. /\ mu \in [Id -> Holders] /\ req[r].conv \in Id /\ ~Over(r)
  <2>1. <<"done">> # <<>>
    OBVIOUS
  <2> QED BY <2>1 DEF TInv, TypeOK, Holders, Places, Placed, AcquireMu, At, Over, Retiring
<1>b. Others(r) /\ req'[r].pc = "locked" /\ req'[r].conv = req[r].conv /\ req'[r].try = req[r].try
  BY DEF TInv, TypeOK, AcquireMu, Others, Handlers
<1>c. mu[req[r].conv] = <<>> /\ mu' = [mu EXCEPT ![req[r].conv] = <<r>>] /\ UNCHANGED ex
  BY DEF AcquireMu
<1>1. ToCome'
  BY <1>a, <1>b, <1>c DEF LInv, ToCome, Over, Others
<1>2. HandlerHolds'
  <2> SUFFICES ASSUME NEW s \in Request, NEW c \in Id
               PROVE  mu'[c] = <<s>> <=> Locking(req'[s]) /\ req'[s].conv = c
    BY DEF HandlerHolds, Locking
  <2>1. mu[c] = <<s>> <=> Locking(req[s]) /\ req[s].conv = c
    BY DEF LInv, HandlerHolds, Locking
  <2>2. ~Locking(req[r])
    BY DEF AcquireMu, At, Locking
  <2>3. CASE s = r
    BY <2>1, <2>2, <2>3, <1>a, <1>b, <1>c DEF Locking
  <2>4. CASE s # r
    BY <2>1, <2>4, <1>a, <1>b, <1>c, Names DEF Others
  <2> QED BY <2>3, <2>4
<1>3. StreamHolds'
  BY <1>a, <1>c, Names DEF LInv, StreamHolds
<1> QED BY <1>1, <1>2, <1>3 DEF LInv

LEMMA ConnectKeepsLocks ==
  ASSUME TInv, LInv, NEW r \in Request, Reuse(r) \/ Dial(r)
  PROVE  LInv'
<1>a. ~Over(r)
  <2>1. <<"done">> # <<>>
    OBVIOUS
  <2> QED BY <2>1 DEF TInv, Places, Placed, Reuse, Dial, At, Over, Retiring
<1>b. /\ Others(r) /\ req[r].pc = "locked" /\ req'[r].pc = "write"
      /\ req'[r].conv = req[r].conv /\ req'[r].try = req[r].try
  BY DEF TInv, TypeOK, Reuse, Dial, At, Others, Handlers
<1>c. UNCHANGED <<mu, ex>>
  BY DEF Reuse, Dial, convVars
<1>1. ToCome'
  BY <1>a, <1>b, <1>c DEF LInv, ToCome, Over, Others
<1>2. HandlerHolds'
  BY <1>b, <1>c DEF LInv, HandlerHolds, Others
<1>3. StreamHolds'
  BY <1>c DEF LInv, StreamHolds
<1> QED BY <1>1, <1>2, <1>3 DEF LInv

LEMMA WriteKeepsLocks ==
  ASSUME TInv, LInv, NEW r \in Request, Write(r)
  PROVE  LInv'
<1> DEFINE n == req[r].try + 1
           e == <<r, n>>
           c == req[r].conv
<1>a. /\ n \in 1..Budget[r] /\ e \in Exchange /\ c \in Id /\ ~Over(r)
      /\ ex'[e].stream = "reading" /\ \A f \in Exchange : f # e => ex'[f] = ex[f]
      /\ Others(r) /\ ~Locking(req'[r]) /\ req'[r].try = n
  BY WriteSteps
<1>b. mu \in [Id -> Holders] /\ mu' = [mu EXCEPT ![c] = e] /\ Locking(req[r])
  BY DEF TInv, TypeOK, Holders, Write, Locking, At
<1>c. req[r].try \in Nat /\ Budget[r] \in Nat
  BY HandlerParts, NumbersAssumption DEF TInv, TypeOK
<1>d. ex[e].stream = "off"
  BY <1>a, <1>c DEF LInv, ToCome
<1>1. ToCome'
  <2> SUFFICES ASSUME NEW s \in Request, ~Over(s)', NEW m \in 1..Budget[s], m > req'[s].try
               PROVE  ex'[<<s, m>>].stream = "off"
    BY DEF ToCome
  <2>1. <<s, m>> \in Exchange
    BY Names
  <2>2. CASE s = r
    <3>1. m > n /\ m > req[r].try /\ <<s, m>> # e
      BY <2>2, <1>a, <1>c
    <3> QED BY <2>1, <2>2, <3>1, <1>a DEF LInv, ToCome
  <2>3. CASE s # r
    <3>1. <<s, m>> # e /\ req'[s] = req[s] /\ ~Over(s)
      BY <2>3, <1>a DEF Others, Over
    <3> QED BY <2>1, <3>1, <1>a DEF LInv, ToCome
  <2> QED BY <2>2, <2>3
<1>e. mu[c] = <<r>>
  BY <1>a, <1>b DEF LInv, HandlerHolds, Locking
<1> HIDE DEF n, e, c
<1>2. HandlerHolds'
  <2> SUFFICES ASSUME NEW s \in Request, NEW d \in Id
               PROVE  mu'[d] = <<s>> <=> Locking(req'[s]) /\ req'[s].conv = d
    BY DEF HandlerHolds, Locking
  <2>1. mu[d] = <<s>> <=> Locking(req[s]) /\ req[s].conv = d
    BY DEF LInv, HandlerHolds, Locking
  <2>2. CASE s = r
    BY <2>1, <2>2, <1>a, <1>b, Names DEF c
  <2>3. CASE s # r
    BY <2>1, <2>3, <1>a, <1>b, <1>e, Names DEF Others
  <2> QED BY <2>2, <2>3
<1>3. StreamHolds'
  <2>1. ASSUME NEW f \in Exchange, NEW d \in Id, mu'[d] = f
        PROVE  ex'[f].stream \in Holding /\ (f = e => d = c) /\ (f # e => mu[d] = f)
    BY <2>1, <1>a, <1>b, <1>d DEF LInv, StreamHolds, Holding
  <2> QED BY <2>1 DEF LInv, StreamHolds
<1> QED BY <1>1, <1>2, <1>3 DEF LInv

\* The steps of streams, watchers and the environment.
LEMMA StreamKeepsLocks ==
  ASSUME TInv, LInv, UNCHANGED <<mu, req>>, StreamsGoOn
  PROVE  LInv'
<1>1. ToCome'
  <2> SUFFICES ASSUME NEW s \in Request, ~Over(s)', NEW n \in 1..Budget[s], n > req'[s].try
               PROVE  ex'[<<s, n>>].stream = "off"
    BY DEF ToCome
  <2>1. ex[<<s, n>>].stream = "off" /\ <<s, n>> \in Exchange
    BY Names DEF LInv, ToCome, Over
  <2> QED BY <2>1 DEF StreamsGoOn, Holding
<1>2. HandlerHolds' /\ StreamHolds'
  BY DEF LInv, HandlerHolds, StreamHolds, StreamsGoOn, Holding
<1> QED BY <1>1, <1>2 DEF LInv

LEMMA UnlockKeepsLocks ==
  ASSUME TInv, LInv, NEW e \in Exchange, UnlockAndSignal(e)
  PROVE  LInv'
<1>a. mu \in [Id -> Holders] /\ UNCHANGED req
  BY DEF TInv, TypeOK, Holders, UnlockAndSignal
<1>b. PICK c \in Id : mu[c] = e /\ mu' = [mu EXCEPT ![c] = <<>>]
  BY DEF UnlockAndSignal
<1>c. /\ \A f \in Exchange : f # e => ex'[f] = ex[f]
      /\ ex[e].stream \in Holding
  BY StreamSteps DEF Stream
<1>1. ToCome'
  <2> SUFFICES ASSUME NEW s \in Request, ~Over(s)', NEW n \in 1..Budget[s], n > req'[s].try
               PROVE  ex'[<<s, n>>].stream = "off"
    BY DEF ToCome
  <2>1. ex[<<s, n>>].stream = "off" /\ <<s, n>> \in Exchange
    BY <1>a, Names DEF LInv, ToCome, Over
  <2> QED BY <2>1, <1>c DEF Holding
<1>2. HandlerHolds'
  BY <1>a, <1>b, Names DEF LInv, HandlerHolds
<1>3. StreamHolds'
  BY <1>a, <1>b, <1>c, Names DEF LInv, StreamHolds
<1> QED BY <1>1, <1>2, <1>3 DEF LInv

LEMMA LocksKept == TInv /\ LInv /\ [Next]_vars => LInv'
<1> SUFFICES ASSUME TInv, LInv, [Next]_vars PROVE LInv'
  OBVIOUS
<1>1. ASSUME NEW r \in Request, Handler(r) PROVE LInv'
  <2>1. CASE \/ Begin(r) \/ AuthFails(r) \/ UseHttp(r) \/ UseWebSocket(r) \/ Busy(r) \/ TakeEntry(r)
             \/ CloseVictim(r) \/ Refused(r) \/ HttpCompletes(r) \/ HttpFails(r) \/ StopReading(r)
             \/ Record(r) \/ Continue(r) \/ Broken(r) \/ Return(r)
    <3>1. ~Locking(req[r]) /\ UNCHANGED mu
      BY <2>1 DEF Begin, AuthFails, UseHttp, UseWebSocket, Busy, TakeEntry, CloseVictim, Refused,
           HttpCompletes, HttpFails, StopReading, Record, Continue, Broken, Return, Streaming, At,
           Locking, convVars
    <3>2. StreamsGoOn
      BY <2>1, QuietSteps DEF SameStreams, StreamsGoOn
    <3> QED BY <2>1, <3>1, <3>2, HandlerPasses, PassKeepsLocks
  <2>2. CASE TooLarge(r) \/ DialFails(r) \/ WriteFails(r)
    <3>1. Locking(req[r]) /\ mu' = [mu EXCEPT ![req[r].conv] = <<>>]
      BY <2>2 DEF TooLarge, DialFails, WriteFails, At, Locking
    <3> QED BY <2>2, <3>1, QuietSteps, HandlerPasses, ReleaseKeepsLocks
  <2>3. CASE ReceiveFailure(r) \/ Receive(r)
    <3>1. ~Locking(req[r]) /\ UNCHANGED mu
      BY <2>3 DEF ReceiveFailure, Receive, Streaming, At, Locking
    <3>2. PICK pipe : Deliver(Now(r), pipe)
      BY <2>3 DEF ReceiveFailure, Receive
    <3>3. Now(r) \in Exchange
      BY <2>3, Names DEF ReceiveFailure, Receive, Streaming, At, Now, TInv, Places, Placed
    <3>4. StreamsGoOn
      BY <3>2, <3>3, DeliverSteps DEF StreamsGoOn, Holding
    <3> QED BY <2>3, <3>1, <3>4, HandlerPasses, PassKeepsLocks
  <2> QED BY <1>1, <2>1, <2>2, <2>3, AcquireKeepsLocks, ConnectKeepsLocks, WriteKeepsLocks DEF Handler
<1>2. ASSUME NEW e \in Exchange, Stream(e) \/ ReadMessage(e) \/ Watcher(e) PROVE LInv'
  <2>1. CASE UnlockAndSignal(e)
    BY <2>1, UnlockKeepsLocks
  <2>2. CASE ReadFails(e) \/ PipeClosed(e) \/ CloseWriter(e) \/ ReadMessage(e) \/ Watcher(e)
    <3>1. UNCHANGED <<mu, req>>
      BY <2>2 DEF ReadFails, PipeClosed, CloseWriter, ReadMessage, Watcher, WatcherCloses,
           WatcherQuits, convVars
    <3>2. CASE ReadFails(e) \/ PipeClosed(e) \/ CloseWriter(e)
      <4>1. ex[e].stream \notin {"unlocking"}
        BY <3>2 DEF ReadFails, PipeClosed, CloseWriter
      <4>2. Stream(e) /\ ~UnlockAndSignal(e)
        BY <3>2, <4>1 DEF Stream, UnlockAndSignal
      <4>3. StreamsGoOn
        BY <4>2, StreamSteps DEF StreamsGoOn, Holding
      <4> QED BY <3>1, <4>3, StreamKeepsLocks
    <3>3. CASE ReadMessage(e)
      <4>1. ex[e].stream = "reading"
        BY <3>3 DEF ReadMessage
      <4>2. StreamsGoOn
        BY <3>3, <4>1, ReadSteps DEF StreamsGoOn, Holding
      <4> QED BY <3>1, <4>2, StreamKeepsLocks
    <3>4. CASE Watcher(e)
      <4>1. StreamsGoOn
        BY <3>4, WatcherSteps DEF StreamsGoOn
      <4> QED BY <3>1, <4>1, StreamKeepsLocks
    <3> QED BY <2>2, <3>2, <3>3, <3>4
  <2> QED BY <1>2, <2>1, <2>2 DEF Stream
<1>3. CASE (\E r \in Request : ClientLeaves(r)) \/ (\E k \in Id : ConnectionDrops(k))
             \/ TokenChanges \/ Terminated \/ UNCHANGED vars
  <2>1. UNCHANGED <<mu, req, ex>>
    BY <1>3 DEF ClientLeaves, ConnectionDrops, TokenChanges, Terminated, vars, convVars
  <2>2. StreamsGoOn
    BY <2>1 DEF StreamsGoOn
  <2> QED BY <2>1, <2>2, StreamKeepsLocks
<1>4. CASE \E r \in Request : Handler(r)
  BY <1>1, <1>4
<1>5. CASE \E e \in Exchange : Stream(e) \/ ReadMessage(e) \/ Watcher(e)
  BY <1>2, <1>5
<1> QED BY <1>3, <1>4, <1>5 DEF Next

-----------------------------------------------------------------------------
(* Connections                                                             *)

\* A conversation is changed only while it is free, by the handler that has its
\* mutex and does not write, or by the stream that has it and no longer reads.
ChangedByItsHolder ==
  \A c \in Id : mu'[c] # mu[c] \/ wconn'[c] # wconn[c] =>
    \/ mu[c] = <<>>
    \/ \E s \in Request : mu[c] = <<s>> /\ req'[s].pc # "write"
    \/ \E e \in Exchange : mu[c] = e /\ ~Active(e)'

NoNewWriter ==
  \A s \in Request : req'[s].pc = "write" => req[s].pc = "write" /\ req'[s].conv = req[s].conv
NoNewReader ==
  \A e \in Exchange : Active(e)' => Active(e) /\ ex'[e].link = ex[e].link

LEMMA HoldersKeepConnections ==
  ASSUME TInv, LInv, CInv, ChangedByItsHolder, NoNewWriter, NoNewReader, OneConversation',
         OpenIsHeld'
  PROVE  CInv'
<1>1. WriterConnected'
  <2> SUFFICES ASSUME NEW s \in Request, req'[s].pc = "write"
               PROVE  wconn'[req'[s].conv] \in Id
    BY DEF WriterConnected
  <2> DEFINE c == req[s].conv
  <2>1. req[s].pc = "write" /\ req'[s].conv = c /\ c \in Id
    BY DEF NoNewWriter, TInv, Places, Placed
  <2>2. mu[c] = <<s>> /\ wconn[c] \in Id
    BY <2>1 DEF LInv, HandlerHolds, CInv, WriterConnected
  <2>3. wconn'[c] = wconn[c]
    BY <2>1, <2>2, Names DEF ChangedByItsHolder
  <2> QED BY <2>1, <2>2, <2>3
<1>2. ReaderConnected'
  BY DEF CInv, ReaderConnected, NoNewReader
<1>3. StreamOwnsConnection'
  <2> SUFFICES ASSUME NEW e \in Exchange, Active(e)'
               PROVE  \E c \in Id : mu'[c] = e /\ wconn'[c] = ex'[e].link
    BY DEF StreamOwnsConnection
  <2>1. Active(e) /\ ex'[e].link = ex[e].link
    BY DEF NoNewReader
  <2>2. PICK c \in Id : mu[c] = e /\ wconn[c] = ex[e].link
    BY <2>1 DEF CInv, StreamOwnsConnection
  <2>3. mu'[c] = mu[c] /\ wconn'[c] = wconn[c]
    BY <2>2, Names DEF ChangedByItsHolder
  <2> QED BY <2>1, <2>2, <2>3
<1> QED BY <1>1, <1>2, <1>3 DEF CInv

LEMMA HangupHolds ==
  ASSUME CInv, NEW k, Hangup(k)
  PROVE  \A i \in Id : open'[i] => open[i] /\ i # k
BY DEF Hangup

LEMMA ShutHolds ==
  ASSUME TInv, CInv, NEW c \in Id, Shut(c)
  PROVE  /\ OneConversation' /\ OpenIsHeld'
         /\ \A d \in Id : d # c => wconn'[d] = wconn[d]
<1>1. wconn \in [Id -> 0..MaxId] /\ wconn' = [wconn EXCEPT ![c] = 0]
  BY DEF TInv, TypeOK, Shut
<1>2. \A d \in Id : wconn'[d] = IF d = c THEN 0 ELSE wconn[d]
  BY <1>1
<1>3. \A i \in Id : open'[i] => open[i] /\ i # wconn[c]
  BY DEF Shut, Hangup
<1>4. OneConversation'
  BY <1>2 DEF CInv, OneConversation
<1>5. OpenIsHeld'
  BY <1>2, <1>3 DEF CInv, OpenIsHeld
<1> QED BY <1>2, <1>4, <1>5

LEMMA SameHolds ==
  ASSUME CInv, UNCHANGED wconn, UNCHANGED open \/ \E k : Hangup(k)
  PROVE  OneConversation' /\ OpenIsHeld'
<1>1. \A i \in Id : open'[i] => open[i]
  BY HangupHolds
<1> QED BY <1>1 DEF CInv, OneConversation, OpenIsHeld

\* ShutOwn closes the connection of the one conversation whose mutex e has.
LEMMA OwnHolds ==
  ASSUME TInv, LInv, CInv, NEW e \in Exchange, ShutOwn(e)
  PROVE  \E c \in Id : /\ mu[c] = e /\ Shut(c)
                       /\ \A d \in Id : d # c => mu[d] # e
BY DEF ShutOwn, LInv, StreamHolds

LEMMA SameReaders ==
  ASSUME SameStreams
  PROVE  NoNewReader
BY DEF SameStreams, NoNewReader, Active

LEMMA PassesWriters ==
  ASSUME NEW r \in Request, Passes(r)
  PROVE  NoNewWriter
BY DEF Passes, Others, Locking, NoNewWriter

LEMMA QuietKeepsConnections ==
  ASSUME TInv, LInv, CInv, UNCHANGED <<mu, wconn>>, NoNewWriter, NoNewReader,
         UNCHANGED open \/ \E k : Hangup(k)
  PROVE  CInv'
<1>1. ChangedByItsHolder
  BY DEF ChangedByItsHolder
<1> QED BY <1>1, SameHolds, HoldersKeepConnections

LEMMA ReleaseKeepsConnections ==
  ASSUME TInv, LInv, CInv, NEW r \in Request, TooLarge(r) \/ DialFails(r) \/ WriteFails(r)
  PROVE  CInv'
<1> DEFINE c == req[r].conv
<1>1. Passes(r) /\ SameStreams
  BY HandlerPasses, QuietSteps
<1>2. c \in Id /\ mu[c] = <<r>>
  BY DEF TooLarge, DialFails, WriteFails, At, LInv, HandlerHolds, TInv, Places, Placed
<1>3. /\ mu' = [mu EXCEPT ![c] = <<>>] /\ mu \in [Id -> Holders]
      /\ Shut(c) \/ UNCHANGED <<wconn, open>>
  BY DEF TooLarge, DialFails, WriteFails, netVars, TInv, TypeOK, Holders
<1> HIDE DEF c
<1>4. /\ OneConversation' /\ OpenIsHeld'
      /\ \A d \in Id : d # c => wconn'[d] = wconn[d]
  BY <1>2, <1>3, ShutHolds, SameHolds
<1>5. ChangedByItsHolder
  BY <1>1, <1>2, <1>3, <1>4 DEF ChangedByItsHolder, Passes, Locking
<1> QED BY <1>1, <1>4, <1>5, PassesWriters, SameReaders, HoldersKeepConnections

LEMMA CloseKeepsConnections ==
  ASSUME TInv, LInv, CInv, NEW r \in Request, CloseVictim(r)
  PROVE  CInv'
<1> DEFINE c == req[r].victim
<1>1. NoNewWriter /\ NoNewReader /\ UNCHANGED mu
  BY HandlerPasses, QuietSteps, PassesWriters, SameReaders DEF CloseVictim
<1>2. CASE c = 0
  BY <1>1, <1>2, QuietKeepsConnections DEF CloseVictim, netVars
<1>3. CASE c # 0
  <2>1. c \in Id
    BY <1>3, HandlerParts, NumbersAssumption DEF TInv, TypeOK, Id
  <2>2. mu[c] = <<>> /\ Shut(c)
    BY <1>3 DEF CloseVictim
  <2>3. /\ OneConversation' /\ OpenIsHeld'
        /\ \A d \in Id : d # c => wconn'[d] = wconn[d]
    BY <2>1, <2>2, ShutHolds
  <2>4. ChangedByItsHolder
    BY <1>1, <2>2, <2>3 DEF ChangedByItsHolder
  <2> QED BY <1>1, <2>3, <2>4, HoldersKeepConnections
<1> QED BY <1>2, <1>3

LEMMA AcquireKeepsConnections ==
  ASSUME TInv, LInv, CInv, NEW r \in Request, AcquireMu(r)
  PROVE  CInv'
<1>1. NoNewReader
  BY QuietSteps, SameReaders
<1>2. mu[req[r].conv] = <<>> /\ mu' = [mu EXCEPT ![req[r].conv] = <<r>>]
      /\ mu \in [Id -> Holders] /\ UNCHANGED <<wconn, open>>
  BY DEF AcquireMu, netVars, TInv, TypeOK, Holders
<1>3. ChangedByItsHolder
  BY <1>2 DEF ChangedByItsHolder
<1>4. NoNewWriter
  BY DEF AcquireMu, TInv, TypeOK, Handlers, NoNewWriter
<1> QED BY <1>1, <1>2, <1>3, <1>4, SameHolds, HoldersKeepConnections

LEMMA ReuseKeepsConnections ==
  ASSUME TInv, LInv, CInv, NEW r \in Request, Reuse(r)
  PROVE  CInv'
<1>1. /\ Others(r) /\ req[r].pc = "locked" /\ req'[r].conv = req[r].conv
      /\ req[r].conv \in Id /\ wconn[req[r].conv] # 0
      /\ UNCHANGED <<mu, wconn, open, ex>> /\ wconn \in [Id -> 0..MaxId]
  BY DEF TInv, TypeOK, Places, Placed, Reuse, Reusable, At, Others, Handlers, convVars, netVars
<1>2. wconn[req[r].conv] \in Id
  BY <1>1, NumbersAssumption DEF Id
<1>3. OneConversation' /\ OpenIsHeld'
  BY <1>1, SameHolds
<1> QED BY <1>1, <1>2, <1>3
       DEF CInv, WriterConnected, ReaderConnected, StreamOwnsConnection, Active, Others

LEMMA DialKeepsConnections ==
  ASSUME TInv, LInv, CInv, NEW r \in Request, Dial(r)
  PROVE  CInv'
<1> DEFINE c == req[r].conv
<1>1. PICK k \in Id : /\ Fresh(k, UsedConnections)
                      /\ open' = [i \in Id |-> i = k \/ (open[i] /\ i # wconn[c])]
                      /\ wconn' = [wconn EXCEPT ![c] = k]
  BY DEF Dial
<1>2. /\ Others(r) /\ req[r].pc = "locked" /\ req'[r].conv = c /\ c \in Id
      /\ UNCHANGED <<mu, ex>> /\ wconn \in [Id -> 0..MaxId]
  BY DEF TInv, TypeOK, Places, Placed, Dial, At, Others, Handlers
<1>3. mu[c] = <<r>>
  BY <1>2 DEF LInv, HandlerHolds
<1> HIDE DEF c
<1>4. \A d \in Id : wconn[d] # k /\ wconn'[d] = IF d = c THEN k ELSE wconn[d]
  BY <1>1, <1>2 DEF Fresh, UsedConnections
<1>5. \A i \in Id : open'[i] => i = k \/ (open[i] /\ i # wconn[c])
  BY <1>1
<1>6. OneConversation'
  BY <1>4 DEF CInv, OneConversation
<1>7. OpenIsHeld'
  BY <1>2, <1>4, <1>5 DEF CInv, OpenIsHeld
<1>8. WriterConnected'
  <2> SUFFICES ASSUME NEW s \in Request, req'[s].pc = "write"
               PROVE  wconn'[req'[s].conv] \in Id
    BY DEF WriterConnected
  <2>1. CASE s = r
    BY <2>1, <1>2, <1>4
  <2>2. CASE s # r
    <3>1. req[s].pc = "write" /\ req'[s].conv = req[s].conv /\ req[s].conv \in Id
      BY <2>2, <1>2 DEF Others, TInv, Places, Placed
    <3>2. mu[req[s].conv] = <<s>> /\ wconn[req[s].conv] \in Id
      BY <3>1 DEF LInv, HandlerHolds, CInv, WriterConnected
    <3> QED BY <2>2, <3>1, <3>2, <1>3, <1>4, Names
  <2> QED BY <2>1, <2>2
<1>9. ReaderConnected'
  BY <1>2 DEF CInv, ReaderConnected, Active
<1>10. StreamOwnsConnection'
  <2> SUFFICES ASSUME NEW e \in Exchange, Active(e)
               PROVE  \E d \in Id : mu'[d] = e /\ wconn'[d] = ex'[e].link
    BY <1>2 DEF StreamOwnsConnection, Active
  <2>1. PICK d \in Id : mu[d] = e /\ wconn[d] = ex[e].link
    BY DEF CInv, StreamOwnsConnection
  <2>2. d # c
    BY <2>1, <1>3, Names
  <2> QED BY <2>1, <2>2, <1>2, <1>4
<1> QED BY <1>6, <1>7, <1>8, <1>9, <1>10 DEF CInv

LEMMA WriteKeepsConnections ==
  ASSUME TInv, LInv, CInv, NEW r \in Request, Write(r)
  PROVE  CInv'
<1> DEFINE e == <<r, req[r].try + 1>>
           c == req[r].conv
<1>1. /\ e \in Exchange /\ c \in Id /\ ex'[e].link = wconn[c]
      /\ \A f \in Exchange : f # e => ex'[f] = ex[f]
      /\ Others(r) /\ ~Locking(req'[r])
  BY WriteSteps
<1>2. /\ mu \in [Id -> Holders] /\ mu' = [mu EXCEPT ![c] = e] /\ UNCHANGED <<wconn, open>>
      /\ req[r].pc = "write"
  BY DEF TInv, TypeOK, Holders, Write, At
<1>3. mu[c] = <<r>> /\ wconn[c] \in Id
  BY <1>1, <1>2 DEF LInv, HandlerHolds, CInv, WriterConnected
<1> HIDE DEF e, c
<1>4. OneConversation' /\ OpenIsHeld'
  BY <1>2, SameHolds
<1>5. WriterConnected'
  BY <1>1, <1>2 DEF CInv, WriterConnected, Others, Locking
<1>6. ReaderConnected'
  BY <1>1, <1>3 DEF CInv, ReaderConnected, Active
<1>7. StreamOwnsConnection'
  <2> SUFFICES ASSUME NEW f \in Exchange, Active(f)'
               PROVE  \E d \in Id : mu'[d] = f /\ wconn'[d] = ex'[f].link
    BY DEF StreamOwnsConnection
  <2>1. CASE f = e
    BY <2>1, <1>1, <1>2
  <2>2. CASE f # e
    <3>1. Active(f) /\ ex'[f].link = ex[f].link
      BY <2>2, <1>1 DEF Active
    <3>2. PICK d \in Id : mu[d] = f /\ wconn[d] = ex[f].link
      BY <3>1 DEF CInv, StreamOwnsConnection
    <3>3. d # c
      BY <3>2, <1>3, Names
    <3> QED BY <3>1, <3>2, <3>3, <1>2
  <2> QED BY <2>1, <2>2
<1> QED BY <1>4, <1>5, <1>6, <1>7 DEF CInv

\* A stream closes the connection of its own conversation when it stops.
LEMMA StopKeepsConnections ==
  ASSUME TInv, LInv, CInv, NEW e \in Exchange, ShutOwn(e), UNCHANGED mu, ~Active(e)',
         NoNewWriter, \A f \in Exchange : f # e => ex'[f] = ex[f]
  PROVE  CInv'
<1>1. PICK c \in Id : mu[c] = e /\ Shut(c)
  BY OwnHolds
<1>2. /\ OneConversation' /\ OpenIsHeld'
      /\ \A d \in Id : d # c => wconn'[d] = wconn[d]
  BY <1>1, ShutHolds
<1>3. ChangedByItsHolder
  BY <1>1, <1>2 DEF ChangedByItsHolder
<1>4. NoNewReader
  BY DEF NoNewReader, Active
<1> QED BY <1>2, <1>3, <1>4, HoldersKeepConnections

LEMMA DeliverKeepsConnections ==
  ASSUME TInv, LInv, CInv, NEW r \in Request, ReceiveFailure(r) \/ Receive(r)
  PROVE  CInv'
<1>1. PICK e \in Exchange : e = Now(r)
  BY Names DEF ReceiveFailure, Receive, Streaming, At, Now, TInv, Places, Placed
<1>2. PICK pipe : Deliver(e, pipe)
  BY <1>1 DEF ReceiveFailure, Receive
<1>3. NoNewWriter /\ UNCHANGED mu
  BY HandlerPasses, PassesWriters DEF ReceiveFailure, Receive
<1>4. /\ \A f \in Exchange : f # e => ex'[f] = ex[f]
      /\ ex[e].stream = "writing" /\ ex'[e].link = ex[e].link
      /\ ex'[e].stream = IF ex[e].kind.what \in {"failed", "completed"} THEN "closing" ELSE "reading"
  BY <1>2, <1>1, DeliverSteps
<1>5. CASE ex[e].kind.what = "failed"
  <2>1. ShutOwn(e) /\ ~Active(e)'
    BY <1>2, <1>4, <1>5 DEF Deliver, Active
  <2> QED BY <2>1, <1>1, <1>3, <1>4, StopKeepsConnections
<1>6. CASE ex[e].kind.what # "failed"
  <2>1. UNCHANGED <<wconn, open>>
    BY <1>2, <1>6 DEF Deliver, netVars
  <2>2. NoNewReader
    BY <1>4 DEF NoNewReader, Active
  <2> QED BY <2>1, <2>2, <1>3, QuietKeepsConnections
<1> QED BY <1>5, <1>6

LEMMA StreamKeepsConnections ==
  ASSUME TInv, LInv, CInv, NEW e \in Exchange, Stream(e)
  PROVE  CInv'
<1>1. /\ \A f \in Exchange : f # e => ex'[f] = ex[f]
      /\ ex'[e].stream \in {"closing", "unlocking", "ended"}
  BY StreamSteps
<1>2. NoNewWriter
  BY DEF NoNewWriter, Stream, ReadFails, PipeClosed, CloseWriter, UnlockAndSignal
<1>3. NoNewReader /\ ~Active(e)'
  BY <1>1 DEF NoNewReader, Active
<1>4. CASE ReadFails(e) \/ PipeClosed(e)
  BY <1>1, <1>2, <1>3, <1>4, StopKeepsConnections DEF ReadFails, PipeClosed
<1>5. CASE CloseWriter(e)
  BY <1>2, <1>3, <1>5, QuietKeepsConnections DEF CloseWriter, convVars, netVars
<1>6. CASE UnlockAndSignal(e)
  <2>1. UNCHANGED <<wconn, open>> /\ mu \in [Id -> Holders]
    BY <1>6 DEF UnlockAndSignal, netVars, TInv, TypeOK, Holders
  <2>2. PICK c \in Id : mu[c] = e /\ mu' = [mu EXCEPT ![c] = <<>>]
    BY <1>6 DEF UnlockAndSignal
  <2>3. ChangedByItsHolder
    BY <1>3, <2>1, <2>2 DEF ChangedByItsHolder
  <2> QED BY <1>2, <1>3, <2>1, <2>3, SameHolds, HoldersKeepConnections
<1> QED BY <1>4, <1>5, <1>6 DEF Stream

LEMMA ConnectionsKept == TInv /\ LInv /\ CInv /\ [Next]_vars => CInv'
<1> SUFFICES ASSUME TInv, LInv, CInv, [Next]_vars PROVE CInv'
  OBVIOUS
<1>1. ASSUME NEW r \in Request, Handler(r) PROVE CInv'
  <2>1. CASE \/ Begin(r) \/ AuthFails(r) \/ UseHttp(r) \/ UseWebSocket(r) \/ Busy(r) \/ TakeEntry(r)
             \/ Refused(r) \/ HttpCompletes(r) \/ HttpFails(r) \/ StopReading(r)
             \/ Record(r) \/ Continue(r) \/ Broken(r) \/ Return(r)
    <3>1. UNCHANGED <<mu, wconn, open>>
      BY <2>1 DEF Begin, AuthFails, UseHttp, UseWebSocket, Busy, TakeEntry, Refused,
           HttpCompletes, HttpFails, StopReading, Record, Continue, Broken, Return, convVars, netVars
    <3>2. NoNewWriter /\ NoNewReader
      BY <2>1, HandlerPasses, QuietSteps, PassesWriters, SameReaders
    <3> QED BY <3>1, <3>2, QuietKeepsConnections
  <2> QED BY <1>1, <2>1, ReleaseKeepsConnections, CloseKeepsConnections, AcquireKeepsConnections,
             ReuseKeepsConnections, DialKeepsConnections, WriteKeepsConnections,
             DeliverKeepsConnections DEF Handler
<1>2. ASSUME NEW e \in Exchange, ReadMessage(e) PROVE CInv'
  <2>1. UNCHANGED <<mu, wconn, open>> /\ NoNewWriter /\ ex[e].stream = "reading"
    BY <1>2 DEF ReadMessage, convVars, NoNewWriter
  <2>2. NoNewReader
    BY <1>2, <2>1, ReadSteps DEF NoNewReader, Active
  <2> QED BY <2>1, <2>2, QuietKeepsConnections
<1>3. ASSUME NEW e \in Exchange, Watcher(e) PROVE CInv'
  <2>1. /\ UNCHANGED <<mu, wconn>> /\ NoNewWriter
        /\ UNCHANGED open \/ \E k : Hangup(k)
    BY <1>3 DEF Watcher, WatcherCloses, WatcherQuits, convVars, netVars, NoNewWriter
  <2>2. NoNewReader
    BY <1>3, WatcherSteps DEF NoNewReader, Active
  <2> QED BY <2>1, <2>2, QuietKeepsConnections
<1>4. CASE (\E r \in Request : ClientLeaves(r)) \/ (\E k \in Id : ConnectionDrops(k))
             \/ TokenChanges \/ Terminated \/ UNCHANGED vars
  <2>1. /\ UNCHANGED <<mu, wconn, req, ex>>
        /\ UNCHANGED open \/ \E k : Hangup(k)
    BY <1>4 DEF ClientLeaves, ConnectionDrops, TokenChanges, Terminated, vars, convVars, netVars
  <2>2. NoNewWriter /\ NoNewReader
    BY <2>1 DEF NoNewWriter, NoNewReader, Active
  <2> QED BY <2>1, <2>2, QuietKeepsConnections
<1>5. CASE \E r \in Request : Handler(r)
  BY <1>1, <1>5
<1>6. CASE \E e \in Exchange : Stream(e) \/ ReadMessage(e) \/ Watcher(e)
  BY <1>2, <1>3, <1>6, StreamKeepsConnections
<1> QED BY <1>4, <1>5, <1>6 DEF Next

-----------------------------------------------------------------------------
(* Answers                                                                 *)

\* The upstream owes the stream of f the rest of its answer on connection k.
Owed(k, f) ==
  /\ answering[k] = <<f>> /\ Active(f) /\ ex[f].link = k
  /\ ex[f].stream = "writing" => ex[f].kind.what = "event"

\* Steps under which a connection that still owes an answer stays as it is.
OwesNothingNew ==
  \A k \in Id : answering'[k] # <<>> => answering'[k] = answering[k] /\ (open[k] => open'[k])
StaysOwed ==
  \A k \in Id, f \in Exchange : answering'[k] # <<>> /\ Owed(k, f) =>
    /\ ex'[f].stream \in {"reading", "writing"} /\ ex'[f].link = ex[f].link
    /\ ex'[f].stream = "writing" => ex'[f].kind.what = "event"
ReadsNothing ==
  \A f \in Exchange :
    /\ ex'[f].got \in {ex[f].got, <<>>, f}
    /\ ex'[f].stream = "writing" => ex[f].stream = "writing" /\ ex'[f].kind = ex[f].kind

LEMMA QuietKeepsAnswers ==
  ASSUME AInv, OwesNothingNew, StaysOwed, ReadsNothing
  PROVE  AInv'
<1>1. OwesItsReader'
  <2> SUFFICES ASSUME NEW k \in Id, answering'[k] # <<>>
               PROVE  open'[k] /\ \E f \in Exchange : Owed(k, f)'
    BY DEF OwesItsReader, Owed
  <2>1. answering'[k] = answering[k] /\ (open[k] => open'[k])
    BY DEF OwesNothingNew
  <2>2. PICK f \in Exchange : Owed(k, f)
    BY <2>1 DEF AInv, OwesItsReader, Owed
  <2>3. open'[k]
    BY <2>1 DEF AInv, OwesItsReader
  <2>4. Owed(k, f)'
    BY <2>1, <2>2 DEF Owed, Active, StaysOwed
  <2> QED BY <2>3, <2>4
<1>2. ReadsItsOwn'
  BY DEF AInv, ReadsItsOwn, ReadsNothing
<1>3. NoCrossTalk'
  BY DEF AInv, NoCrossTalk, ReadsNothing
<1> QED BY <1>1, <1>2, <1>3 DEF AInv

LEMMA HangupOwes ==
  ASSUME NEW k, Hangup(k)
  PROVE  OwesNothingNew /\ (k \in Id => answering'[k] = <<>>)
BY DEF Hangup, OwesNothingNew

LEMMA ShutOwes ==
  ASSUME NEW c, Shut(c)
  PROVE  OwesNothingNew /\ (wconn[c] \in Id => answering'[wconn[c]] = <<>>)
BY HangupOwes DEF Shut

LEMMA SameOwes ==
  ASSUME UNCHANGED netVars
  PROVE  OwesNothingNew
BY DEF netVars, OwesNothingNew

LEMMA SameStreamsAnswers ==
  ASSUME AInv, OwesNothingNew, SameStreams
  PROVE  AInv'
<1>1. StaysOwed /\ ReadsNothing
  BY DEF SameStreams, StaysOwed, ReadsNothing, Owed, Active
<1> QED BY <1>1, QuietKeepsAnswers

\* Whoever reads a connection has the mutex of its conversation.
LEMMA ReaderHolds ==
  ASSUME CInv, NEW c \in Id, NEW f \in Exchange, Active(f), ex[f].link = wconn[c]
  PROVE  mu[c] = f
<1>1. PICK d \in Id : mu[d] = f /\ wconn[d] = ex[f].link
  BY DEF CInv, StreamOwnsConnection
<1>2. wconn[d] = wconn[c] /\ wconn[d] # 0
  BY <1>1, NumbersAssumption DEF CInv, ReaderConnected, Id
<1> QED BY <1>1, <1>2 DEF CInv, OneConversation

LEMMA DialKeepsAnswers ==
  ASSUME TInv, AInv, NEW r \in Request, Dial(r)
  PROVE  AInv'
<1>1. PICK k \in Id :
        /\ open' = [i \in Id |-> i = k \/ (open[i] /\ i # wconn[req[r].conv])]
        /\ answering' = [i \in Id |-> IF i = wconn[req[r].conv] THEN <<>> ELSE answering[i]]
  BY DEF Dial
<1>2. \A i \in Id : answering'[i] # <<>> => answering'[i] = answering[i] /\ (open[i] => open'[i])
  BY <1>1
<1>3. OwesNothingNew
  BY <1>2 DEF OwesNothingNew
<1> QED BY <1>3, QuietSteps, SameStreamsAnswers

LEMMA WriteKeepsAnswers ==
  ASSUME TInv, LInv, CInv, AInv, NEW r \in Request, Write(r)
  PROVE  AInv'
<1> DEFINE e == <<r, req[r].try + 1>>
           c == req[r].conv
           k == wconn[c]
<1>1. /\ e \in Exchange /\ c \in Id
      /\ ex'[e].stream = "reading" /\ ex'[e].link = k
      /\ ex'[e].kind = ex[e].kind /\ ex'[e].got = ex[e].got
      /\ \A f \in Exchange : f # e => ex'[f] = ex[f]
  BY WriteSteps
<1>2. req[r].pc = "write" /\ open[k] /\ UNCHANGED open
      /\ answering' = [answering EXCEPT ![k] = Append(@, e)]
  BY DEF Write, At
<1>3. mu[c] = <<r>> /\ k \in Id /\ answering \in [Id -> Seq(Exchange)]
  BY <1>1, <1>2 DEF LInv, HandlerHolds, CInv, WriterConnected, TInv, TypeOK
<1>4. answering[k] = <<>>
  <2> SUFFICES ASSUME answering[k] # <<>> PROVE FALSE
    OBVIOUS
  <2>1. PICK f \in Exchange : Active(f) /\ ex[f].link = k
    BY <1>3 DEF AInv, OwesItsReader
  <2>2. mu[c] = f
    BY <1>1, <2>1, ReaderHolds
  <2> QED BY <1>3, <2>2, Names
<1>5. ex[e].stream = "off"
  <2>1. /\ req[r].try \in Nat /\ req[r].try + 1 \in 1..Budget[r] /\ ~Over(r)
    BY WriteSteps, HandlerParts DEF TInv, TypeOK
  <2> QED BY <2>1 DEF LInv, ToCome
<1>6. answering' = [answering EXCEPT ![k] = <<e>>]
  BY <1>2, <1>4
<1> HIDE DEF e, c, k
<1>7. OwesItsReader'
  <2> SUFFICES ASSUME NEW i \in Id, answering'[i] # <<>>
               PROVE  open'[i] /\ \E f \in Exchange :
                        /\ answering'[i] = <<f>> /\ ex'[f].stream \in {"reading", "writing"}
                        /\ ex'[f].link = i
                        /\ ex'[f].stream = "writing" => ex'[f].kind.what = "event"
    BY DEF OwesItsReader, Active
  <2>1. CASE i = k
    BY <2>1, <1>1, <1>2, <1>3, <1>6
  <2>2. CASE i # k
    <3>1. answering'[i] = answering[i]
      BY <2>2, <1>3, <1>6
    <3>2. PICK f \in Exchange : Owed(i, f)
      BY <3>1 DEF AInv, OwesItsReader, Owed
    <3>3. f # e
      BY <3>2, <1>5 DEF Owed, Active
    <3>4. open'[i]
      BY <3>1, <1>2 DEF AInv, OwesItsReader
    <3> QED BY <3>1, <3>2, <3>3, <3>4, <1>1 DEF Owed, Active
  <2> QED BY <2>1, <2>2
<1>8. ReadsItsOwn' /\ NoCrossTalk'
  BY <1>1 DEF AInv, ReadsItsOwn, NoCrossTalk
<1> QED BY <1>7, <1>8 DEF AInv

\* A connection read by the stream of e owes nobody else.
LEMMA OwesTheOneThatReads ==
  ASSUME TInv, LInv, CInv, AInv, NEW e \in Exchange, Active(e), answering[ex[e].link] # <<>>
  PROVE  Owed(ex[e].link, e)
<1> DEFINE k == ex[e].link
<1>1. k \in Id
  BY DEF CInv, ReaderConnected
<1>2. PICK f \in Exchange : Owed(k, f)
  BY <1>1 DEF AInv, OwesItsReader, Owed
<1>3. PICK c \in Id : mu[c] = e /\ wconn[c] = k
  BY DEF CInv, StreamOwnsConnection
<1>4. mu[c] = f
  BY <1>2, <1>3, ReaderHolds DEF Owed
<1> QED BY <1>2, <1>3, <1>4

LEMMA ReadKeepsAnswers ==
  ASSUME TInv, LInv, CInv, AInv, NEW e \in Exchange, ReadMessage(e)
  PROVE  AInv'
<1> DEFINE k == ex[e].link
<1>1. ex[e].stream = "reading" /\ answering[k] # <<>> /\ UNCHANGED open
  BY DEF ReadMessage
<1>2. k \in Id /\ answering[k] = <<e>>
  BY <1>1, OwesTheOneThatReads DEF Owed, Active, CInv, ReaderConnected
<1>3. Head(answering[k]) = e /\ Tail(answering[k]) = <<>>
  BY <1>2
<1>4. PICK what \in Messages :
           /\ \A f \in Exchange : f # e => ex'[f] = ex[f]
           /\ ex'[e].stream = "writing" /\ ex'[e].link = k /\ ex'[e].got = ex[e].got
           /\ ex'[e].kind.what = what /\ ex'[e].kind.for = e
           /\ answering' = IF what = "event" THEN answering ELSE [answering EXCEPT ![k] = <<>>]
  BY <1>3, ReadSteps
<1>5. answering \in [Id -> Seq(Exchange)]
  BY DEF TInv, TypeOK
<1> HIDE DEF k
<1>6. OwesItsReader'
  <2> SUFFICES ASSUME NEW i \in Id, answering'[i] # <<>>
               PROVE  open'[i] /\ \E f \in Exchange :
                        /\ answering'[i] = <<f>> /\ ex'[f].stream \in {"reading", "writing"}
                        /\ ex'[f].link = i
                        /\ ex'[f].stream = "writing" => ex'[f].kind.what = "event"
    BY DEF OwesItsReader, Active
  <2>1. answering'[i] = answering[i] /\ (i = k => what = "event")
    BY <1>4, <1>5
  <2>2. open'[i] /\ \E f \in Exchange : Owed(i, f)
    BY <2>1, <1>1 DEF AInv, OwesItsReader, Owed
  <2>3. CASE i = k
    BY <2>1, <2>2, <2>3, <1>2, <1>4
  <2>4. CASE i # k
    <3>1. PICK f \in Exchange : Owed(i, f)
      BY <2>2
    <3>2. f # e
      BY <3>1, <2>4 DEF Owed, k
    <3> QED BY <3>1, <3>2, <2>1, <2>2, <1>4 DEF Owed, Active
  <2> QED BY <2>3, <2>4
<1>7. ReadsItsOwn' /\ NoCrossTalk'
  BY <1>4 DEF AInv, ReadsItsOwn, NoCrossTalk
<1> QED BY <1>6, <1>7 DEF AInv

LEMMA DeliverKeepsAnswers ==
  ASSUME TInv, LInv, CInv, AInv, NEW r \in Request, ReceiveFailure(r) \/ Receive(r)
  PROVE  AInv'
<1>1. PICK e \in Exchange : e = Now(r)
  BY Names DEF ReceiveFailure, Receive, Streaming, At, Now, TInv, Places, Placed
<1>2. PICK pipe : Deliver(e, pipe)
  BY <1>1 DEF ReceiveFailure, Receive
<1>3. /\ \A f \in Exchange : f # e => ex'[f] = ex[f]
      /\ ex[e].stream = "writing" /\ ex'[e].link = ex[e].link /\ ex'[e].got = ex[e].kind.for
      /\ ex'[e].stream = IF ex[e].kind.what \in {"failed", "completed"} THEN "closing" ELSE "reading"
  BY <1>2, DeliverSteps
<1>4. OwesNothingNew
  <2>1. ShutOwn(e) \/ UNCHANGED netVars
    BY <1>2 DEF Deliver
  <2> QED BY <2>1, ShutOwes, SameOwes DEF ShutOwn
<1>5. StaysOwed
  <2> SUFFICES ASSUME NEW k \in Id, NEW f \in Exchange, Owed(k, f)
               PROVE  /\ ex'[f].stream \in {"reading", "writing"} /\ ex'[f].link = ex[f].link
                      /\ ex'[f].stream = "writing" => ex'[f].kind.what = "event"
    BY DEF StaysOwed
  <2>1. CASE f = e
    BY <2>1, <1>3 DEF Owed
  <2>2. CASE f # e
    BY <2>2, <1>3 DEF Owed, Active
  <2> QED BY <2>1, <2>2
<1>6. ReadsNothing
  BY <1>3 DEF ReadsNothing, AInv, ReadsItsOwn
<1> QED BY <1>4, <1>5, <1>6, QuietKeepsAnswers

\* A stream that stops reading closes its connection, or nothing is owed there.
LEMMA StreamKeepsAnswers ==
  ASSUME TInv, LInv, CInv, AInv, NEW e \in Exchange, Stream(e)
  PROVE  AInv'
<1>1. /\ \A f \in Exchange : f # e => ex'[f] = ex[f]
      /\ ex'[e].got = ex[e].got /\ ex'[e].stream \in {"closing", "unlocking", "ended"}
  BY StreamSteps
<1>2. ReadsNothing
  BY <1>1 DEF ReadsNothing
<1>3. OwesNothingNew
  <2>1. ShutOwn(e) \/ UNCHANGED netVars
    BY DEF Stream, ReadFails, PipeClosed, CloseWriter, UnlockAndSignal
  <2> QED BY <2>1, ShutOwes, SameOwes DEF ShutOwn
<1>4. ASSUME NEW k \in Id, Owed(k, e) PROVE answering'[k] = <<>>
  <2>1. Active(e) /\ ex[e].link = k /\ answering[k] # <<>>
    BY <1>4 DEF Owed
  <2>2. open[k]
    BY <2>1 DEF AInv, OwesItsReader
  <2>3. PipeClosed(e)
    BY <2>1, <2>2 DEF Stream, ReadFails, CloseWriter, UnlockAndSignal, Active
  <2>4. PICK c \in Id : mu[c] = e /\ Shut(c)
    BY <2>3 DEF PipeClosed, ShutOwn
  <2>5. wconn[c] = k
    BY <2>1, <2>4 DEF CInv, StreamOwnsConnection, LInv, StreamHolds
  <2> QED BY <2>4, <2>5, ShutOwes
<1>5. StaysOwed
  <2> SUFFICES ASSUME NEW k \in Id, NEW f \in Exchange, answering'[k] # <<>>, Owed(k, f)
               PROVE  /\ ex'[f].stream \in {"reading", "writing"} /\ ex'[f].link = ex[f].link
                      /\ ex'[f].stream = "writing" => ex'[f].kind.what = "event"
    BY DEF StaysOwed
  <2>1. f # e
    BY <1>4
  <2> QED BY <2>1, <1>1 DEF Owed, Active
<1> QED BY <1>2, <1>3, <1>5, QuietKeepsAnswers

LEMMA WatcherKeepsAnswers ==
  ASSUME TInv, AInv, NEW e \in Exchange, Watcher(e)
  PROVE  AInv'
<1>1. /\ \A f \in Exchange : f # e => ex'[f] = ex[f]
      /\ ex'[e].stream = ex[e].stream /\ ex'[e].kind = ex[e].kind /\ ex'[e].got = ex[e].got
      /\ ex'[e].link = ex[e].link \/ ex[e].stream = "ended"
  BY WatcherSteps
<1>2. OwesNothingNew
  BY HangupOwes, SameOwes DEF Watcher, WatcherCloses, WatcherQuits
<1>3. StaysOwed /\ ReadsNothing
  BY <1>1 DEF StaysOwed, ReadsNothing, Owed, Active
<1> QED BY <1>2, <1>3, QuietKeepsAnswers

LEMMA AnswersKept == TInv /\ LInv /\ CInv /\ AInv /\ [Next]_vars => AInv'
<1> SUFFICES ASSUME TInv, LInv, CInv, AInv, [Next]_vars PROVE AInv'
  OBVIOUS
<1>1. ASSUME NEW r \in Request, Handler(r) PROVE AInv'
  <2>1. CASE \/ Begin(r) \/ AuthFails(r) \/ UseHttp(r) \/ UseWebSocket(r) \/ AcquireMu(r) \/ Busy(r)
             \/ TooLarge(r) \/ Reuse(r) \/ TakeEntry(r) \/ Refused(r) \/ HttpCompletes(r)
             \/ HttpFails(r) \/ StopReading(r) \/ Record(r) \/ Continue(r) \/ Broken(r) \/ Return(r)
    <3>1. UNCHANGED netVars
      BY <2>1 DEF Begin, AuthFails, UseHttp, UseWebSocket, AcquireMu, Busy, TooLarge, Reuse, TakeEntry,
           Refused, HttpCompletes, HttpFails, StopReading, Record, Continue, Broken, Return
    <3> QED BY <2>1, <3>1, SameOwes, QuietSteps, SameStreamsAnswers
  <2>2. CASE DialFails(r) \/ WriteFails(r) \/ CloseVictim(r)
    <3>1. OwesNothingNew
      BY <2>2, ShutOwes, SameOwes DEF DialFails, WriteFails, CloseVictim
    <3> QED BY <2>2, <3>1, QuietSteps, SameStreamsAnswers
  <2> QED BY <1>1, <2>1, <2>2, DialKeepsAnswers, WriteKeepsAnswers, DeliverKeepsAnswers DEF Handler
<1>2. CASE (\E r \in Request : ClientLeaves(r)) \/ (\E k \in Id : ConnectionDrops(k))
             \/ TokenChanges \/ Terminated \/ UNCHANGED vars
  <2>1. UNCHANGED ex /\ (UNCHANGED netVars \/ \E k \in Id : Hangup(k))
    BY <1>2 DEF ClientLeaves, ConnectionDrops, TokenChanges, Terminated, vars, netVars
  <2>2. SameStreams
    BY <2>1 DEF SameStreams
  <2> QED BY <2>1, <2>2, HangupOwes, SameOwes, SameStreamsAnswers
<1>3. CASE \E r \in Request : Handler(r)
  BY <1>1, <1>3
<1>4. CASE \E e \in Exchange : Stream(e) \/ ReadMessage(e) \/ Watcher(e)
  BY <1>4, StreamKeepsAnswers, ReadKeepsAnswers, WatcherKeepsAnswers
<1> QED BY <1>2, <1>3, <1>4 DEF Next

-----------------------------------------------------------------------------
(* Theorems                                                                *)

LEMMA Begins == Init => IInv
<1> SUFFICES ASSUME Init PROVE IInv
  OBVIOUS
<1>a. /\ 0 \in 0..MaxId /\ 0 \in 0..Http /\ 0 \in 0..MaxToken /\ 0 \in 0..MaxDrops
      /\ <<>> \in Seq(Exchange) /\ \A r \in Request : Budget[r] \in Nat /\ 0 =< Budget[r]
  BY NumbersAssumption DEF Http
<1>b. /\ <<>> \in Afters /\ <<>> \notin Plans /\ "start" \in Pcs
  BY PlanType DEF Afters, Pcs
<1>1. \A r \in Request : NewHandler(r, "start") \in Handlers /\ Placed(r, NewHandler(r, "start"))
  BY <1>a, <1>b, NewType DEF Placed, NewHandler, Retiring
<1>2. NewExchange \in Exchanges /\ NewExchange.stream = "off" /\ NewExchange.got = <<>>
  BY <1>a DEF NewExchange, Exchanges, None
<1>3. TInv
  BY <1>a, <1>1, <1>2 DEF Init, TInv, TypeOK, Places, Said
<1>4. LInv
  BY <1>2, Names DEF Init, LInv, ToCome, HandlerHolds, StreamHolds, NewHandler
<1>5. CInv
  BY <1>2 DEF Init, CInv, OneConversation, OpenIsHeld, WriterConnected, ReaderConnected,
              StreamOwnsConnection, Active, NewHandler
<1>6. AInv
  BY <1>2 DEF Init, AInv, OwesItsReader, ReadsItsOwn, NoCrossTalk
<1> QED BY <1>3, <1>4, <1>5, <1>6 DEF IInv

\* The inductive invariant: types and places, who has which mutex, which
\* connection belongs to which conversation, and what the upstream owes whom.
THEOREM Invariant == Spec => []IInv
<1>1. IInv /\ [Next]_vars => IInv'
  BY TypesKept, LocksKept, ConnectionsKept, AnswersKept DEF IInv, CInv
<1> QED BY Begins, <1>1, PTL DEF Spec

\* Every variable of the thread stays in its set (codex/websocket.go and the
\* maps of proxy/server.go), whatever its requests and their budgets.
THEOREM TypeCorrect == Spec => []TypeOK
<1>1. IInv => TypeOK
  BY DEF IInv, TInv
<1> QED BY Invariant, <1>1, PTL

\* A stream that still reads has the mutex of the conversation whose connection
\* it reads: nobody writes to that connection or replaces it meanwhile.
THEOREM StreamsOwnConnections == Spec => []StreamOwnsConnection
<1>1. IInv => StreamOwnsConnection
  BY DEF IInv, CInv
<1> QED BY Invariant, <1>1, PTL

\* No handler receives what answers another request or another attempt of its
\* own, however responses are abandoned, retried and continued.
THEOREM NobodyReadsOthersAnswers == Spec => []NoCrossTalk
<1>1. IInv => NoCrossTalk
  BY DEF IInv, AInv
<1> QED BY Invariant, <1>1, PTL

-----------------------------------------------------------------------------
(* Connections that are kept                                               *)

\* Only a handler that is closing a conversation has a victim.
VInv == \A r \in Request : req[r].pc # "closing" => req[r].victim = 0

\* A step of a handler but for these two leaves it without a victim.
LEMMA HandlerVictim ==
  ASSUME TInv, VInv, NEW r \in Request, Handler(r)
  PROVE  /\ Others(r)
         /\ ~TakeEntry(r) => req'[r].victim = 0
         /\ TakeEntry(r) => req[r].victim = 0 /\ req'[r].victim = entry /\ req'[r].pc = "closing"
<1>a. req \in [Request -> Handlers] /\ req[r] \in Handlers
  BY DEF TInv, TypeOK
<1>b. req[r].pc # "closing" => req[r].victim = 0
  BY DEF VInv
<1> DEFINE Without == Others(r) /\ req'[r].victim = 0
<1>1. ASSUME NEW left, NEW retried, NEW close, NEW then, req[r].victim = 0,
             Restart(r, left, retried, close, then) \/ End(r, close, then)
      PROVE  Without
  BY <1>1, <1>a DEF Restart, End, NewHandler, Others, Handlers
<1>2. ASSUME NEW left, req[r].victim = 0, RetryOrEnd(r, left) \/ PreferHttp(r, left)
      PROVE  Without
  <2> HIDE DEF Without
  <2> QED BY <1>1, <1>2 DEF RetryOrEnd, PreferHttp
<1>3. ASSUME req[r].victim = 0, WebSocketError(r) PROVE Without
  <2>1. PICK next \in {"refused", "http", "again", "create"} :
            req' = [req EXCEPT ![r].pc = "close", ![r].after = <<next>>,
                               ![r].left = Spend(req[r].left), ![r].conv = 0]
    BY <1>3 DEF WebSocketError
  <2> QED BY <1>3, <2>1, <1>a DEF Others, Handlers
<1>4. CASE Begin(r)
  <2>1. PICK d \in BOOLEAN : req' = [req EXCEPT ![r].pc = "create", ![r].delta = d,
                                               ![r].prev = IF d THEN chain ELSE 0]
    BY <1>4 DEF Begin
  <2> QED BY <1>4, <2>1, <1>a, <1>b DEF Begin, TakeEntry, At, Others, Handlers
<1>5. CASE AuthFails(r) \/ UseHttp(r) \/ UseWebSocket(r) \/ AcquireMu(r) \/ Busy(r)
  BY <1>5, <1>a, <1>b DEF AuthFails, UseHttp, UseWebSocket, AcquireMu, Busy, TakeEntry, At, Others, Handlers
<1>6. CASE TooLarge(r) \/ Reuse(r) \/ Dial(r) \/ Write(r)
  <2>1. CASE TooLarge(r)
    BY <2>1, <1>a, <1>b DEF TooLarge, TakeEntry, At, Others, Handlers
  <2>2. CASE Reuse(r) \/ Dial(r)
    <3>1. req[r].pc = "locked" /\ req' = [req EXCEPT ![r].pc = "write"]
      BY <2>2 DEF Reuse, Dial, At
    <3> QED BY <3>1, <1>a, <1>b DEF TakeEntry, At, Others, Handlers
  <2>3. CASE Write(r)
    <3>1. /\ req[r].pc = "write"
          /\ req' = [req EXCEPT ![r].pc = "streaming", ![r].try = @ + 1, ![r].left = Spend(@),
                                ![r].conv = 0, ![r].conn = wconn[req[r].conv]]
      BY <2>3 DEF Write, At
    <3> QED BY <3>1, <1>a, <1>b DEF TakeEntry, At, Others, Handlers
  <2> QED BY <1>6, <2>1, <2>2, <2>3
<1>7. CASE DialFails(r) \/ WriteFails(r) \/ HttpFails(r)
  <2>1. /\ req[r].pc \in {"locked", "write", "http"}
        /\ WebSocketError(r) \/ RetryOrEnd(r, Spend(req[r].left))
    BY <1>7, GivesUp DEF DialFails, WriteFails, HttpFails, At
  <2>2. req[r].victim = 0 /\ ~TakeEntry(r)
    BY <1>b, <2>1 DEF TakeEntry, At
  <2>3. Without
    <3> HIDE DEF Without
    <3> QED BY <1>2, <1>3, <2>1, <2>2
  <2> QED BY <2>2, <2>3
<1>8. CASE TakeEntry(r)
  BY <1>8, <1>a, <1>b DEF TakeEntry, At, Others, Handlers
<1>9. CASE CloseVictim(r)
  BY <1>9, <1>a DEF CloseVictim, TakeEntry, At, Others, Handlers
<1>10. CASE Refused(r) \/ StopReading(r) \/ ReceiveFailure(r) \/ Broken(r)
  <2>1. req[r].pc \in {"refused", "streaming"}
    BY <1>10 DEF Refused, StopReading, ReceiveFailure, Broken, Streaming, At
  <2>2. req[r].victim = 0 /\ ~TakeEntry(r)
    BY <1>b, <2>1 DEF TakeEntry, At
  <2>3. Without
    <3> HIDE DEF Without
    <3> QED BY <1>1, <1>2, <1>10, <2>2 DEF Refused, StopReading, ReceiveFailure, Broken
  <2> QED BY <2>2, <2>3
<1>11. CASE HttpCompletes(r) \/ Record(r)
  BY <1>11, <1>a DEF HttpCompletes, Record, NewHandler, TakeEntry, Streaming, At, Others, Handlers
<1>12. CASE Receive(r) \/ Continue(r) \/ Return(r)
  BY <1>12, <1>a, <1>b DEF Receive, Continue, Return, TakeEntry, Streaming, At, Others, Handlers
<1> QED BY <1>4, <1>5, <1>6, <1>7, <1>8, <1>9, <1>10, <1>11, <1>12 DEF Handler

LEMMA VictimsKept == TInv /\ VInv /\ [Next]_vars => VInv'
<1> SUFFICES ASSUME TInv, VInv, [Next]_vars PROVE VInv'
  OBVIOUS
<1>1. ASSUME NEW r \in Request, Handler(r) PROVE VInv'
  BY <1>1, HandlerVictim DEF VInv, Others
<1>2. CASE UNCHANGED req
  BY <1>2 DEF VInv
<1> QED BY <1>1, <1>2 DEF Next, ClientLeaves, Stream, ReadFails, PipeClosed, CloseWriter, UnlockAndSignal,
     ReadMessage, Watcher, WatcherCloses, WatcherQuits, ConnectionDrops, TokenChanges, Terminated, vars

\* What a step may do to the connections of conversations
Closes == \A c \in Id : wconn'[c] = wconn[c] \/ (wconn[c] \in Id => ~open'[wconn[c]])

LEMMA ShutCloses ==
  ASSUME TInv, NEW c \in Id, Shut(c)
  PROVE  Closes
BY DEF Shut, Hangup, Closes, TInv, TypeOK

LEMMA StepsClose ==
  ASSUME TInv, LInv, CInv, [Next]_vars
  PROVE  Closes
<1>1. CASE UNCHANGED wconn
  BY <1>1 DEF Closes
<1>2. CASE \E c \in Id : Shut(c)
  BY <1>2, ShutCloses
<1>3. ASSUME NEW r \in Request, Dial(r) PROVE Closes
  BY <1>3 DEF Dial, Closes, TInv, TypeOK
<1>4. ASSUME NEW r \in Request, Handler(r), ~Dial(r) PROVE UNCHANGED wconn \/ \E c \in Id : Shut(c)
  <2>1. req[r].pc \in {"locked", "write"} => req[r].conv \in Id
    BY DEF TInv, Places, Placed
  <2>2. req[r].victim \in 0 .. MaxId
    BY HandlerParts DEF TInv, TypeOK
  <2>3. CASE DialFails(r) \/ WriteFails(r)
    BY <2>1, <2>3 DEF DialFails, WriteFails, At
  <2>4. CASE CloseVictim(r)
    BY <2>2, <2>4, NumbersAssumption DEF CloseVictim, Id
  <2>5. CASE ReceiveFailure(r) \/ Receive(r)
    BY <2>5 DEF ReceiveFailure, Receive, Deliver, ShutOwn
  <2>6. CASE ~(DialFails(r) \/ WriteFails(r) \/ CloseVictim(r) \/ ReceiveFailure(r) \/ Receive(r))
    BY <1>4, <2>6 DEF Handler, Begin, AuthFails, UseHttp, UseWebSocket, AcquireMu, Busy, TooLarge, Reuse,
       Write, TakeEntry, Refused, HttpCompletes, HttpFails, StopReading, Record, Continue, Broken, Return,
       convVars
  <2> QED BY <2>3, <2>4, <2>5, <2>6
<1>5. ASSUME NEW e \in Exchange, Stream(e) \/ ReadMessage(e) \/ Watcher(e)
      PROVE  UNCHANGED wconn \/ \E c \in Id : Shut(c)
  BY <1>5 DEF Stream, ReadFails, PipeClosed, CloseWriter, UnlockAndSignal, ShutOwn, ReadMessage, Watcher,
     WatcherCloses, WatcherQuits, convVars
<1>6. CASE (\E r \in Request : ClientLeaves(r)) \/ (\E k \in Id : ConnectionDrops(k))
             \/ TokenChanges \/ Terminated \/ UNCHANGED vars
  BY <1>1, <1>6 DEF ClientLeaves, ConnectionDrops, TokenChanges, Terminated, vars, convVars
<1> QED BY <1>1, <1>2, <1>3, <1>4, <1>5, <1>6 DEF Next

\* A conversation leaves the map only to be closed, and what is to be closed is.
LEMMA StepsKeep ==
  ASSUME TInv, LInv, CInv, VInv, [Next]_vars, NEW c \in Id,
         c = entry \/ \E r \in Request : req[r].victim = c
  PROVE  \/ c = entry' \/ \E r \in Request : req'[r].victim = c
         \/ wconn[c] \in Id => ~open'[wconn[c]]
<1> DEFINE Goal == \/ c = entry' \/ \E r \in Request : req'[r].victim = c
                   \/ wconn[c] \in Id => ~open'[wconn[c]]
<1>0. c # 0
  BY NumbersAssumption DEF Id
<1>1. ASSUME NEW r \in Request, Handler(r) PROVE Goal
  <2>1. Others(r) /\ (~TakeEntry(r) => req'[r].victim = 0)
        /\ (TakeEntry(r) => req[r].victim = 0 /\ req'[r].victim = entry)
    BY <1>1, HandlerVictim
  <2>2. CASE TakeEntry(r)
    BY <1>0, <2>1, <2>2 DEF Others
  <2>3. CASE CloseVictim(r)
    <3>1. entry' = entry
      BY <2>3 DEF CloseVictim, serverVars
    <3>2. CASE req[r].victim = c
      BY <1>0, <2>3, <3>2 DEF CloseVictim, Shut, Hangup, TInv, TypeOK
    <3>3. CASE req[r].victim # c
      BY <2>1, <3>1, <3>3 DEF Others
    <3> QED BY <3>2, <3>3
  <2>4. CASE ~TakeEntry(r) /\ ~CloseVictim(r)
    <3>1. req[r].victim = 0
      <4>1. req[r].pc # "closing"
        BY <1>1, <2>4 DEF Handler, Begin, AuthFails, UseHttp, UseWebSocket, AcquireMu, Busy, TooLarge, Reuse, Dial,
           DialFails, WriteFails, Write, Refused, HttpCompletes, HttpFails, StopReading, ReceiveFailure,
           Receive, Record, Continue, Broken, Return, Streaming, At
      <4> QED BY <4>1 DEF VInv
    <3>2. c = entry => c = entry'
      BY <1>0, <1>1, <2>4 DEF Handler, Begin, AuthFails, UseHttp, UseWebSocket, AcquireMu, Busy, TooLarge, Reuse, Dial,
         DialFails, WriteFails, Write, Refused, HttpCompletes, HttpFails, StopReading, ReceiveFailure,
         Receive, Record, Continue, Broken, Return, serverVars
    <3> QED BY <1>0, <2>1, <3>1, <3>2 DEF Others
  <2> QED BY <2>2, <2>3, <2>4
<1>2. CASE UNCHANGED <<req, entry>>
  BY <1>2
<1> QED BY <1>1, <1>2 DEF Next, ClientLeaves, Stream, ReadFails, PipeClosed, CloseWriter, UnlockAndSignal,
     ReadMessage, Watcher, WatcherCloses, WatcherQuits, ConnectionDrops, TokenChanges, Terminated, vars,
     serverVars

\* An open connection of the conversation in the map, or of one that a handler
\* is about to close, stays such a connection until it is closed.
THEOREM ConnectionsDoNotLeak == Spec => NoConnectionLeaks
<1>1. Init => VInv
  BY DEF Init, VInv, NewHandler
<1>2. TInv /\ VInv /\ [Next]_vars => VInv'
  BY VictimsKept
<1>3. ASSUME IInv, VInv, [Next]_vars
      PROVE  \A k \in Id : open[k] /\ Kept(k) => Kept(k)' \/ ~open'[k]
  <2> SUFFICES ASSUME NEW k \in Id, open[k], Kept(k), open'[k] PROVE Kept(k)'
    OBVIOUS
  <2>1. PICK c \in Id : wconn[c] = k /\ (c = entry \/ \E r \in Request : req[r].victim = c)
    BY DEF Kept
  <2>2. Closes
    BY <1>3, StepsClose DEF IInv
  <2>3. wconn'[c] = k
    BY <2>1, <2>2 DEF Closes
  <2>4. c = entry' \/ \E r \in Request : req'[r].victim = c
    BY <1>3, <2>1, StepsKeep DEF IInv
  <2> QED BY <2>3, <2>4 DEF Kept
<1>4. IInv => TInv
  BY DEF IInv
<1>5. IInv /\ VInv /\ [Next]_vars => [\A k \in Id : open[k] /\ Kept(k) => Kept(k)' \/ ~open'[k]]_vars
  BY <1>3
<1> QED BY Invariant, <1>1, <1>2, <1>4, <1>5, PTL DEF Spec, NoConnectionLeaks
=============================================================================
