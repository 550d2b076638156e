------------------------ MODULE MessageExchangeProofs ------------------------
(***************************************************************************)
(* For any budget and any number of failed connections and continuations:  *)
(* what a request of MessageExchange promises about the requests it sends, *)
(* what its client sees and the response it leaves behind.                 *)
(***************************************************************************)
EXTENDS MessageExchange, TLAPS

\* A continuation is asked for only below its bound.
TInv == TypeOK /\ (body.ending = "follow" => net.follows < MaxFollows)

\* What createResponse was called for is where it returns to.
Returning == {"first", "limited", "full", "again", "follow"}
Returns == pc \in Returning => call.for = pc

\* What is, or is about to be, posted carries no reference.
NoDelta == pc \in {"post", "httpRefresh"} => ~call.delta

\* Until it is done a request was answered only by the end of a stream that is
\* still being read, ...
Ended == pc = "reading" /\ asked.streaming /\ body.ending \in {"completed", "failed"}
Unanswered == pc # "done" => body.answers = (IF Ended THEN 1 ELSE 0)

\* ... and its client saw something only if it streams, while a response or its
\* continuation is at hand.
Seen ==
  /\ body.wrote => asked.streaming
  /\ Ended => body.wrote
  /\ body.wrote /\ pc # "done" => pc = "reading" \/ (pc # "failed" /\ call.for = "follow")

\* A response that is being read has failed or there is no error.
NoError == pc = "reading" /\ body.ending # "failed" => err = "none"

\* Requests that may still be sent, continuations included.
Room == Attempts + net.follows - net.sent

\* Unless a header wait timed out the attempts that are left, to the handler or
\* to the call it makes, are covered by what may still be sent.  In a call at
\* least one is; in the loops of the client the fallback has used up base.
Calling == {"auth", "ws", "wsRefresh", "http"}
Covered ==
  ~net.timedOut =>
    /\ pc \in Calling => Room >= 1 /\ Room >= Left(call.used)
    /\ pc = "httpRefresh" => Room >= Left(call.used) /\ Left(call.used) > 0
    /\ pc = "post" => /\ call.loop.att = 0 /\ call.loop.max = Left(call.used)
                     /\ call.loop.base < call.loop.max
                     /\ Room + call.loop.base >= Left(call.used)
    /\ pc \notin Calling \union {"httpRefresh", "post"} => Room >= left

Answering == Returns /\ Unanswered /\ Seen /\ NoError /\ AnsweredOnce /\ RecordedAnswer

IInv == TInv /\ NoDelta /\ Answering /\ Covered

-----------------------------------------------------------------------------
(* Types of the parts of records, and of records with a part replaced      *)

LEMMA Parts ==
  ASSUME TypeOK
  PROVE  /\ call.used \in Nat /\ call.delta \in BOOLEAN /\ call.for \in Returning
         /\ call.loop.max \in Nat /\ call.loop.base \in Nat /\ call.loop.att \in Nat
         /\ net.sent \in Nat /\ net.opened \in Nat /\ net.dials \in 0..MaxDials
         /\ net.follows \in 0..MaxFollows /\ net.timedOut \in BOOLEAN
         /\ body.answers \in Nat /\ body.ending \in {"none", "completed", "failed", "follow"}
         /\ body.wrote \in BOOLEAN
BY DEF TypeOK, Calls, Loops, Nets, Bodies, Returning

LEMMA CallType ==
  ASSUME call \in Calls, NEW n \in Nat, NEW m \in Nat
  PROVE  /\ [call EXCEPT !.used = n] \in Calls
         /\ [call EXCEPT !.loop.att = n] \in Calls
         /\ [call EXCEPT !.loop = NewLoop(n)] \in Calls
         /\ [call EXCEPT !.fresh = TRUE, !.loop = NewLoop(n)] \in Calls
         /\ [call EXCEPT !.loop.base = n, !.loop.att = m] \in Calls
BY DEF Calls, Loops, NewLoop

LEMMA NewCallType ==
  ASSUME NEW delta \in BOOLEAN, NEW for \in Returning, Call(delta, for)
  PROVE  call' \in Calls
BY DEF Call, Calls, Loops, NewLoop, Returning

LEMMA BodyType ==
  ASSUME body \in Bodies, NEW w \in BOOLEAN, NEW e \in {"none", "completed", "failed", "follow"},
         NEW t \in {"websocket", "http"}, NEW answers \in Nat
  PROVE  /\ [body EXCEPT !.transport = t] \in Bodies
         /\ [body EXCEPT !.ending = e] \in Bodies
         /\ [body EXCEPT !.wrote = w] \in Bodies
         /\ [body EXCEPT !.answers = answers] \in Bodies
         /\ [body EXCEPT !.wrote = w, !.answers = answers, !.ending = e] \in Bodies
         /\ [body EXCEPT !.ending = e, !.wrote = w, !.answers = answers] \in Bodies
BY DEF Bodies

LEMMA AnswerType ==
  ASSUME body \in Bodies
  PROVE  /\ [body EXCEPT !.answers = @ + 1] \in Bodies
         /\ [body EXCEPT !.wrote = TRUE, !.answers = @ + 1, !.ending = "failed"] \in Bodies
<1>1. body.answers + 1 \in Nat BY DEF Bodies
<1> QED BY <1>1, BodyType

LEMMA NetType ==
  ASSUME net \in Nets
  PROVE  /\ [net EXCEPT !.sent = @ + 1] \in Nets
         /\ [net EXCEPT !.sent = @ + 1, !.opened = @ + 1] \in Nets
         /\ [net EXCEPT !.sent = @ + 1, !.timedOut = TRUE] \in Nets
         /\ \A b \in BOOLEAN : [net EXCEPT !.brokeLate = @ \/ b] \in Nets
         /\ net.dials < MaxDials => [net EXCEPT !.dials = @ + 1] \in Nets
         /\ net.follows < MaxFollows => [net EXCEPT !.follows = @ + 1] \in Nets
<1>1. ASSUME NEW n \in Nat, NEW m \in Nat
      PROVE  /\ [net EXCEPT !.sent = n] \in Nets
             /\ [net EXCEPT !.sent = n, !.opened = m] \in Nets
             /\ [net EXCEPT !.sent = n, !.timedOut = TRUE] \in Nets
  BY DEF Nets
<1>2. ASSUME NEW b \in BOOLEAN PROVE [net EXCEPT !.brokeLate = @ \/ b] \in Nets
  <2>1. ASSUME NEW c \in BOOLEAN PROVE [net EXCEPT !.brokeLate = c] \in Nets
    BY DEF Nets
  <2>2. (net.brokeLate \/ b) \in BOOLEAN
    BY DEF Nets
  <2> QED BY <2>1, <2>2
<1>3. ASSUME net.dials < MaxDials PROVE [net EXCEPT !.dials = @ + 1] \in Nets
  <2>1. net.dials + 1 \in 0..MaxDials BY <1>3, BoundsAssumption DEF Nets
  <2> QED BY <2>1 DEF Nets
<1>4. ASSUME net.follows < MaxFollows PROVE [net EXCEPT !.follows = @ + 1] \in Nets
  <2>1. net.follows + 1 \in 0..MaxFollows BY <1>4, BoundsAssumption DEF Nets
  <2> QED BY <2>1 DEF Nets
<1>5. net.sent + 1 \in Nat /\ net.opened + 1 \in Nat
  BY DEF Nets
<1> QED BY <1>1, <1>2, <1>3, <1>4, <1>5

\* What is left can only become less.
LEMMA LeftType ==
  ASSUME left \in 0..Attempts, NEW n \in Nat
  PROVE  Left(n) \in 0..Attempts /\ Left(n) =< left
BY BoundsAssumption DEF Left

-----------------------------------------------------------------------------
\* The types hold initially ...
LEMMA InitType == Init => TInv
<1> SUFFICES ASSUME Init PROVE TInv
  OBVIOUS
<1>1. call \in Calls
  BY DEF Init, Calls, Loops, NewLoop, Requests
<1>2. body \in Bodies /\ net \in Nets
  BY BoundsAssumption DEF Init, Bodies, Nets
<1>3. err \in Errors /\ Attempts \in 0..Attempts
  BY BoundsAssumption DEF Init, Errors
<1>4. chain \in Nat \union {Old}
  BY DEF Init, Old
<1>5. TypeOK
  BY <1>1, <1>2, <1>3, <1>4 DEF Init, TypeOK
<1> QED
  BY <1>5 DEF Init, TInv

\* ... and every step of createResponse keeps them, ...
LEMMA CreateType == ASSUME TInv, Create PROVE TInv'
<1> USE Parts DEF TInv, TypeOK
<1>1. ASSUME NEW e \in Errors, NEW n \in Nat, Finish(e, n)
      PROVE  pc' \in Returning /\ err' \in Errors /\ left' \in 0..Attempts
  BY <1>1, LeftType DEF Finish
<1>2. ASSUME NEW e \in Errors, NEW n \in Nat, HttpError(e, n)
      PROVE  /\ pc' \in {"httpRefresh"} \union Returning /\ err' \in Errors
             /\ left' \in 0..Attempts /\ call' \in Calls
  <2>1. call.used + Least(n, Left(call.used)) \in Nat BY LeftType DEF Least
  <2> QED BY <1>1, <1>2, <2>1, CallType DEF HttpError, Go
<1>3. Spent \in Nat \ {0} /\ \A e \in Errors : Counted(e) \in Nat
  BY DEF Spent, Counted
<1>4. {"none", "auth", "ctx", "tooBig", "notFound", "budget", "timeout", "other"} \subseteq Errors
      /\ Refusals \subseteq Errors /\ {"401", "429", "flex", "other"} \subseteq Errors
  BY DEF Errors, Refusals
<1> USE DEF Go, thread, result, Returning
<1>5. CASE Auth
  BY <1>1, <1>4, <1>5 DEF Auth
<1>6. CASE WebSocketOpens
  <2>1. net' \in Nets /\ net'.follows = net.follows
    BY <1>6, NetType DEF WebSocketOpens, Nets
  <2>2. body' \in Bodies /\ body'.ending = body.ending
    BY <1>6 DEF WebSocketOpens, Bodies
  <2> QED BY <1>1, <1>4, <1>6, <2>1, <2>2 DEF WebSocketOpens
<1>7. CASE WebSocketTooLarge
  BY <1>1, <1>4, <1>7 DEF WebSocketTooLarge
<1>8. CASE WebSocketBusy
  BY <1>8 DEF WebSocketBusy
<1>9. ASSUME NEW e \in {"401", "429", "flex", "other"}, WebSocketFails(e) PROVE TInv'
  <2>1. call.used + 1 \in Nat OBVIOUS
  <2>2. call' \in Calls BY <1>9, <2>1, CallType DEF WebSocketFails
  <2> QED BY <1>1, <1>4, <1>9, <2>1, <2>2 DEF WebSocketFails
<1>10. CASE Refresh
  <2>1. Left(call.used) \in Nat BY LeftType
  <2> QED BY <1>1, <1>4, <1>10, <2>1, CallType DEF Refresh
<1>11. CASE EnterHttp
  <2>1. Left(call.used) \in Nat BY LeftType
  <2> QED BY <1>1, <1>4, <1>11, <2>1, CallType DEF EnterHttp
<1>12. CASE NoDestination
  BY <1>2, <1>4, <1>12 DEF NoDestination
<1>13. CASE PostOpens
  <2>1. net' \in Nets /\ net'.follows = net.follows
    BY <1>13, NetType DEF PostOpens, Nets
  <2>2. body' \in Bodies /\ body'.ending = body.ending
    BY <1>13 DEF PostOpens, Bodies
  <2>3. call.used + Least(Spent, Left(call.used)) \in Nat
    BY <1>3, LeftType DEF Least
  <2> QED BY <1>1, <1>4, <1>13, <2>1, <2>2, <2>3 DEF PostOpens
<1>14. CASE DialFails
  <2>1. net' \in Nets /\ net'.follows = net.follows
    BY <1>14, NetType, BoundsAssumption DEF DialFails, Nets
  <2>2. Spent - 1 \in Nat /\ Spent \in Nat BY <1>3
  <2> QED BY <1>2, <1>4, <1>14, <2>1, <2>2 DEF DialFails
<1>15. CASE PostTimesOut
  <2>1. net' \in Nets /\ net'.follows = net.follows
    BY <1>15, NetType DEF PostTimesOut, Nets
  <2>2. [call EXCEPT !.loop.att = @ + 1] \in Calls
    <3>1. call.loop.att + 1 \in Nat OBVIOUS
    <3> QED BY <3>1 DEF Calls, Loops
  <2> QED BY <1>2, <1>3, <1>4, <1>15, <2>1, <2>2 DEF PostTimesOut
<1>16. ASSUME NEW e \in Refusals, PostRefused(e) PROVE TInv'
  <2>1. net' \in Nets /\ net'.follows = net.follows
    BY <1>16, NetType DEF PostRefused, Nets
  <2>2. [call EXCEPT !.loop.base = Spent, !.loop.att = 0] \in Calls
    BY <1>3, CallType
  <2> QED BY <1>2, <1>3, <1>4, <1>16, <2>1, <2>2 DEF PostRefused
<1> QED
  BY <1>5, <1>6, <1>7, <1>8, <1>9, <1>10, <1>11, <1>12, <1>13, <1>14, <1>15, <1>16 DEF Create

\* ... and so does every other one.
LEMMA HandleType == ASSUME TInv, Handle PROVE TInv'
<1> USE Parts DEF TInv, TypeOK, thread, result
<1>1. ASSUME NEW delta \in BOOLEAN, NEW for \in Returning, Call(delta, for)
      PROVE  call' \in Calls /\ pc' = "auth" /\ err' \in Errors
  BY <1>1, NewCallType DEF Call, Errors
<1>2. CASE RetryLimited
  BY <1>1, <1>2 DEF RetryLimited, Returning
<1>3. CASE ResendFull
  BY <1>1, <1>3 DEF ResendFull, Returning
<1>4. CASE Restart
  <2>1. body' \in Bodies /\ body'.ending = "none" BY <1>4 DEF Restart, Bodies
  <2> QED BY <1>1, <1>4, <2>1 DEF Restart, Returning
<1>5. CASE FollowUp
  <2>1. net' \in Nets BY <1>5, NetType, BoundsAssumption DEF FollowUp
  <2>2. body' \in Bodies /\ body'.ending = "none" BY <1>5 DEF FollowUp, Bodies
  <2> QED BY <1>1, <1>5, <2>1, <2>2 DEF FollowUp, Returning
<1>6. CASE Refuse \/ GiveUp
  <2>1. body' \in Bodies /\ body'.ending = body.ending
    BY <1>6 DEF Refuse, GiveUp, Bodies
  <2> QED BY <1>6, <2>1 DEF Refuse, GiveUp
<1>7. CASE Open \/ Output \/ EndFailed
  <2>1. body' \in Bodies /\ body'.ending \in {"none", body.ending}
    BY <1>7 DEF Open, Output, EndFailed, Unended, Bodies
  <2> QED BY <1>7, <2>1 DEF Open, Output, EndFailed
<1>8. CASE Complete \/ AskFollowUp
  <2>1. asked.streaming \in BOOLEAN BY DEF Requests
  <2>2. body' \in Bodies /\ body'.ending \in {"completed", "follow"}
    <3>1. CASE Complete
      <4>1. (IF asked.streaming THEN body.answers + 1 ELSE body.answers) \in Nat
        OBVIOUS
      <4>2. body' = [body EXCEPT !.ending = "completed", !.wrote = asked.streaming,
                     !.answers = IF asked.streaming THEN body.answers + 1 ELSE body.answers]
        BY <3>1, Zenon DEF Complete
      <4>3. body' \in Bodies BY <2>1, <4>1, <4>2, BodyType
      <4>4. body'.ending = "completed" BY <4>2 DEF Bodies
      <4> QED BY <4>3, <4>4
    <3>2. CASE AskFollowUp BY <3>2 DEF AskFollowUp, Bodies
    <3> QED BY <1>8, <3>1, <3>2
  <2>3. body'.ending = "follow" => net.follows < MaxFollows
    BY <1>8 DEF Complete, AskFollowUp, Bodies
  <2> QED BY <1>8, <2>2, <2>3 DEF Complete, AskFollowUp
<1>9. CASE Record
  <2>1. body' \in Bodies /\ body'.ending = "completed" BY <1>9 DEF Record, Bodies
  <2> QED BY <1>9, <2>1 DEF Record
<1>10. ASSUME NEW e \in Errors, StreamError(e)
       PROVE  /\ httpOnly' \in BOOLEAN /\ entry' \in BOOLEAN /\ useWS' \in BOOLEAN
              /\ err' \in Errors /\ pc' \in {"done", "failed"}
              /\ body' \in Bodies /\ body'.ending = body.ending
  <2>1. body' \in Bodies /\ body'.ending = body.ending
    BY <1>10 DEF StreamError, Bodies
  <2> QED BY <1>10, <2>1 DEF StreamError, LeaveWebSocket
<1>11. CASE PreviousNotFound \/ EndEarly
  BY <1>10, <1>11 DEF PreviousNotFound, EndEarly, Errors
<1>12. CASE FollowUpRefused
  BY <1>10, <1>12 DEF FollowUpRefused
<1>13. Failures \subseteq Errors /\ {"transport", "tooBig", "write", "other"} \subseteq Errors
  BY DEF Errors, Failures, Refusals
<1>14. ASSUME NEW code \in Failures, ReturnFailure(code) PROVE TInv'
  BY <1>10, <1>13, <1>14 DEF ReturnFailure
<1>15. ASSUME NEW code \in Failures, ShowFailure(code) \/ KeepFailure(code) PROVE TInv'
  <2>1. body' \in Bodies /\ body'.ending = "failed"
    <3>1. CASE ShowFailure(code) BY <3>1, AnswerType DEF ShowFailure, Bodies
    <3>2. CASE KeepFailure(code) BY <3>2 DEF KeepFailure, Bodies
    <3> QED BY <1>15, <3>1, <3>2
  <2> QED BY <1>13, <1>15, <2>1 DEF ShowFailure, KeepFailure
<1>16. ASSUME NEW e \in {"transport", "tooBig", "write", "other"}, BodyBreaks(e) PROVE TInv'
  <2>1. net' \in Nets /\ net'.follows = net.follows
    <3>1. (net.brokeLate \/ body.ending \in {"completed", "failed"}) \in BOOLEAN
      OBVIOUS
    <3> QED BY <1>16, <3>1, NetType DEF BodyBreaks, Nets
  <2> QED BY <1>10, <1>13, <1>16, <2>1 DEF BodyBreaks
<1> QED
  BY <1>2, <1>3, <1>4, <1>5, <1>6, <1>7, <1>8, <1>9, <1>11, <1>12, <1>14, <1>15, <1>16 DEF Handle

LEMMA TypeStep == TInv /\ [Next]_vars => TInv'
<1> SUFFICES ASSUME TInv, [Next]_vars PROVE TInv'
  OBVIOUS
<1>1. CASE ClientLeaves \/ OthersRetire
  BY <1>1 DEF TInv, TypeOK, ClientLeaves, OthersRetire, thread, result
<1>2. CASE Done \/ UNCHANGED vars
  BY <1>2 DEF TInv, TypeOK, Done, vars
<1> QED
  BY <1>1, <1>2, CreateType, HandleType DEF Next

\* Every variable keeps its type, for any budget and any bounds.
THEOREM TypeCorrect == Spec => []TypeOK
<1>1. TInv => TypeOK BY DEF TInv
<1> QED BY InitType, TypeStep, <1>1, PTL DEF Spec

-----------------------------------------------------------------------------
\* Only EnterHttp begins to post, and it looks at the reference.
LEMMA NoDeltaStep == ASSUME TInv, NoDelta, [Next]_vars PROVE NoDelta'
<1> USE DEF TInv, TypeOK, NoDelta, Calls, Go, Finish, result, thread
<1>1. CASE EnterHttp BY <1>1 DEF EnterHttp
<1>2. CASE Refresh BY <1>2 DEF Refresh
<1>3. ASSUME pc = "post", NEW e, NEW n, HttpError(e, n) PROVE ~call'.delta
  BY <1>3 DEF HttpError
<1>4. CASE NoDestination \/ PostOpens \/ DialFails \/ PostTimesOut
           \/ \E e \in Refusals : PostRefused(e)
  BY <1>3, <1>4 DEF NoDestination, PostOpens, DialFails, PostTimesOut, PostRefused
<1>5. CASE Auth \/ WebSocketOpens \/ WebSocketTooLarge \/ WebSocketBusy
           \/ \E e \in {"401", "429", "flex", "other"} : WebSocketFails(e)
  BY <1>5, Parts DEF Auth, WebSocketOpens, WebSocketTooLarge, WebSocketBusy, WebSocketFails, Returning
<1>6. CASE Handle \/ ClientLeaves \/ OthersRetire \/ Done \/ UNCHANGED vars
  BY <1>6 DEF Handle, RetryLimited, ResendFull, Refuse, Open, Output, PreviousNotFound,
     ReturnFailure, ShowFailure, KeepFailure, Complete, AskFollowUp, FollowUp, FollowUpRefused,
     BodyBreaks, Record, EndFailed, EndEarly, Restart, GiveUp, Call, StreamError,
     Unended, Reading, ClientLeaves, OthersRetire, Done, vars
<1> QED
  BY <1>1, <1>2, <1>4, <1>5, <1>6 DEF Next, Create

-----------------------------------------------------------------------------
\* createResponse shows the client nothing and returns to its caller.
Making == {"auth", "ws", "wsRefresh", "http", "post", "httpRefresh"}

LEMMA CreateMoves ==
  ASSUME TInv, Create
  PROVE  /\ pc \in Making /\ pc' \in Making \union {call.for} /\ call'.for = call.for
         /\ body'.wrote = body.wrote /\ body'.answers = body.answers /\ body'.ending = body.ending
         /\ net'.opened \in {net.opened, net.opened + 1} /\ UNCHANGED <<asked, chain, ctx>>
<1> USE DEF TInv, TypeOK, Making, Calls, Bodies, Nets, Go, Finish, HttpError, result, thread
<1>1. CASE Auth \/ WebSocketOpens \/ WebSocketTooLarge \/ WebSocketBusy
           \/ \E e \in {"401", "429", "flex", "other"} : WebSocketFails(e)
  BY <1>1 DEF Auth, WebSocketOpens, WebSocketTooLarge, WebSocketBusy, WebSocketFails
<1>2. CASE Refresh \/ EnterHttp
  BY <1>2 DEF Refresh, EnterHttp
<1>3. CASE NoDestination \/ PostOpens BY <1>3 DEF NoDestination, PostOpens
<1>4. CASE DialFails BY <1>4 DEF DialFails
<1>5. CASE PostTimesOut BY <1>5 DEF PostTimesOut
<1>6. ASSUME NEW e \in Refusals, PostRefused(e)
      PROVE  /\ pc \in Making /\ pc' \in Making \union {call.for} /\ call'.for = call.for
             /\ net'.opened = net.opened /\ UNCHANGED <<asked, chain, ctx, body>>
  BY <1>6 DEF PostRefused
<1> QED
  BY <1>1, <1>2, <1>3, <1>4, <1>5, <1>6 DEF Create

LEMMA AnsweringStep == ASSUME TInv, Answering, [Next]_vars PROVE Answering'
<1> USE Parts DEF TInv, TypeOK, Answering, Returns, Unanswered, Seen, NoError, AnsweredOnce,
        RecordedAnswer, Ended, Returning, thread, result
<1>1. CASE Create
  BY <1>1, CreateMoves DEF Making
<1>2. CASE RetryLimited
  BY <1>2 DEF RetryLimited, Limited, Call
<1>3. CASE ResendFull
  BY <1>3 DEF ResendFull, Resumable, Call
<1>4. CASE Restart
  BY <1>4 DEF Restart, Call, Bodies
<1>5. CASE FollowUp
  BY <1>5 DEF Call,  FollowUp, Reading, Bodies, Nets
<1>6. CASE Refuse
  BY <1>6 DEF Refuse, Bodies
<1>7. CASE Open
  BY <1>7 DEF Open, Bodies
<1>8. CASE Output \/ AskFollowUp
  BY <1>8 DEF Output, AskFollowUp, Unended, Reading, Bodies
<1>9. CASE Complete
  BY <1>9 DEF Complete, Unended, Reading, Bodies
<1>10. ASSUME NEW e, StreamError(e), pc \in {"reading", "follow"}, UNCHANGED <<asked, chain, call>>,
              pc = "reading" /\ body.ending \in {"completed", "failed"} => net'.brokeLate
       PROVE  Answering'
  BY <1>10 DEF StreamError, Bodies
<1>11. CASE PreviousNotFound \/ FollowUpRefused \/ EndEarly
  BY <1>10, <1>11 DEF PreviousNotFound, FollowUpRefused, EndEarly, Unended, Reading
<1>12. ASSUME NEW code \in Failures, ReturnFailure(code) PROVE Answering'
  BY <1>10, <1>12 DEF ReturnFailure, Unended, Reading
<1>13. ASSUME NEW code \in Failures, ShowFailure(code) \/ KeepFailure(code) PROVE Answering'
  <2>1. CASE ShowFailure(code) BY <1>13, <2>1 DEF ShowFailure, Unended, Reading, Bodies
  <2>2. CASE KeepFailure(code) BY <1>13, <2>2 DEF KeepFailure, Unended, Reading, Bodies
  <2> QED BY <1>13, <2>1, <2>2
<1>14. ASSUME NEW e \in {"transport", "tooBig", "write", "other"}, BodyBreaks(e) PROVE Answering'
  BY <1>10, <1>14 DEF BodyBreaks, Reading, Nets
<1>15. CASE Record
  BY <1>15 DEF Record, Reading, Bodies
<1>16. CASE EndFailed
  BY <1>16 DEF EndFailed, Reading
<1>17. CASE GiveUp
  BY <1>17 DEF GiveUp, Bodies
<1>18. CASE ClientLeaves \/ OthersRetire \/ Done \/ UNCHANGED vars
  BY <1>18 DEF ClientLeaves, OthersRetire, Done, vars
<1> QED
  BY <1>1, <1>2, <1>3, <1>4, <1>5, <1>6, <1>7, <1>8, <1>9, <1>11, <1>12, <1>13, <1>14, <1>15,
     <1>16, <1>17, <1>18 DEF Next, Handle

-----------------------------------------------------------------------------
\* Whatever createResponse returns, and whatever it has used, the attempts that
\* are left then are covered if those left before were.
LEMMA HttpErrorCovered ==
  ASSUME TInv, NEW e, NEW n \in Nat, HttpError(e, n),
         net'.sent \in Nat, net'.follows = net.follows, net'.timedOut = FALSE,
         Room' >= Left(call.used) - n, Room' >= 0
  PROVE  Covered'
<1> USE Parts, BoundsAssumption DEF TInv, TypeOK
<1> DEFINE total == call.used + Least(n, Left(call.used))
<1>1. total \in Nat /\ Left(total) =< Room' /\ Room' \in Int
  BY DEF Least, Left, Room
<1>2. call'.used = total
  BY DEF HttpError, Calls
<1>3. CASE Go("httpRefresh") /\ Left(total) > 0
  <2>1. Left(call.used)' = Left(total)
    BY <1>2, <1>3 DEF Go, Left
  <2> QED BY <1>1, <1>3, <2>1 DEF Covered, Calling, Go
<1>4. CASE Finish(e, total)
  BY <1>1, <1>4 DEF Finish, Covered, Calling, Returning
<1> QED
  BY <1>3, <1>4 DEF HttpError

LEMMA CreateCovered == ASSUME TInv, Covered, Create PROVE Covered'
<1> SUFFICES ASSUME ~net'.timedOut PROVE Covered'
  BY DEF Covered
<1> USE Parts, BoundsAssumption DEF TInv, TypeOK
<1>0. Room \in Int /\ Room' \in Int /\ call'.used \in Nat
  <2>1. TInv' BY TypeStep DEF Next
  <2> QED BY <2>1 DEF Room, Nets, Calls
<1>1. ASSUME NEW e, NEW n \in Nat, Finish(e, n), Room' >= Left(n), Room' >= 0 PROVE Covered'
  BY <1>1 DEF Finish, Covered, Calling, Returning
<1>2. CASE Auth
  <2>1. CASE Finish("auth", call.used) \/ Finish("other", call.used)
    BY <1>1, <1>2, <2>1 DEF Auth, Covered, Calling, Room
  <2>2. CASE pc' \in {"ws", "http"} /\ UNCHANGED <<left, call, net>>
    BY <1>2, <2>2 DEF Auth, Covered, Calling, Room, Left
  <2> QED BY <1>2, <2>1, <2>2 DEF Auth, Go
<1>3. CASE WebSocketOpens
  <2>1. ~net.timedOut /\ Room' = Room - 1 BY <1>3 DEF WebSocketOpens, Room, Nets
  <2>2. Room >= 1 /\ Room >= Left(call.used) BY <1>3, <2>1 DEF WebSocketOpens, Covered, Calling
  <2>3. Room - 1 >= Left(call.used + 1) BY <1>0, <2>2 DEF Left
  <2> QED BY <1>0, <1>1, <1>3, <2>1, <2>2, <2>3 DEF WebSocketOpens
<1>4. CASE WebSocketTooLarge \/ WebSocketBusy
  <2>1. Room' = Room /\ call' = call /\ ~net.timedOut /\ pc \in Calling
    BY <1>4 DEF WebSocketTooLarge, WebSocketBusy, Room, Calling
  <2>2. Room >= 1 /\ Room >= Left(call.used) BY <2>1 DEF Covered
  <2>3. CASE pc' = "http" /\ left' = left
    BY <2>1, <2>2, <2>3 DEF Covered, Calling, Left
  <2>4. CASE Finish("tooBig", call.used)
    BY <1>0, <1>1, <2>1, <2>2, <2>4
  <2> QED BY <1>4, <2>3, <2>4 DEF WebSocketTooLarge, WebSocketBusy, Go
<1>5. ASSUME NEW e \in {"401", "429", "flex", "other"}, WebSocketFails(e) PROVE Covered'
  <2>1. Room' = Room /\ call'.used = call.used + 1 /\ ~net.timedOut /\ pc \in Calling
    BY <1>5 DEF WebSocketFails, Room, Calling, Calls
  <2>2. Room >= 1 /\ Room >= Left(call.used) BY <2>1 DEF Covered
  <2>3. Room >= Left(call.used + 1) BY <1>0, <2>2 DEF Left
  <2>4. CASE pc' \in {"wsRefresh", "http"} /\ left' = left
    BY <2>1, <2>2, <2>3, <2>4 DEF Covered, Calling, Left
  <2>5. CASE Finish(e, call.used + 1) \/ Finish("ctx", call.used + 1)
    BY <1>0, <1>1, <2>1, <2>2, <2>3, <2>5
  <2> QED BY <1>5, <2>4, <2>5 DEF WebSocketFails, Go
<1>6. CASE Refresh
  <2>1. Room' = Room /\ ~net.timedOut /\ Room >= Left(call.used) /\ Room >= 0
    BY <1>0, <1>6, LeftType DEF Refresh, Room, Covered, Calling
  <2>2. CASE Finish("auth", call.used) BY <1>0, <1>1, <2>1, <2>2
  <2>3. CASE pc' # "post" /\ pc' \in Calling /\ left' = left /\ call'.used = call.used /\ pc = "wsRefresh"
    BY <2>1, <2>3 DEF Covered, Calling, Left
  <2>4. CASE pc' = "post" /\ left' = left /\ call' = [call EXCEPT !.fresh = TRUE, !.loop = NewLoop(Left(call.used))]
             /\ pc = "httpRefresh"
    <3>1. call'.used = call.used /\ call'.loop = NewLoop(Left(call.used)) BY <2>4 DEF Calls
    <3>2. Left(call.used)' = Left(call.used) /\ Left(call.used) \in Nat BY <2>4, <3>1, LeftType DEF Left
    <3>3. Left(call.used) > 0 BY <2>1, <2>4 DEF Covered
    <3> QED BY <1>0, <2>1, <2>4, <3>1, <3>2, <3>3 DEF Covered, Calling, NewLoop
  <2> QED BY <1>6, <2>2, <2>3, <2>4 DEF Refresh, Go, Calling, Calls
<1>7. CASE EnterHttp
  <2>1. Room' = Room /\ ~net.timedOut /\ Room >= Left(call.used) /\ Room >= 0
    BY <1>0, <1>7, LeftType DEF EnterHttp, Room, Covered, Calling
  <2>2. CASE Finish("notFound", call.used) \/ Finish("budget", call.used)
    BY <1>0, <1>1, <2>1, <2>2
  <2>3. CASE pc' = "post" /\ left' = left /\ call' = [call EXCEPT !.loop = NewLoop(Left(call.used))]
             /\ Left(call.used) # 0
    <3>1. call'.used = call.used /\ call'.loop = NewLoop(Left(call.used)) BY <2>3 DEF Calls
    <3>2. Left(call.used)' = Left(call.used) /\ Left(call.used) \in Nat BY <2>3, <3>1, LeftType DEF Left
    <3> QED BY <1>0, <2>1, <2>3, <3>1, <3>2 DEF Covered, Calling, NewLoop
  <2> QED BY <1>7, <2>2, <2>3 DEF EnterHttp, Go
<1>8. ASSUME pc = "post", ~net.timedOut
      PROVE  /\ call.loop.att = 0 /\ Spent = call.loop.base + 1 /\ Spent =< Left(call.used)
             /\ Room >= Left(call.used) - call.loop.base /\ Room >= 1
             /\ ~Fallback => Spent = 1
  BY <1>0, <1>8, LeftType DEF Covered, Calling, Spent, Fallback
<1>9. CASE NoDestination
  <2>1. Room' = Room /\ ~net.timedOut /\ pc = "post" BY <1>9 DEF NoDestination, Room
  <2>2. net'.sent \in Nat /\ net'.follows = net.follows /\ net'.timedOut = FALSE
    BY <1>9, <2>1 DEF NoDestination
  <2>3. Room' >= Left(call.used) - 1 /\ Room' >= 0
    BY <1>0, <1>8, <1>9, <2>1, LeftType DEF NoDestination, Spent
  <2> QED BY <1>9, <2>2, <2>3, HttpErrorCovered DEF NoDestination
<1>10. CASE PostOpens
  <2>1. Room' = Room - 1 /\ ~net.timedOut /\ pc = "post" BY <1>10 DEF PostOpens, Room, Nets
  <2>2. Least(Spent, Left(call.used)) = Spent /\ Spent \in Nat BY <1>8, <2>1, LeftType DEF Least
  <2>3. Room' >= Left(call.used + Spent) BY <1>0, <1>8, <2>1, <2>2 DEF Left
  <2> QED BY <1>0, <1>1, <1>8, <1>10, <2>1, <2>2, <2>3 DEF PostOpens
<1>11. CASE DialFails
  <2>1. Room' = Room /\ ~net.timedOut /\ pc = "post" /\ net'.follows = net.follows
        /\ net'.sent \in Nat /\ net'.timedOut = FALSE
    BY <1>11 DEF DialFails, Room, Nets
  <2>2. CASE UNCHANGED <<result, call>>
    BY <1>11, <2>1, <2>2 DEF DialFails, Covered, Calling, result, Left
  <2>3. ASSUME NEW n \in (IF Fallback THEN {Spent - 1, Spent} ELSE {1}), HttpError("ctx", n)
        PROVE  Covered'
    <3>1. n \in Nat /\ n >= call.loop.base BY <1>8, <2>1, <2>3 DEF Fallback
    <3>2. Room' >= Left(call.used) - n /\ Room' >= 0
      BY <1>0, <1>8, <2>1, <3>1, LeftType
    <3> QED BY <2>1, <2>3, <3>1, <3>2, HttpErrorCovered
  <2> QED BY <1>11, <2>2, <2>3 DEF DialFails
<1>12. CASE PostTimesOut
  BY <1>12 DEF PostTimesOut, Nets
<1>13. ASSUME NEW e \in Refusals, PostRefused(e) PROVE Covered'
  <2>1. Room' = Room - 1 /\ ~net.timedOut /\ pc = "post" /\ net'.follows = net.follows
        /\ net'.sent \in Nat /\ net'.timedOut = FALSE
    BY <1>13 DEF PostRefused, Room, Nets
  <2>2. CASE call' = [call EXCEPT !.loop.base = Spent, !.loop.att = 0] /\ UNCHANGED result
             /\ Spent < call.loop.max
    <3>1. call'.used = call.used /\ call'.loop.base = Spent /\ call'.loop.att = 0
          /\ call'.loop.max = call.loop.max
      BY <2>2 DEF Calls, Loops
    <3>2. call.loop.max = Left(call.used) /\ Left(call.used)' = Left(call.used)
      BY <2>1, <2>2, <3>1 DEF Covered, result, Left
    <3>3. Room' + Spent >= Left(call.used) BY <1>0, <1>8, <2>1, LeftType
    <3> QED BY <2>1, <2>2, <3>1, <3>2, <3>3 DEF Covered, Calling, result
  <2>3. CASE HttpError(e, Counted(e))
    <3>1. e # "timeout" BY DEF Refusals
    <3>2. Counted(e) = Spent /\ Spent \in Nat BY <1>8, <2>1, <3>1 DEF Counted
    <3>3. Room' >= Left(call.used) - Spent /\ Room' >= 0
      BY <1>0, <1>8, <2>1, <3>2, LeftType
    <3> QED BY <2>1, <2>3, <3>2, <3>3, HttpErrorCovered
  <2> QED BY <1>13, <2>2, <2>3 DEF PostRefused
<1> QED
  BY <1>2, <1>3, <1>4, <1>5, <1>6, <1>7, <1>9, <1>10, <1>11, <1>12, <1>13 DEF Create

LEMMA HandleCovered == ASSUME TInv, Answering, Covered, Handle PROVE Covered'
<1> SUFFICES ASSUME ~net'.timedOut PROVE Covered'
  BY DEF Covered
<1> USE Parts, BoundsAssumption DEF TInv, TypeOK, thread, result
<1>0. Room \in Int /\ left \in Nat
  BY DEF Room
<1>1. ASSUME pc \notin Making, pc' \notin Making, left' = left, net'.sent = net.sent,
             net'.follows = net.follows, net'.timedOut = net.timedOut
      PROVE  Covered'
  BY <1>1 DEF Covered, Making, Calling, Room
<1>2. ASSUME pc \notin Making, NEW delta, NEW for, Call(delta, for), UNCHANGED left, Room' >= 1,
             Room' >= left
      PROVE  Covered'
  <2>1. call'.used = 0 /\ pc' = "auth" BY <1>2 DEF Call
  <2> QED BY <1>0, <1>2, <2>1 DEF Covered, Calling, Left
<1>3. CASE RetryLimited
  <2>1. Room' = Room /\ Room >= left /\ left > 0 /\ pc \notin Making
    BY <1>3 DEF RetryLimited, Limited, Room, Covered, Calling, Making
  <2> QED BY <1>0, <1>2, <1>3, <2>1 DEF RetryLimited
<1>4. CASE ResendFull
  <2>1. Room' = Room /\ Room >= left /\ left > 0 /\ pc \notin Making
    <3>1. Room' = Room /\ left > 0 /\ pc \notin Making /\ ~net.timedOut
      BY <1>4 DEF ResendFull, Resumable, Room, Making
    <3> QED BY <3>1 DEF Covered, Calling, Making
  <2>2. call'.used = 0 /\ pc' = "auth" /\ left' = left BY <1>4 DEF ResendFull, Call
  <2> QED BY <1>0, <2>1, <2>2 DEF Covered, Calling, Left
<1>5. CASE Restart
  <2>1. Room' = Room /\ Room >= left /\ left > 0 /\ pc \notin Making
    <3>1. Room' = Room /\ left > 0 /\ pc \notin Making /\ ~net.timedOut
      BY <1>5 DEF Restart, Retriable, Room, Making
    <3> QED BY <3>1 DEF Covered, Calling, Making
  <2>2. call'.used = 0 /\ pc' = "auth" /\ left' = left BY <1>5 DEF Restart, Call
  <2> QED BY <1>0, <2>1, <2>2 DEF Covered, Calling, Left
<1>6. CASE FollowUp
  <2>1. Room' = Room + 1 /\ net'.timedOut = net.timedOut
    BY <1>6 DEF FollowUp, Room, Nets
  <2>2. Room >= left /\ pc \notin Making
    BY <1>6, <2>1 DEF FollowUp, Reading, Covered, Calling, Making
  <2> QED BY <1>0, <1>2, <1>6, <2>1, <2>2 DEF FollowUp
<1>7. CASE Refuse \/ Open \/ Output \/ Complete \/ AskFollowUp \/ Record \/ EndFailed \/ GiveUp
  BY <1>1, <1>7 DEF Refuse, Open, Output, Complete, AskFollowUp, Record, EndFailed, GiveUp,
     Reading, Unended, Making
<1>8. CASE PreviousNotFound \/ FollowUpRefused \/ EndEarly
  BY <1>1, <1>8 DEF PreviousNotFound, FollowUpRefused, EndEarly, StreamError, Reading, Unended, Making
<1>9. ASSUME NEW code \in Failures, ReturnFailure(code) \/ ShowFailure(code) \/ KeepFailure(code)
      PROVE  Covered'
  BY <1>1, <1>9 DEF ReturnFailure, ShowFailure, KeepFailure, StreamError, Reading, Unended, Making
<1>10. ASSUME NEW e \in {"transport", "tooBig", "write", "other"}, BodyBreaks(e) PROVE Covered'
  <2>1. net'.sent = net.sent /\ net'.follows = net.follows /\ net'.timedOut = net.timedOut
    BY <1>10 DEF BodyBreaks, Nets
  <2> QED BY <1>1, <1>10, <2>1 DEF BodyBreaks, StreamError, Reading, Making
<1> QED
  BY <1>3, <1>4, <1>5, <1>6, <1>7, <1>8, <1>9, <1>10 DEF Handle

-----------------------------------------------------------------------------
LEMMA InitInv == Init => IInv
<1> SUFFICES ASSUME Init PROVE IInv
  OBVIOUS
<1>1. TInv
  BY InitType
<1>2. NoDelta
  BY DEF Init, NoDelta
<1>3. Answering
  BY DEF Init, Answering, Returns, Unanswered, Seen, NoError, AnsweredOnce, RecordedAnswer,
     Ended, Returning, Old
<1>4. Covered
  BY BoundsAssumption DEF Init, Covered, Calling, Room, Left
<1> QED BY <1>1, <1>2, <1>3, <1>4 DEF IInv

LEMMA StepInv == IInv /\ [Next]_vars => IInv'
<1> SUFFICES ASSUME IInv, [Next]_vars PROVE IInv'
  OBVIOUS
<1>1. TInv' /\ NoDelta' /\ Answering'
  BY TypeStep, NoDeltaStep, AnsweringStep DEF IInv
<1>2. CASE Create BY <1>1, <1>2, CreateCovered DEF IInv
<1>3. CASE Handle BY <1>1, <1>3, HandleCovered DEF IInv
<1>4. CASE ClientLeaves \/ OthersRetire \/ Done \/ UNCHANGED vars
  BY <1>1, <1>4 DEF IInv, Covered, Calling, Room, Left, ClientLeaves, OthersRetire, Done, vars, result
<1> QED BY <1>1, <1>2, <1>3, <1>4 DEF IInv, Next

\* The strengthened invariant holds in every reachable state.
THEOREM Invariant == Spec => []IInv
  BY InitInv, StepInv, PTL DEF Spec

\* No error is counted for less than it cost: without a header time-out the
\* handler sends no more generation requests than its budget and its
\* continuations allow, whatever is refused, refreshed, retried or restarted.
THEOREM BudgetIsKept == Spec => []BudgetWithoutTimeout
<1>1. IInv => BudgetWithoutTimeout
  <2> SUFFICES ASSUME IInv, ~net.timedOut PROVE net.sent =< Attempts + net.follows
    BY DEF BudgetWithoutTimeout
  <2> USE Parts, BoundsAssumption DEF IInv, TInv, TypeOK
  <2>1. Left(call.used) \in Nat BY LeftType
  <2>2. Room >= 0 BY <2>1 DEF Covered, Calling, Room
  <2> QED BY <2>2 DEF Room
<1> QED BY Invariant, <1>1, PTL

\* A request with a previous_response_id never goes out over HTTP.
THEOREM DeltasStayOnWebSockets == Spec => []DeltaOnlyOverWebSocket
<1>1. IInv => DeltaOnlyOverWebSocket
  BY DEF IInv, NoDelta, DeltaOnlyOverWebSocket
<1> QED BY Invariant, <1>1, PTL

\* Every client is answered once, and what is sent again in full, or answered
\* with a status, has shown it nothing before.
THEOREM AnswersAreSingle == Spec => []OneAnswer
<1>1. IInv => OneAnswer
  BY DEF IInv, Answering, Unanswered, Seen, Ended, OneAnswer, FailureUnseen
<1> QED BY Invariant, <1>1, PTL

\* The recorded chain is the last response, complete, and the one its client
\* was told of.
THEOREM RecordsAreAnswers == Spec => []RecordedAnswer
<1>1. IInv => RecordedAnswer
  BY DEF IInv, Answering
<1> QED BY Invariant, <1>1, PTL
=============================================================================
