------------------------- MODULE HttpRequestProofs -------------------------
(***************************************************************************)
(* Theorems about HttpRequest for all deadlines and every length of a      *)
(* response: what is returned is whole, what is whole is returned unless   *)
(* the connection or the server fails, and it does not take longer than    *)
(* the two deadlines.                                                      *)
(***************************************************************************)
EXTENDS HttpRequest, TLAPS

\* A response async_read has returned is whole, as far as that can be told;
\* where it ends with the connection, close_notify follows the whole response.
ParsedIsWhole ==
    /\ parsed => received = Parts \/ (~Https /\ answer.ends_with = "connection")
    /\ peer = "notified" /\ answer.ends_with = "connection" => sent = Parts
    /\ stage = "closing" => parsed
    /\ parsed => stage \in {"closing", "ended"}
    /\ outcome = "body" => parsed /\ answer.status = "ok"
    /\ outcome # "none" <=> stage = "ended"

\* The timer is armed once for connection and handshake and once for the rest.
TimerArmed ==
    /\ clock <= deadline
    /\ deadline <= ConnectTime + PromptTime
    /\ stage = "resolving" => clock = 0
    /\ stage \in {"connecting", "handshaking"} => deadline = ConnectTime

IInv == TypeOK /\ ParsedIsWhole /\ TimerArmed /\ CompleteAnswerKept

LEMMA InitIInv == Init => IInv
<1> SUFFICES ASSUME Init PROVE IInv
  OBVIOUS
<1>1. {ConnectTime, PromptTime, Parts} \subseteq Nat
  BY HttpAssumption
<1>2. TypeOK
  <2>1. /\ url \in Url /\ answer \in Response
        /\ stage \in {"resolving", "ended"} \cup Timed
        /\ outcome \in {"none", "body", "error", "cancelled"}
        /\ peer \in {"open", "notified", "closed"}
        /\ net \in {"works", "broken"}
    BY DEF Init
  <2>2. parsed \in BOOLEAN
    BY DEF Init
  <2>3. /\ clock \in Nat /\ deadline \in Nat
        /\ sent \in 0..Parts /\ received \in 0..sent
    BY <1>1 DEF Init
  <2> QED
    BY <2>1, <2>2, <2>3 DEF TypeOK
<1>3. ParsedIsWhole /\ CompleteAnswerKept
  BY DEF Init, ParsedIsWhole, CompleteAnswerKept
<1>4. TimerArmed
  BY <1>1 DEF Init, TimerArmed
<1> QED
  BY <1>2, <1>3, <1>4 DEF IInv

---------------------------------------------------------------------------
(* The coroutine's steps.                                                  *)

\* Up to the request's end the coroutine only moves on or fails.
LEMMA OpeningKeepsIInv ==
    ASSUME IInv, Resolves \/ Connects \/ Handshakes \/ Writes \/ Fails
    PROVE  IInv'
<1> USE HttpAssumption
         DEF IInv, TypeOK, ParsedIsWhole, TimerArmed, CompleteAnswerKept, Timed,
             Https, GoesTo, Ends, ExpiresAfter, server, timer
<1>1. CASE Resolves
  BY <1>1 DEF Resolves
<1>2. CASE Connects
  BY <1>2 DEF Connects
<1>3. CASE Handshakes
  BY <1>3 DEF Handshakes
<1>4. CASE Writes
  BY <1>4 DEF Writes
<1>5. CASE Fails
  BY <1>5 DEF Fails
<1> QED
  BY <1>1, <1>2, <1>3, <1>4, <1>5

LEMMA ReceivesKeepsIInv ==
    ASSUME IInv, Receives
    PROVE  IInv'
BY HttpAssumption
   DEF IInv, TypeOK, ParsedIsWhole, TimerArmed, CompleteAnswerKept, Timed, Https,
       Receives, server, coroutine, timer

\* async_read returns only what is whole.
LEMMA ReadsResponseKeepsIInv ==
    ASSUME IInv, ReadsResponse
    PROVE  IInv'
<1>1. /\ stage = "reading"
      /\ UNCHANGED <<url, answer, sent, peer, net, clock, deadline, received>>
      /\ parsed' = TRUE
      /\ \/ Https /\ stage' = "closing" /\ UNCHANGED outcome
         \/ /\ stage' = "ended"
            /\ outcome' = (IF answer.status = "ok" THEN "body" ELSE "error")
         \/ stage' = "ended" /\ outcome' = "error" /\ net = "broken"
  BY DEF ReadsResponse, AfterReading, Returns, Ends, server, timer
<1>2. received = Parts \/ (~Https /\ answer.ends_with = "connection")
  BY DEF ReadsResponse, IInv, ParsedIsWhole, TypeOK, Response
<1> QED
  BY <1>1, <1>2, HttpAssumption
     DEF IInv, TypeOK, ParsedIsWhole, TimerArmed, CompleteAnswerKept, Timed,
         Https

LEMMA EndingKeepsIInv ==
    ASSUME IInv, Closes \/ TimesOut \/ Unwinds
    PROVE  IInv'
<1> USE HttpAssumption
         DEF IInv, TypeOK, ParsedIsWhole, TimerArmed, CompleteAnswerKept, Timed,
             Https, Ends, Returns, server, timer
<1>1. CASE Closes
  BY <1>1 DEF Closes
<1>2. CASE TimesOut
  BY <1>2 DEF TimesOut
<1>3. CASE Unwinds
  BY <1>3 DEF Unwinds
<1> QED
  BY <1>1, <1>2, <1>3

---------------------------------------------------------------------------
(* The server, the network and time.                                       *)

LEMMA EnvironmentKeepsIInv ==
    ASSUME IInv, Environment \/ Tick
    PROVE  IInv'
<1> USE HttpAssumption
         DEF IInv, TypeOK, ParsedIsWhole, TimerArmed, CompleteAnswerKept, Timed,
             Https, coroutine, timer, server
<1>1. CASE ServerSends
  BY <1>1 DEF ServerSends, Connected
<1>2. CASE ServerNotifies
  BY <1>2 DEF ServerNotifies, Connected
<1>3. CASE ServerCloses
  BY <1>3 DEF ServerCloses
<1>4. CASE Breaks
  BY <1>4 DEF Breaks
<1>5. CASE Tick
  BY <1>5 DEF Tick
<1> QED
  BY <1>1, <1>2, <1>3, <1>4, <1>5 DEF Environment

LEMMA StutterKeepsIInv ==
    ASSUME IInv, UNCHANGED vars
    PROVE  IInv'
BY DEF IInv, TypeOK, ParsedIsWhole, TimerArmed, CompleteAnswerKept, Https, vars

LEMMA NextKeepsIInv == IInv /\ [Next]_vars => IInv'
BY OpeningKeepsIInv, ReceivesKeepsIInv, ReadsResponseKeepsIInv, EndingKeepsIInv,
   EnvironmentKeepsIInv, StutterKeepsIInv
   DEF Next, Over

LEMMA IInvariant == Spec => []IInv
<1>1. Init => IInv
  BY InitIInv
<1>2. IInv /\ [Next]_vars => IInv'
  BY NextKeepsIInv
<1> QED
  BY <1>1, <1>2, PTL DEF Spec

---------------------------------------------------------------------------

\* The state of a request stays well typed.
THEOREM HttpTypeCorrectness == Spec => []TypeOK
<1>1. IInv => TypeOK
  BY DEF IInv
<1> QED
  BY <1>1, IInvariant, PTL

\* Over https whatever request_internet returns is the whole response; over http
\* it is whole unless only the end of the connection could have told.
THEOREM AnswersAreComplete == Spec => []AnswerIsComplete
<1>1. IInv => AnswerIsComplete
  BY DEF IInv, ParsedIsWhole, AnswerIsComplete
<1> QED
  BY <1>1, IInvariant, PTL

\* A whole answer is lost only to a broken connection or a silent server.
THEOREM CompleteAnswersAreKept == Spec => []CompleteAnswerKept
<1>1. IInv => CompleteAnswerKept
  BY DEF IInv
<1> QED
  BY <1>1, IInvariant, PTL

\* A request lasts no longer than both deadlines after its name is resolved.
THEOREM RequestsEndInTime == Spec => []EndsInTime
<1>1. IInv => EndsInTime
  BY HttpAssumption DEF IInv, TypeOK, TimerArmed, EndsInTime
<1> QED
  BY <1>1, IInvariant, PTL
===========================================================================
