---------------------------- MODULE HttpRequest ----------------------------
(***************************************************************************)
(* One call of request_internet: the coroutine typical_https_request (or   *)
(* typical_http_request), the server it talks to and the network between.  *)
(* The coroutine goes from await to await; boost::beast::tcp_stream ends   *)
(* an await at the stream's deadline, which expires_after sets.  Nothing   *)
(* is assumed of the server: it may answer early, late, in part, not at    *)
(* all, and may end its side properly, abruptly or never.                  *)
(*                                                                         *)
(* An action is named for the await it resumes from.  Time is counted from *)
(* the first expires_after: name resolution has no deadline.               *)
(***************************************************************************)
EXTENDS Naturals

CONSTANTS
    ConnectTime,  \* HTTP_MAX_TIME_TIMEOUT_RFC
    PromptTime,   \* MAX_PROMPT_TIME
    Parts         \* in how many parts a response arrives

ASSUME HttpAssumption ==
    {ConnectTime, PromptTime, Parts} \subseteq Nat \ {0}

VARIABLES
    url,       \* its scheme, and whether it names a port
    answer,    \* the response the server has: its status, and what ends it
    stage,     \* which await the coroutine is at
    parsed,    \* async_read has returned a response
    outcome,   \* what the coroutine returns
    clock,     \* time since the name was resolved
    deadline,  \* when the stream's timer expires
    sent,      \* parts of the response the server has sent
    received,  \* parts of it async_read has taken
    peer,      \* how the server has ended its side, if it has
    net        \* whether the connection still works

vars == <<url, answer, stage, parsed, outcome, clock, deadline, sent, received,
          peer, net>>

coroutine == <<stage, parsed, outcome>>
timer == <<clock, deadline>>
server == <<url, answer, sent, peer, net>>

Url == [scheme : {"https", "http"}, has_port : BOOLEAN]

\* The response ends with its Content-Length (or last chunk), or with the
\* connection.
Response == [status : {"ok", "other"}, ends_with : {"length", "connection"}]

\* The awaits the deadline applies to.
Timed == {"connecting", "handshaking", "writing", "reading", "closing"}

Https == url.scheme = "https"

---------------------------------------------------------------------------

Init ==
    /\ url \in Url
    /\ answer \in Response
    /\ stage = "resolving"
    /\ parsed = FALSE
    /\ outcome = "none"
    /\ clock = 0
    /\ deadline = 0
    /\ sent = 0
    /\ received = 0
    /\ peer = "open"
    /\ net = "works"

---------------------------------------------------------------------------
(* The coroutine.                                                          *)

GoesTo(await) == stage' = await /\ UNCHANGED <<parsed, outcome>>

Ends(result) == stage' = "ended" /\ outcome' = result

ExpiresAfter(time) == deadline' = clock + time /\ UNCHANGED clock

\* The name is resolved, or the host name for SNI is refused, or neither.
Resolves ==
    /\ stage = "resolving"
    /\ \/ GoesTo("connecting") /\ ExpiresAfter(ConnectTime)
       \/ Ends("error") /\ UNCHANGED <<parsed, timer>>
    /\ UNCHANGED <<server, received>>

\* Mutant: the handshake gets a deadline of its own.
ConnectsAndExtends ==
    /\ stage = "connecting"
    /\ net = "works"
    /\ \/ Https /\ GoesTo("handshaking") /\ ExpiresAfter(ConnectTime)
       \/ ~Https /\ url.has_port /\ GoesTo("writing") /\ ExpiresAfter(PromptTime)
    /\ UNCHANGED <<server, received>>

\* For https a missing port is 443; for http it is the empty string, which no
\* server listens at.
Connects ==
    /\ stage = "connecting"
    /\ net = "works"
    /\ \/ Https /\ GoesTo("handshaking") /\ UNCHANGED timer
       \/ ~Https /\ url.has_port /\ GoesTo("writing") /\ ExpiresAfter(PromptTime)
    /\ UNCHANGED <<server, received>>

Handshakes ==
    /\ stage = "handshaking"
    /\ net = "works"
    /\ peer = "open"
    /\ GoesTo("writing")
    /\ ExpiresAfter(PromptTime)
    /\ UNCHANGED <<server, received>>

Writes ==
    /\ stage = "writing"
    /\ net = "works"
    /\ GoesTo("reading")
    /\ UNCHANGED <<server, received, timer>>

\* async_read takes what has arrived.
Receives ==
    /\ stage = "reading"
    /\ received < sent
    /\ received' = received + 1
    /\ UNCHANGED <<server, coroutine, timer>>

\* The response in memory is returned if its status is 200.
Returns == Ends(IF answer.status = "ok" THEN "body" ELSE "error")

\* Over http the connection is shut down without an await; the error
\* not_connected (the server was faster) is ignored, others are not.
AfterReading ==
    /\ parsed' = TRUE
    /\ \/ Https /\ stage' = "closing" /\ UNCHANGED outcome
       \/ ~Https /\ Returns
       \/ ~Https /\ net = "broken" /\ Ends("error")

\* Mutant: the read ignores stream_truncated, as the shutdown does.
ReadsTruncated ==
    /\ stage = "reading"
    /\ \/ answer.ends_with = "length" /\ received = Parts
       \/ answer.ends_with = "connection" /\ received = sent /\ peer # "open"
    /\ AfterReading
    /\ UNCHANGED <<server, received, timer>>

\* async_read returns a response: it has the length it says, or the server has
\* ended the connection (over https properly: a truncated stream is an error).
ReadsResponse ==
    /\ stage = "reading"
    /\ \/ answer.ends_with = "length" /\ received = Parts
       \/ /\ answer.ends_with = "connection"
          /\ received = sent
          /\ peer = "notified" \/ (~Https /\ peer = "closed")
    /\ AfterReading
    /\ UNCHANGED <<server, received, timer>>

\* Mutant: stream_truncated is an error of the shutdown, too.
ClosesStrictly ==
    /\ stage = "closing"
    /\ \/ peer = "notified" /\ Returns
       \/ (peer = "closed" \/ net = "broken") /\ Ends("error")
    /\ UNCHANGED <<server, received, timer, parsed>>

\* async_shutdown waits for the server's close_notify; stream_truncated (the
\* server closed without it) is ignored, other errors lose the response.
Closes ==
    /\ stage = "closing"
    /\ \/ peer # "open" /\ Returns
       \/ net = "broken" /\ Ends("error")
    /\ UNCHANGED <<server, received, timer, parsed>>

\* Any other await returns an error: refused, no trust, malformed, too long,
\* cut off.
Fails ==
    /\ stage \in Timed \ {"closing"}
    /\ Ends("error")
    /\ UNCHANGED <<server, received, timer, parsed>>

\* Mutant: the shutdown is not covered by the deadline.
TimesOutBeforeClosing ==
    /\ stage \in Timed \ {"closing"}
    /\ clock = deadline
    /\ Ends("error")
    /\ UNCHANGED <<server, received, timer, parsed>>

\* The timer wins: error::timeout, even if the awaited event has just happened.
TimesOut ==
    /\ stage \in Timed
    /\ clock = deadline
    /\ Ends("error")
    /\ UNCHANGED <<server, received, timer, parsed>>

\* The nursery destroys the coroutine, and the stream with it.
Unwinds ==
    /\ stage # "ended"
    /\ Ends("cancelled")
    /\ UNCHANGED <<server, received, timer, parsed>>

---------------------------------------------------------------------------
(* The server, the network and time.                                       *)

Connected == stage \in {"writing", "reading", "closing"}

ServerSends ==
    /\ Connected
    /\ peer = "open"
    /\ sent < Parts
    /\ sent' = sent + 1
    /\ UNCHANGED <<url, answer, coroutine, timer, received, peer, net>>

\* close_notify, at any moment; where the response ends with the connection, it
\* is what ends the response.
ServerNotifies ==
    /\ Connected
    /\ Https
    /\ peer = "open"
    /\ answer.ends_with = "connection" => sent = Parts
    /\ peer' = "notified"
    /\ UNCHANGED <<url, answer, coroutine, timer, received, sent, net>>

\* The server closes the connection, or dies, at any moment.
ServerCloses ==
    /\ stage \in Timed
    /\ peer = "open"
    /\ peer' = "closed"
    /\ UNCHANGED <<url, answer, coroutine, timer, received, sent, net>>

Breaks ==
    /\ stage \in Timed
    /\ net' = "broken"
    /\ UNCHANGED <<url, answer, coroutine, timer, received, sent, peer>>

\* Time passes, but not past a deadline that has not been noticed.
Tick ==
    /\ stage \in Timed
    /\ clock < deadline
    /\ clock' = clock + 1
    /\ UNCHANGED <<server, coroutine, received, deadline>>

Over == stage = "ended" /\ UNCHANGED vars

Environment == ServerSends \/ ServerNotifies \/ ServerCloses \/ Breaks

Next ==
    \/ Resolves
    \/ Connects
    \/ Handshakes
    \/ Writes
    \/ Receives
    \/ ReadsResponse
    \/ Closes
    \/ Fails
    \/ TimesOut
    \/ Unwinds
    \/ Environment
    \/ Tick
    \/ Over

\* Time passes and timers fire; no answer of the server or the resolver is
\* counted on.
Fairness == WF_vars(Tick) /\ WF_vars(TimesOut)

Spec == Init /\ [][Next]_vars /\ Fairness

---------------------------------------------------------------------------
(* Properties.                                                             *)

TypeOK ==
    /\ url \in Url
    /\ answer \in Response
    /\ stage \in {"resolving", "ended"} \cup Timed
    /\ parsed \in BOOLEAN
    /\ outcome \in {"none", "body", "error", "cancelled"}
    /\ clock \in Nat
    /\ deadline \in Nat
    /\ sent \in 0..Parts
    /\ received \in 0..sent
    /\ peer \in {"open", "notified", "closed"}
    /\ net \in {"works", "broken"}

\* What is returned as a body is a whole response with status 200, whatever the
\* server and the network did; over plain http a response that ends with the
\* connection cannot be told from one that was cut off.
AnswerIsComplete ==
    outcome = "body" =>
        /\ answer.status = "ok"
        /\ received = Parts \/ (~Https /\ answer.ends_with = "connection")

\* A whole response with status 200 is thrown away only if the connection broke
\* or the server kept silent up to the deadline: a server that ends its side
\* without close_notify does not cost the answer.
CompleteAnswerKept ==
    parsed /\ answer.status = "ok" /\ outcome = "error"
        => net = "broken" \/ clock = deadline

\* Once its name is resolved, a request - and the permit of the service that is
\* held for it - lasts no longer than both deadlines together, and connection
\* and handshake no longer than the first.
EndsInTime ==
    /\ clock <= ConnectTime + PromptTime
    /\ stage \in {"connecting", "handshaking"} => clock <= ConnectTime

\* Once its name is resolved, a request ends, with a server that never answers,
\* never reads and never closes.
RequestEnds == stage # "resolving" ~> stage = "ended"
===========================================================================
