------------------------------ MODULE Polling ------------------------------
(***************************************************************************)
(* Heartbeats: the polling timer, checkForCommands by the timer, by the    *)
(* application and after a reinitialization, and the Responses.            *)
(*                                                                         *)
(* BreakoutTransport has the reinitializations in full; here one of them   *)
(* at a time matters, for the time it takes.  The clock counts units of    *)
(* the code's milliseconds, and all intervals are given in units.          *)
(***************************************************************************)
EXTENDS Integers, FiniteSets

CONSTANTS
    MINIMUM,      \* BREAKOUT_POLLING_INTERVAL_MINIMUM
    REINIT,       \* BREAKOUT_REINIT_CONNECTION_INTERVAL
    BACKOFF,      \* the five seconds a poll without a connection is put off
    DEFAULT,      \* polling_interval before it is set
    WIDTH,        \* 2^32 milliseconds
    WAIT,         \* the longest a reinitialization may take
    LIFE,         \* the earliest a Heartbeat may time out
    Intervals,    \* what the application asks for
    Losses,       \* what may be lost: "connection", "registration", "Heartbeat"
    MaxTime       \* bound: the clock stops here, or wraps if this is WIDTH

ASSUME PollingConstants ==
    /\ {MINIMUM, REINIT, BACKOFF, DEFAULT, WIDTH, WAIT, LIFE} \subseteq Nat \ {0}
    /\ DEFAULT >= MINIMUM /\ DEFAULT < WIDTH
    /\ BACKOFF <= MINIMUM /\ WAIT < REINIT
    /\ Intervals \subseteq Nat
    /\ Losses \subseteq {"connection", "registration", "Heartbeat"}
    /\ MaxTime \in 1 .. WIDTH

VARIABLES
    now,                          \* owl_time()
    polling_interval, last_polling, next_polling,
    registered, coap_status, last_coap_status_connected,
    ready,                        \* the transport is
    waiting                       \* the running reinitialization, if any

timers == <<polling_interval, last_polling, next_polling>>
connection == <<registered, coap_status, last_coap_status_connected, ready>>

\* Heartbeats, and history.  All that matters of a token is whether it is 0: the
\* token 1 stands for the others.
VARIABLES
    pending,     \* when the Heartbeats that may still time out were sent
    last_token,
    asked,       \* the token of the last Heartbeat
    answer,      \* what the Response to it was answered with
    requested,   \* the interval the application asked for last
    sent,        \* when the last Heartbeat was sent, or 0
    counted,     \* the time the code counts the interval after it from, or 0
    backdated,   \* last_polling was put back to before counted, and no poll
                 \* was tried since
    early        \* from which of the two the interval was not over when the timer
                 \* sent a Heartbeat, or from counted while last_polling was put back

heartbeats == <<pending, last_token, asked, answer, sent, counted, backdated,
                early>>

pollingVars == <<now, timers, connection, waiting, heartbeats, requested>>

None == [caller |-> "none", now |-> 0, auto |-> FALSE]

\* A caller of reinitializeTransport, with the time checkForCommands took at its
\* start, and whether the timer had called it.
Frame == [caller : {"check", "timeout"}, now : Nat, auto : BOOLEAN]

Online == registered /\ coap_status

Dead == now >= last_coap_status_connected + REINIT

\* polling_interval * 1000, in 32 bits.
Milliseconds(interval) == interval % WIDTH

(***************************************************************************)
(* setPollingInterval                                                      *)
(***************************************************************************)
\* Mutant of Supported: anything is.
SupportedAny(interval) == interval

Supported(interval) ==
    IF interval = 0 \/ interval >= MINIMUM THEN interval ELSE MINIMUM

\* Mutant of Timer: the first poll is not scheduled.
TimerNever(interval) ==
    IF interval = 0 \/ last_polling = 0 THEN 0
    ELSE last_polling + Milliseconds(interval)

\* Mutant of Timer: a new interval polls at once.
TimerAtOnce(interval) == IF interval = 0 THEN 0 ELSE 1

\* next_polling for an interval that differs from the one before.
Timer(interval) ==
    IF interval = 0 THEN 0
    ELSE IF last_polling = 0 THEN 1
    ELSE last_polling + Milliseconds(interval)

SetPollingInterval(interval) ==
    /\ waiting = None
    /\ requested' = interval
    /\ polling_interval' = Supported(interval)
    /\ next_polling' = IF Supported(interval) # polling_interval \/ Supported(interval) = 0
                       THEN Timer(Supported(interval))
                       ELSE next_polling
    /\ UNCHANGED <<now, last_polling, connection, waiting, heartbeats>>

(***************************************************************************)
(* checkForCommands.  t is its now, last the last_polling it finds.        *)
(***************************************************************************)
\* "Polling to often!"  owl_time_t is unsigned: a time ahead is very long ago.
TooOften(t, last) == last # 0 /\ t >= last /\ t - last < MINIMUM

\* Mutant of NextAfter: the timer counts from the time it was set for.
NextAfterDrifting(t) ==
    IF next_polling = 0 THEN 0 ELSE next_polling + Milliseconds(polling_interval)

\* The timer, once a Heartbeat was tried.
NextAfter(t) ==
    IF next_polling = 0 THEN 0 ELSE t + Milliseconds(polling_interval)

Over(start, t) == start = 0 \/ t - start >= polling_interval

\* What the timer's Heartbeat of the time t, sent now, comes too early for.
Early(t) == (IF Over(sent, now) THEN {} ELSE {"sent"})
                \cup (IF Over(counted, t) THEN {}
                      ELSE IF backdated THEN {"backdated"} ELSE {"counted"})

\* The rest of checkForCommands from recovered_connection on.  ok: sendReliably
\* has a slot, and the transport is ready.
Poll(t, last, auto, ok) ==
    IF TooOften(t, last)
    THEN last_polling' = last /\ UNCHANGED <<next_polling, heartbeats>>
    ELSE /\ last_polling' = t
         /\ next_polling' = NextAfter(t)
         /\ last_token' = 1
         /\ backdated' = FALSE
         /\ IF ok
            THEN /\ sent' = now
                 /\ counted' = t
                 /\ pending' = pending \cup {now}
                 /\ asked' = last_token
                 /\ answer' = "awaited"
                 /\ early' = early \cup (IF auto THEN Early(t) ELSE {})
            ELSE UNCHANGED <<sent, counted, pending, asked, answer, early>>

\* No connection, and no reinitialization either: "delay the call a bit".
Postpone(t) ==
    next_polling' = IF next_polling < t /\ next_polling # 0 THEN t + BACKOFF
                    ELSE next_polling

SendResults(isReady) == IF isReady THEN BOOLEAN ELSE {FALSE}

CheckOnline(auto) ==
    /\ Online
    /\ \E ok \in SendResults(ready) : Poll(now, last_polling, auto, ok)
    /\ UNCHANGED <<now, polling_interval, connection, waiting, requested>>

\* "Reset this timer, so that we won't try again for another interval"
CheckDead(auto) ==
    /\ registered /\ ~ coap_status
    /\ Dead
    /\ last_coap_status_connected' = now
    /\ waiting = None
    /\ waiting' = [caller |-> "check", now |-> now, auto |-> auto]
    /\ ready' = FALSE
    /\ UNCHANGED <<now, timers, registered, coap_status, heartbeats, requested>>

CheckOffline ==
    /\ ~ Online
    /\ registered => ~ Dead
    /\ Postpone(now)
    /\ UNCHANGED <<now, polling_interval, last_polling, connection, waiting,
                   heartbeats, requested>>

CheckForCommands(auto) == CheckOnline(auto) \/ CheckDead(auto) \/ CheckOffline

\* By spin, of the application or of a waiting reinitialization.
SpinChecks ==
    /\ waiting # None => ~ ready
    /\ next_polling # 0 /\ next_polling <= now
    /\ CheckForCommands(TRUE)

\* By the application.
ManualCheck == waiting = None /\ CheckForCommands(FALSE)

(***************************************************************************)
(* callback_checkForCommands, and the Responses.                           *)
(***************************************************************************)
HeartbeatAnswered(t) ==
    /\ waiting = None
    /\ pending' = pending \ {t}
    /\ UNCHANGED <<now, timers, connection, waiting, last_token, asked, answer,
                   requested, sent, counted, backdated, early>>

HeartbeatTimesOut(t) ==
    /\ "Heartbeat" \in Losses
    /\ waiting = None
    /\ now - t >= LIFE
    /\ pending' = pending \ {t}
    /\ waiting' = [caller |-> "timeout", now |-> now, auto |-> FALSE]
    /\ ready' = FALSE
    /\ UNCHANGED <<now, timers, registered, coap_status, last_coap_status_connected,
                   last_token, asked, answer, requested, sent, counted, backdated, early>>

\* handler_CoAPResponse of a 2.01.  last_polling_token is never assigned: it is 0.
Response ==
    /\ waiting = None
    /\ answer = "awaited"
    /\ answer' = IF asked = 0 THEN "ACK" ELSE "RST"
    /\ UNCHANGED <<now, timers, connection, waiting, pending, last_token, asked,
                   requested, sent, counted, backdated, early>>

(***************************************************************************)
(* The connection, as far as the timers see it.                            *)
(***************************************************************************)
\* The transport is ready, and the waiting loop ends; both callers poll.
Reinitialized ==
    /\ waiting # None
    /\ ready' = TRUE
    /\ coap_status' = TRUE
    /\ last_coap_status_connected' =
         IF ~ coap_status /\ registered THEN now ELSE last_coap_status_connected
    /\ IF waiting.caller = "check"
       THEN \E ok \in BOOLEAN : Poll(waiting.now, last_polling, waiting.auto, ok)
       ELSE IF registered
       THEN \E ok \in BOOLEAN : Poll(now, now - MINIMUM, FALSE, ok)
       ELSE /\ last_polling' = now - MINIMUM
            /\ backdated' = (backdated \/ now - MINIMUM < counted)
            /\ Postpone(now)
            /\ UNCHANGED <<pending, last_token, asked, answer, sent, counted, early>>
    /\ waiting' = None
    /\ UNCHANGED <<now, polling_interval, registered, requested>>

NotReinitialized ==
    /\ waiting # None
    /\ coap_status' = FALSE
    /\ IF waiting.caller = "check" THEN Postpone(waiting.now) ELSE UNCHANGED next_polling
    /\ waiting' = None
    /\ UNCHANGED <<now, polling_interval, last_polling, registered,
                   last_coap_status_connected, ready, heartbeats, requested>>

ConnectionLost ==
    /\ "connection" \in Losses
    /\ waiting = None
    /\ coap_status' = FALSE
    /\ ready' = FALSE
    /\ UNCHANGED <<now, timers, registered, last_coap_status_connected, waiting,
                   heartbeats, requested>>

RegistrationChanges ==
    /\ "registration" \in Losses
    /\ registered' = ~ registered
    /\ last_coap_status_connected' =
         IF registered' /\ coap_status THEN now ELSE last_coap_status_connected
    /\ UNCHANGED <<now, timers, coap_status, ready, waiting, heartbeats, requested>>

\* millis() is 32 bits wide; owl_time never saves last_millis, so epoch stays 0.
Tick ==
    /\ now < MaxTime \/ MaxTime = WIDTH
    /\ waiting # None => now - waiting.now < WAIT
    /\ now' = (now + 1) % WIDTH
    /\ UNCHANGED <<timers, connection, waiting, heartbeats, requested>>

-----------------------------------------------------------------------------

\* After powerModuleOn.  The first token is a random one.
PollingInit ==
    /\ now = 1
    /\ polling_interval = DEFAULT
    /\ last_polling = 0
    /\ next_polling = 1
    /\ registered = TRUE /\ coap_status = TRUE /\ ready = TRUE
    /\ last_coap_status_connected = 1
    /\ waiting = None
    /\ pending = {}
    /\ last_token \in {0, 1}
    /\ asked = 0
    /\ answer = "none"
    /\ requested = DEFAULT
    /\ sent = 0
    /\ counted = 0
    /\ backdated = FALSE
    /\ early = {}

PollingNext ==
    \/ \E interval \in Intervals : SetPollingInterval(interval)
    \/ SpinChecks \/ ManualCheck
    \/ \E t \in pending : HeartbeatAnswered(t) \/ HeartbeatTimesOut(t)
    \/ Response
    \/ Reinitialized \/ NotReinitialized
    \/ ConnectionLost \/ RegistrationChanges
    \/ Tick

PollingSpec == PollingInit /\ [][PollingNext]_pollingVars

\* The application calls spin for ever, and now and then in time for the timer.
PollingFairSpec == PollingSpec /\ WF_pollingVars(Tick) /\ SF_pollingVars(SpinChecks)

-----------------------------------------------------------------------------

PollingTypeOK ==
    /\ now \in 0 .. MaxTime
    /\ polling_interval \in {0} \cup {i \in Nat : i >= MINIMUM}
    /\ last_polling \in Int /\ next_polling \in Nat
    /\ registered \in BOOLEAN /\ coap_status \in BOOLEAN /\ ready \in BOOLEAN
    /\ last_coap_status_connected \in Nat
    /\ waiting \in Frame \cup {None}
    /\ pending \subseteq 0 .. MaxTime
    /\ last_token \in {0, 1} /\ asked \in {0, 1}
    /\ requested \in Nat /\ sent \in Nat /\ counted \in Nat
    /\ answer \in {"none", "awaited", "ACK", "RST"}
    /\ backdated \in BOOLEAN
    /\ early \subseteq {"sent", "counted", "backdated"}

\* The timer runs if and only if there is an interval to poll at.
TimerArmed == (polling_interval = 0) <=> (next_polling = 0)

\* The next poll is never further away than the interval, whatever was tried,
\* postponed or set before: polling does not stop.
NotTooFar == polling_interval # 0 => next_polling <= now + polling_interval

\* "Polling checks the server for a new Commands at a predefined interval": the
\* timer keeps its interval from the last Heartbeat, manual or not, as the code
\* counts it: from the check that sent it.  It need not once a Heartbeat timed out
\* while the device was not registered: callback_checkForCommands has then put
\* last_polling a minute back, maybe to before a newer Heartbeat, and an interval
\* set after that counts from there.
AutoSpaced == "counted" \notin early

-----------------------------------------------------------------------------
\* Stronger properties, which the code does not have.

\* The timer keeps its interval from the last Heartbeat, also after last_polling was
\* put back.
SpacedThoughBackdated == early \cap {"counted", "backdated"} = {}

\* "no less than 60 seconds": the interval is kept from when the last Heartbeat
\* was really sent.
SpacedByTheClock == "sent" \notin early

\* While there is an interval and a connection, Heartbeats are tried for ever:
\* "Non-wrapping time in milliseconds".
KeepsPolling == []<><<last_polling' # last_polling>>_pollingVars

\* "values < 60 will result in no polling"
ShortMeansNone == requested < MINIMUM => next_polling = 0

\* "Token sent in the last Heartbeats request, to match the Response"
ResponseMatched == answer # "RST"

\* With polling on, the timer runs, and polls of its own keep their distance.
TimerRight == PollingTypeOK /\ TimerArmed /\ AutoSpaced

=============================================================================
