------------------------- MODULE BreakoutTransport -------------------------
(***************************************************************************)
(* How Breakout keeps its connection: the registration and connection      *)
(* status, reinitializeTransport and the places that call it, the DTLS     *)
(* client under the CoAP peer, and the tinydtls session under that.        *)
(*                                                                         *)
(* reinitializeTransport waits for the transport by calling spin in a      *)
(* loop, so everything spin does can happen within it, another             *)
(* reinitializeTransport included.  The variable stack holds the running   *)
(* ones, innermost first, each with what its caller will do next.          *)
(*                                                                         *)
(* Time.  The loop's timeout and the age of the connection are compared    *)
(* with nothing else: a timeout may strike at any turn of a waiting loop,  *)
(* and dead says that BREAKOUT_REINIT_CONNECTION_INTERVAL has passed since *)
(* last_coap_status_connected.                                             *)
(***************************************************************************)
EXTENDS Integers, Sequences, FiniteSets

CONSTANTS
    NSTART,          \* slots of the client transaction table
    RETRIES,         \* BREAKOUT_INIT_CONNECTION_RETRIES
    Alerts,          \* the alerts the server may send: <<level, description>>
    SocketResults,   \* may the modem's socket be opened?
    Registrations,   \* what the network may report of the registration
    PowerCycles,     \* does the application switch the module off and on?
    MaxDepth         \* bound: nested calls of reinitializeTransport

ASSUME TransportConstants ==
    /\ NSTART \in Nat \ {0}
    /\ RETRIES \in Nat
    /\ Alerts \subseteq {"fatal", "warning"} \X {"close_notify", "other"}
    /\ SocketResults \subseteq BOOLEAN
    /\ Registrations \subseteq {"not_registered", "registered", "denied"}
    /\ PowerCycles \in BOOLEAN
    /\ MaxDepth \in Nat \ {0}

VARIABLES
    powered,
    eps_registration_status,
    coap_status,
    dead,
    told,    \* the status the connection handler was called with last
    dtls,    \* the OwlDTLSClient: its context, tinydtls's session, last_status
    polls,   \* Heartbeats in the client transaction table
    stack,   \* the running calls of reinitializeTransport
    fault    \* a null context was used, or a client that is in use was deleted

vars == <<powered, eps_registration_status, coap_status, dead, told, dtls, polls,
          stack, fault>>

Status == {"OFFLINE", "REGISTRATION_DENIED", "REGISTERED_NOT_CONNECTED",
           "REGISTERED_AND_CONNECTED"}

DTLSClient == [context : BOOLEAN,
               session : {"none", "handshake", "up"},
               last_status : {"close_notify", "connect", "connected", "other"}]

\* caller: handler_CoAPDTLSEvent, callback_checkForCommands, checkForCommands or
\* the application; inside: dtls_handle_message of the client is running below it.
Frame == [caller : {"event", "timeout", "check", "application"},
          inside : BOOLEAN, retries : 0 .. RETRIES]

StatusOf(eps, connected) ==
    CASE eps = "registered" /\ connected -> "REGISTERED_AND_CONNECTED"
      [] eps = "registered" /\ ~ connected -> "REGISTERED_NOT_CONNECTED"
      [] eps = "denied" -> "REGISTRATION_DENIED"
      [] OTHER -> "OFFLINE"

GetConnectionStatus == StatusOf(eps_registration_status, coap_status)

TransportIsReady == dtls.last_status = "connected"

\* notifyConnectionStatusChanged, for the status s.
Notify(s) ==
    /\ told' = s
    /\ dead' = IF s = "REGISTERED_AND_CONNECTED" THEN FALSE ELSE dead

(***************************************************************************)
(* OwlDTLSClient and CoAPPeer::reinitialize.                               *)
(***************************************************************************)
\* What initDTLSClient makes.
NewClient == [context |-> TRUE, session |-> "none", last_status |-> "close_notify"]

\* OwlDTLSClient::connect.  opened: could the socket be opened?  If not, close
\* frees the context.
Connect(d, opened) ==
    IF opened
    THEN [d EXCEPT !.session = "handshake", !.last_status = "connect"]
    ELSE [d EXCEPT !.session = "none", !.context = FALSE]

\* Mutant of Reinitialized: the session is thought to be up at once.
ReinitializedReady(d, opened) == [Connect(NewClient, opened) EXCEPT !.last_status = "connected"]

\* A connected or connecting client is deleted and made anew; a status that the
\* switch does not handle leaves everything as it is, and counts as success.
Reinitialized(d, opened) ==
    CASE d.last_status = "close_notify" -> Connect(d, opened)
      [] d.last_status \in {"connect", "connected"} -> Connect(NewClient, opened)
      [] OTHER -> d

ReinitializeFails(d, opened) == d.last_status # "other" /\ ~ opened

\* connect hands tinydtls the null context that an earlier close left.
UsesNullContext(d, opened) ==
    d.last_status = "close_notify" /\ opened /\ ~ d.context

\* initDTLSClient deletes the client whose dtls_handle_message is on the stack.
DeletesInUse(d, frames) ==
    /\ d.last_status \in {"connect", "connected"}
    /\ \E i \in DOMAIN frames : frames[i].inside

FaultOf(d, opened, frames) ==
    IF UsesNullContext(d, opened) THEN "null_context"
    ELSE IF DeletesInUse(d, frames) THEN "client_deleted"
    ELSE fault

(***************************************************************************)
(* checkForCommands, once the connection status is good: the Heartbeat is  *)
(* saved in the table unless it follows the last one too closely, the      *)
(* transport is not ready, or there is no slot.  A transaction that is     *)
(* timing out holds its slot until its callback returns.                   *)
(***************************************************************************)
TimingOut(frames) == Cardinality({i \in DOMAIN frames : frames[i].caller = "timeout"})

\* Mutant of PollMayBeSent: the slots of transactions that are timing out are
\* thought to be free.
PollMayBeSentAnySlot(frames) == TransportIsReady /\ polls < NSTART

\* Mutant of PollMayBeSent: the table is thought to have room for one more.
PollMayBeSentOneMore(frames) == TransportIsReady /\ polls <= NSTART

PollMayBeSent(frames) == TransportIsReady /\ polls + TimingOut(frames) < NSTART

MaybePoll(frames) ==
    \/ PollMayBeSent(frames) /\ polls' = polls + 1
    \/ UNCHANGED polls

(***************************************************************************)
(* The end of reinitializeTransport, and of its caller's work.             *)
(***************************************************************************)
\* Mutant of EndsWith: a connection that is back is not noted.
EndsWithLoss(f, result) ==
    /\ coap_status' = (coap_status /\ result)
    /\ IF coap_status # coap_status'
       THEN Notify(StatusOf(eps_registration_status, result))
       ELSE UNCHANGED <<told, dead>>

\* Mutant of EndsWith: only a failure is told.
EndsWithQuietly(f, result) ==
    /\ coap_status' = result
    /\ IF ~ result
       THEN Notify(StatusOf(eps_registration_status, result))
       ELSE UNCHANGED <<told, dead>>

\* reinitializeTransport notifies if coap_status changes; handler_CoAPDTLSEvent
\* notifies of a failure once more.
EndsWith(f, result) ==
    /\ coap_status' = result
    /\ IF coap_status # result \/ (f.caller = "event" /\ ~ result)
       THEN Notify(StatusOf(eps_registration_status, result))
       ELSE UNCHANGED <<told, dead>>

\* The innermost call returns result.  Only the callers that polled go on to
\* poll: checkForCommands if it recovered, callback_checkForCommands if the
\* status is good.
Returns(result) ==
    /\ EndsWith(Head(stack), result)
    /\ stack' = Tail(stack)
    /\ IF /\ result
          /\ \/ Head(stack).caller = "check"
             \/ Head(stack).caller = "timeout" /\ eps_registration_status = "registered"
       THEN MaybePoll(stack)
       ELSE UNCHANGED polls

(***************************************************************************)
(* The beginning of reinitializeTransport: reinitialize, then wait.        *)
(***************************************************************************)
\* If reinitialize fails, so does the call, before it waits.
Begin(d, f, opened) ==
    /\ Len(stack) < MaxDepth
    /\ fault' = FaultOf(d, opened, <<f>> \o stack)
    /\ dtls' = Reinitialized(d, opened)
    /\ IF ReinitializeFails(d, opened)
       THEN EndsWith(f, FALSE) /\ UNCHANGED stack
       ELSE stack' = <<f>> \o stack /\ UNCHANGED <<coap_status, told, dead>>

Call(caller, inside) == [caller |-> caller, inside |-> inside, retries |-> RETRIES]

\* The socket can only be opened while the module is powered.
Opened == IF powered THEN SocketResults ELSE {FALSE}

-----------------------------------------------------------------------------
(***************************************************************************)
(* The waiting loop.                                                       *)
(***************************************************************************)
LoopReady ==
    /\ stack # <<>>
    /\ TransportIsReady
    /\ Returns(TRUE)
    /\ UNCHANGED <<powered, eps_registration_status, dtls, fault>>

\* The timeout is looked at after spin, and the loop's condition only after that:
\* a handshake that ends as the timeout strikes is thrown away.
LoopGivesUp ==
    /\ stack # <<>>
    /\ Head(stack).retries = 0
    /\ Returns(FALSE)
    /\ UNCHANGED <<powered, eps_registration_status, dtls, fault>>

LoopRetries(opened) ==
    /\ stack # <<>>
    /\ Head(stack).retries > 0
    /\ fault' = FaultOf(dtls, opened, stack)
    /\ dtls' = Reinitialized(dtls, opened)
    /\ IF ReinitializeFails(dtls, opened)
       THEN Returns(FALSE)
       ELSE /\ stack' = [stack EXCEPT ![1].retries = @ - 1]
            /\ UNCHANGED <<coap_status, told, dead, polls>>
    /\ UNCHANGED <<powered, eps_registration_status>>

(***************************************************************************)
(* What spin does, from the application's loop or from the waiting one.    *)
(***************************************************************************)
\* handler_EPSRegistrationStatusChange
RegistrationChanges(stat) ==
    /\ powered
    /\ stat # eps_registration_status
    /\ eps_registration_status' = stat
    /\ Notify(StatusOf(stat, coap_status))
    /\ UNCHANGED <<powered, coap_status, dtls, polls, stack, fault>>

\* The handshake succeeds: the event connected, at level 0.
HandshakeEnds ==
    /\ powered
    /\ dtls.session = "handshake"
    /\ dtls' = [dtls EXCEPT !.session = "up", !.last_status = "connected"]
    /\ UNCHANGED <<powered, eps_registration_status, coap_status, dead, told,
                   polls, stack, fault>>

\* tinydtls gets an alert of a peer it knows, forgets the peer if the alert is
\* fatal or close_notify, and fires the event; fireHandlerEvent saves the
\* description as last_status.
Alerted(level, description) ==
    [dtls EXCEPT !.last_status = description,
                 !.session = IF level = "fatal" \/ description = "close_notify"
                             THEN "none" ELSE @]

\* handler_CoAPDTLSEvent: fatal alerts reinitialize a connected transport, within
\* dtls_handle_message.
AlertArrives(level, description, opened) ==
    /\ powered
    /\ dtls.session # "none"
    /\ IF level = "fatal" /\ coap_status
       THEN Begin(Alerted(level, description), Call("event", TRUE), opened)
       ELSE /\ dtls' = Alerted(level, description)
            /\ UNCHANGED <<coap_status, dead, told, stack, fault>>
    /\ UNCHANGED <<powered, eps_registration_status, polls>>

\* A Heartbeat is acknowledged or rejected.
PollAnswered ==
    /\ powered
    /\ dtls.session = "up" /\ polls > 0
    /\ polls' = polls - 1
    /\ UNCHANGED <<powered, eps_registration_status, coap_status, dead, told, dtls,
                   stack, fault>>

\* A Heartbeat times out, in triggerClientTransactionRetransmissions or, if
\* inside, in the handleRx of a message that just arrived: the callback
\* reinitializes the transport.  isRetry is never true.
PollTimesOut(inside, opened) ==
    /\ polls > 0
    /\ inside => powered /\ dtls.session = "up"
    /\ polls' = polls - 1
    /\ Begin(dtls, Call("timeout", inside), opened)
    /\ UNCHANGED <<powered, eps_registration_status>>

\* spin begins with checkForCommands, and the waiting loop calls spin only while
\* the transport is not ready.
AtStartOfSpin == stack # <<>> => ~ TransportIsReady

\* checkForCommands when it is time to, or when the application asks.
CheckForCommandsOnline ==
    /\ AtStartOfSpin
    /\ GetConnectionStatus = "REGISTERED_AND_CONNECTED"
    /\ MaybePoll(stack)
    /\ UNCHANGED <<powered, eps_registration_status, coap_status, dead, told, dtls,
                   stack, fault>>

\* "If the connection was dead for too long, try to automatically reinitialize
\* it", and reset the timer first.
CheckForCommandsDead(opened) ==
    /\ AtStartOfSpin
    /\ GetConnectionStatus = "REGISTERED_NOT_CONNECTED"
    /\ dead
    /\ Len(stack) < MaxDepth
    /\ dead' = FALSE
    /\ fault' = FaultOf(dtls, opened, stack)
    /\ dtls' = Reinitialized(dtls, opened)
    /\ stack' = IF ReinitializeFails(dtls, opened) THEN stack
                ELSE <<Call("check", FALSE)>> \o stack
    /\ UNCHANGED <<powered, eps_registration_status, coap_status, told, polls>>

\* The minutes of the interval do not pass within one turn of the loop.
TimePasses ==
    /\ AtStartOfSpin
    /\ ~ dead
    /\ dead' = TRUE
    /\ UNCHANGED <<powered, eps_registration_status, coap_status, told, dtls, polls,
                   stack, fault>>

(***************************************************************************)
(* What the application does, between two calls of spin.                   *)
(***************************************************************************)
ReinitializeTransport(opened) ==
    /\ stack = <<>>
    /\ Begin(dtls, Call("application", FALSE), opened)
    /\ UNCHANGED <<powered, eps_registration_status, polls>>

PowerModuleOff ==
    /\ PowerCycles
    /\ stack = <<>>
    /\ powered
    /\ powered' = FALSE
    /\ eps_registration_status' = "not_registered"
    /\ UNCHANGED <<coap_status, dead, told, dtls, polls, stack, fault>>

PowerModuleOn(opened) ==
    /\ stack = <<>>
    /\ ~ powered
    /\ powered' = TRUE
    /\ eps_registration_status' = "not_registered"
    /\ Begin(dtls, Call("application", FALSE), opened)
    /\ UNCHANGED polls

-----------------------------------------------------------------------------

\* After powerModuleOn: initModem has registered, initCoAPPeer has connected.
Init ==
    /\ powered = TRUE
    /\ eps_registration_status = "registered"
    /\ coap_status = TRUE
    /\ dead = FALSE
    /\ told = "REGISTERED_AND_CONNECTED"
    /\ dtls = [context |-> TRUE, session |-> "up", last_status |-> "connected"]
    /\ polls = 0
    /\ stack = <<>>
    /\ fault = "none"

Loop == LoopReady \/ LoopGivesUp \/ \E opened \in Opened : LoopRetries(opened)

Spin ==
    \/ \E stat \in Registrations : RegistrationChanges(stat)
    \/ HandshakeEnds
    \/ \E a \in Alerts, opened \in Opened : AlertArrives(a[1], a[2], opened)
    \/ PollAnswered
    \/ \E inside \in BOOLEAN, opened \in Opened : PollTimesOut(inside, opened)
    \/ CheckForCommandsOnline
    \/ \E opened \in Opened : CheckForCommandsDead(opened)
    \/ TimePasses

Application ==
    \/ \E opened \in Opened : ReinitializeTransport(opened)
    \/ PowerModuleOff
    \/ \E opened \in SocketResults : PowerModuleOn(opened)

\* After a fault anything may happen: the model stops there.
Next == fault = "none" /\ (Loop \/ Spin \/ Application)

Spec == Init /\ [][Next]_vars

\* The waiting loop and the application's loop go on for ever, time passes, a
\* Heartbeat is answered or times out; and the server, asked again and again,
\* sometimes answers a handshake while the loop waits for it, and in time.
Fairness ==
    /\ WF_vars(fault = "none" /\ Loop)
    /\ WF_vars(fault = "none" /\ TimePasses)
    /\ WF_vars(fault = "none" /\ \E opened \in Opened : CheckForCommandsDead(opened))
    /\ WF_vars(fault = "none" /\ \/ PollAnswered
                                 \/ \E opened \in Opened : PollTimesOut(FALSE, opened))
    /\ SF_vars(fault = "none" /\ stack # <<>> /\ HandshakeEnds)
    /\ SF_vars(fault = "none" /\ LoopReady)

FairSpec == Spec /\ Fairness

-----------------------------------------------------------------------------

TransportTypeOK ==
    /\ powered \in BOOLEAN
    /\ eps_registration_status \in {"not_registered", "registered", "denied"}
    /\ coap_status \in BOOLEAN
    /\ dead \in BOOLEAN
    /\ told \in Status
    /\ dtls \in DTLSClient
    /\ polls \in 0 .. NSTART
    /\ stack \in Seq(Frame) /\ Len(stack) <= MaxDepth
    /\ fault \in {"none", "null_context", "client_deleted"}

\* The application was told the status it would get by asking, however the calls
\* of reinitializeTransport are nested.  (A module that was switched off or on
\* tells nobody that it is no longer registered.)
ToldLatest ==
    powered /\ eps_registration_status # "not_registered" => told = GetConnectionStatus

\* transportIsReady looks at the last event only; yet it never holds without a
\* session, so a message is never handed to a session that is gone.
ReadyMeansUp == TransportIsReady => dtls.session = "up" /\ dtls.context

\* Heartbeats in the table and those timing out never exceed the slots.
PollsFit == polls + TimingOut(stack) <= NSTART

\* While the network keeps the device registered, a lost connection comes back,
\* whatever alerts, reinitializations and power cycles came before, unless the last
\* session ended with an alert that reinitialize has no case for, or a socket that
\* did not open has left the client without a context (reinitializeTransport and the
\* dead-connection branch of checkForCommands).
RecoversUnlessAlerted ==
    <>[](/\ fault = "none" /\ eps_registration_status = "registered"
         /\ dtls.context /\ dtls.last_status # "other")
        => []<>coap_status

-----------------------------------------------------------------------------
\* Stronger properties, which the code does not have.

\* "connected to the Twilio Commands SDK - online": a connection that is reported
\* but down is noticed in the end.
NoticesLoss ==
    [](fault = "none")
        => ((coap_status /\ ~ TransportIsReady) ~> (~ coap_status \/ TransportIsReady))

\* "If the connection was dead for too long, try to automatically reinitialize it":
\* the same whatever alert arrived.
Recovers ==
    [](fault = "none" /\ eps_registration_status = "registered")
        => (~ coap_status ~> coap_status)

\* A transport that could not be reinitialized can be reinitialized later.
NoNullContext == fault # "null_context"

\* The DTLS client is not deleted while it is handling a message.
NoDeleteInUse == fault # "client_deleted"

\* A transport that is said to be ready is up, however reinitializations nest,
\* and the Heartbeats they start fit into the client's slots.
TransportConsistent == TransportTypeOK /\ ReadyMeansUp /\ PollsFit

=============================================================================
