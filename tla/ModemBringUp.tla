--------------------------- MODULE ModemBringUp ---------------------------
(***************************************************************************)
(* From power to a registered device: Breakout::initModem, the commands of *)
(* OwlModem::powerOn, initModem and waitForNetworkRegistration, and the    *)
(* registration status that OwlModemNetwork keeps from unsolicited lines   *)
(* and from the answers to queries, which pass through the same parser.    *)
(*                                                                         *)
(* A command and what is read until its result are one step; the engine    *)
(* below is module ModemAT.  A command may get lost or be refused, and its *)
(* result may come too late: it then stays on the line, and the next       *)
(* command takes it for its own.  The modem and the network are external.  *)
(***************************************************************************)
EXTENDS Integers, Sequences, SequencesExt

CONSTANTS
    Domains,       \* of "CREG", "CGREG", "CEREG"
    Statuses,      \* what the network may say, of 0, 1, 2, 3 and 5
    Variants,      \* testing_variant asks for other bands, and so for a reset?
    ATTEMPTS,      \* setHostDeviceInformation: attempts, 10
    MaxFaults,     \* bound: commands that a modem that is on does not execute, or answers late
    MaxChanges     \* bound: changes of the registration

ASSUME BringUpAssumption ==
    /\ Domains \subseteq {"CREG", "CGREG", "CEREG"} /\ "CEREG" \in Domains
    /\ Statuses \subseteq {0, 1, 2, 3, 5}
    /\ Variants \subseteq BOOLEAN
    /\ ATTEMPTS \in Nat \ {0} /\ MaxFaults \in Nat /\ MaxChanges \in Nat

VARIABLES
    phase,      \* what Breakout::initModem is at
    plan,       \* the commands OwlModem::initModem has still to give
    bands,      \* the testing variant
    attempts,   \* left, to set the HostDeviceInformation
    modem,      \* is it on, which settings has it taken, its MNO profile
    net,        \* the registration in each domain, as the modem knows it
    lines,      \* registration lines and results on their way from the modem
    cache,      \* last_network_status, last_gprs_status, last_eps_status
    handlers,   \* have Breakout's handlers been set?
    eps_registration_status,
    answer,     \* of the last getter: what it returned, and the truth at that time
    passed,     \* history: commands that the modem did not take, but another's result was OK
    faults, changes

bringUpVars == <<phase, plan, bands, attempts, modem, net, lines, cache, handlers,
                 eps_registration_status, answer, passed, faults, changes>>

(***************************************************************************)
(* The script of OwlModem::initModem.  After a command that is needed and  *)
(* fails, it fails; of others it only warns.                               *)
(***************************************************************************)
Need(command) == [command |-> command, needed |-> TRUE]
Warn(command) == [command |-> command, needed |-> FALSE]

Basic == <<Warn("ATV1"), Need("ATQ0"), Need("ATE0"), Need("AT+CMEE=2"), Warn("ATS3=13"),
           Warn("ATS4=10")>>

Expected == "TMO"

Bands == <<Warn("AT+URAT=8"), Warn("AT+UBANDMASK")>>

\* Mutant of Reset: the basic settings are not made again.
ResetForgets(profile, other) ==
    IF profile = Expected /\ ~ other THEN <<>>
    ELSE <<Warn("AT+CFUN=0")>>
         \o (IF profile = Expected THEN <<>> ELSE <<Need("AT+UMNOPROF=")>>)
         \o (IF other THEN Bands ELSE <<>>)
         \o <<Warn("AT+CFUN=15"), Need("wait")>>

\* A profile or bands that differ need a reset, and the basic settings again.
Reset(profile, other) ==
    IF profile = Expected /\ ~ other THEN <<>>
    ELSE <<Warn("AT+CFUN=0")>>
         \o (IF profile = Expected THEN <<>> ELSE <<Need("AT+UMNOPROF=")>>)
         \o (IF other THEN Bands ELSE <<>>)
         \o <<Warn("AT+CFUN=15"), Need("wait")>> \o Basic

Rest == <<Warn("AT+CSCS"), Warn("AT+UGPIOC"), Warn("AT+CREG=2"), Warn("AT+CGREG=2"),
          Warn("AT+CEREG=2"), Warn("AT+CPIN?"), Warn("AT+UDCONF"), Warn("AT+CGMM")>>

\* The settings that a property speaks of.
Lasting == {"ATQ0", "ATE0", "AT+CMEE=2", "AT+CREG=2", "AT+CGREG=2", "AT+CEREG=2"}

\* What the modem does with a command.
Executed(command) ==
    CASE command = "AT+CFUN=15" -> [modem EXCEPT !.on = FALSE, !.settings = {}]
      [] command = "AT+UMNOPROF=" -> [modem EXCEPT !.profile = Expected]
      [] OTHER -> [modem EXCEPT !.settings = @ \cup ({command} \cap Lasting)]

(***************************************************************************)
(* Lines: +CEREG: and the like, as tokens, some of them quoted.            *)
(***************************************************************************)
Plain(v) == [quoted |-> FALSE, value |-> v]
Location == [quoted |-> TRUE, value |-> 7]

Registered(stat) == stat \in {1, 5}

\* The modem adds the location when it is registered.
StatusTokens(stat) == IF Registered(stat) THEN <<Plain(stat), Location>> ELSE <<Plain(stat)>>

Setting == [d \in {"CREG", "CGREG", "CEREG"} |-> "AT+" \o d \o "=2"]

Mode(d) == IF Setting[d] \in modem.settings THEN 2 ELSE 0

Urc(d, stat) == [domain |-> d, tokens |-> StatusTokens(stat)]
Response(d) == [domain |-> d, tokens |-> <<Plain(Mode(d))>> \o StatusTokens(net[d])]

\* Mutant of HasN: only a line of one token is thought to be without n.
HasNByLength(tokens) == Len(tokens) > 1

\* The second token tells an answer, which begins with n, from a URC.
HasN(tokens) == ~ (Len(tokens) > 1 /\ tokens[2].quoted)

\* parseNetworkRegistrationStatus, parseGPRSRegistrationStatus and
\* parseEPSRegistrationStatus: the defaults stand for what is missing.
Parse(tokens) ==
    LET at == IF HasN(tokens) THEN 2 ELSE 1
    IN [n |-> IF HasN(tokens) THEN tokens[1].value ELSE 0,
        stat |-> IF Len(tokens) < at THEN 0 ELSE tokens[at].value]

\* Mutant of LastOf: the first of several lines is kept.
LastOfFirst(queue, d) == queue[SelectInSeq(queue, LAMBDA line : line.domain = d)]

\* Of several lines, each is processed, and the last leaves the status it says.
LastOf(queue, d) == queue[SelectLastInSeq(queue, LAMBDA line : line.domain = d)]

\* Mutant of Concerned: a line without n, a URC, is not told to Breakout.
ConcernedAnswers(queue) ==
    \E i \in DOMAIN queue : queue[i].domain = "CEREG" /\ HasN(queue[i].tokens)

\* Do the lines call handler_EPSRegistrationStatusChange?
Concerned(queue) == \E i \in DOMAIN queue : queue[i].domain = "CEREG"

\* processURC, of each line: the cache, and handler_EPSRegistrationStatusChange.
Processed(queue) ==
    /\ cache' = [d \in Domains |->
          IF \E i \in DOMAIN queue : queue[i].domain = d
          THEN Parse(LastOf(queue, d).tokens) ELSE cache[d]]
    /\ eps_registration_status' =
          IF handlers /\ Concerned(queue) THEN cache'["CEREG"].stat ELSE eps_registration_status

-----------------------------------------------------------------------------
(* Commands.                                                               *)

\* The modem executes a command, answers it with ERROR, or never sees it.
Fates == {"executed", "refused", "lost"}

ResultCode(ok) == [domain |-> "result", ok |-> ok]

ResultCodes(queue) == {i \in DOMAIN queue : queue[i].domain = "result"}

\* The line when the modem is done with a command whose answer has the lines said.
Answered(fate, said) ==
    CASE fate = "executed" -> Append(lines \o said, ResultCode(TRUE))
      [] fate = "refused" -> Append(lines, ResultCode(FALSE))
      [] OTHER -> lines

\* The first result that is read is taken for the command's own.
Ok(queue) == \E i \in ResultCodes(queue) : queue[i].ok /\ \A j \in ResultCodes(queue) : i <= j

\* doCommand: what has come before it times out is read, and returned with the first
\* result; other results that were read with it are dropped.  ok: does it return OK?
Command(fate, said, ok) ==
    /\ fate # "lost" => modem.on
    /\ LET queue == Answered(fate, said)
       IN \E k \in 0 .. Len(queue) :
             LET read == SubSeq(queue, 1, k)
             IN /\ lines' = SubSeq(queue, k + 1, Len(queue))
                /\ ok = Ok(read)
                /\ IF modem.on /\ (fate # "executed" \/ ResultCodes(read) = {})
                   THEN faults < MaxFaults /\ faults' = faults + 1
                   ELSE UNCHANGED faults
                /\ Processed(read)

\* Is a result on the line that the next command will take?
Stale == ResultCodes(lines) # {}

Credible == Lasting \cup {"AT+UMNOPROF=", "AT+CEREG?"}

\* A reset undoes what lasts until then.
Passed(command, fate, ok) ==
    IF fate = "executed" THEN passed \ IF command = "AT+CFUN=15" THEN Lasting ELSE {command}
    ELSE IF ok THEN passed \cup ({command} \cap Credible) ELSE passed

Fails(next) == /\ phase' = next /\ plan' = <<>>

-----------------------------------------------------------------------------

\* OwlModem::powerOn: until the modem answers, or for ten seconds.
PowerOn(fate, ok) ==
    /\ phase = "power"
    /\ Command(fate, <<>>, ok)
    /\ \/ ok /\ phase' = "init" /\ plan' = Basic \o <<Need("AT+UMNOPROF?")>>
       \/ ~ ok /\ UNCHANGED <<phase, plan>>
       \/ ~ ok /\ Fails("halted")
    /\ UNCHANGED <<bands, attempts, modem, net, handlers, answer, passed, changes>>

\* getModemMNOProfile: nothing stands before the result of another command.
ProfileRead == IF Stale THEN "default" ELSE modem.profile

\* The next command of initModem.
Configure(fate, ok) ==
    /\ phase = "init" /\ plan # <<>>
    /\ LET next == Head(plan)
       IN /\ next.command # "wait"
          /\ modem' = IF fate = "executed" THEN Executed(next.command) ELSE modem
          /\ passed' = Passed(next.command, fate, ok)
          /\ IF ~ ok /\ next.needed THEN Fails("halted")
             ELSE /\ plan' = IF next.command = "AT+UMNOPROF?"
                             THEN Reset(ProfileRead, bands) \o Rest
                             ELSE Tail(plan)
                  /\ phase' = IF plan' = <<>> THEN "iccid" ELSE phase
    /\ Command(fate, <<>>, ok)
    /\ UNCHANGED <<bands, attempts, net, handlers, answer, changes>>

\* "wait for the modem to come back"
WaitForModem(fate, ok) ==
    /\ phase = "init" /\ plan # <<>> /\ Head(plan).command = "wait"
    /\ Command(fate, <<>>, ok)
    /\ plan' = IF ok THEN Tail(plan) ELSE plan
    /\ phase' = IF plan' = <<>> THEN "iccid" ELSE phase
    /\ UNCHANGED <<bands, attempts, modem, net, handlers, answer, passed, changes>>

\* getICCID, and then Breakout sets its handlers.
ReadICCID(fate, ok) ==
    /\ phase = "iccid"
    /\ Command(fate, <<>>, ok)
    /\ IF ok THEN phase' = "register" /\ handlers' = TRUE
       ELSE phase' = "halted" /\ UNCHANGED handlers
    /\ UNCHANGED <<plan, bands, attempts, modem, net, answer, passed, changes>>

\* Mutant of Succeeds: only the home network will do.
SucceedsAtHome(stat) == stat = 1

Succeeds(stat) == Registered(stat)

\* getNetworkRegistrationStatus, getGPRSRegistrationStatus, getEPSRegistrationStatus:
\* the answer is a line like others, and the cache as it then is what they return.
Query(d, fate, ok) ==
    /\ Command(fate, <<Response(d)>>, ok)
    /\ answer' = IF ok
                 THEN [stat |-> cache'[d].stat, n |-> cache'[d].n, is |-> net[d], mode |-> Mode(d),
                       own |-> ~ Stale]
                 ELSE [stat |-> 0, n |-> 0, is |-> 0, mode |-> 0, own |-> FALSE]

\* A turn of waitForNetworkRegistration's loop.
WaitForNetworkRegistration(fate, ok) ==
    /\ phase = "register"
    /\ Query("CEREG", fate, ok)
    /\ passed' = Passed("AT+CEREG?", fate, ok)
    /\ IF ok /\ Succeeds(answer'.stat)
       THEN phase' = "describe" /\ attempts' = ATTEMPTS
       ELSE UNCHANGED <<phase, attempts>>
    /\ UNCHANGED <<plan, bands, modem, net, handlers, changes>>

\* setHostDeviceInformation; the result is only warned of.
SetHostDeviceInformation(fate, ok) ==
    /\ phase = "describe"
    /\ Command(fate, <<>>, ok)
    /\ attempts' = attempts - 1
    /\ phase' = IF ok \/ attempts' = 0 THEN "up" ELSE phase
    /\ UNCHANGED <<plan, bands, modem, net, handlers, answer, passed, changes>>

\* spin reads what has arrived; a result is dropped.
HandleLines ==
    /\ phase = "up"
    /\ \E k \in DOMAIN lines :
          /\ Processed(SubSeq(lines, 1, k))
          /\ lines' = SubSeq(lines, k + 1, Len(lines))
    /\ UNCHANGED <<phase, plan, bands, attempts, modem, net, handlers, answer, passed, faults, changes>>

\* The application asks.
GetRegistrationStatus(d, fate, ok) ==
    /\ phase = "up"
    /\ Query(d, fate, ok)
    /\ UNCHANGED <<phase, plan, bands, attempts, modem, net, handlers, passed, changes>>

-----------------------------------------------------------------------------

Boots ==
    /\ ~ modem.on
    /\ modem' = [modem EXCEPT !.on = TRUE]
    /\ UNCHANGED <<phase, plan, bands, attempts, net, lines, cache, handlers,
                   eps_registration_status, answer, passed, faults, changes>>

NetworkChanges(d, stat) ==
    /\ modem.on
    /\ changes < MaxChanges /\ changes' = changes + 1
    /\ stat # net[d]
    /\ net' = [net EXCEPT ![d] = stat]
    /\ lines' = IF Mode(d) = 2 THEN Append(lines, Urc(d, stat)) ELSE lines
    /\ UNCHANGED <<phase, plan, bands, attempts, modem, cache, handlers,
                   eps_registration_status, answer, passed, faults>>

BringUpInit ==
    /\ phase = "power" /\ plan = <<>> /\ bands \in Variants /\ attempts = 0
    /\ modem \in [on : BOOLEAN, settings : {{}}, profile : {"TMO", "default"}]
    /\ net \in [Domains -> Statuses \cap {0, 5}]
    /\ lines = <<>>
    /\ cache = [d \in Domains |-> [n |-> 0, stat |-> 0]]
    /\ handlers = FALSE
    /\ eps_registration_status = 0
    /\ answer = [stat |-> 0, n |-> 0, is |-> 0, mode |-> 0, own |-> FALSE]
    /\ passed = {} /\ faults = 0 /\ changes = 0

BringUp ==
    \E fate \in Fates, ok \in BOOLEAN :
       \/ PowerOn(fate, ok) \/ Configure(fate, ok) \/ WaitForModem(fate, ok) \/ ReadICCID(fate, ok)
       \/ WaitForNetworkRegistration(fate, ok) \/ SetHostDeviceInformation(fate, ok)

BringUpNext ==
    \/ BringUp
    \/ HandleLines
    \/ \E d \in Domains, fate \in Fates, ok \in BOOLEAN : GetRegistrationStatus(d, fate, ok)
    \/ Boots
    \/ \E d \in Domains, stat \in Statuses : NetworkChanges(d, stat)

BringUpSpec == BringUpInit /\ [][BringUpNext]_bringUpVars

\* initModem runs to its end, and a modem that reboots comes back.
BringUpFairSpec == BringUpSpec /\ WF_bringUpVars(BringUp) /\ WF_bringUpVars(Boots)

-----------------------------------------------------------------------------

BringUpTypeOK ==
    /\ phase \in {"power", "init", "iccid", "register", "describe", "up", "halted"}
    /\ \A i \in DOMAIN plan : plan[i].needed \in BOOLEAN
    /\ (plan # <<>>) <=> (phase = "init")
    /\ attempts \in 0 .. ATTEMPTS
    /\ net \in [Domains -> Statuses]
    /\ \A d \in Domains : cache[d].stat \in Statuses \cup {0} /\ cache[d].n \in {0, 1, 2, 3, 5}
    /\ eps_registration_status \in Statuses \cup {0}
    /\ passed \subseteq Credible
    /\ faults \in 0 .. MaxFaults /\ changes \in 0 .. MaxChanges

Initialized == phase \in {"iccid", "register", "describe", "up"}

\* After an initialization that succeeded, a modem has each setting it cannot do without,
\* made after its last reboot, and the MNO profile, unless the late result of another
\* command stood for just this one (OwlModem.cpp, initModem: the reset block repeats the
\* basic commands).
Configured ==
    Initialized => /\ {"ATQ0", "ATE0", "AT+CMEE=2"} \subseteq modem.settings \cup passed
                   /\ modem.profile = Expected \/ "AT+UMNOPROF=" \in passed

\* A getter that succeeds by its own result returns what the modem says at that moment,
\* however many older lines are still on their way (OwlModemNetwork.cpp, "the URC
\* handlers are catching this, so serving from local cache").
AnswersAreCurrent == answer.own => answer.stat = answer.is /\ answer.n = answer.mode

\* Once the device is up and all lines are read, Breakout holds it registered exactly
\* if the network does, if the modem took the setting to say so and the query that
\* ended the wait, whichever results were late
\* (handler_EPSRegistrationStatusChange, waitForNetworkRegistration).
RegistrationKnown ==
    phase = "up" /\ lines = <<>> /\ Mode("CEREG") = 2 /\ "AT+CEREG?" \notin passed =>
        (Registered(eps_registration_status) <=> Registered(net["CEREG"]))

\* If the device stays registered in the end, at home or roaming, initModem ends: the
\* device is up or, after a failure, halted (waitForNetworkRegistration's loop).
ComesUp == <>[]Registered(net["CEREG"]) => <>(phase \in {"up", "halted"})

-----------------------------------------------------------------------------
\* Stronger properties, which the code does not have.

\* A device that is up and has read all lines knows when its registration was denied:
\* a URC without a location is read as n without a status.
DenialKnown ==
    phase = "up" /\ lines = <<>> /\ Mode("CEREG") = 2 =>
        (eps_registration_status = 3 <=> net["CEREG"] = 3)

\* A device that is up learns of changes: the setting that makes the modem report them
\* may have failed with a warning.
ChangesReported == phase = "up" => Mode("CEREG") = 2

\* A modem whose initialization succeeded has every setting it cannot do without: the
\* late OK of an earlier command may stand for one that was lost.
ConfiguredAlways ==
    Initialized => /\ {"ATQ0", "ATE0", "AT+CMEE=2"} \subseteq modem.settings
                   /\ modem.profile = Expected

\* A getter that succeeds returns what the modem says: it may have ended with a late OK,
\* and serves what the cache says.
AnswersAlwaysCurrent == answer.stat = answer.is /\ answer.n = answer.mode

\* A device that is up and has read all lines knows whether it is registered: the query
\* that ended the wait may have been lost, and an older status have ended it.
RegistrationAlwaysKnown ==
    phase = "up" /\ lines = <<>> /\ Mode("CEREG") = 2 =>
        (Registered(eps_registration_status) <=> Registered(net["CEREG"]))

\* What the device believes of its registration is what the network last told
\* it, by a URC or in an answer to a question that is still the current one.
RegistrationTrue == BringUpTypeOK /\ AnswersAreCurrent /\ RegistrationKnown

=============================================================================
