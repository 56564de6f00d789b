----------------------------- MODULE ModemSocket -----------------------------
(***************************************************************************)
(* The sockets of the modem as the SDK sees them (OwlModemSocket): the     *)
(* status it keeps of each, the composite calls that open one, and the     *)
(* data that URCs announce and handleWaitingData fetches.  A command is    *)
(* two steps: the modem executes it, then its result and the URCs sent     *)
(* before it are read.  The result of a command that timed out stays on    *)
(* the line, where the next one takes it for its own.  The modem is        *)
(* external; data is counted in units of which a call reads at most one    *)
(* for UDP and all for TCP.                                                *)
(***************************************************************************)
EXTENDS Integers, Sequences, SequencesExt

CONSTANTS
  Sockets,       \* the sockets of the modem: 0 .. MODEM_MAX_SOCKETS - 1
  Plans,         \* the composite calls the application makes
  MaxOpens,      \* bound: sockets opened, by call or by a connection that is accepted
  MaxUnits,      \* bound: units of data that arrive
  LateOnce,      \* bound: whether at most one command is answered too late
  Skies          \* the environments: sets of "error", "lost", "late", "stuck", "hangup", "big"

ASSUME SocketAssumption ==
  /\ Sockets \subseteq Nat
  /\ Plans \subseteq {"listenUDP", "listenUDPbug", "connectUDP", "listenConnectUDP",
                     "listenConnectTCP", "acceptTCP"}
  /\ 0 \in Sockets
  /\ MaxOpens \in Nat /\ MaxUnits \in Nat /\ LateOnce \in BOOLEAN

VARIABLES
  status,        \* status[]: what the SDK keeps of a socket
  op,            \* the call in progress, its commands to come and its result so far
  real,          \* external: the sockets as the modem has them
  line,          \* external: the URCs and results on their way
  owned,         \* the sockets a call returned to the application, or it accepted (history)
  opens, units,  \* sockets opened, units arrived
  flaw,          \* what a command failed to do (history)
  mixed,         \* data of one opening was given to the handlers of another (history)
  sky            \* what may happen in this behaviour

socketVars == <<status, op, real, line, owned, opens, units, flaw, mixed, sky>>

Can(w) == w \in sky

Unopened == [opened |-> FALSE, connected |-> FALSE, proto |-> "none", rd |-> 0, rf |-> 0,
             data |-> 0, closed |-> 0, accept |-> 0]

\* Mutant of SetOpened: the handlers of the last owner stay.
SetOpenedStale(st, proto) ==
  [st EXCEPT !.opened = TRUE, !.connected = FALSE, !.proto = proto, !.rd = 0, !.rf = 0]

\* setOpened: a fresh status; setClosed: what was announced is kept.
SetOpened(st, proto) == [Unopened EXCEPT !.opened = TRUE, !.proto = proto]
SetClosed(st) == [Unopened EXCEPT !.rd = st.rd, !.rf = st.rf]

(***************************************************************************)
(* The commands of the composite calls, after AT+USOCR: openListenUDP,     *)
(* openConnectUDP, openListenConnectUDP (both with and without the listen  *)
(* bug of a modem), openListenConnectTCP and openAcceptTCP.  "handler" and *)
(* "listenTCP" only set the handler of the data.                           *)
(***************************************************************************)
Steps(plan) ==
  CASE plan = "listenUDP"        -> <<"UDP", "listen">>
    [] plan = "listenUDPbug"     -> <<"UDP", "handler">>
    [] plan = "connectUDP"       -> <<"UDP", "connect", "handler">>
    [] plan = "listenConnectUDP" -> <<"UDP", "listen", "connect">>
    [] plan = "listenConnectTCP" -> <<"TCP", "handler", "connect">>
    [] plan = "acceptTCP"        -> <<"TCP", "handler", "accept">>

Nothing == [k |-> "idle", s |-> -1, gen |-> 0, todo |-> <<>>, sent |-> FALSE, got |-> 0]
Opening(plan) == [Nothing EXCEPT !.k = "open", !.todo = Steps(plan)]
Closing(s) == [Nothing EXCEPT !.k = "close", !.s = s, !.todo = <<"close">>]
Fetching(s, how) == [Nothing EXCEPT !.k = "fetch", !.s = s, !.todo = <<how>>]

Step == Head(op.todo)
Free == {s \in Sockets : ~real[s].open}
Shut == [open |-> FALSE, gen |-> 0, proto |-> "none", conn |-> FALSE, listens |-> FALSE, q |-> 0]
Unsolicited(k, s, n) == [k |-> k, s |-> s, n |-> n, on |-> s, gen |-> 0]
Result(ok) == Unsolicited("result", 0, IF ok THEN 1 ELSE 0)

\* The result, and with it the answer, of a call whose command timed out.
LateResult(ok, call) ==
  [k |-> "late", ok |-> ok, to |-> Head(call.todo), s |-> call.s, gen |-> call.gen, got |-> call.got]
Verdicts == {i \in DOMAIN line : line[i].k \in {"result", "late"}}

\* A command is sent while the answer to another is on the line, and will take it.
Mistaken == IF \E i \in Verdicts : line[i].k = "late" THEN {"mistaken"} ELSE {}

-----------------------------------------------------------------------------
(***************************************************************************)
(* processURC: +UUSORD, +UUSORF, +UUSOLI, +UUSOCO and +UUSOCL.             *)
(***************************************************************************)
Accepted(st, u) ==
  [st EXCEPT ![u.s] = [SetOpened(st[u.s], "TCP") EXCEPT
    !.connected = TRUE,
    !.data = IF st[u.on].data = 0 THEN 0 ELSE u.gen,
    !.closed = IF st[u.on].closed = 0 THEN 0 ELSE u.gen]]

ProcessURC(st, u) ==
  CASE u.k = "rd" -> [st EXCEPT ![u.s].rd = u.n]
    [] u.k = "rf" -> [st EXCEPT ![u.s].rf = u.n]
    [] u.k = "li" -> Accepted(st, u)
    [] u.k = "co" -> [st EXCEPT ![u.s].connected = (u.n = 0)]
    [] u.k = "cl" -> [st EXCEPT ![u.s].connected = FALSE]
    [] u.k = "result" -> st

\* A connection was accepted on a socket whose listener asked to be told.
Told(u) == u.k = "li" /\ status[u.on].accept # 0
Unheard(u) == u.k = "li" /\ status[u.on].accept = 0

\* News of a connection on the socket of a command that was executed before it came in.
Overtakes(u) ==
  /\ op # Nothing /\ \E i \in DOMAIN line : line[i] = Result(TRUE)
  /\ u.k = "li" /\ u.s = op.s /\ u.gen > op.gen

(***************************************************************************)
(* A line is read while no call is in progress (handleRxOnTimer) or while  *)
(* one waits for its result: what was drained together with the result is  *)
(* handled before it, and is dropped when it is a second result.  A result *)
(* that comes when nobody waits for it is an orphan, and dropped.          *)
(***************************************************************************)
LineWithout(i) == IF i <= 2 THEN RemoveAt(line, i) ELSE <<Head(line)>> \o SubSeq(line, i + 1, Len(line))

ReadLine ==
  /\ op = Nothing \/ op.sent
  /\ \E i \in DOMAIN line \ Verdicts : LET u == line[i] IN
       /\ 1 .. i - 1 \subseteq Verdicts /\ (op = Nothing => i = 1)
       /\ status' = ProcessURC(status, u)
       /\ line' = LineWithout(i)
       /\ owned' = IF Told(u) THEN owned \cup {u.s} ELSE owned
       /\ flaw' = flaw \cup (IF Unheard(u) THEN {"unheard"} ELSE {})
                       \cup (IF Overtakes(u) THEN {"overtaken"} ELSE {})
  /\ UNCHANGED <<op, real, opens, units, mixed, sky>>

DropLate ==
  /\ op = Nothing /\ line # <<>> /\ Head(line).k = "late"
  /\ line' = Tail(line)
  /\ UNCHANGED <<status, op, real, owned, opens, units, flaw, mixed, sky>>

-----------------------------------------------------------------------------
\* The application opens and closes sockets.
Open ==
  /\ op = Nothing /\ opens < MaxOpens
  /\ \E plan \in Plans : op' = Opening(plan)
  /\ UNCHANGED <<status, real, line, owned, opens, units, flaw, mixed, sky>>

Close(s) ==
  /\ op = Nothing /\ s \in owned
  /\ op' = Closing(s) /\ owned' = owned \ {s}
  /\ UNCHANGED <<status, real, line, opens, units, flaw, mixed, sky>>

(***************************************************************************)
(* handleWaitingData: what was announced is fetched, after the counter was *)
(* reset; a socket without a protocol has nothing to fetch.                *)
(***************************************************************************)
\* receiveUDP, receiveTCP and receiveFromUDP: what they refuse.
Fetchable(st, how) ==
  /\ st.opened
  /\ how = "rd" => st.connected
  /\ st.proto = "UDP" => st[how] <= 1

HandleWaitingData(s) ==
  /\ op = Nothing
  /\ \E how \in {"rd", "rf"} :
       /\ status[s][how] > 0
       /\ how = "rd" => status[s].rf = 0
       /\ status' = [status EXCEPT ![s][how] = 0]
       /\ LET reads == /\ status[s].proto = "UDP" \/ (status[s].proto = "TCP" /\ how = "rd")
                       /\ Fetchable(status[s], how) IN
          /\ op' = IF reads THEN Fetching(s, how) ELSE op
          /\ flaw' = IF reads \/ ~status[s].opened THEN flaw ELSE flaw \cup {"refused"}
  /\ UNCHANGED <<real, line, owned, opens, units, mixed, sky>>

-----------------------------------------------------------------------------
(***************************************************************************)
(* The modem executes the next command of the call in progress, and its    *)
(* result goes on the line, unless it comes too late.                      *)
(***************************************************************************)
Waits == op # Nothing /\ op.todo # <<>> /\ ~op.sent /\ Step # "handler"

Sends(r) == op' = [r EXCEPT !.sent = TRUE]

\* connect marks the socket as not connected before it sends the command.
Unconnected(st) == IF Step = "connect" THEN [st EXCEPT ![op.s].connected = FALSE] ELSE st

After(s) ==
  CASE Step = "connect" -> [real[s] EXCEPT !.conn = TRUE]
    [] Step \in {"listen", "accept"} -> [real[s] EXCEPT !.listens = TRUE]
    [] Step = "close" -> Shut
    [] Step = "rf" -> [real[s] EXCEPT !.q = IF @ > 0 THEN @ - 1 ELSE 0]
    [] Step = "rd" -> [real[s] EXCEPT !.q = IF @ > 0 /\ real[s].proto = "UDP" THEN @ - 1 ELSE 0]

Announces(r, s) == IF r.conn THEN Unsolicited("rd", s, 1) ELSE Unsolicited("rf", s, 1)
Reads == Step \in {"rd", "rf"}
Claims == Step \in {"UDP", "TCP"}

\* The line once data was read, some of it was left and is announced.
Reread(s) == IF Reads /\ After(s).q > 0 THEN Append(line, Announces(real[s], s)) ELSE line

\* The sockets once the modem opened s, and the call it did so for.
OpenEnds(s) == [real EXCEPT ![s] = [Shut EXCEPT !.open = TRUE, !.gen = opens + 1, !.proto = Step]]
OpenCall(s) == [op EXCEPT !.s = s, !.gen = opens + 1]

\* The call once the modem executed a command of it on the socket.
Served == [op EXCEPT !.got = IF Reads THEN real[op.s].q - After(op.s).q ELSE 0, !.gen = real[op.s].gen]

ExecuteOpen ==
  /\ Waits /\ Claims /\ opens < MaxOpens
  /\ \E s \in Free : real' = OpenEnds(s) /\ Sends(OpenCall(s))
  /\ opens' = opens + 1
  /\ line' = Append(line, Result(TRUE))
  /\ flaw' = flaw \cup Mistaken
  /\ UNCHANGED <<status, owned, units, mixed, sky>>

Execute ==
  /\ Waits /\ op.s # -1 /\ real[op.s].open
  /\ status' = Unconnected(status)
  /\ real' = [real EXCEPT ![op.s] = After(op.s)]
  /\ Sends(Served)
  /\ line' = Append(Reread(op.s), Result(TRUE))
  /\ flaw' = flaw \cup Mistaken
  /\ UNCHANGED <<owned, opens, units, mixed, sky>>

\* ERROR: the modem has no such socket, or it refuses.
Refuse ==
  /\ Waits
  /\ IF op.s # -1 /\ ~real[op.s].open THEN flaw' = flaw \cup Mistaken
     ELSE /\ Can(IF Step = "close" THEN "stuck" ELSE "error")
          /\ flaw' = flaw \cup Mistaken \cup (IF Step = "close" THEN {"stuck"} ELSE IF Reads THEN {"unread"} ELSE {})
  /\ status' = Unconnected(status)
  /\ Sends(op)
  /\ line' = Append(line, Result(FALSE))
  /\ UNCHANGED <<real, owned, opens, units, mixed, sky>>

\* The call goes on with the commands that are left, is finished, or closes what it opened.
Continue(call) ==
  LET todo == Tail(call.todo) IN
  IF todo # <<>> THEN op' = [call EXCEPT !.todo = todo, !.sent = FALSE] ELSE op' = Nothing

\* Mutant of GiveUp: a socket that cannot be connected is left open.
GiveUpLeaking == Nothing
GiveUp == IF op.k = "open" /\ op.s # -1 /\ ~Claims THEN Closing(op.s) ELSE Nothing

\* Mutant of Less: the result is not cut at zero.
LessSigned(a, b) == a - b
Less(a, b) == IF a > b THEN a - b ELSE 0

\* Mutant of Done: only the handlers are reset when a socket is closed.
DoneHalf(st, o) ==
  CASE Step \in {"UDP", "TCP"} -> [st EXCEPT ![o.s] = SetOpened(st[o.s], Step)]
    [] Step = "connect" -> [st EXCEPT ![o.s].connected = TRUE]
    [] Step = "close"   -> [st EXCEPT ![o.s].data = 0]
    [] Step \in {"rd", "rf"} -> st
    [] OTHER -> [st EXCEPT ![o.s].data = o.gen]

\* Mutant of Done: the counter is reset after the data came.
DoneLate(st, o) ==
  CASE Step \in {"UDP", "TCP"} -> [st EXCEPT ![o.s] = SetOpened(st[o.s], Step)]
    [] Step = "connect" -> [st EXCEPT ![o.s].connected = TRUE]
    [] Step = "close"   -> [st EXCEPT ![o.s] = SetClosed(st[o.s])]
    [] Step \in {"rd", "rf"} -> [st EXCEPT ![o.s][Step] = 0]
    [] OTHER -> [st EXCEPT ![o.s].data = o.gen]

\* What the call o writes to the status when its command succeeded.
Done(st, o) ==
  CASE Step \in {"UDP", "TCP"} -> [st EXCEPT ![o.s] = SetOpened(st[o.s], Step)]
    [] Step = "connect" -> [st EXCEPT ![o.s].connected = TRUE,
                                      ![o.s].closed = IF st[o.s].proto = "TCP" THEN o.gen ELSE 0]
    [] Step = "listen"  -> [st EXCEPT ![o.s].data = o.gen]
    [] Step = "accept"  -> [st EXCEPT ![o.s].data = o.gen, ![o.s].accept = o.gen, ![o.s].closed = o.gen]
    [] Step = "close"   -> [st EXCEPT ![o.s] = SetClosed(st[o.s])]
    [] Step = "rf"      -> st
    [] Step = "rd"      -> IF st[o.s].proto = "TCP"
                             THEN [st EXCEPT ![o.s].rd = Less(@, o.got)] ELSE st

\* The data a call got, of the opening g, is given to the handlers of another.
Mixes(o, g) == o.got > 0 /\ status[o.s].data \notin {0, g}

\* What becomes of the call o, of which OK or ERROR was read.
Succeed(o) ==
  /\ status' = Done(status, o) /\ Continue(o)
  /\ owned' = IF o.k = "open" /\ Tail(o.todo) = <<>> THEN owned \cup {o.s} ELSE owned
Fail == op' = GiveUp /\ UNCHANGED <<status, mixed, owned>>

\* The result is taken once the lines before it were handled.
Finish ==
  /\ op # Nothing /\ op.sent /\ line # <<>> /\ Head(line).k = "result"
  /\ line' = Tail(line)
  /\ IF Head(line).n = 1 THEN Succeed(op) /\ mixed' = (mixed \/ Mixes(op, op.gen)) ELSE Fail
  /\ UNCHANGED <<real, opens, units, flaw, sky>>

(***************************************************************************)
(* The result of another command is taken for that of this one, with the   *)
(* answer, of which the lines that begin as this one's are kept: open      *)
(* takes its number from it, or 0, receive takes the data without a look   *)
(* at the socket.  Its own result becomes the late one, unless it was      *)
(* drained too and is dropped.                                             *)
(***************************************************************************)
AsAnswered(u) ==
  [op EXCEPT !.s = IF ~Claims THEN @ ELSE IF u.to \in {"UDP", "TCP"} THEN u.s ELSE 0,
             !.gen = IF Claims /\ u.to \in {"UDP", "TCP"} THEN u.gen ELSE @,
             !.got = IF Reads /\ u.to = Step THEN u.got ELSE 0]
Orphaned(ln) == [i \in DOMAIN ln |-> IF ln[i].k = "result" THEN LateResult(ln[i].n = 1, op) ELSE ln[i]]

Mistake ==
  /\ op.sent /\ line # <<>>
  /\ \E i \in Verdicts : /\ 1 .. i \subseteq Verdicts
                        /\ line' = Orphaned(SubSeq(line, i + 1, Len(line)))
  /\ LET u == Head(line)
         o == AsAnswered(u) IN
       /\ u.k = "late"
       /\ IF u.ok THEN Succeed(o) /\ mixed' = (mixed \/ Mixes(o, u.gen)) ELSE Fail
  /\ UNCHANGED <<real, opens, units, flaw, sky>>

\* Setting the handler of the data, which takes no command.
SetHandler ==
  /\ op # Nothing /\ op.todo # <<>> /\ ~op.sent /\ Step = "handler"
  /\ status' = [status EXCEPT ![op.s].data = op.gen]
  /\ owned' = IF Tail(op.todo) = <<>> THEN owned \cup {op.s} ELSE owned
  /\ Continue(op)
  /\ UNCHANGED <<real, line, opens, units, flaw, mixed, sky>>

(***************************************************************************)
(* doCommand gives up: the command was lost, or it is refused or executed  *)
(* too late, and what the modem says of it comes then.                     *)
(***************************************************************************)
TimesOut(why) ==
  /\ Can(why) /\ Waits
  /\ status' = Unconnected(status)
  /\ flaw' = flaw \cup {why}
  /\ op' = GiveUp
  /\ UNCHANGED <<owned, units, mixed, sky>>

CommandTimesOut == TimesOut("lost") /\ UNCHANGED <<real, opens, line>>

Says(ok, call, ln) == line' = Append(ln, LateResult(ok, call))

AnsweredLate ==
  /\ TimesOut("late") /\ (LateOnce => "late" \notin flaw)
  /\ \/ Says(FALSE, op, line) /\ UNCHANGED <<real, opens>>
     \/ /\ op.s # -1 /\ real[op.s].open
        /\ real' = [real EXCEPT ![op.s] = After(op.s)] /\ opens' = opens
        /\ Says(TRUE, Served, IF Step = "connect" /\ real[op.s].proto = "TCP"
                                THEN Append(line, Unsolicited("co", op.s, 0)) ELSE Reread(op.s))
     \/ /\ Claims /\ opens < MaxOpens /\ opens' = opens + 1
        /\ \E s \in Free : real' = OpenEnds(s) /\ Says(TRUE, OpenCall(s), line)

-----------------------------------------------------------------------------
(***************************************************************************)
(* External.  Data arrives: for UDP the modem announces the first datagram *)
(* that waits, for TCP the total.  A TCP connection comes in, or ends.     *)
(***************************************************************************)
Arrive(s) ==
  /\ real[s].open /\ (real[s].conn \/ real[s].listens) /\ units < MaxUnits
  /\ real[s].proto = "TCP" => real[s].conn
  /\ real' = [real EXCEPT ![s].q = @ + 1]
  /\ units' = units + 1
  /\ \E n \in IF Can("big") THEN {1, 2} ELSE {1} :
       line' = CASE real[s].proto = "TCP" -> Append(line, Unsolicited("rd", s, real[s].q + 1))
                 [] real[s].proto = "UDP" /\ real[s].q = 0 -> Append(line, [Announces(real[s], s) EXCEPT !.n = n])
                 [] OTHER -> line
  /\ UNCHANGED <<status, op, owned, opens, flaw, mixed, sky>>

Incoming(on) ==
  /\ real[on].open /\ real[on].proto = "TCP" /\ real[on].listens /\ opens < MaxOpens
  /\ \E s \in Free :
       /\ real' = [real EXCEPT ![s] = [Shut EXCEPT !.open = TRUE, !.gen = opens + 1, !.proto = "TCP", !.conn = TRUE]]
       /\ line' = Append(line, [k |-> "li", s |-> s, n |-> 0, on |-> on, gen |-> opens + 1])
  /\ opens' = opens + 1
  /\ UNCHANGED <<status, op, owned, units, flaw, mixed, sky>>

Hangup(s) ==
  /\ Can("hangup") /\ real[s].open /\ real[s].proto = "TCP" /\ real[s].conn
  /\ real' = [real EXCEPT ![s] = Shut]
  /\ line' = Append(line, Unsolicited("cl", s, 0))
  /\ UNCHANGED <<status, op, owned, opens, units, flaw, mixed, sky>>

SocketInit ==
  /\ status = [s \in Sockets |-> Unopened] /\ real = [s \in Sockets |-> Shut]
  /\ op = Nothing /\ line = <<>> /\ owned = {} /\ opens = 0 /\ units = 0
  /\ flaw = {} /\ mixed = FALSE
  /\ sky \in Skies

Runs == ReadLine \/ DropLate \/ ExecuteOpen \/ Execute \/ Refuse \/ Finish \/ Mistake \/ SetHandler \/ \E s \in Sockets : HandleWaitingData(s)

SocketNext ==
  \/ Runs \/ Open \/ CommandTimesOut \/ AnsweredLate
  \/ \E s \in Sockets : Close(s) \/ Arrive(s) \/ Incoming(s) \/ Hangup(s)

SocketSpec == SocketInit /\ [][SocketNext]_socketVars

-----------------------------------------------------------------------------
\* The status, the call in progress and the counters have their types.
SocketTypeOK ==
  /\ \A s \in Sockets : status[s].rd >= 0 /\ status[s].rf >= 0 /\ status[s].proto \in {"none", "UDP", "TCP"}
  /\ op.k \in {"idle", "open", "close", "fetch"} /\ owned \subseteq Sockets

(***************************************************************************)
(* A socket the modem has open is one that some call returned, unless a    *)
(* command was lost, a close failed or nobody listened for a connection:   *)
(* the composite calls close what they cannot set up.                      *)
(***************************************************************************)
NoLeak ==
  flaw \subseteq {"overtaken"} => \A s \in Sockets : real[s].open =>
    s \in owned \/ op.s = s \/ \E i \in 1 .. Len(line) : line[i].k = "li" /\ line[i].s = s

(***************************************************************************)
(* What the SDK believes of a socket is what the modem has, once no call   *)
(* is in progress and every URC was read, unless the other side hangs up.  *)
(***************************************************************************)
Agrees(s) ==
  /\ status[s].opened = real[s].open /\ status[s].proto = real[s].proto
  /\ status[s].connected = real[s].conn

StatusAgrees ==
  (flaw = {} /\ op = Nothing /\ line = <<>> /\ ~Can("hangup")) => \A s \in Sockets : Agrees(s)

(***************************************************************************)
(* A datagram that waits in the modem is announced to the SDK or about to  *)
(* be: no counter is reset after an announcement it does not stand for.    *)
(* handleWaitingData, setOpened, processURCReceive.                        *)
(***************************************************************************)
Awaited(s) ==
  \/ status[s].rd > 0 \/ status[s].rf > 0 \/ op.s = s
  \/ \E i \in 1 .. Len(line) : line[i].k \in {"rd", "rf"} /\ line[i].s = s

NoDataForgotten ==
  flaw \subseteq {"overtaken"} => \A s \in Sockets : (real[s].q > 0 /\ real[s].proto = "UDP") => Awaited(s)

(***************************************************************************)
(* Data of one opening of a socket is not given to the handlers of         *)
(* another, whatever commands fail or time out, unless a connection took   *)
(* up the socket while a command for its last use was under way, or a      *)
(* command took the late result of another for its own.                    *)
(* handleWaitingData, setOpened, setClosed, processURCConnected.           *)
(***************************************************************************)
NotMixed == flaw \cap {"overtaken", "mistaken"} = {} => ~mixed

\* Where a late result was taken the code does not keep it, see the README.
NotMixedThoughLate == "overtaken" \notin flaw => ~mixed

(***************************************************************************)
(* The same for TCP, where the comment on "an event for the next data"     *)
(* promises it.  The code does not keep it, see the README.                *)
(***************************************************************************)
NoStreamForgotten ==
  flaw = {} => \A s \in Sockets : (real[s].q > 0 /\ real[s].proto = "TCP") => Awaited(s)

(***************************************************************************)
(* Nor does it keep these, once a third opening takes up a socket: news of *)
(* it that is read with the result of a command is handled first.          *)
(***************************************************************************)
NeverMixed == ~mixed
AgreesThoughOvertaken ==
  (flaw \subseteq {"overtaken"} /\ op = Nothing /\ line = <<>> /\ ~Can("hangup")) =>
    \A s \in Sockets : Agrees(s)

\* The library's picture of the sockets is the modem's: none leaks, none is
\* thought open that is not, and handlers of an earlier use are gone.
SocketsConsistent == SocketTypeOK /\ NoLeak /\ StatusAgrees /\ NotMixed

=============================================================================
