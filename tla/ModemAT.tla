------------------------------- MODULE ModemAT -------------------------------
(***************************************************************************)
(* The AT command engine (OwlModem): commands and their results, and the   *)
(* unsolicited result codes (URCs) that share the serial line with them.   *)
(* A line is two pieces, its head and its tail, so that it can be read in  *)
(* two goes or cut; lengths and texts beyond that are abstracted.  The     *)
(* modem at the other end of the port is external.                         *)
(***************************************************************************)
EXTENDS Integers, Sequences, FiniteSets

CONSTANTS
  RX_SIZE,       \* pieces that rx_buffer holds: MODEM_Rx_BUFFER_SIZE
  MaxCommands,   \* bound: commands the application issues
  MaxUrcs,       \* bound: URCs the modem sends
  Weathers       \* the environments: sets of "split", "pin", "cme", "late", "txfail"

ASSUME ATAssumption == RX_SIZE \in Nat /\ MaxCommands \in Nat /\ MaxUrcs \in Nat

VARIABLES
  rx,            \* rx_buffer
  under,         \* rx_buffer.len is negative
  in_command,    \* what handleRxOnTimer tests
  stack,         \* the invocations of doCommand, the innermost last
  pins,          \* breakout_pin_count
  port,          \* what the modem sent and was not read yet
  pending,       \* the commands it still has to answer, and the halves of that
  issued, sent,  \* commands issued, URCs sent
  handled,       \* the URCs given to their handlers (history)
  answers,       \* what commands returned, with the response (history)
  rough,         \* what happened that may garble the line (history)
  weather        \* what may happen in this behaviour

sdk == <<rx, under, in_command, stack, pins, handled, answers, rough>>
atVars == <<sdk, port, pending, issued, sent, weather>>

May(w) == w \in weather

\* A line of kind k about command or URC n, and the pieces of it.
Line(k, n) == <<<<k, n, "head">>, <<k, n, "tail">>>>
Piece(b, i) == b[i][3]
Urcs == {"urc", "pin"}
Results == {"OK", "CME"}

\* The pieces at i and i + 1 are one line of a kind in ks.
Whole(b, i, ks) == i < Len(b) /\ b[i][1] \in ks /\ SubSeq(b, i, i + 1) = Line(b[i][1], b[i][2])

\* removeRxBufferLine: cnt pieces at i, unless the buffer no longer has that many.
RemoveLine(b, i, cnt) ==
  IF i + cnt - 1 > Len(b) THEN b ELSE SubSeq(b, 1, i - 1) \o SubSeq(b, i + cnt, Len(b))

(***************************************************************************)
(* A line ends at each tail (getNextCompleteLine).                         *)
(* consumeUnsolicited (in handleRxOnTimer and at the start of doCommand):  *)
(* every complete line is given to the URC handlers and removed.           *)
(* consumeUnsolicitedInCommandResponse (mode "rx"): only the lines that a  *)
(* handler took are removed.  The scan of b from i on stops at the PIN URC *)
(* when its handler is to run a command, which it does once.               *)
(***************************************************************************)
\* Mutant of Removes: a URC stays in the response.
RemovesOrphans(mode, urc) == mode # "rx"
Removes(mode, urc) == urc \/ mode # "rx"

\* The elements of b at the positions in S, in order (P is S, evaluated once).
At(b, S) ==
  LET to(P) == LET f[k \in 0 .. Len(b)] ==
                     IF k = 0 THEN <<>> ELSE IF k \in P THEN Append(f[k - 1], b[k]) ELSE f[k - 1]
               IN  f[Len(b)]
  IN  CHOOSE s \in {to(P) : P \in {S}} : TRUE

LineEnds(b, from) == {j \in from .. Len(b) : Piece(b, j) = "tail"}
LineStart(j, ends, from) ==
  IF \E i \in ends : i < j THEN 1 + CHOOSE i \in ends : i < j /\ \A e \in ends : e < j => e <= i ELSE from

UrcEnds(b, ends, from) == {j \in ends : LineStart(j, ends, from) = j - 1 /\ Whole(b, j - 1, Urcs)}

\* The line at which the scan stops, or a position after the buffer.
LastEnd(b, pinEnds, mode, p) ==
  IF p > 0 \/ mode = "timer" \/ pinEnds = {} THEN Len(b) + 2
  ELSE CHOOSE j \in pinEnds : \A e \in pinEnds : j <= e

Scan(b, from, mode, urcs, p) ==
  LET ends == LineEnds(b, from)
      urcEnds == UrcEnds(b, ends, from)
      last == LastEnd(b, {j \in urcEnds : b[j][1] = "pin"}, mode, p)
      taken == {j \in urcEnds : j <= last}
      gone == UNION {LineStart(j, ends, from) .. j :
                       j \in {e \in ends : e < last /\ Removes(mode, e \in urcEnds)}}
  IN [rx   |-> At(b, (1 .. Len(b)) \ gone),
      urcs |-> urcs \o At([j \in 1 .. Len(b) |-> b[j][2]], taken),
      pins |-> p + Cardinality({j \in taken : b[j][1] = "pin"}),
      stop |-> IF last > Len(b) THEN 0 ELSE last - 1 - Cardinality(gone)]

(***************************************************************************)
(* extractResult: the first result code in the buffer, and the number of   *)
(* pieces it takes.  The text of +CME ERROR is taken although its end has  *)
(* not come yet; the length of the buffer is then negative.                *)
(***************************************************************************)
ResultsIn(b) == {i \in 1 .. Len(b) : Whole(b, i, {"OK"}) \/ (b[i][1] = "CME" /\ Piece(b, i) = "head")}
ResultAt(b) == CHOOSE i \in ResultsIn(b) : \A j \in ResultsIn(b) : i <= j
ResultEnd(b, i) == IF i < Len(b) /\ Piece(b, i + 1) = "tail" THEN i + 1 ELSE i

\* Mutant of AfterResult: the line that follows the result is cut off with it.
AfterResultLess(b, i) == SubSeq(b, ResultEnd(b, i) + 2, Len(b))
AfterResult(b, i) == SubSeq(b, ResultEnd(b, i) + 1, Len(b))
RunsOut(b, i) == b[i][1] = "CME" /\ i = Len(b)

\* What a command makes of the result at i: its own, with a response of its own lines.
Verdict(b, i, c) ==
  IF b[i][2] = c /\ \A j \in 1 .. i - 1 : b[j][1] = "info" /\ b[j][2] = c THEN "own" ELSE "other"

Top == stack[Len(stack)]
Below == SubSeq(stack, 1, Len(stack) - 1)
Frame(c, mode, at) == [c |-> c, mode |-> mode, at |-> at]

\* Mutant of Return: the flag stays set when a command times out.
ReturnFlagged(base, c, what) ==
  /\ stack' = base
  /\ in_command' = (what = "timeout")
  /\ answers' = [answers EXCEPT ![c] = what]

\* The command c returns to the invocations below it.
Return(base, c, what) ==
  /\ stack' = base
  /\ in_command' = FALSE
  /\ answers' = [answers EXCEPT ![c] = what]

(***************************************************************************)
(* The scan of command c ran into verifyPIN, which is a doCommand of its   *)
(* own, number n, on the same buffer: it starts with a scan as well.       *)
(***************************************************************************)
Nests(base, c, mode, r, n, harm) ==
  \E inner \in {Scan(r.rx, 1, "start", r.urcs, r.pins)}, outer \in {Append(base, Frame(c, mode, r.stop))} :
     /\ r.stop > 0
     /\ rx' = inner.rx /\ handled' = inner.urcs /\ pins' = inner.pins
     /\ rough' = harm \cup {"nested"} /\ issued' = n
     /\ \/ /\ stack' = Append(outer, Frame(n, "rx", 0))
           /\ pending' = Append(pending, <<n, FALSE>>)
           /\ in_command' = TRUE /\ UNCHANGED answers
        \/ May("txfail") /\ Return(outer, n, "failure") /\ UNCHANGED pending

\* The first scan came to an end: the CRLF makes the modem take the command.
Written(base, c, r, flag) ==
  /\ r.stop = 0
  /\ rx' = r.rx /\ handled' = r.urcs /\ pins' = r.pins
  /\ \/ /\ stack' = Append(base, Frame(c, "rx", 0))
        /\ pending' = Append(pending, <<c, FALSE>>)
        /\ in_command' = flag /\ UNCHANGED answers
     \/ May("txfail") /\ Return(base, c, "failure") /\ UNCHANGED pending
  /\ UNCHANGED rough

\* A scan of the response came to an end: the command returns if there is a result.
Extracts(base, c, r, flag, harm) ==
  /\ r.stop = 0
  /\ handled' = r.urcs /\ pins' = r.pins
  /\ IF ResultsIn(r.rx) = {}
       THEN /\ rx' = r.rx /\ stack' = Append(base, Frame(c, "rx", 0)) /\ in_command' = flag
            /\ under' = FALSE /\ rough' = harm
            /\ UNCHANGED answers
       ELSE LET i == ResultAt(r.rx) IN
            /\ rx' = AfterResult(r.rx, i) /\ under' = RunsOut(r.rx, i)
            /\ rough' = IF RunsOut(r.rx, i) THEN harm \cup {"cut"} ELSE harm
            /\ Return(base, c, Verdict(r.rx, i, c))
  /\ UNCHANGED <<issued, pending>>

Before == Scan(rx, 1, "start", handled, pins)

DoCommand ==
  /\ stack = <<>> /\ issued < MaxCommands
  /\ \E c \in {issued + 1}, r \in {Before} :
     \/ Nests(<<>>, c, "start", r, c + 1, rough)
     \/ Written(<<>>, c, r, TRUE) /\ issued' = c
     \/ /\ May("txfail") /\ Return(<<>>, c, "failure") /\ issued' = c
        /\ UNCHANGED <<rx, pins, handled, rough, pending>>
  /\ UNCHANGED <<under, port, sent, weather>>

(***************************************************************************)
(* drainModemRxToBuffer reads n pieces; the oldest are dropped when they   *)
(* do not fit, and the first is lost when the length was negative: it is   *)
(* written in front of the buffer, over in_command.                        *)
(***************************************************************************)
\* Mutant of Arrived: the port is only read when much is there.
ArrivedMuch == {n \in {Len(port)} : n > 2}
Arrived == IF May("split") THEN 1 .. Len(port) ELSE {Len(port)} \ {0}

\* Mutant of Drained: what does not fit is kept.
DrainedWhole(n) == rx \o SubSeq(port, 1, n)
Drained(n) ==
  LET all == rx \o SubSeq(port, IF under THEN 2 ELSE 1, n) IN
  SubSeq(all, IF Len(all) > RX_SIZE THEN Len(all) - RX_SIZE + 1 ELSE 1, Len(all))

Harm(n) == IF Len(rx) + n > RX_SIZE THEN rough \cup {"dropped"} ELSE rough

\* The loop of doCommand: read, scan, and look for a result.
Receive ==
  /\ stack # <<>> /\ Top.at = 0
  /\ \E n \in Arrived : \E b \in {Drained(n)} : \E r \in {Scan(b, 1, "rx", handled, pins)} :
       /\ port' = SubSeq(port, n + 1, Len(port))
       /\ \/ Nests(Below, Top.c, "rx", r, issued + 1, Harm(n)) /\ under' = FALSE
          \/ Extracts(Below, Top.c, r, in_command \/ under, Harm(n))
  /\ UNCHANGED <<sent, weather>>

\* verifyPIN returned into the scan it was called from, which removes its line.
Resume ==
  /\ stack # <<>> /\ Top.at > 0
  /\ \E b \in {RemoveLine(rx, Top.at, 2)} : \E r \in {Scan(b, Top.at, Top.mode, handled, pins)} :
     \/ Top.mode = "start" /\ Written(Below, Top.c, r, in_command) /\ UNCHANGED <<under, issued>>
     \/ Top.mode = "rx" /\ Extracts(Below, Top.c, r, in_command, rough)
  /\ UNCHANGED <<port, sent, weather>>

\* Mutant of GivesUp: a command whose answer was lost is waited for.
GivesUpLate == May("late")

\* The modem is late, or what it answered did not get through.
GivesUp == May("late") \/ (pending = <<>> /\ port = <<>>)

\* The time of the command is over; what was read stays in the buffer.
Timeout ==
  /\ stack # <<>> /\ Top.at = 0
  /\ GivesUp
  /\ Return(Below, Top.c, "timeout")
  /\ rough' = rough \cup {"timeout"}
  /\ UNCHANGED <<rx, under, pins, handled, issued, port, pending, sent, weather>>

(***************************************************************************)
(* handleRxOnTimer, called by spin: not while in_command is set.  A PIN    *)
(* URC runs verifyPIN here too; doCommand then gives up at in_timer, after *)
(* it has set in_command.                                                  *)
(***************************************************************************)
HandleRxOnTimer ==
  /\ stack = <<>> /\ ~in_command
  /\ \E n \in Arrived \cup {0} : \E b \in {Drained(n)} : \E r \in {Scan(b, 1, "timer", handled, pins)} :
       LET asked == pins = 0 /\ r.pins > 0
       IN /\ port' = SubSeq(port, n + 1, Len(port))
          /\ rx' = r.rx /\ handled' = r.urcs /\ pins' = r.pins
          /\ in_command' = (asked \/ (under /\ n > 0))
          /\ under' = (under /\ n = 0)
          /\ rough' = Harm(n) \cup (IF asked THEN {"nested"} ELSE {})
  /\ UNCHANGED <<stack, answers, issued, pending, sent, weather>>

-----------------------------------------------------------------------------
\* External: the modem sends a URC, answers with a line of data, and with a result.
ModemUrc ==
  /\ sent < MaxUrcs
  /\ \E k \in IF May("pin") THEN Urcs ELSE {"urc"} : port' = port \o Line(k, sent + 1)
  /\ sent' = sent + 1
  /\ UNCHANGED <<sdk, pending, issued, weather>>

ModemInfo ==
  /\ pending # <<>> /\ ~pending[1][2]
  /\ port' = port \o Line("info", pending[1][1])
  /\ pending' = [pending EXCEPT ![1][2] = TRUE]
  /\ UNCHANGED <<sdk, sent, issued, weather>>

ModemResult ==
  /\ pending # <<>>
  /\ \E k \in IF May("cme") THEN Results ELSE {"OK"} : port' = port \o Line(k, pending[1][1])
  /\ pending' = Tail(pending)
  /\ UNCHANGED <<sdk, sent, issued, weather>>

ATInit ==
  /\ rx = <<>> /\ under = FALSE /\ in_command = FALSE /\ stack = <<>> /\ pins = 0
  /\ port = <<>> /\ pending = <<>> /\ issued = 0 /\ sent = 0
  /\ handled = <<>> /\ answers = [c \in 1 .. MaxCommands + 1 |-> "none"] /\ rough = {}
  /\ weather \in Weathers

ATNext ==
  \/ DoCommand \/ Receive \/ Resume \/ Timeout \/ HandleRxOnTimer
  \/ ModemUrc \/ ModemInfo \/ ModemResult

ATSpec == ATInit /\ [][ATNext]_atVars

(***************************************************************************)
(* The one thread of the program goes on: spin calls handleRxOnTimer, and  *)
(* doCommand polls the port against a clock.  The modem answers.           *)
(***************************************************************************)
ThreadStep == Receive \/ Resume \/ Timeout \/ HandleRxOnTimer

ATFairness == WF_atVars(ThreadStep) /\ WF_atVars(ModemInfo \/ ModemResult)

ATFairSpec == ATSpec /\ ATFairness

-----------------------------------------------------------------------------
\* The state of the engine and of the line has its types.
ATTypeOK ==
  /\ Len(rx) <= RX_SIZE /\ Len(stack) <= 2 /\ pins \in Nat
  /\ under => rx = <<>>
  /\ \A c \in DOMAIN answers : answers[c] \in {"none", "own", "other", "timeout", "failure"}
  /\ rough \subseteq {"timeout", "nested", "dropped", "cut"}

(***************************************************************************)
(* The command in progress is the only reason not to handle URCs, unless   *)
(* the PIN was asked for or a +CME ERROR was read in two goes.             *)
(* OwlModem::doCommand: every return clears in_command.                    *)
(***************************************************************************)
FlagFollowsCommand == rough \cap {"nested", "cut"} = {} => (in_command <=> stack # <<>>)

(***************************************************************************)
(* Every URC reaches its handler once and in order, however it was split,  *)
(* whether it came before, within or after the answer of a command, and    *)
(* whether or not that command timed out.                                  *)
(* consumeUnsolicited, consumeUnsolicitedInCommandResponse, extractResult. *)
(***************************************************************************)
UrcsInOrder == rough \subseteq {"timeout"} => handled = [i \in 1 .. Len(handled) |-> i]

(***************************************************************************)
(* A command gets the result the modem gave to it, with a response that    *)
(* holds the lines of that answer only, as long as no command timed out.   *)
(* doCommand, extractResult.                                               *)
(***************************************************************************)
AnswersAreOwn == rough = {} => \A c \in DOMAIN answers : answers[c] # "other"

\* Every command returns, whatever the line and the modem do (doCommand).
CommandsReturn == stack # <<>> ~> stack = <<>>

(***************************************************************************)
(* Every URC is handled in the end, unless the flag or the buffer was      *)
(* damaged (handleRxOnTimer, doCommand).                                   *)
(***************************************************************************)
UrcsHandled == []<>(Len(handled) = sent \/ rough \ {"timeout"} # {})

(***************************************************************************)
(* What the declaration of in_command says: it is set while a command      *)
(* waits for its response.  The code does not keep it, see the README.     *)
(***************************************************************************)
FlagMeansCommand == in_command => stack # <<>>

\* URCs are handled in the order they came, whatever part of them was read at a
\* time, and in_command stands for a command that runs.
LinesConsistent == ATTypeOK /\ FlagFollowsCommand /\ UrcsInOrder

\* A command returns, and a URC is handled in the end.
ATProgress == CommandsReturn /\ UrcsHandled

=============================================================================
