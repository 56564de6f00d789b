------------------------------ MODULE ModemCLI ------------------------------
(***************************************************************************)
(* The line editor of OwlModemCLI: the command that is typed, its          *)
(* completion, the circular history and the arrow keys that browse it, and *)
(* commands that call handleUserInput while they run.                      *)
(*                                                                         *)
(* A command is a sequence of characters; case is ignored.  The three      *)
(* characters of an arrow key arrive together.  What the registered        *)
(* commands do is theirs: here they run, and end.                          *)
(***************************************************************************)
EXTENDS Integers, Sequences, FiniteSets

CONSTANTS
    HISTORY,      \* MODEM_CLI_CMD_HISTORY
    CMD_LEN,      \* MODEM_CLI_CMD_LEN
    Letters,      \* the characters that are typed; " " separates words
    Executors,    \* the names of the registered commands, in their order
    MaxEntered,   \* bound: commands recorded in the history
    Entries       \* bound: the commands that are entered

ASSUME CLIAssumption ==
    /\ HISTORY \in Nat \ {0} /\ CMD_LEN \in Nat
    /\ Letters \subseteq STRING /\ Executors \in Seq(Seq(STRING))

VARIABLES
    command,      \* the line
    ring,         \* cmdHistory with cmdHistoryLen
    head, tail, cursor,   \* cmdHistoryHead, cmdHistoryTail, cmdHistoryIterator
    running,      \* the command in execution, or <<>>
    open,         \* quit ends the CLI
    entered       \* the commands recorded so far (history)

cliVars == <<command, ring, head, tail, cursor, running, open, entered>>

Slots == 0 .. HISTORY - 1
Blank == " "

\* Mutant of Typed: there is no end to the line.
TypedEndless(line, c) == Append(line, c)

\* A full line takes no more.
Typed(line, c) == IF Len(line) < CMD_LEN THEN Append(line, c) ELSE line

Lowest(S) == CHOOSE i \in S : \A j \in S : i <= j
Highest(S) == CHOOSE i \in S : \A j \in S : j <= i

\* A command name that begins with the prefix.
Begins(name, prefix) ==
    Len(prefix) <= Len(name) /\ SubSeq(name, 1, Len(prefix)) = prefix

(***************************************************************************)
(* commandCompletion.                                                      *)
(***************************************************************************)
Builtins == <<<<"h">>, <<"q">>>>   \* help, quit

\* Mutant of Common: it stops one character too late.
CommonLong(name, others) ==
    LET differs == {j \in 1 .. Len(name) : \E other \in others :
                       Len(other) < j \/ other[j] # name[j]}
    IN IF differs = {} THEN name
       ELSE SubSeq(name, 1, Lowest(differs))

\* The part of the name that all the others share.
Common(name, others) ==
    LET differs == {j \in 1 .. Len(name) : \E other \in others :
                       Len(other) < j \/ other[j] # name[j]}
    IN IF differs = {} THEN name
       ELSE SubSeq(name, 1, Lowest(differs) - 1)

\* The numbers of the names that begin with the prefix.
Matching(names, prefix) == {i \in DOMAIN names : Begins(names[i], prefix)}

\* With a blank in the line it is too late, and an empty line only shows the help.
\* The last match is taken, and cut down to what the others agree to.
Completed(line) ==
    LET builtins == Matching(Builtins, line)
        names == Matching(Executors, line)
        last == IF names = {} THEN Builtins[Highest(builtins)] ELSE Executors[Highest(names)]
    IN IF line = <<>> \/ builtins \cup names = {} \/ \E i \in DOMAIN line : line[i] = Blank THEN line
       ELSE IF Cardinality(builtins) + Cardinality(names) = 1 THEN Append(last, Blank)
       ELSE Common(last, {Executors[i] : i \in names})

(***************************************************************************)
(* Editing.                                                                *)
(***************************************************************************)
\* Ctrl-w: back to the last blank, and the blank too.
WithoutLastWord(line) ==
    LET blanks == {i \in DOMAIN line : line[i] = Blank}
    IN IF blanks = {} THEN <<>>
       ELSE SubSeq(line, 1, Highest(blanks) - 1)

\* The first word; str_tok skips leading blanks.
Name(line) ==
    LET letters == {i \in DOMAIN line : line[i] # Blank}
        first == Lowest(letters)
        after == {i \in DOMAIN line : i > first /\ line[i] = Blank} \cup {Len(line) + 1}
    IN IF letters = {} THEN <<>> ELSE SubSeq(line, first, Lowest(after) - 1)

(***************************************************************************)
(* The history.                                                            *)
(***************************************************************************)
\* memcmp of as many characters as the new command has, with what the slot holds: the
\* rest of an older and longer command may still be there.
SameAsHead(line) == Begins(ring[head].bytes, line)

\* memcpy leaves what lies behind the new length.
Stored(slot, line) ==
    [len |-> Len(line),
     bytes |-> line \o SubSeq(ring[slot].bytes, Len(line) + 1, Len(ring[slot].bytes))]

Recorded(slot) == SubSeq(ring[slot].bytes, 1, ring[slot].len)

\* doHistory: from the head back to the tail.
Shown ==
    LET from == IF head < tail THEN head + HISTORY ELSE head
    IN [i \in 1 .. from - tail + 1 |-> Recorded((from + 1 - i) % HISTORY)]

\* Mutant of NextTail: the oldest command stays when its slot is used again.
NextTailStays(newHead) == tail

NextTail(newHead) == IF newHead = tail THEN (tail + 1) % HISTORY ELSE tail

Remember(line) ==
    IF head = -1
    THEN /\ head' = 0 /\ tail' = 0
         /\ ring' = [ring EXCEPT ![0] = Stored(0, line)]
         /\ entered' = <<line>>
    ELSE IF SameAsHead(line) THEN UNCHANGED <<ring, head, tail, entered>>
    ELSE /\ head' = (head + 1) % HISTORY
         /\ tail' = NextTail(head')
         /\ ring' = [ring EXCEPT ![head'] = Stored(head', line)]
         /\ entered' = Append(entered, line)

\* Mutant of Older: the way back does not end at the tail.
OlderEndless ==
    IF cursor = -1 THEN head ELSE (cursor + HISTORY - 1) % HISTORY

\* The arrow up: the next older command, as far as the tail.
Older ==
    IF cursor = -1 THEN head
    ELSE IF cursor > tail THEN cursor - 1
    ELSE IF cursor <= head /\ head < tail
    THEN IF cursor = 0 THEN HISTORY - 1 ELSE cursor - 1
    ELSE cursor

\* The arrow down, while there is a newer command.
Younger == IF cursor < head THEN cursor + 1 ELSE (cursor + 1) % HISTORY

-----------------------------------------------------------------------------

\* Mutant of Listening: input is handled while a command runs.
ListeningAlways == open

\* "Protection for commands which call handleUserInput() inside them"
Listening == open /\ running = <<>>

\* A change of the line alone.
Edit(line) ==
    /\ Listening
    /\ command' = line
    /\ UNCHANGED <<ring, head, tail, cursor, running, open, entered>>

TypeCharacter(c) == Edit(Typed(command, c))
Backspace == command # <<>> /\ Edit(SubSeq(command, 1, Len(command) - 1))
ClearLine == Edit(<<>>)
DeleteLastWord == Edit(WithoutLastWord(command))
Tab == Edit(Completed(command))

\* What is in the line when the letter of an arrow key arrives.
Escaped == Typed(Typed(command, "ESC"), "[")
IsArrow == Len(command) + 2 <= CMD_LEN

ArrowUp ==
    /\ Listening
    /\ IF IsArrow /\ head # -1
       THEN cursor' = Older /\ command' = Recorded(cursor')
       ELSE command' = Typed(Escaped, "A") /\ UNCHANGED cursor
    /\ UNCHANGED <<ring, head, tail, running, open, entered>>

\* At the newest command, or outside the history, the line is cleared, and the cursor
\* stays.
ArrowDown ==
    /\ Listening
    /\ IF ~ IsArrow THEN command' = Typed(Escaped, "B") /\ UNCHANGED cursor
       ELSE IF cursor \notin {-1, head}
       THEN cursor' = Younger /\ command' = Recorded(cursor')
       ELSE command' = <<>> /\ UNCHANGED cursor
    /\ UNCHANGED <<ring, head, tail, running, open, entered>>

\* The test for these arrows compares one character with two, and never holds.
ArrowAside(c) == Edit(Typed(Escaped, c))

\* A carriage return with an empty line.
Prompt ==
    /\ Listening /\ command = <<>>
    /\ cursor' = -1
    /\ UNCHANGED <<command, ring, head, tail, running, open, entered>>

\* Otherwise the command is recorded and run; quit returns at once and leaves the line.
Enter ==
    /\ Listening /\ command \in Entries
    /\ Len(entered) < MaxEntered
    /\ Remember(command)
    /\ cursor' = -1
    /\ IF Name(command) = Builtins[2]
       THEN open' = FALSE /\ UNCHANGED running
       ELSE running' = command /\ UNCHANGED open
    /\ UNCHANGED command

EndExecution ==
    /\ running # <<>>
    /\ running' = <<>> /\ command' = <<>>
    /\ UNCHANGED <<ring, head, tail, cursor, open, entered>>

\* handleUserInput(0), after quit.
Restart ==
    /\ ~ open
    /\ open' = TRUE /\ command' = <<>>
    /\ UNCHANGED <<ring, head, tail, cursor, running, entered>>

CLIInit ==
    /\ command = <<>> /\ running = <<>> /\ open = TRUE /\ entered = <<>>
    /\ ring = [slot \in Slots |-> [len |-> 0, bytes |-> <<>>]]
    /\ head = -1 /\ tail = -1 /\ cursor = -1

CLINext ==
    \/ \E c \in Letters : TypeCharacter(c)
    \/ Backspace \/ ClearLine \/ DeleteLastWord \/ Tab
    \/ ArrowUp \/ ArrowDown \/ \E c \in {"C", "D"} : ArrowAside(c)
    \/ Prompt \/ Enter \/ EndExecution \/ Restart

CLISpec == CLIInit /\ [][CLINext]_cliVars

-----------------------------------------------------------------------------

CLITypeOK ==
    /\ Len(command) <= CMD_LEN + 1
    /\ head \in Slots \cup {-1} /\ tail \in Slots \cup {-1} /\ cursor \in Slots \cup {-1}
    /\ \A slot \in Slots : ring[slot].len <= Len(ring[slot].bytes)
    /\ open \in BOOLEAN

\* How many commands before the last one the slot holds.
Age(slot) == (head - slot) % HISTORY

Kept == IF Len(entered) < HISTORY THEN Len(entered) ELSE HISTORY

\* The command "history" prints the commands recorded last, the newest first, each in
\* full, and as many of them as there is room for, once the array has wrapped around
\* too (handleUserInput, the head, the tail and memcpy over older commands; doHistory).
HistoryKeepsLatest ==
    head # -1 => Shown = [i \in 1 .. Kept |-> entered[Len(entered) + 1 - i]]

\* The cursor of the arrow keys never leaves the commands between head and tail, across
\* the end of the array and however they are mixed with commands entered.
CursorInHistory == cursor # -1 => head # -1 /\ Age(cursor) < Kept

\* The words of a command that runs point into the line: no key changes the line until
\* the command has ended, although it may call handleUserInput.
ArgumentsStay == running # <<>> => command = running

\* What <TAB> makes of the line still begins with what was typed, and every registered
\* command that it could have become it can still become.
CompletionKeepsOpen ==
    LET names == Matching(Executors, command)
        line == Completed(command)
    IN /\ Begins(line, command)
       /\ Cardinality(names) > 1 => \A i \in names : Begins(Executors[i], line)

-----------------------------------------------------------------------------
\* Not so: "Points to the 'head' entry in the history, i.e. the last command entered".
\* A command that the last one begins with is taken for the same.
HeadIsLastEntered == running # <<>> => Recorded(head) = running

\* The history, the cursor in it, the line of the running command and the line
\* that is completed keep what was typed.
ConsoleConsistent ==
    /\ HistoryKeepsLatest
    /\ CursorInHistory
    /\ ArgumentsStay
    /\ CompletionKeepsOpen

=============================================================================
