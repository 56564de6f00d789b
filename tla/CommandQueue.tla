---------------------------- MODULE CommandQueue ----------------------------
(***************************************************************************)
(* To-SIM Commands: from the POST that brings one, through the list of     *)
(* received Commands, to the application.                                  *)
(*                                                                         *)
(* Each Command is one exchange of the Twilio server, which repeats a CON  *)
(* message until it gets the ACK.  Of the CoAP peer only what one exchange *)
(* needs is here: the id of a Command is remembered from its first message *)
(* on, with the ACK if there was one, and while it is remembered a         *)
(* retransmission is answered from there (CoAPServer has the lifetimes and *)
(* the limits of that memory).                                             *)
(***************************************************************************)
EXTENDS Naturals, Sequences, SequencesExt

CONSTANTS
    Commands,               \* the Commands the server has for the device
    Size,                   \* the length of each
    BufferSizes,            \* buffers the application receives into
    MAX_PENDING_COMMANDS,
    Memory,                 \* does owl_malloc succeed?
    HandlerMayChange        \* does the application set a handler along the way?

ASSUME QueueConstants ==
    /\ Size \in [Commands -> Nat]
    /\ BufferSizes \subseteq Nat
    /\ MAX_PENDING_COMMANDS \in Nat \ {0}
    /\ Memory \subseteq BOOLEAN
    /\ HandlerMayChange \in BOOLEAN

VARIABLES
    commands,         \* the list of pending Commands, head first
    space_left,
    command_handler,  \* is a handler set?
    exchange          \* of each Command: what the CoAP peer remembers of it

\* History.
VARIABLES
    acked,      \* Commands whose ACK reached the server
    accepted,   \* the Commands the queue took, in the order it took them
    received,   \* those the application popped, in order
    evicted,    \* those that made room for others
    handed      \* how often each was passed to the handler (2: twice or more)

queueVars == <<commands, space_left, command_handler, exchange, acked, accepted,
               received, evicted, handed>>

Exchange == {"new", "Do_Nothing", "ACK"}

\* Mutant of Room: the limit is not checked.
RoomAlways == commands

\* Mutant of Room: the newest makes room.
RoomOfNewest ==
    IF space_left <= 0 THEN SubSeq(commands, 1, Len(commands) - 1) ELSE commands

\* "will drop the oldest one, to make room for a newly received one"
Room == IF space_left <= 0 THEN Tail(commands) ELSE commands

(***************************************************************************)
(* receivedCommandInternal, its three ends: the handler, the queue, and    *)
(* out_of_memory, which finds the oldest Command already dropped.          *)
(***************************************************************************)
Hand(c) ==
    /\ command_handler
    /\ handed' = [handed EXCEPT ![c] = IF @ = 0 THEN 1 ELSE 2]
    /\ UNCHANGED <<commands, space_left, accepted, evicted>>

Evict == evicted' = evicted \cup (ToSet(commands) \ ToSet(Room))

\* Mutant of Queue: at the wrong end of the list.
QueuePrepended(c) ==
    /\ ~ command_handler
    /\ commands' = <<c>> \o Room
    /\ space_left' = (space_left + Len(commands) - Len(Room)) - 1
    /\ Evict
    /\ accepted' = Append(accepted, c)
    /\ UNCHANGED handed

Queue(c) ==
    /\ ~ command_handler
    /\ commands' = Append(Room, c)
    /\ space_left' = (space_left + Len(commands) - Len(Room)) - 1
    /\ Evict
    /\ accepted' = Append(accepted, c)
    /\ UNCHANGED handed

\* Mutant of OutOfMemory: the slot of the dropped Command is not given back.
OutOfMemoryLeaks ==
    /\ ~ command_handler
    /\ commands' = Room
    /\ Evict
    /\ UNCHANGED <<space_left, accepted, handed>>

OutOfMemory ==
    /\ ~ command_handler
    /\ commands' = Room
    /\ space_left' = space_left + Len(commands) - Len(Room)
    /\ Evict
    /\ UNCHANGED <<accepted, handed>>

(***************************************************************************)
(* handleRx with handler_CoAPRequest, for a POST of Commands.              *)
(***************************************************************************)
\* The first message of the exchange that arrives is kept and ACKed.  The ACK of
\* a CON message may be lost.
ReceiveFirst(c, ackArrives) ==
    /\ exchange[c] = "new"
    /\ Hand(c) \/ (TRUE \in Memory /\ Queue(c))
    /\ exchange' = [exchange EXCEPT ![c] = "ACK"]
    /\ acked' = IF ackArrives THEN acked \cup {c} ELSE acked
    /\ UNCHANGED <<command_handler, received>>

\* Mutant of ReceiveFirstFails: acknowledged all the same.
ReceiveFirstFailsAcked(c) ==
    /\ exchange[c] = "new"
    /\ FALSE \in Memory
    /\ OutOfMemory
    /\ exchange' = [exchange EXCEPT ![c] = "ACK"]
    /\ UNCHANGED <<command_handler, acked, received>>

\* Not kept: the handler answers Do_Nothing, "so maybe try again on
\* retransmission", but the id is already remembered.
ReceiveFirstFails(c) ==
    /\ exchange[c] = "new"
    /\ FALSE \in Memory
    /\ OutOfMemory
    /\ exchange' = [exchange EXCEPT ![c] = "Do_Nothing"]
    /\ UNCHANGED <<command_handler, acked, received>>

\* Mutant of ReceiveAgain: a retransmission reaches the handlers too.
ReceiveAgainHandled(c, ackArrives) ==
    /\ exchange[c] # "new"
    /\ c \notin acked
    /\ Hand(c) \/ Queue(c)
    /\ acked' = IF ackArrives THEN acked \cup {c} ELSE acked
    /\ UNCHANGED <<command_handler, exchange, received>>

\* Mutant of ReceiveAgain: the saved ACK is not sent again.
ReceiveAgainSilent(c, ackArrives) ==
    /\ exchange[c] = "ACK"
    /\ c \notin acked
    /\ UNCHANGED queueVars

\* The saved ACK, if there is one, is sent again, and nothing else happens.
ReceiveAgain(c, ackArrives) ==
    /\ exchange[c] = "ACK"
    /\ c \notin acked
    /\ acked' = IF ackArrives THEN acked \cup {c} ELSE acked
    /\ UNCHANGED <<commands, space_left, command_handler, exchange, accepted,
                   received, evicted, handed>>

\* "silently ignoring retransmission"
ReceiveAgainIgnored(c) ==
    /\ exchange[c] = "Do_Nothing"
    /\ UNCHANGED queueVars

(***************************************************************************)
(* The application.                                                        *)
(***************************************************************************)
HasWaitingCommand == commands # <<>>

\* Mutant of ReceiveCommand: a Command that just fits is thought not to.
ReceiveCommandTight(maxBufSize) ==
    /\ HasWaitingCommand
    /\ Size[Head(commands)] < maxBufSize
    /\ received' = Append(received, Head(commands))
    /\ commands' = Tail(commands)
    /\ space_left' = space_left + 1
    /\ UNCHANGED <<command_handler, exchange, acked, accepted, evicted, handed>>

\* COMMAND_STATUS_OK; with a smaller buffer the Command stays where it is.
ReceiveCommand(maxBufSize) ==
    /\ HasWaitingCommand
    /\ Size[Head(commands)] <= maxBufSize
    /\ received' = Append(received, Head(commands))
    /\ commands' = Tail(commands)
    /\ space_left' = space_left + 1
    /\ UNCHANGED <<command_handler, exchange, acked, accepted, evicted, handed>>

SetCommandHandler ==
    /\ HandlerMayChange
    /\ command_handler' = ~ command_handler
    /\ UNCHANGED <<commands, space_left, exchange, acked, accepted, received,
                   evicted, handed>>

-----------------------------------------------------------------------------

QueueInit ==
    /\ commands = <<>>
    /\ space_left = MAX_PENDING_COMMANDS
    /\ command_handler = FALSE
    /\ exchange = [c \in Commands |-> "new"]
    /\ acked = {}
    /\ accepted = <<>>
    /\ received = <<>>
    /\ evicted = {}
    /\ handed = [c \in Commands |-> 0]

QueueNext ==
    \/ \E c \in Commands, ackArrives \in BOOLEAN :
         ReceiveFirst(c, ackArrives) \/ ReceiveAgain(c, ackArrives)
    \/ \E c \in Commands : ReceiveFirstFails(c) \/ ReceiveAgainIgnored(c)
    \/ \E maxBufSize \in BufferSizes : ReceiveCommand(maxBufSize)
    \/ SetCommandHandler

QueueSpec == QueueInit /\ [][QueueNext]_queueVars

\* The server repeats a message until it has the ACK, and neither the messages nor
\* the ACKs are lost for ever; memory comes back; the application keeps popping.
Fairness ==
    /\ \A c \in Commands :
         /\ WF_queueVars(ReceiveFirst(c, TRUE))
         /\ WF_queueVars(ReceiveAgain(c, TRUE))
    /\ WF_queueVars(\E maxBufSize \in BufferSizes : ReceiveCommand(maxBufSize))

QueueFairSpec == QueueSpec /\ Fairness

-----------------------------------------------------------------------------

QueueTypeOK ==
    /\ commands \in Seq(Commands) /\ Len(commands) <= MAX_PENDING_COMMANDS
    /\ space_left \in 0 .. MAX_PENDING_COMMANDS
    /\ command_handler \in BOOLEAN
    /\ exchange \in [Commands -> Exchange]
    /\ acked \subseteq Commands
    /\ accepted \in Seq(Commands) /\ received \in Seq(Commands)
    /\ evicted \subseteq Commands
    /\ handed \in [Commands -> 0 .. 2]

\* space_left and the list agree, whatever ends receivedCommandInternal had.
SpaceLeftRight == space_left + Len(commands) = MAX_PENDING_COMMANDS

\* A sequence has c before d.
Before(seq, c, d) == \E i, j \in DOMAIN seq : i < j /\ seq[i] = c /\ seq[j] = d

\* What the application popped, followed by what is pending, is what the queue
\* took in its order, less what was evicted: nothing is reordered, doubled or
\* lost in any other way.
InOrderOfReceipt ==
    LET seen == received \o commands IN
    /\ \A i, j \in DOMAIN seen : i < j => Before(accepted, seen[i], seen[j])
    /\ ToSet(seen) = ToSet(accepted) \ evicted

\* The application gets a Command once, by the handler or from the queue,
\* however often the server repeats it.
OncePerCommand ==
    /\ IsInjective(accepted)
    /\ \A c \in Commands : handed[c] <= 1 /\ (handed[c] = 1 => c \notin ToSet(accepted))

\* The server is only told that a Command arrived if the application got it, can
\* still get it, or lost it to newer ones.
AckedIsKept ==
    \A c \in acked : handed[c] > 0 \/ c \in ToSet(accepted)

\* An unread Command is dropped only when the other slots are full of newer ones.
\* (The Command it makes room for comes on top, unless memory runs out for it.)
OnlyOldestDropped ==
    \A c \in evicted : \E i \in DOMAIN accepted :
        accepted[i] = c /\ Len(accepted) - i >= MAX_PENDING_COMMANDS - 1

\* The server learns in the end of every Command that was kept, however many ACKs
\* are lost: it does not go on repeating it.
KeptIsAcked == \A c \in Commands : (exchange[c] = "ACK") ~> (c \in acked)

\* Every Command that was queued is read in the end, or evicted, if a buffer takes
\* the longest: none blocks the queue.
EveryCommandRead ==
    \A c \in Commands : (c \in ToSet(accepted)) ~> (c \in ToSet(received) \cup evicted)

-----------------------------------------------------------------------------
\* A stronger property, which the code does not have.

\* Every Command the server sends is acknowledged in the end.
EveryCommandAcked == \A c \in Commands : <>(c \in acked)

\* Slots are counted right, full queues lose their oldest Command and no other,
\* and the server is told of no Command that was not kept.
QueueConsistent == QueueTypeOK /\ SpaceLeftRight /\ OnlyOldestDropped /\ AckedIsKept

\* The application sees the Commands in the order of receipt, each once.
DeliveredInOrderOnce == InOrderOfReceipt /\ OncePerCommand

\* A kept Command is acknowledged in the end, and read or evicted.
CommandsGetThrough == KeptIsAcked /\ EveryCommandRead

=============================================================================
