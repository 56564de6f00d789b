---------------------------- MODULE CoAPReentry ----------------------------
(***************************************************************************)
(* The client transaction list while callbacks are running.                *)
(*                                                                         *)
(* dropExpiredClientTransactions and handleRx call back in the middle of   *)
(* their work on the list, and a callback may use the SDK again:           *)
(* callback_checkForCommands reinitializes the transport, which spins for  *)
(* up to three minutes, and polls again; an application may send the next  *)
(* Command from a receipt callback.  CoAPClient takes each of these        *)
(* functions as one step; here they are split at their callbacks, and the  *)
(* variable stack is the call stack of the single thread.                  *)
(*                                                                         *)
(* A node is one allocation of a coap_client_transaction_t, never reused,  *)
(* so that a pointer to freed memory can be told from a pointer to the     *)
(* list.  A node's expires is the end of its last retransmission: earlier  *)
(* ones do not matter to the list.                                         *)
(***************************************************************************)
EXTENDS Integers, Sequences, FiniteSets

CONSTANTS
    Nodes,      \* the allocations
    Null,       \* the null pointer
    NSTART,     \* slots of the list
    Life,       \* how long a transaction may last
    MaxTime,    \* bound: the clock stops here
    MaxDepth,   \* bound: frames on the call stack
    Reenters    \* the events whose callbacks use the SDK again

ASSUME ReentryConstants ==
    /\ NSTART \in Nat \ {0}
    /\ Null \notin Nodes
    /\ Life \subseteq Nat \ {0}
    /\ MaxTime \in Nat /\ MaxDepth \in Nat
    /\ Reenters \subseteq {"Timeout", "ACK"}

VARIABLES
    list,        \* client_transactions, head first
    space_left,
    heap,        \* what became of each allocation
    expires,     \* of each allocation
    now,         \* owl_time()
    stack,       \* the call stack, innermost frame first
    called,      \* how often each node's callback was called (2: twice or more)
    reentered,   \* has a callback used the SDK?
    fault        \* freed memory was used

vars == <<list, space_left, heap, expires, now, stack, called, reentered, fault>>

\* scan:    dropExpiredClientTransactions, about to look at t
\* Timeout: the same loop, in the callback of t, which is off the list
\* get:     getClientTransaction of the node t, before it looks for it
\* ACK:     handleRx or stopRetransmissions, in the callback of t
\* put:     putClientTransactionCON for t, before it looks for a slot
Frame == [op : {"scan", "Timeout", "get", "ACK", "put"},
          t : Nodes \cup {Null}, nt : Nodes \cup {Null}, now : Nat]

Position(n) == CHOOSE i \in DOMAIN list : list[i] = n

OnList(n) == \E i \in DOMAIN list : list[i] = n

\* n->next, for a node on the list
NextOf(n) ==
    IF OnList(n) /\ Position(n) < Len(list) THEN list[Position(n) + 1] ELSE Null

\* WL_DELETE
Without(n) ==
    IF OnList(n)
    THEN SubSeq(list, 1, Position(n) - 1) \o SubSeq(list, Position(n) + 1, Len(list))
    ELSE list

Top == Head(stack)

CalledAgain(n) == [called EXCEPT ![n] = IF @ = 0 THEN 1 ELSE 2]

\* The application, or spin, calls the SDK; or a callback does.
MayCall ==
    /\ Len(stack) < MaxDepth
    /\ stack # <<>> => Top.op \in Reenters

\* Each of the calls begins with dropExpiredClientTransactions, whose frame
\* reads the clock once and saves the head of the list and its successor.
ScanFrame ==
    [ op |-> "scan", now |-> now,
      t |-> IF list = <<>> THEN Null ELSE list[1],
      nt |-> IF Len(list) < 2 THEN Null ELSE list[2] ]

\* triggerClientTransactionRetransmissions, from spin.
CallTrigger ==
    /\ MayCall
    /\ stack' = <<ScanFrame>> \o stack
    /\ reentered' = (reentered \/ stack # <<>>)
    /\ UNCHANGED <<list, space_left, heap, expires, now, called, fault>>

CallThenScan(op, n) ==
    /\ MayCall
    /\ stack' = <<ScanFrame, [op |-> op, t |-> n, nt |-> Null, now |-> now]>> \o stack
    /\ reentered' = (reentered \/ stack # <<>>)
    /\ UNCHANGED <<list, space_left, heap, expires, now, called, fault>>

\* sendReliably: n is the transaction it will try to save.
CallSend(n) ==
    /\ heap[n] = "unused"
    /\ \A i \in DOMAIN stack : stack[i].op = "put" => stack[i].t # n
    /\ CallThenScan("put", n)

\* An ACK or RST of the message of n arrives, or n is canceled.
CallReceive(n) == heap[n] # "unused" /\ CallThenScan("get", n)

UseAfterFree ==
    /\ fault' = TRUE
    /\ UNCHANGED <<list, space_left, heap, expires, now, stack, called, reentered>>

\* The end of the body of WL_FOREACH_SAFE: t becomes the saved nt, whose own
\* next is read and saved.  (The list is the one after the body's changes.)
Advanced(f) == [f EXCEPT !.op = "scan", !.t = f.nt,
                         !.nt = IF f.nt = Null THEN Null ELSE NextOf(f.nt)]

\* Mutant of Dangling: a plain WL_FOREACH, which reads the next of the node that
\* was just freed.
DanglingForeach(f) == f.t # Null

\* The saved successor was freed meanwhile.
Dangling(f) == f.nt # Null /\ heap[f.nt] = "freed"

(***************************************************************************)
(* One turn of the loop of dropExpiredClientTransactions.                  *)
(***************************************************************************)
ScanEnd ==
    /\ Top.op = "scan" /\ Top.t = Null
    /\ stack' = Tail(stack)
    /\ UNCHANGED <<list, space_left, heap, expires, now, called, reentered, fault>>

ScanKeep ==
    /\ Top.op = "scan" /\ Top.t # Null
    /\ expires[Top.t] > Top.now
    /\ stack' = <<Advanced(Top)>> \o Tail(stack)
    /\ UNCHANGED <<list, space_left, heap, expires, now, called, reentered, fault>>

\* WL_DELETE, then the callback.
ScanTimeout ==
    /\ Top.op = "scan" /\ Top.t # Null
    /\ expires[Top.t] <= Top.now
    /\ list' = Without(Top.t)
    /\ called' = CalledAgain(Top.t)
    /\ stack' = <<[Top EXCEPT !.op = "Timeout"]>> \o Tail(stack)
    /\ UNCHANGED <<space_left, heap, expires, now, reentered, fault>>

\* The callback returns: WL_FREE, space_left++, and the next turn.
TimeoutReturns ==
    /\ Top.op = "Timeout"
    /\ IF Dangling(Top)
       THEN UseAfterFree
       ELSE /\ heap' = [heap EXCEPT ![Top.t] = "freed"]
            /\ space_left' = space_left + 1
            /\ stack' = <<Advanced(Top)>> \o Tail(stack)
            /\ UNCHANGED <<list, expires, now, called, reentered, fault>>

(***************************************************************************)
(* The rest of handleRx, once the expired transactions are dropped.        *)
(***************************************************************************)
GetFinds ==
    /\ Top.op = "get" /\ OnList(Top.t)
    /\ called' = CalledAgain(Top.t)
    /\ stack' = <<[Top EXCEPT !.op = "ACK"]>> \o Tail(stack)
    /\ UNCHANGED <<list, space_left, heap, expires, now, reentered, fault>>

GetMisses ==
    /\ Top.op = "get" /\ ~ OnList(Top.t)
    /\ stack' = Tail(stack)
    /\ UNCHANGED <<list, space_left, heap, expires, now, called, reentered, fault>>

\* Mutant of AckReturns: the slot is not given back.
AckReturnsNoSpace ==
    /\ Top.op = "ACK"
    /\ list' = Without(Top.t)
    /\ heap' = [heap EXCEPT ![Top.t] = "freed"]
    /\ stack' = Tail(stack)
    /\ UNCHANGED <<space_left, expires, now, called, reentered, fault>>

\* Mutant of AckReturns: freed, but not taken off the list.
AckReturnsNoDelete ==
    /\ Top.op = "ACK"
    /\ heap' = [heap EXCEPT ![Top.t] = "freed"]
    /\ stack' = Tail(stack)
    /\ UNCHANGED <<list, space_left, expires, now, called, reentered, fault>>

\* The callback returns: dropClientTransaction(&tc).
AckReturns ==
    /\ Top.op = "ACK"
    /\ IF heap[Top.t] = "freed"
       THEN UseAfterFree
       ELSE /\ list' = Without(Top.t)
            /\ heap' = [heap EXCEPT ![Top.t] = "freed"]
            /\ space_left' = space_left + 1
            /\ stack' = Tail(stack)
            /\ UNCHANGED <<expires, now, called, reentered, fault>>

(***************************************************************************)
(* The rest of putClientTransactionCON.                                    *)
(***************************************************************************)
PutRefused ==
    /\ Top.op = "put" /\ space_left = 0
    /\ stack' = Tail(stack)
    /\ UNCHANGED <<list, space_left, heap, expires, now, called, reentered, fault>>

\* Mutant of PutSaves: the limit is not checked.
PutSavesAlways(life) ==
    /\ Top.op = "put"
    /\ heap' = [heap EXCEPT ![Top.t] = "allocated"]
    /\ expires' = [expires EXCEPT ![Top.t] = now + life]
    /\ list' = Append(list, Top.t)
    /\ space_left' = space_left - 1
    /\ stack' = Tail(stack)
    /\ UNCHANGED <<now, called, reentered, fault>>

PutSaves(life) ==
    /\ Top.op = "put" /\ space_left # 0
    /\ heap' = [heap EXCEPT ![Top.t] = "allocated"]
    /\ expires' = [expires EXCEPT ![Top.t] = now + life]
    /\ list' = Append(list, Top.t)
    /\ space_left' = space_left - 1
    /\ stack' = Tail(stack)
    /\ UNCHANGED <<now, called, reentered, fault>>

Tick ==
    /\ now < MaxTime
    /\ now' = now + 1
    /\ UNCHANGED <<list, space_left, heap, expires, stack, called, reentered, fault>>

-----------------------------------------------------------------------------

Init ==
    /\ list = <<>>
    /\ space_left = NSTART
    /\ heap = [n \in Nodes |-> "unused"]
    /\ expires = [n \in Nodes |-> 0]
    /\ now = 0
    /\ stack = <<>>
    /\ called = [n \in Nodes |-> 0]
    /\ reentered = FALSE
    /\ fault = FALSE

Call == CallTrigger \/ \E n \in Nodes : CallSend(n) \/ CallReceive(n)

Return ==
    /\ stack # <<>>
    /\ \/ ScanEnd \/ ScanKeep \/ ScanTimeout \/ TimeoutReturns
       \/ GetFinds \/ GetMisses \/ AckReturns
       \/ PutRefused \/ \E life \in Life : PutSaves(life)

\* After a use of freed memory anything may happen: the model stops there.
Next == ~ fault /\ (Call \/ Return \/ Tick)

Spec == Init /\ [][Next]_vars

-----------------------------------------------------------------------------

ReentryTypeOK ==
    /\ list \in Seq(Nodes)
    /\ space_left \in 0 .. NSTART
    /\ heap \in [Nodes -> {"unused", "allocated", "freed"}]
    /\ expires \in [Nodes -> Nat]
    /\ now \in 0 .. MaxTime
    /\ stack \in Seq(Frame)
    /\ called \in [Nodes -> 0 .. 2]
    /\ {reentered, fault} \subseteq BOOLEAN

\* The transactions whose callback tells of their timeout at this moment.
TimingOut == {n \in Nodes : \E i \in DOMAIN stack : stack[i].op = "Timeout" /\ stack[i].t = n}

\* The slots add up at every moment, also inside a callback: a transaction that
\* is timing out is off the list, but its slot comes back only when its callback
\* returns.
SlotsBalanced == space_left + Len(list) + Cardinality(TimingOut) = NSTART

\* Whatever the callbacks do, the list itself links allocated nodes only, each
\* of them once: what goes wrong is in the loops' saved pointers.
ListIntact ==
    /\ \A i \in DOMAIN list : heap[list[i]] = "allocated"
    /\ \A i, j \in DOMAIN list : list[i] = list[j] => i = j

\* As long as the callbacks return without using the SDK, no loop or handler goes
\* on with a freed transaction, and each is called back at most once.
SafeUnlessReentered ==
    ~ reentered => ~ fault /\ \A n \in Nodes : called[n] <= 1

-----------------------------------------------------------------------------
\* Stronger properties, which the code does not have.

\* No loop or handler goes on with a transaction that a nested call freed.
NoUseAfterFree == ~ fault

\* A transaction's callback is called at most once.
CalledOnce == \A n \in Nodes : called[n] <= 1

\* Whatever the callbacks do, the list stays linked and space_left counts it.
ListConsistent == ReentryTypeOK /\ SlotsBalanced /\ ListIntact

=============================================================================
