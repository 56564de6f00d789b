----------------------------- MODULE CoAPClient -----------------------------
(***************************************************************************)
(* The client side of a CoAPPeer: the table of client transactions         *)
(* (client_transactions), the messages sent reliably and unreliably, the   *)
(* ACKs and RSTs that come back, the retransmissions and the timeouts; and *)
(* the receipts that Breakout::sendCommandWithReceiptRequest hands to the  *)
(* table and callback_commandReceipt takes back.                           *)
(*                                                                         *)
(* All the code runs in one thread, driven by Breakout::spin, so each      *)
(* handler is one atomic action.  The application callbacks are assumed to *)
(* return without calling the SDK again; the module CoAPReentry looks at   *)
(* callbacks that do.                                                      *)
(*                                                                         *)
(* Time.  The code compares t->expires with owl_time() and nothing else,   *)
(* so a transaction keeps its remaining time, ttl = expires - now, floored *)
(* at 0 ("expires <= now"), and Tick counts it down.                       *)
(*                                                                         *)
(* The list is declared "unsorted" and no operation here depends on its    *)
(* order: it is a set of transactions.                                     *)
(***************************************************************************)
EXTENDS Integers, Sequences, FiniteSets

CONSTANTS
    NSTART,          \* slots of the client transaction table
    MAX_RETRANSMIT,  \* retransmissions of a CON message
    ACK_TIMEOUT,     \* shortest first interval, in ticks
    Jitter,          \* what random(ACK_TIMEOUT * ACK_RANDOM_FACTOR) may return
    ID_MODULUS,      \* message ids are 0 .. ID_MODULUS - 1 (2^16 in the code)
    NonInterval,     \* retransmission intervals of NON messages
    NonSpan,         \* max_transmit_span of NON messages
    Requests,        \* the Commands sent with a receipt request
    MaxSends,        \* bound: message ids the application draws
    TxResults,       \* what handleTx may return
    NoParam          \* cb_param of a transaction without a receipt

ASSUME ClientConstants ==
    /\ NSTART \in Nat \ {0}
    /\ MAX_RETRANSMIT \in Nat
    /\ ACK_TIMEOUT \in Nat \ {0}
    /\ Jitter \subseteq Nat
    /\ ID_MODULUS \in Nat \ {0}
    /\ NonInterval \subseteq Nat \ {0}
    /\ NonSpan \subseteq Nat
    /\ MaxSends \in Nat
    /\ TxResults \subseteq BOOLEAN
    /\ NoParam \notin Requests

VARIABLES
    client_transactions,  \* the table, a set of transactions
    space_left,           \* its free slots, as the code counts them
    last_message_id,      \* the id drawn last
    drawn,                \* how many ids were drawn (for the bound)
    status,               \* what sendCommandWithReceiptRequest returned
    receipt,              \* the memory of each receipt_t
    told                  \* the receipt codes the application was called with

clientVars == << client_transactions, space_left, last_message_id, drawn,
                 status, receipt, told >>

MessageId == 0 .. (ID_MODULUS - 1)

StatusCode == {"none", "OK", "ERROR", "TOO_LONG"}

ReceiptCode == {"CONFIRMED_DELIVERY", "SERVER_ERROR", "CANCELED", "TIMEOUT"}

Transaction ==
    [ message_id : MessageId,
      type       : {"CON", "NON"},
      ttl        : Nat,
      interval   : Nat,
      left       : Nat,
      cb_param   : Requests \cup {NoParam} ]

(***************************************************************************)
(* Helpers on sets of transactions.                                        *)
(***************************************************************************)

\* Mutant of Expired: the retransmission count off by one.
ExpiredOffByOne(S) == {t \in S : t.ttl = 0 /\ t.left < 0}

\* The transactions dropExpiredClientTransactions removes: out of time and
\* out of retransmissions.
Expired(S) == {t \in S : t.ttl = 0 /\ t.left = 0}

Live(S) == S \ Expired(S)

WithId(S, id) == {t \in S : t.message_id = id}

\* The requests whose receipt is the callback parameter of one of S.
Params(S) == {t.cb_param : t \in S} \cap Requests

\* Mutant of ToldAfter: a timeout calls nobody back.
ToldAfterNoTimeout(timedOut, hit, code) ==
    [r \in Requests |->
        IF r \in Params(hit) THEN Append(told[r], code) ELSE told[r]]

\* Mutant of FreedAfter: the receipt is not freed.
FreedAfterNothing(S) == receipt

\* callback_commandReceipt, run for the transactions of timedOut with Timeout
\* and for those of hit with the event whose receipt code is code: the
\* application's callback is called...
ToldAfter(timedOut, hit, code) ==
    [r \in Requests |->
        IF r \in Params(timedOut) THEN Append(told[r], "TIMEOUT")
        ELSE IF r \in Params(hit) THEN Append(told[r], code)
        ELSE told[r]]

\* ...and then the receipt is freed.
FreedAfter(S) ==
    [r \in Requests |-> IF r \in Params(S) THEN "freed" ELSE receipt[r]]

Callbacks(timedOut, hit, code) ==
    /\ told' = ToldAfter(timedOut, hit, code)
    /\ receipt' = FreedAfter(timedOut \cup hit)

\* Mutant of Drop: space_left++ is missing.
DropNoSpace(S) ==
    /\ client_transactions' = client_transactions \ S
    /\ space_left' = space_left

\* WL_DELETE, WL_FREE and space_left++ for each transaction of S.
Drop(S) ==
    /\ client_transactions' = client_transactions \ S
    /\ space_left' = space_left + Cardinality(S)

\* Drop the expired transactions with Timeout, and those of hit with the event
\* of code.
DropWith(hit, code) ==
    /\ Drop(Expired(client_transactions) \cup hit)
    /\ Callbacks(Expired(client_transactions), hit, code)

(***************************************************************************)
(* dropExpiredClientTransactions on its own: what logClientTransactions    *)
(* does to the state.                                                      *)
(***************************************************************************)
DropExpiredClientTransactions ==
    /\ DropWith({}, "TIMEOUT")
    /\ UNCHANGED <<last_message_id, drawn, status>>

\* Mutant of NextMessageId: the id does not wrap.
NextMessageIdNoWrap == last_message_id + 1

\* getNextMessageId
NextMessageId == (last_message_id + 1) % ID_MODULUS

DrawMessageId ==
    /\ drawn < MaxSends
    /\ drawn' = drawn + 1
    /\ last_message_id' = NextMessageId

\* The transaction putClientTransactionCON saves; random() returned j.
ConTransaction(id, j, param) ==
    [ message_id |-> id, type |-> "CON",
      ttl |-> ACK_TIMEOUT + j, interval |-> ACK_TIMEOUT + j,
      left |-> MAX_RETRANSMIT, cb_param |-> param ]

\* The transaction putClientTransactionNON saves.
NonTransaction(id, ivl, span) ==
    [ message_id |-> id, type |-> "NON",
      ttl |-> ivl, interval |-> ivl,
      left |-> span \div ivl, cb_param |-> NoParam ]

\* Mutant of CanPut: no check that the id is free.
CanPutAnyId(id) == space_left + Cardinality(Expired(client_transactions)) # 0

\* putClientTransactionCON and putClientTransactionNON refuse an id that is
\* already saved, and a full table.  The expired transactions are gone by then.
CanPut(id) ==
    /\ WithId(Live(client_transactions), id) = {}
    /\ space_left + Cardinality(Expired(client_transactions)) # 0

\* Save t, after dropping the expired transactions.
Put(t) ==
    /\ client_transactions' = Live(client_transactions) \cup {t}
    /\ space_left' = space_left + Cardinality(Expired(client_transactions)) - 1

\* put refused: the error label of the send functions drops whatever has the
\* id, by dropClientTransaction(message_id), which calls nobody back.
PutRefused(id) ==
    Drop(Expired(client_transactions) \cup WithId(client_transactions, id))

(***************************************************************************)
(* Breakout::sendCommandWithReceiptRequest and CoAPPeer::sendReliably.  The *)
(* receipt is allocated, an id is drawn; a transport that is not ready, or *)
(* a refused put, or a failed handleTx makes the call return ERROR, and    *)
(* the caller frees the receipt.  After a failed handleTx the transaction  *)
(* stays in the table.                                                     *)
(***************************************************************************)
\* Offline, or longer than 140 bytes: refused before anything is allocated.
SendRejectedEarly(r, code) ==
    /\ status[r] = "none"
    /\ status' = [status EXCEPT ![r] = code]
    /\ UNCHANGED <<client_transactions, space_left, last_message_id, drawn,
                   receipt, told>>

SendNotReady(r) ==
    /\ status[r] = "none"
    /\ DrawMessageId
    /\ status' = [status EXCEPT ![r] = "ERROR"]
    /\ receipt' = [receipt EXCEPT ![r] = "freed"]
    /\ UNCHANGED <<client_transactions, space_left, told>>

SendRefused(r) ==
    /\ status[r] = "none"
    /\ DrawMessageId
    /\ ~ CanPut(NextMessageId)
    /\ PutRefused(NextMessageId)
    /\ status' = [status EXCEPT ![r] = "ERROR"]
    /\ told' = ToldAfter(Expired(client_transactions), {}, "TIMEOUT")
    /\ receipt' = [FreedAfter(Expired(client_transactions)) EXCEPT ![r] = "freed"]

SendReliably(r, j, sent) ==
    /\ status[r] = "none"
    /\ DrawMessageId
    /\ CanPut(NextMessageId)
    /\ Put(ConTransaction(NextMessageId, j, r))
    /\ status' = [status EXCEPT ![r] = IF sent THEN "OK" ELSE "ERROR"]
    /\ told' = ToldAfter(Expired(client_transactions), {}, "TIMEOUT")
    /\ receipt' = [FreedAfter(Expired(client_transactions)) EXCEPT
                       ![r] = IF sent THEN "allocated" ELSE "freed"]

(***************************************************************************)
(* sendUnreliably of a NON message with a probing rate.                    *)
(***************************************************************************)
SendNON(ivl, span, sent) ==
    LET id == NextMessageId IN
    /\ DrawMessageId
    /\ IF CanPut(id) /\ sent
       THEN Put(NonTransaction(id, ivl, span))
       ELSE PutRefused(id)
    /\ Callbacks(Expired(client_transactions), {}, "TIMEOUT")
    /\ UNCHANGED status

\* sendUnreliably of a NON message without a probing rate (sendCommand, or with
\* sent = TRUE any NON message while the transport is not ready): nothing is
\* saved, and a failed handleTx drops whatever has the id.
SendNONOnce(sent) ==
    /\ DrawMessageId
    /\ Drop(IF sent THEN {} ELSE WithId(client_transactions, NextMessageId))
    /\ UNCHANGED <<status, receipt, told>>

\* sendUnreliably of an ACK or RST, whose id the remote peer chose.  Without
\* a probing rate no transaction is saved, but the error label is the same:
\* a failed handleTx drops the client transaction that has this id.
SendReply(id, sent) ==
    /\ Drop(IF sent THEN {} ELSE WithId(client_transactions, id))
    /\ UNCHANGED <<last_message_id, drawn, status, receipt, told>>

\* Mutant of EndTransaction: called back, but not dropped.
EndTransactionKept(id, code) ==
    /\ Drop(Expired(client_transactions))
    /\ Callbacks(Expired(client_transactions),
                 WithId(Live(client_transactions), id), code)
    /\ UNCHANGED <<last_message_id, drawn, status>>

(***************************************************************************)
(* stopRetransmissions, and the ACK and RST cases of handleRx.  The three  *)
(* get the transaction (dropping the expired ones first), call it back and *)
(* drop it.  Any id may arrive at any time: the network loses, repeats,    *)
(* delays and reorders what the server sends.                              *)
(***************************************************************************)
EndTransaction(id, code) ==
    /\ DropWith(WithId(Live(client_transactions), id), code)
    /\ UNCHANGED <<last_message_id, drawn, status>>

StopRetransmissions(id) == EndTransaction(id, "CANCELED")

ReceiveACK(id) == EndTransaction(id, "CONFIRMED_DELIVERY")

ReceiveRST(id) == EndTransaction(id, "SERVER_ERROR")

(***************************************************************************)
(* triggerClientTransactionRetransmissions, called from spin: drop the     *)
(* expired transactions, then resend each one that is out of time and may  *)
(* be resent.  A failed handleTx is only logged: the attempt counts.       *)
(***************************************************************************)
Retransmitted(t) ==
    IF t.ttl = 0 /\ t.left > 0
    THEN LET ivl == IF t.type = "CON" THEN 2 * t.interval ELSE t.interval IN
         [t EXCEPT !.interval = ivl, !.ttl = ivl, !.left = t.left - 1]
    ELSE t

TriggerClientTransactionRetransmissions ==
    /\ client_transactions' = {Retransmitted(t) : t \in Live(client_transactions)}
    /\ space_left' = space_left + Cardinality(Expired(client_transactions))
    /\ Callbacks(Expired(client_transactions), {}, "TIMEOUT")
    /\ UNCHANGED <<last_message_id, drawn, status>>

\* owl_time() advances.
Elapsed(t) == [t EXCEPT !.ttl = IF t.ttl > 0 THEN t.ttl - 1 ELSE 0]

Tick ==
    /\ client_transactions' = {Elapsed(t) : t \in client_transactions}
    /\ UNCHANGED <<space_left, last_message_id, drawn, status, receipt, told>>

-----------------------------------------------------------------------------

Init ==
    /\ client_transactions = {}
    /\ space_left = NSTART
    /\ last_message_id \in MessageId
    /\ drawn = 0
    /\ status = [r \in Requests |-> "none"]
    /\ receipt = [r \in Requests |-> "none"]
    /\ told = [r \in Requests |-> <<>>]

Send ==
    \/ \E r \in Requests :
        \/ \E code \in {"ERROR", "TOO_LONG"} : SendRejectedEarly(r, code)
        \/ SendNotReady(r)
        \/ SendRefused(r)
        \/ \E j \in Jitter, sent \in TxResults : SendReliably(r, j, sent)
    \/ \E ivl \in NonInterval, span \in NonSpan, sent \in TxResults :
        SendNON(ivl, span, sent)
    \/ \E sent \in TxResults : SendNONOnce(sent)
    \/ \E id \in MessageId, sent \in TxResults : SendReply(id, sent)

End ==
    \E id \in MessageId :
        \/ StopRetransmissions(id)
        \/ ReceiveACK(id)
        \/ ReceiveRST(id)

Next ==
    \/ Send
    \/ End
    \/ DropExpiredClientTransactions
    \/ TriggerClientTransactionRetransmissions
    \/ Tick

Spec == Init /\ [][Next]_clientVars

\* spin is called again and again ("This function must be called
\* periodically"), so retransmissions are triggered for ever, and time passes.
Fairness ==
    /\ WF_clientVars(TriggerClientTransactionRetransmissions)
    /\ WF_clientVars(Tick)

FairSpec == Spec /\ Fairness

-----------------------------------------------------------------------------

ClientTypeOK ==
    /\ client_transactions \subseteq Transaction
    /\ IsFiniteSet(client_transactions)
    /\ space_left \in Int
    /\ last_message_id \in MessageId
    /\ drawn \in 0 .. MaxSends
    /\ status \in [Requests -> StatusCode]
    /\ receipt \in [Requests -> {"none", "allocated", "freed"}]
    /\ told \in [Requests -> Seq(ReceiptCode)]

\* space_left and the list are updated in different places (put, the two
\* dropClientTransaction, dropExpiredClientTransactions): together they always
\* account for the NSTART slots, so no slot leaks and the table never holds
\* more than NSTART transactions.
SpaceAccounting ==
    /\ space_left + Cardinality(client_transactions) = NSTART
    /\ space_left >= 0

\* An ACK or RST selects one transaction: no two share a message id.
UniqueIds ==
    \A t, u \in client_transactions : t.message_id = u.message_id => t = u

\* An application is called at most once about a Command, whatever answers,
\* late answers, cancellations and timeouts arrive in whatever order.
AtMostOneReceipt == \A r \in Requests : Len(told[r]) <= 1

\* A callback never runs on a receipt that was freed: each transaction in the
\* table holds an allocated receipt.
NoDanglingReceipt ==
    \A r \in Params(client_transactions) : receipt[r] = "allocated"

\* An accepted Command the application was not called about is still in the
\* table: it was not dropped in silence.
NoSilentLoss ==
    \A r \in Requests :
        status[r] = "OK" /\ told[r] = <<>> => r \in Params(client_transactions)

\* Every receipt is freed exactly when the table is done with it: none leaks.
NoReceiptLeak ==
    \A r \in Requests :
        receipt[r] = "allocated" => r \in Params(client_transactions)

\* What the application knows of each Command, as ReliableDelivery sees it.
PhaseOf(r) ==
    IF told[r] # <<>> THEN told[r][Len(told[r])]
    ELSE CASE status[r] = "none" -> "idle"
           [] status[r] = "OK" -> "pending"
           [] OTHER -> "refused"

Promise == INSTANCE ReliableDelivery WITH phase <- [r \in Requests |-> PhaseOf(r)]

\* The table keeps the promise of ReliableDelivery: a refused Command stays
\* silent, an accepted one gets exactly one receipt code.
KeepsPromise == Promise!SafeSpec

\* Every accepted Command is eventually confirmed, rejected, canceled or timed
\* out.
EveryCommandSettles ==
    \A r \in Requests : (status[r] = "OK") ~> (told[r] # <<>>)

\* What the application is owed: no receipt that is still expected lacks its
\* transaction, no transaction ends unheard, and none is left behind.
ReceiptsSettled == ClientTypeOK /\ NoDanglingReceipt /\ NoSilentLoss /\ NoReceiptLeak

=============================================================================
