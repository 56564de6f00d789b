----------------------------- MODULE CoAPServer -----------------------------
(***************************************************************************)
(* The server side of a CoAPPeer: the list of message ids received lately  *)
(* (server_transactions), which hides retransmissions from the request and *)
(* response handlers and replays the ACK or RST that answered the message. *)
(*                                                                         *)
(* The remote peer is the environment.  It sends exchanges: a message with *)
(* an id, and its retransmissions for as long as the exchange's window     *)
(* lasts.  The history variables follow the exchange that owns each id.    *)
(*                                                                         *)
(* As in CoAPClient, an entry keeps its remaining time, ttl = expires -    *)
(* now, floored at 0.                                                      *)
(***************************************************************************)
EXTENDS Integers, Sequences, FiniteSets

CONSTANTS
    NSYNC,              \* slots of the list
    RemoteId,           \* the message ids the remote peer uses
    MAX_TRANSMIT_SPAN, MAX_LATENCY, PROCESSING_DELAY,  \* in seconds
    MS,                 \* time units in a second (1000 in the code)
    NonWindow,          \* how long the remote retransmits a NON message
    ReusesIds           \* does the remote use an id again after its window?

ASSUME ServerConstants ==
    /\ NSYNC \in Nat \ {0}
    /\ {MAX_TRANSMIT_SPAN, MAX_LATENCY, PROCESSING_DELAY, MS, NonWindow} \subseteq Nat
    /\ ReusesIds \in BOOLEAN

VARIABLES
    server_transactions,  \* the list, head first
    srv_space_left        \* its free slots, as the code counts them

serverVars == <<server_transactions, srv_space_left>>

\* History of the exchange that owns each id.
VARIABLES
    window,    \* time during which it may still be retransmitted
    kind,      \* its message type
    handled,   \* how often the request or response handler saw it (2: twice
               \* or more)
    reply,     \* the ACK or RST that answered it
    evicted    \* ids whose entry made room for another one

historyVars == <<window, kind, handled, reply, evicted>>

vars == <<server_transactions, srv_space_left, window, kind, handled, reply, evicted>>

Reply == {"none", "ACK", "RST"}

Entry == [message_id : RemoteId, type : {"CON", "NON"}, ttl : Nat, ack_rst : Reply]

\* EXCHANGE_LIFETIME * 1000
EXCHANGE_LIFETIME == (MAX_TRANSMIT_SPAN + 2 * MAX_LATENCY + PROCESSING_DELAY) * MS

\* NON_LIFETIME * 1000: the macro has no parentheses around its sum, so only
\* MAX_LATENCY is multiplied.
NON_LIFETIME == MAX_TRANSMIT_SPAN + MAX_LATENCY * MS

Lifetime(type) == IF type = "CON" THEN EXCHANGE_LIFETIME ELSE NON_LIFETIME

\* Mutant of FirstKept: an entry goes one unit before it expires.
FirstKeptEarly(s) ==
    CHOOSE k \in 1 .. (Len(s) + 1) :
        /\ \A i \in 1 .. (k - 1) : s[i].ttl <= 1
        /\ k <= Len(s) => s[k].ttl > 1

\* dropExpiredServerTransactions: pops the head while the head is expired.  An
\* expired entry behind one that is not expired stays.
FirstKept(s) ==
    CHOOSE k \in 1 .. (Len(s) + 1) :
        /\ \A i \in 1 .. (k - 1) : s[i].ttl = 0
        /\ k <= Len(s) => s[k].ttl > 0

DropExpired(s) == SubSeq(s, FirstKept(s), Len(s))

\* Mutant of Ids: only the head is looked at.
IdsOfHead(s) == {s[i].message_id : i \in DOMAIN s \cap {1}}

Ids(s) == {s[i].message_id : i \in DOMAIN s}

\* WL_INSERT_SORT goes past the elements with expires <= the new one's.  It runs
\* on the new entry before its fields are set, when expires is still 0 from
\* WL_NEW, and a live entry's expires is not: the entry goes to the head.
InsertSort(s, e) == <<e>> \o s

NewEntry(id, type) ==
    [message_id |-> id, type |-> type, ttl |-> Lifetime(type), ack_rst |-> "none"]

\* Mutant of Full: the limit is not checked.
FullNever(s) == FALSE

\* space_left == 0, once the list is down to s.
Full(s) == srv_space_left + Len(server_transactions) - Len(s) = 0

\* putServerTransaction, on the list s without expired heads: a full list loses
\* its head.
PutServerTransaction(s, id, type) ==
    InsertSort(IF Full(s) /\ s # <<>> THEN Tail(s) ELSE s, NewEntry(id, type))

\* Mutant of SetReply: the newest entry gets the reply.
SetReplyOfHead(s, id, r) ==
    [i \in DOMAIN s |-> IF i = 1 THEN [s[i] EXCEPT !.ack_rst = r] ELSE s[i]]

\* setServerTransactionReply, on a list without expired heads.
SetReply(s, id, r) ==
    [i \in DOMAIN s |->
        IF s[i].message_id = id THEN [s[i] EXCEPT !.ack_rst = r] ELSE s[i]]

\* space_left goes up and down with each element.
Becomes(s) ==
    /\ server_transactions' = s
    /\ srv_space_left' = srv_space_left + Len(server_transactions) - Len(s)

(***************************************************************************)
(* The remote peer: a new exchange, or a retransmission of the current one.*)
(***************************************************************************)
WindowOf(type) == IF type = "CON" THEN EXCHANGE_LIFETIME ELSE NonWindow

Fresh(id) == window[id] = 0 /\ (handled[id] = 0 \/ ReusesIds)

Start(id, type, n, r) ==
    /\ window' = [window EXCEPT ![id] = WindowOf(type)]
    /\ kind' = [kind EXCEPT ![id] = type]
    /\ handled' = [handled EXCEPT ![id] = n]
    /\ reply' = [reply EXCEPT ![id] = r]

\* The handler's follow-up: an ACK or RST is sent, and saved, for CON only, and
\* only if the transport is ready.
FollowUp(s, id, type, followUp) ==
    IF type = "CON" /\ followUp # "none"
    THEN SetReply(DropExpired(s), id, followUp)
    ELSE s

FollowUpReply(type, followUp) == IF type = "CON" THEN followUp ELSE "none"

(***************************************************************************)
(* handleRx for a CON or NON message that is not in the list: save the id, *)
(* call the handler, follow up.                                            *)
(***************************************************************************)
Handle(id, type, followUp) ==
    LET s == DropExpired(server_transactions) IN
    /\ id \notin Ids(s)
    /\ Becomes(FollowUp(PutServerTransaction(s, id, type), id, type, followUp))

\* The live entries that are gone after the step.
Evicted == {server_transactions[i].message_id :
                i \in {j \in DOMAIN server_transactions :
                            /\ server_transactions[j].ttl > 0
                            /\ server_transactions[j].message_id
                                    \notin Ids(server_transactions')}}

ReceiveFresh(id, type, followUp) ==
    /\ Fresh(id)
    /\ Handle(id, type, followUp)
    /\ evicted' = (evicted \ {id}) \cup Evicted
    /\ Start(id, type, 1, FollowUpReply(type, followUp))

ReceiveForgotten(id, followUp) ==
    /\ window[id] > 0
    /\ Handle(id, kind[id], followUp)
    /\ evicted' = evicted \cup Evicted
    /\ handled' = [handled EXCEPT ![id] = IF @ = 0 THEN 1 ELSE 2]
    /\ reply' = [reply EXCEPT ![id] = FollowUpReply(kind[id], followUp)]
    /\ UNCHANGED <<window, kind>>

(***************************************************************************)
(* handleRx for a message whose id is in the list: the handlers are not    *)
(* called; the saved reply, if any, is sent again.                         *)
(***************************************************************************)
Ignore(id) ==
    LET s == DropExpired(server_transactions) IN
    /\ id \in Ids(s)
    /\ Becomes(s)

ReceiveDuplicate(id) ==
    /\ window[id] > 0
    /\ Ignore(id)
    /\ UNCHANGED historyVars

\* A new exchange whose id is still in the list is taken for a duplicate.
ReceiveSwallowed(id, type) ==
    /\ Fresh(id)
    /\ Ignore(id)
    /\ Start(id, type, 0, "none")
    /\ evicted' = evicted \ {id}

\* An ACK or RST sent later by the application, with sendUnreliably.
SendReplyLater(id, r) ==
    /\ window[id] > 0 /\ handled[id] > 0 /\ reply[id] = "none" /\ kind[id] = "CON"
    /\ Becomes(SetReply(DropExpired(server_transactions), id, r))
    /\ reply' = [reply EXCEPT ![id] = r]
    /\ UNCHANGED <<window, kind, handled, evicted>>

\* A ping, a CON message without code: answered with RST, and not saved; but
\* sendUnreliably saves the RST as the reply of the entry with this id, if any.
ReceivePing(id) ==
    /\ Fresh(id)
    /\ Becomes(SetReply(DropExpired(server_transactions), id, "RST"))
    /\ UNCHANGED historyVars

Tick ==
    /\ server_transactions' =
        [i \in DOMAIN server_transactions |->
            [server_transactions[i] EXCEPT !.ttl = IF @ > 0 THEN @ - 1 ELSE 0]]
    /\ window' = [id \in RemoteId |-> IF window[id] > 0 THEN window[id] - 1 ELSE 0]
    /\ UNCHANGED <<srv_space_left, kind, handled, reply, evicted>>

\* logServerTransactions drops the expired heads and prints.
LogServerTransactions ==
    /\ Becomes(DropExpired(server_transactions))
    /\ UNCHANGED historyVars

-----------------------------------------------------------------------------

Init ==
    /\ server_transactions = <<>>
    /\ srv_space_left = NSYNC
    /\ window = [id \in RemoteId |-> 0]
    /\ kind = [id \in RemoteId |-> "CON"]
    /\ handled = [id \in RemoteId |-> 0]
    /\ reply = [id \in RemoteId |-> "none"]
    /\ evicted = {}

Next ==
    \/ \E id \in RemoteId, type \in {"CON", "NON"} :
        \/ \E followUp \in Reply : ReceiveFresh(id, type, followUp)
        \/ ReceiveSwallowed(id, type)
    \/ \E id \in RemoteId :
        \/ \E followUp \in Reply : ReceiveForgotten(id, followUp)
        \/ \E r \in {"ACK", "RST"} : SendReplyLater(id, r)
        \/ ReceiveDuplicate(id)
        \/ ReceivePing(id)
    \/ LogServerTransactions
    \/ Tick

Spec == Init /\ [][Next]_vars

-----------------------------------------------------------------------------

ServerTypeOK ==
    /\ server_transactions \in Seq(Entry)
    /\ srv_space_left \in 0 .. NSYNC
    /\ window \in [RemoteId -> Nat]
    /\ kind \in [RemoteId -> {"CON", "NON"}]
    /\ handled \in [RemoteId -> 0 .. 2]
    /\ reply \in [RemoteId -> Reply]
    /\ evicted \subseteq RemoteId

\* How long ago the exchange that owns the id began.
Age(id) == WindowOf(kind[id]) - window[id]

\* "Only the first message triggers the request or response handlers": they see an
\* exchange again only if its entry had to make room for another one, or if it is a
\* NON message that the remote peer repeats after the lifetime the code computes.
HandledOnceUnlessEvicted ==
    \A id \in RemoteId : handled[id] = 2 /\ id \notin evicted
        => kind[id] = "NON" /\ Age(id) >= NON_LIFETIME

\* The saved reply is the one that answered this exchange: a retransmission of
\* what the handlers saw is never answered with another message's ACK or RST.
ReplayFaithful ==
    \A i \in DOMAIN server_transactions :
        LET e == server_transactions[i] IN
        window[e.message_id] > 0 /\ handled[e.message_id] > 0
            => e.ack_rst = reply[e.message_id]

\* The list holds an id once, so a duplicate finds the entry of its exchange.
ListedOnce ==
    \A i, j \in DOMAIN server_transactions :
        server_transactions[i].message_id = server_transactions[j].message_id => i = j

-----------------------------------------------------------------------------
\* Stronger properties, which the code does not have.

\* The handlers see no exchange again while it may be retransmitted, as long as its
\* entry did not make room for another one.
HandledOnceInWindow ==
    \A id \in RemoteId : handled[id] = 2 => id \in evicted

\* "drop the oldest": of two live entries of one type, the one that goes is not
\* the one received later.
EvictsOldest ==
    [][\A i, j \in DOMAIN server_transactions :
        LET gone == server_transactions[i]
            kept == server_transactions[j] IN
        /\ gone.type = kept.type /\ gone.ttl > 0
        /\ gone.message_id \notin Ids(server_transactions')
        /\ kept.message_id \in Ids(server_transactions')
        => gone.ttl <= kept.ttl]_vars

\* The ids are kept for a lifetime: a new exchange, which starts after the
\* window of the previous one with its id, reaches the handlers.
FreshDelivered == \A id \in RemoteId : window[id] > 0 => handled[id] >= 1

\* The list of received messages holds each id once, and a saved reply answers
\* the message it is repeated for.
ServerConsistent == ServerTypeOK /\ ListedOnce /\ ReplayFaithful

=============================================================================
