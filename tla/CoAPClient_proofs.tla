-------------------------- MODULE CoAPClient_proofs -------------------------
(***************************************************************************)
(* Proofs about the client transaction table, for every size of the table, *)
(* every retransmission count and interval, every id space (ids may be     *)
(* reused) and every set of Commands.                                      *)
(***************************************************************************)
EXTENDS CoAPClient, FiniteSetTheorems, TLAPS

\* The receipts and the table: a transaction with a receipt belongs to a
\* Command whose call was made and whose application was not called yet, and
\* it is the only one with that receipt.  AtMostOneReceipt is not inductive
\* without it: a callback could be the second one.
Ownership ==
    /\ \A t \in client_transactions : t.cb_param \in Requests =>
            status[t.cb_param] # "none" /\ told[t.cb_param] = <<>>
    /\ \A t, u \in client_transactions :
            t.cb_param \in Requests /\ t.cb_param = u.cb_param => t = u
    /\ \A r \in Requests : status[r] = "none" => told[r] = <<>>

ClientInv ==
    /\ ClientTypeOK
    /\ SpaceAccounting
    /\ UniqueIds
    /\ Ownership
    /\ AtMostOneReceipt

-----------------------------------------------------------------------------
(* Cardinalities.                                                          *)

\* Removing a subset of a finite set removes as many elements.
LEMMA CardDiff ==
    ASSUME NEW S, IsFiniteSet(S), NEW X \in SUBSET S
    PROVE  /\ IsFiniteSet(S \ X)
           /\ Cardinality(X) \in Nat
           /\ Cardinality(S \ X) = Cardinality(S) - Cardinality(X)
           /\ Cardinality(S) \in Nat
           /\ Cardinality(S \ X) \in Nat
<1>1. S \cap X = X
  OBVIOUS
<1>2. IsFiniteSet(X)
  BY FS_Subset
<1>3. IsFiniteSet(S \ X) /\ Cardinality(S \ X) = Cardinality(S) - Cardinality(S \cap X)
  BY FS_Difference
<1>4. Cardinality(X) \in Nat /\ Cardinality(S) \in Nat /\ Cardinality(S \ X) \in Nat
  BY <1>2, <1>3, FS_CardinalityType
<1> QED
  BY <1>1, <1>3, <1>4

\* The image of a finite set under a function that keeps its elements apart has
\* as many elements.
LEMMA CardImage ==
    ASSUME NEW S, IsFiniteSet(S), NEW f, f = [x \in S |-> f[x]],
           \A x, y \in S : f[x] = f[y] => x = y
    PROVE  LET T == {f[x] : x \in S}
           IN  IsFiniteSet(T) /\ Cardinality(T) = Cardinality(S)
<1> DEFINE T == {f[x] : x \in S}
<1>1. f \in [S -> T]
  OBVIOUS
<1>2. \A t \in T : \E s \in S : f[s] = t
  OBVIOUS
<1>3. f \in Injection(S, T)
  BY <1>1 DEF Injection, IsInjective
<1>4. f \in Surjection(S, T)
  BY <1>1, <1>2 DEF Surjection
<1>5. ExistsBijection(S, T)
  BY <1>3, <1>4 DEF ExistsBijection, Bijection
<1> QED
  BY <1>5, FS_Bijection

-----------------------------------------------------------------------------
(* What the helpers of CoAPClient do to the invariant.                     *)

\* Dropping transactions keeps the slots accounted for and the ids apart.
LEMMA DropLemma ==
    ASSUME ClientTypeOK, SpaceAccounting, UniqueIds,
           NEW S \in SUBSET client_transactions, Drop(S)
    PROVE  /\ client_transactions' \subseteq client_transactions
           /\ client_transactions' \subseteq Transaction
           /\ IsFiniteSet(client_transactions')
           /\ space_left' \in Int
           /\ SpaceAccounting'
           /\ UniqueIds'
<1> DEFINE ct == client_transactions
<1>1. ct' = ct \ S /\ space_left' = space_left + Cardinality(S)
  BY DEF Drop
<1>2. /\ IsFiniteSet(ct \ S)
      /\ Cardinality(S) \in Nat
      /\ Cardinality(ct \ S) = Cardinality(ct) - Cardinality(S)
      /\ Cardinality(ct) \in Nat
  BY CardDiff DEF ClientTypeOK
<1>3. space_left \in Int /\ space_left + Cardinality(ct) = NSTART /\ space_left >= 0
  BY DEF ClientTypeOK, SpaceAccounting
<1>4. space_left' + Cardinality(ct') = NSTART /\ space_left' >= 0 /\ space_left' \in Int
  BY <1>1, <1>2, <1>3, ClientConstants
<1> QED
  BY <1>1, <1>2, <1>4 DEF ClientTypeOK, SpaceAccounting, UniqueIds

\* What the callbacks for the transactions of A and B leave behind.
Settled(A, B) ==
    /\ told' \in [Requests -> Seq(ReceiptCode)]
    /\ \A r \in Requests : Len(told'[r]) <= 1
    /\ \A r \in Requests : status[r] = "none" => told'[r] = <<>>
    /\ \A t \in client_transactions \ (A \cup B) :
            t.cb_param \in Requests => told'[t.cb_param] = <<>>

\* callback_commandReceipt tells each application at most one code, and none
\* about the transactions that stay in the table.
LEMMA ToldLemma ==
    ASSUME ClientInv,
           NEW A \in SUBSET client_transactions,
           NEW B \in SUBSET client_transactions,
           NEW code \in ReceiptCode, told' = ToldAfter(A, B, code)
    PROVE  Settled(A, B)
<1> USE DEF ClientInv, ClientTypeOK
<1>1. ASSUME NEW r \in Params(A) \cup Params(B)
      PROVE  r \in Requests /\ told[r] = <<>> /\ status[r] # "none"
  <2>1. PICK t \in client_transactions : t.cb_param = r /\ r \in Requests
    BY DEF Params
  <2> QED
    BY <2>1 DEF Ownership
<1>2. "TIMEOUT" \in ReceiptCode
  BY DEF ReceiptCode
<1>3. \A r \in Requests : told[r] \in Seq(ReceiptCode)
  OBVIOUS
<1>4. ASSUME NEW r \in Requests, NEW c \in ReceiptCode
      PROVE  /\ Append(told[r], c) \in Seq(ReceiptCode)
             /\ told[r] = <<>> => Len(Append(told[r], c)) = 1
  BY <1>3
<1>5. told' \in [Requests -> Seq(ReceiptCode)]
  BY <1>2, <1>3, <1>4 DEF ToldAfter
<1>6. ASSUME NEW r \in Requests
      PROVE  /\ Len(told'[r]) <= 1
             /\ status[r] = "none" => told'[r] = <<>>
  <2>1. CASE r \in Params(A) \cup Params(B)
    BY <2>1, <1>1, <1>2, <1>4 DEF ToldAfter
  <2>2. CASE r \notin Params(A) \cup Params(B)
    BY <2>2 DEF ToldAfter, Ownership, AtMostOneReceipt
  <2> QED
    BY <2>1, <2>2
<1>7. ASSUME NEW t \in client_transactions \ (A \cup B), t.cb_param \in Requests
      PROVE  told'[t.cb_param] = <<>>
  <2>1. t.cb_param \notin Params(A) \cup Params(B)
    <3>1. ASSUME NEW u \in A \cup B, u.cb_param = t.cb_param
          PROVE  FALSE
      BY <1>7, <3>1 DEF Ownership
    <3> QED
      BY <3>1 DEF Params
  <2>2. told[t.cb_param] = <<>>
    BY <1>7 DEF Ownership
  <2> QED
    BY <1>7, <2>1, <2>2 DEF ToldAfter
<1> QED
  BY <1>5, <1>6, <1>7 DEF Settled

\* The parts of the state that every action only moves inside its type, and the
\* calls that were made, which stay made.
Frame ==
    /\ last_message_id' \in MessageId
    /\ drawn' \in 0 .. MaxSends
    /\ receipt' \in [Requests -> {"none", "allocated", "freed"}]
    /\ status' \in [Requests -> StatusCode]
    /\ \A r \in Requests : status'[r] = "none" => status[r] = "none"

\* Dropping transactions, those of A and B with their callbacks and the others
\* in silence, keeps the invariant.
LEMMA DropStep ==
    ASSUME ClientInv, Frame,
           NEW A \in SUBSET client_transactions,
           NEW B \in SUBSET client_transactions,
           NEW S \in SUBSET client_transactions,
           A \cup B \subseteq S, Drop(S),
           NEW code \in ReceiptCode, told' = ToldAfter(A, B, code)
    PROVE  ClientInv'
<1>1. /\ client_transactions' \subseteq client_transactions
      /\ client_transactions' \subseteq Transaction
      /\ IsFiniteSet(client_transactions')
      /\ space_left' \in Int
      /\ SpaceAccounting'
      /\ UniqueIds'
  BY DropLemma DEF ClientInv
<1>2. Settled(A, B)
  BY ToldLemma
<1>3. ClientTypeOK'
  BY <1>1, <1>2 DEF ClientTypeOK, MessageId, Settled, Frame
<1>4. Ownership'
  <2>1. client_transactions' = client_transactions \ S
    BY DEF Drop
  <2> QED
    BY <1>2, <2>1 DEF ClientInv, Ownership, Settled, Frame
<1> QED
  BY <1>1, <1>2, <1>3, <1>4 DEF ClientInv, AtMostOneReceipt, Settled

\* A pass over the table that changes the timers of the transactions it keeps,
\* and neither their ids nor their receipts, after timing out those of A.
LEMMA PassStep ==
    ASSUME ClientInv, Frame,
           NEW A \in SUBSET client_transactions,
           NEW f \in [client_transactions \ A -> Transaction],
           \A t \in client_transactions \ A :
                f[t].message_id = t.message_id /\ f[t].cb_param = t.cb_param,
           client_transactions' = {f[t] : t \in client_transactions \ A},
           space_left' = space_left + Cardinality(A),
           told' = ToldAfter(A, {}, "TIMEOUT"),
           UNCHANGED status
    PROVE  ClientInv'
<1> DEFINE ct == client_transactions
           L  == ct \ A
<1>1. /\ IsFiniteSet(L)
      /\ Cardinality(A) \in Nat
      /\ Cardinality(L) = Cardinality(ct) - Cardinality(A)
      /\ Cardinality(ct) \in Nat
  BY CardDiff DEF ClientInv, ClientTypeOK
<1>2. \A t, u \in L : f[t] = f[u] => t = u
  BY DEF ClientInv, UniqueIds
<1>3. IsFiniteSet(ct') /\ Cardinality(ct') = Cardinality(L)
  BY <1>1, <1>2, CardImage
<1>4. SpaceAccounting' /\ space_left' \in Int
  BY <1>1, <1>3, ClientConstants DEF ClientInv, ClientTypeOK, SpaceAccounting
<1>5. ct' \subseteq Transaction
  OBVIOUS
<1>6. UniqueIds'
  BY DEF ClientInv, UniqueIds
<1>7. "TIMEOUT" \in ReceiptCode /\ {} \in SUBSET ct
  BY DEF ReceiptCode
<1>8. Settled(A, {})
  BY <1>7, ToldLemma
<1>9. ClientTypeOK'
  BY <1>3, <1>4, <1>5, <1>8 DEF ClientTypeOK, MessageId, Settled, Frame
<1>10. Ownership'
  <2>1. \A x \in ct' : \E t \in L : x = f[t] /\ x.cb_param = t.cb_param
    OBVIOUS
  <2>2. ASSUME NEW x \in ct', x.cb_param \in Requests
        PROVE  status'[x.cb_param] # "none" /\ told'[x.cb_param] = <<>>
    BY <1>8, <2>1, <2>2 DEF ClientInv, Ownership, Settled
  <2>3. ASSUME NEW x \in ct', NEW y \in ct', x.cb_param \in Requests,
               x.cb_param = y.cb_param
        PROVE  x = y
    BY <2>1, <2>3 DEF ClientInv, Ownership
  <2> QED
    BY <1>8, <2>2, <2>3 DEF Ownership, Settled
<1> QED
  BY <1>4, <1>6, <1>8, <1>9, <1>10 DEF ClientInv, AtMostOneReceipt, Settled

\* Saving a transaction under an id that is free, in a table that is not full,
\* with no receipt or with the receipt of a call that is being made.
LEMMA PutStep ==
    ASSUME ClientInv, Frame,
           NEW t \in Transaction, CanPut(t.message_id), Put(t),
           t.cb_param \in Requests =>
                status[t.cb_param] = "none" /\ status'[t.cb_param] # "none",
           told' = ToldAfter(Expired(client_transactions), {}, "TIMEOUT")
    PROVE  ClientInv'
<1> DEFINE ct == client_transactions
           E  == Expired(ct)
           L  == ct \ E
<1>1. E \in SUBSET ct
  BY DEF Expired
<1>2. /\ IsFiniteSet(L)
      /\ Cardinality(E) \in Nat
      /\ Cardinality(L) = Cardinality(ct) - Cardinality(E)
      /\ Cardinality(ct) \in Nat
      /\ Cardinality(L) \in Nat
  <2>1. IsFiniteSet(ct)
    BY DEF ClientInv, ClientTypeOK
  <2> HIDE DEF E
  <2> QED
    BY <1>1, <2>1, CardDiff
<1>3. /\ \A u \in L : u.message_id # t.message_id
      /\ space_left + Cardinality(E) # 0
      /\ ct' = L \cup {t}
      /\ space_left' = space_left + Cardinality(E) - 1
  BY DEF CanPut, Put, Live, WithId
<1>4. t \notin L
  BY <1>3
<1>5. IsFiniteSet(ct') /\ Cardinality(ct') = Cardinality(L) + 1
  <2> HIDE DEF L
  <2> QED
    BY <1>2, <1>3, <1>4, FS_AddElement
<1>6. SpaceAccounting' /\ space_left' \in Int
  <2>1. space_left \in Int /\ space_left >= 0 /\ space_left + Cardinality(ct) = NSTART
    BY DEF ClientInv, ClientTypeOK, SpaceAccounting
  <2> HIDE DEF E, L
  <2> QED
    BY <1>2, <1>3, <1>5, <2>1, ClientConstants DEF SpaceAccounting
<1>7. UniqueIds'
  BY <1>3 DEF ClientInv, UniqueIds
<1>8. Settled(E, {})
  <2>1. "TIMEOUT" \in ReceiptCode /\ {} \in SUBSET ct
    BY DEF ReceiptCode
  <2> HIDE DEF E
  <2> QED
    BY <1>1, <2>1, ToldLemma DEF E
<1>9. ClientTypeOK'
  BY <1>3, <1>5, <1>6, <1>8 DEF ClientInv, ClientTypeOK, MessageId, Settled, Frame
<1>10. Ownership'
  <2>1. ASSUME NEW u \in L, u.cb_param \in Requests
        PROVE  status'[u.cb_param] # "none" /\ told'[u.cb_param] = <<>>
    BY <1>8, <2>1 DEF ClientInv, Ownership, Settled, Frame
  <2>2. t.cb_param \in Requests =>
            status'[t.cb_param] # "none" /\ told'[t.cb_param] = <<>>
    BY <1>8 DEF Settled
  <2>3. ASSUME NEW u \in L, u.cb_param \in Requests
        PROVE  u.cb_param # t.cb_param
    BY <2>3 DEF ClientInv, Ownership
  <2>4. \A r \in Requests : status'[r] = "none" => told'[r] = <<>>
    BY <1>8 DEF Settled, Frame
  <2> QED
    BY <1>3, <2>1, <2>2, <2>3, <2>4 DEF ClientInv, Ownership
<1> QED
  BY <1>6, <1>7, <1>8, <1>9, <1>10 DEF ClientInv, AtMostOneReceipt, Settled

-----------------------------------------------------------------------------
(* The actions.                                                            *)

\* With no callbacks, told is what ToldAfter gives.
LEMMA NoCallbacks ==
    ASSUME ClientInv, NEW code
    PROVE  /\ ToldAfter({}, {}, code) = told
           /\ FreedAfter({}) = receipt
BY DEF ClientInv, ClientTypeOK, ToldAfter, FreedAfter, Params

\* Dropping nothing is doing nothing.
LEMMA DropNothing ==
    ASSUME ClientInv, UNCHANGED <<client_transactions, space_left>>
    PROVE  Drop({})
BY FS_EmptySet DEF ClientInv, ClientTypeOK, Drop

\* Freed receipts stay inside their type.
LEMMA FreedType ==
    ASSUME ClientInv, NEW S
    PROVE  FreedAfter(S) \in [Requests -> {"none", "allocated", "freed"}]
BY DEF ClientInv, ClientTypeOK, FreedAfter

\* A drawn message id is in the id space.
LEMMA DrawLemma ==
    ASSUME ClientInv, DrawMessageId
    PROVE  /\ last_message_id' \in MessageId
           /\ drawn' \in 0 .. MaxSends
           /\ NextMessageId \in MessageId
<1>1. last_message_id \in MessageId /\ drawn \in 0 .. MaxSends
  BY DEF ClientInv, ClientTypeOK
<1>2. NextMessageId \in MessageId
  BY <1>1, ClientConstants DEF MessageId, NextMessageId
<1> QED
  BY <1>1, <1>2, ClientConstants DEF DrawMessageId

\* Every action of Send keeps the invariant.
LEMMA SendStep ==
    ASSUME ClientInv, Send
    PROVE  ClientInv'
<1> DEFINE ct == client_transactions
           E  == Expired(ct)
<1>0. /\ E \in SUBSET ct
      /\ {} \in SUBSET ct
      /\ E \cup {} \subseteq E
      /\ {} \cup {} \subseteq {}
      /\ "TIMEOUT" \in ReceiptCode
      /\ status \in [Requests -> StatusCode]
      /\ receipt \in [Requests -> {"none", "allocated", "freed"}]
      /\ last_message_id \in MessageId
      /\ drawn \in 0 .. MaxSends
  BY DEF Expired, ReceiptCode, ClientInv, ClientTypeOK
<1>1. ASSUME NEW r \in Requests, NEW code \in {"ERROR", "TOO_LONG"},
             SendRejectedEarly(r, code)
      PROVE  ClientInv'
  <2>1. Frame
    BY <1>0, <1>1 DEF SendRejectedEarly, Frame, StatusCode
  <2>2. Drop({}) /\ told' = ToldAfter({}, {}, "TIMEOUT")
    BY <1>1, NoCallbacks, DropNothing DEF SendRejectedEarly
  <2> QED
    BY <1>0, <2>1, <2>2, DropStep
<1>2. ASSUME NEW r \in Requests, SendNotReady(r)
      PROVE  ClientInv'
  <2>1. Frame
    BY <1>0, <1>2, DrawLemma DEF SendNotReady, Frame, StatusCode
  <2>2. Drop({}) /\ told' = ToldAfter({}, {}, "TIMEOUT")
    BY <1>2, NoCallbacks, DropNothing DEF SendNotReady
  <2> QED
    BY <1>0, <2>1, <2>2, DropStep
<1>3. ASSUME NEW r \in Requests, SendRefused(r)
      PROVE  ClientInv'
  <2>1. Frame
    BY <1>0, <1>3, DrawLemma, FreedType DEF SendRefused, Frame, StatusCode
  <2> DEFINE S == E \cup WithId(ct, NextMessageId)
  <2>2. S \in SUBSET ct /\ E \cup {} \subseteq S
    BY <1>0 DEF WithId
  <2>3. Drop(S) /\ told' = ToldAfter(E, {}, "TIMEOUT")
    BY <1>3 DEF SendRefused, PutRefused
  <2> HIDE DEF E, S
  <2> QED
    BY <1>0, <2>1, <2>2, <2>3, DropStep
<1>4. ASSUME NEW r \in Requests, NEW j \in Jitter, NEW sent \in TxResults,
             SendReliably(r, j, sent)
      PROVE  ClientInv'
  <2>1. Frame
    BY <1>0, <1>4, DrawLemma, FreedType DEF SendReliably, Frame, StatusCode
  <2> DEFINE t == ConTransaction(NextMessageId, j, r)
  <2>2. t \in Transaction /\ t.message_id = NextMessageId /\ t.cb_param = r
    <3>1. NextMessageId \in MessageId
      BY <1>4, DrawLemma DEF SendReliably
    <3>2. ACK_TIMEOUT + j \in Nat /\ MAX_RETRANSMIT \in Nat
      BY ClientConstants
    <3> QED
      BY <3>1, <3>2 DEF ConTransaction, Transaction
  <2>3. CanPut(t.message_id) /\ Put(t)
    BY <1>4, <2>2 DEF SendReliably
  <2>4. status[r] = "none" /\ status'[r] # "none"
    BY <1>0, <1>4 DEF SendReliably
  <2>5. told' = ToldAfter(Expired(client_transactions), {}, "TIMEOUT")
    BY <1>4 DEF SendReliably
  <2> HIDE DEF t
  <2> QED
    BY <2>1, <2>2, <2>3, <2>4, <2>5, PutStep
<1>5. ASSUME NEW ivl \in NonInterval, NEW span \in NonSpan, NEW sent \in TxResults,
             SendNON(ivl, span, sent)
      PROVE  ClientInv'
  <2>1. Frame
    BY <1>0, <1>5, DrawLemma, FreedType DEF SendNON, Frame, Callbacks
  <2>2. told' = ToldAfter(E, {}, "TIMEOUT")
    BY <1>5 DEF SendNON, Callbacks
  <2>3. CASE CanPut(NextMessageId) /\ sent
    <3> DEFINE t == NonTransaction(NextMessageId, ivl, span)
    <3>1. t \in Transaction /\ t.message_id = NextMessageId /\ t.cb_param \notin Requests
      <4>1. NextMessageId \in MessageId
        BY <1>5, DrawLemma DEF SendNON
      <4>2. ivl \in Nat /\ span \div ivl \in Nat
        BY ClientConstants
      <4> QED
        BY <4>1, <4>2, ClientConstants DEF NonTransaction, Transaction
    <3>2. CanPut(t.message_id) /\ Put(t)
      BY <1>5, <2>3, <3>1 DEF SendNON
    <3> HIDE DEF t
    <3> QED
      BY <2>1, <2>2, <3>1, <3>2, PutStep
  <2>4. CASE ~ (CanPut(NextMessageId) /\ sent)
    <3> DEFINE S == E \cup WithId(ct, NextMessageId)
    <3>1. S \in SUBSET ct /\ E \cup {} \subseteq S
      BY <1>0 DEF WithId
    <3>2. Drop(S)
      BY <1>5, <2>4 DEF SendNON, PutRefused
    <3> HIDE DEF E, S
    <3> QED
      BY <1>0, <2>1, <2>2, <3>1, <3>2, DropStep
  <2> QED
    BY <2>3, <2>4
<1>6. ASSUME NEW sent \in TxResults, SendNONOnce(sent)
      PROVE  ClientInv'
  <2> DEFINE S == IF sent THEN {} ELSE WithId(ct, NextMessageId)
  <2>1. Frame
    BY <1>0, <1>6, DrawLemma DEF SendNONOnce, Frame
  <2>2. S \in SUBSET ct /\ Drop(S) /\ told' = ToldAfter({}, {}, "TIMEOUT")
    BY <1>6, NoCallbacks DEF SendNONOnce, WithId
  <2> HIDE DEF S
  <2> QED
    BY <1>0, <2>1, <2>2, DropStep
<1>7. ASSUME NEW id \in MessageId, NEW sent \in TxResults, SendReply(id, sent)
      PROVE  ClientInv'
  <2> DEFINE S == IF sent THEN {} ELSE WithId(ct, id)
  <2>1. Frame
    BY <1>0, <1>7 DEF SendReply, Frame
  <2>2. S \in SUBSET ct /\ Drop(S) /\ told' = ToldAfter({}, {}, "TIMEOUT")
    BY <1>7, NoCallbacks DEF SendReply, WithId
  <2> HIDE DEF S
  <2> QED
    BY <1>0, <2>1, <2>2, DropStep
<1> QED
  BY <1>1, <1>2, <1>3, <1>4, <1>5, <1>6, <1>7 DEF Send

\* Ending the transactions of hit with an event keeps the invariant.
LEMMA EndStep ==
    ASSUME ClientInv, NEW hit \in SUBSET client_transactions,
           NEW code \in ReceiptCode, DropWith(hit, code),
           UNCHANGED <<last_message_id, drawn, status>>
    PROVE  ClientInv'
<1> DEFINE E == Expired(client_transactions)
           S == E \cup hit
<1>1. Frame
  BY FreedType DEF ClientInv, ClientTypeOK, Frame, DropWith, Callbacks, MessageId
<1>2. E \in SUBSET client_transactions
  BY DEF Expired
<1>3. /\ S \in SUBSET client_transactions
      /\ E \cup hit \subseteq S
      /\ Drop(S)
      /\ told' = ToldAfter(E, hit, code)
  BY <1>2 DEF DropWith, Callbacks
<1> HIDE DEF E, S
<1> QED
  BY <1>1, <1>2, <1>3, DropStep

\* The passes of spin and of the clock keep the invariant.
LEMMA TriggerStep ==
    ASSUME ClientInv, TriggerClientTransactionRetransmissions
    PROVE  ClientInv'
<1> DEFINE E == Expired(client_transactions)
           f == [t \in client_transactions \ E |-> Retransmitted(t)]
<1>1. Frame
  BY FreedType DEF ClientInv, ClientTypeOK, Frame, Callbacks, MessageId,
                   TriggerClientTransactionRetransmissions
<1>2. E \in SUBSET client_transactions
  BY DEF Expired
<1>3. ASSUME NEW t \in client_transactions
      PROVE  /\ Retransmitted(t) \in Transaction
             /\ Retransmitted(t).message_id = t.message_id
             /\ Retransmitted(t).cb_param = t.cb_param
  <2>1. t \in Transaction
    BY DEF ClientInv, ClientTypeOK
  <2>2. t.left > 0 => t.left - 1 \in Nat
    BY <2>1 DEF Transaction
  <2>3. 2 * t.interval \in Nat /\ t.interval \in Nat
    BY <2>1 DEF Transaction
  <2> QED
    BY <2>1, <2>2, <2>3 DEF Retransmitted, Transaction
<1>4. /\ f \in [client_transactions \ E -> Transaction]
      /\ \A t \in client_transactions \ E :
            f[t].message_id = t.message_id /\ f[t].cb_param = t.cb_param
  BY <1>3
<1>5. /\ client_transactions' = {f[t] : t \in client_transactions \ E}
      /\ space_left' = space_left + Cardinality(E)
      /\ told' = ToldAfter(E, {}, "TIMEOUT")
      /\ UNCHANGED status
  BY DEF TriggerClientTransactionRetransmissions, Live, Callbacks
<1> HIDE DEF E, f
<1> QED
  BY <1>1, <1>2, <1>4, <1>5, PassStep

\* Time passing keeps the invariant: it changes no id, and two transactions do not
\* become one.
LEMMA TickStep ==
    ASSUME ClientInv, Tick
    PROVE  ClientInv'
<1> DEFINE f == [t \in client_transactions \ {} |-> Elapsed(t)]
<1>1. Frame
  BY DEF ClientInv, ClientTypeOK, Frame, Tick, MessageId
<1>2. ASSUME NEW t \in client_transactions
      PROVE  /\ Elapsed(t) \in Transaction
             /\ Elapsed(t).message_id = t.message_id
             /\ Elapsed(t).cb_param = t.cb_param
  <2>1. t \in Transaction
    BY DEF ClientInv, ClientTypeOK
  <2>2. t.ttl > 0 => t.ttl - 1 \in Nat
    BY <2>1 DEF Transaction
  <2> QED
    BY <2>1, <2>2 DEF Elapsed, Transaction
<1>3. /\ f \in [client_transactions \ {} -> Transaction]
      /\ \A t \in client_transactions \ {} :
            f[t].message_id = t.message_id /\ f[t].cb_param = t.cb_param
  BY <1>2
<1>4. /\ client_transactions' = {f[t] : t \in client_transactions \ {}}
      /\ UNCHANGED status
      /\ told' = ToldAfter({}, {}, "TIMEOUT")
  BY NoCallbacks DEF Tick
<1>5. space_left' = space_left + Cardinality({})
  BY FS_EmptySet DEF Tick, ClientInv, ClientTypeOK
<1>6. {} \in SUBSET client_transactions
  OBVIOUS
<1> HIDE DEF f
<1> QED
  BY <1>1, <1>3, <1>4, <1>5, <1>6, PassStep

\* Every step keeps the invariant.
LEMMA ClientInvStep ==
    ASSUME ClientInv, [Next]_clientVars
    PROVE  ClientInv'
<1>1. CASE Send
  BY <1>1, SendStep
<1>2. CASE End
  <2>1. PICK id \in MessageId : StopRetransmissions(id) \/ ReceiveACK(id) \/ ReceiveRST(id)
    BY <1>2 DEF End
  <2>2. PICK code \in ReceiptCode : EndTransaction(id, code)
    BY <2>1 DEF StopRetransmissions, ReceiveACK, ReceiveRST, ReceiptCode
  <2>3. WithId(Live(client_transactions), id) \in SUBSET client_transactions
    BY DEF WithId, Live
  <2> QED
    BY <2>2, <2>3, EndStep DEF EndTransaction
<1>3. CASE DropExpiredClientTransactions
  <2>1. "TIMEOUT" \in ReceiptCode /\ {} \in SUBSET client_transactions
    BY DEF ReceiptCode
  <2> QED
    BY <1>3, <2>1, EndStep DEF DropExpiredClientTransactions
<1>4. CASE TriggerClientTransactionRetransmissions
  BY <1>4, TriggerStep
<1>5. CASE Tick
  BY <1>5, TickStep
<1>6. CASE UNCHANGED clientVars
  BY <1>6 DEF clientVars, ClientInv, ClientTypeOK, SpaceAccounting, UniqueIds,
              Ownership, AtMostOneReceipt, MessageId
<1> QED
  BY <1>1, <1>2, <1>3, <1>4, <1>5, <1>6 DEF Next

\* The initial state satisfies the invariant.
LEMMA ClientInvInit ==
    ASSUME Init
    PROVE  ClientInv
<1>1. IsFiniteSet({}) /\ Cardinality({}) = 0
  BY FS_EmptySet
<1>2. \A r \in Requests : told[r] = <<>> /\ Len(told[r]) = 0
  BY DEF Init
<1>3. told \in [Requests -> Seq(ReceiptCode)]
  BY DEF Init
<1> QED
  BY <1>1, <1>2, <1>3, ClientConstants
  DEF Init, ClientInv, ClientTypeOK, SpaceAccounting, UniqueIds, Ownership,
      AtMostOneReceipt, StatusCode

\* The inductive invariant holds in every reachable state.
THEOREM ClientInvariant == Spec => []ClientInv
<1>1. Init => ClientInv
  BY ClientInvInit
<1>2. ClientInv /\ [Next]_clientVars => ClientInv'
  BY ClientInvStep
<1> QED
  BY <1>1, <1>2, PTL DEF Spec

\* The table of client transactions is well typed, whatever sends fail and
\* whatever answers arrive.
THEOREM ClientTyped == Spec => []ClientTypeOK
<1>1. ClientInv => ClientTypeOK
  BY DEF ClientInv
<1> QED
  BY <1>1, ClientInvariant, PTL

\* space_left and the list of client transactions always account for exactly
\* NSTART slots: no path through put, drop, expiry or a failed send leaks one.
THEOREM SlotsAccounted == Spec => []SpaceAccounting
<1>1. ClientInv => SpaceAccounting
  BY DEF ClientInv
<1> QED
  BY <1>1, ClientInvariant, PTL

\* An ACK or RST selects at most one client transaction, even when message ids
\* wrap around.
THEOREM IdsUnique == Spec => []UniqueIds
<1>1. ClientInv => UniqueIds
  BY DEF ClientInv
<1> QED
  BY <1>1, ClientInvariant, PTL

\* callback_commandReceipt runs at most once for a Command: a timeout that
\* races a late ACK, or a cancellation, never makes it run again.
THEOREM ReceiptAtMostOnce == Spec => []AtMostOneReceipt
<1>1. ClientInv => AtMostOneReceipt
  BY DEF ClientInv
<1> QED
  BY <1>1, ClientInvariant, PTL

-----------------------------------------------------------------------------
(* The promise to the application, while handleTx succeeds.  Ids may still *)
(* be used again.                                                          *)

Reliable == TxResults = {TRUE}

\* A transaction with a receipt belongs to a Command that was accepted, and its
\* receipt was not freed.
Owned ==
    \A t \in client_transactions : t.cb_param \in Requests =>
        status[t.cb_param] = "OK" /\ receipt[t.cb_param] = "allocated"

\* What every step does to the Commands: those whose call was made keep its result; the
\* receipts of S are freed; nobody else is called; and the table has
\* transactions that it had, and those of Commands that are being accepted.
Effect(S) ==
    /\ \A r \in Requests : status[r] # "none" =>
          status'[r] = status[r] /\ receipt'[r] = FreedAfter(S)[r]
    /\ \A r \in Requests : told'[r] # told[r] =>
          r \in Params(S) /\ \E code \in ReceiptCode : told'[r] = Append(told[r], code)
    /\ \A x \in client_transactions' :
          \/ \E u \in client_transactions \ S : x.cb_param = u.cb_param
          \/ x.cb_param \notin Requests
          \/ status'[x.cb_param] = "OK" /\ receipt'[x.cb_param] = "allocated"

\* Whom callback_commandReceipt calls.
LEMMA ToldEffect ==
    ASSUME ClientInv, NEW A, NEW B, NEW code \in ReceiptCode, told' = ToldAfter(A, B, code)
    PROVE  \A r \in Requests : told'[r] # told[r] =>
              /\ r \in Params(A \cup B)
              /\ \E c \in ReceiptCode : told'[r] = Append(told[r], c)
<1>1. "TIMEOUT" \in ReceiptCode
  BY DEF ReceiptCode
<1>2. \A r \in Params(A) \cup Params(B) : r \in Params(A \cup B)
  BY DEF Params
<1> QED
  BY <1>1, <1>2 DEF ToldAfter

\* A step in which some of the table is dropped, those of A and B with their callbacks.
LEMMA DropEffect ==
    ASSUME ClientInv,
           NEW A \in SUBSET client_transactions,
           NEW B \in SUBSET client_transactions,
           NEW S, A \cup B \subseteq S, Drop(S),
           NEW code \in ReceiptCode, told' = ToldAfter(A, B, code),
           \A r \in Requests : status[r] # "none" =>
               status'[r] = status[r] /\ receipt'[r] = FreedAfter(A \cup B)[r]
    PROVE  \E X \in SUBSET client_transactions : Effect(X)
<1>1. A \cup B \in SUBSET client_transactions
  OBVIOUS
<1>2. \A x \in client_transactions' : x \in client_transactions \ (A \cup B)
  BY DEF Drop
<1>3. Effect(A \cup B)
  BY <1>2, ToldEffect DEF Effect
<1> QED
  BY <1>1, <1>3

\* Every send has such an effect.
LEMMA SendEffect ==
    ASSUME Reliable, ClientInv, Send
    PROVE  \E S \in SUBSET client_transactions : Effect(S)
<1> DEFINE ct == client_transactions
           E  == Expired(ct)
<1>0. /\ E \in SUBSET ct
      /\ {} \in SUBSET ct
      /\ "TIMEOUT" \in ReceiptCode
      /\ status \in [Requests -> StatusCode]
      /\ receipt \in [Requests -> {"none", "allocated", "freed"}]
      /\ FreedAfter({}) = receipt
      /\ ToldAfter({}, {}, "TIMEOUT") = told
      /\ E \cup {} = E
  BY NoCallbacks DEF Expired, ReceiptCode, ClientInv, ClientTypeOK
<1>1. ASSUME NEW r \in Requests, NEW code \in {"ERROR", "TOO_LONG"},
             SendRejectedEarly(r, code)
      PROVE  \E S \in SUBSET ct : Effect(S)
  <2>1. Drop({}) /\ told' = ToldAfter({}, {}, "TIMEOUT")
    BY <1>0, <1>1, DropNothing DEF SendRejectedEarly
  <2>2. \A q \in Requests : status[q] # "none" =>
           status'[q] = status[q] /\ receipt'[q] = FreedAfter({} \cup {})[q]
    BY <1>0, <1>1 DEF SendRejectedEarly
  <2> QED
    BY <1>0, <2>1, <2>2, DropEffect
<1>2. ASSUME NEW r \in Requests, SendNotReady(r)
      PROVE  \E S \in SUBSET ct : Effect(S)
  <2>1. Drop({}) /\ told' = ToldAfter({}, {}, "TIMEOUT")
    BY <1>0, <1>2, DropNothing DEF SendNotReady
  <2>2. \A q \in Requests : status[q] # "none" =>
           status'[q] = status[q] /\ receipt'[q] = FreedAfter({} \cup {})[q]
    BY <1>0, <1>2 DEF SendNotReady
  <2> QED
    BY <1>0, <2>1, <2>2, DropEffect
<1>3. ASSUME NEW r \in Requests, SendRefused(r)
      PROVE  \E S \in SUBSET ct : Effect(S)
  <2> DEFINE S == E \cup WithId(ct, NextMessageId)
  <2>1. E \cup {} \subseteq S /\ Drop(S) /\ told' = ToldAfter(E, {}, "TIMEOUT")
    BY <1>3 DEF SendRefused, PutRefused
  <2>2. \A q \in Requests : status[q] # "none" =>
           status'[q] = status[q] /\ receipt'[q] = FreedAfter(E \cup {})[q]
    BY <1>0, <1>3 DEF SendRefused, FreedAfter
  <2> HIDE DEF E, S
  <2> QED
    BY <1>0, <2>1, <2>2, DropEffect
<1>4. ASSUME NEW r \in Requests, NEW j \in Jitter, NEW sent \in TxResults,
             SendReliably(r, j, sent)
      PROVE  \E S \in SUBSET ct : Effect(S)
  <2>1. sent = TRUE
    BY DEF Reliable
  <2> DEFINE t == ConTransaction(NextMessageId, j, r)
  <2>2. ct' = (ct \ E) \cup {t} /\ t.cb_param = r
    BY <1>4 DEF SendReliably, Put, Live, ConTransaction
  <2>3. \A q \in Requests : status[q] # "none" =>
           status'[q] = status[q] /\ receipt'[q] = FreedAfter(E)[q]
    BY <1>0, <1>4 DEF SendReliably, FreedAfter
  <2>4. status'[r] = "OK" /\ receipt'[r] = "allocated"
    BY <1>0, <1>4, <2>1 DEF SendReliably, FreedAfter
  <2>5. told' = ToldAfter(E, {}, "TIMEOUT")
    BY <1>4 DEF SendReliably
  <2>6. \A q \in Requests : told'[q] # told[q] =>
           q \in Params(E \cup {}) /\ \E c \in ReceiptCode : told'[q] = Append(told[q], c)
    <3> HIDE DEF E
    <3> QED BY <1>0, <2>5, ToldEffect
  <2>7. \A x \in ct' : (\E u \in ct \ E : x.cb_param = u.cb_param) \/ x.cb_param = r
    <3> HIDE DEF E, t
    <3> QED BY <2>2
  <2> HIDE DEF E, t
  <2>8. Effect(E)
    BY <1>0, <2>3, <2>4, <2>6, <2>7 DEF Effect
  <2> QED
    BY <1>0, <2>8
<1>5. ASSUME NEW ivl \in NonInterval, NEW span \in NonSpan, NEW sent \in TxResults,
             SendNON(ivl, span, sent)
      PROVE  \E S \in SUBSET ct : Effect(S)
  <2>1. /\ told' = ToldAfter(E, {}, "TIMEOUT") /\ receipt' = FreedAfter(E \cup {})
        /\ status' = status
    BY <1>5 DEF SendNON, Callbacks
  <2>2. CASE CanPut(NextMessageId) /\ sent
    <3> DEFINE t == NonTransaction(NextMessageId, ivl, span)
    <3>1. ct' = (ct \ E) \cup {t} /\ t.cb_param \notin Requests
      BY <1>5, <2>2, ClientConstants DEF SendNON, Put, Live, NonTransaction
    <3> HIDE DEF E, t
    <3>2. \A q \in Requests : told'[q] # told[q] =>
             q \in Params(E \cup {}) /\ \E c \in ReceiptCode : told'[q] = Append(told[q], c)
      BY <1>0, <2>1, ToldEffect
    <3>3. Effect(E)
      BY <1>0, <2>1, <3>1, <3>2 DEF Effect
    <3> QED
      BY <1>0, <3>3
  <2>3. CASE ~ (CanPut(NextMessageId) /\ sent)
    <3> DEFINE S == E \cup WithId(ct, NextMessageId)
    <3>1. E \cup {} \subseteq S /\ Drop(S)
      BY <1>5, <2>3 DEF SendNON, PutRefused
    <3> HIDE DEF E, S
    <3> QED
      BY <1>0, <2>1, <3>1, DropEffect
  <2> QED
    BY <2>2, <2>3
<1>6. ASSUME NEW sent \in TxResults, SendNONOnce(sent)
      PROVE  \E S \in SUBSET ct : Effect(S)
  <2>1. Drop({}) /\ told' = ToldAfter({}, {}, "TIMEOUT")
    BY <1>0, <1>6 DEF SendNONOnce, Reliable
  <2>2. status' = status /\ receipt' = FreedAfter({} \cup {})
    BY <1>0, <1>6 DEF SendNONOnce
  <2> QED
    BY <1>0, <2>1, <2>2, DropEffect
<1>7. ASSUME NEW id \in MessageId, NEW sent \in TxResults, SendReply(id, sent)
      PROVE  \E S \in SUBSET ct : Effect(S)
  <2>1. Drop({}) /\ told' = ToldAfter({}, {}, "TIMEOUT")
    BY <1>0, <1>7 DEF SendReply, Reliable
  <2>2. status' = status /\ receipt' = FreedAfter({} \cup {})
    BY <1>0, <1>7 DEF SendReply
  <2> QED
    BY <1>0, <2>1, <2>2, DropEffect
<1> QED
  BY <1>1, <1>2, <1>3, <1>4, <1>5, <1>6, <1>7 DEF Send

\* Every step has such an effect.
LEMMA StepEffect ==
    ASSUME Reliable, ClientInv, [Next]_clientVars
    PROVE  \E S \in SUBSET client_transactions : Effect(S)
<1> DEFINE ct == client_transactions
           E  == Expired(ct)
<1>0. /\ E \in SUBSET ct
      /\ {} \in SUBSET ct
      /\ "TIMEOUT" \in ReceiptCode
      /\ FreedAfter({}) = receipt
      /\ ToldAfter({}, {}, "TIMEOUT") = told
  BY NoCallbacks DEF Expired, ReceiptCode
<1>1. ASSUME NEW hit \in SUBSET ct, NEW code \in ReceiptCode, DropWith(hit, code),
             status' = status
      PROVE  \E S \in SUBSET ct : Effect(S)
  <2>1. /\ Drop(E \cup hit)
        /\ told' = ToldAfter(E, hit, code)
        /\ receipt' = FreedAfter(E \cup hit)
    BY <1>1 DEF DropWith, Callbacks
  <2> HIDE DEF E
  <2> QED
    BY <1>0, <1>1, <2>1, DropEffect
<1>2. ASSUME NEW S \in SUBSET ct, told' = ToldAfter(S, {}, "TIMEOUT"),
             receipt' = FreedAfter(S), status' = status,
             \A x \in ct' : \E u \in ct \ S : x.cb_param = u.cb_param
      PROVE  Effect(S)
  <2>1. S \cup {} = S
    OBVIOUS
  <2>2. \A r \in Requests : told'[r] # told[r] =>
           r \in Params(S) /\ \E c \in ReceiptCode : told'[r] = Append(told[r], c)
    BY <1>0, <1>2, <2>1, ToldEffect
  <2> QED
    BY <1>2, <2>2 DEF Effect
<1>3. CASE Send
  BY <1>3, SendEffect
<1>4. CASE End
  <2>1. PICK id \in MessageId : StopRetransmissions(id) \/ ReceiveACK(id) \/ ReceiveRST(id)
    BY <1>4 DEF End
  <2>2. PICK code \in ReceiptCode : EndTransaction(id, code)
    BY <2>1 DEF StopRetransmissions, ReceiveACK, ReceiveRST, ReceiptCode
  <2>3. WithId(Live(ct), id) \in SUBSET ct
    BY DEF WithId, Live
  <2> QED
    BY <1>1, <2>2, <2>3 DEF EndTransaction
<1>5. CASE DropExpiredClientTransactions
  BY <1>0, <1>1, <1>5 DEF DropExpiredClientTransactions
<1>6. CASE TriggerClientTransactionRetransmissions
  <2>1. \A t \in ct : Retransmitted(t).cb_param = t.cb_param
    BY DEF Retransmitted, ClientInv, ClientTypeOK, Transaction
  <2>2. \A x \in ct' : \E u \in ct \ E : x.cb_param = u.cb_param
    <3>1. ct' = {Retransmitted(t) : t \in ct \ E}
      BY <1>6 DEF TriggerClientTransactionRetransmissions, Live
    <3> HIDE DEF E
    <3> QED BY <1>0, <2>1, <3>1
  <2>3. /\ told' = ToldAfter(E, {}, "TIMEOUT")
        /\ receipt' = FreedAfter(E)
        /\ status' = status
    <3>1. E \cup {} = E
      OBVIOUS
    <3> QED
      BY <1>6, <3>1 DEF TriggerClientTransactionRetransmissions, Callbacks
  <2> HIDE DEF E
  <2> QED
    BY <1>0, <1>2, <2>2, <2>3
<1>7. CASE Tick
  <2>1. \A t \in ct : Elapsed(t).cb_param = t.cb_param
    BY DEF Elapsed, ClientInv, ClientTypeOK, Transaction
  <2>2. \A x \in ct' : \E u \in ct \ {} : x.cb_param = u.cb_param
    BY <1>7, <2>1 DEF Tick
  <2>3. told' = told /\ receipt' = receipt /\ status' = status
    BY <1>7 DEF Tick
  <2> QED
    BY <1>0, <1>2, <2>2, <2>3
<1>8. CASE UNCHANGED clientVars
  BY <1>0, <1>2, <1>8 DEF clientVars
<1> QED
  BY <1>3, <1>4, <1>5, <1>6, <1>7, <1>8 DEF Next

\* The transactions keep owning their receipts: the one whose receipt is freed
\* leaves, and no other has that receipt.
LEMMA OwnedStep ==
    ASSUME Reliable, ClientInv, Owned, [Next]_clientVars
    PROVE  Owned'
<1>1. PICK S \in SUBSET client_transactions : Effect(S)
  BY StepEffect
<1>2. ASSUME NEW u \in client_transactions \ S, u.cb_param \in Requests
      PROVE  /\ status[u.cb_param] = "OK"
             /\ receipt[u.cb_param] = "allocated"
             /\ u.cb_param \notin Params(S)
  BY <1>2 DEF Owned, ClientInv, Ownership, Params
<1>3. ASSUME NEW x \in client_transactions', x.cb_param \in Requests
      PROVE  status'[x.cb_param] = "OK" /\ receipt'[x.cb_param] = "allocated"
  <2>1. CASE \E u \in client_transactions \ S : x.cb_param = u.cb_param
    BY <1>1, <1>2, <1>3, <2>1 DEF Effect, FreedAfter
  <2> QED
    BY <1>1, <1>3, <2>1 DEF Effect
<1> QED
  BY <1>3 DEF Owned

\* While handleTx succeeds, a callback never runs on a receipt that was freed.
THEOREM ReceiptsAlive ==
    ASSUME Reliable
    PROVE  Spec => []NoDanglingReceipt
<1>1. Init => ClientInv /\ Owned
  BY ClientInvInit DEF Init, Owned
<1>2. (ClientInv /\ Owned) /\ [Next]_clientVars => (ClientInv /\ Owned)'
  BY ClientInvStep, OwnedStep
<1>3. ClientInv /\ Owned => NoDanglingReceipt
  BY DEF Owned, NoDanglingReceipt, Params
<1> QED
  BY <1>1, <1>2, <1>3, PTL DEF Spec

\* The initial state is one where every Command is idle.
LEMMA PromiseInit ==
    ASSUME Init
    PROVE  Promise!Init
BY DEF Init, Promise!Init, PhaseOf

\* What a step does to the phase of one Command.
LEMMA PhaseStep ==
    ASSUME Reliable, ClientInv, Owned, ClientInv', [Next]_clientVars,
           NEW r \in Requests
    PROVE  \/ PhaseOf(r)' = PhaseOf(r)
           \/ PhaseOf(r) = "idle" /\ PhaseOf(r)' \in {"refused", "pending"}
           \/ PhaseOf(r) = "pending" /\ PhaseOf(r)' \in ReceiptCode
<1>1. PICK S \in SUBSET client_transactions : Effect(S)
  BY StepEffect
<1>2. /\ status[r] \in StatusCode /\ status'[r] \in StatusCode
      /\ told[r] \in Seq(ReceiptCode) /\ told'[r] \in Seq(ReceiptCode)
      /\ status[r] = "none" => told[r] = <<>>
      /\ status'[r] = "none" => told'[r] = <<>>
  BY DEF ClientInv, ClientTypeOK, Ownership
<1>3. CASE told'[r] # told[r]
  <2>1. PICK t \in S : t.cb_param = r
    BY <1>1, <1>3 DEF Effect, Params
  <2>2. status[r] = "OK" /\ told[r] = <<>>
    BY <2>1 DEF Owned, ClientInv, Ownership
  <2>3. PICK code \in ReceiptCode : told'[r] = Append(told[r], code)
    BY <1>1, <1>3 DEF Effect
  <2>4. told'[r] # <<>> /\ told'[r][Len(told'[r])] = code
    BY <2>2, <2>3
  <2>5. PhaseOf(r) = "pending"
    BY <2>2 DEF PhaseOf
  <2>6. PhaseOf(r)' = code
    BY <2>4 DEF PhaseOf
  <2> QED
    BY <2>5, <2>6
<1>4. CASE told'[r] = told[r]
  <2>1. CASE status[r] # "none"
    <3>1. status'[r] = status[r]
      BY <1>1, <2>1 DEF Effect
    <3> QED
      BY <1>4, <3>1 DEF PhaseOf
  <2>2. CASE status[r] = "none"
    <3>1. told[r] = <<>> /\ told'[r] = <<>>
      BY <1>2, <1>4, <2>2
    <3>2. PhaseOf(r) = "idle"
      BY <2>2, <3>1 DEF PhaseOf
    <3>3. PhaseOf(r)' \in {"idle", "refused", "pending"}
      BY <3>1 DEF PhaseOf
    <3> QED
      BY <3>2, <3>3
  <2> QED
    BY <2>1, <2>2
<1> QED
  BY <1>3, <1>4

\* While handleTx succeeds, the table keeps the promise of ReliableDelivery, even
\* when ids are used again: a Command is refused, and nothing more is heard of
\* it, or it is accepted, and then at most one receipt code follows.
THEOREM PromiseKept ==
    ASSUME Reliable
    PROVE  Spec => KeepsPromise
<1>1. Init => ClientInv /\ Owned /\ Promise!Init
  BY ClientInvInit, PromiseInit DEF Init, Owned
<1>2. (ClientInv /\ Owned) /\ [Next]_clientVars =>
         (ClientInv /\ Owned)' /\ [Promise!Next]_[r \in Requests |-> PhaseOf(r)]
  <2> SUFFICES ASSUME ClientInv, Owned, [Next]_clientVars
               PROVE  (ClientInv /\ Owned)' /\ Promise!Next
    OBVIOUS
  <2>1. ClientInv' /\ Owned'
    BY ClientInvStep, OwnedStep
  <2>2. ASSUME NEW r \in Requests
        PROVE  Promise!Move(PhaseOf(r), PhaseOf(r)')
    BY <2>1, PhaseStep DEF Promise!Move, Promise!Receipt, ReceiptCode
  <2>3. ASSUME NEW r \in Requests
        PROVE  PhaseOf(r)' \in Promise!Phase
    <3>1. /\ status'[r] \in StatusCode
          /\ told'[r] \in Seq(ReceiptCode)
      BY <2>1 DEF ClientInv, ClientTypeOK
    <3>2. told'[r] # <<>> => told'[r][Len(told'[r])] \in ReceiptCode
      BY <3>1
    <3> QED
      BY <3>1, <3>2 DEF PhaseOf, Promise!Phase, Promise!Receipt, ReceiptCode, StatusCode
  <2>4. [r \in Requests |-> PhaseOf(r)]' = [r \in Requests |-> PhaseOf(r)']
    OBVIOUS
  <2>5. [r \in Requests |-> PhaseOf(r)]' \in [Requests -> Promise!Phase]
    BY <2>3, <2>4
  <2>6. \A r \in Requests : Promise!Move([q \in Requests |-> PhaseOf(q)][r],
                                         [q \in Requests |-> PhaseOf(q)]'[r])
    BY <2>2, <2>4
  <2> QED
    BY <2>1, <2>5, <2>6 DEF Promise!Next
<1> QED
  BY <1>1, <1>2, PTL DEF Spec, KeepsPromise, Promise!SafeSpec

-----------------------------------------------------------------------------
(* What the application is owed, while handleTx succeeds and no id comes   *)
(* round to a transaction that is still in the table.                      *)

\* A message id that is drawn is not that of a transaction that waits.  (If it is,
\* the refused send drops that transaction without a callback.)
NotLapped ==
    DrawMessageId => WithId(Live(client_transactions), NextMessageId) = {}

\* A step that settles the transactions of S settles nothing else: the others stay,
\* those of S are heard of and their receipts freed, and a Command that is accepted
\* has its transaction.
Complete(S) ==
    /\ \A u \in client_transactions \ S :
          \E x \in client_transactions' : x.cb_param = u.cb_param
    /\ \A r \in Params(S) : told'[r] # <<>>
    /\ \A r \in Requests : told'[r] = <<>> => told[r] = <<>>
    /\ \A r \in Requests : status[r] # "none" =>
          status'[r] = status[r] /\ receipt'[r] = FreedAfter(S)[r]
    /\ \A r \in Requests :
          status[r] = "none" /\ (status'[r] = "OK" \/ receipt'[r] = "allocated") =>
              \E x \in client_transactions' : x.cb_param = r

\* Everyone in Params is called.
LEMMA ToldComplete ==
    ASSUME ClientInv, NEW A, NEW B, NEW code, told' = ToldAfter(A, B, code)
    PROVE  /\ \A r \in Params(A \cup B) : told'[r] # <<>>
           /\ \A r \in Requests : told'[r] = <<>> => told[r] = <<>>
<1>1. \A r \in Requests : told[r] \in Seq(ReceiptCode)
  BY DEF ClientInv, ClientTypeOK
<1>2. ASSUME NEW r \in Requests, NEW c PROVE Append(told[r], c) # <<>>
  BY <1>1, <1>2
<1>3. \A r \in Params(A \cup B) : r \in Requests /\ (r \in Params(A) \/ r \in Params(B))
  BY DEF Params
<1>4. ASSUME NEW r \in Requests
      PROVE  /\ r \in Params(A) \/ r \in Params(B) => told'[r] # <<>>
             /\ told'[r] = <<>> => told[r] = <<>>
  <2>1. CASE r \in Params(A) \/ r \in Params(B)
    BY <1>2, <2>1 DEF ToldAfter
  <2>2. CASE ~ (r \in Params(A) \/ r \in Params(B))
    BY <2>2 DEF ToldAfter
  <2> QED
    BY <2>1, <2>2
<1> QED
  BY <1>3, <1>4

\* What any of them leaves when it settles those of A and B and keeps the others.
LEMMA SettleStep ==
    ASSUME ClientInv, NEW A, NEW B, NEW code, told' = ToldAfter(A, B, code),
           \A u \in client_transactions \ (A \cup B) :
               \E x \in client_transactions' : x.cb_param = u.cb_param,
           \A r \in Requests : status[r] # "none" =>
               status'[r] = status[r] /\ receipt'[r] = FreedAfter(A \cup B)[r],
           \A r \in Requests :
               status[r] = "none" /\ (status'[r] = "OK" \/ receipt'[r] = "allocated") =>
                   \E x \in client_transactions' : x.cb_param = r
    PROVE  \E S : Complete(S)
<1>1. Complete(A \cup B)
  BY ToldComplete DEF Complete
<1> QED
  BY <1>1

\* The receipt of a Command that was not sent yet is not allocated.
LEMMA FreshReceipt ==
    ASSUME ClientInv, NoReceiptLeak, NEW r \in Requests, status[r] = "none", NEW S
    PROVE  receipt[r] # "allocated" /\ FreedAfter(S)[r] # "allocated"
<1>1. receipt[r] # "allocated"
  BY DEF NoReceiptLeak, Params, ClientInv, Ownership
<1> QED
  BY <1>1 DEF FreedAfter

\* Every send settles like this.
LEMMA SendComplete ==
    ASSUME Reliable, ClientInv, NoReceiptLeak, NotLapped, Send
    PROVE  \E S : Complete(S)
<1> DEFINE ct == client_transactions
           E  == Expired(ct)
<1>0. /\ status \in [Requests -> StatusCode]
      /\ receipt \in [Requests -> {"none", "allocated", "freed"}]
      /\ FreedAfter({}) = receipt
      /\ ToldAfter({}, {}, "TIMEOUT") = told
      /\ E \cup {} = E /\ {} \cup {} = {}
      /\ E \in SUBSET ct
  BY NoCallbacks DEF ClientInv, ClientTypeOK, Expired
<1>1. ASSUME ct' = ct, told' = told,
             \A r \in Requests : status[r] # "none" =>
                 status'[r] = status[r] /\ receipt'[r] = receipt[r],
             \A r \in Requests : status[r] = "none" =>
                 status'[r] # "OK" /\ receipt'[r] # "allocated"
      PROVE  \E S : Complete(S)
  BY <1>0, <1>1, SettleStep
\* A refused put drops the expired transactions and no other.
<1>2. ASSUME DrawMessageId, PutRefused(NextMessageId)
      PROVE  ct' = ct \ E
  <2>1. WithId(ct, NextMessageId) \subseteq E
    BY <1>2 DEF NotLapped, WithId, Live
  <2>2. ct' = ct \ (E \cup WithId(ct, NextMessageId))
    BY <1>2 DEF PutRefused, Drop
  <2> QED
    BY <2>1, <2>2
<1>3. ASSUME NEW r \in Requests, NEW code \in {"ERROR", "TOO_LONG"},
             SendRejectedEarly(r, code)
      PROVE  \E S : Complete(S)
  BY <1>0, <1>1, <1>3, FreshReceipt DEF SendRejectedEarly
<1>4. ASSUME NEW r \in Requests, SendNotReady(r)
      PROVE  \E S : Complete(S)
  BY <1>0, <1>1, <1>4, FreshReceipt DEF SendNotReady
<1>5. ASSUME NEW r \in Requests, SendRefused(r)
      PROVE  \E S : Complete(S)
  <2>1. ct' = ct \ E
    BY <1>2, <1>5 DEF SendRefused
  <2>2. told' = ToldAfter(E, {}, "TIMEOUT")
    BY <1>5 DEF SendRefused
  <2>3. \A q \in Requests : status[q] # "none" =>
           status'[q] = status[q] /\ receipt'[q] = FreedAfter(E \cup {})[q]
    BY <1>0, <1>5 DEF SendRefused, FreedAfter
  <2>4. \A q \in Requests : status[q] = "none" =>
           status'[q] # "OK" /\ receipt'[q] # "allocated"
    <3> SUFFICES ASSUME NEW q \in Requests, status[q] = "none"
                 PROVE  status'[q] # "OK" /\ receipt'[q] # "allocated"
      OBVIOUS
    <3>1. FreedAfter(E) \in [Requests -> {"none", "allocated", "freed"}]
      BY FreedType
    <3>2. FreedAfter(E)[q] # "allocated"
      BY FreshReceipt
    <3>3. /\ status' = [status EXCEPT ![r] = "ERROR"]
          /\ receipt' = [FreedAfter(E) EXCEPT ![r] = "freed"]
      BY <1>5 DEF SendRefused
    <3> HIDE DEF E
    <3> QED
      BY <1>0, <3>1, <3>2, <3>3
  <2> HIDE DEF E
  <2> QED
    BY <2>1, <2>2, <2>3, <2>4, SettleStep
<1>6. ASSUME NEW r \in Requests, NEW j \in Jitter, NEW sent \in TxResults,
             SendReliably(r, j, sent)
      PROVE  \E S : Complete(S)
  <2> DEFINE t == ConTransaction(NextMessageId, j, r)
  <2>1. ct' = (ct \ E) \cup {t} /\ t.cb_param = r
    BY <1>6 DEF SendReliably, Put, Live, ConTransaction
  <2>2. told' = ToldAfter(E, {}, "TIMEOUT")
    BY <1>6 DEF SendReliably
  <2>3. \A q \in Requests : status[q] # "none" =>
           status'[q] = status[q] /\ receipt'[q] = FreedAfter(E \cup {})[q]
    BY <1>0, <1>6 DEF SendReliably, FreedAfter
  <2>4. \A q \in Requests : status[q] = "none" /\ q # r =>
           status'[q] # "OK" /\ receipt'[q] # "allocated"
    <3> SUFFICES ASSUME NEW q \in Requests, status[q] = "none", q # r
                 PROVE  status'[q] # "OK" /\ receipt'[q] # "allocated"
      OBVIOUS
    <3>1. FreedAfter(E) \in [Requests -> {"none", "allocated", "freed"}]
      BY FreedType
    <3>2. FreedAfter(E)[q] # "allocated"
      BY FreshReceipt
    <3>3. /\ status'[q] = status[q]
          /\ receipt'[q] = FreedAfter(E)[q]
      BY <1>0, <1>6, <3>1 DEF SendReliably
    <3> QED
      BY <3>2, <3>3
  <2> HIDE DEF E, t
  <2>5. \A u \in ct \ (E \cup {}) : \E x \in ct' : x.cb_param = u.cb_param
    BY <2>1
  <2>6. \A q \in Requests :
           status[q] = "none" /\ (status'[q] = "OK" \/ receipt'[q] = "allocated") =>
               \E x \in ct' : x.cb_param = q
    BY <2>1, <2>4
  <2> QED
    BY <2>2, <2>3, <2>5, <2>6, SettleStep
<1>7. ASSUME NEW ivl \in NonInterval, NEW span \in NonSpan, NEW sent \in TxResults,
             SendNON(ivl, span, sent)
      PROVE  \E S : Complete(S)
  <2>1. /\ told' = ToldAfter(E, {}, "TIMEOUT") /\ receipt' = FreedAfter(E \cup {})
        /\ status' = status
    BY <1>7 DEF SendNON, Callbacks
  <2>2. ct \ E \subseteq ct'
    <3>1. CASE CanPut(NextMessageId) /\ sent
      BY <1>7, <3>1 DEF SendNON, Put, Live
    <3>2. CASE ~ (CanPut(NextMessageId) /\ sent)
      BY <1>2, <1>7, <3>2 DEF SendNON
    <3> QED
      BY <3>1, <3>2
  <2>3. \A q \in Requests : status[q] = "none" =>
           status'[q] # "OK" /\ receipt'[q] # "allocated"
    BY <2>1, FreshReceipt
  <2> HIDE DEF E
  <2> QED
    BY <2>1, <2>2, <2>3, SettleStep
<1>8. ASSUME NEW sent \in TxResults, SendNONOnce(sent)
      PROVE  \E S : Complete(S)
  <2>1. ct' = ct /\ told' = told /\ status' = status /\ receipt' = receipt
    BY <1>8 DEF SendNONOnce, Drop, Reliable
  <2> QED
    BY <1>1, <2>1, FreshReceipt
<1>9. ASSUME NEW id \in MessageId, NEW sent \in TxResults, SendReply(id, sent)
      PROVE  \E S : Complete(S)
  <2>1. ct' = ct /\ told' = told /\ status' = status /\ receipt' = receipt
    BY <1>9 DEF SendReply, Drop, Reliable
  <2> QED
    BY <1>1, <2>1, FreshReceipt
<1> QED
  BY <1>3, <1>4, <1>5, <1>6, <1>7, <1>8, <1>9 DEF Send

\* Every step settles like this.
LEMMA StepComplete ==
    ASSUME Reliable, ClientInv, NoReceiptLeak, NotLapped, [Next]_clientVars
    PROVE  \E S : Complete(S)
<1> DEFINE ct == client_transactions
           E  == Expired(ct)
<1>1. ASSUME NEW A, NEW B, NEW code, told' = ToldAfter(A, B, code),
             receipt' = FreedAfter(A \cup B), status' = status,
             \A u \in ct \ (A \cup B) : \E x \in ct' : x.cb_param = u.cb_param
      PROVE  \E S : Complete(S)
  <2>1. \A r \in Requests : status[r] = "none" =>
           status'[r] # "OK" /\ receipt'[r] # "allocated"
    BY <1>1, FreshReceipt
  <2> QED
    BY <1>1, <2>1, SettleStep
<1>2. ASSUME NEW hit, NEW code, DropWith(hit, code), status' = status
      PROVE  \E S : Complete(S)
  <2>1. /\ ct' = ct \ (E \cup hit)
        /\ told' = ToldAfter(E, hit, code)
        /\ receipt' = FreedAfter(E \cup hit)
    BY <1>2 DEF DropWith, Drop, Callbacks
  <2> HIDE DEF E
  <2> QED
    BY <1>1, <1>2, <2>1
<1>3. CASE Send
  BY <1>3, SendComplete
<1>4. CASE End
  <2>1. PICK id \in MessageId : StopRetransmissions(id) \/ ReceiveACK(id) \/ ReceiveRST(id)
    BY <1>4 DEF End
  <2>2. PICK code \in ReceiptCode : EndTransaction(id, code)
    BY <2>1 DEF StopRetransmissions, ReceiveACK, ReceiveRST, ReceiptCode
  <2> QED
    BY <1>2, <2>2 DEF EndTransaction
<1>5. CASE DropExpiredClientTransactions
  BY <1>2, <1>5 DEF DropExpiredClientTransactions
<1>6. CASE TriggerClientTransactionRetransmissions
  <2>1. \A t \in ct : Retransmitted(t).cb_param = t.cb_param
    BY DEF Retransmitted, ClientInv, ClientTypeOK, Transaction
  <2>2. /\ ct' = {Retransmitted(t) : t \in ct \ E}
        /\ told' = ToldAfter(E, {}, "TIMEOUT")
        /\ receipt' = FreedAfter(E \cup {}) /\ status' = status
    BY <1>6 DEF TriggerClientTransactionRetransmissions, Live, Callbacks
  <2> HIDE DEF E
  <2>3. \A u \in ct \ (E \cup {}) : \E x \in ct' : x.cb_param = u.cb_param
    BY <2>1, <2>2
  <2> QED
    BY <1>1, <2>2, <2>3
<1>7. CASE ct' = {Elapsed(t) : t \in ct} /\ UNCHANGED <<status, receipt, told>>
  <2>1. \A t \in ct : Elapsed(t).cb_param = t.cb_param
    BY DEF Elapsed, ClientInv, ClientTypeOK, Transaction
  <2>2. \A u \in ct \ ({} \cup {}) : \E x \in ct' : x.cb_param = u.cb_param
    BY <1>7, <2>1
  <2>3. told' = ToldAfter({}, {}, "TIMEOUT") /\ receipt' = FreedAfter({} \cup {})
    BY <1>7, NoCallbacks
  <2> QED
    BY <1>1, <1>7, <2>2, <2>3
<1>8. CASE UNCHANGED clientVars
  <2>1. told' = ToldAfter({}, {}, "TIMEOUT") /\ receipt' = FreedAfter({} \cup {})
    BY <1>8, NoCallbacks DEF clientVars
  <2>2. ct' = ct /\ status' = status
    BY <1>8 DEF clientVars
  <2> QED
    BY <1>1, <2>1, <2>2
<1> QED
  BY <1>3, <1>4, <1>5, <1>6, <1>7, <1>8 DEF Next, Tick

\* No Command is lost in silence and no receipt leaks, step by step.
LEMMA OwedStep ==
    ASSUME Reliable, ClientInv, NoSilentLoss, NoReceiptLeak, NotLapped, [Next]_clientVars
    PROVE  NoSilentLoss' /\ NoReceiptLeak'
<1>1. PICK S : Complete(S)
  BY StepComplete
<1>2. ASSUME NEW r \in Params(client_transactions), r \notin Params(S)
      PROVE  \E x \in client_transactions' : x.cb_param = r
  <2>1. PICK u \in client_transactions : u.cb_param = r /\ r \in Requests
    BY DEF Params
  <2>2. u \notin S
    BY <1>2, <2>1 DEF Params
  <2> QED
    BY <1>1, <2>1, <2>2 DEF Complete
<1>3. ASSUME NEW r \in Requests, status'[r] = "OK", told'[r] = <<>>
      PROVE  \E x \in client_transactions' : x.cb_param = r
  <2>1. CASE status[r] = "none"
    BY <1>1, <1>3, <2>1 DEF Complete
  <2>2. CASE status[r] # "none"
    <3>1. status[r] = "OK" /\ told[r] = <<>> /\ r \notin Params(S)
      BY <1>1, <1>3, <2>2 DEF Complete
    <3> QED
      BY <1>2, <3>1 DEF NoSilentLoss
  <2> QED
    BY <2>1, <2>2
<1>4. ASSUME NEW r \in Requests, receipt'[r] = "allocated"
      PROVE  \E x \in client_transactions' : x.cb_param = r
  <2>1. CASE status[r] = "none"
    BY <1>1, <1>4, <2>1 DEF Complete
  <2>2. CASE status[r] # "none"
    <3>1. receipt[r] = "allocated" /\ r \notin Params(S)
      BY <1>1, <1>4, <2>2 DEF Complete, FreedAfter
    <3> QED
      BY <1>2, <3>1 DEF NoReceiptLeak
  <2> QED
    BY <2>1, <2>2
<1>5. \A r \in Requests : (\E x \in client_transactions' : x.cb_param = r) =>
         r \in Params(client_transactions')
  BY DEF Params
<1> QED
  BY <1>3, <1>4, <1>5 DEF NoSilentLoss, NoReceiptLeak, Params

\* While handleTx succeeds and no id laps the table, every accepted Command is in
\* the table until its application was called, every receipt is in the table until
\* it is freed, and no transaction is called back with a freed one.
THEOREM ReceiptsSettle ==
    ASSUME Reliable
    PROVE  Spec /\ [][NotLapped]_clientVars => []ReceiptsSettled
<1> DEFINE Inv == ClientInv /\ Owned /\ NoSilentLoss /\ NoReceiptLeak
<1>1. Init => Inv
  <2>1. Init => ClientInv /\ Owned
    BY ClientInvInit DEF Init, Owned
  <2>2. Init => NoSilentLoss /\ NoReceiptLeak
    BY DEF Init, NoSilentLoss, NoReceiptLeak
  <2> QED
    BY <2>1, <2>2
<1>2. Inv /\ [Next]_clientVars /\ [NotLapped]_clientVars => Inv'
  <2> SUFFICES ASSUME Inv, [Next]_clientVars, [NotLapped]_clientVars
               PROVE  Inv'
    OBVIOUS
  <2>1. ClientInv' /\ Owned'
    BY ClientInvStep, OwnedStep
  <2>2. NotLapped \/ UNCHANGED clientVars
    OBVIOUS
  <2>3. CASE NotLapped
    BY <2>1, <2>3, OwedStep
  <2>4. CASE UNCHANGED clientVars
    BY <2>1, <2>4 DEF clientVars, NoSilentLoss, NoReceiptLeak, Params
  <2> QED
    BY <2>2, <2>3, <2>4
<1>3. Inv => ReceiptsSettled
  BY DEF ClientInv, Owned, NoDanglingReceipt, Params, ReceiptsSettled
<1> QED
  BY <1>1, <1>2, <1>3, PTL DEF Spec

-----------------------------------------------------------------------------
(* No id laps the table as long as no more ids are drawn than there are.   *)

\* The id of a transaction is one of the last drawn ones.
IdsRecent ==
    \A t \in client_transactions : \E k \in 0 .. (drawn - 1) :
        \/ t.message_id + k = last_message_id
        \/ t.message_id + k = last_message_id + ID_MODULUS

\* getNextMessageId, by cases.
LEMMA NextIdCases ==
    ASSUME last_message_id \in MessageId
    PROVE  \/ last_message_id + 1 < ID_MODULUS /\ NextMessageId = last_message_id + 1
           \/ last_message_id + 1 = ID_MODULUS /\ NextMessageId = 0
BY ClientConstants DEF NextMessageId, MessageId

\* An id of the last drawn ones is not the next one, and grows older with it.
LEMMA NotNext ==
    ASSUME last_message_id \in MessageId, drawn \in Nat, drawn < ID_MODULUS,
           NEW id \in MessageId, NEW k \in 0 .. (drawn - 1),
           id + k \in {last_message_id, last_message_id + ID_MODULUS}
    PROVE  /\ id # NextMessageId
           /\ k + 1 \in 0 .. drawn
           /\ id + (k + 1) \in {NextMessageId, NextMessageId + ID_MODULUS}
<1>1. /\ ID_MODULUS \in Nat \ {0} /\ last_message_id \in 0 .. (ID_MODULUS - 1)
      /\ id \in 0 .. (ID_MODULUS - 1)
  BY ClientConstants DEF MessageId
<1>2. CASE last_message_id + 1 < ID_MODULUS /\ NextMessageId = last_message_id + 1
  BY <1>1, <1>2
<1>3. CASE last_message_id + 1 = ID_MODULUS /\ NextMessageId = 0
  BY <1>1, <1>3
<1> QED
  BY <1>2, <1>3, NextIdCases

\* The ids in the table after a step: those that were there, and the one drawn.
LEMMA StepIds ==
    ASSUME ClientInv, [Next]_clientVars
    PROVE  /\ DrawMessageId \/ UNCHANGED <<drawn, last_message_id>>
           /\ \A x \in client_transactions' :
                 \/ \E u \in client_transactions : x.message_id = u.message_id
                 \/ DrawMessageId /\ x.message_id = NextMessageId
<1> DEFINE ct == client_transactions
<1>1. \A t \in ct : /\ Retransmitted(t).message_id = t.message_id
                    /\ Elapsed(t).message_id = t.message_id
  BY DEF Retransmitted, Elapsed, ClientInv, ClientTypeOK, Transaction
<1>2. ASSUME NEW S, Drop(S) PROVE ct' \subseteq ct
  BY <1>2 DEF Drop
<1>3. ASSUME NEW t, Put(t) PROVE \A x \in ct' : x \in ct \/ x = t
  BY <1>3 DEF Put, Live
<1>4. CASE Send
  <2>1. ASSUME NEW r \in Requests, NEW code, SendRejectedEarly(r, code)
        PROVE  ct' = ct /\ UNCHANGED <<drawn, last_message_id>>
    BY <2>1 DEF SendRejectedEarly
  <2>2. ASSUME NEW r \in Requests, SendNotReady(r) PROVE ct' = ct /\ DrawMessageId
    BY <2>2 DEF SendNotReady
  <2>3. ASSUME NEW r \in Requests, SendRefused(r) PROVE ct' \subseteq ct /\ DrawMessageId
    BY <1>2, <2>3 DEF SendRefused, PutRefused
  <2>4. ASSUME NEW r \in Requests, NEW j, NEW sent, SendReliably(r, j, sent)
        PROVE  /\ DrawMessageId
               /\ \A x \in ct' : x \in ct \/ x.message_id = NextMessageId
    BY <1>3, <2>4 DEF SendReliably, ConTransaction
  <2>5. ASSUME NEW ivl, NEW span, NEW sent, SendNON(ivl, span, sent)
        PROVE  /\ DrawMessageId
               /\ \A x \in ct' : x \in ct \/ x.message_id = NextMessageId
    <3>1. CASE Put(NonTransaction(NextMessageId, ivl, span))
      BY <1>3, <2>5, <3>1 DEF SendNON, NonTransaction
    <3>2. CASE PutRefused(NextMessageId)
      BY <1>2, <2>5, <3>2 DEF SendNON, PutRefused
    <3> QED
      BY <2>5, <3>1, <3>2 DEF SendNON
  <2>6. ASSUME NEW sent, SendNONOnce(sent) PROVE ct' \subseteq ct /\ DrawMessageId
    BY <1>2, <2>6 DEF SendNONOnce
  <2>7. ASSUME NEW id, NEW sent, SendReply(id, sent)
        PROVE  ct' \subseteq ct /\ UNCHANGED <<drawn, last_message_id>>
    BY <1>2, <2>7 DEF SendReply
  <2> QED
    BY <1>4, <2>1, <2>2, <2>3, <2>4, <2>5, <2>6, <2>7 DEF Send
<1>5. ASSUME NEW hit, NEW code, DropWith(hit, code) PROVE ct' \subseteq ct
  BY <1>2, <1>5 DEF DropWith
<1>6. CASE End
  BY <1>5, <1>6 DEF End, StopRetransmissions, ReceiveACK, ReceiveRST, EndTransaction
<1>7. CASE DropExpiredClientTransactions
  BY <1>5, <1>7 DEF DropExpiredClientTransactions
<1>8. CASE TriggerClientTransactionRetransmissions
  BY <1>1, <1>8 DEF TriggerClientTransactionRetransmissions, Live
<1>9. CASE Tick
  BY <1>1, <1>9 DEF Tick
<1>10. CASE UNCHANGED clientVars
  BY <1>10 DEF clientVars
<1> QED
  BY <1>4, <1>6, <1>7, <1>8, <1>9, <1>10 DEF Next

\* As long as no more ids are drawn than there are, none laps the table.
THEOREM NoLap ==
    ASSUME MaxSends <= ID_MODULUS
    PROVE  Spec => [][NotLapped]_clientVars
<1> DEFINE Inv == ClientInv /\ IdsRecent
<1>1. Init => Inv
  BY ClientInvInit DEF Init, IdsRecent
<1>2. ASSUME Inv, DrawMessageId, NEW t \in client_transactions
      PROVE  \E k \in 0 .. (drawn - 1) :
                /\ t.message_id # NextMessageId
                /\ k + 1 \in 0 .. drawn
                /\ t.message_id + (k + 1) \in {NextMessageId, NextMessageId + ID_MODULUS}
  <2>1. t.message_id \in MessageId /\ last_message_id \in MessageId /\ drawn \in Nat
    BY <1>2 DEF ClientInv, ClientTypeOK, Transaction
  <2>2. drawn < ID_MODULUS
    BY <1>2, <2>1, ClientConstants DEF DrawMessageId
  <2>3. PICK k \in 0 .. (drawn - 1) :
           t.message_id + k \in {last_message_id, last_message_id + ID_MODULUS}
    BY <1>2 DEF IdsRecent
  <2> QED
    BY <2>1, <2>2, <2>3, NotNext
<1>3. Inv => NotLapped
  BY <1>2 DEF NotLapped, WithId, Live
<1>4. Inv /\ [Next]_clientVars => Inv'
  <2> SUFFICES ASSUME Inv, [Next]_clientVars PROVE Inv'
    OBVIOUS
  <2>1. ClientInv'
    BY ClientInvStep
  <2>2. CASE UNCHANGED <<drawn, last_message_id>> /\ ~ DrawMessageId
    <3>1. drawn' = drawn /\ last_message_id' = last_message_id
      BY <2>2
    <3>2. \A x \in client_transactions' :
             \E u \in client_transactions : x.message_id = u.message_id
      BY <2>2, StepIds
    <3>3. \A x \in client_transactions' : \E k \in 0 .. (drawn - 1) :
             \/ x.message_id + k = last_message_id
             \/ x.message_id + k = last_message_id + ID_MODULUS
      BY <3>2 DEF IdsRecent
    <3> QED
      BY <2>1, <3>1, <3>3 DEF IdsRecent
  <2>3. CASE DrawMessageId
    <3>1. drawn' = drawn + 1 /\ last_message_id' = NextMessageId /\ drawn \in Nat
          /\ NextMessageId \in MessageId
      BY <2>3, DrawLemma DEF DrawMessageId, ClientInv, ClientTypeOK
    <3>2. drawn' - 1 = drawn
      BY <3>1
    <3>3. ASSUME NEW x \in client_transactions'
          PROVE  \E k \in 0 .. drawn :
                    x.message_id + k \in {NextMessageId, NextMessageId + ID_MODULUS}
      <4>1. CASE \E u \in client_transactions : x.message_id = u.message_id
        BY <1>2, <2>3, <4>1
      <4>2. CASE x.message_id = NextMessageId
        <5>1. 0 \in 0 .. drawn /\ NextMessageId + 0 = NextMessageId
          BY <3>1, ClientConstants DEF MessageId
        <5> QED
          BY <4>2, <5>1
      <4> QED
        BY <4>1, <4>2, StepIds
    <3>4. \A x \in client_transactions' : \E k \in 0 .. (drawn' - 1) :
             \/ x.message_id + k = last_message_id'
             \/ x.message_id + k = last_message_id' + ID_MODULUS
      BY <3>1, <3>2, <3>3
    <3> QED
      BY <2>1, <3>4 DEF IdsRecent
  <2> QED
    BY <2>2, <2>3, StepIds
<1> QED
  BY <1>1, <1>3, <1>4, PTL DEF Spec

\* In particular: with a fresh id for every message the application is told of
\* every Command exactly what it is owed.
THEOREM ReceiptsSettleWithinIds ==
    ASSUME Reliable, MaxSends <= ID_MODULUS
    PROVE  Spec => []ReceiptsSettled
BY ReceiptsSettle, NoLap, PTL

=============================================================================
