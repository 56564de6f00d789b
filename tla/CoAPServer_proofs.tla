------------------------- MODULE CoAPServer_proofs -------------------------
(***************************************************************************)
(* Proofs about the list of received messages, for every number of slots,  *)
(* all lifetimes, and a remote peer that repeats messages and uses ids     *)
(* again.                                                                  *)
(***************************************************************************)
EXTENDS CoAPServer, SequenceTheorems, WellFoundedInduction, TLAPS

\* Each element of the list takes one slot.
SlotsAccounted == srv_space_left + Len(server_transactions) = NSYNC

ServerInv == ServerTypeOK /\ SlotsAccounted /\ ListedOnce /\ ReplayFaithful

-----------------------------------------------------------------------------
(* Lists of entries.                                                       *)

\* The entries of a list, and that it lists each id once.
Entries(s) == {s[i] : i \in DOMAIN s}

Once(s) == \A i, j \in DOMAIN s : s[i].message_id = s[j].message_id => i = j

\* A set of numbers has a least one.
LEMMA Least ==
    ASSUME NEW S \in SUBSET Nat, S # {}
    PROVE  \E m \in S : \A n \in S : m <= n
<1> DEFINE R == OpToRel(<, Nat)
<1>1. IsWellFoundedOn(R, Nat)
  BY NatLessThanWellFounded
<1>2. \A x, y \in Nat : <<y, x>> \in R <=> y < x
  BY DEF OpToRel
<1> HIDE DEF R
<1>3. PICK m \in S : \A y \in S : ~ (<<y, m>> \in R)
  BY <1>1, WFMin
<1>4. ASSUME NEW n \in S PROVE m <= n
  <2>1. m \in Nat /\ n \in Nat
    OBVIOUS
  <2>2. ~ (n < m)
    BY <1>2, <1>3, <2>1, Zenon
  <2> QED
    BY <2>1, <2>2
<1> QED
  BY <1>4

\* There is a first entry that is kept, or none is.
LEMMA FirstKeptExists ==
    ASSUME NEW s \in Seq(Entry)
    PROVE  /\ FirstKept(s) \in 1 .. (Len(s) + 1)
           /\ \A i \in 1 .. (FirstKept(s) - 1) : s[i].ttl = 0
           /\ FirstKept(s) <= Len(s) => s[FirstKept(s)].ttl > 0
<1> DEFINE S == {k \in 1 .. (Len(s) + 1) : k <= Len(s) => s[k].ttl > 0}
           First(k) == /\ \A i \in 1 .. (k - 1) : s[i].ttl = 0
                       /\ k <= Len(s) => s[k].ttl > 0
<1>1. Len(s) \in Nat /\ \A i \in 1 .. Len(s) : s[i] \in Entry /\ s[i].ttl \in Nat
  <2>1. Len(s) \in Nat /\ \A i \in 1 .. Len(s) : s[i] \in Entry
    BY LenProperties, ElementOfSeq
  <2> QED
    BY <2>1 DEF Entry
<1>2. S \in SUBSET Nat /\ Len(s) + 1 \in S
  BY <1>1
<1>3. PICK k \in S : \A n \in S : k <= n
  <2> HIDE DEF S
  <2> QED
    BY <1>2, Least
<1>4. ASSUME NEW i \in 1 .. (k - 1) PROVE s[i].ttl = 0
  <2>1. i \in 1 .. Len(s) /\ i < k
    BY <1>1, <1>2
  <2>2. i \notin S
    BY <1>1, <1>2, <1>3, <2>1
  <2> QED
    BY <1>1, <2>1, <2>2
<1>5. k \in 1 .. (Len(s) + 1) /\ First(k)
  BY <1>4
<1>6. FirstKept(s) = CHOOSE n \in 1 .. (Len(s) + 1) : First(n)
  BY DEF FirstKept
<1> HIDE DEF First
<1>7. FirstKept(s) \in 1 .. (Len(s) + 1) /\ First(FirstKept(s))
  BY <1>5, <1>6
<1> QED
  BY <1>7 DEF First

\* Without its expired heads a list still has every live entry, and in its order.
LEMMA DroppedList ==
    ASSUME NEW s \in Seq(Entry), Once(s)
    PROVE  LET t == DropExpired(s) IN
           /\ t \in Seq(Entry) /\ Once(t) /\ Len(t) <= Len(s)
           /\ Entries(t) \subseteq Entries(s)
           /\ \A e \in Entries(s) : e.ttl > 0 => e \in Entries(t)
<1> DEFINE t == DropExpired(s)
           k == FirstKept(s)
<1>1. /\ Len(s) \in Nat /\ DOMAIN s = 1 .. Len(s)
      /\ \A i \in 1 .. Len(s) : s[i] \in Entry
  BY LenProperties, ElementOfSeq
<1>2. /\ k \in 1 .. (Len(s) + 1)
      /\ \A i \in 1 .. (k - 1) : s[i].ttl = 0
  BY FirstKeptExists
<1>3. /\ t \in Seq(Entry)
      /\ Len(t) = Len(s) - k + 1
      /\ DOMAIN t = 1 .. (Len(s) - k + 1)
      /\ \A i \in 1 .. (Len(s) - k + 1) : t[i] = s[k + i - 1]
  <2>1. t = SubSeq(s, k, Len(s))
    BY DEF DropExpired
  <2> HIDE DEF k, t
  <2>2. \A i \in k .. Len(s) : s[i] \in Entry
    BY <1>1, <1>2
  <2>3. t = [i \in 1 .. (1 + Len(s) - k) |-> s[i + k - 1]]
    BY <1>1, <1>2, <2>1
  <2>4. 1 + Len(s) - k \in Nat
    BY <1>1, <1>2
  <2>5. \A i \in 1 .. (1 + Len(s) - k) : i + k - 1 \in k .. Len(s)
    BY <1>1, <1>2
  <2>6. t \in [1 .. (1 + Len(s) - k) -> Entry]
    BY <2>2, <2>3, <2>5
  <2>7. t \in Seq(Entry)
    BY <2>4, <2>6, IsASeq
  <2>8. DOMAIN t = 1 .. (1 + Len(s) - k) /\ Len(t) = 1 + Len(s) - k
    BY <2>4, <2>6, <2>7, LenProperties
  <2> QED
    BY <1>1, <1>2, <2>3, <2>7, <2>8
<1> HIDE DEF k, t
<1>4. ASSUME NEW n \in DOMAIN t PROVE k + n - 1 \in DOMAIN s /\ t[n] = s[k + n - 1]
  <2>1. n \in 1 .. (Len(s) - k + 1) /\ k \in 1 .. (Len(s) + 1) /\ Len(s) \in Nat
    BY <1>1, <1>2, <1>3
  <2>2. k + n - 1 \in 1 .. Len(s)
    BY <2>1
  <2> QED
    BY <1>1, <1>3, <2>1, <2>2
<1>5. Once(t)
  <2> SUFFICES ASSUME NEW i \in DOMAIN t, NEW j \in DOMAIN t,
                      t[i].message_id = t[j].message_id
               PROVE  i = j
    BY DEF Once
  <2>1. k + i - 1 \in DOMAIN s /\ k + j - 1 \in DOMAIN s
        /\ s[k + i - 1].message_id = s[k + j - 1].message_id
    BY <1>4, Zenon
  <2>2. k + i - 1 = k + j - 1
    BY <2>1, Zenon DEF Once
  <2>3. i \in Int /\ j \in Int /\ k \in Int
    BY <1>2, <1>3
  <2> QED
    BY <2>2, <2>3
<1>6. ASSUME NEW i \in DOMAIN t PROVE t[i] \in Entries(s)
  BY <1>4 DEF Entries
<1>7. ASSUME NEW i \in DOMAIN s, s[i].ttl > 0 PROVE s[i] \in Entries(t)
  <2>1. i \notin 1 .. (k - 1)
    BY <1>1, <1>2, <1>7
  <2>2. i - k + 1 \in DOMAIN t /\ k + (i - k + 1) - 1 = i
    BY <1>1, <1>2, <1>3, <2>1
  <2>3. t[i - k + 1] = s[i]
    BY <1>3, <2>2
  <2> QED
    BY <2>2, <2>3 DEF Entries
<1>8. Len(t) <= Len(s)
  BY <1>1, <1>2, <1>3
<1>9. Entries(t) \subseteq Entries(s)
  BY <1>6 DEF Entries
<1>10. \A e \in Entries(s) : e.ttl > 0 => e \in Entries(t)
  <2> SUFFICES ASSUME NEW e \in Entries(s), e.ttl > 0 PROVE e \in Entries(t)
    OBVIOUS
  <2>1. PICK i \in DOMAIN s : e = s[i]
    BY DEF Entries
  <2> QED
    BY <1>7, <2>1
<1> QED
  BY <1>3, <1>5, <1>8, <1>9, <1>10 DEF t

\* Without its head.
LEMMA TailList ==
    ASSUME NEW s \in Seq(Entry), s # <<>>, Once(s)
    PROVE  /\ Tail(s) \in Seq(Entry) /\ Once(Tail(s)) /\ Len(Tail(s)) = Len(s) - 1
           /\ Entries(Tail(s)) \subseteq Entries(s)
<1>1. /\ Len(s) \in Nat \ {0} /\ DOMAIN s = 1 .. Len(s)
      /\ Tail(s) \in Seq(Entry) /\ Len(Tail(s)) = Len(s) - 1
      /\ DOMAIN Tail(s) = 1 .. Len(s) - 1
      /\ \A i \in 1 .. Len(s) - 1 : Tail(s)[i] = s[i + 1]
  BY HeadTailProperties, EmptySeq, LenProperties
<1>2. \A i \in 1 .. Len(s) - 1 : i + 1 \in 1 .. Len(s)
  BY <1>1
<1>3. Once(Tail(s))
  BY <1>1, <1>2 DEF Once
<1> QED
  BY <1>1, <1>2, <1>3 DEF Entries

\* With an entry more, of an id that it does not list.
LEMMA InsertedList ==
    ASSUME NEW s \in Seq(Entry), Once(s), NEW e \in Entry, e.message_id \notin Ids(s)
    PROVE  LET t == InsertSort(s, e) IN
           /\ t \in Seq(Entry) /\ Once(t) /\ Len(t) = Len(s) + 1
           /\ Entries(t) = Entries(s) \cup {e}
<1> DEFINE t == <<e>> \o s
<1>1. /\ Len(s) \in Nat /\ DOMAIN s = 1 .. Len(s)
      /\ <<e>> \in Seq(Entry) /\ Len(<<e>>) = 1
  BY LenProperties
<1>2. /\ t \in Seq(Entry) /\ Len(t) = Len(s) + 1 /\ DOMAIN t = 1 .. Len(s) + 1
      /\ t[1] = e
      /\ \A i \in 1 .. Len(s) : t[i + 1] = s[i]
  BY <1>1, ConcatProperties, LenProperties
<1> HIDE DEF t
<1>3. ASSUME NEW i \in DOMAIN t, i # 1
      PROVE  i - 1 \in DOMAIN s /\ t[i] = s[i - 1]
  <2>1. i - 1 \in 1 .. Len(s) /\ (i - 1) + 1 = i
    BY <1>1, <1>2, <1>3
  <2> QED
    BY <1>1, <1>2, <2>1
<1>4. Once(t)
  <2> SUFFICES ASSUME NEW i \in DOMAIN t, NEW j \in DOMAIN t,
                      t[i].message_id = t[j].message_id
               PROVE  i = j
    BY DEF Once
  <2>1. i \in Int /\ j \in Int
    BY <1>1, <1>2
  <2>2. CASE i = 1 /\ j # 1
    BY <1>2, <1>3, <2>2 DEF Ids
  <2>3. CASE i # 1 /\ j = 1
    BY <1>2, <1>3, <2>3 DEF Ids
  <2>4. CASE i # 1 /\ j # 1
    <3>1. i - 1 = j - 1
      BY <1>3, <2>4 DEF Once
    <3> QED
      BY <2>1, <3>1
  <2> QED
    BY <2>2, <2>3, <2>4
<1>5. Entries(t) \subseteq Entries(s) \cup {e}
  BY <1>2, <1>3 DEF Entries
<1>6. \A i \in DOMAIN s : i + 1 \in DOMAIN t /\ t[i + 1] = s[i]
  BY <1>1, <1>2
<1>7. 1 \in DOMAIN t
  BY <1>1, <1>2
<1>8. Entries(s) \cup {e} \subseteq Entries(t)
  BY <1>2, <1>6, <1>7 DEF Entries
<1> QED
  BY <1>2, <1>4, <1>5, <1>8 DEF InsertSort, t

\* With a reply: the entry of the id has it, the others are as they were.
Answered(e, id, r) == IF e.message_id = id THEN [e EXCEPT !.ack_rst = r] ELSE e

LEMMA AnsweredEntry ==
    ASSUME NEW e \in Entry, NEW id, NEW r \in Reply
    PROVE  /\ Answered(e, id, r) \in Entry
           /\ Answered(e, id, r).message_id = e.message_id
           /\ Answered(e, id, r).ttl = e.ttl
           /\ e.message_id = id => Answered(e, id, r).ack_rst = r
           /\ e.message_id # id => Answered(e, id, r) = e
BY DEF Answered, Entry

LEMMA RepliedList ==
    ASSUME NEW s \in Seq(Entry), Once(s), NEW id, NEW r \in Reply
    PROVE  LET t == SetReply(s, id, r) IN
           /\ t \in Seq(Entry) /\ Once(t) /\ Len(t) = Len(s)
           /\ Entries(t) = {Answered(e, id, r) : e \in Entries(s)}
<1> DEFINE t == SetReply(s, id, r)
<1>1. /\ Len(s) \in Nat /\ DOMAIN s = 1 .. Len(s)
      /\ \A i \in 1 .. Len(s) : s[i] \in Entry
  BY LenProperties, ElementOfSeq
<1>2. t = [i \in 1 .. Len(s) |-> Answered(s[i], id, r)]
  BY <1>1 DEF SetReply, Answered
<1> HIDE DEF t
<1>3. t \in [1 .. Len(s) -> Entry]
  BY <1>1, <1>2, AnsweredEntry
<1>4. t \in Seq(Entry) /\ Len(t) = Len(s) /\ DOMAIN t = DOMAIN s
  BY <1>1, <1>3, IsASeq, LenProperties
<1>5. \A i \in DOMAIN s : t[i] = Answered(s[i], id, r) /\ t[i].message_id = s[i].message_id
  BY <1>1, <1>2, AnsweredEntry
<1>6. Once(t)
  BY <1>4, <1>5 DEF Once
<1>7. Entries(t) = {Answered(e, id, r) : e \in Entries(s)}
  BY <1>4, <1>5 DEF Entries
<1> QED
  BY <1>4, <1>6, <1>7 DEF t

-----------------------------------------------------------------------------
(* What handleRx does to the list.                                         *)

LEMMA Lifetimes ==
    /\ EXCHANGE_LIFETIME \in Nat /\ NON_LIFETIME \in Nat
    /\ \A type \in {"CON", "NON"} : Lifetime(type) \in Nat /\ WindowOf(type) \in Nat
<1>1. \A x, y \in Nat : x * y \in Nat
  OBVIOUS
<1>2. MAX_TRANSMIT_SPAN + 2 * MAX_LATENCY + PROCESSING_DELAY \in Nat /\ MS \in Nat
  BY ServerConstants
<1>3. EXCHANGE_LIFETIME \in Nat
  BY <1>1, <1>2 DEF EXCHANGE_LIFETIME
<1>4. MAX_LATENCY * MS \in Nat
  BY <1>1, ServerConstants
<1>5. NON_LIFETIME \in Nat
  BY <1>4, ServerConstants DEF NON_LIFETIME
<1> QED
  BY <1>3, <1>5, ServerConstants DEF Lifetime, WindowOf

\* The list of a peer that keeps the invariant.
LEMMA ServerList ==
    ASSUME ServerInv
    PROVE  /\ server_transactions \in Seq(Entry) /\ Once(server_transactions)
           /\ Len(server_transactions) \in Nat /\ srv_space_left \in Nat
           /\ NSYNC \in Nat /\ NSYNC > 0
           /\ Len(server_transactions) <= NSYNC
<1>1. /\ server_transactions \in Seq(Entry) /\ srv_space_left \in 0 .. NSYNC
      /\ srv_space_left + Len(server_transactions) = NSYNC
      /\ Once(server_transactions)
  BY DEF ServerInv, ServerTypeOK, SlotsAccounted, ListedOnce, Once
<1>2. Len(server_transactions) \in Nat
  BY <1>1, LenProperties
<1> QED
  BY <1>1, <1>2, ServerConstants

LEMMA EntryTypes ==
    ASSUME ServerInv
    PROVE  /\ \A i \in DOMAIN server_transactions :
                 server_transactions[i].message_id \in RemoteId
           /\ \A e \in Entries(server_transactions) :
                 e \in Entry /\ e.message_id \in RemoteId /\ e.ttl \in Nat
<1>1. DOMAIN server_transactions = 1 .. Len(server_transactions)
  BY ServerList, LenProperties
<1>2. \A i \in DOMAIN server_transactions : server_transactions[i] \in Entry
  BY <1>1, ServerList, ElementOfSeq
<1>3. \A e \in Entries(server_transactions) : e \in Entry
  BY <1>2 DEF Entries
<1>4. \A e \in Entry : e.message_id \in RemoteId /\ e.ttl \in Nat
  BY DEF Entry
<1> QED
  BY <1>2, <1>3, <1>4

\* A new entry fits: a full list has lost its head.
LEMMA PutList ==
    ASSUME ServerInv, NEW s \in Seq(Entry), Once(s), Len(s) <= Len(server_transactions),
           NEW id \in RemoteId, id \notin Ids(s), NEW type \in {"CON", "NON"}
    PROVE  LET t == PutServerTransaction(s, id, type) IN
           /\ t \in Seq(Entry) /\ Once(t) /\ Len(t) <= NSYNC
           /\ NewEntry(id, type) \in Entries(t)
           /\ \A e \in Entries(t) :
                 e = NewEntry(id, type) \/ (e \in Entries(s) /\ e.message_id # id)
<1> DEFINE room == IF Full(s) /\ s # <<>> THEN Tail(s) ELSE s
           new == NewEntry(id, type)
<1>1. new \in Entry /\ new.message_id = id
  BY Lifetimes DEF NewEntry, Entry, Reply
<1>2. Len(s) \in Nat /\ (s = <<>> => Len(s) = 0)
  BY LenProperties, EmptySeq
<1>3. Full(s) <=> Len(s) = NSYNC
  <2>1. srv_space_left + Len(server_transactions) = NSYNC
    BY DEF ServerInv, SlotsAccounted
  <2> QED
    BY <1>2, <2>1, ServerList DEF Full
<1>4. /\ room \in Seq(Entry) /\ Once(room) /\ Entries(room) \subseteq Entries(s)
      /\ Len(room) < NSYNC
  <2>1. CASE Full(s)
    <3>1. s # <<>> /\ Len(s) = NSYNC
      BY <1>2, <1>3, <2>1, ServerList
    <3>2. room = Tail(s)
      BY <2>1, <3>1
    <3>3. /\ Tail(s) \in Seq(Entry) /\ Once(Tail(s)) /\ Len(Tail(s)) = Len(s) - 1
          /\ Entries(Tail(s)) \subseteq Entries(s)
      BY <3>1, TailList
    <3> QED
      BY <1>2, <3>1, <3>2, <3>3, ServerList
  <2>2. CASE ~ Full(s)
    <3>1. Len(s) < NSYNC
      BY <1>2, <1>3, <2>2, ServerList
    <3> QED
      BY <2>2, <3>1
  <2> QED
    BY <2>1, <2>2
<1>5. \A e \in Entries(s) : e.message_id # id
  BY DEF Entries, Ids
<1>6. id \notin Ids(room)
  <2>1. ASSUME NEW i \in DOMAIN room PROVE room[i].message_id # id
    <3>1. room[i] \in Entries(room)
      BY DEF Entries
    <3> QED
      BY <1>4, <1>5, <3>1
  <2> HIDE DEF room
  <2> QED
    BY <2>1 DEF Ids
<1>7. PutServerTransaction(s, id, type) = InsertSort(room, new)
  BY DEF PutServerTransaction
<1>8. Len(room) \in Nat
  BY <1>4, LenProperties
<1> HIDE DEF room, new
<1>9. LET t == InsertSort(room, new) IN
      /\ t \in Seq(Entry) /\ Once(t) /\ Len(t) = Len(room) + 1
      /\ Entries(t) = Entries(room) \cup {new}
  BY <1>1, <1>4, <1>6, InsertedList
<1>Z. Len(room) + 1 <= NSYNC
  BY <1>4, <1>8, ServerList
<1> QED
  BY <1>4, <1>5, <1>7, <1>9, <1>Z DEF new

\* Expired heads dropped, and a reply saved with the entry of id.
LEMMA AnsweredList ==
    ASSUME NEW s \in Seq(Entry), Once(s), NEW id, NEW r \in Reply
    PROVE  LET t == SetReply(DropExpired(s), id, r) IN
           /\ t \in Seq(Entry) /\ Once(t) /\ Len(t) <= Len(s)
           /\ \A x \in Entries(t) : \E e \in Entries(s) : x = Answered(e, id, r)
           /\ \A e \in Entries(s) : e.ttl > 0 => Answered(e, id, r) \in Entries(t)
<1> DEFINE d == DropExpired(s)
<1>1. /\ d \in Seq(Entry) /\ Once(d) /\ Len(d) <= Len(s)
      /\ Entries(d) \subseteq Entries(s)
      /\ \A e \in Entries(s) : e.ttl > 0 => e \in Entries(d)
  BY DroppedList
<1> HIDE DEF d
<1>2. LET t == SetReply(d, id, r) IN
      /\ t \in Seq(Entry) /\ Once(t) /\ Len(t) = Len(d)
      /\ Entries(t) = {Answered(e, id, r) : e \in Entries(d)}
  BY <1>1, RepliedList
<1> QED
  BY <1>1, <1>2 DEF d

\* A message that is handled: its entry is listed with the reply that it got, no
\* other entry is new, and no live entry had its id.
LEMMA HandledList ==
    ASSUME ServerInv, NEW id \in RemoteId, NEW type \in {"CON", "NON"},
           NEW followUp \in Reply, Handle(id, type, followUp)
    PROVE  /\ server_transactions' \in Seq(Entry)
           /\ Once(server_transactions') /\ Len(server_transactions') <= NSYNC
           /\ \A x \in Entries(server_transactions') :
                 \/ x.message_id = id /\ x.ack_rst = FollowUpReply(type, followUp)
                 \/ x.message_id # id /\ x \in Entries(server_transactions)
           /\ Lifetime(type) > 0 =>
                 \E x \in Entries(server_transactions') :
                    x.message_id = id /\ x.ttl = Lifetime(type)
           /\ \A e \in Entries(server_transactions) : e.ttl > 0 => e.message_id # id
           /\ Becomes(server_transactions')
<1> DEFINE s == DropExpired(server_transactions)
           p == PutServerTransaction(s, id, type)
           l == FollowUp(p, id, type, followUp)
           new == NewEntry(id, type)
<1>1. /\ s \in Seq(Entry) /\ Once(s) /\ Len(s) <= Len(server_transactions)
      /\ Entries(s) \subseteq Entries(server_transactions)
      /\ \A e \in Entries(server_transactions) : e.ttl > 0 => e \in Entries(s)
  BY ServerList, DroppedList
<1>2. id \notin Ids(s) /\ Becomes(l)
  BY DEF Handle
<1>3. server_transactions' = l
  BY <1>2 DEF Becomes
<1>4. \A e \in Entries(server_transactions) : e.ttl > 0 => e.message_id # id
  BY <1>1, <1>2 DEF Entries, Ids
<1> HIDE DEF s
<1>5. /\ p \in Seq(Entry) /\ Once(p) /\ Len(p) <= NSYNC
      /\ new \in Entries(p)
      /\ \A e \in Entries(p) : e = new \/ (e \in Entries(s) /\ e.message_id # id)
  BY <1>1, <1>2, PutList
<1>6. /\ new \in Entry /\ new.message_id = id /\ new.ack_rst = "none"
      /\ new.ttl = Lifetime(type)
  BY Lifetimes DEF NewEntry, Entry, Reply
<1> HIDE DEF p, new
<1>7. CASE type = "CON" /\ followUp # "none"
  <2>1. l = SetReply(DropExpired(p), id, followUp) /\ FollowUpReply(type, followUp) = followUp
    BY <1>7 DEF FollowUp, FollowUpReply
  <2> HIDE DEF l
  <2>2. /\ l \in Seq(Entry) /\ Once(l) /\ Len(l) <= Len(p)
        /\ \A x \in Entries(l) : \E e \in Entries(p) : x = Answered(e, id, followUp)
        /\ \A e \in Entries(p) : e.ttl > 0 => Answered(e, id, followUp) \in Entries(l)
    BY <1>5, <2>1, AnsweredList
  <2>3. Len(l) \in Nat /\ Len(p) \in Nat
    BY <1>5, <2>2, LenProperties
  <2>4. Len(l) <= NSYNC
    BY <1>5, <2>2, <2>3, ServerConstants
  <2>5. ASSUME NEW x \in Entries(l)
        PROVE  \/ x.message_id = id /\ x.ack_rst = followUp
               \/ x.message_id # id /\ x \in Entries(server_transactions)
    <3>1. PICK e \in Entries(p) : x = Answered(e, id, followUp)
      BY <2>2
    <3>2. CASE e = new
      BY <1>6, <3>1, <3>2, AnsweredEntry
    <3>3. CASE e \in Entries(s) /\ e.message_id # id
      <4>1. x = e
        BY <3>1, <3>3 DEF Answered
      <4> QED
        BY <1>1, <3>3, <4>1
    <3> QED
      BY <1>5, <3>2, <3>3
  <2>6. Lifetime(type) > 0 =>
           \E x \in Entries(l) : x.message_id = id /\ x.ttl = Lifetime(type)
    <3>1. /\ Answered(new, id, followUp).message_id = id
          /\ Answered(new, id, followUp).ttl = Lifetime(type)
      BY <1>6, AnsweredEntry
    <3> QED
      BY <1>5, <1>6, <2>2, <3>1
  <2> QED
    BY <1>2, <1>3, <1>4, <2>1, <2>2, <2>4, <2>5, <2>6
<1>8. CASE ~ (type = "CON" /\ followUp # "none")
  <2>1. l = p /\ FollowUpReply(type, followUp) = "none"
    BY <1>8 DEF FollowUp, FollowUpReply
  <2> HIDE DEF l
  <2> QED
    BY <1>1, <1>2, <1>3, <1>4, <1>5, <1>6, <2>1
<1> QED
  BY <1>7, <1>8

\* The slots stay accounted for, whatever the list becomes that fits.
LEMMA BecomesStep ==
    ASSUME ServerInv, NEW l \in Seq(Entry), Len(l) <= NSYNC, Becomes(l)
    PROVE  /\ server_transactions' = l
           /\ srv_space_left' \in 0 .. NSYNC
           /\ SlotsAccounted'
<1>1. Len(l) \in Nat /\ srv_space_left + Len(server_transactions) = NSYNC
  BY LenProperties DEF ServerInv, SlotsAccounted
<1>2. srv_space_left + Len(server_transactions) - Len(l) = NSYNC - Len(l)
  BY <1>1, ServerList
<1>3. NSYNC - Len(l) \in 0 .. NSYNC /\ (NSYNC - Len(l)) + Len(l) = NSYNC
  BY <1>1, ServerList
<1>4. server_transactions' = l /\ srv_space_left' = NSYNC - Len(l)
  BY <1>2 DEF Becomes
<1> QED
  BY <1>3, <1>4 DEF SlotsAccounted

-----------------------------------------------------------------------------
(* The list, action by action.                                             *)

\* The history is well typed.
HistoryTypes ==
    /\ window \in [RemoteId -> Nat]
    /\ kind \in [RemoteId -> {"CON", "NON"}]
    /\ handled \in [RemoteId -> 0 .. 2]
    /\ reply \in [RemoteId -> Reply]
    /\ evicted \subseteq RemoteId

\* The handlers saw the exchange of id, and it may come again.
Repeatable(id) == window[id] > 0 /\ handled[id] > 0

\* Every entry of a repeatable exchange has the reply that answered it.
Faithful ==
    \A e \in Entries(server_transactions) :
        Repeatable(e.message_id) => e.ack_rst = reply[e.message_id]

LEMMA FaithfulIs == ReplayFaithful <=> Faithful
BY DEF ReplayFaithful, Faithful, Entries, Repeatable

\* What has to be shown of the list that a step leaves.
LEMMA ListStep ==
    ASSUME ServerInv, NEW l \in Seq(Entry), Once(l), Len(l) <= NSYNC, Becomes(l),
           HistoryTypes',
           \A e \in Entries(l) : (Repeatable(e.message_id))' => e.ack_rst = reply'[e.message_id]
    PROVE  ServerInv'
<1>1. /\ server_transactions' = l
      /\ srv_space_left' \in 0 .. NSYNC
      /\ SlotsAccounted'
  BY BecomesStep
<1>2. ServerTypeOK'
  BY <1>1 DEF ServerTypeOK, HistoryTypes
<1>3. ListedOnce'
  BY <1>1 DEF ListedOnce, Once
<1>4. ReplayFaithful'
  BY <1>1 DEF ReplayFaithful, Entries, Repeatable
<1> QED
  BY <1>1, <1>2, <1>3, <1>4 DEF ServerInv

\* A message is handled.
LEMMA HandleStep ==
    ASSUME ServerInv, HistoryTypes', NEW id \in RemoteId, NEW type \in {"CON", "NON"},
           NEW followUp \in Reply, Handle(id, type, followUp),
           reply'[id] = FollowUpReply(type, followUp),
           \A q \in RemoteId \ {id} :
               /\ window'[q] = window[q] /\ handled'[q] = handled[q]
               /\ reply'[q] = reply[q]
    PROVE  ServerInv'
<1> DEFINE l == server_transactions'
<1>1. /\ l \in Seq(Entry) /\ Once(l) /\ Len(l) <= NSYNC /\ Becomes(l)
      /\ \A x \in Entries(l) :
            \/ x.message_id = id /\ x.ack_rst = FollowUpReply(type, followUp)
            \/ x.message_id # id /\ x \in Entries(server_transactions)
  BY HandledList
<1>2. \A e \in Entries(server_transactions) : e.message_id \in RemoteId
  BY EntryTypes
<1>3. Faithful
  BY FaithfulIs DEF ServerInv
<1>4. ASSUME NEW x \in Entries(l), (Repeatable(x.message_id))'
      PROVE  x.ack_rst = reply'[x.message_id]
  BY <1>1, <1>2, <1>3, <1>4 DEF Faithful, Repeatable
<1> HIDE DEF l
<1> QED
  BY <1>1, <1>4, ListStep

\* A reply is saved with the entry of an id, if there is one.
LEMMA ReplyStep ==
    ASSUME ServerInv, HistoryTypes', NEW id \in RemoteId, NEW r \in Reply,
           Becomes(SetReply(DropExpired(server_transactions), id, r)),
           \A q \in RemoteId : (Repeatable(q))' =>
               Repeatable(q) /\ reply'[q] = IF q = id THEN r ELSE reply[q]
    PROVE  ServerInv'
<1> DEFINE l == SetReply(DropExpired(server_transactions), id, r)
<1>1. /\ l \in Seq(Entry) /\ Once(l) /\ Len(l) <= Len(server_transactions)
      /\ \A x \in Entries(l) : \E e \in Entries(server_transactions) : x = Answered(e, id, r)
  BY ServerList, AnsweredList
<1>2. \A e \in Entries(server_transactions) : e \in Entry /\ e.message_id \in RemoteId
  BY EntryTypes
<1>3. Faithful
  BY FaithfulIs DEF ServerInv
<1> HIDE DEF l
<1>4. ASSUME NEW x \in Entries(l), (Repeatable(x.message_id))'
      PROVE  x.ack_rst = reply'[x.message_id]
  <2>1. PICK e \in Entries(server_transactions) : x = Answered(e, id, r)
    BY <1>1
  <2>2. x.message_id = e.message_id /\ e \in Entry /\ e.message_id \in RemoteId
    BY <1>2, <2>1, AnsweredEntry
  <2>3. Repeatable(e.message_id) /\ reply'[e.message_id] =
           IF e.message_id = id THEN r ELSE reply[e.message_id]
    BY <1>4, <2>2 DEF Repeatable
  <2> QED
    BY <1>3, <2>1, <2>2, <2>3, AnsweredEntry DEF Faithful
<1>5. Len(l) <= NSYNC
  BY <1>1, ServerList, LenProperties
<1> QED
  BY <1>1, <1>4, <1>5, ListStep DEF l

\* Only the expired heads go.
LEMMA DropStep ==
    ASSUME ServerInv, HistoryTypes', Becomes(DropExpired(server_transactions)),
           \A q \in RemoteId : (Repeatable(q))' => Repeatable(q) /\ reply'[q] = reply[q]
    PROVE  ServerInv'
<1> DEFINE l == DropExpired(server_transactions)
<1>1. /\ l \in Seq(Entry) /\ Once(l) /\ Len(l) <= Len(server_transactions)
      /\ Entries(l) \subseteq Entries(server_transactions)
  BY ServerList, DroppedList
<1>2. \A e \in Entries(server_transactions) : e.message_id \in RemoteId
  BY EntryTypes
<1>3. Faithful
  BY FaithfulIs DEF ServerInv
<1> HIDE DEF l
<1>4. ASSUME NEW x \in Entries(l), (Repeatable(x.message_id))'
      PROVE  x.ack_rst = reply'[x.message_id]
  BY <1>1, <1>2, <1>3, <1>4 DEF Faithful, Repeatable
<1>5. Len(l) <= NSYNC
  BY <1>1, ServerList, LenProperties
<1> QED
  BY <1>1, <1>4, <1>5, ListStep DEF l

\* Time passes in the list and in every window.
LEMMA TickStep ==
    ASSUME ServerInv, Tick
    PROVE  /\ ServerInv'
           /\ \A e \in Entries(server_transactions) :
                 \E x \in Entries(server_transactions') :
                    /\ x.message_id = e.message_id
                    /\ x.ttl = IF e.ttl > 0 THEN e.ttl - 1 ELSE 0
<1> DEFINE s == server_transactions
           l == server_transactions'
           Aged(e) == [e EXCEPT !.ttl = IF e.ttl > 0 THEN e.ttl - 1 ELSE 0]
<1>1. /\ Len(s) \in Nat /\ DOMAIN s = 1 .. Len(s) /\ Once(s)
      /\ \A i \in 1 .. Len(s) : s[i] \in Entry
  BY ServerList, ElementOfSeq, LenProperties
<1>2. ASSUME NEW e \in Entry
      PROVE  /\ Aged(e) \in Entry
             /\ Aged(e).message_id = e.message_id /\ Aged(e).ack_rst = e.ack_rst
             /\ Aged(e).ttl = IF e.ttl > 0 THEN e.ttl - 1 ELSE 0
  <2>1. PICK n \in Nat : n = IF e.ttl > 0 THEN e.ttl - 1 ELSE 0
    BY DEF Entry
  <2>2. Aged(e) = [e EXCEPT !.ttl = n]
    BY <2>1
  <2> HIDE DEF Aged
  <2> QED
    BY <2>1, <2>2 DEF Entry
<1>3. l = [i \in 1 .. Len(s) |-> Aged(s[i])]
  BY <1>1 DEF Tick
<1> HIDE DEF Aged
<1>4. l \in [1 .. Len(s) -> Entry]
  BY <1>1, <1>2, <1>3
<1>5. l \in Seq(Entry) /\ Len(l) = Len(s) /\ DOMAIN l = 1 .. Len(s)
  BY <1>1, <1>4, IsASeq, LenProperties
<1>6. \A i \in 1 .. Len(s) :
         /\ l[i].message_id = s[i].message_id /\ l[i].ack_rst = s[i].ack_rst
         /\ l[i].ttl = IF s[i].ttl > 0 THEN s[i].ttl - 1 ELSE 0
  BY <1>1, <1>2, <1>3
<1>7. /\ window' = [id \in RemoteId |-> IF window[id] > 0 THEN window[id] - 1 ELSE 0]
      /\ UNCHANGED <<srv_space_left, kind, handled, reply, evicted>>
  BY DEF Tick
<1>8. window \in [RemoteId -> Nat]
  BY DEF ServerInv, ServerTypeOK
<1>9. \A id \in RemoteId : window'[id] \in Nat /\ (window'[id] > 0 => window[id] > 0)
  BY <1>7, <1>8
<1>Z. ServerTypeOK'
  BY <1>5, <1>7, <1>9 DEF ServerInv, ServerTypeOK
<1>11. SlotsAccounted'
  BY <1>5, <1>7 DEF ServerInv, SlotsAccounted
<1>12. ListedOnce'
  BY <1>1, <1>5, <1>6 DEF Once, ListedOnce
<1>13. ReplayFaithful'
  <2> SUFFICES ASSUME NEW i \in 1 .. Len(s),
                      window'[l[i].message_id] > 0, handled'[l[i].message_id] > 0
               PROVE  l[i].ack_rst = reply'[l[i].message_id]
    BY <1>5 DEF ReplayFaithful
  <2>1. s[i].message_id \in RemoteId
    BY <1>1 DEF Entry
  <2>2. window[s[i].message_id] > 0 /\ handled[s[i].message_id] > 0
    BY <1>6, <1>7, <1>9, <2>1
  <2>3. s[i].ack_rst = reply[s[i].message_id]
    BY <1>1, <2>2 DEF ServerInv, ReplayFaithful
  <2> QED
    BY <1>6, <1>7, <2>3
<1>14. ServerInv'
  BY <1>Z, <1>11, <1>12, <1>13 DEF ServerInv
<1>15. ASSUME NEW i \in DOMAIN s PROVE l[i] \in Entries(l)
  BY <1>1, <1>5 DEF Entries
<1>16. ASSUME NEW e \in Entries(s)
       PROVE  \E x \in Entries(l) : /\ x.message_id = e.message_id
                                    /\ x.ttl = IF e.ttl > 0 THEN e.ttl - 1 ELSE 0
  <2>1. PICK i \in DOMAIN s : e = s[i]
    BY DEF Entries
  <2> QED
    BY <1>1, <1>6, <1>15, <2>1
<1> QED
  BY <1>14, <1>16

\* The history keeps its types.
LEMMA HistoryStep ==
    ASSUME ServerInv, Next
    PROVE  HistoryTypes'
<1>1. HistoryTypes
  BY DEF ServerInv, ServerTypeOK, HistoryTypes
<1>2. Evicted \subseteq RemoteId
  BY EntryTypes DEF Evicted
<1>3. \A type \in {"CON", "NON"} : WindowOf(type) \in Nat
  BY Lifetimes
<1>4. \A type \in {"CON", "NON"}, r \in Reply : FollowUpReply(type, r) \in Reply
  BY DEF FollowUpReply, Reply
<1>5. ASSUME NEW id \in RemoteId, NEW type \in {"CON", "NON"}, NEW followUp \in Reply,
             ReceiveFresh(id, type, followUp)
      PROVE  HistoryTypes'
  BY <1>1, <1>2, <1>3, <1>4, <1>5 DEF HistoryTypes, ReceiveFresh, Start
<1>6. ASSUME NEW id \in RemoteId, NEW type \in {"CON", "NON"}, ReceiveSwallowed(id, type)
      PROVE  HistoryTypes'
  BY <1>1, <1>3, <1>6 DEF HistoryTypes, ReceiveSwallowed, Start, Reply
<1>7. ASSUME NEW id \in RemoteId, NEW followUp \in Reply, ReceiveForgotten(id, followUp)
      PROVE  HistoryTypes'
  BY <1>1, <1>2, <1>4, <1>7 DEF HistoryTypes, ReceiveForgotten
<1>8. ASSUME NEW id \in RemoteId, NEW r \in {"ACK", "RST"}, SendReplyLater(id, r)
      PROVE  HistoryTypes'
  BY <1>1, <1>8 DEF HistoryTypes, SendReplyLater, Reply
<1>9. ASSUME UNCHANGED historyVars PROVE HistoryTypes'
  BY <1>1, <1>9 DEF HistoryTypes, historyVars
<1>Z. ASSUME Tick PROVE HistoryTypes'
  BY <1>Z, TickStep DEF HistoryTypes, ServerInv, ServerTypeOK
<1> QED
  BY <1>5, <1>6, <1>7, <1>8, <1>9, <1>Z
  DEF Next, ReceiveDuplicate, ReceivePing, LogServerTransactions

LEMMA ServerInvStep ==
    ASSUME ServerInv, [Next]_vars
    PROVE  ServerInv'
<1>0. /\ handled \in [RemoteId -> 0 .. 2] /\ reply \in [RemoteId -> Reply]
      /\ window \in [RemoteId -> Nat] /\ kind \in [RemoteId -> {"CON", "NON"}]
  BY DEF ServerInv, ServerTypeOK
<1>1. ASSUME Next, UNCHANGED historyVars
      PROVE  /\ HistoryTypes'
             /\ \A q \in RemoteId : (Repeatable(q))' => Repeatable(q) /\ reply'[q] = reply[q]
  BY <1>1, HistoryStep DEF historyVars, Repeatable
<1>2. ASSUME NEW id \in RemoteId, NEW type \in {"CON", "NON"}, NEW followUp \in Reply,
             ReceiveFresh(id, type, followUp), Next
      PROVE  ServerInv'
  <2>1. /\ Handle(id, type, followUp)
        /\ reply'[id] = FollowUpReply(type, followUp)
        /\ \A q \in RemoteId \ {id} :
              /\ window'[q] = window[q] /\ handled'[q] = handled[q]
              /\ reply'[q] = reply[q]
    BY <1>0, <1>2 DEF ReceiveFresh, Start
  <2> QED
    BY <1>2, <2>1, HistoryStep, HandleStep
<1>3. ASSUME NEW id \in RemoteId, NEW followUp \in Reply, ReceiveForgotten(id, followUp), Next
      PROVE  ServerInv'
  <2>1. /\ Handle(id, kind[id], followUp) /\ kind[id] \in {"CON", "NON"}
        /\ reply'[id] = FollowUpReply(kind[id], followUp)
        /\ \A q \in RemoteId \ {id} :
              /\ window'[q] = window[q] /\ handled'[q] = handled[q]
              /\ reply'[q] = reply[q]
    BY <1>0, <1>3 DEF ReceiveForgotten
  <2> QED
    BY <1>3, <2>1, HistoryStep, HandleStep
<1>4. ASSUME NEW id \in RemoteId, NEW type \in {"CON", "NON"}, ReceiveSwallowed(id, type), Next
      PROVE  ServerInv'
  <2>1. /\ Becomes(DropExpired(server_transactions))
        /\ \A q \in RemoteId : (Repeatable(q))' => Repeatable(q) /\ reply'[q] = reply[q]
    BY <1>0, <1>4 DEF ReceiveSwallowed, Ignore, Start, Repeatable
  <2> QED
    BY <1>4, <2>1, HistoryStep, DropStep
<1>5. ASSUME NEW id \in RemoteId, NEW r \in {"ACK", "RST"}, SendReplyLater(id, r), Next
      PROVE  ServerInv'
  <2>1. /\ Becomes(SetReply(DropExpired(server_transactions), id, r)) /\ r \in Reply
        /\ \A q \in RemoteId : (Repeatable(q))' =>
              Repeatable(q) /\ reply'[q] = IF q = id THEN r ELSE reply[q]
    BY <1>0, <1>5 DEF SendReplyLater, Repeatable, Reply
  <2> QED
    BY <1>5, <2>1, HistoryStep, ReplyStep
<1>6. ASSUME NEW id \in RemoteId, ReceiveDuplicate(id), Next
      PROVE  ServerInv'
  <2>1. Becomes(DropExpired(server_transactions)) /\ UNCHANGED historyVars
    BY <1>6 DEF ReceiveDuplicate, Ignore
  <2> QED
    BY <1>1, <1>6, <2>1, DropStep
<1>7. ASSUME NEW id \in RemoteId, ReceivePing(id), Next
      PROVE  ServerInv'
  <2>1. /\ Becomes(SetReply(DropExpired(server_transactions), id, "RST"))
        /\ "RST" \in Reply /\ UNCHANGED historyVars /\ window[id] = 0
    BY <1>7 DEF ReceivePing, Fresh, Reply
  <2>2. \A q \in RemoteId : (Repeatable(q))' =>
              Repeatable(q) /\ reply'[q] = IF q = id THEN "RST" ELSE reply[q]
    BY <1>1, <1>7, <2>1 DEF Repeatable
  <2> QED
    BY <1>1, <1>7, <2>1, <2>2, ReplyStep
<1>8. ASSUME LogServerTransactions, Next
      PROVE  ServerInv'
  BY <1>1, <1>8, DropStep DEF LogServerTransactions
<1>9. CASE UNCHANGED vars
  BY <1>9 DEF vars, ServerInv, ServerTypeOK, SlotsAccounted, ListedOnce, ReplayFaithful
<1> QED
  BY <1>2, <1>3, <1>4, <1>5, <1>6, <1>7, <1>8, <1>9, TickStep DEF Next

LEMMA ServerInvInit == Init => ServerInv
<1> SUFFICES ASSUME Init PROVE ServerInv
  OBVIOUS
<1>1. server_transactions = <<>> /\ Len(server_transactions) = 0
      /\ DOMAIN server_transactions = {} /\ server_transactions \in Seq(Entry)
  BY EmptySeq DEF Init
<1> QED
  BY <1>1, ServerConstants DEF Init, ServerInv, ServerTypeOK, SlotsAccounted, ListedOnce,
     ReplayFaithful, Reply

\* However messages are repeated, expire and make room: the list holds each id once,
\* and no more than NSYNC of them, and a retransmission of what the handlers saw is
\* answered with the ACK or RST that answered it (handleRx, putServerTransaction,
\* setServerTransactionReply).
THEOREM ServerIsConsistent == Spec => []ServerConsistent
<1>1. ServerInv => ServerConsistent
  BY DEF ServerInv, ServerConsistent
<1> QED
  BY <1>1, ServerInvInit, ServerInvStep, PTL DEF Spec

-----------------------------------------------------------------------------
(* How long a message is remembered: for the lifetime of its type, counted *)
(* from its first receipt.                                                 *)

\* What is left of the lifetime that an exchange had when it began.
Left(id) == Lifetime(kind[id]) - Age(id)

\* Nothing is retransmitted for longer than its type allows.
WindowBounded == \A id \in RemoteId : window[id] <= WindowOf(kind[id])

\* What the handlers saw, may come again, and made no room for anything is listed
\* for what is left of its lifetime.
Listed(id) ==
    \E e \in Entries(server_transactions) : e.message_id = id /\ e.ttl >= Left(id)

Remembered ==
    \A id \in RemoteId \ evicted : Repeatable(id) /\ Left(id) > 0 => Listed(id)

\* What was handled again was not CON, and outlived its lifetime.
Outlived ==
    \A id \in RemoteId : handled[id] = 2 /\ id \notin evicted
        => kind[id] = "NON" /\ Left(id) <= 0

MemoryInv == WindowBounded /\ Remembered /\ Outlived

\* What is left of a lifetime depends on the exchange only, and is a whole number.
LEMMA LeftIs ==
    ASSUME ServerInv, NEW id \in RemoteId
    PROVE  /\ Left(id) \in Int
           /\ Left(id) = Lifetime(kind[id]) - (WindowOf(kind[id]) - window[id])
           /\ kind[id] = "CON" => Left(id) = window[id]
<1>1. /\ kind[id] \in {"CON", "NON"} /\ window[id] \in Nat
      /\ Lifetime(kind[id]) \in Nat /\ WindowOf(kind[id]) \in Nat
  BY Lifetimes DEF ServerInv, ServerTypeOK
<1>2. kind[id] = "CON" => Lifetime(kind[id]) = WindowOf(kind[id])
  BY DEF Lifetime, WindowOf
<1> QED
  BY <1>1, <1>2 DEF Left, Age

\* A live entry stays, or its id counts as evicted.
LEMMA LiveStays ==
    ASSUME ServerInv, NEW e \in Entries(server_transactions), e.ttl > 0,
           e.message_id \notin Evicted
    PROVE  \E x \in Entries(server_transactions') : x.message_id = e.message_id
<1>1. PICK i \in DOMAIN server_transactions : server_transactions[i] = e
  BY DEF Entries
<1>2. e.message_id \in Ids(server_transactions')
  BY <1>1 DEF Evicted
<1> QED
  BY <1>2 DEF Ids, Entries

\* Two entries of the list with one id are one.
LEMMA SameEntry ==
    ASSUME ServerInv, NEW e \in Entries(server_transactions),
           NEW x \in Entries(server_transactions), e.message_id = x.message_id
    PROVE  e = x
BY ServerList DEF Entries, Once

\* When a message is handled, it is listed for its lifetime, and the others are as
\* they were or were evicted.
LEMMA HandleRemembers ==
    ASSUME ServerInv, Remembered, NEW id \in RemoteId, NEW type \in {"CON", "NON"},
           NEW followUp \in Reply, Handle(id, type, followUp),
           window' \in [RemoteId -> Nat], kind'[id] = type, window'[id] <= WindowOf(type),
           \A q \in RemoteId \ {id} : /\ window'[q] = window[q] /\ handled'[q] = handled[q]
                                       /\ kind'[q] = kind[q],
           evicted \subseteq evicted' \cup {id}, Evicted \subseteq evicted'
    PROVE  Remembered'
<1>1. /\ \A x \in Entries(server_transactions') :
            x.message_id = id \/ x \in Entries(server_transactions)
      /\ Lifetime(type) > 0 =>
            \E x \in Entries(server_transactions') :
               x.message_id = id /\ x.ttl = Lifetime(type)
  BY HandledList
<1>2. ASSUME Left(id)' > 0 PROVE Listed(id)'
  <2>1. Left(id)' = Lifetime(type) - (WindowOf(type) - window'[id])
    BY DEF Left, Age, Lifetime, WindowOf
  <2>2. Lifetime(type) \in Nat /\ WindowOf(type) \in Nat /\ window'[id] \in Nat
    BY Lifetimes
  <2>3. Lifetime(type) > 0 /\ Lifetime(type) >= Left(id)'
    BY <1>2, <2>1, <2>2
  <2>4. PICK x \in Entries(server_transactions') : x.message_id = id /\ x.ttl = Lifetime(type)
    BY <1>1, <2>3
  <2> QED
    BY <2>3, <2>4 DEF Listed, Entries
<1>3. ASSUME NEW q \in RemoteId \ evicted', q # id, window'[q] > 0, handled'[q] > 0,
             Left(q)' > 0
      PROVE  Listed(q)'
  <2>0. Left(q)' = Left(q)
    BY <1>3 DEF Left, Age, Lifetime, WindowOf
  <2>1. Repeatable(q) /\ Left(q) > 0 /\ q \notin evicted /\ q \notin Evicted
    BY <1>3, <2>0 DEF Repeatable
  <2>2. PICK e \in Entries(server_transactions) : e.message_id = q /\ e.ttl >= Left(q)
    BY <2>1 DEF Remembered, Listed
  <2>3. e.ttl > 0
    BY <2>1, <2>2, LeftIs, EntryTypes
  <2>4. PICK x \in Entries(server_transactions') : x.message_id = q
    BY <2>1, <2>2, <2>3, LiveStays
  <2>5. x = e
    BY <1>1, <1>3, <2>2, <2>4, SameEntry
  <2> QED
    BY <2>0, <2>2, <2>4, <2>5 DEF Listed
<1> QED
  BY <1>2, <1>3 DEF Remembered, Repeatable

\* When nothing is handled, the live entries stay.
LEMMA OthersRemember ==
    ASSUME ServerInv, Remembered,
           \/ Becomes(DropExpired(server_transactions))
           \/ \E id \in RemoteId, r \in Reply :
                Becomes(SetReply(DropExpired(server_transactions), id, r)),
           \A q \in RemoteId \ evicted' : (Repeatable(q))' =>
               /\ Repeatable(q) /\ window'[q] = window[q] /\ q \notin evicted
               /\ kind'[q] = kind[q]
    PROVE  Remembered'
<1>1. ASSUME NEW e \in Entries(server_transactions), e.ttl > 0
      PROVE  \E x \in Entries(server_transactions') :
                x.message_id = e.message_id /\ x.ttl = e.ttl
  <2>1. CASE Becomes(DropExpired(server_transactions))
    BY <1>1, <2>1, ServerList, DroppedList DEF Becomes
  <2>2. ASSUME NEW id \in RemoteId, NEW r \in Reply,
               Becomes(SetReply(DropExpired(server_transactions), id, r))
        PROVE  \E x \in Entries(server_transactions') :
                  x.message_id = e.message_id /\ x.ttl = e.ttl
    <3>1. Answered(e, id, r) \in Entries(server_transactions')
      BY <1>1, <2>2, ServerList, AnsweredList DEF Becomes
    <3>2. e \in Entry
      BY EntryTypes
    <3> QED
      BY <3>1, <3>2, AnsweredEntry
  <2> QED
    BY <2>1, <2>2
<1>2. ASSUME NEW q \in RemoteId \ evicted', (Repeatable(q))', Left(q)' > 0
      PROVE  Listed(q)'
  <2>1. Repeatable(q) /\ q \notin evicted /\ Left(q)' = Left(q) /\ Left(q) > 0
    BY <1>2 DEF Left, Age, Lifetime, WindowOf
  <2>2. PICK e \in Entries(server_transactions) : e.message_id = q /\ e.ttl >= Left(q)
    BY <2>1 DEF Remembered, Listed
  <2>3. e.ttl > 0
    BY <2>1, <2>2, LeftIs, EntryTypes
  <2> QED
    BY <1>1, <2>1, <2>2, <2>3 DEF Listed
<1> QED
  BY <1>2 DEF Remembered

LEMMA MemoryStep ==
    ASSUME ServerInv, MemoryInv, [Next]_vars
    PROVE  MemoryInv'
<1> USE DEF MemoryInv
<1>0. /\ handled \in [RemoteId -> 0 .. 2] /\ evicted \subseteq RemoteId
      /\ window \in [RemoteId -> Nat] /\ kind \in [RemoteId -> {"CON", "NON"}]
      /\ \A type \in {"CON", "NON"} :
            WindowOf(type) \in Nat /\ Lifetime(type) \in Nat
  BY Lifetimes DEF ServerInv, ServerTypeOK
<1>1. ASSUME NEW id \in RemoteId, NEW type \in {"CON", "NON"}, NEW followUp \in Reply,
             ReceiveFresh(id, type, followUp)
      PROVE  MemoryInv'
  <2>1. /\ Handle(id, type, followUp)
        /\ window' = [window EXCEPT ![id] = WindowOf(type)]
        /\ kind' = [kind EXCEPT ![id] = type]
        /\ handled' = [handled EXCEPT ![id] = 1]
        /\ evicted' = (evicted \ {id}) \cup Evicted
    BY <1>1 DEF ReceiveFresh, Start
  <2>2. /\ window'[id] = WindowOf(type) /\ kind'[id] = type /\ handled'[id] = 1
        /\ \A q \in RemoteId \ {id} : /\ window'[q] = window[q] /\ handled'[q] = handled[q]
                                      /\ kind'[q] = kind[q]
        /\ window' \in [RemoteId -> Nat]
    BY <1>0, <2>1
  <2>3. WindowBounded'
    BY <1>0, <2>2 DEF WindowBounded
  <2>4. Outlived'
    <3> SUFFICES ASSUME NEW q \in RemoteId, handled'[q] = 2, q \notin evicted'
                 PROVE  kind'[q] = "NON" /\ Left(q)' <= 0
      BY DEF Outlived
    <3>1. q # id /\ handled[q] = 2 /\ q \notin evicted
      BY <2>1, <2>2
    <3>2. Left(q)' = Left(q)
      BY <2>2, <3>1 DEF Left, Age, Lifetime, WindowOf
    <3> QED
      BY <2>2, <3>1, <3>2 DEF Outlived
  <2>5. Remembered'
    BY <1>0, <2>1, <2>2, HandleRemembers
  <2> QED
    BY <2>3, <2>4, <2>5
<1>2. ASSUME NEW id \in RemoteId, NEW followUp \in Reply, ReceiveForgotten(id, followUp)
      PROVE  MemoryInv'
  <2>1. /\ Handle(id, kind[id], followUp) /\ window[id] > 0
        /\ window' = window /\ kind' = kind
        /\ handled' = [handled EXCEPT ![id] = IF handled[id] = 0 THEN 1 ELSE 2]
        /\ evicted' = evicted \cup Evicted
    BY <1>2 DEF ReceiveForgotten
  <2>2. /\ \A q \in RemoteId \ {id} : handled'[q] = handled[q]
        /\ handled'[id] = IF handled[id] = 0 THEN 1 ELSE 2
    BY <1>0, <2>1
  <2>3. kind[id] \in {"CON", "NON"} /\ window[id] \in Nat /\ window[id] <= WindowOf(kind[id])
    BY <1>0 DEF WindowBounded
  <2>4. \A q \in RemoteId : Left(q)' = Left(q)
    BY <2>1 DEF Left, Age, Lifetime, WindowOf
  <2>5. Remembered'
    BY <1>0, <2>1, <2>2, <2>3, HandleRemembers
  \* Its entry was gone: it was evicted, had outlived its lifetime, or the handlers had
  \* not seen it.
  <2>6. handled[id] # 0 /\ id \notin evicted => kind[id] = "NON" /\ Left(id) <= 0
    <3> SUFFICES ASSUME handled[id] # 0, id \notin evicted, Left(id) > 0 PROVE FALSE
      BY <2>1, <2>3, LeftIs
    <3>1. Repeatable(id)
      BY <1>0, <2>1 DEF Repeatable
    <3>2. PICK e \in Entries(server_transactions) : e.message_id = id /\ e.ttl >= Left(id)
      BY <3>1 DEF Remembered, Listed
    <3>3. e.ttl > 0
      BY <3>2, LeftIs, EntryTypes
    <3> QED
      BY <2>1, <2>3, <3>2, <3>3, HandledList
  <2>7. Outlived'
    BY <2>1, <2>2, <2>4, <2>6 DEF Outlived
  <2>8. WindowBounded'
    BY <2>1 DEF WindowBounded
  <2> QED
    BY <2>5, <2>7, <2>8
<1>3. ASSUME NEW id \in RemoteId, NEW type \in {"CON", "NON"}, ReceiveSwallowed(id, type)
      PROVE  MemoryInv'
  <2>1. /\ Becomes(DropExpired(server_transactions))
        /\ window' = [window EXCEPT ![id] = WindowOf(type)]
        /\ kind' = [kind EXCEPT ![id] = type]
        /\ handled' = [handled EXCEPT ![id] = 0]
        /\ evicted' = evicted \ {id}
    BY <1>3 DEF ReceiveSwallowed, Ignore, Start
  <2>2. /\ window'[id] = WindowOf(type) /\ kind'[id] = type /\ handled'[id] = 0
        /\ \A q \in RemoteId \ {id} : /\ window'[q] = window[q] /\ handled'[q] = handled[q]
                                      /\ kind'[q] = kind[q]
    BY <1>0, <2>1
  <2>3. WindowBounded'
    BY <1>0, <2>2 DEF WindowBounded
  <2>4. Outlived'
    <3> SUFFICES ASSUME NEW q \in RemoteId, handled'[q] = 2, q \notin evicted'
                 PROVE  kind'[q] = "NON" /\ Left(q)' <= 0
      BY DEF Outlived
    <3>1. q # id /\ handled[q] = 2 /\ q \notin evicted
      BY <2>1, <2>2
    <3>2. Left(q)' = Left(q)
      BY <2>2, <3>1 DEF Left, Age, Lifetime, WindowOf
    <3> QED
      BY <2>2, <3>1, <3>2 DEF Outlived
  <2>5. \A q \in RemoteId \ evicted' : (Repeatable(q))' =>
           /\ Repeatable(q) /\ window'[q] = window[q] /\ q \notin evicted
           /\ kind'[q] = kind[q]
    BY <2>1, <2>2 DEF Repeatable
  <2>6. Remembered'
    BY <2>1, <2>5, OthersRemember
  <2> QED
    BY <2>3, <2>4, <2>6
<1>4. ASSUME UNCHANGED <<window, kind, handled, evicted>>,
             \/ Becomes(DropExpired(server_transactions))
             \/ \E id \in RemoteId, r \in Reply :
                  Becomes(SetReply(DropExpired(server_transactions), id, r))
      PROVE  MemoryInv'
  <2>1. Remembered'
    BY <1>4, OthersRemember DEF Repeatable
  <2> QED
    BY <1>4, <2>1 DEF WindowBounded, Outlived, Left, Age, WindowOf, Lifetime
<1>5. ASSUME NEW id \in RemoteId, NEW r \in {"ACK", "RST"}, SendReplyLater(id, r)
      PROVE  MemoryInv'
  BY <1>4, <1>5 DEF SendReplyLater, Reply
<1>6. ASSUME NEW id \in RemoteId, ReceiveDuplicate(id)
      PROVE  MemoryInv'
  BY <1>4, <1>6 DEF ReceiveDuplicate, Ignore, historyVars
<1>7. ASSUME NEW id \in RemoteId, ReceivePing(id)
      PROVE  MemoryInv'
  BY <1>4, <1>7 DEF ReceivePing, Reply, historyVars
<1>8. ASSUME LogServerTransactions PROVE MemoryInv'
  BY <1>4, <1>8 DEF LogServerTransactions, historyVars
<1>9. ASSUME Tick PROVE MemoryInv'
  <2>1. /\ UNCHANGED <<kind, handled, evicted>>
        /\ \A q \in RemoteId : window'[q] = IF window[q] > 0 THEN window[q] - 1 ELSE 0
    BY <1>9 DEF Tick
  <2>2. WindowBounded'
    <3> SUFFICES ASSUME NEW q \in RemoteId PROVE window'[q] <= WindowOf(kind[q])
      BY <2>1 DEF WindowBounded
    <3>1. window[q] \in Nat /\ WindowOf(kind[q]) \in Nat /\ window[q] <= WindowOf(kind[q])
      BY <1>0 DEF WindowBounded
    <3>2. (IF window[q] > 0 THEN window[q] - 1 ELSE 0) <= WindowOf(kind[q])
      BY <3>1
    <3> QED
      BY <2>1, <3>2
  <2>3. \A q \in RemoteId : Left(q)' = Left(q) - (window[q] - window'[q])
    <3> SUFFICES ASSUME NEW q \in RemoteId
                 PROVE  Left(q)' = Left(q) - (window[q] - window'[q])
      OBVIOUS
    <3>1. Left(q)' = Lifetime(kind[q]) - (WindowOf(kind[q]) - window'[q])
      BY <2>1 DEF Left, Age, Lifetime, WindowOf
    <3>2. /\ Lifetime(kind[q]) \in Nat /\ WindowOf(kind[q]) \in Nat
          /\ window[q] \in Nat /\ window'[q] \in Nat
      BY <1>0, <2>1
    <3>3. Left(q) = Lifetime(kind[q]) - (WindowOf(kind[q]) - window[q])
      BY LeftIs
    <3> QED
      BY <3>1, <3>2, <3>3
  <2>4. Remembered'
    <3> SUFFICES ASSUME NEW q \in RemoteId \ evicted, window'[q] > 0, handled[q] > 0,
                        Left(q)' > 0
                 PROVE  Listed(q)'
      BY <2>1 DEF Remembered, Repeatable
    <3>1. window[q] \in Nat /\ window[q] > 0 /\ window'[q] = window[q] - 1
      BY <1>0, <2>1
    <3>2. Left(q)' = Left(q) - 1 /\ Left(q) \in Int
      BY <2>3, <3>1, LeftIs
    <3>3. PICK e \in Entries(server_transactions) : e.message_id = q /\ e.ttl >= Left(q)
      BY <3>1, <3>2 DEF Remembered, Repeatable, Listed
    <3>4. PICK x \in Entries(server_transactions') :
             x.message_id = q /\ x.ttl = IF e.ttl > 0 THEN e.ttl - 1 ELSE 0
      BY <1>9, <3>3, TickStep
    <3>5. e.ttl \in Nat
      BY EntryTypes
    <3>6. x.ttl >= Left(q)'
      BY <3>2, <3>3, <3>4, <3>5
    <3> QED
      BY <3>4, <3>6 DEF Listed
  <2>5. Outlived'
    <3> SUFFICES ASSUME NEW q \in RemoteId, handled[q] = 2, q \notin evicted
                 PROVE  kind'[q] = "NON" /\ Left(q)' <= 0
      BY <2>1 DEF Outlived
    <3>1. Left(q) <= 0 /\ kind[q] = "NON"
      BY DEF Outlived
    <3>2. Left(q) \in Int /\ window[q] \in Nat /\ window'[q] \in Nat /\ window'[q] <= window[q]
      BY <1>0, <2>1, LeftIs
    <3> QED
      BY <2>1, <2>3, <3>1, <3>2
  <2> QED
    BY <2>2, <2>4, <2>5
<1>Z. CASE UNCHANGED vars
  BY <1>Z DEF vars, WindowBounded, Remembered, Repeatable, Listed, Outlived, Left, Age,
              WindowOf, Lifetime
<1> QED
  BY <1>1, <1>2, <1>3, <1>5, <1>6, <1>7, <1>8, <1>9, <1>Z DEF Next

LEMMA MemoryInit == Init => MemoryInv
BY Lifetimes DEF Init, MemoryInv, WindowBounded, Remembered, Repeatable,
    Outlived

\* The inductive invariant of the memory of the list.
THEOREM MessagesRemembered == Spec => [](ServerInv /\ MemoryInv)
<1>1. Init => ServerInv /\ MemoryInv
  BY ServerInvInit, MemoryInit
<1>2. ServerInv /\ MemoryInv /\ [Next]_vars => ServerInv' /\ MemoryInv'
  BY ServerInvStep, MemoryStep
<1> QED
  BY <1>1, <1>2, PTL DEF Spec

\* Whatever the lifetimes are, and whatever the remote peer does with NON messages,
\* the handlers see a CON message again only if its entry was dropped for another
\* one (handleRx, dropExpiredServerTransactions, putServerTransaction).
THEOREM ConfirmableOnce ==
    Spec => [](\A id \in RemoteId : kind[id] = "CON" /\ handled[id] = 2 => id \in evicted)
<1>1. MemoryInv => \A id \in RemoteId : kind[id] = "CON" /\ handled[id] = 2 => id \in evicted
  BY DEF MemoryInv, Outlived
<1> QED
  BY <1>1, MessagesRemembered, PTL

\* Whatever the lifetimes are and however long the remote peer repeats a NON message,
\* the handlers see an exchange again only if its entry was dropped for another one,
\* or after the NON_LIFETIME that the code computes (handleRx, putServerTransaction).
THEOREM OnceUnlessEvicted == Spec => []HandledOnceUnlessEvicted
<1>1. ASSUME ServerInv, MemoryInv PROVE HandledOnceUnlessEvicted
  <2> SUFFICES ASSUME NEW id \in RemoteId, handled[id] = 2, id \notin evicted
               PROVE  kind[id] = "NON" /\ Age(id) >= NON_LIFETIME
    BY DEF HandledOnceUnlessEvicted
  <2>1. kind[id] = "NON" /\ Left(id) <= 0
    BY <1>1 DEF MemoryInv, Outlived
  <2>2. NON_LIFETIME \in Nat /\ WindowOf("NON") \in Nat /\ window[id] \in Nat
    BY <1>1, Lifetimes DEF ServerInv, ServerTypeOK
  <2>3. Age(id) = WindowOf("NON") - window[id] /\ Left(id) = NON_LIFETIME - Age(id)
    BY <2>1 DEF Left, Age, Lifetime
  <2> QED
    BY <2>1, <2>2, <2>3
<1> QED
  BY <1>1, MessagesRemembered, PTL

=============================================================================
