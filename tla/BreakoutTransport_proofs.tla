----------------------- MODULE BreakoutTransport_proofs -----------------------
(***************************************************************************)
(* Proofs about the connection, for every depth to which reinitializations *)
(* nest, every number of retries and of slots, every set of alerts, and    *)
(* sockets, registrations and power that come and go.                      *)
(***************************************************************************)
EXTENDS BreakoutTransport, FiniteSetTheorems, SequenceTheorems, TLAPS

(***************************************************************************)
(* The invariant, a conjunct for each part of the state that changes       *)
(* together.                                                               *)
(***************************************************************************)
Network ==
    /\ powered \in BOOLEAN
    /\ eps_registration_status \in {"not_registered", "registered", "denied"}

\* Whoever has a session has the context it lives in, until a null context is used.
SessionHasContext == fault = "none" /\ dtls.session # "none" => dtls.context

Client ==
    /\ dtls \in DTLSClient
    /\ fault \in {"none", "null_context", "client_deleted"}
    /\ SessionHasContext
    /\ ReadyMeansUp

Slots ==
    /\ polls \in 0 .. NSTART
    /\ stack \in Seq(Frame) /\ Len(stack) <= MaxDepth
    /\ PollsFit

News ==
    /\ coap_status \in BOOLEAN
    /\ dead \in BOOLEAN
    /\ told \in Status
    /\ ToldLatest

TransportInv == Network /\ Client /\ Slots /\ News

-----------------------------------------------------------------------------
(* The stack of running reinitializations.                                 *)

\* Does the frame hold the slot of a Heartbeat that is timing out?
Holds(f) == IF f.caller = "timeout" THEN 1 ELSE 0

\* The frames that hold a slot: finitely many.
LEMMA TimingOutNat ==
    ASSUME NEW s \in Seq(Frame)
    PROVE  /\ IsFiniteSet({i \in DOMAIN s : s[i].caller = "timeout"})
           /\ TimingOut(s) \in Nat
<1>1. DOMAIN s = 1 .. Len(s) /\ Len(s) \in Nat
  BY LenProperties
<1>2. IsFiniteSet(1 .. Len(s))
  BY <1>1, FS_Interval
<1>3. IsFiniteSet({i \in DOMAIN s : s[i].caller = "timeout"})
  BY <1>1, <1>2, FS_Subset
<1> QED
  BY <1>3, FS_CardinalityType DEF TimingOut

\* A frame on top of the others adds its slot to theirs.
LEMMA Pushed ==
    ASSUME NEW s \in Seq(Frame), NEW f \in Frame
    PROVE  /\ <<f>> \o s \in Seq(Frame)
           /\ Len(<<f>> \o s) = Len(s) + 1
           /\ <<f>> \o s # <<>>
           /\ Head(<<f>> \o s) = f /\ Tail(<<f>> \o s) = s
           /\ TimingOut(<<f>> \o s) = TimingOut(s) + Holds(f)
<1> DEFINE t == <<f>> \o s
           A == {i \in DOMAIN s : s[i].caller = "timeout"}
           B == {i \in DOMAIN t : t[i].caller = "timeout"}
           up == [i \in A |-> i + 1]
           C == {up[i] : i \in A}
<1>1. /\ DOMAIN s = 1 .. Len(s) /\ Len(s) \in Nat
      /\ <<f>> \in Seq(Frame) /\ Len(<<f>>) = 1
  BY LenProperties
<1>2. /\ t \in Seq(Frame) /\ Len(t) = Len(s) + 1 /\ DOMAIN t = 1 .. Len(s) + 1
      /\ t[1] = f
      /\ \A i \in 1 .. Len(s) : t[i + 1] = s[i]
  BY <1>1, ConcatProperties, LenProperties
<1>3. t # <<>> /\ Head(t) = f
  BY <1>1, <1>2
<1>4. Tail(t) = s
  <2>1. /\ Tail(t) \in Seq(Frame) /\ Len(Tail(t)) = Len(s)
        /\ \A i \in 1 .. Len(s) : Tail(t)[i] = t[i + 1]
    BY <1>1, <1>2, <1>3, HeadTailProperties
  <2> QED
    BY <1>1, <1>2, <2>1, SeqEqual
<1>5. IsFiniteSet(A) /\ Cardinality(A) \in Nat
  BY TimingOutNat DEF TimingOut
<1>6. IsFiniteSet(C) /\ Cardinality(C) = Cardinality(A)
  <2>1. \A i, j \in A : up[i] = up[j] => i = j
    BY <1>1
  <2>2. up \in Injection(A, C)
    BY <2>1 DEF Injection, IsInjective
  <2>3. \A c \in C : \E i \in A : up[i] = c
    OBVIOUS
  <2>4. up \in Surjection(A, C)
    BY <2>3 DEF Surjection
  <2>5. ExistsBijection(A, C)
    BY <2>2, <2>4 DEF ExistsBijection, Bijection
  <2> QED
    BY <1>5, <2>5, FS_Bijection
<1>7. 1 \notin C
  <2>1. ASSUME NEW i \in A PROVE up[i] # 1
    BY <1>1, <2>1
  <2> QED
    BY <2>1
<1>8. B = IF f.caller = "timeout" THEN C \cup {1} ELSE C
  <2>1. \A i \in A : i + 1 \in B
    BY <1>1, <1>2
  <2>2. \A i \in B : i # 1 => i - 1 \in A /\ i = up[i - 1]
    <3> SUFFICES ASSUME NEW i \in B, i # 1
                 PROVE  i - 1 \in A /\ i = up[i - 1]
      OBVIOUS
    <3>1. i - 1 \in 1 .. Len(s) /\ (i - 1) + 1 = i
      BY <1>1, <1>2
    <3>2. t[i] = s[i - 1]
      BY <1>2, <3>1
    <3> QED
      BY <1>1, <3>1, <3>2
  <2>3. 1 \in B <=> f.caller = "timeout"
    BY <1>1, <1>2
  <2>4. C \subseteq B
    BY <2>1
  <2>5. B \subseteq C \cup {1}
    BY <2>2
  <2> QED
    BY <1>7, <2>3, <2>4, <2>5
<1>9. Cardinality(B) = Cardinality(A) + Holds(f)
  <2> HIDE DEF A, B, C
  <2>1. Cardinality(C \cup {1}) = Cardinality(C) + 1
    BY <1>6, <1>7, FS_AddElement
  <2> QED
    BY <1>5, <1>6, <1>8, <2>1 DEF Holds
<1> QED
  BY <1>2, <1>3, <1>4, <1>9 DEF TimingOut

\* What is left when the innermost call returns.
LEMMA Popped ==
    ASSUME NEW s \in Seq(Frame), s # <<>>
    PROVE  /\ Head(s) \in Frame
           /\ Tail(s) \in Seq(Frame)
           /\ Len(Tail(s)) = Len(s) - 1
           /\ TimingOut(Tail(s)) + Holds(Head(s)) = TimingOut(s)
<1>1. /\ Head(s) \in Frame /\ Tail(s) \in Seq(Frame) /\ Len(Tail(s)) = Len(s) - 1
      /\ s = <<Head(s)>> \o Tail(s)
  BY HeadTailProperties, SequencesInductionTail
<1> QED
  BY <1>1, Pushed

\* A retry is counted in the innermost frame, and changes no caller.
LEMMA Retried ==
    ASSUME NEW s \in Seq(Frame), s # <<>>, Head(s).retries > 0
    PROVE  LET t == [s EXCEPT ![1].retries = @ - 1] IN
           /\ t \in Seq(Frame) /\ Len(t) = Len(s)
           /\ TimingOut(t) = TimingOut(s)
<1> DEFINE t == [s EXCEPT ![1].retries = @ - 1]
<1>1. /\ DOMAIN s = 1 .. Len(s) /\ Len(s) \in Nat \ {0} /\ s[1] = Head(s)
      /\ \A i \in 1 .. Len(s) : s[i] \in Frame
  BY LenProperties, EmptySeq
<1>2. t[1] = [s[1] EXCEPT !.retries = s[1].retries - 1]
  BY <1>1
<1>3. s[1].retries - 1 \in 0 .. RETRIES
  BY <1>1, TransportConstants DEF Frame
<1>4. t[1] \in Frame /\ t[1].caller = s[1].caller
  <2> DEFINE k == s[1].retries - 1
  <2>1. k \in 0 .. RETRIES /\ s[1] \in Frame /\ t[1] = [s[1] EXCEPT !.retries = k]
    BY <1>1, <1>2, <1>3
  <2> HIDE DEF k, t
  <2> QED
    BY <2>1 DEF Frame
<1>5. /\ DOMAIN t = 1 .. Len(s)
      /\ \A i \in 1 .. Len(s) : t[i] \in Frame /\ t[i].caller = s[i].caller
  BY <1>1, <1>4
<1>6. t \in Seq(Frame) /\ Len(t) = Len(s)
  BY <1>1, <1>5
<1> QED
  BY <1>1, <1>5, <1>6 DEF TimingOut

-----------------------------------------------------------------------------
(* What the operators that the actions share do to the invariant.          *)

\* A reinitialized client is never ready at once, and lives in a context unless
\* it was handed the null one.
LEMMA ReinitializedClient ==
    ASSUME NEW d \in DTLSClient, NEW opened \in BOOLEAN
    PROVE  LET r == Reinitialized(d, opened) IN
           /\ r \in DTLSClient
           /\ r.last_status # "connected"
           /\ \/ r.session = "none" \/ r.context
              \/ UsesNullContext(d, opened)
              \/ d.session # "none" /\ ~ d.context
<1> DEFINE Good(r) == /\ r \in DTLSClient
                     /\ r.last_status # "connected"
                     /\ \/ r.session = "none" \/ r.context
                        \/ UsesNullContext(d, opened)
                        \/ d.session # "none" /\ ~ d.context
<1>1. CASE d.last_status = "close_notify"
  <2>1. CASE opened
    <3>1. Reinitialized(d, opened) = [d EXCEPT !.session = "handshake", !.last_status = "connect"]
      BY <1>1, <2>1 DEF Reinitialized, Connect
    <3> QED
      BY <1>1, <2>1, <3>1 DEF DTLSClient, UsesNullContext
  <2>2. CASE ~ opened
    <3>1. Reinitialized(d, opened) = [d EXCEPT !.session = "none", !.context = FALSE]
      BY <1>1, <2>2 DEF Reinitialized, Connect
    <3> QED
      BY <1>1, <3>1 DEF DTLSClient
  <2> QED
    BY <2>1, <2>2
<1>2. CASE d.last_status \in {"connect", "connected"}
  <2>1. Reinitialized(d, opened) = Connect(NewClient, opened)
    BY <1>2 DEF Reinitialized
  <2>2. CASE opened
    <3>1. Reinitialized(d, opened) =
            [context |-> TRUE, session |-> "handshake", last_status |-> "connect"]
      BY <2>1, <2>2 DEF Connect, NewClient
    <3> QED
      BY <3>1 DEF DTLSClient
  <2>3. CASE ~ opened
    <3>1. Reinitialized(d, opened) =
            [context |-> FALSE, session |-> "none", last_status |-> "close_notify"]
      BY <2>1, <2>3 DEF Connect, NewClient
    <3> QED
      BY <3>1 DEF DTLSClient
  <2> QED
    BY <2>2, <2>3
<1>3. CASE d.last_status = "other"
  <2>1. Reinitialized(d, opened) = d
    BY <1>3 DEF Reinitialized
  <2> QED
    BY <1>3, <2>1 DEF DTLSClient
<1> QED
  BY <1>1, <1>2, <1>3 DEF DTLSClient

LEMMA ReinitializeStep ==
    ASSUME fault = "none", NEW d \in DTLSClient, d.session # "none" => d.context,
           NEW opened \in BOOLEAN, NEW frames,
           dtls' = Reinitialized(d, opened), fault' = FaultOf(d, opened, frames)
    PROVE  Client'
<1>1. /\ dtls' \in DTLSClient
      /\ dtls'.last_status # "connected"
      /\ dtls'.session = "none" \/ dtls'.context \/ UsesNullContext(d, opened)
  BY ReinitializedClient
<1>2. /\ fault' \in {"none", "null_context", "client_deleted"}
      /\ fault' = "none" => ~ UsesNullContext(d, opened)
  BY DEF FaultOf
<1> QED
  BY <1>1, <1>2 DEF Client, SessionHasContext, ReadyMeansUp, TransportIsReady

LEMMA StatusOfType ==
    ASSUME NEW eps, NEW connected \in BOOLEAN
    PROVE  StatusOf(eps, connected) \in Status
BY DEF StatusOf, Status

\* Whatever the end of a reinitialization notifies of is what asking would answer.
LEMMA EndsWithStep ==
    ASSUME Network, News, NEW f, NEW result \in BOOLEAN, EndsWith(f, result),
           \/ UNCHANGED <<powered, eps_registration_status>>
           \/ eps_registration_status' = "not_registered"
    PROVE  News'
<1>1. coap_status' = result
  BY DEF EndsWith
<1>2. CASE coap_status # result \/ (f.caller = "event" /\ ~ result)
  <2>1. /\ told' = StatusOf(eps_registration_status, result)
        /\ dead' \in BOOLEAN
    BY <1>2 DEF EndsWith, Notify, News
  <2> QED
    BY <1>1, <2>1, StatusOfType DEF News, ToldLatest, GetConnectionStatus
<1>3. CASE ~ (coap_status # result \/ (f.caller = "event" /\ ~ result))
  <2>1. told' = told /\ dead' = dead /\ coap_status = result
    BY <1>3 DEF EndsWith
  <2> QED
    BY <1>1, <2>1 DEF News, ToldLatest, GetConnectionStatus
<1> QED
  BY <1>2, <1>3

\* Slots and Heartbeats are numbers.
LEMMA SlotNumbers ==
    ASSUME Slots
    PROVE  /\ polls \in Nat /\ TimingOut(stack) \in Nat /\ NSTART \in Nat
           /\ polls + TimingOut(stack) <= NSTART
           /\ Len(stack) \in Nat /\ MaxDepth \in Nat
<1>1. /\ stack \in Seq(Frame) /\ polls \in 0 .. NSTART
      /\ polls + TimingOut(stack) <= NSTART
  BY DEF Slots, PollsFit
<1>2. TimingOut(stack) \in Nat
  BY <1>1, TimingOutNat
<1>3. Len(stack) \in Nat
  BY <1>1, LenProperties
<1> QED
  BY <1>1, <1>2, <1>3, TransportConstants

\* There is a slot for a Heartbeat that is sent, and it stays in the type.
LEMMA MaybePollStep ==
    ASSUME Slots, MaybePoll(stack)
    PROVE  polls' \in 0 .. NSTART /\ polls' + TimingOut(stack) <= NSTART
<1>1. TimingOut(stack) \in Nat /\ polls \in Nat
  BY SlotNumbers
<1>2. CASE PollMayBeSent(stack) /\ polls' = polls + 1
  <2>1. polls + TimingOut(stack) < NSTART
    BY <1>2 DEF PollMayBeSent
  <2>2. polls + 1 \in 0 .. NSTART /\ (polls + 1) + TimingOut(stack) <= NSTART
    BY <1>1, <2>1, TransportConstants
  <2> QED
    BY <1>2, <2>2
<1>3. CASE polls' = polls
  BY <1>3 DEF Slots, PollsFit
<1> QED
  BY <1>2, <1>3 DEF MaybePoll

\* The innermost reinitialization returns, and its caller may go on to poll.
LEMMA ReturnsStep ==
    ASSUME TransportInv, stack # <<>>, NEW result \in BOOLEAN, Returns(result),
           UNCHANGED <<powered, eps_registration_status>>
    PROVE  Slots' /\ News'
<1>1. News'
  BY EndsWithStep DEF TransportInv, Returns
<1>2. polls' \in 0 .. NSTART /\ polls' + TimingOut(stack) <= NSTART
  <2>1. CASE MaybePoll(stack)
    BY <2>1, MaybePollStep DEF TransportInv
  <2>2. CASE UNCHANGED polls
    BY <2>2 DEF TransportInv, Slots, PollsFit
  <2> QED
    BY <2>1, <2>2 DEF Returns
<1>3. /\ Head(stack) \in Frame
      /\ Tail(stack) \in Seq(Frame)
      /\ Len(Tail(stack)) = Len(stack) - 1
      /\ TimingOut(Tail(stack)) + Holds(Head(stack)) = TimingOut(stack)
  BY Popped DEF TransportInv, Slots
<1>4. stack' = Tail(stack)
  BY DEF Returns
<1>5. PICK p \in 0 .. NSTART : p = polls'
  BY <1>2
<1>6. PICK t \in Seq(Frame) : t = Tail(stack)
  BY <1>3
<1>7. TimingOut(t) \in Nat /\ TimingOut(stack) \in Nat /\ Len(t) \in Nat
  BY TimingOutNat, LenProperties DEF TransportInv, Slots
<1>8. p + TimingOut(t) <= NSTART
  BY <1>2, <1>3, <1>5, <1>6, <1>7, TransportConstants DEF Holds
<1>9. Len(t) <= MaxDepth
  BY <1>3, <1>6, <1>7, TransportConstants DEF TransportInv, Slots
<1>10. Slots'
  BY <1>4, <1>5, <1>6, <1>8, <1>9 DEF Slots, PollsFit
<1> QED
  BY <1>1, <1>10

\* A call begins: it waits on top of the others, or fails at once.  The slot of
\* the Heartbeat whose timing out it serves has left the table.
LEMMA BeginStep ==
    ASSUME TransportInv, fault = "none",
           NEW d \in DTLSClient, d.session # "none" => d.context,
           NEW f \in Frame, NEW opened \in BOOLEAN, Begin(d, f, opened),
           polls' \in Nat, polls' + Holds(f) <= polls,
           \/ UNCHANGED <<powered, eps_registration_status>>
           \/ eps_registration_status' = "not_registered"
    PROVE  Client' /\ Slots' /\ News'
<1>1. Client'
  <2>1. dtls' = Reinitialized(d, opened) /\ fault' = FaultOf(d, opened, <<f>> \o stack)
    BY DEF Begin
  <2> QED
    BY <2>1, ReinitializeStep
<1>2. PICK p \in Nat : p = polls'
  OBVIOUS
<1>3. /\ TimingOut(stack) \in Nat /\ polls \in Nat /\ Holds(f) \in {0, 1}
      /\ polls + TimingOut(stack) <= NSTART /\ NSTART \in Nat
      /\ Len(stack) \in Nat /\ MaxDepth \in Nat
  <2>1. Holds(f) \in {0, 1}
    BY DEF Holds
  <2> QED
    BY <2>1, SlotNumbers DEF TransportInv
<1>4. CASE ReinitializeFails(d, opened)
  <2>1. EndsWith(f, FALSE) /\ stack' = stack
    BY <1>4 DEF Begin
  <2>2. News'
    BY <2>1, EndsWithStep DEF TransportInv
  <2>3. p \in 0 .. NSTART /\ p + TimingOut(stack) <= NSTART
    BY <1>2, <1>3
  <2>4. Slots'
    BY <1>2, <2>1, <2>3 DEF TransportInv, Slots, PollsFit
  <2> QED
    BY <1>1, <2>2, <2>4
<1>5. CASE ~ ReinitializeFails(d, opened)
  <2>1. /\ stack' = <<f>> \o stack
        /\ UNCHANGED <<coap_status, told, dead>>
        /\ Len(stack) < MaxDepth
    BY <1>5 DEF Begin
  <2>2. News'
    BY <2>1 DEF TransportInv, News, ToldLatest, GetConnectionStatus
  <2>3. PICK t \in Seq(Frame) : t = <<f>> \o stack
    BY Pushed DEF TransportInv, Slots
  <2>4. Len(t) = Len(stack) + 1 /\ TimingOut(t) = TimingOut(stack) + Holds(f)
    BY <2>3, Pushed DEF TransportInv, Slots
  <2>5. p \in 0 .. NSTART /\ p + TimingOut(t) <= NSTART /\ Len(t) <= MaxDepth
    BY <1>2, <1>3, <2>1, <2>4
  <2>6. Slots'
    BY <1>2, <2>1, <2>3, <2>5 DEF Slots, PollsFit
  <2> QED
    BY <1>1, <2>2, <2>6
<1> QED
  BY <1>4, <1>5

LEMMA CallType ==
    ASSUME NEW caller \in {"event", "timeout", "check", "application"}, NEW inside \in BOOLEAN
    PROVE  /\ Call(caller, inside) \in Frame
           /\ Holds(Call(caller, inside)) = IF caller = "timeout" THEN 1 ELSE 0
BY TransportConstants DEF Call, Frame, Holds

-----------------------------------------------------------------------------
(* The invariant, action by action.                                        *)

\* What an action that only touches the client leaves as it was.
LEMMA OthersKept ==
    ASSUME TransportInv,
           UNCHANGED <<powered, eps_registration_status, coap_status, told, polls, stack>>,
           dead' \in BOOLEAN, Client'
    PROVE  TransportInv'
BY DEF TransportInv, Network, Slots, PollsFit, News, ToldLatest, GetConnectionStatus

LEMMA ClientKept ==
    ASSUME TransportInv, UNCHANGED <<dtls, fault>>
    PROVE  Client'
BY DEF TransportInv, Client, SessionHasContext, ReadyMeansUp, TransportIsReady

LEMMA InitInv == Init => TransportInv
<1> SUFFICES ASSUME Init PROVE TransportInv
  OBVIOUS
<1>1. Network /\ Client
  BY DEF Init, Network, Client, DTLSClient, SessionHasContext, ReadyMeansUp
<1>2. stack \in Seq(Frame) /\ Len(stack) = 0 /\ TimingOut(stack) = 0
  <2>1. stack = <<>>
    BY DEF Init
  <2>2. {i \in DOMAIN stack : stack[i].caller = "timeout"} = {}
    BY <2>1
  <2> QED
    BY <2>1, <2>2, FS_EmptySet DEF TimingOut
<1>3. Slots
  BY <1>2, TransportConstants DEF Init, Slots, PollsFit
<1>4. News
  BY DEF Init, News, Status, ToldLatest, GetConnectionStatus, StatusOf
<1> QED
  BY <1>1, <1>3, <1>4 DEF TransportInv

LEMMA LoopStep ==
    ASSUME TransportInv, fault = "none", Loop
    PROVE  TransportInv'
<1>1. ASSUME LoopReady PROVE TransportInv'
  BY <1>1, ReturnsStep, ClientKept DEF LoopReady, TransportInv, Network
<1>2. ASSUME LoopGivesUp PROVE TransportInv'
  BY <1>2, ReturnsStep, ClientKept DEF LoopGivesUp, TransportInv, Network
<1>3. ASSUME NEW opened \in Opened, LoopRetries(opened) PROVE TransportInv'
  <2>1. opened \in BOOLEAN
    BY TransportConstants DEF Opened
  <2>2. dtls \in DTLSClient /\ (dtls.session # "none" => dtls.context)
    BY DEF TransportInv, Client, SessionHasContext
  <2>3. Client'
    BY <1>3, <2>1, <2>2, ReinitializeStep DEF LoopRetries
  <2>4. Network'
    BY <1>3 DEF LoopRetries, TransportInv, Network
  <2>5. CASE ReinitializeFails(dtls, opened)
    <3>1. Returns(FALSE) /\ stack # <<>> /\ UNCHANGED <<powered, eps_registration_status>>
      BY <1>3, <2>5 DEF LoopRetries
    <3>2. Slots' /\ News'
      BY <3>1, ReturnsStep
    <3> QED
      BY <2>3, <2>4, <3>2 DEF TransportInv
  <2>6. CASE ~ ReinitializeFails(dtls, opened)
    <3>1. /\ stack # <<>> /\ Head(stack).retries > 0
          /\ stack' = [stack EXCEPT ![1].retries = @ - 1]
          /\ UNCHANGED <<powered, eps_registration_status, coap_status, told, dead, polls>>
      BY <1>3, <2>6 DEF LoopRetries
    <3>2. /\ stack' \in Seq(Frame) /\ Len(stack') = Len(stack)
          /\ TimingOut(stack') = TimingOut(stack)
      BY <3>1, Retried DEF TransportInv, Slots
    <3>3. Slots'
      BY <3>1, <3>2 DEF TransportInv, Slots, PollsFit
    <3>4. News'
      BY <3>1 DEF TransportInv, News, ToldLatest, GetConnectionStatus
    <3> QED
      BY <2>3, <2>4, <3>3, <3>4 DEF TransportInv
  <2> QED
    BY <2>5, <2>6
<1> QED
  BY <1>1, <1>2, <1>3 DEF Loop

LEMMA RegistrationStep ==
    ASSUME TransportInv, NEW stat \in Registrations, RegistrationChanges(stat)
    PROVE  TransportInv'
<1>1. stat \in {"not_registered", "registered", "denied"}
  BY TransportConstants
<1>2. Network' /\ Client'
  BY <1>1, ClientKept DEF RegistrationChanges, TransportInv, Network
<1>3. Slots'
  BY DEF RegistrationChanges, TransportInv, Slots, PollsFit
<1>4. /\ told' = StatusOf(stat, coap_status) /\ dead' \in BOOLEAN
      /\ eps_registration_status' = stat /\ coap_status' = coap_status
  BY DEF RegistrationChanges, Notify, TransportInv, News
<1>5. News'
  BY <1>4, StatusOfType DEF TransportInv, News, ToldLatest, GetConnectionStatus
<1> QED
  BY <1>2, <1>3, <1>5 DEF TransportInv

LEMMA HandshakeEndsStep ==
    ASSUME TransportInv, fault = "none", HandshakeEnds
    PROVE  TransportInv'
<1>1. dtls \in DTLSClient /\ dtls.context
  BY DEF HandshakeEnds, TransportInv, Client, SessionHasContext
<1>2. dtls' = [dtls EXCEPT !.session = "up", !.last_status = "connected"] /\ fault' = fault
  BY DEF HandshakeEnds
<1>3. dtls' \in DTLSClient /\ dtls'.context /\ dtls'.session = "up"
  BY <1>1, <1>2 DEF DTLSClient
<1>4. Client'
  BY <1>2, <1>3 DEF TransportInv, Client, SessionHasContext, ReadyMeansUp
<1> QED
  BY <1>4, OthersKept DEF HandshakeEnds, TransportInv, News

\* Whatever the alert, the client is no longer ready, and keeps its context.
LEMMA AlertedClient ==
    ASSUME TransportInv, fault = "none", dtls.session # "none",
           NEW level, NEW description \in {"close_notify", "other"}
    PROVE  LET d == Alerted(level, description) IN
           d \in DTLSClient /\ d.context /\ d.last_status = description
<1>1. dtls \in DTLSClient /\ dtls.context
  BY DEF TransportInv, Client, SessionHasContext
<1> QED
  BY <1>1 DEF Alerted, DTLSClient

LEMMA AlertStep ==
    ASSUME TransportInv, fault = "none", NEW a \in Alerts, NEW opened \in Opened,
           AlertArrives(a[1], a[2], opened)
    PROVE  TransportInv'
<1> DEFINE d == Alerted(a[1], a[2])
<1>1. opened \in BOOLEAN /\ a[2] \in {"close_notify", "other"}
  BY TransportConstants DEF Opened
<1>2. /\ d \in DTLSClient /\ d.context /\ d.last_status = a[2]
      /\ UNCHANGED <<powered, eps_registration_status, polls>>
  BY <1>1, AlertedClient DEF AlertArrives
<1>3. CASE a[1] = "fatal" /\ coap_status
  <2>1. Begin(d, Call("event", TRUE), opened)
    BY <1>3 DEF AlertArrives
  <2>2. Call("event", TRUE) \in Frame /\ Holds(Call("event", TRUE)) = 0
    BY CallType
  <2>3. polls' \in Nat /\ polls' + 0 <= polls
    BY <1>2, TransportConstants DEF TransportInv, Slots
  <2>4. Client' /\ Slots' /\ News'
    <3> HIDE DEF d
    <3> QED
      BY <1>1, <1>2, <2>1, <2>2, <2>3, BeginStep
  <2> QED
    BY <1>2, <2>4 DEF TransportInv, Network
<1>4. CASE ~ (a[1] = "fatal" /\ coap_status)
  <2>1. dtls' = d /\ UNCHANGED <<coap_status, dead, told, stack, fault>>
    BY <1>4 DEF AlertArrives
  <2>2. Client'
    BY <1>1, <1>2, <2>1 DEF TransportInv, Client, SessionHasContext, ReadyMeansUp, TransportIsReady
  <2> QED
    BY <1>2, <2>1, <2>2, OthersKept DEF TransportInv, News
<1> QED
  BY <1>3, <1>4

LEMMA PollAnsweredStep ==
    ASSUME TransportInv, PollAnswered
    PROVE  TransportInv'
<1>1. polls - 1 \in 0 .. NSTART /\ (polls - 1) + TimingOut(stack) <= NSTART
  BY SlotNumbers DEF PollAnswered, TransportInv
<1>2. Slots'
  BY <1>1 DEF PollAnswered, TransportInv, Slots, PollsFit
<1>3. Network' /\ News'
  BY DEF PollAnswered, TransportInv, Network, News, ToldLatest, GetConnectionStatus
<1>4. Client'
  BY ClientKept DEF PollAnswered
<1> QED
  BY <1>2, <1>3, <1>4 DEF TransportInv

LEMMA PollTimesOutStep ==
    ASSUME TransportInv, fault = "none", NEW inside \in BOOLEAN, NEW opened \in Opened,
           PollTimesOut(inside, opened)
    PROVE  TransportInv'
<1> DEFINE f == Call("timeout", inside)
<1>1. opened \in BOOLEAN /\ f \in Frame /\ Holds(f) = 1
  BY CallType, TransportConstants DEF Opened
<1>2. dtls \in DTLSClient /\ (dtls.session # "none" => dtls.context)
  BY DEF TransportInv, Client, SessionHasContext
<1>3. /\ polls' = polls - 1 /\ polls > 0 /\ Begin(dtls, f, opened)
      /\ UNCHANGED <<powered, eps_registration_status>>
  BY DEF PollTimesOut
<1>4. polls - 1 \in Nat /\ (polls - 1) + 1 <= polls
  BY <1>3, TransportConstants DEF TransportInv, Slots
<1>5. polls' \in Nat /\ polls' + Holds(f) <= polls
  BY <1>1, <1>3, <1>4
<1>6. Client' /\ Slots' /\ News'
  <2> HIDE DEF f
  <2> QED
    BY <1>1, <1>2, <1>3, <1>5, BeginStep
<1> QED
  BY <1>3, <1>6 DEF TransportInv, Network

LEMMA CheckOnlineStep ==
    ASSUME TransportInv, CheckForCommandsOnline
    PROVE  TransportInv'
<1>1. polls' \in 0 .. NSTART /\ polls' + TimingOut(stack) <= NSTART
  BY MaybePollStep DEF CheckForCommandsOnline, TransportInv
<1>2. Slots'
  BY <1>1 DEF CheckForCommandsOnline, TransportInv, Slots, PollsFit
<1>3. Network' /\ News'
  BY DEF CheckForCommandsOnline, TransportInv, Network, News, ToldLatest, GetConnectionStatus
<1>4. Client'
  BY ClientKept DEF CheckForCommandsOnline
<1> QED
  BY <1>2, <1>3, <1>4 DEF TransportInv

LEMMA CheckDeadStep ==
    ASSUME TransportInv, fault = "none", NEW opened \in Opened, CheckForCommandsDead(opened)
    PROVE  TransportInv'
<1> DEFINE f == Call("check", FALSE)
<1>1. opened \in BOOLEAN /\ f \in Frame /\ Holds(f) = 0
  BY CallType, TransportConstants DEF Opened
<1>2. dtls \in DTLSClient /\ (dtls.session # "none" => dtls.context)
  BY DEF TransportInv, Client, SessionHasContext
<1>3. Client'
  BY <1>1, <1>2, ReinitializeStep DEF CheckForCommandsDead
<1>4. /\ Len(stack) < MaxDepth /\ dead' = FALSE
      /\ UNCHANGED <<powered, eps_registration_status, coap_status, told, polls>>
      /\ stack' = stack \/ stack' = <<f>> \o stack
  BY DEF CheckForCommandsDead
<1>5. Slots'
  <2>1. CASE stack' = stack
    BY <1>4, <2>1 DEF TransportInv, Slots, PollsFit
  <2>2. CASE stack' = <<f>> \o stack
    <3> HIDE DEF f
    <3>1. PICK t \in Seq(Frame) : t = <<f>> \o stack
      BY <1>1, Pushed DEF TransportInv, Slots
    <3>2. Len(t) = Len(stack) + 1 /\ TimingOut(t) = TimingOut(stack) + Holds(f)
      BY <1>1, <3>1, Pushed DEF TransportInv, Slots
    <3>3. Len(stack) \in Nat /\ TimingOut(stack) \in Nat
      BY TimingOutNat, LenProperties DEF TransportInv, Slots
    <3>4. Len(t) <= MaxDepth /\ TimingOut(t) = TimingOut(stack)
      BY <1>1, <1>4, <3>2, <3>3, TransportConstants
    <3> QED
      BY <1>4, <2>2, <3>1, <3>4 DEF TransportInv, Slots, PollsFit
  <2> QED
    BY <1>4, <2>1, <2>2
<1>6. Network' /\ News'
  BY <1>4 DEF TransportInv, Network, News, ToldLatest, GetConnectionStatus
<1> QED
  BY <1>3, <1>5, <1>6 DEF TransportInv

LEMMA SpinStep ==
    ASSUME TransportInv, fault = "none", Spin
    PROVE  TransportInv'
<1>1. ASSUME TimePasses PROVE TransportInv'
  <2>1. Client'
    BY <1>1, ClientKept DEF TimePasses
  <2> QED
    BY <1>1, <2>1, OthersKept DEF TimePasses
<1> QED
  BY <1>1, RegistrationStep, HandshakeEndsStep, AlertStep, PollAnsweredStep,
     PollTimesOutStep, CheckOnlineStep, CheckDeadStep DEF Spin

LEMMA ApplicationStep ==
    ASSUME TransportInv, fault = "none", Application
    PROVE  TransportInv'
<1> DEFINE f == Call("application", FALSE)
<1>1. f \in Frame /\ Holds(f) = 0
  BY CallType
<1>2. dtls \in DTLSClient /\ (dtls.session # "none" => dtls.context)
  BY DEF TransportInv, Client, SessionHasContext
<1>3. ASSUME polls' = polls PROVE polls' \in Nat /\ polls' + Holds(f) <= polls
  <2>1. polls \in Nat /\ polls + 0 <= polls
    BY SlotNumbers DEF TransportInv
  <2> HIDE DEF f
  <2> QED
    BY <1>1, <1>3, <2>1
<1>4. ASSUME NEW opened \in Opened, ReinitializeTransport(opened) PROVE TransportInv'
  <2>1. opened \in BOOLEAN
    BY TransportConstants DEF Opened
  <2>2. Begin(dtls, f, opened) /\ UNCHANGED <<powered, eps_registration_status, polls>>
    BY <1>4 DEF ReinitializeTransport
  <2>3. Client' /\ Slots' /\ News'
    <3> HIDE DEF f
    <3> QED
      BY <1>1, <1>2, <1>3, <2>1, <2>2, BeginStep
  <2> QED
    BY <2>2, <2>3 DEF TransportInv, Network
<1>5. ASSUME PowerModuleOff PROVE TransportInv'
  <2>1. Client'
    BY <1>5, ClientKept DEF PowerModuleOff
  <2>2. Network' /\ Slots' /\ News'
    BY <1>5 DEF PowerModuleOff, TransportInv, Network, Slots, PollsFit, News, ToldLatest
  <2> QED
    BY <2>1, <2>2 DEF TransportInv
<1>6. ASSUME NEW opened \in SocketResults, PowerModuleOn(opened) PROVE TransportInv'
  <2>1. opened \in BOOLEAN
    BY TransportConstants
  <2>2. /\ Begin(dtls, f, opened) /\ polls' = polls
        /\ powered' = TRUE /\ eps_registration_status' = "not_registered"
    BY <1>6 DEF PowerModuleOn
  <2>3. Client' /\ Slots' /\ News'
    <3> HIDE DEF f
    <3> QED
      BY <1>1, <1>2, <1>3, <2>1, <2>2, BeginStep
  <2> QED
    BY <2>2, <2>3 DEF TransportInv, Network
<1> QED
  BY <1>4, <1>5, <1>6 DEF Application

-----------------------------------------------------------------------------

\* The invariant holds, however reinitializations nest (Breakout.cpp:
\* reinitializeTransport, called from spin, which it calls itself).
THEOREM TransportInvariant == Spec => []TransportInv
<1>1. Init => TransportInv
  BY InitInv
<1>2. TransportInv /\ [Next]_vars => TransportInv'
  <2> SUFFICES ASSUME TransportInv, [Next]_vars PROVE TransportInv'
    OBVIOUS
  <2>1. CASE Next
    BY <2>1, LoopStep, SpinStep, ApplicationStep DEF Next
  <2>2. CASE UNCHANGED vars
    BY <2>2 DEF vars, TransportInv, Network, Client, SessionHasContext, ReadyMeansUp,
        TransportIsReady, Slots, PollsFit, News, ToldLatest, GetConnectionStatus
  <2> QED
    BY <2>1, <2>2
<1> QED
  BY <1>1, <1>2, PTL DEF Spec

\* A transport that is said to be ready has a session that is up, in a context
\* that exists; and the Heartbeats in the table and those that are timing out
\* never need more than its NSTART slots, although reinitializations nest.
THEOREM TransportIsConsistent == Spec => []TransportConsistent
<1>1. TransportInv => TransportConsistent
  BY DEF TransportInv, Network, Client, Slots, News, TransportConsistent, TransportTypeOK
<1> QED
  BY <1>1, TransportInvariant, PTL

\* The connection handler was told last what getConnectionStatus would answer.
THEOREM AlwaysToldLatest == Spec => []ToldLatest
<1>1. TransportInv => ToldLatest
  BY DEF TransportInv, News
<1> QED
  BY <1>1, TransportInvariant, PTL
=============================================================================
