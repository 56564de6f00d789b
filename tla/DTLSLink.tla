------------------------------ MODULE DTLSLink ------------------------------
(***************************************************************************)
(* A DTLS client as OwlDTLSClient drives it, a server that runs the same   *)
(* library, and two datagram channels that lose, repeat, reorder and delay *)
(* what they carry.                                                        *)
(***************************************************************************)
EXTENDS DTLSHandshake

CONSTANTS
  Suites,      \* what the ends can do: [client, server: ciphers, auth, hint]
  Weathers,    \* what may happen in one behaviour: see Fault and Use
  MaxFaults,   \* bound: faults of the channels
  MaxWrites,   \* bound: data written by each end
  MaxConnects  \* bound: connections and handshakes that the client starts

VARIABLES
  ends,        \* the two endpoints
  net,         \* for each end, the records on their way to it
  weather, faults, connects,
  verified     \* the cookies that reached the client (history)

linkVars == <<ends, net, weather, faults, connects, verified>>

Ends == 1 .. 2
Client == ends[1]
Server == ends[2]

Endpoint(i, can) ==
  [NoPeer([id |-> i, can |-> can, gen |-> 1, peers |-> 0, state |-> "none", role |-> "none",
           hs |-> NoHandshake, p |-> <<>>, q |-> <<>>, out |-> <<>>, err |-> FALSE,
           freed |-> FALSE, ctx |-> i = 2, status |-> "none", read |-> <<>>, wrote |-> 0,
           keys |-> {}, reused |-> FALSE])
   EXCEPT !.out = <<>>]

\* An event of tinydtls is kept by OwlDTLSClient as its last status.
Told(e, status) == [e EXCEPT !.status = status]

-----------------------------------------------------------------------------
(* dtls_handle_message, for one record.                                    *)

\* handle_ccs: the server makes the keys now.
HandleCcs(e) ==
  IF e.state # "wait_changecipherspec" THEN e
  ELSE In(IF e.role = "server" THEN KeyBlock(e) ELSE e, "wait_finished")

\* handle_alert: every alert that an end sends here is fatal and ends the peer.
HandleAlert(e, m) ==
  LET answered == IF m.h = "close_notify" /\ e.state # "closing"
                  THEN SendAlert([e EXCEPT !.state = "closing"], m.h) ELSE e
  IN  NoPeer(StopRetransmission(Told(answered, m.h)))

\* hs_attempt_with_existing_peer
NewAttempt(e, r) ==
  e.state = "connected" /\ r.t = "handshake" /\ r.epoch = 0 /\ r.m.h \in {"ClientHello", "HelloRequest"}

(***************************************************************************)
(* A handshake record.  A peer that was replaced meanwhile is freed memory *)
(* when its state is read: whether it looks connected is left open.        *)
(***************************************************************************)
HandshakeRecord(e, r, role, state) ==
  LET epoch == e.p[1].epoch + (IF role = "server" /\ state = "wait_finished" THEN 1 ELSE 0)
      anew == r.epoch # epoch /\ NewAttempt(e, r)
      done == HandleHandshake(e, r.m, IF anew THEN "server" ELSE role,
                              IF anew THEN "wait_clienthello" ELSE state)
      connected == Told(StopRetransmission(done), "connected")
  IN  IF HasPeer(e) /\ r.epoch # epoch /\ ~anew THEN {e}
      ELSE IF ~Ok(done) THEN {AlertFromErr([done EXCEPT !.err = FALSE])}
      ELSE IF done.freed /\ ~e.freed THEN {done, connected}
      ELSE IF HasPeer(e) /\ done.state = "connected" THEN {connected} ELSE {done}

\* The record was opened.
Dispatch(e, r, role, state) ==
  LET quiet == StopRetransmission(e) IN
  CASE r.t = "ccs" -> {HandleCcs(quiet)}
    [] r.t = "alert" -> {HandleAlert(quiet, r.m)}
    [] r.t = "handshake" -> HandshakeRecord(e, r, role, state)
    [] r.t = "data" -> {[quiet EXCEPT !.read = Append(@, r.m.v)]}

\* Mutant of Refuse: the queue outlives the peer.
RefuseQueued(e) ==
  IF e.state \in Before THEN NoPeer([AlertFromErr(e) EXCEPT !.state = "closed"]) ELSE e

\* The record could not be opened: during a handshake the peer is given up.
Refuse(e) ==
  IF e.state \in Before
  THEN NoPeer(StopRetransmission([AlertFromErr(e) EXCEPT !.state = "closed"]))
  ELSE e

\* A record without a peer must be a plain hello; with one it is opened by the
\* context of its epoch, unless it starts a new handshake.
HandleRecord(e, r) ==
  LET i == EpochOf(e, r.epoch)
      replay == HasPeer(e) /\ i # {} /\ IsReplay(e.p[Min(i)], r.seq)
      opens == HasPeer(e) /\ i # {} /\ Opens(e, Min(i), r)
      hello == IF HasPeer(e) THEN NewAttempt(e, r)
               ELSE r.t = "handshake" /\ r.key = NoKey /\ r.m.h = "ClientHello"
  IN  IF replay THEN {e}
      ELSE IF opens \/ hello
      THEN Dispatch(IF opens THEN Opened(e, Min(i), r) ELSE e, r,
                    IF opens THEN e.role ELSE "server",
                    IF opens THEN e.state ELSE "wait_clienthello")
      ELSE {IF HasPeer(e) THEN Refuse(e) ELSE e}

-----------------------------------------------------------------------------
(* What an end does in one call, and what the channels make of it.         *)

\* End i becomes e; what it sent is on its way to the other end.
Becomes(i, e, to) ==
  /\ ends' = [ends EXCEPT ![i] = [e EXCEPT !.out = <<>>]]
  /\ net' = [to EXCEPT ![3 - i] = @ \o e.out]

\* OwlDTLSClient::handleRawData, and the server's like it.
Deliver(i) ==
  /\ net[i] # <<>>
  /\ LET r == Head(net[i]) IN
     /\ \E e \in (IF ends[i].ctx THEN HandleRecord(ends[i], r) ELSE {ends[i]}) :
          Becomes(i, e, [net EXCEPT ![i] = Tail(@)])
     /\ verified' = IF i = 1 /\ r.m.h = "HelloVerifyRequest" THEN verified \cup {r.m.v} ELSE verified
  /\ UNCHANGED <<weather, faults, connects>>

\* Nothing is on its way.
Quiet == \A j \in Ends : net[j] = <<>>

\* triggerPeriodicRetransmit; on a fast network nothing is on its way by then.
CheckRetransmit(i) ==
  /\ ends[i].q # <<>>
  /\ "slow" \in weather \/ Quiet
  /\ Becomes(i, Retransmitted(ends[i]), net)
  /\ UNCHANGED <<weather, faults, connects, verified>>

\* dtls_connect: a new peer, or a new handshake for one that is connected.
DtlsConnect(e) ==
  LET start(s) == Told([SendClientHello([s EXCEPT !.hs = NewHandshake], 0)
                          EXCEPT !.state = "clienthello"], "connect")
  IN  IF ~HasPeer(e) THEN start(NewPeer(e, "client"))
      ELSE IF e.state = "connected" THEN start(e) ELSE e

\* init and connect, with a new context; its queue is empty.
Connect ==
  /\ ~Client.ctx /\ connects < MaxConnects
  /\ Becomes(1, DtlsConnect([Client EXCEPT !.ctx = TRUE]), net)
  /\ connects' = connects + 1
  /\ UNCHANGED <<weather, faults, verified>>

\* rehandshake
Rehandshake ==
  /\ "renegotiate" \in weather /\ Client.ctx /\ Client.state = "connected" /\ connects < MaxConnects
  /\ Becomes(1, DtlsConnect(Client), net)
  /\ connects' = connects + 1
  /\ UNCHANGED <<weather, faults, verified>>

\* close: the other side is told, the context and all it holds are freed.
CloseContext(e) ==
  LET s == StopRetransmission(IF HasPeer(e) THEN Close(e) ELSE e)
  IN  [IF HasPeer(s) THEN DestroyPeer(s) ELSE s EXCEPT !.ctx = FALSE]

CloseClient ==
  /\ "close" \in weather /\ Client.ctx
  /\ Becomes(1, CloseContext(Client), net)
  /\ UNCHANGED <<weather, faults, connects, verified>>

\* dtls_write: nothing is sent unless connected, and this is no failure to sendData.
DtlsWrite(e) ==
  LET s == [e EXCEPT !.wrote = @ + 1] IN
  IF e.state = "connected" THEN Send(s, "data", Message("data", s.wrote)) ELSE s

SendData(i) ==
  /\ "write" \in weather /\ HasPeer(ends[i]) /\ ends[i].wrote < MaxWrites
  /\ Becomes(i, DtlsWrite(ends[i]), net)
  /\ UNCHANGED <<weather, faults, connects, verified>>

(***************************************************************************)
(* The channels.  Of the losses, a handshake survives that of a whole      *)
(* flight or of the client's Finished ("flight"), but not of the server's  *)
(* last flight; of the other changes of order, that within a server flight *)
(* before the ciphers change ("swap").                                     *)
(***************************************************************************)
FlightStarts(i) ==
  IF i = 1 THEN {"HelloVerifyRequest", "ServerHello"}
  ELSE {"ClientHello", "Finished", IF Client.hs.auth THEN "Certificate" ELSE "ClientKeyExchange"}

SwapAt(s, k) == [s EXCEPT ![k] = s[k + 1], ![k + 1] = s[k]]
Plain(r) == r.t = "handshake" /\ r.epoch = 0
Fault(i) ==
  /\ faults < MaxFaults /\ net[i] # <<>>
  /\ faults' = faults + 1
  /\ \/ "lose" \in weather /\ net' = [net EXCEPT ![i] = Tail(@)]
     \/ /\ "flight" \in weather
        /\ Head(net[i]).m.h \in FlightStarts(i)
        /\ net' = [net EXCEPT ![i] = <<>>]
     \/ "duplicate" \in weather /\ net' = [net EXCEPT ![i] = Append(@, Head(@))]
     \/ \E k \in 1 .. Len(net[i]) - 1 :
          /\ \/ "reorder" \in weather
             \/ "swap" \in weather /\ i = 1 /\ Plain(net[1][k]) /\ Plain(net[1][k + 1])
          /\ net' = [net EXCEPT ![i] = SwapAt(@, k)]
  /\ UNCHANGED <<ends, weather, connects, verified>>

LinkInit ==
  /\ \E s \in Suites : ends = [i \in Ends |->
       Endpoint(i, [ciphers |-> IF i = 1 THEN s.client ELSE s.server, auth |-> s.auth, hint |-> s.hint])]
  /\ weather \in Weathers
  /\ net = [i \in Ends |-> <<>>]
  /\ faults = 0 /\ connects = 0 /\ verified = {}

LinkStep == Connect \/ \E i \in Ends : Deliver(i) \/ CheckRetransmit(i)
Use == Rehandshake \/ CloseClient \/ \E i \in Ends : SendData(i) \/ Fault(i)
LinkNext == LinkStep \/ Use

LinkSpec == LinkInit /\ [][LinkNext]_linkVars

(***************************************************************************)
(* Datagrams that are not lost arrive, and the main loop polls the timers: *)
(* weak fairness of Connect, Deliver and CheckRetransmit, with the guard   *)
(* of each in the place of its ENABLED, which TLC is slow to evaluate.     *)
(***************************************************************************)
LinkFairSpec ==
  /\ LinkSpec
  /\ []<>(Client.ctx \/ connects = MaxConnects) \/ []<><<Connect>>_linkVars
  /\ \A i \in Ends :
       /\ []<>(net[i] = <<>>) \/ []<><<Deliver(i)>>_linkVars
       /\ []<>(ends[i].q = <<>> \/ ~("slow" \in weather \/ Quiet)) \/ []<><<CheckRetransmit(i)>>_linkVars

-----------------------------------------------------------------------------
\* The ends, their contexts and queues have their types.
LinkTypeOK ==
  \A i \in Ends : LET e == ends[i] IN
    /\ e.state \in PeerStates \cup {"none"} /\ e.role \in {"client", "server", "none"}
    /\ e.hs.on => HasPeer(e)
    /\ HasPeer(e) => e.ctx /\ e.p[1].epoch >= 0 /\ (e.p[2].epoch >= 0 => e.p[1].epoch # e.p[2].epoch)
    /\ \A k \in DOMAIN e.q : e.q[k].cnt \in 0 .. MAX_RETRANSMIT
    /\ e.out = <<>> /\ ~e.err

\* No two elements are equal.
Distinct(s) == \A i, j \in DOMAIN s : i # j => s[i] # s[j]

(***************************************************************************)
(* An end is connected only with a key with which the other end has sent   *)
(* its Finished, whatever the channels do and however often it is repeated.*)
(* handle_handshake_msg: Finished, with dtls_security_params_switch.       *)
(***************************************************************************)
KeysAgree ==
  \A i \in Ends : (ends[i].state = "connected" /\ ~ends[i].hs.on) =>
    ends[i].p[1].key \in ends[3 - i].keys

(***************************************************************************)
(* No key is used for two handshakes, although a connected peer starts     *)
(* another and a client that lost its state connects anew.                 *)
(* calculate_key_block: the randoms of both sides.                         *)
(***************************************************************************)
KeysFresh == \A i \in Ends : ~ends[i].reused

(***************************************************************************)
(* The server works for a hello only once the cookie for it has reached    *)
(* the client: a hello of a handshake that was left, repeated or late,     *)
(* binds nothing.  A peer that gave up, as one without a common cipher     *)
(* does, is closing and works no more.  dtls_verify_peer.                  *)
(***************************************************************************)
CookieFirst == (Server.hs.on /\ Server.state # "closing") => Server.hs.client \in verified

(***************************************************************************)
(* Data that one end wrote is handed to the other at most once, although   *)
(* records are repeated and overtake each other.                           *)
(* dtls_handle_message: the replay window of each context.                 *)
(***************************************************************************)
DataOnce == \A i \in Ends : Distinct(ends[i].read) /\ \A k \in DOMAIN ends[i].read : ends[i].read[k] <= ends[3 - i].wrote

(***************************************************************************)
(* What is queued to be sent again belongs to the peer that is there: the  *)
(* timer reads node->peer.  In the client no peer is freed that a caller   *)
(* still uses.  dtls_retransmit, and every path on which a peer goes.      *)
(***************************************************************************)
NoDanglingNode ==
  /\ \A i \in Ends : \A k \in DOMAIN ends[i].q : HasPeer(ends[i]) /\ ends[i].q[k].peer = ends[i].peers
  /\ ~Client.freed

Connected == \A i \in Ends : ends[i].state = "connected" /\ ~ends[i].hs.on
Recoverable == {"flight", "swap", "duplicate"}

(***************************************************************************)
(* The handshake completes at both ends although whole flights are lost,   *)
(* the server's hellos overtake each other and records are repeated.       *)
(* dtls_check_retransmit and the reorder queue of handle_handshake.        *)
(***************************************************************************)
Completes == (\E k \in Recoverable : weather \subseteq {k, "write"}) => <>[]Connected

(***************************************************************************)
(* A comment of dtls_set_record_header: what is sent again has the number  *)
(* it was first sent with.  The code does not keep it.                     *)
(***************************************************************************)
RetransmitIdentical ==
  \A i \in Ends : \A k \in DOMAIN ends[i].q :
    LET n == ends[i].q[k] IN n.cnt > 0 => n.r.seq = n.first

\* Peers, their handshakes and the queued flights that point at them belong
\* together, and the server keeps none for a client that did not echo a cookie.
PeersConsistent == LinkTypeOK /\ NoDanglingNode /\ CookieFirst

\* Two connected ends use the same keys, and no end uses one twice.
KeysConsistent == KeysAgree /\ KeysFresh

=============================================================================
