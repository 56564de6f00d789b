---------------------------- MODULE DTLSHandshake ----------------------------
(***************************************************************************)
(* The handshake of tinydtls, both roles, as operators on an endpoint e:   *)
(* what is sent, what is checked, and what each message does in each       *)
(* state.  A message h has a number seq, one value v (a random, a key) and *)
(* where it matters a cookie, a cipher and a mac over the transcript.  The *)
(* field err of e is set when a handler returns an error.                  *)
(***************************************************************************)
EXTENDS DTLSRecord, FiniteSetsExt, SequencesExt

ECDHE == "ecdhe"
PSK == "psk"

Fail(e) == [e EXCEPT !.err = TRUE]
Ok(e) == ~e.err

\* update_hs_hash, of what the other side can recompute.
Hashed(e, m) == [e EXCEPT !.hs.hash = Append(@, <<m.h, m.seq, m.v>>)]
ClearHash(e) == [e EXCEPT !.hs.hash = <<>>]

\* A fresh random or ephemeral key: dtls_prng.
Fresh(e) == 10 * e.gen + e.id
Drawn(e) == [e EXCEPT !.gen = @ + 1]

\* dtls_set_handshake_header: the number of the message, when the peer counts.
Numbered(e, m) == IF HasPeer(e) /\ e.hs.on THEN [m EXCEPT !.seq = e.hs.ms] ELSE m
Counted(e) == IF HasPeer(e) /\ e.hs.on THEN [e EXCEPT !.hs.ms = @ + 1] ELSE e

\* dtls_send_handshake_msg_hash and dtls_send_handshake_msg.
SendUnhashed(e, m) == Send(Counted(e), "handshake", Numbered(e, m))
SendHashed(e, m) == Send(Hashed(Counted(e), Numbered(e, m)), "handshake", Numbered(e, m))

\* calculate_key_block: the master secret and the next security context.
Premaster(e) == IF e.hs.cipher = PSK THEN {} ELSE {e.hs.own, e.hs.other}
Master(e) == <<e.hs.cipher, e.hs.client, e.hs.server, Premaster(e)>>

\* Mutant of KeyBlock: the randoms are left out of the keys.
KeyBlockStale(e) ==
  [NextSecurity(e) EXCEPT !.p[2].key = <<e.hs.cipher>>, !.hs.master = <<e.hs.cipher>>]

KeyBlock(e) == [NextSecurity(e) EXCEPT !.p[2].key = Master(e), !.hs.master = Master(e)]

-----------------------------------------------------------------------------
(* What is sent.                                                           *)

\* dtls_send_client_hello: a random of its own only without a cookie.
SendClientHello(e, cookie) ==
  LET own == IF cookie = 0 THEN [Drawn(e) EXCEPT !.hs.client = Fresh(e)] ELSE ClearHash(e)
      m == [Message("ClientHello", own.hs.client) EXCEPT !.cookie = cookie, !.cipher = e.can.ciphers]
  IN  IF cookie = 0 THEN SendUnhashed(own, m) ELSE SendHashed(own, m)

\* dtls_verify_peer: the cookie is bound to the random of the hello.
SendHelloVerifyRequest(e, m, known) ==
  IF known THEN SendUnhashed(e, Message("HelloVerifyRequest", m.v))
  ELSE [e EXCEPT !.out = Append(@, [t |-> "handshake", epoch |-> 0, seq |-> 0, key |-> NoKey,
                                    m |-> Message("HelloVerifyRequest", m.v)])]

SendServerHello(e) ==
  LET own == [Drawn(e) EXCEPT !.hs.server = Fresh(e)] IN
  SendHashed(own, [Message("ServerHello", own.hs.server) EXCEPT !.cipher = <<e.hs.cipher>>])

\* dtls_send_certificate_ecdsa: the public key of this side.
SendCertificate(e) == SendHashed(e, Message("Certificate", e.id))

\* The parameters of a key exchange, signed with the key of an endpoint.
Signed(id, e, eph) == <<"signed", id, e.hs.client, e.hs.server, eph>>
SendServerKeyExchangeECDH(e) ==
  LET own == [Drawn(e) EXCEPT !.hs.own = Fresh(e)] IN
  SendHashed(own, [Message("ServerKeyExchange", own.hs.own) EXCEPT
                     !.mac = Signed(e.id, e, own.hs.own)])

SendServerKeyExchangePSK(e) ==
  IF e.can.hint THEN SendHashed(e, Message("ServerKeyExchange", 0)) ELSE e

SendCertificateRequest(e) ==
  IF e.can.auth THEN SendHashed(e, Message("CertificateRequest", 0)) ELSE e

SendServerHelloDone(e) == SendHashed(e, Message("ServerHelloDone", 0))

\* dtls_send_server_hello_msgs
SendServerHelloMsgs(e) ==
  LET hello == SendServerHello(e) IN
  SendServerHelloDone(
    IF e.hs.cipher = ECDHE
    THEN SendCertificateRequest(SendServerKeyExchangeECDH(SendCertificate(hello)))
    ELSE SendServerKeyExchangePSK(hello))

\* dtls_send_ccs
SendCcs(e) == Send(e, "ccs", Message("ccs", 0))

\* dtls_send_client_key_exchange: the identity, or an ephemeral key.
SendClientKeyExchange(e) ==
  IF e.hs.cipher = PSK THEN SendHashed(e, Message("ClientKeyExchange", 0))
  ELSE LET own == [Drawn(e) EXCEPT !.hs.own = Fresh(e)]
       IN  SendHashed(own, Message("ClientKeyExchange", own.hs.own))

\* dtls_send_certificate_verify_ecdh signs the transcript so far.
Verified(id, e) == <<"verify", id, e.hs.hash>>
SendCertificateVerify(e) ==
  SendHashed(e, [Message("CertificateVerify", 0) EXCEPT !.mac = Verified(e.id, e)])

\* dtls_send_finished: the master secret and the transcript, labelled by the role.
\* The end remembers the secrets with which it finished, and whether one came twice (history).
FinishedMac(e, role) == <<"finished", role, e.hs.master, e.hs.hash>>
SendFinished(e) ==
  LET s == [e EXCEPT !.keys = @ \cup {e.hs.master}, !.reused = @ \/ e.hs.master \in e.keys]
  IN  SendHashed(s, [Message("Finished", 0) EXCEPT !.mac = FinishedMac(s, s.role)])

-----------------------------------------------------------------------------
(* What is checked: each returns the endpoint, with err set when it fails. *)

\* dtls_update_parameters: the first cipher offered that this side knows.
UpdateParameters(e, m) ==
  LET known == {i \in DOMAIN m.cipher : m.cipher[i] \in ToSet(e.can.ciphers)} IN
  IF known = {} THEN Fail(e)
  ELSE [e EXCEPT !.hs.client = m.v, !.hs.cipher = m.cipher[Min(known)]]

CheckServerHello(e, m) ==
  LET s == [Hashed(e, m) EXCEPT !.hs.server = m.v, !.hs.cipher = m.cipher[1]] IN
  IF m.cipher[1] \in ToSet(e.can.ciphers) THEN s ELSE Fail(s)

CheckServerCertificate(e, m) == [Hashed(e, m) EXCEPT !.hs.pub = m.v]

CheckServerKeyExchangeECDSA(e, m) ==
  LET s == [Hashed(e, m) EXCEPT !.hs.other = m.v] IN
  IF m.mac = Signed(s.hs.pub, s, m.v) THEN s ELSE Fail(s)

CheckServerKeyExchangePSK(e, m) == Hashed(e, m)
CheckCertificateRequest(e, m) == [Hashed(e, m) EXCEPT !.hs.auth = TRUE]

\* check_server_hellodone: the flight of the client, and its new keys.
CheckServerHelloDone(e, m) ==
  LET certified(s) == IF s.hs.auth THEN SendCertificate(s) ELSE s
      proved(s) == IF s.hs.auth THEN SendCertificateVerify(s) ELSE s
  IN  SendFinished(Switch(SendCcs(KeyBlock(proved(SendClientKeyExchange(certified(Hashed(e, m))))))))

CheckClientKeyExchange(e, m) == Hashed([e EXCEPT !.hs.other = m.v], m)
CheckCertificateVerify(e, m) ==
  IF m.mac = Verified(e.hs.pub, e) THEN Hashed(e, m) ELSE Fail(e)

Other(role) == IF role = "client" THEN "server" ELSE "client"

\* check_finished: the transcript with which the other side finished.
FinishedAgrees(e, m) == m.mac = FinishedMac(e, Other(e.role))

-----------------------------------------------------------------------------
(* handle_handshake_msg: the states in which a message is expected.        *)

Expected(e, m, role, state) ==
  CASE m.h \in {"HelloVerifyRequest", "ServerHello"} -> state = "clienthello"
    [] m.h = "Certificate" ->
         state = (IF role = "client" THEN "wait_servercertificate" ELSE "wait_clientcertificate")
    [] m.h = "ServerKeyExchange" ->
         state = (IF e.hs.cipher = ECDHE THEN "wait_serverkeyexchange" ELSE "wait_serverhellodone")
    [] m.h \in {"ServerHelloDone", "CertificateRequest"} -> state = "wait_serverhellodone"
    [] m.h = "Finished" -> state = "wait_finished"
    [] m.h = "ClientKeyExchange" -> state = "wait_clientkeyexchange"
    [] m.h = "CertificateVerify" -> state = "wait_certificateverify"
    [] m.h = "ClientHello" -> state \in {"connected", "wait_clienthello"}
    [] OTHER -> TRUE

In(e, state) == IF Ok(e) THEN [e EXCEPT !.state = state] ELSE e

(***************************************************************************)
(* A ClientHello with a good cookie.  A client that lost its state and     *)
(* proves itself to a connected server replaces the peer there; the caller *)
(* still holds the old one, which was freed.                               *)
(***************************************************************************)
AcceptHello(e, m, state) ==
  LET anew == ~HasPeer(e) \/ state = "wait_clienthello"
      old == [NoPeer(e) EXCEPT !.freed = @ \/ HasPeer(e)]
      peer == IF anew THEN [NewPeer(old, "server") EXCEPT !.p[1].rseq = 1] ELSE e
      hs == IF peer.hs.on THEN peer
            ELSE [peer EXCEPT !.hs = [NewHandshake EXCEPT !.mr = m.seq, !.ms = 1]]
      chosen == UpdateParameters(ClearHash(hs), m)
  IN  IF ~Ok(chosen) THEN chosen
      ELSE In(SendServerHelloMsgs(Hashed(chosen, m)),
              IF chosen.hs.cipher = ECDHE /\ e.can.auth
              THEN "wait_clientcertificate" ELSE "wait_clientkeyexchange")

\* Mutant of HandleClientHello: no cookie is asked for.
HandleAnyHello(e, m, state) == AcceptHello(e, m, state)
HandleClientHello(e, m, state) ==
  IF m.cookie = m.v THEN AcceptHello(e, m, state)
  ELSE SendHelloVerifyRequest(e, m, state = "connected")

\* Mutant of HandleFinished: the server does not switch to the new keys.
HandleFinishedOld(e, m) ==
  LET done(s) == In([s EXCEPT !.hs = NoHandshake], "connected") IN
  IF ~FinishedAgrees(e, m) THEN Fail(e)
  ELSE done(IF e.role = "server" THEN SendFinished(SendCcs(Hashed(e, m))) ELSE e)

\* Finished: the server answers with its own; both are connected.
HandleFinished(e, m) ==
  LET done(s) == In([s EXCEPT !.hs = NoHandshake], "connected") IN
  IF ~FinishedAgrees(e, m) THEN Fail(e)
  ELSE done(IF e.role = "server" THEN SendFinished(Switch(SendCcs(Hashed(e, m)))) ELSE e)

\* HelloRequest: a client that is connected starts again.
HandleHelloRequest(e, state) ==
  IF state # "connected" THEN e
  ELSE In(SendClientHello(IF e.hs.on THEN e ELSE [e EXCEPT !.hs = NewHandshake], 0), "clienthello")

Effect(e, m, role, state) ==
  CASE m.h = "HelloVerifyRequest" -> SendClientHello(e, m.v)
    [] m.h = "ServerHello" ->
         In(CheckServerHello(e, m),
            IF m.cipher[1] = ECDHE THEN "wait_servercertificate" ELSE "wait_serverhellodone")
    [] m.h = "Certificate" ->
         In(CheckServerCertificate(e, m),
            IF role = "client" THEN "wait_serverkeyexchange" ELSE "wait_clientkeyexchange")
    [] m.h = "ServerKeyExchange" ->
         In(IF e.hs.cipher = ECDHE THEN CheckServerKeyExchangeECDSA(e, m)
            ELSE CheckServerKeyExchangePSK(e, m), "wait_serverhellodone")
    [] m.h = "ServerHelloDone" -> In(CheckServerHelloDone(e, m), "wait_changecipherspec")
    [] m.h = "CertificateRequest" -> CheckCertificateRequest(e, m)
    [] m.h = "Finished" -> HandleFinished(e, m)
    [] m.h = "ClientKeyExchange" ->
         In(CheckClientKeyExchange(e, m),
            IF e.hs.cipher = ECDHE /\ e.can.auth
            THEN "wait_certificateverify" ELSE "wait_changecipherspec")
    [] m.h = "CertificateVerify" -> In(CheckCertificateVerify(e, m), "wait_changecipherspec")
    [] m.h = "ClientHello" -> HandleClientHello(e, m, state)
    [] m.h = "HelloRequest" -> HandleHelloRequest(e, state)

\* Any message stops the sending again; one that was handled is counted.
HandleMsg(e, m, role, state) ==
  LET s == IF HasPeer(e) THEN StopRetransmission(e) ELSE e
      done == IF Expected(s, m, role, state) THEN Effect(s, m, role, state) ELSE Fail(s)
      ignored == m.h = "HelloRequest" /\ state # "connected"
  IN  IF done.hs.on /\ Ok(done) /\ ~ignored THEN [done EXCEPT !.hs.mr = @ + 1] ELSE done

\* Mutant of InOrder: what comes early is handled at once.
InAnyOrder(e, m) == m.seq >= e.hs.mr
InOrder(e, m) == m.seq = e.hs.mr

(***************************************************************************)
(* A message whose turn it is, then those that came early, each in its     *)
(* turn, as long as the handshake goes on; the queue is searched for the   *)
(* next as often as there are messages in it.                              *)
(***************************************************************************)
Ready(e) == {n \in e.hs.reorder : e.hs.on /\ Ok(e) /\ n.seq = e.hs.mr}

HandleNext(e, role) ==
  LET n == CHOOSE n \in Ready(e) : TRUE
  IN  HandleMsg([e EXCEPT !.hs.reorder = @ \ {n}], n, role, e.state)

HandleInTurn(e, m, role, state) ==
  LET after[k \in 0 .. Cardinality(e.hs.reorder)] ==
        IF k = 0 THEN HandleMsg(e, m, role, state)
        ELSE IF Ready(after[k - 1]) = {} THEN after[k - 1]
        ELSE HandleNext(after[k - 1], role)
  IN  after[Cardinality(e.hs.reorder)]

\* handle_handshake: messages are handled in the order of their numbers, each once.
HandleHandshake(e, m, role, state) ==
  LET known == \E n \in e.hs.reorder : n.seq = m.seq IN
  IF ~HasPeer(e) /\ m.h # "ClientHello" THEN Fail(e)
  ELSE IF IF e.hs.on THEN InOrder(e, m) ELSE m.h \in {"ClientHello", "HelloRequest"}
  THEN HandleInTurn(e, m, role, state)
  ELSE IF ~e.hs.on \/ m.seq < e.hs.mr \/ known THEN e
  ELSE [e EXCEPT !.hs.reorder = @ \cup {m}]
=============================================================================
