----------------------------- MODULE DTLSRecord -----------------------------
(***************************************************************************)
(* The record layer of tinydtls as operators on one endpoint e: its peer,  *)
(* the peer's two security contexts, the queue of records that are sent    *)
(* again, and what one call sends (out).  A record of type t carries its   *)
(* epoch and number, the key it is sealed with and a message m.            *)
(***************************************************************************)
EXTENDS Integers, Sequences, FiniteSets

CONSTANT MAX_RETRANSMIT      \* times a record is sent again: 4

ASSUME RecordAssumption == MAX_RETRANSMIT \in Nat

NoKey == <<>>                \* TLS_NULL_WITH_NULL_NULL

Security(epoch) == [epoch |-> epoch, key |-> NoKey, rseq |-> 0, cseq |-> 0, seen |-> {}]
NoSecurity == Security(-1)

\* The states of a peer, in the order of dtls_state_t; without a peer "none".
Before == {"init", "wait_clienthello", "wait_clientcertificate", "wait_clientkeyexchange",
           "wait_certificateverify", "wait_changecipherspec", "wait_finished", "clienthello",
           "wait_servercertificate", "wait_serverkeyexchange", "wait_serverhellodone"}

PeerStates == Before \cup {"connected", "closing", "closed"}

\* The handshake parameters of a peer; off when it has none.
NoHandshake ==
  [on |-> FALSE, ms |-> 0, mr |-> 0, reorder |-> {}, hash |-> <<>>, client |-> 0, server |-> 0,
   cipher |-> "none", own |-> 0, other |-> 0, pub |-> 0, auth |-> FALSE, master |-> NoKey]

NewHandshake == [NoHandshake EXCEPT !.on = TRUE]

NoPeer(e) ==
  [e EXCEPT !.state = "none", !.role = "none", !.hs = NoHandshake,
            !.p = <<NoSecurity, NoSecurity>>]

NewPeer(e, role) ==
  [e EXCEPT !.state = "init", !.role = role, !.hs = NoHandshake, !.peers = @ + 1,
            !.p = <<Security(0), NoSecurity>>]

HasPeer(e) == e.state # "none"

\* dtls_security_params_epoch: the context of an epoch, if the peer has one.
EpochOf(e, n) == {i \in 1 .. 2 : e.p[i].epoch = n}

\* Mutant of FreeOther: whichever is older.
FreeOtherAny(e) == [e EXCEPT !.p[2] = NoSecurity]

\* dtls_security_params_free_other: the older context goes, a newer one stays.
FreeOther(e) ==
  IF e.p[2].epoch = -1 \/ e.p[1].epoch < e.p[2].epoch THEN e ELSE [e EXCEPT !.p[2] = NoSecurity]

NextSecurity(e) == [e EXCEPT !.p[2] = Security(e.p[1].epoch + 1)]
Switch(e) == [e EXCEPT !.p = <<@[2], @[1]>>]

\* dtls_prepare_record: the next record in the current context, sealed with its key.
Record(e, t, m) == [t |-> t, epoch |-> e.p[1].epoch, seq |-> e.p[1].rseq, key |-> e.p[1].key, m |-> m]

(***************************************************************************)
(* What is kept to be sent again.  Of the 48 bits of the number the node   *)
(* keeps the first 16, which are 0; first is the number it was sent with.  *)
(***************************************************************************)
Kept(e, r) == [r |-> [r EXCEPT !.seq = 0], first |-> r.seq, cnt |-> 0, peer |-> e.peers]
IsKept(r) == r.t = "ccs" \/ (r.t = "handshake" /\ r.m.h # "HelloVerifyRequest")

\* dtls_send_multi
Send(e, t, m) ==
  LET r == Record(e, t, m) IN
  [e EXCEPT !.p[1].rseq = @ + 1,
            !.q = IF IsKept(r) THEN Append(@, Kept(e, r)) ELSE @,
            !.out = Append(@, r)]

\* dtls_stop_retransmission: every record for the address of the peer goes.
StopRetransmission(e) == [e EXCEPT !.q = <<>>]

(***************************************************************************)
(* One call of dtls_check_retransmit: the records of a flight were sent at *)
(* the same time, so those sent again least often are due together.  Each  *)
(* is sent again, or dropped when it was sent MAX_RETRANSMIT times again.  *)
(***************************************************************************)
Due(e) == {i \in DOMAIN e.q : \A j \in DOMAIN e.q : e.q[i].cnt <= e.q[j].cnt}
Again(e, n) ==
  LET i == EpochOf(e, n.r.epoch) IN
  [n.r EXCEPT !.key = IF i = {} THEN NoKey ELSE e.p[CHOOSE k \in i : TRUE].key]

\* The elements of s at the positions in S, in order.
Selected(s, S) ==
  LET f[k \in 0 .. Len(s)] ==
        IF k = 0 THEN <<>> ELSE IF k \in S THEN Append(f[k - 1], s[k]) ELSE f[k - 1]
  IN  f[Len(s)]

Retransmitted(e) ==
  LET live == {i \in Due(e) : e.q[i].cnt < MAX_RETRANSMIT}
      more == [i \in DOMAIN e.q |->
                 IF i \in Due(e) THEN [e.q[i] EXCEPT !.cnt = @ + 1] ELSE e.q[i]]
  IN  [e EXCEPT !.q = Selected(more, (DOMAIN e.q \ Due(e)) \cup live),
                !.out = @ \o Selected([i \in DOMAIN e.q |-> Again(e, e.q[i])], live)]

(***************************************************************************)
(* The replay window (DTLSReplay) where no number is as much as an int has *)
(* bits behind: number 0 counts as seen once a later one came.             *)
(***************************************************************************)
\* Mutant of IsReplay: the bits of the late numbers are not looked at.
IsReplayTop(s, n) == n = s.cseq /\ ~(n = 0)
IsReplay(s, n) ==
  ~(n = 0 /\ s.cseq = 0) /\ (n = s.cseq \/ (n < s.cseq /\ n \in s.seen))

Seen(s, n) ==
  IF n > s.cseq THEN [s EXCEPT !.seen = @ \cup {s.cseq}, !.cseq = n]
  ELSE IF n < s.cseq THEN [s EXCEPT !.seen = @ \cup {n}] ELSE s

\* decrypt_verify, of a record in context i: with no cipher everything passes.
Opens(e, i, r) == e.p[i].key = NoKey \/ e.p[i].key = r.key
Opened(e, i, r) ==
  LET s == [e EXCEPT !.p[i] = Seen(@, r.seq)] IN IF e.p[i].key = NoKey THEN s ELSE FreeOther(s)

-----------------------------------------------------------------------------
NoMac == <<>>
Message(h, v) == [h |-> h, seq |-> 0, v |-> v, cookie |-> 0, cipher |-> <<>>, mac |-> NoMac]

\* An alert: dtls_send_alert.
SendAlert(e, description) == Send(e, "alert", Message(description, 0))

\* dtls_close tells the other side and leaves the peer in the list.
Close(e) == [SendAlert(e, "close_notify") EXCEPT !.state = "closing"]

\* dtls_destroy_peer: a peer that is in use is closed first.
DestroyPeer(e) == NoPeer(IF e.state \in {"closed", "closing"} THEN e ELSE Close(e))

\* dtls_alert_send_from_err: the other side is told, the peer stays in the list.
AlertFromErr(e) ==
  IF HasPeer(e) THEN SendAlert([e EXCEPT !.state = "closing"], "error") ELSE e
=============================================================================
