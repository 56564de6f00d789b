------------------------------ MODULE DTLSSeal ------------------------------
(***************************************************************************)
(* Records on the wire.  dtls_prepare_record puts a header before the      *)
(* data and seals it with CCM (ccm.c); is_record cuts a datagram into      *)
(* records and decrypt_verify opens them.  The numbers of a header, its    *)
(* version and its length have one octet each here.                        *)
(***************************************************************************)
EXTENDS DTLSHash

CONSTANTS BLOCK,       \* octets of a block of the cipher: 16
          NONCE,       \* octets of a nonce: 12, an IV and the explicit rest
          EXPLICIT,    \* octets of its explicit part, epoch and number: 8
          TAG,         \* octets of the authentication: 8
          Lengths,     \* lengths of data that are sent
          Changes,     \* by how much an octet may be changed on its way
          MaxRecords   \* bound: records in a datagram

VARIABLES keys,        \* what the key block was stretched to
          sender,      \* the role of the side that sends
          datagram,    \* what is on its way
          sent,        \* the records in it
          changed,     \* whether one of its octets was changed
          opened       \* what was handled of it

sealVars == <<keys, sender, datagram, sent, changed, opened>>

DTLS_VERSION == 253
DTLS10_VERSION == 255
HEADER == 3 + EXPLICIT           \* type, version, epoch and number, length
HANDSHAKE_TYPE == 22
DATA_TYPE == 23
EPOCH == 1

-----------------------------------------------------------------------------
(***************************************************************************)
(* The keys: the halves of the key block (dtls_kb_ macros), each side's    *)
(* key and IV of one octet.                                                *)
(***************************************************************************)
LocalKey(role) == IF role = "client" THEN keys[1] ELSE keys[2]
LocalIV(role) == IF role = "client" THEN keys[3] ELSE keys[4]
RemoteOf(role) == IF role = "client" THEN "server" ELSE "client"
RemoteKey(role) == LocalKey(RemoteOf(role))
RemoteIV(role) == LocalIV(RemoteOf(role))

(***************************************************************************)
(* CCM.  B is the block that goes into the cipher, X what came out of it.  *)
(***************************************************************************)
L == IF BLOCK - 1 - NONCE > 1 THEN BLOCK - 1 - NONCE ELSE 1
Encipher(key, b) == Mixed(<<2, key>> \o b, BLOCK)

\* A number in octets, the most significant first.
InOctets(v, width) == [i \in 1 .. width |-> (v \div (256 ^ (width - i))) % 256]

FromOctets(x) == FoldLeft(LAMBDA v, o : 256 * v + o, 0, x)

CCMFlags(la) == (IF la > 0 THEN 64 ELSE 0) + 8 * ((TAG - 2) \div 2) + (L - 1)
Block0(la, lm, nonce) == <<CCMFlags(la)>> \o nonce \o InOctets(lm, L)

Chunk(x, i, size) ==
    SubSeq(x, (i - 1) * size + 1, IF i * size < Len(x) THEN i * size ELSE Len(x))
Chunks(x, size) == [i \in 1 .. (Len(x) + size - 1) \div size |-> Chunk(x, i, size)]

\* One more block, filled with zeros, goes into the authentication.
Authenticate(key, x, part) == Encipher(key, Xored(PaddedTo(part, BLOCK), x))

\* The first of the blocks of additional data begins with its length.
AddAuthData(key, b0, aad) ==
    IF aad = <<>> THEN Encipher(key, b0)
    ELSE FoldLeft(LAMBDA x, part : Authenticate(key, x, part), Encipher(key, b0),
                  Chunks(InOctets(Len(aad), 2) \o aad, BLOCK))

\* set_counter and encrypt
KeyStream(key, nonce, counter) ==
    Encipher(key, <<L - 1>> \o nonce \o InOctets(counter, L))

\* encrypt, block by block
Crypt(key, nonce, msg) ==
    [i \in DOMAIN msg |->
        Xor(msg[i], KeyStream(key, nonce, (i - 1) \div BLOCK + 1)[((i - 1) % BLOCK) + 1])]

CCMTag(key, nonce, msg, aad) ==
    LET x == FoldLeft(LAMBDA y, part : Authenticate(key, y, part),
                      AddAuthData(key, Block0(Len(aad), Len(msg), nonce), aad), Chunks(msg, BLOCK))
    IN  SubSeq(Xored(x, KeyStream(key, nonce, 0)), 1, TAG)

CCMEncrypt(key, nonce, msg, aad) ==
    Crypt(key, nonce, msg) \o CCMTag(key, nonce, msg, aad)

\* Mutant of TagHolds: the tag is not looked at.
TagHoldsAlways(key, nonce, msg, tag, aad) == TRUE
TagHolds(key, nonce, msg, tag, aad) == CCMTag(key, nonce, msg, aad) = tag

Unsealed == <<-1>>
CCMDecrypt(key, nonce, x, aad) ==
    LET lm == Len(x) - TAG
        msg == Crypt(key, nonce, SubSeq(x, 1, lm))
    IN  IF lm < 0 THEN Unsealed
        ELSE IF TagHolds(key, nonce, msg, SubSeq(x, lm + 1, Len(x)), aad) THEN msg ELSE Unsealed

-----------------------------------------------------------------------------
(* Records.                                                                *)

\* dtls_set_record_header
Header(type, seq, length) == <<type, DTLS_VERSION>> \o <<EPOCH>> \o InOctets(seq, EXPLICIT - 1) \o <<length>>
EpochAndSeq(record) == SubSeq(record, 3, 2 + EXPLICIT)
Additional(record, length) == EpochAndSeq(record) \o SubSeq(record, 1, 2) \o <<length>>

PrepareRecord(role, type, seq, data) ==
    LET head == Header(type, seq, 0)
        nonce == <<LocalIV(role)>> \o EpochAndSeq(head)
        body == EpochAndSeq(head)
                    \o CCMEncrypt(LocalKey(role), nonce, data, Additional(head, Len(data)))
    IN  Header(type, seq, Len(body)) \o body

\* The length of the record at the head, 0 if there is none.
IsRecord(msg) ==
    IF Len(msg) < HEADER \/ msg[2] \notin {DTLS_VERSION, DTLS10_VERSION} \/ msg[1] = 0 THEN 0
    ELSE IF HEADER + msg[HEADER] > Len(msg) THEN 0 ELSE HEADER + msg[HEADER]

\* The nonce is the one that came with the record.
DecryptVerify(role, record) ==
    LET body == SubSeq(record, HEADER + 1, Len(record))
        nonce == <<RemoteIV(role)>> \o SubSeq(body, 1, EXPLICIT)
        rest == SubSeq(body, EXPLICIT + 1, Len(body))
    IN  IF record[3] # EPOCH \/ Len(body) < EXPLICIT + TAG THEN Unsealed
        ELSE CCMDecrypt(RemoteKey(role), nonce, rest, Additional(record, Len(rest) - TAG))

-----------------------------------------------------------------------------
SealInit ==
    /\ keys = PHash(<<7, 7>>, <<1, 2>>, 4)
    /\ sender \in {"client", "server"}
    /\ datagram = <<>> /\ sent = <<>> /\ opened = <<>> /\ changed = FALSE

\* dtls_send_multi, for several records in one datagram.
SendRecord(type, n) ==
    LET data == [i \in 1 .. n |-> i]
        seq == Len(sent)
    IN  /\ Len(sent) < MaxRecords /\ ~changed /\ opened = <<>>
        /\ datagram' = datagram \o PrepareRecord(sender, type, seq, data)
        /\ sent' = Append(sent, [type |-> type, seq |-> seq, data |-> data])
        /\ UNCHANGED <<keys, sender, changed, opened>>

\* The network changes an octet.
ChangeOctet(i, by) ==
    /\ ~changed /\ opened = <<>> /\ i \in DOMAIN datagram
    /\ datagram' = [datagram EXCEPT ![i] = (@ + by) % 256]
    /\ changed' = TRUE
    /\ UNCHANGED <<keys, sender, sent, opened>>

\* dtls_handle_message, of a connected peer: what cannot be opened ends it.
ReceiveRecord ==
    /\ IsRecord(datagram) > 0
    /\ \E record \in {SubSeq(datagram, 1, IsRecord(datagram))} :
       \E data \in {DecryptVerify(RemoteOf(sender), record)} :
         IF data = Unsealed
         THEN datagram' = <<>> /\ UNCHANGED opened
         ELSE /\ datagram' = SubSeq(datagram, Len(record) + 1, Len(datagram))
              /\ opened' = Append(opened, [type |-> record[1], data |-> data,
                                           seq |-> FromOctets(SubSeq(record, 4, 2 + EXPLICIT))])
    /\ UNCHANGED <<keys, sender, sent, changed>>

SealNext ==
    \/ \E type \in {HANDSHAKE_TYPE, DATA_TYPE}, n \in Lengths : SendRecord(type, n)
    \/ \E i \in DOMAIN datagram, by \in Changes : ChangeOctet(i, by)
    \/ ReceiveRecord

-----------------------------------------------------------------------------
\* Octets are octets.
SealTypeOK == ToSet(datagram) \subseteq Octets

\* By the book (RFC 3610): all blocks are laid out, then chained, and the message is
\* added to the stream of the counter blocks.
BookCCM(key, nonce, msg, aad) ==
    LET filled(x) == PaddedTo(x, BLOCK * ((Len(x) + BLOCK - 1) \div BLOCK))
        all == Block0(Len(aad), Len(msg), nonce)
                 \o filled(IF aad = <<>> THEN <<>> ELSE InOctets(Len(aad), 2) \o aad) \o filled(msg)
        x[i \in 0 .. Len(all) \div BLOCK] ==
            IF i = 0 THEN Zeros(BLOCK)
            ELSE Encipher(key, Xored(SubSeq(all, BLOCK * (i - 1) + 1, BLOCK * i), x[i - 1]))
        s == FlattenSeq([i \in 1 .. Len(msg) + 1 |-> KeyStream(key, nonce, i)])
    IN  Xored(msg, SubSeq(s, 1, Len(msg)))
            \o SubSeq(Xored(x[Len(all) \div BLOCK], KeyStream(key, nonce, 0)), 1, TAG)

\* Sealing is CCM, for every length of the data and of what is authenticated with it:
\* none, a part of a block, whole blocks.  ccm.c.
SealsByTheBook ==
    \A n \in 0 .. 2 * BLOCK + 1, k \in 0 .. BLOCK + 1 :
        LET msg == [i \in 1 .. n |-> i]
            aad == [i \in 1 .. k |-> 9 * i]
        IN  CCMEncrypt(5, Zeros(NONCE), msg, aad) = BookCCM(5, Zeros(NONCE), msg, aad)

\* What is opened of a datagram is what was sent in it, record by record and whatever
\* their lengths, and no octet that was changed on the way is taken for one that was
\* sent.  dtls_prepare_record, is_record, decrypt_verify, ccm.c.
OpensWhatWasSent ==
    /\ IsPrefix(opened, sent)
    /\ ~changed => opened = sent \/ IsRecord(datagram) > 0

\* Both, and that they stand on the right keys.
SealRight == SealTypeOK /\ OpensWhatWasSent /\ (sent = <<>> => SealsByTheBook /\ Stretches)
=============================================================================
