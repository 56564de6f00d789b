----------------------------- MODULE DTLSHello -----------------------------
(***************************************************************************)
(* The hellos of a handshake, octet by octet: what dtls_send_client_hello  *)
(* and dtls_send_server_hello write, the cookie that dtls_verify_peer      *)
(* makes of a hello, and what dtls_update_parameters and                   *)
(* check_server_hello read, of this library's hellos and of others that    *)
(* are as correct.  Randoms have one octet.  A message is what follows its *)
(* handshake header.                                                       *)
(***************************************************************************)
EXTENDS DTLSHash, FiniteSets

CONSTANTS Offers,      \* of other clients: [session, ciphers, compressions, extensions]
          Handlers,    \* what an application supports: sets of callbacks
          Addresses,   \* of clients
          COOKIE       \* octets of a cookie: 16

VARIABLES offer,       \* what the client offers
          own,         \* whether the client runs this library, and with which callbacks
          server,      \* the callbacks of the server
          address,     \* where the hello comes from
          hello,       \* the message that is on its way
          stage,       \* what was done last
          issued,      \* the cookies that the server has sent (history)
          cipher       \* what each side has chosen

helloVars == <<offer, own, server, address, hello, stage, issued, cipher>>

VERSION == <<254, 253>>
CH_LENGTH == 3
NULL_CIPHER == <<0, 0>>
PSK_CIPHER == <<192, 168>>
ECDHE_CIPHER == <<192, 174>>
COMPRESSION_NULL == 0
CURVES == 10
POINT_FORMATS == 11
CLIENT_CERT == 19
SERVER_CERT == 20
SECP256R1 == <<0, 23>>
UNCOMPRESSED == 0
RAW_KEY == 2

U16(n) == <<n \div 256, n % 256>>
At16(x, p) == 256 * x[p + 1] + x[p + 2]
From(x, p) == SubSeq(x, p + 1, Len(x))
Beyond == -1

-----------------------------------------------------------------------------
(* What an application supports, and what is written of it.                *)

IsPSKSupported(h) == "get_psk_info" \in h
IsECDSASupported(h, client) == IF client THEN "verify_ecdsa_key" \in h ELSE "get_ecdsa_key" \in h
KnownCipher(h, c, client) ==
    \/ IsPSKSupported(h) /\ c = PSK_CIPHER
    \/ IsECDSASupported(h, client) /\ c = ECDHE_CIPHER

Vector(width, x) == (IF width = 1 THEN <<Len(x)>> ELSE U16(Len(x))) \o x
WrittenExtension(e) == U16(e[1]) \o Vector(2, e[2])

\* A hello of an offer, with a cookie.
ClientHello(o, random, cookie) ==
    VERSION \o <<random>> \o Vector(1, o.session) \o Vector(1, cookie)
        \o Vector(2, FlattenSeq(o.ciphers)) \o Vector(1, o.compressions)
        \o IF o.extensions = <<>> THEN <<>>
           ELSE Vector(2, FlattenSeq([i \in DOMAIN o.extensions |-> WrittenExtension(o.extensions[i])]))

\* dtls_send_client_hello: what this library offers.
OwnOffer(h) ==
    LET ecdsa == IsECDSASupported(h, TRUE)
    IN  [session |-> <<>>, compressions |-> <<COMPRESSION_NULL>>,
         ciphers |-> (IF ecdsa THEN <<ECDHE_CIPHER>> ELSE <<>>)
                       \o (IF IsPSKSupported(h) THEN <<PSK_CIPHER>> ELSE <<>>),
         extensions |-> IF ~ecdsa THEN <<>>
                        ELSE <<<<CLIENT_CERT, Vector(1, <<RAW_KEY>>)>>,
                               <<SERVER_CERT, Vector(1, <<RAW_KEY>>)>>,
                               <<CURVES, Vector(2, SECP256R1)>>,
                               <<POINT_FORMATS, Vector(1, <<UNCOMPRESSED>>)>>>>]

ServerHello(c, random) ==
    VERSION \o <<random>> \o Vector(1, <<>>) \o c \o <<COMPRESSION_NULL>>
        \o IF c # ECDHE_CIPHER THEN <<>>
           ELSE Vector(2, WrittenExtension(<<CLIENT_CERT, <<RAW_KEY>>>>)
                            \o WrittenExtension(<<SERVER_CERT, <<RAW_KEY>>>>)
                            \o WrittenExtension(<<POINT_FORMATS, Vector(1, <<UNCOMPRESSED>>)>>))

-----------------------------------------------------------------------------
(* The cookie.                                                             *)

\* The place behind a field of its own length, SKIP_VAR_FIELD.
SkipVar(x, p) ==
    IF p = Beyond \/ p >= Len(x) THEN Beyond
    ELSE IF p + 1 + x[p + 1] > Len(x) THEN Beyond ELSE p + 1 + x[p + 1]

\* dtls_get_cookie
GetCookie(m) ==
    LET p == SkipVar(m, CH_LENGTH)
    IN  IF Len(m) < CH_LENGTH + 1 \/ SubSeq(m, 1, 2) # VERSION \/ SkipVar(m, p) = Beyond THEN <<Beyond>>
        ELSE SubSeq(m, p + 2, SkipVar(m, p))

\* Mutant of CreateCookie: what follows the cookie is left out.
CreateCookieShort(from, m) ==
    SubSeq(HMAC(<<9>>, from \o SubSeq(m, 1, SkipVar(m, CH_LENGTH))), 1, COOKIE)

\* dtls_create_cookie: of where the hello came from and of all of it but the cookie.
CreateCookie(from, m) ==
    LET p == SkipVar(m, CH_LENGTH)
    IN  SubSeq(HMAC(<<9>>, from \o SubSeq(m, 1, p) \o From(m, SkipVar(m, p))), 1, COOKIE)

-----------------------------------------------------------------------------
(* What is read of a hello.                                                *)

\* verify_ext_: a list of its own length that has what is supported.
VerifyList(x, lengthWidth, width, supported) ==
    LET n == (Len(x) - lengthWidth) \div width
        entry(i) == SubSeq(x, lengthWidth + (i - 1) * width + 1, lengthWidth + i * width)
    IN  /\ (IF lengthWidth = 1 THEN x[1] ELSE At16(x, 0)) + lengthWidth = Len(x)
        /\ \E i \in 1 .. n : entry(i) = supported

VerifyExtension(type, x, client) ==
    CASE type = CURVES -> VerifyList(x, 2, 2, SECP256R1)
      [] type \in {CLIENT_CERT, SERVER_CERT} ->
            IF client THEN VerifyList(x, 1, 1, <<RAW_KEY>>) ELSE x[1] = RAW_KEY
      [] type = POINT_FORMATS -> VerifyList(x, 1, 1, <<UNCOMPRESSED>>)
      [] OTHER -> TRUE

Needed(client) ==
    IF client THEN {CURVES, CLIENT_CERT, SERVER_CERT, POINT_FORMATS} ELSE {CLIENT_CERT, SERVER_CERT}

\* One extension: s is the place it starts at, and the types so far.
OneExtension(x, s, client) ==
    LET left == Len(x) - s.p
        j == At16(x, s.p + 2)
        type == At16(x, s.p)
    IN  IF ~s.ok \/ left = 0 THEN s
        ELSE IF left < 4 THEN [s EXCEPT !.ok = FALSE]
        ELSE IF left - 4 < j \/ ~VerifyExtension(type, SubSeq(x, s.p + 5, s.p + 4 + j), client)
        THEN [s EXCEPT !.ok = FALSE]
        ELSE [s EXCEPT !.p = @ + 4 + j, !.types = @ \cup {type}]

\* dtls_check_tls_extension, with what follows the fields before.
CheckExtensions(c, x, client) ==
    IF Len(x) < 2 THEN c # ECDHE_CIPHER
    ELSE /\ At16(x, 0) <= Len(x) - 2
         /\ \E s \in {FoldLeft(LAMBDA s, i : OneExtension(x, s, client),
                               [p |-> 2, ok |-> TRUE, types |-> {}], x)} :
              s.ok /\ (c = ECDHE_CIPHER => Needed(client) \subseteq s.types)

\* Mutant of FirstKnown: the last one that is known.
LastKnown(h, x, p, n) ==
    LET known == {i \in 0 .. n - 1 : KnownCipher(h, SubSeq(x, p + 2 * i + 1, p + 2 * i + 2), FALSE)}
    IN  IF known = {} THEN Beyond ELSE CHOOSE i \in known : \A j \in known : i >= j
FirstKnown(h, x, p, n) ==
    LET known == {i \in 0 .. n - 1 : KnownCipher(h, SubSeq(x, p + 2 * i + 1, p + 2 * i + 2), FALSE)}
    IN  IF known = {} THEN Beyond ELSE CHOOSE i \in known : \A j \in known : i <= j

\* The compression methods are not skipped once the null one was found, but their
\* number is taken off the length that is left.
AfterCompressions(x, p) ==
    LET at == {i \in 1 .. x[p + 1] : x[p + 1 + i] = COMPRESSION_NULL}
        first == CHOOSE i \in at : \A j \in at : i <= j
    IN  IF p + 1 + x[p + 1] > Len(x) \/ at = {} THEN <<Beyond>>
        ELSE SubSeq(x, p + 2 + first, Len(x) - (x[p + 1] - first))

\* dtls_update_parameters, of a first handshake; the cipher it chooses.
ChosenOf(h, m) ==
    LET p == SkipVar(m, SkipVar(m, CH_LENGTH))
        n == At16(m, p) \div 2
        i == FirstKnown(h, m, p + 2, n)
        c == SubSeq(m, p + 2 + 2 * i + 1, p + 2 + 2 * i + 2)
        rest == AfterCompressions(m, p + 2 + 2 * n)
    IN  IF p = Beyond THEN NULL_CIPHER
        ELSE IF Len(m) < p + 2 + 2 * n \/ i = Beyond THEN NULL_CIPHER
        ELSE IF Len(m) = p + 2 + 2 * n THEN c
        ELSE IF rest = <<Beyond>> \/ ~CheckExtensions(c, rest, TRUE) THEN NULL_CIPHER
        ELSE c

\* check_server_hello
AcceptedOf(h, m) ==
    LET p == SkipVar(m, CH_LENGTH)
        c == SubSeq(m, p + 1, p + 2)
    IN  IF SubSeq(m, 1, 2) = VERSION /\ p # Beyond /\ KnownCipher(h, c, TRUE)
            /\ m[p + 3] = COMPRESSION_NULL /\ CheckExtensions(c, From(m, p + 3), FALSE)
        THEN c ELSE NULL_CIPHER

-----------------------------------------------------------------------------
HelloInit ==
    /\ server \in Handlers /\ address \in Addresses
    /\ own \in {[is |-> TRUE, can |-> h] : h \in Handlers \ {{"get_ecdsa_key"}}} \cup {[is |-> FALSE, can |-> {}]}
    /\ IF own.is THEN offer = OwnOffer(own.can) ELSE offer \in Offers
    /\ hello = ClientHello(offer, 1, <<>>)
    /\ stage = "hello" /\ issued = {}
    /\ cipher = [client |-> NULL_CIPHER, server |-> NULL_CIPHER]

\* dtls_verify_peer: without the right cookie one is sent.
VerifyPeer ==
    /\ stage = "hello"
    /\ \E mine \in {CreateCookie(address, hello)} :
         IF GetCookie(hello) = mine
         THEN stage' = "verified" /\ UNCHANGED issued
         ELSE /\ stage' = "asked"
              /\ issued' = issued \cup {[address |-> address, offer |-> offer, cookie |-> mine]}
    /\ UNCHANGED <<offer, own, server, address, hello, cipher>>

\* check_server_hello_verify_request: the hello again, with the cookie.
RepeatHello(cookie) ==
    /\ stage = "asked"
    /\ hello' = ClientHello(offer, 1, cookie)
    /\ stage' = "hello"
    /\ UNCHANGED <<offer, own, server, address, issued, cipher>>

\* Someone else's turn, with a cookie that was sent to another or for another offer.
OtherHello(o, from) ==
    /\ stage = "asked" /\ Cardinality(issued) = 1 /\ ~own.is
    /\ offer' = o /\ address' = from
    /\ \E i \in issued : hello' = ClientHello(o, 1, i.cookie)
    /\ stage' = "hello"
    /\ UNCHANGED <<own, server, issued, cipher>>

\* The server chooses, and answers.
Answer ==
    /\ stage = "verified"
    /\ \E c \in {ChosenOf(server, hello)} :
         /\ cipher' = [cipher EXCEPT !.server = c]
         /\ stage' = IF c = NULL_CIPHER THEN "refused" ELSE "answered"
         /\ hello' = IF c = NULL_CIPHER THEN hello ELSE ServerHello(c, 2)
    /\ UNCHANGED <<offer, own, server, address, issued>>

CheckAnswer ==
    /\ stage = "answered" /\ own.is
    /\ cipher' = [cipher EXCEPT !.client = AcceptedOf(own.can, hello)]
    /\ stage' = "done"
    /\ UNCHANGED <<offer, own, server, address, hello, issued>>

HelloNext ==
    \/ VerifyPeer
    \/ \E i \in issued : RepeatHello(i.cookie)
    \/ \E o \in Offers, from \in Addresses : OtherHello(o, from)
    \/ Answer
    \/ CheckAnswer

-----------------------------------------------------------------------------
\* Messages are octets; at most two cookies were sent.
HelloTypeOK == ToSet(hello) \subseteq Octets /\ Cardinality(issued) <= 2

\* A hello passes only with a cookie that was sent to where it comes from, for what
\* it says; a client that repeats its hello with the last cookie it was sent passes.
\* dtls_create_cookie, dtls_get_cookie.
CookieBinds ==
    stage \in {"verified", "answered", "refused", "done"} =>
        \E i \in issued : i.address = address /\ i.offer = offer

CookiePasses ==
    stage = "asked" => \E i \in issued :
        CreateCookie(address, ClientHello(offer, 1, i.cookie)) = i.cookie

(***************************************************************************)
(* By the book: of the ciphers offered the first that is known, unless a   *)
(* list of something else has nothing that is supported.                   *)
(***************************************************************************)
Supports(e) ==
    \/ e[1] \notin Needed(TRUE)
    \/ e[1] = CURVES /\ \E i \in 1 .. (Len(e[2]) \div 2) - 1 : SubSeq(e[2], 2 * i + 1, 2 * i + 2) = SECP256R1
    \/ e[1] \in {CLIENT_CERT, SERVER_CERT} /\ RAW_KEY \in ToSet(Tail(e[2]))
    \/ e[1] = POINT_FORMATS /\ UNCOMPRESSED \in ToSet(Tail(e[2]))

Choice(h, o) ==
    LET known == SelectSeq(o.ciphers, LAMBDA c : KnownCipher(h, c, FALSE))
        types == {e[1] : e \in ToSet(o.extensions)}
    IN  IF known = <<>> \/ COMPRESSION_NULL \notin ToSet(o.compressions) THEN NULL_CIPHER
        ELSE IF (\E e \in ToSet(o.extensions) : ~Supports(e))
                  \/ (known[1] = ECDHE_CIPHER /\ ~(Needed(TRUE) \subseteq types)) THEN NULL_CIPHER
        ELSE known[1]

\* What the server chooses is right for every offer whose last compression method is
\* the null one.  dtls_update_parameters, dtls_check_tls_extension.
ChoosesRight ==
    stage \in {"answered", "refused"} /\ Last(offer.compressions) = COMPRESSION_NULL
        => cipher.server = Choice(server, offer)

\* The same for every offer.
ChoosesAlwaysRight ==
    stage \in {"answered", "refused"} => cipher.server = Choice(server, offer)

\* Between two ends of this library, both take the first suite that the client can
\* check and the server can show.  dtls_send_client_hello, check_server_hello.
EndsAgree ==
    /\ stage = "done" => cipher.client = cipher.server
    /\ stage = "refused" /\ own.is =>
         ~IsPSKSupported(own.can \cap server)
            /\ ~(IsECDSASupported(own.can, TRUE) /\ IsECDSASupported(server, FALSE))

\* A hello is bound to its cookie, read as it was meant, and answered so that the
\* client understands.
HelloRight == HelloTypeOK /\ CookieBinds /\ CookiePasses /\ ChoosesRight /\ EndsAgree
=============================================================================
