------------------------------ MODULE MCParts ------------------------------
(***************************************************************************)
(* The components that keep to themselves, each on its own: which one runs *)
(* is drawn in the initial state, and the others stay as they begin.  So   *)
(* every state is one of a single component, and the invariants of all of  *)
(* them are checked together.                                              *)
(***************************************************************************)
EXTENDS CoAPCodec, DTLSReplay, ModemSocket, ModemCLI, ModemText, ModemGNSS, ECCurve,
        DTLSSeal, DTLSHello

VARIABLE part

Parts == {"codec", "replay", "sockets", "console", "text", "positions", "curve", "records", "hello"}

(***************************************************************************)
(* Inputs of the codec: a request without and with a token, an empty       *)
(* message, one with a token, and a response; options at both sides of     *)
(* each boundary of the encodings of deltas and lengths.                   *)
(***************************************************************************)
Text(n) == [i \in 1 .. n |-> 65]

Request == [version |-> 1, type |-> 0, code_class |-> 0, code_detail |-> 2,
            message_id |-> 258, token_length |-> 0, token |-> <<>>,
            options |-> <<>>, payload |-> <<>>]

SomeHeaders ==
    {Request,
     [Request EXCEPT !.token_length = 4, !.token = <<7, 0, 1>>],
     [Request EXCEPT !.code_detail = 0],
     [Request EXCEPT !.code_detail = 0, !.token_length = 1],
     [Request EXCEPT !.type = 1, !.code_class = 2, !.code_detail = 5,
                     !.token_length = 8, !.token = <<1, 2, 3, 4, 5, 6, 7, 8>>]}

Known(number, value) == [number |-> number, format |-> AddedAs(number), value |-> value]
Unknown(number, value) == [number |-> number, format |-> "opaque", value |-> value]

SomeOptions ==
    {Known(3, Text(1)), Known(11, Text(2)), Known(11, Text(13)), Known(5, <<>>),
     Known(12, <<>>), Known(15, Text(12)), Known(60, <<1, 0>>), Known(258, <<255>>),
     Known(39, Text(269)), Known(8, Text(268)), Known(50000, <<1, 2, 3, 4, 5, 6, 7, 8>>),
     Known(50001, Text(3)), Unknown(2049, <<>>), Unknown(272, <<0>>)}

SomePayloads == {Text(1)}

(***************************************************************************)
(* What may go wrong with the modem's sockets, some of it at a time.       *)
(***************************************************************************)
SomeSkies == {{}, {"error", "big"}, {"lost"}, {"late"}, {"stuck", "error"}, {"hangup"}}

\* Commands of the console with a common beginning.
SomeExecutors == <<<<"a", "b">>, <<"a", "a", "b">>, <<"a", "a", "a">>>>

\* Some of which one is the beginning of another, and quit, typed and completed.
SomeEntries == {<<"a">>, <<"a", "a">>, <<"a", "q">>, <<"q">>, <<"q", " ">>}

(***************************************************************************)
(* Lines of a response, of its own command and of others, and answers at   *)
(* both sides of what a field can hold.                                    *)
(***************************************************************************)
SomeLines == {<<"+", "P", "1">>, <<"+", "P">>, <<"+", "X", "1">>, <<"+">>, <<"2", ",", "3">>}
SomeLineEnds == {<<"\r", "\n">>, <<"\n">>, <<"\r">>}
SomeAnswers ==
    {<<"CFUN", <<1, 0>>>>, <<"CFUN", <<19, 9>>>>, <<"UMNOPROF", <<100>>>>, <<"CSQ", <<31, 99>>>>,
     <<"COPS", <<0, 2, Quoted(<<"2", " ", "6">>), 8>>>>, <<"USOWR", <<3, 255>>>>,
     <<"CREG", <<0, 1, 161, 7, 9>>>>, <<"CREG", <<2, 5, 0, 255, 8>>>>,
     <<"CGPADDR", <<1, <<10, 0, 255, 1>>, <<>>>>>>,
     <<"CGPADDR", <<1, <<0, 0, 0, 0>>, [i \in 1 .. 16 |-> i]>>>>}
SomeTexts == UNION {[1 .. n -> {",", "a"}] : n \in 0 .. 6}
SomeWord == <<"e", "x", "t">>

\* Positions, one without a status, among other sentences.
Recommended(t, s, p) == [kind |-> "RMC", time |-> t, status |-> s, position |-> p]
SomeStream == <<Recommended("t1", <<"A">>, "p1"), [kind |-> "GGA"], Recommended("t2", <<>>, "p2"),
                Recommended("t3", <<"V">>, "p3")>>

\* A point of the small curve, whose group has a prime order.
SomeBase == <<2, 3>>

(***************************************************************************)
(* Clients of other makers: their orders of ciphers, with sessions, with   *)
(* compressions and with the extensions the server knows and does not.     *)
(***************************************************************************)
OtherCipher == <<0, 47>>
FullExtensions ==
    <<<<10, <<0, 4, 0, 24, 0, 23>>>>, <<22, <<>>>>, <<11, <<2, 1, 0>>>>, <<20, <<1, 2>>>>,
      <<19, <<2, 0, 2>>>>, <<13, <<5>>>>>>
Offered(s, c, z, e) == [session |-> s, ciphers |-> c, compressions |-> z, extensions |-> e]
SomeOffers ==
    {Offered(<<>>, c, <<0>>, FullExtensions)
        : c \in {<<PSK_CIPHER, ECDHE_CIPHER>>, <<OtherCipher, ECDHE_CIPHER>>}}
    \cup {Offered(<<3>>, <<ECDHE_CIPHER, PSK_CIPHER>>, z, Tail(FullExtensions)) : z \in {<<0>>, <<0, 1>>}}
    \cup {Offered(<<>>, <<OtherCipher, PSK_CIPHER>>, z, e)
        : z \in {<<1>>, <<1, 0>>}, e \in {<<>>, <<<<10, <<0, 2, 0, 24>>>>>>}}
SomeHandlers == {{"get_psk_info"}, {"get_ecdsa_key"}, {"verify_ecdsa_key"},
                 {"get_psk_info", "get_ecdsa_key", "verify_ecdsa_key"}}
SomeAddresses == {<<1>>, <<2>>}

-----------------------------------------------------------------------------

OthersStay(p) ==
    /\ p # "codec" => UNCHANGED codecVars
    /\ p # "replay" => UNCHANGED replayVars
    /\ p # "sockets" => UNCHANGED socketVars
    /\ p # "console" => UNCHANGED cliVars
    /\ p # "text" => UNCHANGED textVars
    /\ p # "positions" => UNCHANGED gnssVars
    /\ p # "curve" => UNCHANGED curveVars
    /\ p # "records" => UNCHANGED sealVars
    /\ p # "hello" => UNCHANGED helloVars

\* Where a component has a choice of beginnings, one that does not run takes one that is cheap to check.
PartsInit ==
    /\ part \in Parts
    /\ part # "codec" => message = Request
    /\ part # "sockets" => sky = {}
    /\ part # "records" => sender = "client"
    /\ part # "hello" => /\ server = {"get_psk_info"} /\ address = <<1>>
                        /\ own = [is |-> FALSE, can |-> {}]
                        /\ offer = CHOOSE o \in SomeOffers : TRUE
    /\ CodecInit /\ ReplayInit /\ SocketInit /\ CLIInit /\ GNSSInit /\ SealInit /\ HelloInit
    /\ IF part = "text" THEN TextInit
       ELSE query = [op |-> "bypass", text |-> <<>>] /\ response = <<>> /\ cut = Null /\ result = Unanswered
    /\ IF part = "curve" THEN CurveInit ELSE task = [op |-> "reduce", x |-> FULL - 1] /\ work = Begin(task)

PartsNext ==
    /\ UNCHANGED part
    /\ \/ part = "codec" /\ CodecNext
       \/ part = "replay" /\ ReplayNext
       \/ part = "sockets" /\ SocketNext
       \/ part = "console" /\ CLINext
       \/ part = "text" /\ TextNext
       \/ part = "positions" /\ GNSSNext
       \/ part = "curve" /\ CurveNext
       \/ part = "records" /\ SealNext
       \/ part = "hello" /\ HelloNext
    /\ OthersStay(part)

partsVars == <<part, codecVars, replayVars, socketVars, cliVars, textVars, gnssVars, curveVars,
               sealVars, helloVars>>

PartsSpec == PartsInit /\ [][PartsNext]_partsVars

\* Every component that runs keeps its types.
PartsTypeOK ==
    /\ part = "codec" => CodecTypeOK
    /\ part = "replay" => ReplayTypeOK
    /\ part = "console" => CLITypeOK

(***************************************************************************)
(* The invariants of the parts, where the part runs: the others are as     *)
(* they began.                                                             *)
(***************************************************************************)
\* CoAPCodec's CodecFaithful: encode, decode.
PacketsRight == part = "codec" => CodecFaithful

\* ModemText's TextRight: filterResponse, the getters, doCommandBypass.
AnswersRight == part = "text" => TextRight

\* ModemGNSS's FixRight: getGNSSData.
PositionsRight == part = "positions" => FixRight

\* ECCurve's CurveCorrect: ecc.c.
SignaturesRight == part = "curve" => CurveCorrect

\* DTLSSeal's SealRight: what it says of every length is evaluated before the first
\* record.  dtls_prepare_record, decrypt_verify, ccm.c.
RecordsRight == part = "records" => SealRight

\* DTLSHello's HelloRight: both hellos and the cookie.
HellosRight == part = "hello" => HelloRight
=============================================================================
