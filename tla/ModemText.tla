----------------------------- MODULE ModemText -----------------------------
(***************************************************************************)
(* What the modem answers, as text: filterResponse, which takes the lines  *)
(* of other commands out of a response while it is being cut into lines;   *)
(* the getters of OwlModemSIM, -PDN, -Information, -Network and -Socket;   *)
(* and what is typed to it in a bypass.  A prefix such as "+COPS: " is two *)
(* characters here.                                                        *)
(***************************************************************************)
EXTENDS Strings, FiniteSets

CONSTANTS TextLines,    \* lines that a response may hold beside the answer
          LineEnds,     \* what may end a line
          Answers,      \* pairs of a getter and what the modem has for it
          TextSources,  \* texts to cut
          ExitWord,     \* that ends a bypass, s_exitbypass
          Keyboard,     \* characters typed in a bypass
          MaxTyped      \* bound: their number

VARIABLES query,      \* what is asked
          response,   \* the buffer of the answer
          cut,        \* the token of filterResponse
          result      \* whether there is one, and what it is

textVars == <<query, response, cut, result>>

Unanswered == [done |-> FALSE, is |-> <<>>]
Returned(v) == [done |-> TRUE, is |-> v]

-----------------------------------------------------------------------------
(***************************************************************************)
(* filterResponse, line by line, in place.                                 *)
(***************************************************************************)
Prefix == <<"+", "P">>
Filtering == query.op = "get" /\ ~result.done

\* Mutant of NextLine: the search goes on where the line ended that was removed.
NextLineFar == StrTok(response, CRLF, [cut EXCEPT !.len = IF cut.s = 0 THEN 0 ELSE @ + 2])
NextLine == StrTok(response, CRLF, cut)
ShrinkInside(src, s, size) == SubSeq(src, 1, s - 1) \o SubSeq(src, s + size, Len(src))

\* With the CR LF after it, when both are there.
Ending(t) ==
    LET e == t.s + t.len
    IN  IF e + 1 <= Len(response) /\ SubSeq(response, e, e + 1) = <<"\r", "\n">> THEN 2 ELSE 0

RemoveLine ==
    /\ Filtering /\ NextLine # NoToken
    /\ ~StrEqualPrefix(TextOf(response, NextLine), Prefix)
    /\ response' = ShrinkInside(response, NextLine.s, NextLine.len + Ending(NextLine))
    /\ cut' = [NextLine EXCEPT !.len = 0]
    /\ UNCHANGED <<query, result>>

RemovePrefix ==
    /\ Filtering /\ NextLine # NoToken
    /\ StrEqualPrefix(TextOf(response, NextLine), Prefix)
    /\ response' = ShrinkInside(response, NextLine.s, Len(Prefix))
    /\ cut' = [NextLine EXCEPT !.len = @ - Len(Prefix)]
    /\ UNCHANGED <<query, result>>

-----------------------------------------------------------------------------
(***************************************************************************)
(* The getters: defaults, and the fields that are there.                   *)
(***************************************************************************)
FieldOr(f, i, default, base) == IF i <= Len(f) THEN StrToLongInt(f[i], base) ELSE default

GetModemFunctionality(text) ==
    LET f == Fields(text, {","} \cup CRLF) IN <<FieldOr(f, 1, 0, 10), FieldOr(f, 2, 0, 10)>>

GetModemMNOProfile(text) == <<StrToLongInt(text, 10)>>

GetOperatorSelection(text) ==
    LET f == Fields(text, {","} \cup CRLF)
    IN  <<FieldOr(f, 1, 0, 10), FieldOr(f, 2, 0, 10), IF Len(f) >= 3 THEN f[3] ELSE <<>>,
          FieldOr(f, 4, 0, 10)>>

GetSignalQuality(text) ==
    LET f == Fields(text, {","}) IN <<FieldOr(f, 1, 99, 10), FieldOr(f, 2, 99, 10)>>

\* The first field is n, unless the second is quoted.
ParseNetworkRegistrationStatus(text) ==
    LET f == Fields(SkipOverPrefix(text, Prefix), {","})
        hasN == ~(Len(f) >= 2 /\ f[2][1] = "\"")
        g == IF hasN THEN f ELSE <<<<"0">>>> \o f
    IN  <<FieldOr(g, 1, 0, 10), FieldOr(g, 2, 0, 10), FieldOr(g, 3, 0, 16),
          IF Len(g) >= 4 THEN StrToUint32(g[4], 16) ELSE -1, FieldOr(g, 5, -1, 16)>>

\* An address of 15 characters or less is one of IPv4, a longer one of IPv6.
GetAPNIPAddress(text) ==
    LET f == Fields(text, {","} \cup CRLF)
        addresses == FlattenSeq([i \in 1 .. Len(f) |->
                         IF i = 1 THEN <<>> ELSE Fields(f[i], {" ", "\""})])
        numbers(a) == LET n == Fields(a, {"."}) IN [i \in 1 .. Len(n) |-> StrToUint32(n[i], 10)]
        fits(a) == Len(numbers(a)) = IF Len(a) <= 15 THEN 4 ELSE 16
        last(long) ==
            LET of == SelectSeq(addresses, LAMBDA a : (Len(a) > 15) = long)
            IN  IF of = <<>> THEN <<>> ELSE numbers(of[Len(of)])
    IN  IF Len(f) > 3 \/ \E i \in DOMAIN addresses : ~fits(addresses[i]) THEN <<>>
        ELSE <<FieldOr(f, 1, 0, 10), last(FALSE), last(TRUE)>>

BytesSent(text) ==
    LET f == Fields(text, {","} \cup CRLF) IN <<FieldOr(f, 1, 0, 10), FieldOr(f, 2, 0, 10)>>

Parsed(getter, text) ==
    CASE getter = "CFUN" -> GetModemFunctionality(text)
      [] getter = "UMNOPROF" -> GetModemMNOProfile(text)
      [] getter = "COPS" -> GetOperatorSelection(text)
      [] getter = "CSQ" -> GetSignalQuality(text)
      [] getter = "CREG" -> ParseNetworkRegistrationStatus(text)
      [] getter = "CGPADDR" -> GetAPNIPAddress(text)
      [] getter \in {"USOWR", "USOST"} -> BytesSent(text)
      [] getter = "lines" -> Fields(text, CRLF)

Parse ==
    /\ Filtering /\ NextLine = NoToken
    /\ result' = Returned(Parsed(query.getter, response))
    /\ UNCHANGED <<query, response, cut>>

-----------------------------------------------------------------------------
(***************************************************************************)
(* bypassCLI: characters go to the modem until the word was typed.  cut    *)
(* counts how far it was.                                                  *)
(***************************************************************************)
Type(c) ==
    LET index == IF ExitWord[cut.len + 1] = c THEN cut.len + 1 ELSE 0
    IN  /\ query.op = "bypass" /\ ~result.done /\ Len(response) < MaxTyped
        /\ response' = Append(response, c)
        /\ cut' = [cut EXCEPT !.len = index]
        /\ result' = [result EXCEPT !.done = index = Len(ExitWord)]
        /\ UNCHANGED query

-----------------------------------------------------------------------------
(***************************************************************************)
(* How the modem writes what it has.                                       *)
(***************************************************************************)
Decimal(n) == IF n < 10 THEN <<Digits[n + 1]>>
              ELSE IF n < 100 THEN <<Digits[(n \div 10) + 1], Digits[(n % 10) + 1]>>
              ELSE <<Digits[(n \div 100) + 1], Digits[((n \div 10) % 10) + 1], Digits[(n % 10) + 1]>>
Hex(n) == <<"\"", Digits[(n \div 16) + 1], Digits[(n % 16) + 1], "\"">>
Joined(parts, c) == FoldLeft(LAMBDA a, p : IF a = <<>> THEN p ELSE a \o c \o p, <<>>, parts)
Comma(parts) == Joined(parts, <<",">>)
Quoted(x) == <<"\"">> \o x \o <<"\"">>
Dotted(a) == Quoted(Joined([i \in DOMAIN a |-> Decimal(a[i])], <<".">>))

Written(getter, v) ==
    CASE getter \in {"CFUN", "CSQ", "USOWR", "USOST", "UMNOPROF"} ->
            Comma([i \in DOMAIN v |-> Decimal(v[i])])
      [] getter = "COPS" -> Comma(<<Decimal(v[1]), Decimal(v[2]), v[3], Decimal(v[4])>>)
      [] getter = "CREG" -> Comma((IF v[1] = 0 THEN <<>> ELSE <<Decimal(v[1])>>)
                                \o <<Decimal(v[2]), Hex(v[3]), Hex(v[4]), Decimal(v[5])>>)
      [] getter = "CGPADDR" -> Comma(<<Decimal(v[1]), Dotted(v[2])>>
                                   \o IF v[3] = <<>> THEN <<>> ELSE <<Dotted(v[3])>>)

\* A response of these lines, each with what ends it.
LinesOf(ls, sep) == FlattenSeq([i \in DOMAIN ls |-> ls[i] \o sep])

\* TextLines that belong to other commands.
Others == {l \in TextLines : ~StrEqualPrefix(l, Prefix)}

Queries ==
    {[op |-> "get", getter |-> a[1], value |-> a[2],
      text |-> first \o LinesOf(before \o <<Prefix \o Written(a[1], a[2])>> \o after, <<"\r", "\n">>)]
        : a \in Answers, first \in {<<>>, <<"\r", "\n">>}, before, after \in {<<>>} \cup {<<l>> : l \in Others}}
    \cup {[op |-> "get", getter |-> "lines", text |-> first \o LinesOf(ls, sep) \o last]
        : ls \in SeqOf(TextLines, 3), sep \in LineEnds, first \in {<<>>, <<"\n">>}, last \in {<<>>} \cup TextLines}
    \cup {[op |-> "cut", text |-> x] : x \in TextSources}
    \cup {[op |-> "bypass", text |-> <<>>]}

TextInit ==
    /\ query \in Queries
    /\ response = query.text
    /\ cut = Null
    /\ result = Unanswered

TextNext ==
    \/ RemoveLine
    \/ RemovePrefix
    \/ Parse
    \/ \E c \in Keyboard : Type(c)

-----------------------------------------------------------------------------
\* The token of the line in work stays within the response.
TextTypeOK ==
    /\ cut.s >= 0 /\ cut.len >= 0
    /\ query.op = "get" => cut.s + cut.len <= Len(response) + 1

\* By the book: the fields between separators, empty ones included.
Split(src, sep) ==
    FoldLeft(LAMBDA fs, c : IF c \in sep THEN Append(fs, <<>>)
                            ELSE Front(fs) \o <<Append(Last(fs), c)>>, <<<<>>>>, src)
NonEmpty(fs) == SelectSeq(fs, LAMBDA f : f # <<>>)

\* str_tok finds the fields that are not empty, and str_tok_with_empty_tokens all
\* but an empty one at either end.
CutRight ==
    query.op = "cut" =>
        LET sep == {","}
            fs == Split(query.text, sep)
            head == IF fs[1] = <<>> THEN Tail(fs) ELSE fs
            inner == IF head # <<>> /\ Last(head) = <<>> THEN Front(head) ELSE head
        IN  /\ Fields(query.text, sep) = NonEmpty(fs)
            /\ Tokens(query.text, sep, StrTokWithEmptyTokens) = inner
            /\ (StrFind(query.text, <<",">>) = -1) = (Len(fs) = 1)
            /\ StrFind(query.text, <<",">>) \in {-1, Len(fs[1])}

\* Text that goes through hexadecimal comes back, as much of it as has room.
HexBack ==
    query.op = "cut" =>
        LET bytes == [i \in DOMAIN query.text |-> IF query.text[i] = "," THEN 44 ELSE 250]
        IN  \A room \in 0 .. 9 :
                HexToStr(StrToHex(bytes, room), Len(bytes))
                    = SubSeq(bytes, 1, Min({Len(bytes), (room + 1) \div 2}))

\* Whatever lines come before, between and after, and however they end, what is
\* left of a response are the lines of its command, without prefix, in order.
FilterKeeps ==
    query.op = "get" /\ result.done =>
        LET of == SelectSeq(NonEmpty(Split(query.text, CRLF)), LAMBDA l : StrEqualPrefix(l, Prefix))
        IN  Fields(response, CRLF) = NonEmpty([i \in DOMAIN of |-> SkipOverPrefix(of[i], Prefix)])

\* A getter returns what the modem has.
GetterTrue ==
    query.op = "get" /\ result.done /\ query.getter # "lines" => result.is = query.value

\* A bypass ends with the word, and with no less.  (The word typed right after a
\* part of itself is missed.)
BypassEnds ==
    query.op = "bypass" =>
        LET n == Len(response)
            w == Len(ExitWord)
            typed == n >= w /\ SubSeq(response, n - w + 1, n) = ExitWord
        IN  /\ result.done => typed
            /\ typed /\ (n = w \/ response[n - w] \notin ToSet(ExitWord)) => result.done

\* The same without the exception.
BypassAlwaysEnds ==
    query.op = "bypass" /\ Len(response) >= Len(ExitWord)
        /\ SubSeq(response, Len(response) - Len(ExitWord) + 1, Len(response)) = ExitWord => result.done

\* What the modem writes is what the caller is given.
TextRight == TextTypeOK /\ CutRight /\ HexBack /\ FilterKeeps /\ GetterTrue /\ BypassEnds
=============================================================================
