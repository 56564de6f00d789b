------------------------------ MODULE Strings ------------------------------
(***************************************************************************)
(* str.c: texts are cut into tokens, and tokens read as numbers, decimal   *)
(* or hexadecimal.  A text is a sequence of characters.                    *)
(***************************************************************************)
EXTENDS Integers, Sequences, SequencesExt, FiniteSetsExt

CRLF == {"\r", "\n"}
Digits == <<"0", "1", "2", "3", "4", "5", "6", "7", "8", "9", "a", "b", "c", "d", "e", "f">>
IsDigit(c, base) == \E d \in 1 .. base : Digits[d] = c
ValueOfDigit(c) == SelectInSeq(Digits, LAMBDA d : d = c) - 1

(***************************************************************************)
(* Tokens: where they start in their source, and how long they are.        *)
(***************************************************************************)
Null == [s |-> 0, len |-> 0]
NoToken == [s |-> -1, len |-> 0]

TextOf(src, t) == SubSeq(src, t.s, t.s + t.len - 1)
StrEqualPrefix(x, p) == IsPrefix(p, x)
SkipOverPrefix(x, p) == IF StrEqualPrefix(x, p) THEN SubSeq(x, Len(p) + 1, Len(x)) ELSE x
StrFind(x, y) ==
    LET at == {i \in 0 .. Len(x) - Len(y) : SubSeq(x, i + 1, i + Len(y)) = y}
    IN  IF y = <<>> \/ at = {} THEN -1 ELSE Min(at)

\* The token may have been left outside of a source that shrank.
Usable(src, t) == src # <<>> /\ t.s <= Len(src) + 1 /\ t.s + t.len <= Len(src) + 1
TokenStart(t) == IF t.s = 0 THEN 1 ELSE t.s + t.len
RunFrom(src, sep, s) ==
    [s |-> s, len |-> Min({i \in s .. Len(src) : src[i] \in sep} \cup {Len(src) + 1}) - s]

StrTok(src, sep, t) ==
    LET at == {i \in TokenStart(t) .. Len(src) : src[i] \notin sep}
    IN  IF ~Usable(src, t) \/ at = {} THEN NoToken ELSE RunFrom(src, sep, Min(at))

\* An empty token lies between two separators; the first separator of all only
\* leads to the first token.
StrTokWithEmptyTokens(src, sep, t) ==
    LET i == TokenStart(t)
    IN  IF ~Usable(src, t) \/ i > Len(src) THEN NoToken
        ELSE IF src[i] \notin sep THEN RunFrom(src, sep, i)
        ELSE IF i = Len(src) THEN NoToken
        ELSE IF src[i + 1] \in sep THEN [s |-> i + 1, len |-> 0]
        ELSE RunFrom(src, sep, i + 1)

\* All tokens, by one of the two.
Tokens(src, sep, Next(_, _, _)) ==
    LET t[i \in 0 .. Len(src) + 1] ==
            IF i = 0 THEN Null
            ELSE LET last == t[i - 1]
                 IN  IF last = NoToken THEN NoToken ELSE Next(src, sep, last)
        all == [i \in 1 .. Len(src) + 1 |-> t[i]]
        some == SelectSeq(all, LAMBDA x : x # NoToken)
    IN  [i \in 1 .. Len(some) |-> TextOf(src, some[i])]

Fields(src, sep) == Tokens(src, sep, StrTok)

(***************************************************************************)
(* Numbers: quotes are taken off, white space skipped, and digits read as  *)
(* far as they go.                                                         *)
(***************************************************************************)
Unquoted(x) ==
    IF Len(x) > 1 /\ x[1] = "\"" /\ x[Len(x)] = "\"" THEN SubSeq(x, 2, Len(x) - 1) ELSE x

ToNumber(x, base) ==
    LET y == LET u == Unquoted(x)
                 at == {i \in 1 .. Len(u) : u[i] \notin CRLF \cup {" "}}
             IN  IF at = {} THEN <<>> ELSE SubSeq(u, Min(at), Len(u))
        end == Min({i \in 1 .. Len(y) : ~IsDigit(y[i], base)} \cup {Len(y) + 1})
    IN  FoldLeft(LAMBDA v, c : base * v + ValueOfDigit(c), 0, SubSeq(y, 1, end - 1))

StrToLongInt(x, base) == IF Len(x) > 64 THEN 0 ELSE ToNumber(x, base)
StrToUint32(x, base) == IF Len(x) > 32 THEN 0 ELSE ToNumber(x, base)

HexToInt(c) == IF IsDigit(c, 16) THEN ValueOfDigit(c) ELSE -1

HexToStr(src, room) ==
    LET n == Min({Len(src) \div 2, room})
        bytes == [i \in 1 .. n |-> HexToInt(src[2 * i - 1]) * 16 + HexToInt(src[2 * i])]
    IN  IF Len(src) % 2 # 0 \/ \E i \in 1 .. 2 * n : HexToInt(src[i]) < 0 THEN <<>> ELSE bytes

StrToHex(bytes, room) ==
    LET n == Min({Len(bytes), (room + 1) \div 2})
    IN  [i \in 1 .. 2 * n |-> LET b == bytes[(i + 1) \div 2]
                              IN  Digits[IF i % 2 = 1 THEN (b \div 16) + 1 ELSE (b % 16) + 1]]
=============================================================================
