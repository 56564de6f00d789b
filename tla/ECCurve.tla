------------------------------ MODULE ECCurve ------------------------------
(***************************************************************************)
(* The curve of tinydtls, ecc.c: numbers of arrayLength words, reduction   *)
(* modulo the prime of secp256r1 and modulo the order of its group, the    *)
(* inverse, the multiple of a point, and ECDSA.  A word has WORD bits      *)
(* instead of 32.  fieldModP reduces by SOLINAS, which is the prime of     *)
(* secp256r1 for 32 bits; the curve is over a prime of its own, PRIME, for *)
(* Barrett's reduction needs room for three times the order.               *)
(*                                                                         *)
(* The loops of fieldInv and ecc_ec_mult are taken step by step.  The      *)
(* formulas for points use the inverse and the reduced product by what     *)
(* they return, which the other invariants are about.                      *)
(***************************************************************************)
EXTENDS Integers, Sequences

CONSTANTS WORD,       \* bits of a word
          PRIME,      \* of the field, ecc_prime_m
          ORDER,      \* of the group, ecc_order_m
          CURVE_B,    \* y^2 = x^3 - 3x + CURVE_B
          G,          \* the base point, ecc_g_point_x and ecc_g_point_y
          Scalars,    \* keys, hashes and points (as multiples of G) to try
          Junk        \* what a word that is not initialized may hold

VARIABLES task,       \* the function called, with its arguments
          work        \* its local variables

curveVars == <<task, work>>

arrayLength == 8
BASE == 2 ^ WORD
FULL == BASE ^ arrayLength
SOLINAS == BASE ^ 8 - BASE ^ 7 + BASE ^ 6 + BASE ^ 3 - 1
ecc_order_mu == BASE ^ 16 \div ORDER

ASSUME CurveAssumption ==
    /\ WORD \in Nat \ {0}
    /\ PRIME \in ORDER .. FULL - 1
    /\ ORDER \in BASE ^ 7 + 1 .. FULL - 1
    /\ 3 * ORDER <= BASE ^ 9
    /\ Scalars \subseteq 0 .. FULL - 1
    /\ Junk \subseteq 0 .. BASE - 1
    /\ (G[2] * G[2] - G[1] * G[1] * G[1] + 3 * G[1] - CURVE_B) % PRIME = 0

Word(a, i) == (a \div BASE ^ i) % BASE
OfWords(w) ==
    LET sum[i \in 0 .. Len(w)] == IF i = 0 THEN 0 ELSE sum[i - 1] + w[i] * BASE ^ (i - 1)
    IN  sum[Len(w)]

-----------------------------------------------------------------------------
(***************************************************************************)
(* Field operations.  A carry is made up for once, by adding the reducer;  *)
(* the carry of that addition is dropped.                                  *)
(***************************************************************************)
Add(x, y) == (x + y) % FULL
Sub(x, y) == (x - y) % FULL
RShift(x) == x \div 2
RShiftBy(x, words) == x \div BASE ^ words
IsOne(x) == x = 1

FieldAdd(x, y, reducer) ==
    IF x + y >= FULL THEN Add(Add(x, y), reducer) ELSE Add(x, y)

FieldSub(x, y, modulus) ==
    IF x < y THEN Add(Sub(x, y), modulus) ELSE Sub(x, y)

\* Mutant of FieldAddAndDivide: the carry is shifted out.
FieldAddAndDivideShort(x, modulus) == RShift((x + modulus) % FULL)

FieldAddAndDivide(x, modulus) == RShift(x + modulus)

(***************************************************************************)
(* What fieldModP adds to and subtracts from the lower half of the number, *)
(* by the words of its upper half: S1, S1, S2, S2, S3, S4, D1 to D4.       *)
(***************************************************************************)
Terms(b) ==
    LET w(i) == Word(b, i)
        s1 == OfWords(<<0, 0, 0, w(11), w(12), w(13), w(14), w(15)>>)
        s2 == OfWords(<<0, 0, 0, w(12), w(13), w(14), w(15), 0>>)
        s3 == OfWords(<<w(8), w(9), w(10), 0, 0, 0, w(14), w(15)>>)
        s4 == OfWords(<<w(9), w(10), w(11), w(13), w(14), w(15), w(13), w(8)>>)
        d1 == OfWords(<<w(11), w(12), w(13), 0, 0, 0, w(8), w(10)>>)
        d2 == OfWords(<<w(12), w(13), w(14), w(15), 0, 0, w(9), w(11)>>)
        d3 == OfWords(<<w(13), w(14), w(15), w(8), w(9), w(10), 0, w(12)>>)
        d4 == OfWords(<<w(14), w(15), 0, w(9), w(10), w(11), 0, w(13)>>)
    IN  <<s1, s1, s2, s2, s3, s4, d1, d2, d3, d4>>

\* The value of A after each of the additions and subtractions.
Reduction(b) ==
    LET t == Terms(b)
        a[i \in 0 .. 10] ==
            IF i = 0 THEN b % FULL
            ELSE IF i <= 6 THEN FieldAdd(a[i - 1], t[i], FULL - SOLINAS)
            ELSE FieldSub(a[i - 1], t[i], SOLINAS)
    IN  a

FieldModP(b) ==
    LET a == Reduction(b)[10]
    IN  IF a >= SOLINAS THEN FieldSub(a, SOLINAS, SOLINAS) ELSE a

\* One of the additions or subtractions would have to be made up for twice.
CarryLost(b) ==
    LET t == Terms(b)
        a == Reduction(b)
    IN  \/ \E i \in 1 .. 6 : a[i - 1] + t[i] >= FULL + SOLINAS
        \/ \E i \in 7 .. 10 : a[i - 1] - t[i] + SOLINAS < 0

(***************************************************************************)
(* Barrett's reduction modulo the order, of a number of length words.  A   *)
(* number of arrayLength words is returned as it is unless it is greater   *)
(* than the order; then a ninth word is read that nobody has written.      *)
(***************************************************************************)
FieldModO(a, length, junk) ==
    LET q1 == RShiftBy(a, 7)
        q3 == RShiftBy(ecc_order_mu * q1, 9) % FULL
        nine == IF length = arrayLength THEN a + junk * FULL ELSE a
        r == (nine - q3 * ORDER) % BASE ^ 9
    IN  IF length = arrayLength /\ a <= ORDER THEN a ELSE r % ORDER

-----------------------------------------------------------------------------
(***************************************************************************)
(* fieldInv: u and v are halved and subtracted until one of them is 1, x1  *)
(* and x2 follow them modulo m.                                            *)
(***************************************************************************)
Invert(a, m) == [op |-> "invert", a |-> a, m |-> m]
Halved(x, m) == IF x % 2 = 0 THEN RShift(x) ELSE FieldAddAndDivide(x, m)
InvertEnds(w) == ~w.pass /\ (IsOne(w.u) \/ IsOne(w.v))
InvertResult(w) == IF IsOne(w.u) THEN w.x1 ELSE w.x2

InvertPass ==
    /\ task.op = "invert" /\ ~work.pass /\ ~InvertEnds(work)
    /\ work' = [work EXCEPT !.pass = TRUE]
    /\ UNCHANGED task

InvertHalveU ==
    /\ task.op = "invert" /\ work.pass /\ work.u % 2 = 0
    /\ work' = [work EXCEPT !.u = RShift(@), !.x1 = Halved(@, task.m)]
    /\ UNCHANGED task

InvertHalveV ==
    /\ task.op = "invert" /\ work.pass /\ work.u % 2 = 1 /\ work.v % 2 = 0
    /\ work' = [work EXCEPT !.v = RShift(@), !.x2 = Halved(@, task.m)]
    /\ UNCHANGED task

InvertSubtract ==
    /\ task.op = "invert" /\ work.pass /\ work.u % 2 = 1 /\ work.v % 2 = 1
    /\ work' = IF work.u >= work.v
               THEN [work EXCEPT !.pass = FALSE, !.u = @ - work.v,
                                 !.x1 = FieldSub(@, work.x2, task.m)]
               ELSE [work EXCEPT !.pass = FALSE, !.v = @ - work.u,
                                 !.x2 = FieldSub(@, work.x1, task.m)]
    /\ UNCHANGED task

\* What fieldInv returns, for the functions that call it.
FieldInv(a, m) == CHOOSE b \in 0 .. m - 1 : (a * b) % m = 1

-----------------------------------------------------------------------------
(***************************************************************************)
(* Points; <<0, 0>> stands for the neutral element.  Times is fieldMult    *)
(* with fieldModP.                                                         *)
(***************************************************************************)
Zero == <<0, 0>>
Times(x, y) == (x * y) % PRIME
Minus(x, y) == FieldSub(x, y, PRIME)
Line(lambda, p, qx) ==
    LET sx == Minus(Minus(Times(lambda, lambda), p[1]), qx)
    IN  <<sx, Minus(Times(lambda, Minus(p[1], sx)), p[2])>>

ECDouble(p) ==
    IF p = Zero THEN p
    ELSE LET slope == Times(Minus(Times(p[1], p[1]), 1), 3)
             twice == FieldAdd(p[2], p[2], FULL - PRIME)
         IN  Line(Times(slope, FieldInv(twice, PRIME)), p, p[1])

ECAdd(p, q) ==
    IF p = Zero THEN q
    ELSE IF q = Zero THEN p
    ELSE IF p[1] = q[1] THEN IF p[2] = q[2] THEN ECDouble(p) ELSE Zero
    ELSE LET lambda == Times(Minus(p[2], q[2]), FieldInv(Minus(p[1], q[1]), PRIME))
         IN  Line(lambda, q, p[1])

\* One pass of the loop of ecc_ec_mult: bit i of the secret.
Bit(k, i) == (k \div 2 ^ i) % 2
DoubleAndAdd(q, p, k, i) ==
    IF Bit(k, i) = 1 THEN ECAdd(ECDouble(q), p) ELSE ECDouble(q)

BITS == WORD * arrayLength

ECMult(p, k) ==
    LET q[i \in 0 .. BITS] == IF i = BITS THEN Zero ELSE DoubleAndAdd(q[i + 1], p, k, i)
    IN  q[0]

MultiplyBit ==
    /\ task.op = "multiply" /\ work.i > 0
    /\ work' = [i |-> work.i - 1, q |-> DoubleAndAdd(work.q, task.p, task.k, work.i - 1)]
    /\ UNCHANGED task

-----------------------------------------------------------------------------
(***************************************************************************)
(* ECDSA.  sign refuses a k for which r or s is 0; the caller draws again, *)
(* and nothing of that k is left.                                          *)
(***************************************************************************)
Refused == <<0, 0>>

Sign(d, e, k, junk) ==
    LET r == FieldModO(ECMult(G, k)[1], 8, junk)
        rd == FieldModO(r * d, 16, 0)
        z == FieldModO(e + rd, 9, 0)
        s == FieldModO(FieldInv(k, ORDER) * z, 16, 0)
    IN  IF k = 0 \/ r = 0 \/ s = 0 THEN Refused ELSE <<r, s>>

Validate(q, e, r, s) ==
    LET w == FieldInv(s, ORDER)
        u1 == FieldModO(e * w, 16, 0)
        u2 == FieldModO(r * w, 16, 0)
    IN  ECAdd(ECMult(G, u1), ECMult(q, u2))[1] = r

IsValidKey(d) == ORDER > d

GenerateKey == {<<d, ECMult(G, d)>> : d \in {s \in Scalars : IsValidKey(s)}}

PreMasterSecret(d, q) == ECMult(q, d)[1]

SignWith ==
    /\ task.op = "sign" /\ work.sig = Refused
    /\ \E k \in 0 .. FULL - 1, junk \in Junk :
          LET sig == Sign(task.d, task.e, k, junk)
          IN  work' = [k |-> IF sig = Refused THEN 0 ELSE k, sig |-> sig]
    /\ UNCHANGED task

-----------------------------------------------------------------------------
(***************************************************************************)
(* A signature on the wire: two integers of octets, most significant       *)
(* first.  The writer leaves out words that are zero and at most one zero  *)
(* octet; the reader takes the DTLS_EC_KEY_SIZE octets that end where the  *)
(* integer ends, as many of them as there may be.                          *)
(***************************************************************************)
DTLS_EC_KEY_SIZE == 32

WrittenWord(w, first) ==
    IF first /\ w[1] >= 128 THEN <<0>> \o w
    ELSE IF first /\ w[1] = 0 /\ w[2] < 128 THEN Tail(w)
    ELSE w

KeyAsn1(key) ==
    LET out[i \in 0 .. arrayLength] ==
            IF i = 0 THEN <<>>
            ELSE LET w == SubSeq(key, 4 * i - 3, 4 * i)
                 IN  IF w = <<0, 0, 0, 0>> THEN out[i - 1]
                     ELSE out[i - 1] \o WrittenWord(w, out[i - 1] = <<>>)
    IN  out[arrayLength]

AddSignatureElem(r, s) ==
    LET a == KeyAsn1(r)
        b == KeyAsn1(s)
    IN  <<4, 3, 0, Len(a) + Len(b) + 6, 48, Len(a) + Len(b) + 4, 2, Len(a)>> \o a
            \o <<2, Len(b)>> \o b

CheckSignatureElem(data) ==
    LET r == 8 + data[8]                    \* where the first integer ends
        s == r + 2 + data[r + 2]
        key(end) == SubSeq(data, end - DTLS_EC_KEY_SIZE + 1, end)
    IN  IF /\ data[1] = 4 /\ data[2] = 3
           /\ data[4] <= Len(data) - 2
           /\ data[5] = 48 /\ data[6] <= Len(data) - 5
           /\ data[7] = 2 /\ data[r + 1] = 2
        THEN <<key(r), key(s)>>
        ELSE <<>>

SomeWords == {<<0, 0, 0, 0>>, <<0, 0, 0, 9>>, <<0, 127, 1, 2>>, <<0, 128, 1, 2>>, <<127, 3, 4, 5>>,
              <<128, 3, 4, 5>>}
Keys == {a \o b \o [i \in 1 .. 24 |-> i] : a, b \in SomeWords}

-----------------------------------------------------------------------------
Begin(t) ==
    CASE t.op = "invert" -> [u |-> t.a, v |-> t.m, x1 |-> 1, x2 |-> 0, pass |-> FALSE]
      [] t.op = "multiply" -> [i |-> BITS, q |-> Zero]
      [] t.op = "sign" -> [k |-> 0, sig |-> Refused]
      [] OTHER -> <<>>

\* The multiples of G by the book: chord and tangent in the prime field.
Textbook(p, q) ==
    LET P == PRIME
        inverse(a) == CHOOSE b \in 1 .. P - 1 : (a * b) % P = 1
        slope == IF p = q THEN ((3 * p[1] * p[1] - 3) * inverse((2 * p[2]) % P)) % P
                 ELSE ((q[2] - p[2]) * inverse((q[1] - p[1]) % P)) % P
        x == (slope * slope - p[1] - q[1]) % P
    IN  IF p = Zero THEN q
        ELSE IF q = Zero THEN p
        ELSE IF p[1] = q[1] /\ p[2] # q[2] THEN Zero
        ELSE <<x, (slope * (p[1] - x) - p[2]) % P>>

Multiples ==
    LET m[k \in 0 .. ORDER] ==
            IF k = 0 THEN Zero
            ELSE LET half == m[k \div 2]
                     even == Textbook(half, half)
                 IN  IF k % 2 = 0 THEN even ELSE Textbook(even, G)
    IN  m

Tasks ==
    {[op |-> "reduce", x |-> x] : x \in 0 .. FULL - 1}
    \cup {Invert(a, m) : a \in 1 .. FULL - 1, m \in {PRIME, ORDER}}
    \cup {[op |-> "multiply", p |-> Multiples[j], j |-> j, k |-> k]
            : j \in Scalars \cap 0 .. ORDER, k \in 0 .. FULL - 1}
    \cup {[op |-> "sign", d |-> key[1], q |-> key[2], e |-> e] : key \in GenerateKey, e \in Scalars}
    \cup {[op |-> "encode", r |-> r, s |-> s] : r, s \in Keys}

CurveInit ==
    /\ task \in {t \in Tasks : t.op = "invert" => t.a % t.m # 0}
    /\ work = Begin(task)

CurveNext ==
    \/ InvertPass
    \/ InvertHalveU
    \/ InvertHalveV
    \/ InvertSubtract
    \/ MultiplyBit
    \/ SignWith

CurveSpec == CurveInit /\ [][CurveNext]_curveVars

-----------------------------------------------------------------------------
\* The numbers fit into their words.
CurveTypeOK ==
    CASE task.op = "invert" -> /\ {work.u, work.v} \subseteq 1 .. FULL - 1
                               /\ {work.x1, work.x2} \subseteq 0 .. task.m - 1
      [] task.op = "multiply" -> work.q \in (0 .. PRIME - 1) \X (0 .. PRIME - 1)
      [] task.op = "sign" -> work.sig \in (0 .. FULL - 1) \X (0 .. ORDER - 1)
      [] OTHER -> TRUE

\* fieldModP and fieldModO return the remainder, for every product of two
\* numbers in the ranges their callers use (one of them reduced already), unless
\* fieldAdd or fieldSub loses a carry on the way.
Reduces ==
    task.op = "reduce" =>
        \A y \in task.x .. FULL - 1 :
            LET b == task.x * y
            IN  /\ task.x < ORDER => FieldModO(b, 16, 0) = b % ORDER
                /\ FieldModO(task.x + y, 9, 0) = (task.x + y) % ORDER
                /\ y < SOLINAS /\ ~CarryLost(b) => FieldModP(b) = b % SOLINAS

\* The same without the condition, which fieldAdd does not keep: the sum of two
\* numbers that are not reduced may have to be made up for twice.
ReducesAlways ==
    task.op = "reduce" =>
        \A y \in task.x .. SOLINAS - 1 :
            FieldModP(task.x * y) = (task.x * y) % SOLINAS

\* The loop of fieldInv keeps x1 and x2 the quotients of u and v by a, whichever
\* of them is halved and whether a carry falls out of the eighth word.
QuotientsKept ==
    task.op = "invert" =>
        /\ (task.a * work.x1 - work.u) % task.m = 0
        /\ (task.a * work.x2 - work.v) % task.m = 0
        /\ InvertEnds(work) => (task.a * InvertResult(work)) % task.m = 1

\* Double and add reaches the multiple of the book, through the neutral element,
\* equal and opposite points, and secrets beyond the order.
MultipleKept ==
    task.op = "multiply" =>
        work.q = Multiples[(task.j * (task.k \div 2 ^ work.i)) % ORDER]

\* Both sides of ECDSA agree: what is signed validates, for the hash that was
\* signed and for no other, as long as the x of the point is below the order.
\* (validate compares x itself with r.)
SignatureHolds ==
    task.op = "sign" /\ work.sig # Refused =>
        LET r == work.sig[1]
            s == work.sig[2]
        IN  Multiples[work.k % ORDER][1] < ORDER =>
                /\ Validate(task.q, task.e, r, s)
                /\ \A e \in Scalars :
                      Validate(task.q, e, r, s) =>
                          (e - task.e) % ORDER = 0 \/ (e + task.e + 2 * r * task.d) % ORDER = 0

\* A signature is read as it was written, if its integers fill their last octet
\* but for the sign, and none of their words is zero.
Filled(key) ==
    /\ key[1] > 0 \/ key[2] >= 128
    /\ \A i \in 1 .. arrayLength : SubSeq(key, 4 * i - 3, 4 * i) # <<0, 0, 0, 0>>

SignatureReadBack ==
    task.op = "encode" /\ Filled(task.r) /\ Filled(task.s) =>
        CheckSignatureElem(AddSignatureElem(task.r, task.s)) = <<task.r, task.s>>

\* The same for all keys: shorter integers are read with octets of their
\* neighbours, and a word that is zero is lost.
SignatureAlwaysReadBack ==
    task.op = "encode" =>
        CheckSignatureElem(AddSignatureElem(task.r, task.s)) = <<task.r, task.s>>

\* Both ends of a key exchange reach the same secret.
SecretShared ==
    task.op = "sign" /\ work.k = 0 =>
        \A key \in GenerateKey : PreMasterSecret(task.d, key[2]) = PreMasterSecret(key[1], task.q)

\* The arithmetic of the curve is that of the book, at every step of its loops,
\* and what the two ends exchange with it is understood.
CurveCorrect ==
    /\ CurveTypeOK
    /\ Reduces
    /\ QuotientsKept
    /\ MultipleKept
    /\ SignatureHolds
    /\ SecretShared
    /\ SignatureReadBack
=============================================================================
