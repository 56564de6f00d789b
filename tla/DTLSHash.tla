------------------------------ MODULE DTLSHash ------------------------------
(***************************************************************************)
(* The keyed hash of tinydtls (hmac.c) and what is made with it: P_hash,   *)
(* which stretches a secret over any number of octets (crypto.c).          *)
(***************************************************************************)
EXTENDS Integers, Sequences, SequencesExt

CONSTANTS DIGEST,       \* octets of a hash: 32
          HMAC_BLOCK    \* octets of a block of the hash: 64

Octets == 0 .. 255

XorOfNibbles ==
    [a \in 0 .. 15, b \in 0 .. 15 |->
        LET bit(k) == k * (((a \div k) + (b \div k)) % 2) IN bit(1) + bit(2) + bit(4) + bit(8)]
Xor(a, b) == 16 * XorOfNibbles[a \div 16, b \div 16] + XorOfNibbles[a % 16, b % 16]

Xored(x, y) == [i \in DOMAIN x |-> Xor(x[i], y[i])]
Zeros(n) == [i \in 1 .. n |-> 0]
PaddedTo(x, n) == x \o Zeros(n - Len(x))

(***************************************************************************)
(* In the place of SHA-256 and of AES: every octet and its place count.    *)
(***************************************************************************)
Mixed(x, n) ==
    LET h == FoldLeft(LAMBDA v, o : (v * 257 + 31 * o + 7) % 46337, 1, x)
    IN  [i \in 1 .. n |-> ((((h + 1) * (97 * i + 11)) % 46337) \div 3) % 256]

Hash(x) == Mixed(<<1>> \o x, DIGEST)

\* dtls_hmac_init: the key in a block, hashed if it is longer; then the inner pad.
KeyPad(key) == PaddedTo(IF Len(key) > HMAC_BLOCK THEN Hash(key) ELSE key, HMAC_BLOCK)
InnerPad(key) == LET k == KeyPad(key) IN [i \in DOMAIN k |-> Xor(k[i], 54)]

\* The same pad again, from one constant to the other.
OuterPad(key) == LET k == InnerPad(key) IN [i \in DOMAIN k |-> Xor(k[i], 106)]

\* dtls_hmac_finalize
HMAC(key, x) == Hash(OuterPad(key) \o Hash(InnerPad(key) \o x))

(***************************************************************************)
(* dtls_p_hash: whole digests while more than one is missing, then a part. *)
(***************************************************************************)
PHash(key, seed, n) ==
    LET rounds == IF n = 0 THEN 0 ELSE (n - 1) \div DIGEST
        step(s, i) == [a |-> HMAC(key, s.a), out |-> s.out \o HMAC(key, s.a \o seed)]
        whole == FoldLeft(step, [a |-> HMAC(key, seed), out |-> <<>>], Zeros(rounds))
    IN  whole.out \o SubSeq(HMAC(key, whole.a \o seed), 1, n - Len(whole.out))

-----------------------------------------------------------------------------
\* By the book (RFC 2104, RFC 5246).
BookHMAC(key, x) ==
    LET k == IF Len(key) > HMAC_BLOCK THEN Hash(key) ELSE key
        pad(c) == [i \in 1 .. HMAC_BLOCK |-> IF i <= Len(k) THEN Xor(k[i], c) ELSE c]
    IN  Hash(pad(92) \o Hash(pad(54) \o x))

BookPHash(key, seed, n) ==
    LET a[i \in 0 .. n] == IF i = 0 THEN seed ELSE BookHMAC(key, a[i - 1])
    IN  SubSeq(FlattenSeq([i \in 1 .. n |-> BookHMAC(key, a[i] \o seed)]), 1, n)

\* What a secret is stretched to is right for every length of key, seed and output:
\* a key of a whole block, an output of whole digests, of one octet more or less.
\* dtls_hmac_init, dtls_hmac_finalize, dtls_p_hash.
Stretches ==
    \A k \in 0 .. HMAC_BLOCK + 1, n \in 0 .. 2 * DIGEST + 1, s \in {0, 3} :
        LET key == [i \in 1 .. k |-> 10 * i]
            seed == [i \in 1 .. s |-> i]
        IN  PHash(key, seed, n) = BookPHash(key, seed, n)
=============================================================================
