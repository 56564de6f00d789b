----------------------------- MODULE DTLSReplay -----------------------------
(***************************************************************************)
(* The replay window of one epoch of a DTLS association: the newest record *)
(* number accepted (cseq) and a bit field of WINDOW bits for the numbers   *)
(* before it, bit i standing for cseq - 1 - i.  The bits are selected with *)
(* 1 << i, an int of INT_BITS bits, although the field is wider.           *)
(***************************************************************************)
EXTENDS Integers

CONSTANTS
  WINDOW,      \* bits of the bit field: 64
  INT_BITS,    \* bits of an int: 32
  MAX_SEQ      \* bound of the record numbers of a behaviour

ASSUME ReplayAssumption ==
  /\ WINDOW \in Nat /\ INT_BITS \in Nat /\ MAX_SEQ \in Nat
  /\ INT_BITS > 1 /\ WINDOW >= INT_BITS

VARIABLES
  cseq,        \* the newest record number accepted
  bitfield,    \* the bits that are set
  got,         \* the numbers of the records handed on (history)
  tame         \* no record was displaced by as much as an int has bits (history)

replayVars == <<cseq, bitfield, got, tame>>

Bits == 0 .. WINDOW - 1
Seqs == 0 .. MAX_SEQ

(***************************************************************************)
(* 1 << k, converted to the width of the field: the top bit of an int is   *)
(* its sign and fills the bits above it; a shift by INT_BITS or more is    *)
(* undefined, and gives 0 or shifts by the remainder, as the machine does. *)
(***************************************************************************)
IntBit(k) == IF k = INT_BITS - 1 THEN INT_BITS - 1 .. WINDOW - 1 ELSE {k}
Masks(k) == IF k < INT_BITS THEN {IntBit(k)} ELSE {{}, IntBit(k % INT_BITS)}

\* Mutant of Shifted: one place too few.
ShiftedLess(b, d) == {{i \in Bits : i - (d - 1) \in b}}

\* Mutant of Shifted: the bits above the width are kept.
ShiftedWide(b, d) == {{i + d : i \in b}}

\* b << d, which is undefined for d at least WINDOW: 0, or a shift by the remainder.
Shifted(b, d) ==
  IF d < WINDOW THEN {{i \in Bits : i - d \in b}} ELSE {{}, {i \in Bits : i - (d % WINDOW) \in b}}

\* Where the number of a record lies with respect to the window.
Behind(n) == (cseq - 1) - n
First(n) == n = 0 /\ cseq = 0
Newer(n) == n > cseq
Late(n) == n < cseq /\ Behind(n) < WINDOW

\* Mutant of Passes: a record that is as old as the newest is not compared.
PassesTwin(n, m) == First(n) \/ n >= cseq \/ (Late(n) /\ m \cap bitfield = {})

\* The record is handed to decrypt_verify, m being the mask that selects its bit.
Passes(n, m) == First(n) \/ Newer(n) \/ (Late(n) /\ m \cap bitfield = {})

(***************************************************************************)
(* A record arrives: len is what decrypt_verify returns, negative when the *)
(* record is not genuine, 0 when it is empty.  Only data moves the window, *)
(* except for the first record, for which even a failure does.             *)
(***************************************************************************)
FirstArrives(len) ==
  /\ First(0)
  /\ bitfield' = IF len # 0 THEN Bits ELSE bitfield
  /\ got' = IF len > 0 THEN got \cup {0} ELSE got
  /\ UNCHANGED <<cseq, tame>>

LateArrives(n, len) ==
  /\ Late(n)
  /\ \E m \in Masks(Behind(n)) :
       LET taken == Passes(n, m) /\ len > 0 IN
       /\ bitfield' = IF taken THEN bitfield \cup m ELSE bitfield
       /\ got' = IF taken THEN got \cup {n} ELSE got
       /\ tame' = (tame /\ (taken => Behind(n) < INT_BITS - 1))
  /\ UNCHANGED cseq

NewerArrives(n, len) ==
  /\ Newer(n) /\ len > 0
  /\ \E m \in Masks(n - cseq - 1), b \in Shifted(bitfield, n - cseq) : bitfield' = b \cup m
  /\ cseq' = n
  /\ got' = got \cup {n}
  /\ tame' = (tame /\ n - cseq < INT_BITS)

ReplayInit == cseq = 0 /\ bitfield = {} /\ got = {} /\ tame = TRUE

ReplayNext ==
  \E len \in {-1, 0, 1} :
    \/ FirstArrives(len)
    \/ \E n \in Seqs : LateArrives(n, len) \/ NewerArrives(n, len)

ReplaySpec == ReplayInit /\ [][ReplayNext]_replayVars

-----------------------------------------------------------------------------
\* The window, its newest number and the history have their types.
ReplayTypeOK ==
  /\ cseq \in Nat /\ bitfield \subseteq Bits /\ got \subseteq Nat /\ tame \in BOOLEAN
  /\ \A n \in got : n <= cseq

(***************************************************************************)
(* A record that was handed on and is replayed is dropped, as long as it   *)
(* is less than an int's bits older than the newest one, whatever jumps    *)
(* and forgeries went before.  Number 0 is exempt until another comes.     *)
(* dtls_handle_message: the comparisons with cseq and the bit field.       *)
(***************************************************************************)
ReplayRefused ==
  \A n \in got : (Behind(n) < INT_BITS - 1 /\ ~First(n)) =>
    \A m \in Masks(Behind(n)) : ~Passes(n, m)

(***************************************************************************)
(* A record that was not handed on yet is not taken for a replay, as long  *)
(* as the network displaces none by as much as an int has bits.  Number 0  *)
(* is exempt: it counts as seen once a later one came.                     *)
(* dtls_handle_message: the shift of the bit field and the bit it sets.    *)
(***************************************************************************)
FreshPasses ==
  tame => \A n \in Seqs \ (got \cup {0}) : Behind(n) < INT_BITS - 1 =>
    \A m \in Masks(Behind(n)) : Passes(n, m)

(***************************************************************************)
(* What the width of the field promises (64, in the comparisons of the     *)
(* code): a replay of anything in the window is dropped.  The code does    *)
(* not keep it, see the README.                                            *)
(***************************************************************************)
ReplayRefusedInWindow ==
  \A n \in got : (Behind(n) < WINDOW /\ ~First(n)) => \A m \in Masks(Behind(n)) : ~Passes(n, m)
=============================================================================
