----------------------------- MODULE DTLS_proofs -----------------------------
(***************************************************************************)
(* Proofs about DTLS.  Of the replay window: for every width of the field  *)
(* and of an int, and for every sequence of genuine, forged and empty      *)
(* records.  Of the link: for every suite, every weather and every bound,  *)
(* so for as many connections, faults and records as one likes.  Every     *)
(* operator that an end is built from is shown to keep the parts of one    *)
(* invariant (Base, Settled), and every action to apply them in turn.      *)
(***************************************************************************)
EXTENDS DTLSLink, DTLSReplay, SequenceTheorems, FiniteSetTheorems, WellFoundedInduction, TLAPS

-----------------------------------------------------------------------------
(* The replay window.                                                      *)

\* What was handed on and is near has its bit; the newest number was handed on.
SeenIsMarked ==
  /\ \A n \in got : (n < cseq /\ Behind(n) < INT_BITS - 1) => Behind(n) \in bitfield
  /\ cseq = 0 \/ cseq \in got

\* While the displacements are small, a bit stands for a record that was handed on.
MarkedIsSeen ==
  tame => \A j \in bitfield : j < INT_BITS - 1 => (cseq - 1 - j \in got \/ cseq - 1 - j <= 0)

WindowInv == ReplayTypeOK /\ SeenIsMarked /\ MarkedIsSeen

\* Below the sign bit of an int, 1 << k selects exactly bit k.
LEMMA MaskIsBit ==
  ASSUME NEW k \in Int, k < INT_BITS - 1
  PROVE  Masks(k) = {{k}}
  BY ReplayAssumption DEF Masks, IntBit

\* A mask never leaves the field.
LEMMA MaskInField ==
  ASSUME NEW k \in Nat, k < WINDOW, NEW m \in Masks(k)
  PROVE  m \subseteq Bits
<1>1. CASE k < INT_BITS
  BY <1>1, ReplayAssumption DEF Masks, IntBit, Bits
<1>2. CASE ~(k < INT_BITS)
  <2>1. k % INT_BITS \in 0 .. INT_BITS - 1
    BY ReplayAssumption
  <2>2. IntBit(k % INT_BITS) \subseteq Bits
    BY <2>1, ReplayAssumption DEF IntBit, Bits
  <2>3. m = {} \/ m = IntBit(k % INT_BITS)
    BY <1>2 DEF Masks
  <2> QED BY <2>2, <2>3
<1> QED BY <1>1, <1>2

\* The same for the jump that sets the bit, however far it goes.
LEMMA JumpMaskInField ==
  ASSUME NEW k \in Nat, NEW m \in Masks(k)
  PROVE  m \subseteq Bits
<1>1. CASE k < INT_BITS
  BY <1>1, MaskInField, ReplayAssumption
<1>2. CASE ~(k < INT_BITS)
  <2>1. k % INT_BITS \in 0 .. INT_BITS - 1
    BY ReplayAssumption
  <2>2. IntBit(k % INT_BITS) \subseteq Bits
    BY <2>1, ReplayAssumption DEF IntBit, Bits
  <2>3. m = {} \/ m = IntBit(k % INT_BITS)
    BY <1>2 DEF Masks
  <2> QED BY <2>2, <2>3
<1> QED BY <1>1, <1>2

\* The first record keeps the window right: it marks only what cannot come.
LEMMA FirstKeeps ==
  ASSUME WindowInv, NEW len \in {-1, 0, 1}, FirstArrives(len)
  PROVE  WindowInv'
<1> USE DEF WindowInv, First
<1>1. ReplayTypeOK'
  BY DEF FirstArrives, ReplayTypeOK
<1>2. SeenIsMarked'
  BY DEF FirstArrives, SeenIsMarked, ReplayTypeOK
<1>3. MarkedIsSeen'
  BY DEF FirstArrives, MarkedIsSeen, ReplayTypeOK, Bits
<1> QED BY <1>1, <1>2, <1>3

\* A late record that is taken gets its own bit while displacements are small.
LEMMA LateKeeps ==
  ASSUME WindowInv, NEW n \in Seqs, NEW len \in {-1, 0, 1}, LateArrives(n, len)
  PROVE  WindowInv'
<1> DEFINE taken(m) == Passes(n, m) /\ len > 0
<1>1. PICK m \in Masks(Behind(n)) :
        /\ bitfield' = IF taken(m) THEN bitfield \cup m ELSE bitfield
        /\ got' = IF taken(m) THEN got \cup {n} ELSE got
        /\ tame' = (tame /\ (taken(m) => Behind(n) < INT_BITS - 1))
  BY DEF LateArrives
<1>2. /\ cseq' = cseq /\ n < cseq /\ Behind(n) < WINDOW
      /\ n \in Nat /\ cseq \in Nat /\ Behind(n) \in Nat /\ Behind(n) = (cseq - 1) - n
  BY DEF LateArrives, Late, WindowInv, ReplayTypeOK, Behind, Seqs
<1>3. CASE ~taken(m)
  <2>1. bitfield' = bitfield /\ got' = got /\ tame' = tame
    BY <1>1, <1>3 DEF WindowInv, ReplayTypeOK
  <2> QED BY <2>1, <1>2 DEF WindowInv, ReplayTypeOK, SeenIsMarked, MarkedIsSeen, Behind
<1>4. CASE taken(m)
  <2>1. /\ bitfield' = bitfield \cup m /\ got' = got \cup {n}
        /\ tame' = (tame /\ Behind(n) < INT_BITS - 1)
    BY <1>1, <1>4
  <2>2. m \subseteq Bits
    BY <1>2, MaskInField
  <2>3. ReplayTypeOK'
    BY <1>2, <2>1, <2>2 DEF WindowInv, ReplayTypeOK
  <2>4. SeenIsMarked'
    <3>1. Behind(n) < INT_BITS - 1 => Behind(n) \in bitfield'
      BY <1>2, <2>1, MaskIsBit
    <3> QED BY <1>2, <2>1, <3>1 DEF WindowInv, ReplayTypeOK, SeenIsMarked, Behind
  <2>5. MarkedIsSeen'
    <3> SUFFICES ASSUME tame', NEW j \in bitfield', j < INT_BITS - 1
                 PROVE  (cseq - 1 - j \in got' \/ cseq - 1 - j <= 0)
      BY <1>2 DEF MarkedIsSeen
    <3>0. tame /\ Behind(n) < INT_BITS - 1
      BY <2>1, Zenon
    <3>1. tame /\ m = {Behind(n)}
      BY <3>0, <1>2, MaskIsBit
    <3>2. CASE j \in bitfield
      BY <3>1, <3>2, <2>1 DEF WindowInv, MarkedIsSeen
    <3>3. CASE j = Behind(n)
      <4>1. cseq - 1 - j = n
        BY <3>3, <1>2
      <4> QED BY <4>1, <2>1
    <3> QED BY <3>1, <3>2, <3>3, <2>1
  <2> QED BY <2>3, <2>4, <2>5 DEF WindowInv
<1> QED BY <1>3, <1>4

\* A jump moves every bit with the window and marks the number it left.
LEMMA NewerKeeps ==
  ASSUME WindowInv, NEW n \in Seqs, NEW len \in {-1, 0, 1}, NewerArrives(n, len)
  PROVE  WindowInv'
<1> DEFINE d == n - cseq
<1>1. PICK m \in Masks(d - 1), b \in Shifted(bitfield, d) : bitfield' = b \cup m
  BY DEF NewerArrives
<1>2. /\ cseq' = n /\ n > cseq /\ got' = got \cup {n} /\ tame' = (tame /\ d < INT_BITS)
      /\ n \in Nat /\ cseq \in Nat /\ d \in Nat /\ d >= 1 /\ d - 1 \in Nat
  BY DEF NewerArrives, Newer, WindowInv, ReplayTypeOK, Seqs
<1> HIDE DEF d
<1>3. m \subseteq Bits
  BY <1>2, JumpMaskInField
<1>4. b \subseteq Bits
  BY DEF Shifted
<1>5. ReplayTypeOK'
  BY <1>1, <1>2, <1>3, <1>4 DEF WindowInv, ReplayTypeOK
<1>6. d < INT_BITS => b = {i \in Bits : i - d \in bitfield}
  BY <1>2, ReplayAssumption DEF Shifted
<1>7. SeenIsMarked'
  <2> SUFFICES ASSUME NEW k \in got', k < n, (n - 1) - k < INT_BITS - 1
               PROVE  (n - 1) - k \in bitfield'
    BY <1>2 DEF SeenIsMarked, Behind
  <2>1. k \in got /\ k \in Nat /\ k <= cseq
    BY <1>2 DEF WindowInv, ReplayTypeOK
  <2>2. CASE k = cseq
    <3>1. (n - 1) - k = d - 1
      BY <2>2, <1>2 DEF d
    <3>2. d - 1 < INT_BITS - 1
      BY <3>1
    <3>3. m = {d - 1}
      BY <3>2, <1>2, MaskIsBit
    <3> QED BY <3>1, <3>3, <1>1
  <2>3. CASE k < cseq
    <3>1. ((n - 1) - k) - d = (cseq - 1) - k
      BY <2>1, <1>2 DEF d
    <3>2. (cseq - 1) - k < INT_BITS - 1 /\ d < INT_BITS
      BY <2>1, <2>3, <1>2, ReplayAssumption DEF d
    <3>3. (cseq - 1) - k \in bitfield
      BY <2>1, <2>3, <3>2 DEF WindowInv, SeenIsMarked, Behind
    <3>4. (n - 1) - k \in Bits
      BY <2>1, <2>3, <1>2, ReplayAssumption DEF Bits
    <3> QED BY <3>1, <3>2, <3>3, <3>4, <1>6, <1>1
  <2> QED BY <2>1, <2>2, <2>3, <1>2
<1>8. MarkedIsSeen'
  <2> SUFFICES ASSUME tame', NEW j \in bitfield', j < INT_BITS - 1
               PROVE  (n - 1 - j \in got' \/ n - 1 - j <= 0)
    BY <1>2 DEF MarkedIsSeen
  <2>0. tame /\ d < INT_BITS
    BY <1>2, Zenon
  <2>1. tame /\ d < INT_BITS /\ d - 1 < INT_BITS - 1
    BY <2>0, <1>2, ReplayAssumption
  <2>2. m = {d - 1}
    BY <2>1, <1>2, MaskIsBit
  <2>3. CASE j = d - 1
    <3>1. n - 1 - j = cseq
      BY <2>3, <1>2 DEF d
    <3> QED BY <3>1, <1>2 DEF WindowInv, SeenIsMarked
  <2>4. CASE j \in b
    <3>1. j - d \in bitfield /\ j \in Nat
      BY <2>4, <2>1, <1>6 DEF Bits
    <3>2. j - d < INT_BITS - 1
      BY <3>1, <1>2, ReplayAssumption
    <3>3. cseq - 1 - (j - d) = n - 1 - j
      BY <3>1, <1>2 DEF d
    <3>4. cseq - 1 - (j - d) \in got \/ cseq - 1 - (j - d) <= 0
      BY <2>1, <3>1, <3>2 DEF WindowInv, MarkedIsSeen
    <3> QED BY <3>3, <3>4, <1>2
  <2> QED BY <2>2, <2>3, <2>4, <1>1
<1> QED BY <1>5, <1>7, <1>8 DEF WindowInv

\* The invariant holds in every state of every behaviour.
THEOREM WindowCorrect == ReplaySpec => []WindowInv
<1>1. ReplayInit => WindowInv
  BY DEF ReplayInit, WindowInv, ReplayTypeOK, SeenIsMarked, MarkedIsSeen
<1>2. WindowInv /\ [ReplayNext]_replayVars => WindowInv'
  <2> SUFFICES ASSUME WindowInv, [ReplayNext]_replayVars PROVE WindowInv'
    OBVIOUS
  <2>1. ASSUME NEW len \in {-1, 0, 1}, FirstArrives(len) PROVE WindowInv'
    BY <2>1, FirstKeeps
  <2>2. ASSUME NEW len \in {-1, 0, 1}, NEW n \in Seqs, LateArrives(n, len) PROVE WindowInv'
    BY <2>2, LateKeeps
  <2>3. ASSUME NEW len \in {-1, 0, 1}, NEW n \in Seqs, NewerArrives(n, len) PROVE WindowInv'
    BY <2>3, NewerKeeps
  <2>4. CASE UNCHANGED replayVars
    BY <2>4 DEF replayVars, WindowInv, ReplayTypeOK, SeenIsMarked, MarkedIsSeen, Behind
  <2> QED BY <2>1, <2>2, <2>3, <2>4 DEF ReplayNext
<1> QED BY <1>1, <1>2, PTL DEF ReplaySpec

\* The window keeps its types (dtls_handle_message).
THEOREM WindowTypes == ReplaySpec => []ReplayTypeOK
<1>1. WindowInv => ReplayTypeOK
  BY DEF WindowInv
<1> QED BY <1>1, WindowCorrect, PTL

\* What was handed on is refused when it is replayed, as long as it is less than an int's
\* bits behind the newest record (dtls_handle_message; for the rest of the window the mask,
\* a shift of an int, fails).
THEOREM ReplaysAreRefused == ReplaySpec => []ReplayRefused
<1>1. WindowInv => ReplayRefused
  <2> SUFFICES ASSUME WindowInv, NEW n \in got, Behind(n) < INT_BITS - 1, ~First(n),
                      NEW m \in Masks(Behind(n))
               PROVE  ~Passes(n, m)
    BY DEF ReplayRefused
  <2>1. n \in Nat /\ cseq \in Nat /\ n <= cseq /\ Behind(n) \in Int
    BY DEF WindowInv, ReplayTypeOK, Behind
  <2>2. CASE n = cseq
    BY <2>1, <2>2 DEF Passes, Newer, Late
  <2>3. CASE n < cseq
    <3>1. m = {Behind(n)}
      BY <2>1, MaskIsBit
    <3>2. Behind(n) \in bitfield
      BY <2>3 DEF WindowInv, SeenIsMarked
    <3> QED BY <2>1, <2>3, <3>1, <3>2 DEF Passes, Newer
  <2> QED BY <2>1, <2>2, <2>3
<1> QED BY <1>1, WindowCorrect, PTL

\* What is new passes while the network displaces no record far (dtls_handle_message).
THEOREM FreshRecordsPass == ReplaySpec => []FreshPasses
<1>1. WindowInv => FreshPasses
  <2> SUFFICES ASSUME WindowInv, tame, NEW n \in Seqs \ (got \cup {0}),
                      Behind(n) < INT_BITS - 1, NEW m \in Masks(Behind(n))
               PROVE  Passes(n, m)
    BY DEF FreshPasses
  <2>1. n \in Nat /\ n > 0 /\ cseq \in Nat /\ n # cseq /\ Behind(n) \in Int
    BY DEF WindowInv, ReplayTypeOK, SeenIsMarked, Seqs, Behind
  <2>2. CASE n > cseq
    BY <2>2 DEF Passes, Newer
  <2>3. CASE n < cseq
    <3>1. m = {Behind(n)} /\ Behind(n) < WINDOW
      BY <2>1, MaskIsBit, ReplayAssumption
    <3>2. cseq - 1 - Behind(n) = n
      BY <2>1 DEF Behind
    <3>3. Behind(n) \notin bitfield
      BY <2>1, <3>2 DEF WindowInv, MarkedIsSeen
    <3> QED BY <2>3, <3>1, <3>3 DEF Passes, Late
  <2> QED BY <2>1, <2>2, <2>3
<1> QED BY <1>1, WindowCorrect, PTL

-----------------------------------------------------------------------------
(* Numbers and sequences.                                                  *)

\* A set of numbers has a least one.
LEMMA Least ==
    ASSUME NEW S \in SUBSET Nat, S # {}
    PROVE  \E m \in S : \A n \in S : m <= n
<1> DEFINE R == OpToRel(<, Nat)
<1>1. IsWellFoundedOn(R, Nat)
  BY NatLessThanWellFounded
<1>2. \A x, y \in Nat : <<y, x>> \in R <=> y < x
  BY DEF OpToRel
<1> HIDE DEF R
<1>3. PICK m \in S : \A y \in S : ~ (<<y, m>> \in R)
  BY <1>1, WFMin
<1>4. ASSUME NEW n \in S PROVE m <= n
  <2>1. m \in Nat /\ n \in Nat
    OBVIOUS
  <2>2. ~ (n < m)
    BY <1>2, <1>3, <2>1, Zenon
  <2> QED
    BY <2>1, <2>2
<1> QED
  BY <1>4

\* What is in a sequence, and that it is one.
Elems(s) == {s[k] : k \in DOMAIN s}
IsList(s) == s \in Seq(Elems(s))

\* A sequence over any set is a list of what is in it.
LEMMA ListOver ==
    ASSUME NEW S, NEW s \in Seq(S)
    PROVE  IsList(s) /\ Elems(s) \subseteq S
<1>1. s \in [1 .. Len(s) -> S] /\ Len(s) \in Nat
  BY SeqDef, LenProperties
<1>2. \A k \in 1 .. Len(s) : s[k] \in Elems(s)
  BY <1>1 DEF Elems
<1>3. s \in [1 .. Len(s) -> Elems(s)]
  BY <1>1, <1>2
<1>4. s \in Seq(Elems(s))
  BY <1>1, <1>3, SeqDef
<1> QED
  BY <1>1, <1>4 DEF IsList, Elems

\* Nothing is in the empty list.
LEMMA EmptyList == IsList(<<>>) /\ Elems(<<>>) = {}
  BY DEF IsList, Elems

\* What is appended is in the list.
LEMMA ListAppended ==
    ASSUME NEW s, IsList(s), NEW x
    PROVE  IsList(Append(s, x)) /\ Elems(Append(s, x)) = Elems(s) \cup {x}
<1> DEFINE S == Elems(s) \cup {x}
           t == Append(s, x)
<1>1. s \in Seq(S) /\ x \in S
  <2>1. Seq(Elems(s)) \subseteq Seq(S)
    BY SeqDef
  <2> QED
    BY <2>1 DEF IsList
<1>2. t \in Seq(S) /\ Len(t) = Len(s) + 1 /\ (\A i \in 1 .. Len(s) : t[i] = s[i]) /\ t[Len(s) + 1] = x
  BY <1>1, AppendProperties
<1>3. DOMAIN s = 1 .. Len(s) /\ DOMAIN t = 1 .. Len(t) /\ Len(s) \in Nat
  BY <1>1, <1>2, LenProperties
<1>4. IsList(t) /\ Elems(t) \subseteq S
  BY <1>2, ListOver
<1> HIDE DEF t
<1>5. Elems(s) \subseteq Elems(t)
  BY <1>2, <1>3 DEF Elems
<1>6. x \in Elems(t)
  BY <1>2, <1>3 DEF Elems
<1> QED
  BY <1>4, <1>5, <1>6 DEF t

\* Two lists hold no more when they are joined.
LEMMA ListsJoined ==
    ASSUME NEW s, IsList(s), NEW t, IsList(t)
    PROVE  IsList(s \o t) /\ Elems(s \o t) \subseteq Elems(s) \cup Elems(t)
<1> DEFINE S == Elems(s) \cup Elems(t)
<1>1. s \in Seq(S) /\ t \in Seq(S)
  <2>1. Seq(Elems(s)) \subseteq Seq(S) /\ Seq(Elems(t)) \subseteq Seq(S)
    BY SeqDef
  <2> QED
    BY <2>1 DEF IsList
<1>2. s \o t \in Seq(S)
  BY <1>1
<1> QED
  BY <1>2, ListOver

\* The rest of a list, and its first element.
LEMMA ListEnds ==
    ASSUME NEW s, IsList(s), s # <<>>
    PROVE  /\ IsList(Tail(s)) /\ Elems(Tail(s)) \subseteq Elems(s)
           /\ Head(s) \in Elems(s)
<1>1. s \in Seq(Elems(s))
  BY DEF IsList
<1>2. Tail(s) \in Seq(Elems(s)) /\ Head(s) \in Elems(s)
  BY <1>1, HeadTailProperties
<1> QED
  BY <1>2, ListOver

\* A list in another order holds nothing new.
LEMMA ListSwapped ==
    ASSUME NEW s, IsList(s), NEW k \in 1 .. Len(s) - 1
    PROVE  IsList(SwapAt(s, k)) /\ Elems(SwapAt(s, k)) \subseteq Elems(s)
<1> DEFINE t == SwapAt(s, k)
<1>1. s \in Seq(Elems(s)) /\ Len(s) \in Nat /\ DOMAIN s = 1 .. Len(s)
  BY LenProperties DEF IsList
<1>2. s \in [1 .. Len(s) -> Elems(s)]
  BY <1>1, SeqDef
<1>3. k \in 1 .. Len(s) /\ k + 1 \in 1 .. Len(s)
  BY <1>1
<1>4. t \in [1 .. Len(s) -> Elems(s)]
  BY <1>2, <1>3 DEF SwapAt
<1>5. t \in Seq(Elems(s))
  BY <1>1, <1>4, SeqDef
<1> QED
  BY <1>5, ListOver

\* The function by which Selected is defined, and that there is one as far as any n.
Picks(f, s, S, n) ==
  f = [k \in 0 .. n |-> IF k = 0 THEN <<>> ELSE IF k \in S THEN Append(f[k - 1], s[k]) ELSE f[k - 1]]

\* By the least length for which there would be none.
LEMMA SelectedExists ==
    ASSUME NEW s, NEW S, NEW n \in Nat
    PROVE  \E f : Picks(f, s, S, n)
<1> DEFINE Step(a, k) == IF k \in S THEN Append(a, s[k]) ELSE a
           Is(f, j) == f = [k \in 0 .. j |-> IF k = 0 THEN <<>> ELSE Step(f[k - 1], k)]
           Bad == {j \in Nat : ~ \E f : Is(f, j)}
<1> HIDE DEF Step
<1>1. Bad = {}
  <2> SUFFICES ASSUME Bad # {} PROVE FALSE
    OBVIOUS
  <2>1. PICK m \in Bad : \A j \in Bad : m <= j
    BY Least
  <2>2. CASE m = 0
    <3> DEFINE g == [k \in 0 .. 0 |-> <<>>]
    <3>1. g = [k \in 0 .. 0 |-> IF k = 0 THEN <<>> ELSE Step(g[k - 1], k)]
      OBVIOUS
    <3>2. Is(g, 0)
      BY <3>1
    <3> QED
      BY <2>1, <2>2, <3>2
  <2>3. CASE m # 0
    <3>1. m - 1 \in Nat /\ ~ (m <= m - 1)
      BY <2>3
    <3>2. PICK f : Is(f, m - 1)
      BY <2>1, <3>1
    <3> DEFINE g == [k \in 0 .. m |-> IF k = m THEN Step(f[m - 1], m) ELSE f[k]]
    <3>3. \A k \in 0 .. m - 1 : f[k] = IF k = 0 THEN <<>> ELSE Step(f[k - 1], k)
      BY <3>2, Zenon
    <3>4. \A k \in 0 .. m - 1 : g[k] = f[k]
      BY <3>1
    <3>5. \A k \in 0 .. m : g[k] = IF k = 0 THEN <<>> ELSE Step(g[k - 1], k)
      <4> SUFFICES ASSUME NEW k \in 0 .. m PROVE g[k] = IF k = 0 THEN <<>> ELSE Step(g[k - 1], k)
        OBVIOUS
      <4>1. CASE k = m
        BY <2>3, <3>1, <3>4, <4>1
      <4>2. CASE k # m
        <5>1. k \in 0 .. m - 1 /\ (k # 0 => k - 1 \in 0 .. m - 1)
          BY <3>1, <4>2
        <5> QED
          BY <3>3, <3>4, <5>1
      <4> QED
        BY <4>1, <4>2
    <3>6. Is(g, m)
      BY <3>5
    <3> QED
      BY <2>1, <3>6
  <2> QED
    BY <2>2, <2>3
<1>2. \E f : Is(f, n)
  BY <1>1
<1> QED
  BY <1>2 DEF Step, Picks

\* What is selected is in the sequence, at one of the positions.
LEMMA SelectedIn ==
    ASSUME NEW s, IsList(s), NEW S
    PROVE  /\ IsList(Selected(s, S))
           /\ \A x \in Elems(Selected(s, S)) : \E i \in S \cap DOMAIN s : x = s[i]
<1> DEFINE X == {s[i] : i \in S \cap DOMAIN s}
           n == Len(s)
           f == CHOOSE g : Picks(g, s, S, n)
           Bad == {k \in 0 .. n : f[k] \notin Seq(X)}
<1>1. n \in Nat /\ DOMAIN s = 1 .. n
  BY LenProperties DEF IsList
<1>2. Selected(s, S) = f[n]
  BY DEF Selected, Picks
<1>3. Picks(f, s, S, n)
  <2>1. \E g : Picks(g, s, S, n)
    BY <1>1, SelectedExists
  <2> QED
    BY <2>1, Zenon
<1> HIDE DEF f, n
<1>4. \A k \in 0 .. n : f[k] = IF k = 0 THEN <<>> ELSE IF k \in S THEN Append(f[k - 1], s[k]) ELSE f[k - 1]
  BY <1>3, Zenon DEF Picks
<1>5. Bad = {}
  <2> SUFFICES ASSUME Bad # {} PROVE FALSE
    OBVIOUS
  <2>1. Bad \in SUBSET Nat
    BY <1>1
  <2>2. PICK m \in Bad : \A j \in Bad : m <= j
    BY <2>1, Least
  <2>3. m # 0
    <3>1. <<>> \in Seq(X)
      OBVIOUS
    <3> QED
      BY <1>1, <1>4, <2>2, <3>1
  <2>4. m - 1 \in 0 .. n /\ ~ (m <= m - 1) /\ m \in 1 .. n
    BY <1>1, <2>2, <2>3
  <2>5. f[m - 1] \in Seq(X)
    BY <2>2, <2>4
  <2>6. f[m] \in Seq(X)
    <3>1. CASE m \in S
      <4>1. s[m] \in X
        BY <1>1, <2>4, <3>1
      <4> HIDE DEF X
      <4>2. Append(f[m - 1], s[m]) \in Seq(X)
        BY <2>5, <4>1, AppendProperties
      <4>3. f[m] = Append(f[m - 1], s[m])
        BY <1>4, <2>3, <2>4, <3>1
      <4> QED
        BY <4>2, <4>3
    <3>2. CASE m \notin S
      BY <1>4, <2>3, <2>4, <2>5, <3>2
    <3> QED
      BY <3>1, <3>2
  <2> QED
    BY <2>2, <2>6
<1>6. f[n] \in Seq(X)
  BY <1>1, <1>5
<1> HIDE DEF X
<1>7. IsList(f[n]) /\ Elems(f[n]) \subseteq X
  BY <1>6, ListOver
<1> QED
  BY <1>2, <1>7 DEF X

-----------------------------------------------------------------------------
(* What an end is, and the parts of the invariant.                         *)

EndFields == {"id", "can", "gen", "peers", "state", "role", "hs", "p", "q", "out", "err",
              "freed", "ctx", "status", "read", "wrote", "keys", "reused"}
HsFields == {"on", "ms", "mr", "reorder", "hash", "client", "server", "cipher", "own", "other",
             "pub", "auth", "master"}
SecFields == {"epoch", "key", "rseq", "cseq", "seen"}

IsSec(s) == DOMAIN s = SecFields
IsEnd(e) == /\ DOMAIN e = EndFields /\ DOMAIN e.hs = HsFields
            /\ DOMAIN e.p = 1 .. 2 /\ IsSec(e.p[1]) /\ IsSec(e.p[2])

\* The fields in fs are the same in s as in e.
Same(e, s, fs) == \A f \in fs : s[f] = e[f]

\* The role of an end, and the handshake messages that it sends.
Role(i) == IF i = 1 THEN "client" ELSE "server"
Kinds(i) ==
  IF i = 1 THEN {"ClientHello", "Certificate", "ClientKeyExchange", "CertificateVerify", "Finished"}
  ELSE {"HelloVerifyRequest", "ServerHello", "Certificate", "ServerKeyExchange",
        "CertificateRequest", "ServerHelloDone", "Finished"}

\* The random that an end puts into a key, and the one of the handshake at hand.
Mine(i, k) == IF i = 1 THEN k[2] ELSE k[3]
Own(e) == IF e.id = 1 THEN e.hs.client ELSE e.hs.server

\* A handshake message of end i, which finished with keys, when the cookies in
\* ver had reached the client; and a record, when it had written wrote data.
MsgOK(m, i, keys, ver) ==
  /\ DOMAIN m = {"h", "seq", "v", "cookie", "cipher", "mac"}
  /\ m.h \in Kinds(i)
  /\ m.h = "Finished" => m.mac[3] \in keys
  /\ m.h = "ClientHello" => m.v # 0 /\ m.cookie \in ver \cup {0}

RecOK(r, i, keys, ver, wrote) ==
  /\ DOMAIN r = {"t", "epoch", "seq", "key", "m"}
  /\ r.t \in {"handshake", "ccs", "alert", "data"} /\ r.seq \in Nat
  /\ r.t = "handshake" => MsgOK(r.m, i, keys, ver)
  /\ r.t = "data" => r.m.v \in 1 .. wrote /\ r.seq > 0 /\ r.epoch \in Nat /\ r.epoch > 0

\* What an end sends and sends again; none of it is data but in DtlsWrite.
NodeOK(n, e, ver) ==
  /\ DOMAIN n = {"r", "first", "cnt", "peer"}
  /\ n.cnt \in 0 .. MAX_RETRANSMIT
  /\ HasPeer(e) /\ n.peer = e.peers
  /\ RecOK(n.r, e.id, e.keys, ver, 0)

Traffic(e, ver) ==
  /\ IsList(e.q) /\ \A n \in Elems(e.q) : NodeOK(n, e, ver)
  /\ IsList(e.out) /\ \A r \in Elems(e.out) : RecOK(r, e.id, e.keys, ver, 0)

\* The peer belongs to the end.
Sound(e, i) ==
  /\ IsEnd(e) /\ e.id = i /\ i \in 1 .. 2 /\ e.gen \in Nat /\ e.peers \in Nat
  /\ e.err \in BOOLEAN /\ e.freed \in BOOLEAN /\ e.ctx \in BOOLEAN /\ e.hs.on \in BOOLEAN
  /\ e.hs.on => HasPeer(e)
  /\ e.state \in PeerStates \cup {"none"}
  /\ IF HasPeer(e) THEN e.ctx /\ e.role = Role(i) ELSE e.role = "none"
  /\ i = 1 => ~e.freed

\* Its contexts have two epochs, of which only the first has no key.
Contexts(e) ==
  /\ \A c \in 1 .. 2 : /\ e.p[c].epoch \in Int /\ e.p[c].epoch >= -1
                       /\ e.p[c].rseq \in Nat /\ e.p[c].cseq \in Nat
                       /\ e.p[c].key = NoKey <=> e.p[c].epoch <= 0
  /\ HasPeer(e) => e.p[1].epoch \in Nat /\ e.p[1].epoch # e.p[2].epoch

\* The messages that came early, of the other end, which finished with oth.
ArrivedOK(m, i, oth, ver) ==
  MsgOK(m, 3 - i, oth, ver) /\ (m.h = "HelloVerifyRequest" => m.v \in ver)
Early(e, oth, ver) ==
  IsFiniteSet(e.hs.reorder) /\ \A m \in e.hs.reorder : ArrivedOK(m, e.id, oth, ver)

\* Keys hold a random of this end that is not drawn again.
Used(e) == e.keys \cup ({e.p[1].key, e.p[2].key} \ {NoKey})
Old(e, k) == Mine(e.id, k) \in Nat /\ Mine(e.id, k) < Fresh(e)
Secrets(e) ==
  /\ ~e.reused /\ Own(e) \in Nat /\ Own(e) < Fresh(e)
  /\ \A k \in Used(e) : Old(e, k)

\* A data record that was read is not opened again.
Spent(e, D) ==
  \A r \in D : /\ r.seq \in Nat /\ r.seq > 0 /\ r.epoch \in Nat /\ r.epoch > 0 /\ Old(e, r.key)
               /\ \A c \in 1 .. 2 : e.p[c].epoch = r.epoch /\ e.p[c].key = r.key =>
                    IsReplay(e.p[c], r.seq)

Base(e, i, oth, ver, D) ==
  Sound(e, i) /\ Contexts(e) /\ Traffic(e, ver) /\ Early(e, oth, ver) /\ Secrets(e) /\ Spent(e, D)

\* An end that has still to make its keys, and one that has still to be answered.
Deriving(e) ==
  e.state \in IF e.id = 1
    THEN {"clienthello", "wait_servercertificate", "wait_serverkeyexchange", "wait_serverhellodone"}
    ELSE {"wait_clientcertificate", "wait_clientkeyexchange", "wait_certificateverify",
          "wait_changecipherspec"}
Finishing(e) ==
  e.state \in IF e.id = 1 THEN {"wait_changecipherspec", "wait_finished"} ELSE {"wait_finished"}

\* What its state says of its keys.
KeysOf(D) == {r.key : r \in D}
Apart(e, D) == \A k \in Used(e) \cup KeysOf(D) : Mine(e.id, k) # Own(e)
DerivingRight(e, ver, D) ==
  /\ e.hs.on
  /\ Apart(e, D)
  /\ IF e.id = 1 THEN e.hs.client # 0 ELSE e.hs.client \in ver
FinishingRight(e, ver) ==
  /\ e.hs.on
  /\ IF e.id = 1
     THEN e.p[1].key = e.hs.master /\ e.p[1].epoch > 0 /\ e.p[1].rseq > 0
     ELSE /\ e.p[2].key = e.hs.master /\ e.p[2].epoch = e.p[1].epoch + 1
          /\ Mine(2, e.hs.master) = Own(e) /\ (\A k \in e.keys : Mine(2, k) # Own(e))
          /\ e.hs.client \in ver
ConnectedRight(e, oth) ==
  ~e.hs.on /\ e.p[1].key \in oth /\ e.p[1].epoch > 0 /\ e.p[1].rseq > 0

Settled(e, oth, ver, D) ==
  /\ e.state \in {"none", "connected", "closing"} \/ Deriving(e) \/ Finishing(e)
  /\ Deriving(e) => DerivingRight(e, ver, D)
  /\ Finishing(e) => FinishingRight(e, ver)
  /\ e.state = "connected" => ConnectedRight(e, oth)

-----------------------------------------------------------------------------
(* What most operators keep of an end.                                     *)

Keeps(e, s) ==
  /\ IsEnd(s) /\ s.err \in BOOLEAN
  /\ Same(e, s, EndFields \ {"gen", "hs", "p", "q", "out", "err", "status"})
  /\ Same(e.hs, s.hs, {"on", "client", "master"}) /\ (e.id = 2 => s.hs.server = e.hs.server)
  /\ s.hs.reorder \subseteq e.hs.reorder
  /\ Same(e.p[1], s.p[1], SecFields \ {"rseq"}) /\ s.p[2] = e.p[2]
  /\ s.gen \in Nat /\ s.gen >= e.gen
  /\ s.p[1].rseq \in Nat /\ s.p[1].rseq >= e.p[1].rseq

\* An end that can send, and what sending makes of it.
Able(e) == /\ IsEnd(e) /\ e.id \in 1 .. 2 /\ HasPeer(e) /\ e.err \in BOOLEAN
           /\ e.gen \in Nat /\ e.p[1].rseq \in Nat
Sends(e, s, ver) == Keeps(e, s) /\ (Traffic(e, ver) => Traffic(s, ver))

\* The fields that Keeps leaves alone, one by one.
LEMMA KeptFields ==
    ASSUME NEW e, NEW s, Keeps(e, s)
    PROVE  /\ s.id = e.id /\ s.can = e.can /\ s.peers = e.peers /\ s.state = e.state /\ s.role = e.role
           /\ s.freed = e.freed /\ s.ctx = e.ctx /\ s.read = e.read /\ s.wrote = e.wrote
           /\ s.keys = e.keys /\ s.reused = e.reused
           /\ s.hs.on = e.hs.on /\ s.hs.client = e.hs.client /\ s.hs.master = e.hs.master
           /\ s.p[1].epoch = e.p[1].epoch /\ s.p[1].key = e.p[1].key
           /\ s.p[1].cseq = e.p[1].cseq /\ s.p[1].seen = e.p[1].seen
<1>1. /\ s.id = e.id /\ s.can = e.can /\ s.peers = e.peers /\ s.state = e.state /\ s.role = e.role
      /\ s.freed = e.freed /\ s.ctx = e.ctx /\ s.read = e.read /\ s.wrote = e.wrote
      /\ s.keys = e.keys /\ s.reused = e.reused
  BY DEF Keeps, Same, EndFields
<1>2. s.hs.on = e.hs.on /\ s.hs.client = e.hs.client /\ s.hs.master = e.hs.master
  BY DEF Keeps, Same
<1>3. /\ s.p[1].epoch = e.p[1].epoch /\ s.p[1].key = e.p[1].key
      /\ s.p[1].cseq = e.p[1].cseq /\ s.p[1].seen = e.p[1].seen
  BY DEF Keeps, Same, SecFields
<1> QED
  BY <1>1, <1>2, <1>3

\* An end that could send still can.
LEMMA KeptAble ==
    ASSUME NEW e, Able(e), NEW s, Keeps(e, s)
    PROVE  Able(s)
<1>1. s.id = e.id /\ s.state = e.state
  BY KeptFields
<1> QED
  BY <1>1 DEF Able, Keeps, HasPeer

\* Keeping is transitive.
LEMMA KeptKept ==
    ASSUME NEW e, Able(e), NEW s, Keeps(e, s), NEW t, Keeps(s, t)
    PROVE  Keeps(e, t)
<1>1. Same(e, t, EndFields \ {"gen", "hs", "p", "q", "out", "err", "status"})
  BY DEF Keeps, Same
<1>2. Same(e.hs, t.hs, {"on", "client", "master"}) /\ Same(e.p[1], t.p[1], SecFields \ {"rseq"})
  BY DEF Keeps, Same
<1>3. s.id = e.id
  BY KeptFields
<1>4. /\ t.gen \in Nat /\ t.gen >= e.gen
      /\ t.p[1].rseq \in Nat /\ t.p[1].rseq >= e.p[1].rseq
  BY DEF Keeps, Able
<1> QED
  BY <1>1, <1>2, <1>3, <1>4 DEF Keeps

\* Sending is transitive.
LEMMA SendsOn ==
    ASSUME NEW ver, NEW e, Able(e), NEW s, Sends(e, s, ver), NEW t, Sends(s, t, ver)
    PROVE  Sends(e, t, ver)
  BY KeptKept DEF Sends

\* The invariant of an end is kept.
LEMMA KeptBase ==
    ASSUME NEW i, NEW oth, NEW ver, NEW D, NEW e, NEW s, Base(e, i, oth, ver, D), Sends(e, s, ver)
    PROVE  Base(s, i, oth, ver, D) /\ (Settled(e, oth, ver, D) => Settled(s, oth, ver, D))
<1>1. Keeps(e, s) /\ Traffic(s, ver)
  BY DEF Sends, Base
<1>2. /\ s.id = e.id /\ s.peers = e.peers /\ s.state = e.state /\ s.role = e.role
      /\ s.freed = e.freed /\ s.ctx = e.ctx
      /\ s.keys = e.keys /\ s.reused = e.reused
      /\ s.hs.on = e.hs.on /\ s.hs.client = e.hs.client /\ s.hs.master = e.hs.master
      /\ s.p[1].epoch = e.p[1].epoch /\ s.p[1].key = e.p[1].key
      /\ s.p[1].cseq = e.p[1].cseq /\ s.p[1].seen = e.p[1].seen
  BY <1>1, KeptFields
<1>3. /\ IsEnd(s) /\ s.err \in BOOLEAN /\ (e.id = 2 => s.hs.server = e.hs.server)
      /\ s.hs.reorder \subseteq e.hs.reorder /\ s.gen \in Nat /\ s.gen >= e.gen
      /\ s.p[1].rseq \in Nat /\ s.p[1].rseq >= e.p[1].rseq
      /\ s.p[2] = e.p[2]
  BY <1>1 DEF Keeps
<1>4. e.id = i /\ i \in 1 .. 2 /\ e.gen \in Nat /\ e.p[1].rseq \in Nat
  BY DEF Base, Sound, Contexts
<1>5. Sound(s, i)
  BY <1>2, <1>3 DEF Base, Sound, HasPeer
<1>6. Contexts(s)
  <2>1. s.p[2] = e.p[2]
    BY <1>3
  <2> QED
    BY <1>2, <1>3, <2>1 DEF Base, Contexts, HasPeer
<1>7. Early(s, oth, ver)
  <2>1. IsFiniteSet(s.hs.reorder)
    BY <1>3, FS_Subset DEF Base, Early
  <2> QED
    BY <1>2, <1>3, <2>1 DEF Base, Early
<1>8. Own(s) = Own(e) /\ Used(s) = Used(e) /\ Fresh(s) \in Int /\ Fresh(e) \in Int /\ Fresh(s) >= Fresh(e)
  <2>1. Own(s) = Own(e)
    BY <1>2, <1>3, <1>4 DEF Own
  <2>2. Used(s) = Used(e)
    BY <1>2, <1>3 DEF Used
  <2>3. Fresh(s) \in Int /\ Fresh(e) \in Int /\ Fresh(s) >= Fresh(e)
    BY <1>2, <1>3, <1>4 DEF Fresh
  <2> QED
    BY <2>1, <2>2, <2>3
<1>9. \A k : Old(e, k) => Old(s, k)
  BY <1>2, <1>8 DEF Old
<1>10. Secrets(s)
  BY <1>2, <1>8, <1>9 DEF Base, Secrets
<1>11. Spent(s, D)
  <2>1. \A r \in D : \A c \in 1 .. 2 : IsReplay(e.p[c], r.seq) => IsReplay(s.p[c], r.seq)
    BY <1>2, <1>3 DEF IsReplay
  <2> QED
    BY <1>2, <1>3, <1>9, <2>1 DEF Base, Spent
<1>12. ASSUME Settled(e, oth, ver, D) PROVE Settled(s, oth, ver, D)
  <2>1. /\ Deriving(s) <=> Deriving(e)
        /\ Finishing(s) <=> Finishing(e)
    BY <1>2 DEF Deriving, Finishing
  <2>2. DerivingRight(e, ver, D) => DerivingRight(s, ver, D)
    BY <1>2, <1>8 DEF DerivingRight, Apart
  <2>3. FinishingRight(e, ver) => FinishingRight(s, ver)
    BY <1>2, <1>3, <1>4, <1>8 DEF FinishingRight
  <2>4. ConnectedRight(e, oth) => ConnectedRight(s, oth)
    BY <1>2, <1>3, <1>4 DEF ConnectedRight
  <2> QED
    BY <1>2, <1>12, <2>1, <2>2, <2>3, <2>4 DEF Settled
<1> QED
  BY <1>1, <1>5, <1>6, <1>7, <1>10, <1>11, <1>12 DEF Base

-----------------------------------------------------------------------------
(* Sending.                                                                *)

\* dtls_send_multi, field by field.
LEMMA SendFields ==
    ASSUME NEW e, IsEnd(e), NEW t, NEW m
    PROVE  LET s == Send(e, t, m)
               r == Record(e, t, m) IN
           /\ IsEnd(s) /\ Same(e, s, EndFields \ {"p", "q", "out"})
           /\ s.p[2] = e.p[2] /\ Same(e.p[1], s.p[1], SecFields \ {"rseq"})
           /\ s.p[1].rseq = e.p[1].rseq + 1
           /\ s.out = Append(e.out, r)
           /\ s.q = IF IsKept(r) THEN Append(e.q, Kept(e, r)) ELSE e.q
<1> DEFINE r == Record(e, t, m)
           kept == IF IsKept(r) THEN Append(e.q, Kept(e, r)) ELSE e.q
           s == [e EXCEPT !.p[1].rseq = @ + 1, !.q = kept, !.out = Append(@, r)]
<1>1. Send(e, t, m) = s
  BY DEF Send
<1> HIDE DEF r, kept
<1>2. DOMAIN s = EndFields /\ s.q = kept /\ s.out = Append(e.out, r)
  BY DEF IsEnd, EndFields
<1>3. s.p = [e.p EXCEPT ![1].rseq = @ + 1]
  BY DEF IsEnd, EndFields
<1>4. Same(e, s, EndFields \ {"p", "q", "out"})
  BY DEF IsEnd, EndFields, Same
<1>5. s.hs = e.hs
  BY DEF IsEnd, EndFields
<1>6. DOMAIN s.p = 1 .. 2 /\ s.p[2] = e.p[2] /\ s.p[1] = [e.p[1] EXCEPT !.rseq = @ + 1]
  BY <1>3 DEF IsEnd
<1>7. IsSec(s.p[1]) /\ Same(e.p[1], s.p[1], SecFields \ {"rseq"}) /\ s.p[1].rseq = e.p[1].rseq + 1
  BY <1>6 DEF IsEnd, IsSec, Same, SecFields
<1> QED
  BY <1>1, <1>2, <1>4, <1>5, <1>6, <1>7 DEF IsEnd, r, kept

\* A record that may be sent joins what is on its way.
LEMMA SendSends ==
    ASSUME NEW ver, NEW e, Able(e), NEW t \in {"handshake", "ccs", "alert"}, NEW m,
           t = "handshake" => MsgOK(m, e.id, e.keys, ver)
    PROVE  Sends(e, Send(e, t, m), ver)
<1> DEFINE s == Send(e, t, m)
           r == Record(e, t, m)
<1>1. /\ IsEnd(s) /\ Same(e, s, EndFields \ {"p", "q", "out"})
      /\ s.p[2] = e.p[2] /\ Same(e.p[1], s.p[1], SecFields \ {"rseq"})
      /\ s.p[1].rseq = e.p[1].rseq + 1
      /\ s.out = Append(e.out, r)
      /\ s.q = IF IsKept(r) THEN Append(e.q, Kept(e, r)) ELSE e.q
  BY SendFields DEF Able
<1>2. /\ DOMAIN r = {"t", "epoch", "seq", "key", "m"} /\ r.t = t /\ r.m = m
      /\ r.seq = e.p[1].rseq
  BY DEF Record
<1> HIDE DEF s, r
<1>3. /\ s.id = e.id /\ s.peers = e.peers /\ s.state = e.state /\ s.keys = e.keys /\ s.hs = e.hs
      /\ s.err = e.err /\ s.gen = e.gen
  BY <1>1 DEF Same, EndFields
<1>4. Keeps(e, s)
  <2>1. Same(e, s, EndFields \ {"gen", "hs", "p", "q", "out", "err", "status"})
    BY <1>1 DEF Same
  <2> QED
    BY <1>1, <1>3, <2>1 DEF Keeps, Able, Same
<1>5. RecOK(r, e.id, e.keys, ver, 0)
  BY <1>2 DEF RecOK, Able
<1>6. ASSUME Traffic(e, ver) PROVE Traffic(s, ver)
  <2>1. \A n : NodeOK(n, e, ver) => NodeOK(n, s, ver)
    BY <1>3 DEF NodeOK, HasPeer
  <2>2. NodeOK(Kept(e, r), e, ver)
    <3> DEFINE n == Kept(e, r)
    <3>1. DOMAIN n = {"r", "first", "cnt", "peer"} /\ n.cnt = 0 /\ n.peer = e.peers /\ n.r = [r EXCEPT !.seq = 0]
      BY DEF Kept
    <3>2. RecOK([r EXCEPT !.seq = 0], e.id, e.keys, ver, 0)
      BY <1>2, <1>5 DEF RecOK
    <3> QED
      BY <3>1, <3>2, RecordAssumption DEF NodeOK, Able
  <2>3. IsList(Append(e.q, Kept(e, r))) /\ Elems(Append(e.q, Kept(e, r))) = Elems(e.q) \cup {Kept(e, r)}
    BY <1>6, ListAppended DEF Traffic
  <2>4. IsList(s.q) /\ \A n \in Elems(s.q) : n \in Elems(e.q) \/ n = Kept(e, r)
    BY <1>1, <1>6, <2>3 DEF Traffic
  <2>5. IsList(s.out) /\ Elems(s.out) = Elems(e.out) \cup {r}
    BY <1>1, <1>6, ListAppended DEF Traffic
  <2> QED
    BY <1>3, <1>5, <1>6, <2>1, <2>2, <2>4, <2>5 DEF Traffic
<1> QED
  BY <1>4, <1>6 DEF Sends, s

\* Steps that only note something of the handshake.
LEMMA NotesSends ==
    ASSUME NEW ver, NEW e, Able(e), NEW s, IsEnd(s), Same(e, s, EndFields \ {"gen", "hs"}),
           s.gen \in Nat, s.gen >= e.gen,
           Same(e.hs, s.hs, {"on", "client", "master", "reorder"}), e.id = 2 => s.hs.server = e.hs.server
    PROVE  Sends(e, s, ver)
<1>1. /\ s.id = e.id /\ s.peers = e.peers /\ s.state = e.state /\ s.keys = e.keys /\ s.p = e.p
      /\ s.q = e.q /\ s.out = e.out /\ s.err = e.err
  BY DEF Same, EndFields
<1>2. s.hs.reorder = e.hs.reorder
  BY DEF Same
<1>3. Keeps(e, s)
  <2>1. Same(e, s, EndFields \ {"gen", "hs", "p", "q", "out", "err", "status"})
    BY DEF Same
  <2>2. Same(e.hs, s.hs, {"on", "client", "master"}) /\ Same(e.p[1], s.p[1], SecFields \ {"rseq"})
    BY <1>1 DEF Same
  <2> QED
    BY <1>1, <1>2, <2>1, <2>2 DEF Keeps, Able
<1>4. \A n : NodeOK(n, e, ver) => NodeOK(n, s, ver)
  BY <1>1 DEF NodeOK, HasPeer
<1> QED
  BY <1>1, <1>3, <1>4 DEF Sends, Traffic

\* A new endpoint with a field of the handshake replaced.
LEMMA HsReplaced ==
    ASSUME NEW e, IsEnd(e), NEW f \in HsFields, NEW v
    PROVE  LET s == [e EXCEPT !.hs[f] = v] IN
           /\ IsEnd(s) /\ Same(e, s, EndFields \ {"hs"})
           /\ Same(e.hs, s.hs, HsFields \ {f}) /\ s.hs[f] = v
<1> DEFINE s == [e EXCEPT !.hs[f] = v]
<1>1. DOMAIN s = EndFields /\ Same(e, s, EndFields \ {"hs"}) /\ s.p = e.p
  BY DEF IsEnd, EndFields, Same
<1>2. s.hs = [e.hs EXCEPT ![f] = v]
  BY DEF IsEnd, EndFields
<1>3. DOMAIN s.hs = HsFields /\ Same(e.hs, s.hs, HsFields \ {f}) /\ s.hs[f] = v
  BY <1>2 DEF IsEnd, Same
<1> QED
  BY <1>1, <1>3 DEF IsEnd

\* A note of the handshake, in field f.
Noted(e, f, v) == [e EXCEPT !.hs[f] = v]

\* What a note in the handshake parameters changes.
LEMMA NotedFields ==
    ASSUME NEW e, IsEnd(e), NEW f \in HsFields, NEW v
    PROVE  LET s == Noted(e, f, v) IN
           /\ IsEnd(s) /\ Same(e, s, EndFields \ {"hs"})
           /\ Same(e.hs, s.hs, HsFields \ {f}) /\ s.hs[f] = v
  BY HsReplaced DEF Noted

\* A note that the invariant does not look at.
LEMMA HsNoted ==
    ASSUME NEW ver, NEW e, Able(e),
           NEW f \in HsFields \ {"on", "client", "master", "reorder"}, e.id = 2 => f # "server", NEW v
    PROVE  Sends(e, Noted(e, f, v), ver)
<1> DEFINE s == Noted(e, f, v)
<1>1. /\ IsEnd(s) /\ Same(e, s, EndFields \ {"hs"})
      /\ Same(e.hs, s.hs, HsFields \ {f})
  BY NotedFields DEF Able
<1> HIDE DEF s
<1>2. Same(e, s, EndFields \ {"gen", "hs"}) /\ Same(e.hs, s.hs, {"on", "client", "master", "reorder"})
  BY <1>1 DEF Same, HsFields
<1>3. e.id = 2 => s.hs.server = e.hs.server
  BY <1>1 DEF Same, HsFields
<1>4. s.gen = e.gen /\ e.gen \in Nat
  BY <1>1 DEF Same, EndFields, Able
<1>5. s.gen >= e.gen
  BY <1>4
<1>6. Sends(e, s, ver)
  BY <1>1, <1>2, <1>3, <1>4, <1>5, NotesSends
<1> QED
  BY <1>6 DEF s

\* update_hs_hash, clear_hs_hash, the count of messages, a draw, an ephemeral key.
LEMMA SmallNotes ==
    ASSUME NEW ver, NEW e, Able(e), NEW m, NEW v
    PROVE  /\ Sends(e, Hashed(e, m), ver) /\ Sends(e, ClearHash(e), ver) /\ Sends(e, Counted(e), ver)
           /\ Sends(e, Drawn(e), ver) /\ Sends(e, [e EXCEPT !.hs.own = v], ver)
           /\ Sends(e, [e EXCEPT !.hs.other = v], ver) /\ Sends(e, [e EXCEPT !.hs.cipher = v], ver)
           /\ Sends(e, [e EXCEPT !.hs.pub = v], ver) /\ Sends(e, [e EXCEPT !.hs.auth = v], ver)
           /\ Sends(e, [e EXCEPT !.hs.mr = v], ver)
           /\ e.id = 1 => Sends(e, [e EXCEPT !.hs.server = v], ver)
           /\ Sends(e, e, ver)
<1>1. \A f \in HsFields \ {"on", "client", "master", "reorder"} : \A w :
        (e.id = 2 => f # "server") => Sends(e, Noted(e, f, w), ver)
  BY HsNoted
<1>2. Sends(e, Hashed(e, m), ver)
  <2>1. Hashed(e, m) = Noted(e, "hash", Append(e.hs.hash, <<m.h, m.seq, m.v>>))
    BY DEF Hashed, Noted, Able, IsEnd, EndFields, HsFields
  <2> QED
    BY <1>1, <2>1 DEF HsFields
<1>3. Sends(e, ClearHash(e), ver)
  <2>1. ClearHash(e) = Noted(e, "hash", <<>>)
    BY DEF ClearHash, Noted
  <2> QED
    BY <1>1, <2>1 DEF HsFields
<1>4. Sends(e, e, ver)
  <2>1. e.gen >= e.gen /\ e.gen \in Nat
    BY DEF Able
  <2> QED
    BY <2>1, NotesSends DEF Same, Able
<1>5. Sends(e, Counted(e), ver)
  <2>1. Counted(e) = Noted(e, "ms", e.hs.ms + 1) \/ Counted(e) = e
    BY DEF Counted, Noted, Able, IsEnd, EndFields, HsFields
  <2> QED
    BY <1>1, <1>4, <2>1 DEF HsFields
<1>6. Sends(e, Drawn(e), ver)
  <2> DEFINE s == Drawn(e)
  <2>1. IsEnd(s) /\ s.gen = e.gen + 1 /\ s.hs = e.hs /\ Same(e, s, EndFields \ {"gen", "hs"})
    BY DEF Drawn, Able, IsEnd, EndFields, Same
  <2>2. s.gen \in Nat /\ s.gen >= e.gen
    BY <2>1 DEF Able
  <2> HIDE DEF s
  <2>3. Sends(e, s, ver)
    BY <2>1, <2>2, NotesSends DEF Same
  <2> QED
    BY <2>3 DEF s
<1>7. /\ Noted(e, "own", v) = [e EXCEPT !.hs.own = v] /\ Noted(e, "other", v) = [e EXCEPT !.hs.other = v]
      /\ Noted(e, "cipher", v) = [e EXCEPT !.hs.cipher = v] /\ Noted(e, "pub", v) = [e EXCEPT !.hs.pub = v]
      /\ Noted(e, "auth", v) = [e EXCEPT !.hs.auth = v] /\ Noted(e, "mr", v) = [e EXCEPT !.hs.mr = v]
      /\ Noted(e, "server", v) = [e EXCEPT !.hs.server = v]
  BY DEF Noted
<1>8. /\ Sends(e, Noted(e, "own", v), ver) /\ Sends(e, Noted(e, "other", v), ver)
      /\ Sends(e, Noted(e, "cipher", v), ver) /\ Sends(e, Noted(e, "pub", v), ver)
      /\ Sends(e, Noted(e, "auth", v), ver) /\ Sends(e, Noted(e, "mr", v), ver)
      /\ e.id = 1 => Sends(e, Noted(e, "server", v), ver)
  BY <1>1 DEF HsFields
<1> QED
  BY <1>2, <1>3, <1>4, <1>5, <1>6, <1>7, <1>8

\* A message with its header; what is looked at does not change.
LEMMA NumberedOK ==
    ASSUME NEW e, NEW m, NEW i, NEW keys, NEW ver, MsgOK(m, i, keys, ver)
    PROVE  MsgOK(Numbered(e, m), i, keys, ver)
  BY DEF MsgOK, Numbered

\* dtls_send_handshake_msg: a message of this end, in the transcript or not.
LEMMA HandshakeSent ==
    ASSUME NEW ver, NEW e, Able(e), NEW m, MsgOK(m, e.id, e.keys, ver)
    PROVE  Sends(e, SendUnhashed(e, m), ver) /\ Sends(e, SendHashed(e, m), ver)
<1> DEFINE n == Numbered(e, m)
           c == Counted(e)
           h == Hashed(c, n)
<1>1. MsgOK(n, e.id, e.keys, ver)
  BY NumberedOK
<1>2. Sends(e, c, ver)
  BY SmallNotes
<1> HIDE DEF n, c
<1>3. Able(c) /\ c.id = e.id /\ c.keys = e.keys
  BY <1>2, KeptAble, KeptFields DEF Sends
<1>4. Sends(c, h, ver)
  BY <1>3, SmallNotes
<1> HIDE DEF h
<1>5. Able(h) /\ h.id = e.id /\ h.keys = e.keys
  BY <1>3, <1>4, KeptAble, KeptFields DEF Sends
<1>6. Sends(c, Send(c, "handshake", n), ver)
  BY <1>1, <1>3, SendSends
<1>7. Sends(h, Send(h, "handshake", n), ver)
  BY <1>1, <1>5, SendSends
<1>8. Sends(e, Send(c, "handshake", n), ver)
  BY <1>2, <1>3, <1>6, SendsOn
<1>9. Sends(e, Send(h, "handshake", n), ver)
  BY <1>2, <1>3, <1>4, <1>5, <1>7, SendsOn
<1> QED
  BY <1>8, <1>9 DEF SendUnhashed, SendHashed, n, c, h

\* A message without anything the other side relies on.
LEMMA PlainMessage ==
    ASSUME NEW i, NEW keys, NEW ver, NEW h \in Kinds(i) \ {"Finished", "ClientHello"}, NEW v, NEW x, NEW y
    PROVE  /\ MsgOK(Message(h, v), i, keys, ver)
           /\ MsgOK([Message(h, v) EXCEPT !.cipher = x], i, keys, ver)
           /\ MsgOK([Message(h, v) EXCEPT !.mac = y], i, keys, ver)
  BY DEF MsgOK, Message

\* dtls_send_certificate_ecdsa and the others that draw nothing but an ephemeral key.
LEMMA FlightParts ==
    ASSUME NEW ver, NEW e, Able(e)
    PROVE  /\ Sends(e, SendCertificate(e), ver)
           /\ e.id = 1 => Sends(e, SendClientKeyExchange(e), ver) /\ Sends(e, SendCertificateVerify(e), ver)
           /\ e.id = 2 => /\ Sends(e, SendServerKeyExchangeECDH(e), ver) /\ Sends(e, SendServerHelloDone(e), ver)
                          /\ Sends(e, SendServerKeyExchangePSK(e), ver) /\ Sends(e, SendCertificateRequest(e), ver)
           /\ Sends(e, SendCcs(e), ver)
<1>1. e.id \in 1 .. 2
  BY DEF Able
<1>2. "Certificate" \in Kinds(e.id) \ {"Finished", "ClientHello"}
  BY <1>1 DEF Kinds
<1>3. e.id = 1 => {"ClientKeyExchange", "CertificateVerify"} \subseteq Kinds(e.id) \ {"Finished", "ClientHello"}
  BY DEF Kinds
<1>4. e.id = 2 => {"ServerKeyExchange", "ServerHelloDone", "CertificateRequest"}
                     \subseteq Kinds(e.id) \ {"Finished", "ClientHello"}
  BY DEF Kinds
<1>5. Sends(e, e, ver)
  BY SmallNotes
<1> DEFINE drawn == Drawn(e)
           own == [drawn EXCEPT !.hs.own = Fresh(e)]
<1>6. Sends(e, own, ver) /\ Able(own) /\ own.id = e.id /\ own.keys = e.keys
  <2>1. Sends(e, drawn, ver)
    BY SmallNotes
  <2> HIDE DEF drawn
  <2>2. Able(drawn) /\ drawn.id = e.id /\ drawn.keys = e.keys
    BY <2>1, KeptAble, KeptFields DEF Sends
  <2>3. Sends(drawn, own, ver)
    BY <2>2, SmallNotes
  <2> HIDE DEF own
  <2>4. Sends(e, own, ver)
    BY <2>1, <2>2, <2>3, SendsOn
  <2> QED
    BY <2>4, KeptAble, KeptFields DEF Sends
<1>7. Sends(e, SendCertificate(e), ver)
  BY <1>2, PlainMessage, HandshakeSent DEF SendCertificate
<1>8. ASSUME e.id = 1 PROVE Sends(e, SendClientKeyExchange(e), ver)
  <2>1. Sends(e, SendHashed(e, Message("ClientKeyExchange", 0)), ver)
    BY <1>3, <1>8, PlainMessage, HandshakeSent
  <2> HIDE DEF own
  <2>2. Sends(own, SendHashed(own, Message("ClientKeyExchange", own.hs.own)), ver)
    BY <1>3, <1>6, <1>8, PlainMessage, HandshakeSent
  <2>3. Sends(e, SendHashed(own, Message("ClientKeyExchange", own.hs.own)), ver)
    BY <1>6, <2>2, SendsOn
  <2> QED
    BY <2>1, <2>3 DEF SendClientKeyExchange, own
<1>9. e.id = 1 => Sends(e, SendCertificateVerify(e), ver)
  BY <1>3, PlainMessage, HandshakeSent DEF SendCertificateVerify
<1>10. ASSUME e.id = 2 PROVE Sends(e, SendServerKeyExchangeECDH(e), ver)
  <2> HIDE DEF own
  <2> DEFINE m == [Message("ServerKeyExchange", own.hs.own) EXCEPT !.mac = Signed(e.id, e, own.hs.own)]
  <2>1. MsgOK(m, own.id, own.keys, ver)
    BY <1>4, <1>6, <1>10, PlainMessage
  <2> HIDE DEF m
  <2>2. Sends(own, SendHashed(own, m), ver)
    BY <1>6, <2>1, HandshakeSent
  <2>3. Sends(e, SendHashed(own, m), ver)
    BY <1>6, <2>2, SendsOn
  <2> QED
    BY <2>3 DEF SendServerKeyExchangeECDH, own, m
<1>11. e.id = 2 => /\ Sends(e, SendServerHelloDone(e), ver)
                   /\ Sends(e, SendServerKeyExchangePSK(e), ver) /\ Sends(e, SendCertificateRequest(e), ver)
  BY <1>4, <1>5, PlainMessage, HandshakeSent
  DEF SendServerHelloDone, SendServerKeyExchangePSK, SendCertificateRequest
<1>12. Sends(e, SendCcs(e), ver)
  BY SendSends DEF SendCcs
<1> QED
  BY <1>7, <1>8, <1>9, <1>10, <1>11, <1>12

-----------------------------------------------------------------------------
(* The other operators of the record layer.                                *)

\* An end whose peer stays, with the parts of the invariant that may change.
LEMMA BaseMoved ==
    ASSUME NEW i, NEW oth, NEW ver, NEW D, NEW e, Base(e, i, oth, ver, D), HasPeer(e),
           NEW s, IsEnd(s), Same(e, s, {"id", "peers", "freed", "ctx", "role", "q", "out"}),
           s.gen \in Nat, s.gen >= e.gen, s.err \in BOOLEAN, s.state \in PeerStates,
           e.keys \subseteq s.keys, ~s.reused,
           s.hs.on \in BOOLEAN, s.hs.reorder \subseteq e.hs.reorder,
           Own(s) \in Nat, Own(s) < Fresh(s), Contexts(s),
           \A k \in Used(s) : Old(e, k) \/ Old(s, k),
           \A r \in D : \A c \in 1 .. 2 : s.p[c].epoch = r.epoch /\ s.p[c].key = r.key =>
             IsReplay(s.p[c], r.seq)
    PROVE  Base(s, i, oth, ver, D)
<1>1. /\ s.id = e.id /\ s.peers = e.peers /\ s.freed = e.freed /\ s.ctx = e.ctx /\ s.role = e.role
      /\ s.q = e.q /\ s.out = e.out
  BY DEF Same
<1>2. e.id = i /\ i \in 1 .. 2 /\ e.gen \in Nat
  BY DEF Base, Sound
<1>3. HasPeer(s)
  BY DEF HasPeer, PeerStates, Before
<1>4. Sound(s, i)
  BY <1>1, <1>3 DEF Base, Sound
<1>5. \A r, w : RecOK(r, i, e.keys, ver, w) => RecOK(r, i, s.keys, ver, w)
  BY DEF RecOK, MsgOK
<1>6. Traffic(s, ver)
  <2>1. \A n : NodeOK(n, e, ver) => NodeOK(n, s, ver)
    BY <1>1, <1>2, <1>3, <1>5 DEF NodeOK
  <2> QED
    BY <1>1, <1>2, <1>5, <2>1 DEF Base, Traffic
<1>7. Early(s, oth, ver)
  <2>1. IsFiniteSet(s.hs.reorder)
    BY FS_Subset DEF Base, Early
  <2> QED
    BY <1>1, <2>1 DEF Base, Early
<1>8. \A k : Old(e, k) => Old(s, k)
  <2>1. Fresh(s) \in Int /\ Fresh(e) \in Int /\ Fresh(s) >= Fresh(e)
    BY <1>1, <1>2 DEF Fresh
  <2> QED
    BY <1>1, <2>1 DEF Old
<1>9. Secrets(s)
  BY <1>8 DEF Secrets
<1>10. Spent(s, D)
  BY <1>8 DEF Base, Spent
<1> QED
  BY <1>4, <1>6, <1>7, <1>9, <1>10 DEF Base

\* What the invariant says of one end, for the steps that need a part of it.
LEMMA BaseParts ==
    ASSUME NEW i, NEW oth, NEW ver, NEW D, NEW e, Base(e, i, oth, ver, D)
    PROVE  /\ IsEnd(e) /\ e.id = i /\ i \in 1 .. 2 /\ e.gen \in Nat /\ e.peers \in Nat
           /\ e.err \in BOOLEAN /\ e.hs.on \in BOOLEAN /\ e.state \in PeerStates \cup {"none"}
           /\ HasPeer(e) => Able(e) /\ e.ctx /\ e.role = Role(i)
           /\ \A c \in 1 .. 2 : e.p[c].epoch \in Int /\ e.p[c].rseq \in Nat /\ e.p[c].cseq \in Nat
           /\ ~e.reused /\ Own(e) \in Nat /\ Own(e) < Fresh(e) /\ Fresh(e) \in Nat
           /\ \A k \in Used(e) : Old(e, k)
<1>1. e.id = i /\ i \in 1 .. 2 /\ e.gen \in Nat
  BY DEF Base, Sound
<1>2. Fresh(e) \in Nat
  BY <1>1 DEF Fresh
<1> QED
  BY <1>1, <1>2 DEF Base, Sound, Contexts, Secrets, Able

\* The state of a peer is set.
LEMMA StateSet ==
    ASSUME NEW i, NEW oth, NEW ver, NEW D, NEW e, Base(e, i, oth, ver, D), HasPeer(e),
           NEW st \in PeerStates
    PROVE  LET s == [e EXCEPT !.state = st] IN
           /\ Base(s, i, oth, ver, D) /\ s.state = st /\ Same(e, s, EndFields \ {"state"})
<1> DEFINE s == [e EXCEPT !.state = st]
<1>1. IsEnd(e)
  BY BaseParts
<1>2. DOMAIN s = EndFields /\ s.state = st /\ Same(e, s, EndFields \ {"state"})
  BY <1>1 DEF IsEnd, EndFields, Same
<1> HIDE DEF s
<1>3. /\ s.hs = e.hs /\ s.p = e.p /\ s.gen = e.gen /\ s.err = e.err /\ s.keys = e.keys
      /\ s.reused = e.reused /\ s.id = e.id
  BY <1>2 DEF Same, EndFields
<1>4. Same(e, s, {"id", "peers", "freed", "ctx", "role", "q", "out"})
  BY <1>2 DEF Same, EndFields
<1>5. IsEnd(s)
  BY <1>1, <1>2, <1>3 DEF IsEnd
<1>6. Own(s) = Own(e) /\ Used(s) = Used(e) /\ Fresh(s) = Fresh(e)
  BY <1>3 DEF Own, Used, Fresh
<1>7. Contexts(s)
  BY <1>3 DEF Base, Contexts
<1>8. /\ e.gen \in Nat /\ e.err \in BOOLEAN /\ e.hs.on \in BOOLEAN /\ ~e.reused
      /\ Own(e) \in Nat /\ Own(e) < Fresh(e) /\ \A k \in Used(e) : Old(e, k)
  BY BaseParts
<1>9. s.gen >= e.gen
  BY <1>3, <1>8
<1>10. \A r \in D : \A c \in 1 .. 2 : s.p[c].epoch = r.epoch /\ s.p[c].key = r.key =>
             IsReplay(s.p[c], r.seq)
  BY <1>3 DEF Base, Spent
<1>11. Base(s, i, oth, ver, D)
  BY <1>2, <1>3, <1>4, <1>5, <1>6, <1>7, <1>8, <1>9, <1>10, BaseMoved
<1> QED
  BY <1>2, <1>11 DEF s

\* Steps on which nothing of the invariant depends.
LEMMA Marks ==
    ASSUME NEW i, NEW oth, NEW ver, NEW D, NEW e, Base(e, i, oth, ver, D), NEW v
    PROVE  /\ Sends(e, StopRetransmission(e), ver) /\ Sends(e, Told(e, v), ver)
           /\ Sends(e, Fail(e), ver) /\ Sends(e, [e EXCEPT !.err = FALSE], ver)
           /\ StopRetransmission(e).q = <<>> /\ Fail(e).err /\ ~([e EXCEPT !.err = FALSE].err)
           /\ StopRetransmission(e).err = e.err /\ Told(e, v).err = e.err
           /\ StopRetransmission(e).out = e.out /\ Told(e, v).out = e.out
           /\ Told(e, v).q = e.q
<1>1. IsEnd(e) /\ e.err \in BOOLEAN /\ e.gen \in Nat /\ e.p[1].rseq \in Nat
  BY BaseParts
<1>2. e.gen >= e.gen /\ e.p[1].rseq >= e.p[1].rseq
  BY <1>1
<1>3. ASSUME NEW s, IsEnd(s), s.err \in BOOLEAN, Same(e, s, EndFields \ {"q", "err", "status"}),
             s.q = e.q \/ s.q = <<>>
      PROVE  Sends(e, s, ver)
  <2>1. /\ s.id = e.id /\ s.peers = e.peers /\ s.state = e.state /\ s.keys = e.keys /\ s.p = e.p
        /\ s.out = e.out /\ s.hs = e.hs /\ s.gen = e.gen
    BY <1>3 DEF Same, EndFields
  <2>2. Same(e, s, EndFields \ {"gen", "hs", "p", "q", "out", "err", "status"})
    BY <1>3 DEF Same
  <2>3. Same(e.hs, s.hs, {"on", "client", "master"}) /\ Same(e.p[1], s.p[1], SecFields \ {"rseq"})
    BY <2>1 DEF Same
  <2>4. Keeps(e, s)
    BY <1>1, <1>2, <1>3, <2>1, <2>2, <2>3 DEF Keeps
  <2>5. \A n : NodeOK(n, e, ver) => NodeOK(n, s, ver)
    BY <2>1 DEF NodeOK, HasPeer
  <2>6. Traffic(e, ver) => Traffic(s, ver)
    BY <1>3, <2>1, <2>5, EmptyList DEF Traffic
  <2> QED
    BY <2>4, <2>6 DEF Sends
<1>4. /\ Sends(e, StopRetransmission(e), ver) /\ StopRetransmission(e).q = <<>>
      /\ StopRetransmission(e).err = e.err /\ StopRetransmission(e).out = e.out
  <2> DEFINE s == [e EXCEPT !.q = <<>>]
  <2>1. IsEnd(s) /\ s.err = e.err /\ Same(e, s, EndFields \ {"q", "err", "status"}) /\ s.q = <<>> /\ s.out = e.out
    BY <1>1 DEF IsEnd, EndFields, Same
  <2> HIDE DEF s
  <2>2. Sends(e, s, ver)
    BY <1>1, <1>3, <2>1
  <2> QED
    BY <2>1, <2>2 DEF StopRetransmission, s
<1>5. Sends(e, Told(e, v), ver) /\ Told(e, v).err = e.err /\ Told(e, v).out = e.out /\ Told(e, v).q = e.q
  <2> DEFINE s == [e EXCEPT !.status = v]
  <2>1. IsEnd(s) /\ s.err = e.err /\ Same(e, s, EndFields \ {"q", "err", "status"}) /\ s.q = e.q /\ s.out = e.out
    BY <1>1 DEF IsEnd, EndFields, Same
  <2> HIDE DEF s
  <2>2. Sends(e, s, ver)
    BY <1>1, <1>3, <2>1
  <2> QED
    BY <2>1, <2>2 DEF Told, s
<1>6. ASSUME NEW b \in BOOLEAN
      PROVE  Sends(e, [e EXCEPT !.err = b], ver) /\ [e EXCEPT !.err = b].err = b
  <2> DEFINE s == [e EXCEPT !.err = b]
  <2>1. IsEnd(s) /\ s.err = b /\ Same(e, s, EndFields \ {"q", "err", "status"}) /\ s.q = e.q
    BY <1>1 DEF IsEnd, EndFields, Same
  <2> HIDE DEF s
  <2>2. Sends(e, s, ver)
    BY <1>3, <2>1
  <2> QED
    BY <2>1, <2>2 DEF s
<1> QED
  BY <1>4, <1>5, <1>6 DEF Fail

\* An end whose peer goes, or comes, with what belonged to another.
LEMMA BaseReset ==
    ASSUME NEW i, NEW oth, NEW ver, NEW D, NEW e, Base(e, i, oth, ver, D),
           NEW s, IsEnd(s), Same(e, s, {"id", "out", "keys", "reused", "gen", "err"}), s.q = <<>>,
           s.peers \in Nat, s.ctx \in BOOLEAN, s.freed \in BOOLEAN, i = 1 => ~s.freed,
           s.hs.on \in BOOLEAN, s.hs.on => HasPeer(s), s.hs.reorder = {}, Own(s) = 0,
           s.state \in PeerStates \cup {"none"},
           IF HasPeer(s) THEN s.ctx /\ s.role = Role(i) ELSE s.role = "none",
           Contexts(s), s.p[1].epoch <= 0, s.p[2].epoch <= 0
    PROVE  Base(s, i, oth, ver, D)
<1>1. /\ s.id = e.id /\ s.out = e.out /\ s.keys = e.keys /\ s.reused = e.reused
      /\ s.gen = e.gen /\ s.err = e.err
  BY DEF Same
<1>2. /\ e.id = i /\ i \in 1 .. 2 /\ e.gen \in Nat /\ e.err \in BOOLEAN /\ ~e.reused
      /\ \A k \in Used(e) : Old(e, k)
  BY BaseParts
<1>3. Sound(s, i)
  BY <1>1, <1>2 DEF Sound
<1>4. Traffic(s, ver)
  BY <1>1, EmptyList DEF Base, Traffic
<1>5. Early(s, oth, ver)
  BY FS_EmptySet DEF Early
<1>6. Fresh(s) = Fresh(e) /\ Fresh(e) \in Nat /\ Fresh(e) > 0
  BY <1>1, <1>2 DEF Fresh
<1>7. s.p[1].key = NoKey /\ s.p[2].key = NoKey
  BY DEF Contexts
<1>8. Used(s) \subseteq Used(e)
  BY <1>1, <1>7 DEF Used
<1>9. \A k : Old(e, k) => Old(s, k)
  BY <1>1, <1>6 DEF Old
<1>10. Secrets(s)
  <2>1. Own(s) \in Nat /\ Own(s) < Fresh(s)
    BY <1>6
  <2>2. \A k \in Used(s) : Old(s, k)
    BY <1>2, <1>8, <1>9
  <2> QED
    BY <1>1, <1>2, <2>1, <2>2 DEF Secrets
<1>11. Spent(s, D)
  <2>1. \A r \in D : r.seq \in Nat /\ r.seq > 0 /\ r.epoch \in Nat /\ r.epoch > 0 /\ Old(e, r.key)
    BY DEF Base, Spent
  <2>2. \A r \in D : \A c \in 1 .. 2 : s.p[c].epoch # r.epoch
    BY <2>1 DEF Contexts
  <2> QED
    BY <1>9, <2>1, <2>2 DEF Spent
<1> QED
  BY <1>3, <1>4, <1>5, <1>10, <1>11 DEF Base

\* What an end is told apart by from outside.
Frame(e, s) == Same(e, s, {"read", "wrote", "ctx"}) /\ e.keys \subseteq s.keys

\* A peer that goes leaves nothing behind, when nothing was queued for it.
LEMMA PeerGone ==
    ASSUME NEW i, NEW oth, NEW ver, NEW D, NEW e, Base(e, i, oth, ver, D), e.q = <<>>
    PROVE  LET s == NoPeer(e) IN
           /\ Base(s, i, oth, ver, D) /\ Settled(s, oth, ver, D) /\ Frame(e, s)
           /\ ~HasPeer(s) /\ Same(e, s, {"err", "out", "q", "freed", "peers", "can"})
<1> DEFINE s == NoPeer(e)
<1>1. IsEnd(e) /\ e.id = i /\ i \in 1 .. 2 /\ e.gen \in Nat /\ e.peers \in Nat
  BY BaseParts
<1>2. DOMAIN s = EndFields /\ Same(e, s, EndFields \ {"state", "role", "hs", "p"})
  BY <1>1 DEF NoPeer, IsEnd, EndFields, Same
<1>3. /\ s.state = "none" /\ s.role = "none" /\ s.hs = NoHandshake
      /\ s.p = <<NoSecurity, NoSecurity>>
  BY <1>1 DEF NoPeer, IsEnd, EndFields
<1> HIDE DEF s
<1>4. IsEnd(s)
  <2>1. DOMAIN NoHandshake = HsFields /\ IsSec(NoSecurity)
    BY DEF NoHandshake, HsFields, IsSec, NoSecurity, Security, SecFields
  <2> QED
    BY <1>2, <1>3, <2>1 DEF IsEnd
<1>5. /\ s.hs.on = FALSE /\ s.hs.reorder = {} /\ s.hs.client = 0 /\ s.hs.server = 0
  BY <1>3 DEF NoHandshake
<1>6. Contexts(s) /\ s.p[1].epoch <= 0 /\ s.p[2].epoch <= 0
  BY <1>3 DEF Contexts, HasPeer, NoSecurity, Security
<1>7. Same(e, s, {"id", "out", "keys", "reused", "gen", "err"}) /\ s.q = <<>> /\ Frame(e, s)
      /\ Same(e, s, {"err", "out", "q", "freed", "peers", "can"})
  BY <1>2 DEF Same, EndFields, Frame
<1>8. s.peers = e.peers /\ s.ctx = e.ctx /\ s.freed = e.freed
  BY <1>2 DEF Same, EndFields
<1>9. e.ctx \in BOOLEAN /\ e.freed \in BOOLEAN /\ (i = 1 => ~e.freed)
  BY DEF Base, Sound
<1>10. Own(s) = 0 /\ ~HasPeer(s)
  BY <1>3, <1>5 DEF Own, HasPeer
<1>11. Base(s, i, oth, ver, D)
  BY <1>1, <1>3, <1>4, <1>5, <1>6, <1>7, <1>8, <1>9, <1>10, BaseReset
<1>12. Settled(s, oth, ver, D)
  BY <1>3 DEF Settled, Deriving, Finishing
<1> QED
  BY <1>7, <1>10, <1>11, <1>12 DEF s

\* What keeps an end keeps it as it looks from outside.
LEMMA FrameKept ==
    ASSUME NEW e, NEW s, Keeps(e, s)
    PROVE  Frame(e, s)
  BY KeptFields DEF Frame, Same

\* And this is transitive.
LEMMA FrameOn ==
    ASSUME NEW e, NEW s, NEW t, Frame(e, s), Frame(s, t)
    PROVE  Frame(e, t)
  BY DEF Frame, Same

\* A new peer, for which nothing is queued yet.
LEMMA PeerComes ==
    ASSUME NEW i, NEW oth, NEW ver, NEW D, NEW e, Base(e, i, oth, ver, D), e.q = <<>>, e.ctx
    PROVE  LET s == NewPeer(e, Role(i)) IN
           /\ Base(s, i, oth, ver, D) /\ Frame(e, s) /\ s.state = "init" /\ s.hs = NoHandshake
           /\ Same(e, s, {"err", "out", "q", "freed", "can"})
<1> DEFINE s == NewPeer(e, Role(i))
<1>1. IsEnd(e) /\ e.id = i /\ i \in 1 .. 2 /\ e.gen \in Nat /\ e.peers \in Nat
  BY BaseParts
<1>2. DOMAIN s = EndFields /\ Same(e, s, EndFields \ {"state", "role", "hs", "p", "peers"})
  BY <1>1 DEF NewPeer, IsEnd, EndFields, Same
<1>3. /\ s.state = "init" /\ s.role = Role(i) /\ s.hs = NoHandshake /\ s.peers = e.peers + 1
      /\ s.p = <<Security(0), NoSecurity>>
  BY <1>1 DEF NewPeer, IsEnd, EndFields
<1> HIDE DEF s
<1>4. IsEnd(s)
  <2>1. DOMAIN NoHandshake = HsFields /\ IsSec(NoSecurity) /\ IsSec(Security(0))
    BY DEF NoHandshake, HsFields, IsSec, NoSecurity, Security, SecFields
  <2> QED
    BY <1>2, <1>3, <2>1 DEF IsEnd
<1>5. /\ s.hs.on = FALSE /\ s.hs.reorder = {} /\ s.hs.client = 0 /\ s.hs.server = 0
  BY <1>3 DEF NoHandshake
<1>6. Contexts(s) /\ s.p[1].epoch <= 0 /\ s.p[2].epoch <= 0
  BY <1>3 DEF Contexts, HasPeer, NoSecurity, Security
<1>7. Same(e, s, {"id", "out", "keys", "reused", "gen", "err"}) /\ s.q = <<>> /\ Frame(e, s)
      /\ Same(e, s, {"err", "out", "q", "freed", "can"})
  BY <1>2 DEF Same, EndFields, Frame
<1>8. s.peers \in Nat /\ s.ctx = e.ctx /\ s.freed = e.freed
  <2>1. s.peers \in Nat
    BY <1>1, <1>3
  <2> QED
    BY <1>2, <2>1 DEF Same, EndFields
<1>9. e.ctx \in BOOLEAN /\ e.freed \in BOOLEAN /\ (i = 1 => ~e.freed)
  BY DEF Base, Sound
<1>10. Own(s) = 0 /\ HasPeer(s) /\ s.state \in PeerStates
  BY <1>3, <1>5 DEF Own, HasPeer, PeerStates, Before
<1>11. Base(s, i, oth, ver, D)
  BY <1>1, <1>3, <1>4, <1>5, <1>6, <1>7, <1>8, <1>9, <1>10, BaseReset
<1> QED
  BY <1>3, <1>7, <1>11 DEF s

\* The handshake of a peer begins, or ends.
LEMMA HandshakeSet ==
    ASSUME NEW i, NEW oth, NEW ver, NEW D, NEW e, Base(e, i, oth, ver, D), HasPeer(e),
           NEW h, DOMAIN h = HsFields, h.on \in BOOLEAN, h.reorder = {}, h.client = 0, h.server = 0
    PROVE  LET s == [e EXCEPT !.hs = h] IN
           Base(s, i, oth, ver, D) /\ s.hs = h /\ Same(e, s, EndFields \ {"hs"})
<1> DEFINE s == [e EXCEPT !.hs = h]
<1>1. IsEnd(e) /\ e.id = i /\ i \in 1 .. 2
  BY BaseParts
<1>2. DOMAIN s = EndFields /\ s.hs = h /\ Same(e, s, EndFields \ {"hs"})
  BY <1>1 DEF IsEnd, EndFields, Same
<1> HIDE DEF s
<1>3. /\ s.state = e.state /\ s.p = e.p /\ s.gen = e.gen /\ s.err = e.err /\ s.keys = e.keys
      /\ s.reused = e.reused /\ s.id = e.id
  BY <1>2 DEF Same, EndFields
<1>4. Same(e, s, {"id", "peers", "freed", "ctx", "role", "q", "out"})
  BY <1>2 DEF Same, EndFields
<1>5. IsEnd(s)
  BY <1>1, <1>2, <1>3 DEF IsEnd
<1>6. Own(s) = 0 /\ Used(s) = Used(e) /\ Fresh(s) = Fresh(e)
  BY <1>2, <1>3 DEF Own, Used, Fresh
<1>7. Contexts(s)
  BY <1>3 DEF Base, Contexts, HasPeer
<1>8. /\ e.gen \in Nat /\ e.err \in BOOLEAN /\ ~e.reused /\ e.state \in PeerStates \cup {"none"}
      /\ Fresh(e) \in Nat /\ \A k \in Used(e) : Old(e, k)
  BY BaseParts
<1>9. s.gen >= e.gen /\ s.state \in PeerStates
  BY <1>3, <1>8 DEF HasPeer
<1>10. \A r \in D : \A c \in 1 .. 2 : s.p[c].epoch = r.epoch /\ s.p[c].key = r.key =>
             IsReplay(s.p[c], r.seq)
  BY <1>3 DEF Base, Spent
<1>11. Own(s) \in Nat /\ Own(s) < Fresh(s)
  <2>1. Fresh(e) > 0
    BY <1>1, <1>8 DEF Fresh
  <2> QED
    BY <1>6, <1>8, <2>1
<1>12. \A k \in Used(s) : Old(e, k)
  BY <1>6, <1>8
<1>13. s.hs.reorder \subseteq e.hs.reorder /\ s.hs.on \in BOOLEAN
  BY <1>2
<1>14. e.keys \subseteq s.keys /\ s.gen \in Nat /\ s.err \in BOOLEAN /\ ~s.reused
  BY <1>3, <1>8
<1>15. Base(s, i, oth, ver, D)
  BY <1>4, <1>5, <1>7, <1>9, <1>10, <1>11, <1>12, <1>13, <1>14, BaseMoved
<1> QED
  BY <1>2, <1>15 DEF s

\* A random of this end is drawn: it is in no key yet.
DrawnInto(e, i, s) ==
  s = IF i = 1 THEN [Drawn(e) EXCEPT !.hs.client = Fresh(e)]
      ELSE [Drawn(e) EXCEPT !.hs.server = Fresh(e)]

\* A random that was drawn is in no key that was made so far.
LEMMA RandomDrawn ==
    ASSUME NEW i, NEW oth, NEW ver, NEW D, NEW e, Base(e, i, oth, ver, D), HasPeer(e),
           NEW s, DrawnInto(e, i, s)
    PROVE  /\ Base(s, i, oth, ver, D) /\ Same(e, s, EndFields \ {"gen", "hs"})
           /\ Same(e.hs, s.hs, HsFields \ {IF i = 1 THEN "client" ELSE "server"})
           /\ Own(s) = Fresh(e) /\ Own(s) # 0 /\ Used(s) = Used(e)
           /\ Apart(s, D)
<1>1. IsEnd(e) /\ e.id = i /\ i \in 1 .. 2 /\ e.gen \in Nat
  BY BaseParts
<1> DEFINE d == Drawn(e)
           f == IF i = 1 THEN "client" ELSE "server"
<1>2. IsEnd(d) /\ Same(e, d, EndFields \ {"gen"}) /\ d.gen = e.gen + 1 /\ d.hs = e.hs
  BY <1>1 DEF Drawn, IsEnd, EndFields, Same
<1>3. s = [d EXCEPT !.hs[f] = Fresh(e)]
  BY <1>1 DEF DrawnInto
<1>4. f \in HsFields
  BY DEF HsFields
<1> HIDE DEF d, f
<1>5. /\ IsEnd(s) /\ Same(d, s, EndFields \ {"hs"})
      /\ Same(d.hs, s.hs, HsFields \ {f}) /\ s.hs[f] = Fresh(e)
  <2>1. s = Noted(d, f, Fresh(e))
    BY <1>3 DEF Noted
  <2>2. /\ IsEnd(Noted(d, f, Fresh(e))) /\ Same(d, Noted(d, f, Fresh(e)), EndFields \ {"hs"})
        /\ Same(d.hs, Noted(d, f, Fresh(e)).hs, HsFields \ {f}) /\ Noted(d, f, Fresh(e)).hs[f] = Fresh(e)
    <3>1. IsEnd(d)
      BY <1>2
    <3> QED
      BY <1>4, <3>1, NotedFields
  <2> QED
    BY <2>1, <2>2
<1>6. Same(e, s, EndFields \ {"gen", "hs"}) /\ s.gen = e.gen + 1 /\ Same(e.hs, s.hs, HsFields \ {f})
  BY <1>2, <1>5 DEF Same, EndFields
<1>7. /\ s.state = e.state /\ s.p = e.p /\ s.err = e.err /\ s.keys = e.keys
      /\ s.reused = e.reused /\ s.id = e.id
      /\ Same(e, s, {"id", "peers", "freed", "ctx", "role", "q", "out"})
  BY <1>6 DEF Same, EndFields
<1>8. Own(s) = Fresh(e)
  BY <1>1, <1>5, <1>7 DEF Own, f
<1>9. Used(s) = Used(e) /\ Fresh(e) \in Nat /\ Fresh(s) = Fresh(e) + 10 /\ Fresh(e) > 0
  BY <1>1, <1>6, <1>7 DEF Used, Fresh
<1>10. Contexts(s)
  BY <1>7 DEF Base, Contexts, HasPeer
<1>11. /\ e.err \in BOOLEAN /\ ~e.reused /\ e.state \in PeerStates \cup {"none"} /\ e.hs.on \in BOOLEAN
       /\ \A k \in Used(e) : Old(e, k)
  BY BaseParts
<1>12. s.gen \in Nat /\ s.gen >= e.gen /\ s.state \in PeerStates
  BY <1>1, <1>6, <1>7, <1>11 DEF HasPeer
<1>13. \A r \in D : \A c \in 1 .. 2 : s.p[c].epoch = r.epoch /\ s.p[c].key = r.key =>
             IsReplay(s.p[c], r.seq)
  BY <1>7 DEF Base, Spent
<1>14. Own(s) \in Nat /\ Own(s) < Fresh(s) /\ Own(s) # 0
  BY <1>8, <1>9
<1>15. \A k \in Used(s) : Old(e, k)
  BY <1>9, <1>11
<1>16. s.hs.on = e.hs.on /\ s.hs.reorder = e.hs.reorder
  BY <1>6 DEF Same, HsFields, f
<1>17. e.keys \subseteq s.keys /\ s.err \in BOOLEAN /\ ~s.reused /\ s.hs.on \in BOOLEAN
       /\ s.hs.reorder \subseteq e.hs.reorder
  BY <1>7, <1>11, <1>16
<1>18. Base(s, i, oth, ver, D)
  BY <1>5, <1>7, <1>10, <1>12, <1>13, <1>14, <1>15, <1>17, BaseMoved
<1>19. \A r \in D : Old(e, r.key)
  BY DEF Base, Spent
<1>20. \A k : Old(e, k) => Mine(i, k) # Own(s)
  BY <1>1, <1>8, <1>9 DEF Old
<1>21. Apart(s, D)
  BY <1>1, <1>7, <1>15, <1>19, <1>20 DEF Apart, KeysOf
<1> QED
  BY <1>6, <1>8, <1>9, <1>14, <1>18, <1>21 DEF f

\* Of an end without a peer, or with one that is closing, nothing more is asked.
LEMMA AtRest ==
    ASSUME NEW e, e.state \in {"none", "closing"}, NEW oth, NEW ver, NEW D
    PROVE  Settled(e, oth, ver, D)
  BY DEF Settled, Deriving, Finishing

\* An alert is sent, after which or before which the peer is closing.
LEMMA AlertSent ==
    ASSUME NEW i, NEW oth, NEW ver, NEW D, NEW e, Base(e, i, oth, ver, D), HasPeer(e), NEW d
    PROVE  LET s == SendAlert(e, d) IN
           /\ Base(s, i, oth, ver, D) /\ Frame(e, s)
           /\ Same(e, s, {"err", "q", "state", "freed", "can", "peers"})
<1> DEFINE m == Message(d, 0)
           s == Send(e, "alert", m)
<1>1. IsEnd(e) /\ Able(e)
  BY BaseParts
<1>2. Sends(e, s, ver)
  BY <1>1, SendSends
<1>3. /\ Same(e, s, EndFields \ {"p", "q", "out"})
      /\ s.q = IF IsKept(Record(e, "alert", m)) THEN Append(e.q, Kept(e, Record(e, "alert", m))) ELSE e.q
  BY <1>1, SendFields
<1>4. ~IsKept(Record(e, "alert", m))
  BY DEF IsKept, Record
<1> HIDE DEF s, m
<1>5. Base(s, i, oth, ver, D)
  BY <1>2, KeptBase
<1>6. Frame(e, s)
  BY <1>2, FrameKept DEF Sends
<1>7. Same(e, s, {"err", "q", "state", "freed", "can", "peers"})
  BY <1>3, <1>4 DEF Same, EndFields
<1> QED
  BY <1>5, <1>6, <1>7 DEF SendAlert, s, m

\* A peer that is closing works no more.
LEMMA PeerClosing ==
    ASSUME NEW i, NEW oth, NEW ver, NEW D, NEW e, Base(e, i, oth, ver, D), HasPeer(e)
    PROVE  LET s == [e EXCEPT !.state = "closing"] IN
           /\ Base(s, i, oth, ver, D) /\ Frame(e, s) /\ s.state = "closing" /\ HasPeer(s)
           /\ Same(e, s, {"err", "q", "freed", "can", "peers"})
<1> DEFINE s == [e EXCEPT !.state = "closing"]
<1>1. "closing" \in PeerStates
  BY DEF PeerStates
<1>2. Base(s, i, oth, ver, D) /\ s.state = "closing" /\ Same(e, s, EndFields \ {"state"})
  BY <1>1, StateSet
<1> HIDE DEF s
<1>3. Frame(e, s) /\ Same(e, s, {"err", "q", "freed", "can", "peers"})
  BY <1>2 DEF Frame, Same, EndFields
<1> QED
  BY <1>2, <1>3 DEF s, HasPeer

\* dtls_alert_send_from_err, dtls_close and dtls_destroy_peer.
LEMMA AlertsFromErr ==
    ASSUME NEW i, NEW oth, NEW ver, NEW D, NEW e, Base(e, i, oth, ver, D)
    PROVE  LET s == AlertFromErr(e) IN
           /\ Base(s, i, oth, ver, D) /\ Settled(s, oth, ver, D) /\ Frame(e, s)
           /\ Same(e, s, {"err", "q", "freed"}) /\ (HasPeer(e) <=> HasPeer(s))
<1>1. CASE ~HasPeer(e)
  <2>1. AlertFromErr(e) = e /\ e.state = "none"
    BY <1>1 DEF AlertFromErr, HasPeer
  <2> QED
    BY <1>1, <2>1, AtRest DEF Frame, Same
<1>2. CASE HasPeer(e)
  <2> DEFINE c == [e EXCEPT !.state = "closing"]
             s == SendAlert(c, "error")
  <2>1. /\ Base(c, i, oth, ver, D) /\ Frame(e, c) /\ c.state = "closing" /\ HasPeer(c)
        /\ Same(e, c, {"err", "q", "freed", "can", "peers"})
    BY <1>2, PeerClosing
  <2>2. AlertFromErr(e) = s
    BY <1>2 DEF AlertFromErr
  <2> HIDE DEF c
  <2>3. /\ Base(s, i, oth, ver, D) /\ Frame(c, s)
        /\ Same(c, s, {"err", "q", "state", "freed", "can", "peers"})
    BY <2>1, AlertSent
  <2> HIDE DEF s
  <2>4. Frame(e, s)
    BY <2>1, <2>3, FrameOn
  <2>5. Same(e, s, {"err", "q", "freed"}) /\ s.state = "closing"
    BY <2>1, <2>3 DEF Same
  <2>6. Settled(s, oth, ver, D)
    BY <2>5, AtRest
  <2> QED
    BY <1>2, <2>2, <2>3, <2>4, <2>5, <2>6 DEF HasPeer
<1> QED
  BY <1>1, <1>2

\* dtls_close: the other end is told.
LEMMA PeerClosed ==
    ASSUME NEW i, NEW oth, NEW ver, NEW D, NEW e, Base(e, i, oth, ver, D), HasPeer(e)
    PROVE  LET s == Close(e) IN
           /\ Base(s, i, oth, ver, D) /\ Frame(e, s) /\ s.state = "closing" /\ HasPeer(s)
           /\ Same(e, s, {"err", "q", "freed"})
<1> DEFINE a == SendAlert(e, "close_notify")
           s == [a EXCEPT !.state = "closing"]
<1>1. /\ Base(a, i, oth, ver, D) /\ Frame(e, a)
      /\ Same(e, a, {"err", "q", "state", "freed", "can", "peers"})
  BY AlertSent
<1> HIDE DEF a
<1>2. HasPeer(a)
  BY <1>1 DEF HasPeer, Same
<1>3. /\ Base(s, i, oth, ver, D) /\ Frame(a, s) /\ s.state = "closing" /\ HasPeer(s)
      /\ Same(a, s, {"err", "q", "freed", "can", "peers"})
  BY <1>1, <1>2, PeerClosing
<1> HIDE DEF s
<1>4. Frame(e, s) /\ Same(e, s, {"err", "q", "freed"})
  BY <1>1, <1>3, FrameOn DEF Same
<1> QED
  BY <1>3, <1>4 DEF Close, a, s

-----------------------------------------------------------------------------
(* The keys.                                                               *)

\* What is sent and noted leaves the keys and the random of this end alone.
LEMMA KeptKeys ==
    ASSUME NEW i, NEW oth, NEW ver, NEW D, NEW e, NEW s, Base(e, i, oth, ver, D), Sends(e, s, ver)
    PROVE  /\ Own(s) = Own(e) /\ Used(s) = Used(e) /\ s.keys = e.keys
           /\ s.state = e.state /\ s.hs.on = e.hs.on /\ s.id = e.id
           /\ s.hs.client = e.hs.client /\ s.hs.master = e.hs.master
           /\ s.p[2] = e.p[2] /\ s.p[1].epoch = e.p[1].epoch /\ s.p[1].key = e.p[1].key
           /\ s.p[1].rseq \in Nat /\ s.p[1].rseq >= e.p[1].rseq
           /\ DerivingRight(e, ver, D) => DerivingRight(s, ver, D)
<1>1. /\ s.id = e.id /\ s.state = e.state /\ s.keys = e.keys
      /\ s.hs.on = e.hs.on /\ s.hs.client = e.hs.client /\ s.hs.master = e.hs.master
      /\ s.p[1].epoch = e.p[1].epoch /\ s.p[1].key = e.p[1].key
  BY KeptFields DEF Sends
<1>2. s.p[2] = e.p[2] /\ (e.id = 2 => s.hs.server = e.hs.server)
      /\ s.p[1].rseq \in Nat /\ s.p[1].rseq >= e.p[1].rseq
  BY DEF Sends, Keeps
<1>3. e.id \in 1 .. 2
  BY BaseParts
<1>4. Own(s) = Own(e) /\ Used(s) = Used(e)
  BY <1>1, <1>2, <1>3 DEF Own, Used
<1>5. DerivingRight(e, ver, D) => DerivingRight(s, ver, D)
  BY <1>1, <1>4 DEF DerivingRight, Apart
<1> QED
  BY <1>1, <1>2, <1>4, <1>5

\* The next context is made, with a key that holds the random at hand.
NextMade(s) ==
  /\ s.p[1].epoch \in Nat /\ s.p[2].epoch = s.p[1].epoch + 1 /\ s.p[2].key = s.hs.master
  /\ Mine(s.id, s.hs.master) = Own(s) /\ \A k \in s.keys : Mine(s.id, k) # Own(s)

\* calculate_key_block: the key holds the random of this end, and is no older one.
LEMMA KeysMade ==
    ASSUME NEW i, NEW oth, NEW ver, NEW D, NEW e, Base(e, i, oth, ver, D), HasPeer(e),
           Apart(e, D)
    PROVE  LET s == KeyBlock(e) IN
           /\ Base(s, i, oth, ver, D) /\ Same(e, s, EndFields \ {"hs", "p"})
           /\ Same(e.hs, s.hs, HsFields \ {"master"}) /\ s.p[1] = e.p[1]
           /\ NextMade(s)
<1> DEFINE s == KeyBlock(e)
           sec == [Security(e.p[1].epoch + 1) EXCEPT !.key = Master(e)]
<1>1. IsEnd(e) /\ e.id = i /\ i \in 1 .. 2
  BY BaseParts
<1>21. \A k \in Used(e) \cup KeysOf(D) : Mine(i, k) # Own(e)
  BY <1>1 DEF Apart
<1>2. DOMAIN s = EndFields /\ Same(e, s, EndFields \ {"hs", "p"})
      /\ s.hs = [e.hs EXCEPT !.master = Master(e)]
  BY <1>1 DEF KeyBlock, NextSecurity, IsEnd, EndFields, Same
<1>3. s.p = [e.p EXCEPT ![2] = sec]
  BY <1>1 DEF KeyBlock, NextSecurity, IsEnd, EndFields
<1>4. /\ DOMAIN sec = SecFields /\ sec.epoch = e.p[1].epoch + 1 /\ sec.key = Master(e)
      /\ sec.rseq = 0 /\ sec.cseq = 0
  BY DEF Security, SecFields
<1> HIDE DEF s, sec
<1>5. s.p[1] = e.p[1] /\ s.p[2] = sec /\ DOMAIN s.p = 1 .. 2
  BY <1>1, <1>3 DEF IsEnd
<1>6. s.hs.master = Master(e) /\ Same(e.hs, s.hs, HsFields \ {"master"}) /\ DOMAIN s.hs = HsFields
  BY <1>1, <1>2 DEF IsEnd, HsFields, Same
<1>7. /\ s.state = e.state /\ s.gen = e.gen /\ s.err = e.err /\ s.keys = e.keys
      /\ s.reused = e.reused /\ s.id = e.id
      /\ Same(e, s, {"id", "peers", "freed", "ctx", "role", "q", "out"})
  BY <1>2 DEF Same, EndFields
<1>8. IsEnd(s)
  BY <1>1, <1>2, <1>4, <1>5, <1>6 DEF IsEnd, IsSec
<1>9. /\ s.hs.on = e.hs.on /\ s.hs.reorder = e.hs.reorder
      /\ s.hs.client = e.hs.client /\ s.hs.server = e.hs.server
  BY <1>6 DEF Same, HsFields
<1>10. Own(s) = Own(e) /\ Fresh(s) = Fresh(e)
  BY <1>7, <1>9 DEF Own, Fresh
<1>11. Mine(i, Master(e)) = Own(e) /\ Master(e) # NoKey
  BY <1>1 DEF Mine, Own, Master, NoKey
<1>12. e.p[1].epoch \in Nat
  BY DEF Base, Contexts
<1>13. Contexts(s)
  <2>1. /\ e.p[1].epoch >= -1 /\ e.p[1].rseq \in Nat /\ e.p[1].cseq \in Nat
        /\ (e.p[1].key = NoKey <=> e.p[1].epoch <= 0)
    BY DEF Base, Contexts
  <2>2. e.p[1].epoch + 1 \in Int /\ e.p[1].epoch + 1 > 0 /\ e.p[1].epoch + 1 >= -1 /\ e.p[1].epoch # e.p[1].epoch + 1
    BY <1>12
  <2>3. \A c \in 1 .. 2 : /\ s.p[c].epoch \in Int /\ s.p[c].epoch >= -1
                          /\ s.p[c].rseq \in Nat /\ s.p[c].cseq \in Nat
                          /\ s.p[c].key = NoKey <=> s.p[c].epoch <= 0
    <3>1. sec.epoch \in Int /\ sec.epoch >= -1 /\ sec.rseq \in Nat /\ sec.cseq \in Nat /\ sec.epoch > 0 /\ sec.key # NoKey
      BY <1>4, <1>11, <2>2
    <3> QED
      BY <1>5, <1>12, <2>1, <3>1
  <2>4. s.p[1].epoch \in Nat /\ s.p[1].epoch # s.p[2].epoch
    BY <1>4, <1>5, <1>12, <2>2
  <2> QED
    BY <2>3, <2>4 DEF Contexts
<1>14. /\ e.gen \in Nat /\ e.err \in BOOLEAN /\ ~e.reused
       /\ e.state \in PeerStates \cup {"none"} /\ e.hs.on \in BOOLEAN
       /\ Own(e) \in Nat /\ Own(e) < Fresh(e) /\ \A k \in Used(e) : Old(e, k)
  BY BaseParts
<1>15. \A k \in Used(s) : k \in Used(e) \/ k = Master(e)
  BY <1>4, <1>5, <1>7 DEF Used
<1>16. \A k \in Used(s) : Old(e, k)
  BY <1>1, <1>11, <1>14, <1>15 DEF Old
<1>17. \A r \in D : \A c \in 1 .. 2 : s.p[c].epoch = r.epoch /\ s.p[c].key = r.key =>
             IsReplay(s.p[c], r.seq)
  <2>1. \A r \in D : r.key # Master(e)
    BY <1>11, <1>21 DEF KeysOf
  <2>2. \A r \in D : e.p[1].epoch = r.epoch /\ e.p[1].key = r.key => IsReplay(e.p[1], r.seq)
    BY DEF Base, Spent
  <2> QED
    BY <1>4, <1>5, <2>1, <2>2
<1>18. s.gen >= e.gen /\ s.state \in PeerStates /\ s.gen \in Nat /\ s.err \in BOOLEAN /\ ~s.reused
       /\ e.keys \subseteq s.keys /\ s.hs.on \in BOOLEAN /\ s.hs.reorder \subseteq e.hs.reorder
       /\ Own(s) \in Nat /\ Own(s) < Fresh(s)
  BY <1>7, <1>9, <1>10, <1>14 DEF HasPeer
<1>19. Base(s, i, oth, ver, D)
  BY <1>7, <1>8, <1>13, <1>16, <1>17, <1>18, BaseMoved
<1>20. \A k \in s.keys : Mine(i, k) # Own(s)
  BY <1>7, <1>10, <1>21 DEF Used
<1>22. NextMade(s)
  BY <1>1, <1>4, <1>5, <1>6, <1>7, <1>10, <1>11, <1>12, <1>20 DEF NextMade
<1> QED
  BY <1>2, <1>5, <1>6, <1>19, <1>22 DEF s

\* dtls_security_params_switch, when there is a next context.
LEMMA KeysSwitched ==
    ASSUME NEW i, NEW oth, NEW ver, NEW D, NEW e, Base(e, i, oth, ver, D), HasPeer(e),
           e.p[2].epoch \in Nat
    PROVE  LET s == Switch(e) IN
           /\ Base(s, i, oth, ver, D) /\ Same(e, s, EndFields \ {"p"})
           /\ s.p[1] = e.p[2] /\ s.p[2] = e.p[1]
<1> DEFINE s == Switch(e)
<1>1. IsEnd(e) /\ e.id = i /\ i \in 1 .. 2
  BY BaseParts
<1>2. DOMAIN s = EndFields /\ Same(e, s, EndFields \ {"p"}) /\ s.p = <<e.p[2], e.p[1]>>
  BY <1>1 DEF Switch, IsEnd, EndFields, Same
<1> HIDE DEF s
<1>3. s.p[1] = e.p[2] /\ s.p[2] = e.p[1] /\ DOMAIN s.p = 1 .. 2
  BY <1>2
<1>4. /\ s.state = e.state /\ s.gen = e.gen /\ s.err = e.err /\ s.keys = e.keys
      /\ s.reused = e.reused /\ s.id = e.id /\ s.hs = e.hs
      /\ Same(e, s, {"id", "peers", "freed", "ctx", "role", "q", "out"})
  BY <1>2 DEF Same, EndFields
<1>5. IsEnd(s)
  BY <1>1, <1>2, <1>3, <1>4 DEF IsEnd
<1>6. Own(s) = Own(e) /\ Fresh(s) = Fresh(e) /\ Used(s) = Used(e)
  BY <1>3, <1>4 DEF Own, Fresh, Used
<1>7. Contexts(s)
  <2>1. \A c \in 1 .. 2 : /\ e.p[c].epoch \in Int /\ e.p[c].epoch >= -1
                          /\ e.p[c].rseq \in Nat /\ e.p[c].cseq \in Nat
                          /\ e.p[c].key = NoKey <=> e.p[c].epoch <= 0
    BY DEF Base, Contexts
  <2>2. e.p[1].epoch # e.p[2].epoch
    BY DEF Base, Contexts
  <2>3. \A c \in 1 .. 2 : s.p[c] = e.p[1] \/ s.p[c] = e.p[2]
    BY <1>3
  <2>4. 1 \in 1 .. 2 /\ 2 \in 1 .. 2
    OBVIOUS
  <2>5. \A c \in 1 .. 2 : /\ s.p[c].epoch \in Int /\ s.p[c].epoch >= -1
                          /\ s.p[c].rseq \in Nat /\ s.p[c].cseq \in Nat
                          /\ s.p[c].key = NoKey <=> s.p[c].epoch <= 0
    BY <2>1, <2>3, <2>4
  <2> QED
    BY <1>3, <2>2, <2>5 DEF Contexts
<1>8. /\ e.gen \in Nat /\ e.err \in BOOLEAN /\ ~e.reused
      /\ e.state \in PeerStates \cup {"none"} /\ e.hs.on \in BOOLEAN
      /\ Own(e) \in Nat /\ Own(e) < Fresh(e) /\ \A k \in Used(e) : Old(e, k)
  BY BaseParts
<1>9. \A r \in D : \A c \in 1 .. 2 : s.p[c].epoch = r.epoch /\ s.p[c].key = r.key =>
             IsReplay(s.p[c], r.seq)
  BY <1>3 DEF Base, Spent
<1>10. s.gen >= e.gen /\ s.state \in PeerStates /\ s.gen \in Nat /\ s.err \in BOOLEAN /\ ~s.reused
       /\ e.keys \subseteq s.keys /\ s.hs.on \in BOOLEAN /\ s.hs.reorder \subseteq e.hs.reorder
       /\ Own(s) \in Nat /\ Own(s) < Fresh(s)
  BY <1>4, <1>6, <1>8 DEF HasPeer
<1>11. \A k \in Used(s) : Old(e, k)
  BY <1>6, <1>8
<1>12. Base(s, i, oth, ver, D)
  BY <1>4, <1>5, <1>7, <1>9, <1>10, <1>11, BaseMoved
<1> QED
  BY <1>2, <1>3, <1>12 DEF s

\* A handshake message takes a number of the current context.
LEMMA HashedCounts ==
    ASSUME NEW ver, NEW e, Able(e), NEW m
    PROVE  SendHashed(e, m).p[1].rseq > 0
<1> DEFINE c == Counted(e)
           n == Numbered(e, m)
           h == Hashed(c, n)
<1>1. Sends(e, c, ver)
  BY SmallNotes
<1> HIDE DEF c, n
<1>2. Able(c)
  BY <1>1, KeptAble DEF Sends
<1>3. Sends(c, h, ver)
  BY <1>2, SmallNotes
<1> HIDE DEF h
<1>4. Able(h)
  BY <1>2, <1>3, KeptAble DEF Sends
<1>5. Send(h, "handshake", n).p[1].rseq = h.p[1].rseq + 1
  BY <1>4, SendFields DEF Able
<1> QED
  BY <1>4, <1>5 DEF SendHashed, Able, c, n, h

\* dtls_send_finished: this end has finished with the key, for the first time.
LEMMA FinishedSent ==
    ASSUME NEW i, NEW oth, NEW ver, NEW D, NEW e, Base(e, i, oth, ver, D), HasPeer(e),
           e.hs.master \notin e.keys, Old(e, e.hs.master)
    PROVE  LET s == SendFinished(e) IN
           /\ Base(s, i, oth, ver, D) /\ Frame(e, s) /\ e.hs.master \in s.keys
           /\ s.state = e.state /\ s.hs.on = e.hs.on /\ s.hs.client = e.hs.client
           /\ s.hs.master = e.hs.master /\ Own(s) = Own(e) /\ s.p[2] = e.p[2]
           /\ s.p[1].epoch = e.p[1].epoch /\ s.p[1].key = e.p[1].key
           /\ s.p[1].rseq \in Nat /\ s.p[1].rseq > 0
<1> DEFINE k == [e EXCEPT !.keys = @ \cup {e.hs.master}, !.reused = @ \/ e.hs.master \in e.keys]
           m == [Message("Finished", 0) EXCEPT !.mac = FinishedMac(k, k.role)]
           s == SendHashed(k, m)
<1>1. IsEnd(e) /\ e.id = i /\ i \in 1 .. 2
  BY BaseParts
<1>2. /\ e.gen \in Nat /\ e.err \in BOOLEAN /\ ~e.reused
      /\ e.state \in PeerStates \cup {"none"} /\ e.hs.on \in BOOLEAN
      /\ Own(e) \in Nat /\ Own(e) < Fresh(e) /\ \A x \in Used(e) : Old(e, x)
  BY BaseParts
<1>3. /\ DOMAIN k = EndFields /\ Same(e, k, EndFields \ {"keys", "reused"})
      /\ k.keys = e.keys \cup {e.hs.master} /\ ~k.reused
  BY <1>1, <1>2 DEF IsEnd, EndFields, Same
<1>4. SendFinished(e) = s
  BY DEF SendFinished
<1>5. m.mac[3] = k.hs.master /\ m.h = "Finished" /\ DOMAIN m = {"h", "seq", "v", "cookie", "cipher", "mac"}
  BY DEF Message, FinishedMac
<1> HIDE DEF k, m
<1>6. /\ k.state = e.state /\ k.gen = e.gen /\ k.err = e.err /\ k.hs = e.hs /\ k.p = e.p /\ k.id = e.id
      /\ Same(e, k, {"id", "peers", "freed", "ctx", "role", "q", "out"})
  BY <1>3 DEF Same, EndFields
<1>7. IsEnd(k)
  BY <1>1, <1>3, <1>6 DEF IsEnd
<1>8. Own(k) = Own(e) /\ Fresh(k) = Fresh(e) /\ \A x \in Used(k) : x \in Used(e) \/ x = e.hs.master
  BY <1>3, <1>6 DEF Own, Fresh, Used
<1>9. Contexts(k)
  BY <1>6 DEF Base, Contexts, HasPeer
<1>10. \A r \in D : \A c \in 1 .. 2 : k.p[c].epoch = r.epoch /\ k.p[c].key = r.key =>
             IsReplay(k.p[c], r.seq)
  BY <1>6 DEF Base, Spent
<1>11. k.gen >= e.gen /\ k.state \in PeerStates /\ k.gen \in Nat /\ k.err \in BOOLEAN /\ ~k.reused
       /\ e.keys \subseteq k.keys /\ k.hs.on \in BOOLEAN /\ k.hs.reorder \subseteq e.hs.reorder
       /\ Own(k) \in Nat /\ Own(k) < Fresh(k)
  BY <1>2, <1>3, <1>6, <1>8 DEF HasPeer
<1>12. \A x \in Used(k) : Old(e, x)
  BY <1>2, <1>8
<1>13. Base(k, i, oth, ver, D)
  BY <1>6, <1>7, <1>9, <1>10, <1>11, <1>12, BaseMoved
<1>14. HasPeer(k) /\ Able(k)
  BY <1>6, <1>13, BaseParts DEF HasPeer
<1>15. MsgOK(m, k.id, k.keys, ver)
  <2>1. "Finished" \in Kinds(k.id)
    BY DEF Kinds
  <2>2. k.hs.master \in k.keys
    BY <1>3, <1>6
  <2> QED
    BY <1>5, <2>1, <2>2 DEF MsgOK
<1>16. Sends(k, s, ver)
  BY <1>14, <1>15, HandshakeSent
<1>17. s.p[1].rseq > 0
  BY <1>14, HashedCounts
<1> HIDE DEF s
<1>18. Base(s, i, oth, ver, D)
  BY <1>13, <1>16, KeptBase
<1>19. /\ Own(s) = Own(k) /\ s.keys = k.keys
       /\ s.state = k.state /\ s.hs.on = k.hs.on
       /\ s.hs.client = k.hs.client /\ s.hs.master = k.hs.master
       /\ s.p[2] = k.p[2] /\ s.p[1].epoch = k.p[1].epoch /\ s.p[1].key = k.p[1].key
       /\ s.p[1].rseq \in Nat
  BY <1>13, <1>16, KeptKeys
<1>20. Frame(e, s)
  <2>1. Frame(k, s)
    BY <1>16, FrameKept DEF Sends
  <2>2. Frame(e, k)
    BY <1>3 DEF Frame, Same, EndFields
  <2> QED
    BY <2>1, <2>2, FrameOn
<1> QED
  BY <1>3, <1>4, <1>6, <1>8, <1>17, <1>18, <1>19, <1>20

\* dtls_send_client_hello
LEMMA ClientHelloSent ==
    ASSUME NEW oth, NEW ver, NEW D, NEW e, Base(e, 1, oth, ver, D), HasPeer(e),
           NEW cookie \in ver \cup {0}, cookie # 0 => DerivingRight(e, ver, D)
    PROVE  LET s == SendClientHello(e, cookie) IN
           /\ Base(s, 1, oth, ver, D) /\ Frame(e, s) /\ s.state = e.state
           /\ e.hs.on => DerivingRight(s, ver, D)
<1> DEFINE own == IF cookie = 0 THEN [Drawn(e) EXCEPT !.hs.client = Fresh(e)] ELSE ClearHash(e)
           m == [Message("ClientHello", own.hs.client) EXCEPT !.cookie = cookie, !.cipher = e.can.ciphers]
           s == IF cookie = 0 THEN SendUnhashed(own, m) ELSE SendHashed(own, m)
<1>1. SendClientHello(e, cookie) = s
  BY DEF SendClientHello
<1>2. /\ m.h = "ClientHello" /\ m.v = own.hs.client /\ m.cookie = cookie
      /\ DOMAIN m = {"h", "seq", "v", "cookie", "cipher", "mac"}
  BY DEF Message
<1>3. e.id = 1 /\ Able(e)
  BY BaseParts
<1>4. /\ Base(own, 1, oth, ver, D) /\ own.state = e.state /\ Frame(e, own)
      /\ own.hs.client # 0 /\ (e.hs.on => DerivingRight(own, ver, D))
  <2>1. CASE cookie = 0
    <3>1. DrawnInto(e, 1, own)
      BY <2>1 DEF DrawnInto
    <3> HIDE DEF own
    <3>2. /\ Base(own, 1, oth, ver, D) /\ Same(e, own, EndFields \ {"gen", "hs"})
          /\ Same(e.hs, own.hs, HsFields \ {"client"})
          /\ Own(own) # 0
          /\ Apart(own, D)
      BY <3>1, RandomDrawn
    <3>3. own.state = e.state /\ own.id = e.id /\ own.hs.on = e.hs.on
      BY <3>2 DEF Same, EndFields, HsFields
    <3>4. Frame(e, own)
      BY <3>2 DEF Frame, Same, EndFields
    <3>5. own.hs.client = Own(own)
      BY <1>3, <3>3 DEF Own
    <3>6. e.hs.on => DerivingRight(own, ver, D)
      BY <1>3, <3>2, <3>3, <3>5 DEF DerivingRight
    <3> QED
      BY <3>2, <3>3, <3>4, <3>5, <3>6
  <2>2. CASE cookie # 0
    <3>1. own = ClearHash(e)
      BY <2>2
    <3> HIDE DEF own
    <3>2. Sends(e, own, ver)
      BY <1>3, <3>1, SmallNotes
    <3>3. Base(own, 1, oth, ver, D)
      BY <3>2, KeptBase
    <3>4. /\ own.state = e.state /\ own.hs.client = e.hs.client
          /\ DerivingRight(e, ver, D) => DerivingRight(own, ver, D)
      BY <3>2, KeptKeys
    <3>5. Frame(e, own)
      BY <3>2, FrameKept DEF Sends
    <3>6. e.hs.client # 0
      BY <1>3, <2>2 DEF DerivingRight
    <3> QED
      BY <2>2, <3>3, <3>4, <3>5, <3>6
  <2> QED
    BY <2>1, <2>2
<1> HIDE DEF own, m
<1>5. Able(own) /\ own.id = 1
  BY <1>4, BaseParts DEF HasPeer
<1>6. MsgOK(m, own.id, own.keys, ver)
  BY <1>2, <1>4, <1>5 DEF MsgOK, Kinds
<1>7. Sends(own, s, ver)
  BY <1>5, <1>6, HandshakeSent
<1> HIDE DEF s
<1>8. Base(s, 1, oth, ver, D)
  BY <1>4, <1>7, KeptBase
<1>9. s.state = own.state /\ (DerivingRight(own, ver, D) => DerivingRight(s, ver, D))
  BY <1>4, <1>7, KeptKeys
<1>10. Frame(own, s)
  BY <1>7, FrameKept DEF Sends
<1> QED
  BY <1>1, <1>4, <1>8, <1>9, <1>10, FrameOn

-----------------------------------------------------------------------------
(* The handlers of handle_handshake_msg.                                   *)

\* What a handler makes of an end; an end with an error is closed by the caller.
Handled(e, s, i, oth, ver, D) ==
  Base(s, i, oth, ver, D) /\ (~s.err => Settled(s, oth, ver, D)) /\ Frame(e, s)

DerivingStates(i) ==
  IF i = 1
  THEN {"clienthello", "wait_servercertificate", "wait_serverkeyexchange", "wait_serverhellodone"}
  ELSE {"wait_clientcertificate", "wait_clientkeyexchange", "wait_certificateverify",
        "wait_changecipherspec"}

\* From one state before the keys are made to the next.
LEMMA InDeriving ==
    ASSUME NEW i, NEW oth, NEW ver, NEW D, NEW e, Base(e, i, oth, ver, D), HasPeer(e),
           DerivingRight(e, ver, D), NEW st \in DerivingStates(i)
    PROVE  Handled(e, In(e, st), i, oth, ver, D)
<1>1. CASE e.err
  <2>1. In(e, st) = e
    BY <1>1 DEF In, Ok
  <2> QED
    BY <1>1, <2>1 DEF Handled, Frame, Same
<1>2. CASE ~e.err
  <2> DEFINE s == [e EXCEPT !.state = st]
  <2>1. In(e, st) = s
    BY <1>2 DEF In, Ok
  <2>2. st \in PeerStates
    BY DEF DerivingStates, PeerStates, Before
  <2>3. Base(s, i, oth, ver, D) /\ s.state = st /\ Same(e, s, EndFields \ {"state"})
    BY <2>2, StateSet
  <2> HIDE DEF s
  <2>4. s.id = e.id /\ s.hs = e.hs /\ s.keys = e.keys /\ s.p = e.p /\ Frame(e, s)
    BY <2>3 DEF Same, EndFields, Frame
  <2>5. Own(s) = Own(e) /\ Used(s) = Used(e)
    BY <2>4 DEF Own, Used
  <2>6. DerivingRight(s, ver, D)
    BY <2>4, <2>5 DEF DerivingRight, Apart
  <2>7. s.id = i
    BY <2>3, BaseParts
  <2>8. Deriving(s) /\ ~Finishing(s) /\ s.state # "connected"
    BY <2>3, <2>7 DEF Deriving, Finishing, DerivingStates
  <2>9. Settled(s, oth, ver, D)
    BY <2>6, <2>8 DEF Settled
  <2> QED
    BY <2>1, <2>3, <2>4, <2>9 DEF Handled
<1>3. e.err \in BOOLEAN
  BY BaseParts
<1> QED
  BY <1>1, <1>2, <1>3

\* As long as the keys are not made, what an end notes and sends keeps the invariant.
LEMMA WhileDeriving ==
    ASSUME NEW i, NEW oth, NEW ver, NEW D, NEW e, Base(e, i, oth, ver, D),
           Settled(e, oth, ver, D), Deriving(e),
           NEW s, Sends(e, s, ver)
    PROVE  /\ Handled(e, s, i, oth, ver, D) /\ DerivingRight(s, ver, D) /\ HasPeer(s)
           /\ \A st \in DerivingStates(i) : Handled(e, In(s, st), i, oth, ver, D)
<1>1. HasPeer(e)
  BY DEF Deriving, HasPeer
<1>2. Base(s, i, oth, ver, D) /\ Settled(s, oth, ver, D)
  BY KeptBase
<1>3. DerivingRight(e, ver, D)
  BY DEF Settled
<1>4. DerivingRight(s, ver, D) /\ s.state = e.state
  BY <1>3, KeptKeys
<1>5. Frame(e, s)
  BY FrameKept DEF Sends
<1>6. HasPeer(s)
  BY <1>1, <1>4 DEF HasPeer
<1>7. ASSUME NEW st \in DerivingStates(i) PROVE Handled(e, In(s, st), i, oth, ver, D)
  <2>1. Handled(s, In(s, st), i, oth, ver, D)
    BY <1>2, <1>4, <1>6, InDeriving
  <2> QED
    BY <1>5, <2>1, FrameOn DEF Handled
<1> QED
  BY <1>2, <1>4, <1>5, <1>6, <1>7 DEF Handled

\* A failure leaves an end as it was, but for the error.
LEMMA FailSends ==
    ASSUME NEW i, NEW oth, NEW ver, NEW D, NEW e, Base(e, i, oth, ver, D), HasPeer(e),
           NEW s, Sends(e, s, ver)
    PROVE  Sends(e, Fail(s), ver)
<1>1. Base(s, i, oth, ver, D)
  BY KeptBase
<1>2. Sends(s, Fail(s), ver)
  BY <1>1, Marks
<1>3. Able(e)
  BY BaseParts
<1> QED
  BY <1>2, <1>3, SendsOn

\* An error leaves what there was.
LEMMA Failed ==
    ASSUME NEW i, NEW oth, NEW ver, NEW D, NEW e, Base(e, i, oth, ver, D)
    PROVE  Handled(e, Fail(e), i, oth, ver, D)
<1>1. Sends(e, Fail(e), ver) /\ Fail(e).err
  BY Marks
<1>2. Base(Fail(e), i, oth, ver, D)
  BY <1>1, KeptBase
<1>3. Frame(e, Fail(e))
  BY <1>1, FrameKept DEF Sends
<1> QED
  BY <1>1, <1>2, <1>3 DEF Handled

\* The checks of what the other side says, while the keys are not made.
LEMMA ChecksSend ==
    ASSUME NEW i, NEW oth, NEW ver, NEW D, NEW e, Base(e, i, oth, ver, D), HasPeer(e), NEW m
    PROVE  /\ i = 1 => Sends(e, CheckServerHello(e, m), ver)
           /\ Sends(e, CheckServerCertificate(e, m), ver)
           /\ Sends(e, CheckServerKeyExchangeECDSA(e, m), ver)
           /\ Sends(e, CheckServerKeyExchangePSK(e, m), ver)
           /\ Sends(e, CheckCertificateRequest(e, m), ver)
           /\ Sends(e, CheckClientKeyExchange(e, m), ver)
           /\ Sends(e, CheckCertificateVerify(e, m), ver)
<1>1. Able(e) /\ e.id = i
  BY BaseParts
<1> DEFINE h == Hashed(e, m)
<1>2. Sends(e, h, ver) /\ Sends(e, e, ver)
  BY <1>1, SmallNotes
<1> HIDE DEF h
<1>3. Able(h) /\ h.id = i
  BY <1>1, <1>2, KeptAble, KeptFields DEF Sends
<1>4. i = 1 => Sends(e, CheckServerHello(e, m), ver)
  <2> SUFFICES ASSUME i = 1 PROVE Sends(e, CheckServerHello(e, m), ver)
    OBVIOUS
  <2> DEFINE a == [h EXCEPT !.hs.server = m.v]
             b == [a EXCEPT !.hs.cipher = m.cipher[1]]
  <2>1. CheckServerHello(e, m) = b \/ CheckServerHello(e, m) = Fail(b)
    BY DEF CheckServerHello, h
  <2>2. Sends(h, a, ver)
    BY <1>3, SmallNotes
  <2> HIDE DEF a
  <2>3. Able(a)
    BY <1>3, <2>2, KeptAble DEF Sends
  <2>4. Sends(a, b, ver)
    BY <2>3, SmallNotes
  <2> HIDE DEF b
  <2>5. Sends(e, a, ver)
    BY <1>1, <1>2, <2>2, SendsOn
  <2>6. Sends(e, b, ver)
    BY <1>1, <2>4, <2>5, SendsOn
  <2>7. Sends(e, Fail(b), ver)
    BY <2>6, FailSends
  <2> QED
    BY <2>1, <2>6, <2>7
<1>5. \A v : /\ Sends(h, [h EXCEPT !.hs.pub = v], ver) /\ Sends(h, [h EXCEPT !.hs.other = v], ver)
             /\ Sends(h, [h EXCEPT !.hs.auth = v], ver)
  BY <1>3, SmallNotes
<1>6. \A s : Sends(h, s, ver) => Sends(e, s, ver)
  BY <1>1, <1>2, SendsOn
<1>7. Sends(e, CheckServerCertificate(e, m), ver)
  BY <1>5, <1>6 DEF CheckServerCertificate, h
<1>8. Sends(e, CheckServerKeyExchangeECDSA(e, m), ver)
  <2> DEFINE b == [h EXCEPT !.hs.other = m.v]
  <2>1. CheckServerKeyExchangeECDSA(e, m) = b \/ CheckServerKeyExchangeECDSA(e, m) = Fail(b)
    BY DEF CheckServerKeyExchangeECDSA, h
  <2>2. Sends(e, b, ver)
    BY <1>5, <1>6
  <2> HIDE DEF b
  <2>3. Sends(e, Fail(b), ver)
    BY <2>2, FailSends
  <2> QED
    BY <2>1, <2>2, <2>3
<1>9. Sends(e, CheckServerKeyExchangePSK(e, m), ver)
  BY <1>2 DEF CheckServerKeyExchangePSK, h
<1>10. Sends(e, CheckCertificateRequest(e, m), ver)
  BY <1>5, <1>6 DEF CheckCertificateRequest, h
<1>11. Sends(e, CheckClientKeyExchange(e, m), ver)
  <2> DEFINE a == [e EXCEPT !.hs.other = m.v]
  <2>1. Sends(e, a, ver)
    BY <1>1, SmallNotes
  <2> HIDE DEF a
  <2>2. Able(a)
    BY <1>1, <2>1, KeptAble DEF Sends
  <2>3. Sends(a, Hashed(a, m), ver)
    BY <2>2, SmallNotes
  <2>4. Sends(e, Hashed(a, m), ver)
    BY <1>1, <2>1, <2>3, SendsOn
  <2> QED
    BY <2>4 DEF CheckClientKeyExchange, a
<1>12. Sends(e, CheckCertificateVerify(e, m), ver)
  <2>1. CheckCertificateVerify(e, m) = h \/ CheckCertificateVerify(e, m) = Fail(e)
    BY DEF CheckCertificateVerify, h
  <2>2. Sends(e, Fail(e), ver)
    BY <1>2, FailSends
  <2> QED
    BY <1>2, <2>1, <2>2
<1> QED
  BY <1>4, <1>7, <1>8, <1>9, <1>10, <1>11, <1>12

\* An end goes on in another state, or not when there was an error.
LEMMA InState ==
    ASSUME NEW i, NEW oth, NEW ver, NEW D, NEW e, Base(e, i, oth, ver, D), HasPeer(e),
           NEW st \in PeerStates
    PROVE  LET s == In(e, st) IN
           /\ Base(s, i, oth, ver, D) /\ Frame(e, s)
           /\ ~s.err => s.state = st /\ Same(e, s, EndFields \ {"state"})
<1>1. CASE e.err
  <2>1. In(e, st) = e
    BY <1>1 DEF In, Ok
  <2> QED
    BY <1>1, <2>1 DEF Frame, Same
<1>2. CASE ~e.err
  <2> DEFINE s == [e EXCEPT !.state = st]
  <2>1. In(e, st) = s
    BY <1>2 DEF In, Ok
  <2>2. Base(s, i, oth, ver, D) /\ s.state = st /\ Same(e, s, EndFields \ {"state"})
    BY StateSet
  <2> HIDE DEF s
  <2>3. Frame(e, s)
    BY <2>2 DEF Same, EndFields, Frame
  <2> QED
    BY <2>1, <2>2, <2>3
<1>3. e.err \in BOOLEAN
  BY BaseParts
<1> QED
  BY <1>1, <1>2, <1>3

\* check_server_hellodone: the flight of the client, which makes its keys and finishes.
LEMMA HelloDoneChecked ==
    ASSUME NEW oth, NEW ver, NEW D, NEW e, Base(e, 1, oth, ver, D), Settled(e, oth, ver, D),
           Deriving(e), NEW m
    PROVE  LET s == CheckServerHelloDone(e, m) IN
           Base(s, 1, oth, ver, D) /\ Frame(e, s) /\ HasPeer(s) /\ FinishingRight(s, ver)
<1> DEFINE h == Hashed(e, m)
           a == IF h.hs.auth THEN SendCertificate(h) ELSE h
           b == SendClientKeyExchange(a)
           c == IF b.hs.auth THEN SendCertificateVerify(b) ELSE b
           kb == KeyBlock(c)
           d == SendCcs(kb)
           w == Switch(d)
           f == SendFinished(w)
<1>1. CheckServerHelloDone(e, m) = f
  BY DEF CheckServerHelloDone
<1>2. HasPeer(e)
  BY DEF Deriving, HasPeer
<1>3. Able(e) /\ e.id = 1
  BY <1>2, BaseParts
<1>4. Sends(e, h, ver)
  BY <1>3, SmallNotes
<1> HIDE DEF h
<1>5. Able(h) /\ h.id = 1
  BY <1>3, <1>4, KeptAble, KeptFields DEF Sends
<1>6. Sends(h, a, ver)
  <2>1. Sends(h, h, ver) /\ Sends(h, SendCertificate(h), ver)
    BY <1>5, SmallNotes, FlightParts
  <2> QED
    BY <2>1
<1> HIDE DEF a
<1>7. Able(a) /\ a.id = 1
  BY <1>5, <1>6, KeptAble, KeptFields DEF Sends
<1>8. Sends(a, b, ver)
  BY <1>7, FlightParts
<1> HIDE DEF b
<1>9. Able(b) /\ b.id = 1
  BY <1>7, <1>8, KeptAble, KeptFields DEF Sends
<1>10. Sends(b, c, ver)
  <2>1. Sends(b, b, ver) /\ Sends(b, SendCertificateVerify(b), ver)
    BY <1>9, SmallNotes, FlightParts
  <2> QED
    BY <2>1
<1> HIDE DEF c
<1>11. Sends(e, a, ver)
  BY <1>3, <1>4, <1>6, SendsOn
<1>12. Sends(e, b, ver)
  BY <1>3, <1>8, <1>11, SendsOn
<1>13. Sends(e, c, ver)
  BY <1>3, <1>10, <1>12, SendsOn
<1>14. Base(c, 1, oth, ver, D) /\ Frame(e, c) /\ DerivingRight(c, ver, D) /\ HasPeer(c)
  BY <1>13, WhileDeriving DEF Handled
<1>15. c.id = 1
  BY <1>14, BaseParts
<1>16. c.hs.on /\ Apart(c, D)
  BY <1>14, <1>15 DEF DerivingRight
<1>17. /\ Base(kb, 1, oth, ver, D) /\ Same(c, kb, EndFields \ {"hs", "p"})
       /\ Same(c.hs, kb.hs, HsFields \ {"master"})
       /\ NextMade(kb)
  BY <1>14, <1>16, KeysMade
<1> HIDE DEF kb
<1>18. kb.hs.on /\ Frame(c, kb) /\ HasPeer(kb)
  <2>1. kb.hs.on = c.hs.on
    BY <1>17 DEF Same, HsFields
  <2>2. kb.state = c.state /\ Frame(c, kb)
    BY <1>17 DEF Same, EndFields, Frame
  <2> QED
    BY <1>14, <1>16, <2>1, <2>2 DEF HasPeer
<1>19. Sends(kb, d, ver)
  <2>1. Able(kb)
    BY <1>17, <1>18, BaseParts
  <2> QED
    BY <2>1, FlightParts
<1> HIDE DEF d
<1>20. Base(d, 1, oth, ver, D)
  BY <1>17, <1>19, KeptBase
<1>21. /\ Own(d) = Own(kb) /\ d.keys = kb.keys /\ d.state = kb.state /\ d.hs.on = kb.hs.on
       /\ d.hs.master = kb.hs.master /\ d.p[2] = kb.p[2]
  BY <1>17, <1>19, KeptKeys
<1>22. Frame(kb, d) /\ HasPeer(d)
  BY <1>18, <1>19, <1>21, FrameKept DEF Sends, HasPeer
<1>23. d.p[2].epoch \in Nat /\ d.p[2].epoch > 0
  BY <1>17, <1>21 DEF NextMade
<1>24. Base(w, 1, oth, ver, D) /\ Same(d, w, EndFields \ {"p"}) /\ w.p[1] = d.p[2]
  BY <1>20, <1>22, <1>23, KeysSwitched
<1> HIDE DEF w
<1>25. w.hs = d.hs /\ w.keys = d.keys /\ w.state = d.state /\ w.id = d.id /\ Frame(d, w)
  BY <1>24 DEF Same, EndFields, Frame
<1>26. Own(w) = Own(d) /\ HasPeer(w)
  BY <1>22, <1>25 DEF Own, HasPeer
<1>33. kb.id = 1
  BY <1>17, BaseParts
<1>27. w.p[1].key = w.hs.master /\ w.p[1].epoch > 0
  BY <1>17, <1>21, <1>23, <1>24, <1>25 DEF NextMade
<1>28. w.hs.master \notin w.keys
  BY <1>17, <1>21, <1>25, <1>26, <1>33 DEF NextMade
<1>29. Old(w, w.hs.master)
  <2>1. w.p[1].key # NoKey
    BY <1>24, <1>27 DEF Base, Contexts
  <2>2. w.hs.master \in Used(w)
    BY <1>27, <2>1 DEF Used
  <2> QED
    BY <1>24, <2>2, BaseParts
<1>30. /\ Base(f, 1, oth, ver, D) /\ Frame(w, f) /\ f.state = w.state /\ f.hs.on = w.hs.on
       /\ f.hs.master = w.hs.master
       /\ f.p[1].epoch = w.p[1].epoch /\ f.p[1].key = w.p[1].key /\ f.p[1].rseq > 0
  BY <1>24, <1>26, <1>28, <1>29, FinishedSent
<1> HIDE DEF f
<1>31. FinishingRight(f, ver)
  <2>1. f.id = 1
    BY <1>30, BaseParts
  <2> QED
    BY <1>18, <1>21, <1>25, <1>27, <1>30, <2>1 DEF FinishingRight
<1>32. Frame(e, f)
  <2>1. Frame(e, kb)
    BY <1>14, <1>18, FrameOn
  <2>2. Frame(e, d)
    BY <1>22, <2>1, FrameOn
  <2>3. Frame(e, w)
    BY <1>25, <2>2, FrameOn
  <2> QED
    BY <1>30, <2>3, FrameOn
<1> QED
  BY <1>1, <1>26, <1>30, <1>31, <1>32 DEF HasPeer

\* The client has sent its flight and waits for the change of ciphers.
LEMMA HelloDoneHandled ==
    ASSUME NEW oth, NEW ver, NEW D, NEW e, Base(e, 1, oth, ver, D), Settled(e, oth, ver, D),
           Deriving(e), NEW m
    PROVE  Handled(e, In(CheckServerHelloDone(e, m), "wait_changecipherspec"), 1, oth, ver, D)
<1> DEFINE f == CheckServerHelloDone(e, m)
           s == In(f, "wait_changecipherspec")
<1>1. Base(f, 1, oth, ver, D) /\ Frame(e, f) /\ HasPeer(f) /\ FinishingRight(f, ver)
  BY HelloDoneChecked
<1> HIDE DEF f
<1>2. "wait_changecipherspec" \in PeerStates
  BY DEF PeerStates, Before
<1>3. /\ Base(s, 1, oth, ver, D) /\ Frame(f, s)
      /\ ~s.err => s.state = "wait_changecipherspec" /\ Same(f, s, EndFields \ {"state"})
  BY <1>1, <1>2, InState
<1> HIDE DEF s
<1>4. ASSUME ~s.err PROVE Settled(s, oth, ver, D)
  <2>1. s.hs = f.hs /\ s.p = f.p /\ s.id = f.id
    BY <1>3, <1>4 DEF Same, EndFields
  <2>2. f.id = 1
    BY <1>1, BaseParts
  <2>3. FinishingRight(s, ver)
    BY <1>1, <2>1, <2>2 DEF FinishingRight
  <2>4. Finishing(s) /\ ~Deriving(s) /\ s.state # "connected"
    BY <1>3, <1>4, <2>1, <2>2 DEF Finishing, Deriving
  <2> QED
    BY <2>3, <2>4 DEF Settled
<1>5. Frame(e, s)
  BY <1>1, <1>3, FrameOn
<1> QED
  BY <1>3, <1>4, <1>5 DEF Handled, f, s

\* An end whose keys the other side knows is connected.
LEMMA Connects ==
    ASSUME NEW i, NEW oth, NEW ver, NEW D, NEW e, Base(e, i, oth, ver, D), HasPeer(e),
           e.p[1].key \in oth, e.p[1].epoch > 0, e.p[1].rseq > 0
    PROVE  Handled(e, In([e EXCEPT !.hs = NoHandshake], "connected"), i, oth, ver, D)
<1> DEFINE n == [e EXCEPT !.hs = NoHandshake]
           s == In(n, "connected")
<1>1. /\ DOMAIN NoHandshake = HsFields /\ NoHandshake.on = FALSE /\ NoHandshake.reorder = {}
      /\ NoHandshake.client = 0 /\ NoHandshake.server = 0
  BY DEF NoHandshake, HsFields
<1>2. Base(n, i, oth, ver, D) /\ n.hs = NoHandshake /\ Same(e, n, EndFields \ {"hs"})
  BY <1>1, HandshakeSet
<1> HIDE DEF n
<1>3. n.p = e.p /\ n.state = e.state /\ Frame(e, n)
  BY <1>2 DEF Same, EndFields, Frame
<1>4. HasPeer(n) /\ "connected" \in PeerStates
  BY <1>3 DEF HasPeer, PeerStates
<1>5. /\ Base(s, i, oth, ver, D) /\ Frame(n, s)
      /\ ~s.err => s.state = "connected" /\ Same(n, s, EndFields \ {"state"})
  BY <1>2, <1>4, InState
<1> HIDE DEF s
<1>6. ASSUME ~s.err PROVE Settled(s, oth, ver, D)
  <2>1. s.hs = NoHandshake /\ s.p = e.p
    BY <1>2, <1>3, <1>5, <1>6 DEF Same, EndFields
  <2>2. ConnectedRight(s, oth)
    BY <1>1, <2>1 DEF ConnectedRight
  <2> QED
    BY <1>5, <1>6, <2>2 DEF Settled, Deriving, Finishing
<1>7. Frame(e, s)
  BY <1>3, <1>5, FrameOn
<1> QED
  BY <1>5, <1>6, <1>7 DEF Handled, n, s

\* check_finished and the answer of the server.
LEMMA FinishedHandled ==
    ASSUME NEW i, NEW oth, NEW ver, NEW D, NEW e, Base(e, i, oth, ver, D),
           Settled(e, oth, ver, D), Finishing(e), NEW m, MsgOK(m, 3 - i, oth, ver), m.h = "Finished"
    PROVE  Handled(e, HandleFinished(e, m), i, oth, ver, D)
<1>1. HasPeer(e) /\ ~Deriving(e) /\ FinishingRight(e, ver)
  BY DEF Finishing, HasPeer, Deriving, Settled
<1>2. Able(e) /\ e.id = i /\ i \in 1 .. 2 /\ e.role = Role(i)
  BY <1>1, BaseParts
<1>3. CASE ~FinishedAgrees(e, m)
  <2>1. HandleFinished(e, m) = Fail(e)
    BY <1>3 DEF HandleFinished
  <2> QED
    BY <2>1, Failed
<1>4. ASSUME FinishedAgrees(e, m), i = 1 PROVE Handled(e, HandleFinished(e, m), i, oth, ver, D)
  <2>1. e.role # "server"
    BY <1>2, <1>4 DEF Role
  <2>2. HandleFinished(e, m) = In([e EXCEPT !.hs = NoHandshake], "connected")
    BY <1>4, <2>1 DEF HandleFinished
  <2>3. m.mac[3] = e.hs.master
    BY <1>4 DEF FinishedAgrees, FinishedMac
  <2>4. e.p[1].key \in oth /\ e.p[1].epoch > 0 /\ e.p[1].rseq > 0
    BY <1>1, <1>2, <1>4, <2>3 DEF FinishingRight, MsgOK
  <2> QED
    BY <1>1, <2>2, <2>4, Connects
<1>5. ASSUME FinishedAgrees(e, m), i = 2 PROVE Handled(e, HandleFinished(e, m), i, oth, ver, D)
  <2> DEFINE h == Hashed(e, m)
             c == SendCcs(h)
             w == Switch(c)
             f == SendFinished(w)
  <2>1. e.role = "server"
    BY <1>2, <1>5 DEF Role
  <2>2. HandleFinished(e, m) = In([f EXCEPT !.hs = NoHandshake], "connected")
    BY <1>5, <2>1 DEF HandleFinished
  <2>3. e.hs.master \in oth
    <3>1. m.mac[3] = e.hs.master
      BY <1>5 DEF FinishedAgrees, FinishedMac
    <3> QED
      BY <3>1 DEF MsgOK
  <2>4. /\ e.p[2].key = e.hs.master /\ e.p[2].epoch = e.p[1].epoch + 1
        /\ Mine(2, e.hs.master) = Own(e) /\ (\A k \in e.keys : Mine(2, k) # Own(e))
    BY <1>1, <1>2, <1>5 DEF FinishingRight
  <2>5. Sends(e, h, ver)
    BY <1>2, SmallNotes
  <2> HIDE DEF h
  <2>6. Able(h)
    BY <1>2, <2>5, KeptAble DEF Sends
  <2>7. Sends(h, c, ver)
    BY <2>6, FlightParts
  <2> HIDE DEF c
  <2>8. Sends(e, c, ver)
    BY <1>2, <2>5, <2>7, SendsOn
  <2>9. Base(c, i, oth, ver, D)
    BY <2>8, KeptBase
  <2>10. /\ Own(c) = Own(e) /\ c.keys = e.keys /\ c.state = e.state
         /\ c.hs.master = e.hs.master /\ c.p[2] = e.p[2]
    BY <2>8, KeptKeys
  <2>11. Frame(e, c) /\ HasPeer(c)
    BY <1>1, <2>8, <2>10, FrameKept DEF Sends, HasPeer
  <2>12. e.p[1].epoch \in Nat
    BY <1>1 DEF Base, Contexts
  <2>13. c.p[2].epoch \in Nat /\ c.p[2].epoch > 0
    BY <2>4, <2>10, <2>12
  <2>14. Base(w, i, oth, ver, D) /\ Same(c, w, EndFields \ {"p"}) /\ w.p[1] = c.p[2]
    <3>1. HasPeer(c) /\ c.p[2].epoch \in Nat
      BY <2>11, <2>13
    <3> QED
      BY <2>9, <3>1, KeysSwitched
  <2> HIDE DEF w
  <2>15. w.hs = c.hs /\ w.keys = c.keys /\ w.state = c.state /\ w.id = c.id /\ Frame(c, w)
    BY <2>14 DEF Same, EndFields, Frame
  <2>16. HasPeer(w)
    BY <2>11, <2>15 DEF HasPeer
  <2>17. w.p[1].key = e.hs.master /\ w.p[1].epoch > 0 /\ w.hs.master = e.hs.master
    BY <2>4, <2>10, <2>13, <2>14, <2>15
  <2>18. w.hs.master \notin w.keys
    BY <2>4, <2>10, <2>15, <2>17
  <2>19. Old(w, w.hs.master)
    <3>1. w.p[1].key # NoKey
      BY <2>14, <2>17 DEF Base, Contexts
    <3>2. w.hs.master \in Used(w)
      BY <2>17, <3>1 DEF Used
    <3> QED
      BY <2>14, <3>2, BaseParts
  <2>20. /\ Base(f, i, oth, ver, D) /\ Frame(w, f) /\ f.state = w.state
         /\ f.p[1].epoch = w.p[1].epoch /\ f.p[1].key = w.p[1].key /\ f.p[1].rseq > 0
    BY <2>14, <2>16, <2>18, <2>19, FinishedSent
  <2> HIDE DEF f
  <2>21. HasPeer(f) /\ f.p[1].key \in oth /\ f.p[1].epoch > 0
    BY <2>3, <2>16, <2>17, <2>20 DEF HasPeer
  <2>22. Handled(f, In([f EXCEPT !.hs = NoHandshake], "connected"), i, oth, ver, D)
    BY <2>20, <2>21, Connects
  <2>23. Frame(e, f)
    <3>1. Frame(e, w)
      BY <2>11, <2>15, FrameOn
    <3> QED
      BY <2>20, <3>1, FrameOn
  <2> QED
    BY <2>2, <2>22, <2>23, FrameOn DEF Handled
<1> QED
  BY <1>2, <1>3, <1>4, <1>5

\* dtls_send_server_hello_msgs
LEMMA ServerFlight ==
    ASSUME NEW oth, NEW ver, NEW D, NEW e, Base(e, 2, oth, ver, D), HasPeer(e),
           e.hs.on, e.hs.client \in ver
    PROVE  LET s == SendServerHelloMsgs(e) IN
           Base(s, 2, oth, ver, D) /\ Frame(e, s) /\ HasPeer(s) /\ DerivingRight(s, ver, D)
<1> DEFINE own == [Drawn(e) EXCEPT !.hs.server = Fresh(e)]
           m == [Message("ServerHello", own.hs.server) EXCEPT !.cipher = <<e.hs.cipher>>]
           g == SendHashed(own, m)
           a == SendCertificate(g)
           b == SendServerKeyExchangeECDH(a)
           c == SendCertificateRequest(b)
           d == SendServerKeyExchangePSK(g)
           x == IF e.hs.cipher = ECDHE THEN c ELSE d
           s == SendServerHelloDone(x)
<1>1. SendServerHelloMsgs(e) = s
  BY DEF SendServerHelloMsgs, SendServerHello
<1>2. DrawnInto(e, 2, own)
  BY DEF DrawnInto
<1>3. e.id = 2
  BY BaseParts
<1> HIDE DEF own
<1>4. /\ Base(own, 2, oth, ver, D) /\ Same(e, own, EndFields \ {"gen", "hs"})
      /\ Same(e.hs, own.hs, HsFields \ {"server"}) /\ Apart(own, D)
  <2>1. /\ Base(own, 2, oth, ver, D) /\ Same(e, own, EndFields \ {"gen", "hs"})
        /\ Same(e.hs, own.hs, HsFields \ {IF 2 = 1 THEN "client" ELSE "server"}) /\ Apart(own, D)
    BY <1>2, RandomDrawn
  <2> QED
    BY <2>1
<1>5. own.state = e.state /\ own.id = 2 /\ own.hs.on /\ own.hs.client = e.hs.client
  BY <1>3, <1>4 DEF Same, EndFields, HsFields
<1>6. Frame(e, own) /\ HasPeer(own) /\ DerivingRight(own, ver, D)
  BY <1>4, <1>5 DEF Same, EndFields, Frame, HasPeer, DerivingRight
<1>7. Able(own)
  BY <1>4, <1>6, BaseParts
<1>8. MsgOK(m, own.id, own.keys, ver)
  <2>1. "ServerHello" \in Kinds(own.id) \ {"Finished", "ClientHello"}
    BY <1>5 DEF Kinds
  <2> QED
    BY <2>1, PlainMessage
<1> HIDE DEF m
<1>9. Sends(own, g, ver)
  BY <1>7, <1>8, HandshakeSent
<1> HIDE DEF g
<1>10. Able(g) /\ g.id = 2
  BY <1>5, <1>7, <1>9, KeptAble, KeptFields DEF Sends
<1>11. Sends(g, a, ver)
  BY <1>10, FlightParts
<1> HIDE DEF a
<1>12. Able(a) /\ a.id = 2
  BY <1>10, <1>11, KeptAble, KeptFields DEF Sends
<1>13. Sends(a, b, ver)
  BY <1>12, FlightParts
<1> HIDE DEF b
<1>14. Able(b) /\ b.id = 2
  BY <1>12, <1>13, KeptAble, KeptFields DEF Sends
<1>15. Sends(b, c, ver)
  BY <1>14, FlightParts
<1>16. Sends(g, d, ver)
  BY <1>10, FlightParts
<1> HIDE DEF c, d
<1>17. Sends(g, b, ver)
  BY <1>10, <1>11, <1>13, SendsOn
<1>18. Sends(g, c, ver)
  BY <1>10, <1>15, <1>17, SendsOn
<1>19. Sends(g, x, ver)
  BY <1>16, <1>18
<1> HIDE DEF x
<1>20. Able(x) /\ x.id = 2
  BY <1>10, <1>19, KeptAble, KeptFields DEF Sends
<1>21. Sends(x, s, ver)
  BY <1>20, FlightParts
<1> HIDE DEF s
<1>22. Sends(g, s, ver)
  BY <1>10, <1>19, <1>21, SendsOn
<1>23. Sends(own, s, ver)
  BY <1>7, <1>9, <1>22, SendsOn
<1>24. Base(s, 2, oth, ver, D)
  BY <1>4, <1>23, KeptBase
<1>25. s.state = own.state /\ DerivingRight(s, ver, D)
  BY <1>4, <1>6, <1>23, KeptKeys
<1>26. Frame(e, s)
  <2>1. Frame(own, s)
    BY <1>23, FrameKept DEF Sends
  <2> QED
    BY <1>6, <2>1, FrameOn
<1> QED
  BY <1>1, <1>6, <1>24, <1>25, <1>26 DEF HasPeer

\* dtls_update_parameters notes the random of the client, which is no key of the server.
LEMMA ClientNoted ==
    ASSUME NEW oth, NEW ver, NEW D, NEW e, Base(e, 2, oth, ver, D), HasPeer(e), NEW m
    PROVE  LET s == UpdateParameters(e, m) IN
           /\ Base(s, 2, oth, ver, D) /\ Frame(e, s) /\ HasPeer(s)
           /\ ~s.err => s.hs.client = m.v /\ s.hs.on = e.hs.on
<1> DEFINE known == {i \in DOMAIN m.cipher : m.cipher[i] \in ToSet(e.can.ciphers)}
           x == m.cipher[Min(known)]
           a == Noted(e, "client", m.v)
           b == Noted(a, "cipher", x)
<1>1. IF known = {} THEN UpdateParameters(e, m) = Fail(e)
      ELSE UpdateParameters(e, m) = [e EXCEPT !.hs.client = m.v, !.hs.cipher = x]
  BY DEF UpdateParameters
<1> HIDE DEF known, x
<1>2. [e EXCEPT !.hs.client = m.v, !.hs.cipher = x] = b
  BY DEF Noted
<1>3. IsEnd(e) /\ e.id = 2 /\ Able(e)
  BY BaseParts
<1>4. /\ IsEnd(a) /\ Same(e, a, EndFields \ {"hs"})
      /\ Same(e.hs, a.hs, HsFields \ {"client"}) /\ a.hs.client = m.v
  <2> DEFINE f == "client"
             v == m.v
             n == Noted(e, f, v)
  <2> HIDE DEF f, v
  <2>2. f \in HsFields
    BY DEF HsFields, f
  <2>3. /\ IsEnd(n) /\ Same(e, n, EndFields \ {"hs"})
        /\ Same(e.hs, n.hs, HsFields \ {f}) /\ n.hs[f] = v
    <3>1. IsEnd(e)
      BY <1>3
    <3> QED
      BY <2>2, <3>1, NotedFields
  <2>1. a = n
    BY DEF f, v
  <2> HIDE DEF n, a
  <2> QED
    BY <2>1, <2>3 DEF f, v
<1> HIDE DEF a
<1>5. /\ a.state = e.state /\ a.p = e.p /\ a.gen = e.gen /\ a.err = e.err /\ a.keys = e.keys
      /\ a.reused = e.reused /\ a.id = e.id
      /\ Same(e, a, {"id", "peers", "freed", "ctx", "role", "q", "out"})
  BY <1>4 DEF Same, EndFields
<1>6. a.hs.on = e.hs.on /\ a.hs.server = e.hs.server /\ a.hs.reorder = e.hs.reorder
  BY <1>4 DEF Same, HsFields
<1>7. Own(a) = Own(e) /\ Fresh(a) = Fresh(e) /\ Used(a) = Used(e)
  BY <1>3, <1>5, <1>6 DEF Own, Fresh, Used
<1>8. Contexts(a)
  BY <1>5 DEF Base, Contexts, HasPeer
<1>9. \A r \in D : \A c \in 1 .. 2 : a.p[c].epoch = r.epoch /\ a.p[c].key = r.key =>
             IsReplay(a.p[c], r.seq)
  BY <1>5 DEF Base, Spent
<1>10. /\ e.gen \in Nat /\ e.err \in BOOLEAN /\ ~e.reused
       /\ e.state \in PeerStates \cup {"none"} /\ e.hs.on \in BOOLEAN
       /\ Own(e) \in Nat /\ Own(e) < Fresh(e) /\ \A k \in Used(e) : Old(e, k)
  BY BaseParts
<1>11. a.gen >= e.gen /\ a.state \in PeerStates /\ a.gen \in Nat /\ a.err \in BOOLEAN /\ ~a.reused
       /\ e.keys \subseteq a.keys /\ a.hs.on \in BOOLEAN /\ a.hs.reorder \subseteq e.hs.reorder
       /\ Own(a) \in Nat /\ Own(a) < Fresh(a)
  BY <1>5, <1>6, <1>7, <1>10 DEF HasPeer
<1>12. \A k \in Used(a) : Old(e, k)
  BY <1>7, <1>10
<1>13. Base(a, 2, oth, ver, D)
  BY <1>4, <1>5, <1>8, <1>9, <1>11, <1>12, BaseMoved
<1>14. HasPeer(a) /\ Frame(e, a)
  BY <1>4, <1>5 DEF HasPeer, Frame, Same, EndFields
<1>15. Able(a)
  BY <1>13, <1>14, BaseParts
<1>16. Sends(a, b, ver)
  <2>1. b = [a EXCEPT !.hs.cipher = x]
    BY DEF Noted
  <2> HIDE DEF b
  <2>2. Sends(a, [a EXCEPT !.hs.cipher = x], ver)
    BY <1>15, SmallNotes
  <2> QED
    BY <2>1, <2>2
<1> HIDE DEF b
<1>17. Base(b, 2, oth, ver, D)
  BY <1>13, <1>16, KeptBase
<1>18. b.state = a.state /\ b.hs.on = a.hs.on /\ b.hs.client = a.hs.client
  BY <1>13, <1>16, KeptKeys
<1>19. Frame(e, b)
  <2>1. Frame(a, b)
    BY <1>16, FrameKept DEF Sends
  <2> QED
    BY <1>14, <2>1, FrameOn
<1>20. /\ Base(Fail(e), 2, oth, ver, D) /\ Frame(e, Fail(e)) /\ HasPeer(Fail(e)) /\ Fail(e).err
  <2>1. Sends(e, Fail(e), ver) /\ Fail(e).err
    BY Marks
  <2>2. Fail(e).state = e.state
    BY <2>1, KeptKeys
  <2>3. Base(Fail(e), 2, oth, ver, D)
    BY <2>1, KeptBase
  <2> QED
    BY <2>1, <2>2, <2>3, FrameKept DEF Sends, HasPeer
<1>21. CASE known = {}
  <2>1. UpdateParameters(e, m) = Fail(e)
    BY <1>1, <1>21
  <2> QED
    BY <1>20, <2>1
<1>22. CASE known # {}
  <2>1. UpdateParameters(e, m) = b
    BY <1>1, <1>2, <1>22
  <2>2. b.hs.client = m.v /\ b.hs.on = e.hs.on /\ HasPeer(b)
    BY <1>4, <1>6, <1>14, <1>18 DEF HasPeer
  <2> QED
    BY <1>17, <1>19, <2>1, <2>2
<1> QED
  BY <1>21, <1>22

\* The peer for a hello that proved itself: a new one, or the one that is connected.
PeerFor(e, m, state) ==
  LET anew == ~HasPeer(e) \/ state = "wait_clienthello"
      old == [NoPeer(e) EXCEPT !.freed = @ \/ HasPeer(e)]
      peer == IF anew THEN [NewPeer(old, "server") EXCEPT !.p[1].rseq = 1] ELSE e
  IN  IF peer.hs.on THEN peer
      ELSE [peer EXCEPT !.hs = [NewHandshake EXCEPT !.mr = m.seq, !.ms = 1]]

\* A hello gets the peer that is there or a new one, with a new handshake.
LEMMA PeerFound ==
    ASSUME NEW oth, NEW ver, NEW D, NEW e, Base(e, 2, oth, ver, D), e.q = <<>>, e.ctx,
           NEW m, NEW state, state = "wait_clienthello" \/ ~HasPeer(e) \/ ~e.hs.on
    PROVE  LET s == PeerFor(e, m, state) IN
           Base(s, 2, oth, ver, D) /\ Frame(e, s) /\ HasPeer(s) /\ s.hs.on
<1> DEFINE h == [NewHandshake EXCEPT !.mr = m.seq, !.ms = 1]
           anew == ~HasPeer(e) \/ state = "wait_clienthello"
           old == [NoPeer(e) EXCEPT !.freed = @ \/ HasPeer(e)]
           new == [NewPeer(old, "server") EXCEPT !.p[1].rseq = 1]
           x == [new EXCEPT !.hs = h]
           y == [e EXCEPT !.hs = h]
<1>1. /\ DOMAIN h = HsFields /\ h.on = TRUE /\ h.reorder = {} /\ h.client = 0 /\ h.server = 0
  BY DEF NewHandshake, NoHandshake, HsFields
<1>2. IsEnd(e) /\ e.id = 2 /\ e.gen \in Nat /\ e.peers \in Nat
  BY BaseParts
<1>3. PeerFor(e, m, state) = IF anew THEN IF new.hs.on THEN new ELSE x ELSE IF e.hs.on THEN e ELSE y
  BY DEF PeerFor
<1> HIDE DEF h
<1>4. CASE anew
  <2>1. /\ DOMAIN old = EndFields /\ Same(e, old, EndFields \ {"state", "role", "hs", "p", "freed"})
        /\ old.freed = (e.freed \/ HasPeer(e))
    BY <1>2 DEF NoPeer, IsEnd, EndFields, Same
  <2> HIDE DEF old
  <2> DEFINE n == NewPeer(old, "server")
  <2>2. /\ DOMAIN n = EndFields
        /\ Same(old, n, EndFields \ {"state", "role", "hs", "p", "peers"})
        /\ n.state = "init" /\ n.role = "server" /\ n.peers = old.peers + 1
        /\ n.hs = NoHandshake /\ n.p = <<Security(0), NoSecurity>>
    BY <2>1 DEF NewPeer, EndFields, Same
  <2> HIDE DEF n
  <2>3. /\ DOMAIN new = EndFields /\ Same(n, new, EndFields \ {"p"})
        /\ new.p = [<<Security(0), NoSecurity>> EXCEPT ![1].rseq = 1] /\ new.hs = n.hs
    BY <2>2 DEF EndFields, Same, n
  <2> HIDE DEF new
  <2>4. ~new.hs.on
    BY <2>2, <2>3 DEF NoHandshake
  <2>5. /\ DOMAIN x = EndFields /\ Same(new, x, EndFields \ {"hs"}) /\ x.hs = h
    BY <2>3 DEF EndFields, Same
  <2> HIDE DEF x
  <2>6. /\ x.p[1] = [Security(0) EXCEPT !.rseq = 1] /\ x.p[2] = NoSecurity /\ DOMAIN x.p = 1 .. 2
    <3>1. x.p = new.p
      BY <2>5 DEF Same, EndFields
    <3> QED
      BY <2>3, <3>1
  <2>7. Same(e, x, {"id", "out", "keys", "reused", "gen", "err", "q", "ctx", "read", "wrote"})
    BY <2>1, <2>2, <2>3, <2>5 DEF Same, EndFields
  <2>8. x.state = "init" /\ x.role = "server" /\ x.peers = e.peers + 1 /\ x.freed = (e.freed \/ HasPeer(e))
    <3>1. x.state = n.state /\ x.role = n.role /\ x.peers = n.peers /\ x.freed = n.freed
      BY <2>3, <2>5 DEF Same, EndFields
    <3>2. n.freed = old.freed /\ old.peers = e.peers
      BY <2>1, <2>2 DEF Same, EndFields
    <3> QED
      BY <2>1, <2>2, <3>1, <3>2
  <2>9. IsSec(x.p[1]) /\ IsSec(x.p[2]) /\ x.p[1].epoch = 0 /\ x.p[2].epoch = -1
        /\ x.p[1].key = NoKey /\ x.p[2].key = NoKey /\ x.p[1].rseq = 1 /\ x.p[2].rseq = 0
        /\ x.p[1].cseq = 0 /\ x.p[2].cseq = 0
    BY <2>6 DEF Security, NoSecurity, IsSec, SecFields
  <2>10. IsEnd(x)
    BY <1>1, <2>5, <2>6, <2>9 DEF IsEnd
  <2>11. Contexts(x) /\ x.p[1].epoch <= 0 /\ x.p[2].epoch <= 0
    BY <2>9 DEF Contexts
  <2>12. HasPeer(x) /\ x.state \in PeerStates /\ x.role = Role(2)
    BY <2>8 DEF HasPeer, PeerStates, Before, Role
  <2>13. x.q = <<>> /\ x.ctx = e.ctx /\ x.id = 2 /\ x.peers \in Nat
    <3>1. x.q = e.q /\ x.ctx = e.ctx /\ x.id = e.id
      BY <2>7 DEF Same
    <3>2. x.peers \in Nat
      BY <1>2, <2>8
    <3> QED
      BY <1>2, <3>1, <3>2
  <2>14. x.ctx \in BOOLEAN /\ x.freed \in BOOLEAN
    BY <2>8, <2>13 DEF Base, Sound
  <2>15. Own(x) = 0 /\ x.hs.on /\ x.hs.on \in BOOLEAN /\ x.hs.reorder = {}
    BY <1>1, <2>5, <2>13 DEF Own
  <2>16. Same(e, x, {"id", "out", "keys", "reused", "gen", "err"}) /\ Frame(e, x)
    BY <2>7 DEF Same, Frame
  <2>17. Base(x, 2, oth, ver, D)
    <3>1. x.q = <<>> /\ x.peers \in Nat /\ x.ctx \in BOOLEAN /\ x.freed \in BOOLEAN
      BY <2>13, <2>14
    <3>2. IF HasPeer(x) THEN x.ctx /\ x.role = Role(2) ELSE x.role = "none"
      BY <2>12, <2>13
    <3>3. x.hs.on => HasPeer(x)
      BY <2>12
    <3>4. Same(e, x, {"id", "out", "keys", "reused", "gen", "err"})
      BY <2>16
    <3>5. x.hs.on \in BOOLEAN /\ x.hs.reorder = {} /\ Own(x) = 0 /\ x.state \in PeerStates \cup {"none"}
      BY <2>12, <2>15
    <3>6. 2 = 1 => ~x.freed
      OBVIOUS
    <3> QED
      BY <2>10, <2>11, <3>1, <3>2, <3>3, <3>4, <3>5, <3>6, BaseReset
  <2>18. PeerFor(e, m, state) = x
    BY <1>3, <1>4, <2>4
  <2> QED
    BY <2>12, <2>15, <2>16, <2>17, <2>18
<1>5. CASE ~anew
  <2>1. HasPeer(e) /\ ~e.hs.on
    BY <1>5
  <2>2. PeerFor(e, m, state) = y
    BY <1>3, <1>5, <2>1
  <2>3. Base(y, 2, oth, ver, D) /\ y.hs = h /\ Same(e, y, EndFields \ {"hs"})
    BY <1>1, <2>1, HandshakeSet
  <2> HIDE DEF y
  <2>4. Frame(e, y) /\ HasPeer(y)
    BY <2>1, <2>3 DEF Frame, Same, EndFields, HasPeer
  <2> QED
    BY <1>1, <2>2, <2>3, <2>4
<1> QED
  BY <1>4, <1>5

\* A hello with a cookie that came back is answered with the flight of the server.
LEMMA HelloAccepted ==
    ASSUME NEW oth, NEW ver, NEW D, NEW e, Base(e, 2, oth, ver, D), e.q = <<>>, e.ctx,
           NEW m, m.v \in ver, NEW state, state = "wait_clienthello" \/ ~HasPeer(e) \/ ~e.hs.on
    PROVE  Handled(e, AcceptHello(e, m, state), 2, oth, ver, D)
<1> DEFINE p == PeerFor(e, m, state)
           c == ClearHash(p)
           u == UpdateParameters(c, m)
           a == Hashed(u, m)
           f == SendServerHelloMsgs(a)
           st == IF u.hs.cipher = ECDHE /\ e.can.auth
                 THEN "wait_clientcertificate" ELSE "wait_clientkeyexchange"
<1>1. AcceptHello(e, m, state) = IF ~Ok(u) THEN u ELSE In(f, st)
  BY DEF AcceptHello, PeerFor
<1>2. Base(p, 2, oth, ver, D) /\ Frame(e, p) /\ HasPeer(p) /\ p.hs.on
  BY PeerFound
<1> HIDE DEF p
<1>3. Able(p)
  BY <1>2, BaseParts
<1>4. Sends(p, c, ver)
  BY <1>3, SmallNotes
<1> HIDE DEF c
<1>5. Base(c, 2, oth, ver, D)
  BY <1>2, <1>4, KeptBase
<1>6. c.state = p.state /\ c.hs.on = p.hs.on
  <2>1. Base(p, 2, oth, ver, D)
    BY <1>2
  <2> QED
    BY <1>4, <2>1, KeptKeys
<1>7. HasPeer(c) /\ c.hs.on /\ Frame(p, c)
  BY <1>2, <1>4, <1>6, FrameKept DEF HasPeer, Sends
<1>8. /\ Base(u, 2, oth, ver, D) /\ Frame(c, u) /\ HasPeer(u)
      /\ ~u.err => u.hs.client = m.v /\ u.hs.on = c.hs.on
  <2>1. HasPeer(c)
    BY <1>7
  <2> QED
    BY <1>5, <2>1, ClientNoted
<1> HIDE DEF u, st
<1>9. Frame(e, u)
  <2>1. Frame(e, c)
    BY <1>2, <1>7, FrameOn
  <2> QED
    BY <1>8, <2>1, FrameOn
<1>10. CASE u.err
  <2>1. AcceptHello(e, m, state) = u
    BY <1>1, <1>10 DEF Ok
  <2> QED
    BY <1>8, <1>9, <1>10, <2>1 DEF Handled
<1>11. CASE ~u.err
  <2>1. AcceptHello(e, m, state) = In(f, st)
    BY <1>1, <1>11 DEF Ok
  <2>2. Able(u)
    BY <1>8, BaseParts
  <2>3. Sends(u, a, ver)
    BY <2>2, SmallNotes
  <2> HIDE DEF a
  <2>4. Base(a, 2, oth, ver, D)
    BY <1>8, <2>3, KeptBase
  <2>5. a.state = u.state /\ a.hs.on = u.hs.on /\ a.hs.client = u.hs.client
    BY <1>8, <2>3, KeptKeys
  <2>6. HasPeer(a) /\ a.hs.on /\ a.hs.client \in ver /\ Frame(u, a)
    BY <1>7, <1>8, <1>11, <2>3, <2>5, FrameKept DEF HasPeer, Sends
  <2>7. Base(f, 2, oth, ver, D) /\ Frame(a, f) /\ HasPeer(f) /\ DerivingRight(f, ver, D)
    BY <2>4, <2>6, ServerFlight
  <2> HIDE DEF f
  <2>8. st \in DerivingStates(2)
    BY DEF st, DerivingStates
  <2>9. Handled(f, In(f, st), 2, oth, ver, D)
    BY <2>7, <2>8, InDeriving
  <2>10. Frame(e, f)
    <3>1. Frame(e, a)
      BY <1>9, <2>6, FrameOn
    <3> QED
      BY <2>7, <3>1, FrameOn
  <2> QED
    BY <2>1, <2>9, <2>10, FrameOn DEF Handled
<1> QED
  BY <1>10, <1>11

\* A request for a cookie is sent without a peer.
LEMMA CookieAsked ==
    ASSUME NEW oth, NEW ver, NEW D, NEW e, Base(e, 2, oth, ver, D), Settled(e, oth, ver, D),
           NEW m, NEW known \in BOOLEAN, known => HasPeer(e)
    PROVE  Handled(e, SendHelloVerifyRequest(e, m, known), 2, oth, ver, D)
<1> DEFINE n == Message("HelloVerifyRequest", m.v)
           r == [t |-> "handshake", epoch |-> 0, seq |-> 0, key |-> NoKey, m |-> n]
           a == [e EXCEPT !.out = Append(@, r)]
           s == SendHelloVerifyRequest(e, m, known)
<1>1. e.id = 2 /\ IsEnd(e) /\ e.err \in BOOLEAN /\ e.gen \in Nat /\ e.p[1].rseq \in Nat
  BY BaseParts
<1>2. ASSUME NEW keys PROVE MsgOK(n, 2, keys, ver)
  <2>1. "HelloVerifyRequest" \in Kinds(2) \ {"Finished", "ClientHello"}
    BY DEF Kinds
  <2> QED
    BY <2>1, PlainMessage
<1> HIDE DEF n
<1>3. Sends(e, s, ver)
  <2>1. CASE known
    <3>1. s = SendUnhashed(e, n)
      BY <2>1 DEF SendHelloVerifyRequest, n
    <3>2. Able(e)
      BY <2>1, BaseParts
    <3>3. MsgOK(n, e.id, e.keys, ver)
      BY <1>1, <1>2
    <3> QED
      BY <3>1, <3>2, <3>3, HandshakeSent
  <2>2. CASE ~known
    <3>1. s = a
      BY <2>2 DEF SendHelloVerifyRequest, n
    <3>2. DOMAIN a = EndFields /\ Same(e, a, EndFields \ {"out"}) /\ a.out = Append(e.out, r)
      BY <1>1 DEF IsEnd, EndFields, Same
    <3>3. RecOK(r, 2, e.keys, ver, 0)
      <4>1. /\ DOMAIN r = {"t", "epoch", "seq", "key", "m"} /\ r.t = "handshake" /\ r.seq = 0 /\ r.m = n
        OBVIOUS
      <4> HIDE DEF r
      <4> QED
        BY <1>2, <4>1 DEF RecOK
    <3> HIDE DEF a, r
    <3>4. /\ a.id = e.id /\ a.peers = e.peers /\ a.state = e.state /\ a.keys = e.keys /\ a.p = e.p
          /\ a.q = e.q /\ a.err = e.err /\ a.hs = e.hs /\ a.gen = e.gen
      BY <3>2 DEF Same, EndFields
    <3>5. Keeps(e, a)
      <4>1. Same(e, a, EndFields \ {"gen", "hs", "p", "q", "out", "err", "status"})
        BY <3>2 DEF Same
      <4>2. Same(e.hs, a.hs, {"on", "client", "master"}) /\ Same(e.p[1], a.p[1], SecFields \ {"rseq"})
        BY <3>4 DEF Same
      <4>3. IsEnd(a)
        BY <1>1, <3>2, <3>4 DEF IsEnd
      <4>4. e.gen >= e.gen /\ e.p[1].rseq >= e.p[1].rseq
        BY <1>1
      <4> QED
        BY <1>1, <3>4, <4>1, <4>2, <4>3, <4>4 DEF Keeps
    <3>6. ASSUME Traffic(e, ver) PROVE Traffic(a, ver)
      <4>1. \A x : NodeOK(x, e, ver) => NodeOK(x, a, ver)
        BY <3>4 DEF NodeOK, HasPeer
      <4>2. IsList(a.out) /\ Elems(a.out) = Elems(e.out) \cup {r}
        BY <3>2, <3>6, ListAppended DEF Traffic
      <4> QED
        BY <1>1, <3>3, <3>4, <3>6, <4>1, <4>2 DEF Traffic
    <3> QED
      BY <3>1, <3>5, <3>6 DEF Sends
  <2> QED
    BY <2>1, <2>2
<1> HIDE DEF s
<1>4. Base(s, 2, oth, ver, D) /\ Settled(s, oth, ver, D)
  BY <1>3, KeptBase
<1>5. Frame(e, s)
  BY <1>3, FrameKept DEF Sends
<1> QED
  BY <1>4, <1>5 DEF Handled, s

\* A hello is asked for a cookie or accepted.
LEMMA ClientHelloHandled ==
    ASSUME NEW oth, NEW ver, NEW D, NEW e, Base(e, 2, oth, ver, D), Settled(e, oth, ver, D),
           e.q = <<>>, e.ctx, NEW m, MsgOK(m, 1, oth, ver), m.h = "ClientHello",
           NEW state, state = "wait_clienthello" \/ (state = "connected" /\ e.state = "connected")
    PROVE  Handled(e, HandleClientHello(e, m, state), 2, oth, ver, D)
<1>1. CASE m.cookie = m.v
  <2>1. m.v \in ver
    BY <1>1 DEF MsgOK
  <2>2. state = "wait_clienthello" \/ ~HasPeer(e) \/ ~e.hs.on
    BY DEF Settled, ConnectedRight
  <2>3. Handled(e, AcceptHello(e, m, state), 2, oth, ver, D)
    BY <2>1, <2>2, HelloAccepted
  <2> QED
    BY <1>1, <2>3 DEF HandleClientHello
<1>2. CASE m.cookie # m.v
  <2>1. HandleClientHello(e, m, state) = SendHelloVerifyRequest(e, m, state = "connected")
    BY <1>2 DEF HandleClientHello
  <2>2. CASE state = "connected"
    <3>1. HandleClientHello(e, m, state) = SendHelloVerifyRequest(e, m, TRUE)
      BY <2>1, <2>2 DEF SendHelloVerifyRequest
    <3>2. HasPeer(e)
      BY <2>2 DEF HasPeer
    <3> QED
      BY <3>1, <3>2, CookieAsked
  <2>3. CASE state # "connected"
    <3>1. HandleClientHello(e, m, state) = SendHelloVerifyRequest(e, m, FALSE)
      BY <2>1, <2>3 DEF SendHelloVerifyRequest
    <3> QED
      BY <3>1, CookieAsked
  <2> QED
    BY <2>2, <2>3
<1> QED
  BY <1>1, <1>2

\* Nothing is queued without a peer.
LEMMA NothingQueued ==
    ASSUME NEW i, NEW oth, NEW ver, NEW D, NEW e, Base(e, i, oth, ver, D), ~HasPeer(e)
    PROVE  e.q = <<>>
<1>1. IsList(e.q) /\ Elems(e.q) = {}
  BY DEF Base, Traffic, NodeOK
<1>2. e.q \in Seq(Elems(e.q))
  BY <1>1 DEF IsList
<1>3. DOMAIN e.q = {}
  BY <1>1 DEF Elems
<1>4. Len(e.q) = 0
  <2>1. Len(e.q) \in Nat /\ DOMAIN e.q = 1 .. Len(e.q)
    BY <1>2, LenProperties
  <2>2. Len(e.q) # 0 => 1 \in 1 .. Len(e.q)
    BY <2>1
  <2> QED
    BY <1>3, <2>1, <2>2
<1> QED
  BY <1>2, <1>4, EmptySeq

\* The state in which a message is handled is that of the peer, or that of none.
StateFor(e, i, state) ==
  \/ HasPeer(e) /\ state = e.state
  \/ i = 2 /\ state = "wait_clienthello" /\ e.state \in {"connected", "none"}

\* The state that a message is expected in says how far the handshake is.
LEMMA ExpectedRight ==
    ASSUME NEW i \in 1 .. 2, NEW oth, NEW ver, NEW D, NEW e, e.id = i, Settled(e, oth, ver, D),
           NEW state, StateFor(e, i, state), NEW m, m.h \in Kinds(3 - i), Expected(e, m, Role(i), state)
    PROVE  /\ m.h \in {"HelloVerifyRequest", "ServerHello", "ServerKeyExchange", "CertificateRequest",
                       "ServerHelloDone"} => i = 1 /\ Deriving(e)
           /\ m.h = "Certificate" => Deriving(e)
           /\ m.h \in {"ClientKeyExchange", "CertificateVerify"} => i = 2 /\ Deriving(e)
           /\ m.h = "Finished" => Finishing(e)
           /\ m.h = "ClientHello" => i = 2 /\ (state = "wait_clienthello" \/
                                                 (state = "connected" /\ e.state = "connected"))
<1>1. CASE i = 1
  <2>1. state = e.state
    BY <1>1 DEF StateFor
  <2>2. m.h \in Kinds(2)
    BY <1>1
  <2>3. Role(i) = "client"
    BY <1>1 DEF Role
  <2> QED
    BY <1>1, <2>1, <2>2, <2>3 DEF Expected, Kinds, Deriving, Finishing
<1>2. CASE i = 2
  <2>1. state = e.state \/ state = "wait_clienthello"
    BY <1>2 DEF StateFor
  <2>2. m.h \in Kinds(1)
    BY <1>2
  <2>3. Role(i) = "server"
    BY <1>2 DEF Role
  <2> QED
    BY <1>2, <2>1, <2>2, <2>3 DEF Expected, Kinds, Deriving, Finishing
<1> QED
  BY <1>1, <1>2

\* handle_handshake_msg, when the message is expected.
LEMMA EffectHandled ==
    ASSUME NEW i, NEW oth, NEW ver, NEW D, NEW e, Base(e, i, oth, ver, D), Settled(e, oth, ver, D),
           e.q = <<>>, e.ctx, NEW m, ArrivedOK(m, i, oth, ver),
           NEW state, StateFor(e, i, state), Expected(e, m, Role(i), state)
    PROVE  Handled(e, Effect(e, m, Role(i), state), i, oth, ver, D)
<1>1. i \in 1 .. 2 /\ e.id = i
  BY BaseParts
<1>2. MsgOK(m, 3 - i, oth, ver) /\ m.h \in Kinds(3 - i)
  BY DEF ArrivedOK, MsgOK
<1>3. /\ m.h \in {"HelloVerifyRequest", "ServerHello", "ServerKeyExchange", "CertificateRequest",
                       "ServerHelloDone"} => i = 1 /\ Deriving(e)
      /\ m.h = "Certificate" => Deriving(e)
      /\ m.h \in {"ClientKeyExchange", "CertificateVerify"} => i = 2 /\ Deriving(e)
      /\ m.h = "Finished" => Finishing(e)
      /\ m.h = "ClientHello" => i = 2 /\ (state = "wait_clienthello" \/
                                            (state = "connected" /\ e.state = "connected"))
  BY <1>1, <1>2, ExpectedRight
<1>4. Deriving(e) \/ Finishing(e) => HasPeer(e)
  BY DEF Deriving, Finishing, HasPeer
<1>5. CASE m.h = "HelloVerifyRequest"
  <2>1. i = 1 /\ Deriving(e) /\ HasPeer(e)
    BY <1>3, <1>4, <1>5
  <2>2. m.v \in ver \cup {0}
    BY <1>5 DEF ArrivedOK
  <2>3. DerivingRight(e, ver, D) /\ e.hs.on
    BY <2>1 DEF Settled, DerivingRight
  <2> DEFINE s == SendClientHello(e, m.v)
  <2>4. /\ Base(s, 1, oth, ver, D) /\ Frame(e, s) /\ s.state = e.state
        /\ DerivingRight(s, ver, D)
    BY <2>1, <2>2, <2>3, ClientHelloSent
  <2>5. Effect(e, m, Role(i), state) = s
    BY <1>5 DEF Effect
  <2> HIDE DEF s
  <2>6. s.id = e.id
    BY <1>1, <2>1, <2>4, BaseParts
  <2>7. Deriving(s) /\ ~Finishing(s) /\ s.state # "connected"
    BY <1>1, <2>1, <2>4, <2>6 DEF Deriving, Finishing
  <2>8. Settled(s, oth, ver, D)
    BY <2>4, <2>7 DEF Settled
  <2> QED
    BY <2>1, <2>4, <2>5, <2>8 DEF Handled
<1>6. CASE m.h = "ServerHello"
  <2>1. i = 1 /\ Deriving(e) /\ HasPeer(e)
    BY <1>3, <1>4, <1>6
  <2>2. Sends(e, CheckServerHello(e, m), ver)
    BY <2>1, ChecksSend
  <2> DEFINE st == IF m.cipher[1] = ECDHE THEN "wait_servercertificate" ELSE "wait_serverhellodone"
  <2>3. st \in DerivingStates(i)
    BY <2>1 DEF DerivingStates
  <2>4. Effect(e, m, Role(i), state) = In(CheckServerHello(e, m), st)
    BY <1>6 DEF Effect
  <2> HIDE DEF st
  <2> QED
    BY <2>1, <2>2, <2>3, <2>4, WhileDeriving
<1>7. CASE m.h = "Certificate"
  <2>1. Deriving(e) /\ HasPeer(e)
    BY <1>3, <1>4, <1>7
  <2>2. Sends(e, CheckServerCertificate(e, m), ver)
    BY <2>1, ChecksSend
  <2> DEFINE st == IF Role(i) = "client" THEN "wait_serverkeyexchange" ELSE "wait_clientkeyexchange"
  <2>3. st \in DerivingStates(i)
    BY <1>1 DEF DerivingStates, Role
  <2>4. Effect(e, m, Role(i), state) = In(CheckServerCertificate(e, m), st)
    BY <1>7 DEF Effect
  <2> HIDE DEF st
  <2> QED
    BY <2>1, <2>2, <2>3, <2>4, WhileDeriving
<1>8. CASE m.h = "ServerKeyExchange"
  <2>1. i = 1 /\ Deriving(e) /\ HasPeer(e)
    BY <1>3, <1>4, <1>8
  <2> DEFINE c == IF e.hs.cipher = ECDHE THEN CheckServerKeyExchangeECDSA(e, m)
                  ELSE CheckServerKeyExchangePSK(e, m)
  <2>2. Sends(e, c, ver)
    BY <2>1, ChecksSend
  <2>3. "wait_serverhellodone" \in DerivingStates(i)
    BY <2>1 DEF DerivingStates
  <2>4. Effect(e, m, Role(i), state) = In(c, "wait_serverhellodone")
    BY <1>8 DEF Effect
  <2> HIDE DEF c
  <2> QED
    BY <2>1, <2>2, <2>3, <2>4, WhileDeriving
<1>9. CASE m.h = "ServerHelloDone"
  <2>1. i = 1 /\ Deriving(e)
    BY <1>3, <1>9
  <2>2. Effect(e, m, Role(i), state) = In(CheckServerHelloDone(e, m), "wait_changecipherspec")
    BY <1>9 DEF Effect
  <2> QED
    BY <2>1, <2>2, HelloDoneHandled
<1>10. CASE m.h = "CertificateRequest"
  <2>1. Deriving(e) /\ HasPeer(e)
    BY <1>3, <1>4, <1>10
  <2>2. Sends(e, CheckCertificateRequest(e, m), ver)
    BY <2>1, ChecksSend
  <2>3. Effect(e, m, Role(i), state) = CheckCertificateRequest(e, m)
    BY <1>10 DEF Effect
  <2> QED
    BY <2>1, <2>2, <2>3, WhileDeriving
<1>11. CASE m.h = "Finished"
  <2>1. Finishing(e)
    BY <1>3, <1>11
  <2>2. Effect(e, m, Role(i), state) = HandleFinished(e, m)
    BY <1>11 DEF Effect
  <2> QED
    BY <1>2, <1>11, <2>1, <2>2, FinishedHandled
<1>12. CASE m.h = "ClientKeyExchange"
  <2>1. i = 2 /\ Deriving(e) /\ HasPeer(e)
    BY <1>3, <1>4, <1>12
  <2>2. Sends(e, CheckClientKeyExchange(e, m), ver)
    BY <2>1, ChecksSend
  <2> DEFINE st == IF e.hs.cipher = ECDHE /\ e.can.auth
                   THEN "wait_certificateverify" ELSE "wait_changecipherspec"
  <2>3. st \in DerivingStates(i)
    BY <2>1 DEF DerivingStates
  <2>4. Effect(e, m, Role(i), state) = In(CheckClientKeyExchange(e, m), st)
    BY <1>12 DEF Effect
  <2> HIDE DEF st
  <2> QED
    BY <2>1, <2>2, <2>3, <2>4, WhileDeriving
<1>13. CASE m.h = "CertificateVerify"
  <2>1. i = 2 /\ Deriving(e) /\ HasPeer(e)
    BY <1>3, <1>4, <1>13
  <2>2. Sends(e, CheckCertificateVerify(e, m), ver)
    BY <2>1, ChecksSend
  <2>3. "wait_changecipherspec" \in DerivingStates(i)
    BY <2>1 DEF DerivingStates
  <2>4. Effect(e, m, Role(i), state) = In(CheckCertificateVerify(e, m), "wait_changecipherspec")
    BY <1>13 DEF Effect
  <2> QED
    BY <2>1, <2>2, <2>3, <2>4, WhileDeriving
<1>14. CASE m.h = "ClientHello"
  <2>1. i = 2 /\ (state = "wait_clienthello" \/ (state = "connected" /\ e.state = "connected"))
    BY <1>3, <1>14
  <2>2. MsgOK(m, 1, oth, ver)
    BY <1>2, <2>1
  <2>3. Effect(e, m, Role(i), state) = HandleClientHello(e, m, state)
    BY <1>14 DEF Effect
  <2>4. Handled(e, HandleClientHello(e, m, state), 2, oth, ver, D)
    BY <1>14, <2>1, <2>2, ClientHelloHandled
  <2> QED
    BY <2>1, <2>3, <2>4
<1>15. m.h \in {"HelloVerifyRequest", "ServerHello", "ServerKeyExchange", "CertificateRequest",
                "ServerHelloDone", "Certificate", "ClientKeyExchange", "CertificateVerify", "Finished",
                "ClientHello"}
  BY <1>2 DEF Kinds
<1> QED
  BY <1>5, <1>6, <1>7, <1>8, <1>9, <1>10, <1>11, <1>12, <1>13, <1>14, <1>15

\* One message, and the number of the next.
LEMMA MsgHandled ==
    ASSUME NEW i, NEW oth, NEW ver, NEW D, NEW e, Base(e, i, oth, ver, D), Settled(e, oth, ver, D),
           ~e.err, e.ctx, NEW m, ArrivedOK(m, i, oth, ver),
           NEW state, StateFor(e, i, state)
    PROVE  Handled(e, HandleMsg(e, m, Role(i), state), i, oth, ver, D)
<1> DEFINE s == IF HasPeer(e) THEN StopRetransmission(e) ELSE e
           done == IF Expected(s, m, Role(i), state) THEN Effect(s, m, Role(i), state) ELSE Fail(s)
           ignored == m.h = "HelloRequest" /\ state # "connected"
           n == [done EXCEPT !.hs.mr = @ + 1]
<1>1. HandleMsg(e, m, Role(i), state) = IF done.hs.on /\ Ok(done) /\ ~ignored THEN n ELSE done
  BY DEF HandleMsg
<1>2. /\ Base(s, i, oth, ver, D) /\ Settled(s, oth, ver, D) /\ s.q = <<>> /\ s.state = e.state
      /\ s.ctx = e.ctx /\ Frame(e, s)
  <2>1. CASE HasPeer(e)
    <3>1. s = StopRetransmission(e)
      BY <2>1
    <3> HIDE DEF s, done, n, ignored
    <3>2. Sends(e, StopRetransmission(e), ver) /\ StopRetransmission(e).q = <<>>
      <4>1. Sends(e, StopRetransmission(e), ver)
        BY Marks
      <4>2. IsEnd(e)
        BY BaseParts
      <4>3. StopRetransmission(e).q = <<>>
        BY <4>2 DEF StopRetransmission, IsEnd, EndFields
      <4> QED
        BY <4>1, <4>3
    <3>3. Sends(e, s, ver) /\ s.q = <<>>
      BY <3>1, <3>2
    <3>4. Base(s, i, oth, ver, D) /\ Settled(s, oth, ver, D)
      BY <3>3, KeptBase
    <3>5. s.state = e.state /\ s.ctx = e.ctx
      BY <3>3, KeptFields DEF Sends
    <3>6. Frame(e, s)
      BY <3>3, FrameKept DEF Sends
    <3> QED
      BY <3>3, <3>4, <3>5, <3>6
  <2>2. CASE ~HasPeer(e)
    <3>1. s = e
      BY <2>2
    <3>2. e.q = <<>>
      BY <2>2, NothingQueued
    <3> QED
      BY <3>1, <3>2 DEF Frame, Same
  <2> QED
    BY <2>1, <2>2
<1> HIDE DEF s
<1>3. StateFor(s, i, state) /\ s.ctx
  BY <1>2 DEF StateFor, HasPeer
<1>4. Handled(s, done, i, oth, ver, D)
  <2>1. CASE Expected(s, m, Role(i), state)
    <3>1. Handled(s, Effect(s, m, Role(i), state), i, oth, ver, D)
      BY <1>2, <1>3, <2>1, EffectHandled
    <3> QED
      BY <2>1, <3>1
  <2>2. CASE ~Expected(s, m, Role(i), state)
    <3>1. Handled(s, Fail(s), i, oth, ver, D)
      BY <1>2, Failed
    <3> QED
      BY <2>2, <3>1
  <2> QED
    BY <2>1, <2>2
<1> HIDE DEF done
<1>5. Handled(e, done, i, oth, ver, D)
  BY <1>2, <1>4, FrameOn DEF Handled
<1>6. CASE done.hs.on /\ Ok(done) /\ ~ignored
  <2>1. Base(done, i, oth, ver, D) /\ Settled(done, oth, ver, D) /\ Frame(e, done)
    BY <1>5, <1>6 DEF Handled, Ok
  <2>2. HasPeer(done)
    BY <1>6, <2>1 DEF Base, Sound
  <2>3. Able(done)
    BY <2>1, <2>2, BaseParts
  <2>4. Sends(done, n, ver)
    <3> DEFINE v == done.hs.mr + 1
               x == [done EXCEPT !.hs.mr = v]
    <3>1. n = x
      BY <2>3 DEF Able, IsEnd, EndFields, HsFields
    <3> HIDE DEF n, v
    <3>2. Sends(done, x, ver)
      BY <2>3, SmallNotes
    <3> QED
      BY <3>1, <3>2
  <2> HIDE DEF n
  <2>5. Base(n, i, oth, ver, D) /\ Settled(n, oth, ver, D)
    BY <2>1, <2>4, KeptBase
  <2>6. Frame(done, n)
    BY <2>4, FrameKept DEF Sends
  <2>7. HandleMsg(e, m, Role(i), state) = n
    BY <1>1, <1>6
  <2> QED
    BY <2>1, <2>5, <2>6, <2>7, FrameOn DEF Handled
<1>7. CASE ~ (done.hs.on /\ Ok(done) /\ ~ignored)
  <2>1. HandleMsg(e, m, Role(i), state) = done
    BY <1>1, <1>7
  <2> QED
    BY <1>5, <2>1
<1> QED
  BY <1>6, <1>7

\* A message that came early is taken from the queue.
LEMMA NextHandled ==
    ASSUME NEW i, NEW oth, NEW ver, NEW D, NEW e, Base(e, i, oth, ver, D), Settled(e, oth, ver, D),
           ~e.err, e.ctx, Ready(e) # {}
    PROVE  Handled(e, HandleNext(e, Role(i)), i, oth, ver, D)
<1> DEFINE n == CHOOSE n \in Ready(e) : TRUE
           s == [e EXCEPT !.hs.reorder = @ \ {n}]
<1>1. HandleNext(e, Role(i)) = HandleMsg(s, n, Role(i), e.state)
  BY DEF HandleNext
<1>2. n \in e.hs.reorder /\ e.hs.on
  <2>1. n \in Ready(e)
    OBVIOUS
  <2> HIDE DEF n
  <2> QED
    BY <2>1 DEF Ready
<1> HIDE DEF n
<1>3. HasPeer(e) /\ e.id = i
  BY <1>2 DEF Base, Sound
<1>4. ArrivedOK(n, i, oth, ver)
  BY <1>2, <1>3 DEF Base, Early
<1>5. Able(e)
  BY <1>3, BaseParts
<1>6. /\ DOMAIN s = EndFields /\ Same(e, s, EndFields \ {"hs"})
      /\ s.hs = [e.hs EXCEPT !.reorder = @ \ {n}]
  BY <1>5 DEF Able, IsEnd, EndFields, Same
<1> HIDE DEF s
<1>7. /\ s.id = e.id /\ s.peers = e.peers /\ s.state = e.state /\ s.keys = e.keys /\ s.p = e.p
      /\ s.q = e.q /\ s.out = e.out /\ s.err = e.err /\ s.gen = e.gen /\ s.ctx = e.ctx
  BY <1>6 DEF Same, EndFields
<1>8. /\ DOMAIN s.hs = HsFields /\ s.hs.reorder \subseteq e.hs.reorder
      /\ Same(e.hs, s.hs, {"on", "client", "master"}) /\ s.hs.server = e.hs.server
  BY <1>5, <1>6 DEF Able, IsEnd, HsFields, Same
<1>9. Sends(e, s, ver)
  <2>1. Same(e, s, EndFields \ {"gen", "hs", "p", "q", "out", "err", "status"})
    BY <1>6 DEF Same
  <2>2. Same(e.p[1], s.p[1], SecFields \ {"rseq"})
    BY <1>7 DEF Same
  <2>3. IsEnd(s)
    BY <1>5, <1>6, <1>7, <1>8 DEF Able, IsEnd
  <2>4. e.gen >= e.gen /\ e.p[1].rseq >= e.p[1].rseq
    BY <1>5 DEF Able
  <2>5. Keeps(e, s)
    BY <1>5, <1>7, <1>8, <2>1, <2>2, <2>3, <2>4 DEF Keeps, Able
  <2>6. \A x : NodeOK(x, e, ver) => NodeOK(x, s, ver)
    BY <1>7 DEF NodeOK, HasPeer
  <2> QED
    BY <1>7, <2>5, <2>6 DEF Sends, Traffic
<1>10. Base(s, i, oth, ver, D) /\ Settled(s, oth, ver, D)
  BY <1>9, KeptBase
<1>11. StateFor(s, i, e.state)
  BY <1>3, <1>7 DEF StateFor, HasPeer
<1>12. ~s.err /\ s.ctx
  BY <1>7
<1>13. Handled(s, HandleMsg(s, n, Role(i), e.state), i, oth, ver, D)
  BY <1>4, <1>10, <1>11, <1>12, MsgHandled
<1>14. Frame(e, s)
  BY <1>9, FrameKept DEF Sends
<1> QED
  BY <1>1, <1>13, <1>14, FrameOn DEF Handled

\* The function by which HandleInTurn is defined, and that there is one as far as any n.
Turns(f, e, m, role, state, n) ==
  f = [k \in 0 .. n |-> IF k = 0 THEN HandleMsg(e, m, role, state)
                        ELSE IF Ready(f[k - 1]) = {} THEN f[k - 1] ELSE HandleNext(f[k - 1], role)]

\* By the least number of turns for which there would be none.
LEMMA TurnsExist ==
    ASSUME NEW e, NEW m, NEW role, NEW state, NEW n \in Nat
    PROVE  \E f : Turns(f, e, m, role, state, n)
<1> DEFINE first == HandleMsg(e, m, role, state)
           Step(a) == IF Ready(a) = {} THEN a ELSE HandleNext(a, role)
           Is(f, j) == f = [k \in 0 .. j |-> IF k = 0 THEN first ELSE Step(f[k - 1])]
           Bad == {j \in Nat : ~ \E f : Is(f, j)}
<1> HIDE DEF Step, first
<1>1. Bad = {}
  <2> SUFFICES ASSUME Bad # {} PROVE FALSE
    OBVIOUS
  <2>1. PICK b \in Bad : \A j \in Bad : b <= j
    BY Least
  <2>2. CASE b = 0
    <3> DEFINE g == [k \in 0 .. 0 |-> first]
    <3>1. g = [k \in 0 .. 0 |-> IF k = 0 THEN first ELSE Step(g[k - 1])]
      OBVIOUS
    <3>2. Is(g, 0)
      BY <3>1
    <3> QED
      BY <2>1, <2>2, <3>2
  <2>3. CASE b # 0
    <3>1. b - 1 \in Nat /\ ~ (b <= b - 1)
      BY <2>3
    <3>2. PICK f : Is(f, b - 1)
      BY <2>1, <3>1
    <3> DEFINE g == [k \in 0 .. b |-> IF k = b THEN Step(f[b - 1]) ELSE f[k]]
    <3>3. \A k \in 0 .. b - 1 : f[k] = IF k = 0 THEN first ELSE Step(f[k - 1])
      BY <3>2, Zenon
    <3>4. \A k \in 0 .. b - 1 : g[k] = f[k]
      BY <3>1
    <3>5. \A k \in 0 .. b : g[k] = IF k = 0 THEN first ELSE Step(g[k - 1])
      <4> SUFFICES ASSUME NEW k \in 0 .. b PROVE g[k] = IF k = 0 THEN first ELSE Step(g[k - 1])
        OBVIOUS
      <4>1. CASE k = b
        BY <2>3, <3>1, <3>4, <4>1
      <4>2. CASE k # b
        <5>1. k \in 0 .. b - 1 /\ (k # 0 => k - 1 \in 0 .. b - 1)
          BY <3>1, <4>2
        <5> QED
          BY <3>3, <3>4, <5>1
      <4> QED
        BY <4>1, <4>2
    <3>6. Is(g, b)
      BY <3>5
    <3> QED
      BY <2>1, <3>6
  <2> QED
    BY <2>2, <2>3
<1>2. \E f : Is(f, n)
  BY <1>1
<1> QED
  BY <1>2 DEF Step, first, Turns

\* The messages whose turn has come.
LEMMA TurnsHandled ==
    ASSUME NEW i, NEW oth, NEW ver, NEW D, NEW e, Base(e, i, oth, ver, D), Settled(e, oth, ver, D),
           ~e.err, e.ctx, NEW m, ArrivedOK(m, i, oth, ver),
           NEW state, StateFor(e, i, state)
    PROVE  Handled(e, HandleInTurn(e, m, Role(i), state), i, oth, ver, D)
<1> DEFINE n == Cardinality(e.hs.reorder)
           f == CHOOSE g : Turns(g, e, m, Role(i), state, n)
           Bad == {k \in 0 .. n : ~Handled(e, f[k], i, oth, ver, D)}
<1>1. n \in Nat
  BY FS_CardinalityType DEF Base, Early
<1>2. HandleInTurn(e, m, Role(i), state) = f[n]
  BY DEF HandleInTurn, Turns
<1> HIDE DEF n
<1>3. Turns(f, e, m, Role(i), state, n)
  <2>1. \E g : Turns(g, e, m, Role(i), state, n)
    BY <1>1, TurnsExist
  <2> QED
    BY <2>1, Zenon
<1> HIDE DEF f
<1>4. \A k \in 0 .. n : f[k] = IF k = 0 THEN HandleMsg(e, m, Role(i), state)
        ELSE IF Ready(f[k - 1]) = {} THEN f[k - 1] ELSE HandleNext(f[k - 1], Role(i))
  BY <1>3, Zenon DEF Turns
<1>5. Bad = {}
  <2> SUFFICES ASSUME Bad # {} PROVE FALSE
    OBVIOUS
  <2>1. Bad \in SUBSET Nat
    BY <1>1
  <2>2. PICK b \in Bad : \A j \in Bad : b <= j
    BY <2>1, Least
  <2>3. b # 0
    <3>1. Handled(e, HandleMsg(e, m, Role(i), state), i, oth, ver, D)
      BY MsgHandled
    <3> QED
      BY <1>1, <1>4, <2>2, <3>1
  <2>4. b - 1 \in 0 .. n /\ ~ (b <= b - 1) /\ b \in 1 .. n
    BY <1>1, <2>2, <2>3
  <2> DEFINE a == f[b - 1]
  <2>5. Handled(e, a, i, oth, ver, D)
    BY <2>2, <2>4
  <2>6. f[b] = IF Ready(a) = {} THEN a ELSE HandleNext(a, Role(i))
    BY <1>4, <2>3, <2>4
  <2> HIDE DEF a
  <2>7. CASE Ready(a) = {}
    BY <2>2, <2>5, <2>6, <2>7
  <2>8. CASE Ready(a) # {}
    <3>1. ~a.err
      BY <2>8 DEF Ready, Ok
    <3>2. a.ctx
      <4>1. a.ctx = e.ctx
        BY <2>5 DEF Handled, Frame, Same
      <4> QED
        BY <4>1
    <3>3. Base(a, i, oth, ver, D) /\ Settled(a, oth, ver, D) /\ Frame(e, a)
      BY <2>5, <3>1 DEF Handled
    <3>4. Handled(a, HandleNext(a, Role(i)), i, oth, ver, D)
      BY <2>8, <3>1, <3>2, <3>3, NextHandled
    <3>5. Handled(e, HandleNext(a, Role(i)), i, oth, ver, D)
      BY <3>3, <3>4, FrameOn DEF Handled
    <3> QED
      BY <2>2, <2>6, <2>8, <3>5
  <2> QED
    BY <2>7, <2>8
<1>6. Handled(e, f[n], i, oth, ver, D)
  BY <1>1, <1>5
<1> QED
  BY <1>2, <1>6

\* A message that came early is kept.
LEMMA EarlyKept ==
    ASSUME NEW i, NEW oth, NEW ver, NEW D, NEW e, Base(e, i, oth, ver, D), Settled(e, oth, ver, D),
           e.hs.on, NEW m, ArrivedOK(m, i, oth, ver)
    PROVE  Handled(e, [e EXCEPT !.hs.reorder = @ \cup {m}], i, oth, ver, D)
<1> DEFINE v == e.hs.reorder \cup {m}
           s == [e EXCEPT !.hs.reorder = @ \cup {m}]
<1>1. HasPeer(e) /\ e.id = i /\ i \in 1 .. 2
  BY DEF Base, Sound
<1>2. Able(e)
  BY <1>1, BaseParts
<1>3. /\ DOMAIN s = EndFields /\ Same(e, s, EndFields \ {"hs"})
      /\ s.hs = [e.hs EXCEPT !.reorder = v]
  BY <1>2 DEF Able, IsEnd, EndFields, HsFields, Same
<1> HIDE DEF s, v
<1>4. /\ s.id = e.id /\ s.peers = e.peers /\ s.state = e.state /\ s.keys = e.keys /\ s.p = e.p
      /\ s.q = e.q /\ s.out = e.out /\ s.err = e.err /\ s.gen = e.gen /\ s.ctx = e.ctx
      /\ s.role = e.role /\ s.freed = e.freed /\ s.reused = e.reused
  BY <1>3 DEF Same, EndFields
<1>5. /\ DOMAIN s.hs = HsFields /\ s.hs.reorder = v /\ s.hs.on = e.hs.on
      /\ s.hs.client = e.hs.client /\ s.hs.server = e.hs.server /\ s.hs.master = e.hs.master
  BY <1>2, <1>3 DEF Able, IsEnd, HsFields
<1>6. Own(s) = Own(e) /\ Used(s) = Used(e) /\ Fresh(s) = Fresh(e) /\ Frame(e, s)
  BY <1>3, <1>4, <1>5 DEF Own, Used, Fresh, Frame, Same, EndFields
<1>7. Sound(s, i)
  <2>1. IsEnd(s)
    BY <1>2, <1>3, <1>4, <1>5 DEF Able, IsEnd
  <2> QED
    BY <1>4, <1>5, <2>1 DEF Base, Sound, HasPeer
<1>8. Contexts(s)
  BY <1>4 DEF Base, Contexts, HasPeer
<1>9. Traffic(s, ver)
  <2>1. \A x : NodeOK(x, e, ver) => NodeOK(x, s, ver)
    BY <1>4 DEF NodeOK, HasPeer
  <2> QED
    BY <1>4, <2>1 DEF Base, Traffic
<1>10. Early(s, oth, ver)
  <2>1. IsFiniteSet(v)
    BY FS_AddElement DEF Base, Early, v
  <2> QED
    BY <1>1, <1>4, <1>5, <2>1 DEF Base, Early, v
<1>11. \A k : Old(e, k) => Old(s, k)
  BY <1>4, <1>6 DEF Old
<1>12. Secrets(s)
  BY <1>4, <1>6, <1>11 DEF Base, Secrets
<1>13. Spent(s, D)
  BY <1>4, <1>11 DEF Base, Spent
<1>14. Settled(s, oth, ver, D)
  <2>1. (Deriving(s) <=> Deriving(e)) /\ (Finishing(s) <=> Finishing(e))
    BY <1>4 DEF Deriving, Finishing
  <2>2. DerivingRight(e, ver, D) => DerivingRight(s, ver, D)
    BY <1>4, <1>5, <1>6 DEF DerivingRight, Apart
  <2>3. FinishingRight(e, ver) => FinishingRight(s, ver)
    BY <1>4, <1>5, <1>6 DEF FinishingRight
  <2>4. ConnectedRight(e, oth) => ConnectedRight(s, oth)
    BY <1>4, <1>5 DEF ConnectedRight
  <2> QED
    BY <1>4, <2>1, <2>2, <2>3, <2>4 DEF Settled
<1> QED
  BY <1>6, <1>7, <1>8, <1>9, <1>10, <1>12, <1>13, <1>14 DEF Base, Handled, s

\* handle_handshake: a message is early, late, or has its turn.
LEMMA HandshakeHandled ==
    ASSUME NEW i, NEW oth, NEW ver, NEW D, NEW e, Base(e, i, oth, ver, D), Settled(e, oth, ver, D),
           ~e.err, e.ctx, NEW m, ArrivedOK(m, i, oth, ver),
           NEW state, StateFor(e, i, state)
    PROVE  Handled(e, HandleHandshake(e, m, Role(i), state), i, oth, ver, D)
<1> DEFINE s == HandleHandshake(e, m, Role(i), state)
           late == [e EXCEPT !.hs.reorder = @ \cup {m}]
<1>1. \/ s = Fail(e) \/ s = e \/ s = HandleInTurn(e, m, Role(i), state)
      \/ e.hs.on /\ s = late
  BY DEF HandleHandshake
<1> HIDE DEF s, late
<1>2. CASE s = Fail(e)
  BY <1>2, Failed DEF s
<1>3. CASE s = e
  BY <1>3 DEF Handled, Frame, Same, s
<1>4. CASE s = HandleInTurn(e, m, Role(i), state)
  BY <1>4, TurnsHandled DEF s
<1>5. CASE e.hs.on /\ s = late
  <2>1. Handled(e, late, i, oth, ver, D)
    BY <1>5, EarlyKept DEF late
  <2> QED
    BY <1>5, <2>1 DEF s
<1> QED
  BY <1>1, <1>2, <1>3, <1>4, <1>5

-----------------------------------------------------------------------------
(* The records that arrive.                                                *)

\* What a record makes of an end.
Done(e, s, i, oth, ver, D) ==
  Base(s, i, oth, ver, D) /\ Settled(s, oth, ver, D) /\ ~s.err /\ Frame(e, s)

\* A step on which the invariant does not depend.
LEMMA MarkDone ==
    ASSUME NEW i, NEW oth, NEW ver, NEW D, NEW e, NEW s, Done(e, s, i, oth, ver, D),
           NEW t, Sends(s, t, ver), t.err = s.err
    PROVE  Done(e, t, i, oth, ver, D)
<1>1. Base(s, i, oth, ver, D) /\ Settled(s, oth, ver, D) /\ ~s.err /\ Frame(e, s)
  BY DEF Done
<1>2. Base(t, i, oth, ver, D) /\ Settled(t, oth, ver, D)
  BY <1>1, KeptBase
<1>3. Frame(s, t)
  BY FrameKept DEF Sends
<1>4. Frame(e, t)
  BY <1>1, <1>3, FrameOn
<1> QED
  BY <1>1, <1>2, <1>4 DEF Done

\* dtls_stop_retransmission
LEMMA StopDone ==
    ASSUME NEW i, NEW oth, NEW ver, NEW D, NEW e, NEW s, Done(e, s, i, oth, ver, D)
    PROVE  Done(e, StopRetransmission(s), i, oth, ver, D)
<1>1. Base(s, i, oth, ver, D)
  BY DEF Done
<1>2. Sends(s, StopRetransmission(s), ver)
  BY <1>1, Marks
<1>3. StopRetransmission(s).err = s.err
  BY <1>1, BaseParts DEF StopRetransmission, IsEnd, EndFields
<1> QED
  BY <1>2, <1>3, MarkDone

\* An event that the client notes.
LEMMA ToldDone ==
    ASSUME NEW i, NEW oth, NEW ver, NEW D, NEW e, NEW s, Done(e, s, i, oth, ver, D), NEW v
    PROVE  Done(e, Told(s, v), i, oth, ver, D)
<1>1. Base(s, i, oth, ver, D)
  BY DEF Done
<1>2. Sends(s, Told(s, v), ver)
  BY <1>1, Marks
<1>3. Told(s, v).err = s.err
  BY <1>1, BaseParts DEF Told, IsEnd, EndFields
<1> QED
  BY <1>2, <1>3, MarkDone

\* The role and the state with which a record of the handshake is handled.
RoleFor(e, i, role, state) ==
  \/ HasPeer(e) /\ role = Role(i) /\ state = e.state
  \/ i = 2 /\ role = "server" /\ state = "wait_clienthello" /\ e.state \in {"connected", "none"}

\* A handshake record, with what the caller does about an error.
LEMMA HandshakeDone ==
    ASSUME NEW i, NEW oth, NEW ver, NEW D, NEW e, Base(e, i, oth, ver, D), Settled(e, oth, ver, D),
           ~e.err, e.ctx, NEW r, r.t = "handshake", ArrivedOK(r.m, i, oth, ver),
           NEW role, NEW state, RoleFor(e, i, role, state),
           NEW s \in HandshakeRecord(e, r, role, state)
    PROVE  Done(e, s, i, oth, ver, D)
<1> DEFINE epoch == e.p[1].epoch + (IF role = "server" /\ state = "wait_finished" THEN 1 ELSE 0)
           anew == r.epoch # epoch /\ NewAttempt(e, r)
           role2 == IF anew THEN "server" ELSE role
           state2 == IF anew THEN "wait_clienthello" ELSE state
           done == HandleHandshake(e, r.m, role2, state2)
           clean == [done EXCEPT !.err = FALSE]
           connected == Told(StopRetransmission(done), "connected")
<1>1. \/ s = e \/ (~Ok(done) /\ s = AlertFromErr(clean))
      \/ (Ok(done) /\ (s = done \/ s = connected))
  BY DEF HandshakeRecord
<1>2. i \in 1 .. 2
  BY BaseParts
<1> HIDE DEF epoch
<1>3. role2 = Role(i) /\ StateFor(e, i, state2)
  <2>1. CASE anew
    <3>1. e.state = "connected" /\ r.m.h \in {"ClientHello", "HelloRequest"}
      BY <2>1 DEF NewAttempt
    <3>2. r.m.h \in Kinds(3 - i)
      BY DEF ArrivedOK, MsgOK
    <3>3. i = 2
      <4>1. CASE i = 1
        <5>1. r.m.h \in Kinds(2)
          BY <3>2, <4>1
        <5> QED
          BY <3>1, <5>1 DEF Kinds
      <4> QED
        BY <1>2, <4>1
    <3> QED
      BY <2>1, <3>1, <3>3 DEF Role, StateFor
  <2>2. CASE ~anew
    BY <2>2 DEF RoleFor, StateFor, Role
  <2> QED
    BY <2>1, <2>2
<1> HIDE DEF anew, role2, state2
<1>4. Handled(e, done, i, oth, ver, D)
  BY <1>3, HandshakeHandled
<1> HIDE DEF done
<1>5. CASE s = e
  BY <1>5 DEF Done, Frame, Same
<1>6. CASE Ok(done) /\ (s = done \/ s = connected)
  <2>1. Done(e, done, i, oth, ver, D)
    BY <1>4, <1>6 DEF Handled, Done, Ok
  <2>2. Done(e, StopRetransmission(done), i, oth, ver, D)
    BY <2>1, StopDone
  <2>3. Done(e, connected, i, oth, ver, D)
    BY <2>2, ToldDone
  <2> QED
    BY <1>6, <2>1, <2>3
<1>7. CASE s = AlertFromErr(clean)
  <2>1. Base(done, i, oth, ver, D) /\ Frame(e, done)
    BY <1>4 DEF Handled
  <2>2. Sends(done, clean, ver)
    BY <2>1, Marks
  <2>3. clean.err = FALSE
    BY <2>1, BaseParts DEF IsEnd, EndFields
  <2> HIDE DEF clean
  <2>4. Base(clean, i, oth, ver, D)
    BY <2>1, <2>2, KeptBase
  <2>5. Frame(e, clean)
    <3>1. Frame(done, clean)
      BY <2>2, FrameKept DEF Sends
    <3> QED
      BY <2>1, <3>1, FrameOn
  <2> DEFINE a == AlertFromErr(clean)
  <2>6. /\ Base(a, i, oth, ver, D) /\ Settled(a, oth, ver, D) /\ Frame(clean, a)
        /\ Same(clean, a, {"err", "q", "freed"})
    BY <2>4, AlertsFromErr
  <2> HIDE DEF a
  <2>7. a.err = clean.err
    BY <2>6 DEF Same
  <2>8. Frame(e, a)
    BY <2>5, <2>6, FrameOn
  <2>9. Done(e, a, i, oth, ver, D)
    BY <2>3, <2>6, <2>7, <2>8 DEF Done
  <2> QED
    BY <1>7, <2>9 DEF a
<1> QED
  BY <1>1, <1>5, <1>6, <1>7

\* handle_ccs
LEMMA CcsDone ==
    ASSUME NEW i, NEW oth, NEW ver, NEW D, NEW e, Base(e, i, oth, ver, D), Settled(e, oth, ver, D),
           ~e.err
    PROVE  Done(e, HandleCcs(e), i, oth, ver, D)
<1> DEFINE kb == IF e.role = "server" THEN KeyBlock(e) ELSE e
           s == In(kb, "wait_finished")
<1>1. CASE e.state # "wait_changecipherspec"
  <2>1. HandleCcs(e) = e
    BY <1>1 DEF HandleCcs
  <2> QED
    BY <2>1 DEF Done, Frame, Same
<1>2. CASE e.state = "wait_changecipherspec"
  <2>1. HandleCcs(e) = s
    BY <1>2 DEF HandleCcs
  <2>2. HasPeer(e)
    BY <1>2 DEF HasPeer
  <2>3. e.id = i /\ i \in 1 .. 2 /\ e.role = Role(i)
    BY <2>2, BaseParts
  <2>4. "wait_finished" \in PeerStates
    BY DEF PeerStates, Before
  <2>5. /\ Base(kb, i, oth, ver, D) /\ HasPeer(kb) /\ Frame(e, kb) /\ kb.err = e.err
        /\ FinishingRight(kb, ver)
    <3>1. CASE i = 1
      <4>1. kb = e
        BY <2>3, <3>1 DEF Role
      <4>2. Finishing(e)
        BY <1>2, <2>3, <3>1 DEF Finishing
      <4> QED
        BY <2>2, <4>1, <4>2 DEF Settled, Frame, Same
    <3>2. CASE i = 2
      <4>1. kb = KeyBlock(e)
        BY <2>3, <3>2 DEF Role
      <4>2. Deriving(e)
        BY <1>2, <2>3, <3>2 DEF Deriving
      <4>3. e.hs.on /\ Apart(e, D) /\ e.hs.client \in ver
        BY <2>3, <3>2, <4>2 DEF Settled, DerivingRight
      <4> DEFINE x == KeyBlock(e)
      <4>4. /\ Base(x, i, oth, ver, D) /\ Same(e, x, EndFields \ {"hs", "p"})
            /\ Same(e.hs, x.hs, HsFields \ {"master"}) /\ NextMade(x)
        BY <2>2, <4>3, KeysMade
      <4> HIDE DEF x
      <4>5. x.state = e.state /\ x.err = e.err /\ Frame(e, x) /\ x.id = 2
        BY <2>3, <3>2, <4>4 DEF Same, EndFields, Frame
      <4>6. x.hs.on = e.hs.on /\ x.hs.client = e.hs.client
        BY <4>4 DEF Same, HsFields
      <4>7. FinishingRight(x, ver)
        BY <4>3, <4>4, <4>5, <4>6 DEF FinishingRight, NextMade
      <4>8. HasPeer(x)
        BY <2>2, <4>5 DEF HasPeer
      <4> QED
        BY <4>1, <4>4, <4>5, <4>7, <4>8 DEF x
    <3> QED
      BY <2>3, <3>1, <3>2
  <2> HIDE DEF kb
  <2>6. ~kb.err
    BY <2>5
  <2> DEFINE t == [kb EXCEPT !.state = "wait_finished"]
  <2>7. s = t
    BY <2>6 DEF In, Ok
  <2> HIDE DEF s
  <2>8. Base(t, i, oth, ver, D) /\ t.state = "wait_finished" /\ Same(kb, t, EndFields \ {"state"})
    BY <2>4, <2>5, StateSet
  <2> HIDE DEF t
  <2>9. t.hs = kb.hs /\ t.p = kb.p /\ t.id = kb.id /\ t.keys = kb.keys /\ t.err = kb.err /\ Frame(kb, t)
    BY <2>8 DEF Same, EndFields, Frame
  <2>10. Own(t) = Own(kb)
    BY <2>9 DEF Own
  <2>11. FinishingRight(t, ver)
    BY <2>5, <2>9, <2>10 DEF FinishingRight
  <2>12. t.id = i
    BY <2>8, BaseParts
  <2>13. Finishing(t) /\ ~Deriving(t) /\ t.state # "connected"
    BY <2>3, <2>8, <2>12 DEF Finishing, Deriving
  <2>14. Settled(t, oth, ver, D)
    BY <2>11, <2>13 DEF Settled
  <2>15. Frame(e, t)
    BY <2>5, <2>9, FrameOn
  <2> QED
    BY <2>1, <2>6, <2>7, <2>8, <2>9, <2>14, <2>15 DEF Done
<1> QED
  BY <1>1, <1>2

\* handle_alert
LEMMA AlertDone ==
    ASSUME NEW i, NEW oth, NEW ver, NEW D, NEW e, Base(e, i, oth, ver, D), HasPeer(e),
           e.q = <<>>, ~e.err, NEW m
    PROVE  Done(e, HandleAlert(e, m), i, oth, ver, D)
<1> DEFINE c == [e EXCEPT !.state = "closing"]
           a == IF m.h = "close_notify" /\ e.state # "closing" THEN SendAlert(c, m.h) ELSE e
           t == Told(a, m.h)
           q == StopRetransmission(t)
<1>1. HandleAlert(e, m) = NoPeer(q)
  BY DEF HandleAlert
<1>2. /\ Base(c, i, oth, ver, D) /\ Frame(e, c) /\ HasPeer(c)
      /\ Same(e, c, {"err", "q", "freed", "can", "peers"})
  BY PeerClosing
<1> HIDE DEF c
<1> DEFINE d == SendAlert(c, m.h)
<1>3. Base(d, i, oth, ver, D) /\ Frame(c, d) /\ Same(c, d, {"err", "q", "state", "freed", "can", "peers"})
  BY <1>2, AlertSent
<1>4. a = d \/ a = e
  OBVIOUS
<1> HIDE DEF d, a
<1>5. Base(a, i, oth, ver, D) /\ Frame(e, a) /\ ~a.err
  <2>1. CASE a = e
    BY <2>1 DEF Frame, Same
  <2>2. CASE a = d
    <3>1. d.err = c.err /\ c.err = e.err
      BY <1>2, <1>3 DEF Same
    <3>2. Frame(e, d)
      BY <1>2, <1>3, FrameOn
    <3> QED
      BY <1>3, <2>2, <3>1, <3>2
  <2> QED
    BY <1>4, <2>1, <2>2
<1>6. Base(t, i, oth, ver, D) /\ Frame(a, t) /\ ~t.err
  <2>1. Sends(a, Told(a, m.h), ver) /\ Told(a, m.h).err = a.err
    <3>1. Base(a, i, oth, ver, D)
      BY <1>5
    <3>2. \A v : Sends(a, Told(a, v), ver)
      BY <3>1, Marks
    <3>3. IsEnd(a)
      BY <3>1, BaseParts
    <3> QED
      BY <3>2, <3>3 DEF Told, IsEnd, EndFields
  <2>2. Base(Told(a, m.h), i, oth, ver, D)
    BY <1>5, <2>1, KeptBase
  <2>3. Frame(a, Told(a, m.h))
    BY <2>1, FrameKept DEF Sends
  <2> QED
    BY <1>5, <2>1, <2>2, <2>3
<1> HIDE DEF t
<1>7. Base(q, i, oth, ver, D) /\ Frame(t, q) /\ ~q.err /\ q.q = <<>>
  <2>1. Sends(t, StopRetransmission(t), ver)
    BY <1>6, Marks
  <2>2. Base(StopRetransmission(t), i, oth, ver, D)
    BY <1>6, <2>1, KeptBase
  <2>3. Frame(t, StopRetransmission(t))
    BY <2>1, FrameKept DEF Sends
  <2>4. StopRetransmission(t).err = t.err /\ StopRetransmission(t).q = <<>>
    <3>1. IsEnd(t)
      BY <1>6, BaseParts
    <3> QED
      BY <3>1 DEF StopRetransmission, IsEnd, EndFields
  <2> QED
    BY <1>6, <2>2, <2>3, <2>4
<1> HIDE DEF q
<1> DEFINE n == NoPeer(q)
<1>8. /\ Base(n, i, oth, ver, D) /\ Settled(n, oth, ver, D) /\ Frame(q, n)
      /\ Same(q, n, {"err", "out", "q", "freed", "peers", "can"})
  BY <1>7, PeerGone
<1> HIDE DEF n
<1>9. Frame(e, q)
  BY <1>5, <1>6, <1>7, FrameOn
<1>10. Frame(e, n)
  BY <1>8, <1>9, FrameOn
<1>11. ~n.err
  BY <1>7, <1>8 DEF Same
<1> QED
  BY <1>1, <1>8, <1>10, <1>11 DEF Done, n

\* A record that could not be opened.
LEMMA RefuseDone ==
    ASSUME NEW i, NEW oth, NEW ver, NEW D, NEW e, Base(e, i, oth, ver, D), Settled(e, oth, ver, D), ~e.err
    PROVE  Done(e, Refuse(e), i, oth, ver, D)
<1> DEFINE a == AlertFromErr(e)
           c == [a EXCEPT !.state = "closed"]
           q == StopRetransmission(c)
           n == NoPeer(q)
<1>1. CASE e.state \notin Before
  BY <1>1 DEF Refuse, Done, Frame, Same
<1>2. CASE e.state \in Before
  <2>1. HasPeer(e) /\ Refuse(e) = n
    BY <1>2 DEF HasPeer, Before, Refuse
  <2>2. /\ Base(a, i, oth, ver, D) /\ Frame(e, a)
        /\ Same(e, a, {"err", "q", "freed"}) /\ (HasPeer(e) <=> HasPeer(a))
    BY AlertsFromErr
  <2> HIDE DEF a
  <2>3. Base(c, i, oth, ver, D) /\ Same(a, c, EndFields \ {"state"})
    <3>1. "closed" \in PeerStates
      BY DEF PeerStates
    <3>2. HasPeer(a)
      BY <2>1, <2>2
    <3>3. Base(a, i, oth, ver, D)
      BY <2>2
    <3> QED
      BY <3>1, <3>2, <3>3, StateSet
  <2> HIDE DEF c
  <2>4. Frame(a, c) /\ c.err = a.err
    BY <2>3 DEF Frame, Same, EndFields
  <2>5. Base(q, i, oth, ver, D) /\ Frame(c, q) /\ q.err = c.err /\ q.q = <<>>
    <3>1. Sends(c, StopRetransmission(c), ver)
      BY <2>3, Marks
    <3>2. Base(StopRetransmission(c), i, oth, ver, D)
      BY <2>3, <3>1, KeptBase
    <3>3. Frame(c, StopRetransmission(c))
      BY <3>1, FrameKept DEF Sends
    <3>4. IsEnd(c)
      BY <2>3, BaseParts
    <3>5. StopRetransmission(c).err = c.err /\ StopRetransmission(c).q = <<>>
      BY <3>4 DEF StopRetransmission, IsEnd, EndFields
    <3> QED
      BY <3>2, <3>3, <3>5
  <2> HIDE DEF q
  <2>6. /\ Base(n, i, oth, ver, D) /\ Settled(n, oth, ver, D) /\ Frame(q, n)
        /\ Same(q, n, {"err", "out", "q", "freed", "peers", "can"})
    BY <2>5, PeerGone
  <2> HIDE DEF n
  <2>7. Frame(e, c)
    BY <2>2, <2>4, FrameOn
  <2>8. Frame(e, q)
    BY <2>5, <2>7, FrameOn
  <2>9. Frame(e, n)
    BY <2>6, <2>8, FrameOn
  <2>10. ~n.err
    BY <2>2, <2>4, <2>5, <2>6 DEF Same
  <2> QED
    BY <2>1, <2>6, <2>9, <2>10 DEF Done
<1> QED
  BY <1>1, <1>2

\* The replay window of a context forgets nothing, and learns what it is shown.
LEMMA StillReplay ==
    ASSUME NEW s, IsSec(s), s.cseq \in Nat, NEW k \in Nat, NEW n, n \in Nat, IsReplay(s, n)
    PROVE  IsReplay(Seen(s, k), n)
  BY DEF IsSec, SecFields, IsReplay, Seen

\* A number that was seen is refused.
LEMMA NowReplay ==
    ASSUME NEW s, IsSec(s), s.cseq \in Nat, NEW k \in Nat, k > 0
    PROVE  IsReplay(Seen(s, k), k)
  BY DEF IsSec, SecFields, IsReplay, Seen

\* Of a context, only the window moves.
LEMMA SeenFields ==
    ASSUME NEW s, IsSec(s), s.cseq \in Nat, NEW k \in Nat
    PROVE  LET t == Seen(s, k) IN
           IsSec(t) /\ t.epoch = s.epoch /\ t.key = s.key /\ t.rseq = s.rseq /\ t.cseq \in Nat
  BY DEF IsSec, SecFields, Seen

\* A least number of the two contexts is one of them.
LEMMA MinIn ==
    ASSUME NEW S, S \subseteq 1 .. 2, S # {}
    PROVE  Min(S) \in S
<1>1. S \in SUBSET Nat
  OBVIOUS
<1>2. \E m \in S : \A n \in S : m <= n
  BY <1>1, Least
<1> QED
  BY <1>2, Zenon DEF Min

\* What opening record r in context c leaves of context k: it may have seen the record.
After(e, c, r, k) == IF k = c THEN Seen(e.p[k], r.seq) ELSE e.p[k]
Freed(e, o, k) == k = 2 /\ o.p[k] = NoSecurity /\ ~ (e.p[1].epoch < e.p[2].epoch)

\* Opening a record moves at most the window of its context.
LEMMA AfterFields ==
    ASSUME NEW e, IsEnd(e), NEW c, NEW r, r.seq \in Nat, NEW k \in 1 .. 2, e.p[k].cseq \in Nat
    PROVE  LET a == After(e, c, r, k) IN
           IsSec(a) /\ a.epoch = e.p[k].epoch /\ a.key = e.p[k].key /\ a.rseq = e.p[k].rseq /\ a.cseq \in Nat
<1>1. IsSec(e.p[k])
  BY DEF IsEnd
<1> DEFINE s == e.p[k]
           n == r.seq
           t == Seen(s, n)
<1>2. IsSec(t) /\ t.epoch = s.epoch /\ t.key = s.key /\ t.rseq = s.rseq /\ t.cseq \in Nat
  <2> HIDE DEF s, n
  <2>1. IsSec(s) /\ s.cseq \in Nat /\ n \in Nat
    BY <1>1 DEF s, n
  <2> QED
    BY <2>1, SeenFields
<1>3. After(e, c, r, k) = t \/ After(e, c, r, k) = s
  BY DEF After
<1> HIDE DEF t
<1> QED
  BY <1>1, <1>2, <1>3

\* decrypt_verify: the window of one context moves, and the old context may go.
LEMMA OpenedFields ==
    ASSUME NEW e, IsEnd(e), NEW c \in 1 .. 2, NEW r, r.seq \in Nat,
           \A k \in 1 .. 2 : e.p[k].cseq \in Nat
    PROVE  LET o == Opened(e, c, r) IN
           /\ DOMAIN o = EndFields /\ Same(e, o, EndFields \ {"p"}) /\ DOMAIN o.p = 1 .. 2
           /\ \A k \in 1 .. 2 : o.p[k] = After(e, c, r, k) \/ Freed(e, o, k)
<1> DEFINE x == Seen(e.p[c], r.seq)
           s == [e EXCEPT !.p[c] = Seen(@, r.seq)]
           f == [s EXCEPT !.p[2] = NoSecurity]
           o == Opened(e, c, r)
<1>1. /\ DOMAIN s = EndFields /\ Same(e, s, EndFields \ {"p"}) /\ DOMAIN s.p = 1 .. 2
      /\ \A k \in 1 .. 2 : s.p[k] = After(e, c, r, k)
  <2>1. s.p = [e.p EXCEPT ![c] = x]
    BY DEF IsEnd, EndFields
  <2> HIDE DEF x
  <2>2. DOMAIN s.p = 1 .. 2 /\ s.p[c] = x /\ \A k \in 1 .. 2 : k # c => s.p[k] = e.p[k]
    BY <2>1 DEF IsEnd
  <2>3. DOMAIN s = EndFields /\ Same(e, s, EndFields \ {"p"})
    BY DEF IsEnd, EndFields, Same
  <2> QED
    BY <2>2, <2>3 DEF After, x
<1>2. o = s \/ (o = f /\ ~ (s.p[1].epoch < s.p[2].epoch))
  BY DEF Opened, FreeOther
<1> HIDE DEF s, o, x
<1>3. /\ DOMAIN f = EndFields /\ Same(s, f, EndFields \ {"p"}) /\ DOMAIN f.p = 1 .. 2
      /\ f.p[1] = s.p[1] /\ f.p[2] = NoSecurity
  <2>1. f.p = [s.p EXCEPT ![2] = NoSecurity]
    BY <1>1 DEF EndFields
  <2>2. DOMAIN f.p = 1 .. 2 /\ f.p[1] = s.p[1] /\ f.p[2] = NoSecurity
    BY <1>1, <2>1
  <2>3. DOMAIN f = EndFields /\ Same(s, f, EndFields \ {"p"})
    BY <1>1 DEF EndFields, Same
  <2> QED
    BY <2>2, <2>3
<1> HIDE DEF f
<1>4. Same(e, f, EndFields \ {"p"})
  BY <1>1, <1>3 DEF Same
<1>5. CASE o = s
  BY <1>1, <1>5 DEF o
<1>6. CASE o = f /\ ~ (s.p[1].epoch < s.p[2].epoch)
  <2>1. \A k \in 1 .. 2 : After(e, c, r, k).epoch = e.p[k].epoch
    BY AfterFields
  <2>2. ~ (e.p[1].epoch < e.p[2].epoch)
    BY <1>1, <1>6, <2>1
  <2>3. o.p[1] = After(e, c, r, 1)
    BY <1>1, <1>3, <1>6
  <2>4. Freed(e, o, 2)
    BY <1>3, <1>6, <2>2 DEF Freed
  <2>5. \A k \in 1 .. 2 : k = 1 \/ k = 2
    OBVIOUS
  <2>6. \A k \in 1 .. 2 : o.p[k] = After(e, c, r, k) \/ Freed(e, o, k)
    BY <2>3, <2>4, <2>5
  <2>7. o = f
    BY <1>6
  <2> QED
    BY <1>3, <1>4, <2>6, <2>7 DEF o
<1> QED
  BY <1>2, <1>5, <1>6

\* What may be held against an end after it opened r: D, and records like r.
Repeats(D2, D, r) ==
  \A x \in D2 : \/ x \in D
                \/ x.epoch = r.epoch /\ x.seq = r.seq /\ x.key = r.key /\ r.epoch > 0 /\ r.seq > 0

\* A record is opened by the context of its epoch.
LEMMA Opening ==
    ASSUME NEW i, NEW oth, NEW ver, NEW D, NEW e, Base(e, i, oth, ver, D), Settled(e, oth, ver, D),
           HasPeer(e), NEW c \in 1 .. 2, NEW r, r.seq \in Nat, e.p[c].epoch = r.epoch, Opens(e, c, r),
           NEW D2, Repeats(D2, D, r)
    PROVE  LET o == Opened(e, c, r) IN
           /\ Base(o, i, oth, ver, D2) /\ Settled(o, oth, ver, D2) /\ Same(e, o, EndFields \ {"p"})
<1> DEFINE o == Opened(e, c, r)
<1>1. /\ IsEnd(e) /\ e.id = i /\ i \in 1 .. 2 /\ e.gen \in Nat /\ e.err \in BOOLEAN /\ e.hs.on \in BOOLEAN
      /\ e.state \in PeerStates /\ ~e.reused /\ Own(e) \in Nat /\ Own(e) < Fresh(e)
      /\ \A k \in Used(e) : Old(e, k)
  BY BaseParts DEF HasPeer
<1>2. /\ \A k \in 1 .. 2 : /\ e.p[k].epoch \in Int /\ e.p[k].epoch >= -1
                           /\ e.p[k].rseq \in Nat /\ e.p[k].cseq \in Nat
                           /\ e.p[k].key = NoKey <=> e.p[k].epoch <= 0
      /\ e.p[1].epoch \in Nat /\ e.p[1].epoch # e.p[2].epoch
  BY DEF Base, Contexts
<1>3. /\ DOMAIN o = EndFields /\ Same(e, o, EndFields \ {"p"}) /\ DOMAIN o.p = 1 .. 2
      /\ \A k \in 1 .. 2 : o.p[k] = After(e, c, r, k) \/ Freed(e, o, k)
  BY <1>1, <1>2, OpenedFields
<1> HIDE DEF o
<1>4. \A k \in 1 .. 2 : LET a == After(e, c, r, k) IN
        IsSec(a) /\ a.epoch = e.p[k].epoch /\ a.key = e.p[k].key /\ a.rseq = e.p[k].rseq /\ a.cseq \in Nat
  BY <1>1, <1>2, AfterFields
<1>5. /\ NoSecurity.epoch = -1 /\ NoSecurity.key = NoKey /\ NoSecurity.rseq = 0 /\ NoSecurity.cseq = 0
      /\ IsSec(NoSecurity)
  BY DEF NoSecurity, Security, IsSec, SecFields
<1>6. o.p[1] = After(e, c, r, 1) /\ (o.p[2] = After(e, c, r, 2) \/ Freed(e, o, 2))
  BY <1>3 DEF Freed
<1>7. IsEnd(o)
  BY <1>1, <1>3, <1>4, <1>5, <1>6 DEF IsEnd, Same, EndFields, Freed
<1>8. /\ o.id = e.id /\ o.state = e.state /\ o.hs = e.hs /\ o.gen = e.gen /\ o.err = e.err
      /\ o.keys = e.keys /\ o.reused = e.reused
      /\ Same(e, o, {"id", "peers", "freed", "ctx", "role", "q", "out"})
  BY <1>3 DEF Same, EndFields
<1>9. Contexts(o)
  <2>1. \A k \in 1 .. 2 : /\ o.p[k].epoch \in Int /\ o.p[k].epoch >= -1
                          /\ o.p[k].rseq \in Nat /\ o.p[k].cseq \in Nat
                          /\ o.p[k].key = NoKey <=> o.p[k].epoch <= 0
    <3> SUFFICES ASSUME NEW k \in 1 .. 2
                 PROVE  /\ o.p[k].epoch \in Int /\ o.p[k].epoch >= -1
                        /\ o.p[k].rseq \in Nat /\ o.p[k].cseq \in Nat
                        /\ o.p[k].key = NoKey <=> o.p[k].epoch <= 0
      OBVIOUS
    <3>1. CASE o.p[k] = After(e, c, r, k)
      BY <1>2, <1>4, <3>1
    <3>2. CASE o.p[k] = NoSecurity
      BY <1>5, <3>2
    <3> QED
      BY <1>3, <3>1, <3>2 DEF Freed
  <2>2. o.p[1].epoch \in Nat /\ o.p[1].epoch # o.p[2].epoch
    BY <1>2, <1>4, <1>5, <1>6 DEF Freed
  <2> QED
    BY <2>1, <2>2 DEF Contexts
<1>10. Used(o) \subseteq Used(e) /\ Own(o) = Own(e) /\ Fresh(o) = Fresh(e)
  <2>1. \A k \in 1 .. 2 : o.p[k].key \in {e.p[k].key, NoKey}
    BY <1>3, <1>4, <1>5 DEF Freed
  <2> QED
    BY <1>8, <2>1 DEF Used, Own, Fresh
<1>11. \A x \in D : \A k \in 1 .. 2 : o.p[k].epoch = x.epoch /\ o.p[k].key = x.key =>
          IsReplay(o.p[k], x.seq)
  <2> SUFFICES ASSUME NEW x \in D, NEW k \in 1 .. 2, o.p[k].epoch = x.epoch, o.p[k].key = x.key
               PROVE  IsReplay(o.p[k], x.seq)
    OBVIOUS
  <2>1. x.seq \in Nat /\ x.epoch > 0 /\ x.epoch \in Nat
        /\ (e.p[k].epoch = x.epoch /\ e.p[k].key = x.key => IsReplay(e.p[k], x.seq))
    BY DEF Base, Spent
  <2>2. o.p[k] = After(e, c, r, k)
    BY <1>3, <1>5, <2>1 DEF Freed
  <2>3. IsReplay(e.p[k], x.seq)
    BY <1>4, <2>1, <2>2
  <2>4. IsReplay(After(e, c, r, k), x.seq)
    <3>1. IsSec(e.p[k]) /\ e.p[k].cseq \in Nat /\ x.seq \in Nat
      BY <1>1, <1>2, <2>1 DEF IsEnd
    <3>2. IsReplay(Seen(e.p[k], r.seq), x.seq)
      BY <2>3, <3>1, StillReplay
    <3> QED
      BY <2>3, <3>2 DEF After
  <2> QED
    BY <2>2, <2>4
<1>12. Base(o, i, oth, ver, D)
  <2>1. o.gen \in Nat /\ o.gen >= e.gen /\ o.err \in BOOLEAN /\ o.state \in PeerStates
        /\ e.keys \subseteq o.keys /\ ~o.reused /\ o.hs.on \in BOOLEAN /\ o.hs.reorder \subseteq e.hs.reorder
    BY <1>1, <1>8
  <2>2. Own(o) \in Nat /\ Own(o) < Fresh(o)
    BY <1>1, <1>10
  <2>3. \A k \in Used(o) : Old(e, k)
    BY <1>1, <1>10
  <2> QED
    BY <1>7, <1>8, <1>9, <1>11, <2>1, <2>2, <2>3, BaseMoved
<1>13. \A x \in D2 : x \notin D => /\ x.epoch = r.epoch /\ x.seq = r.seq /\ x.key = r.key
                                  /\ r.epoch > 0 /\ r.seq > 0
  BY DEF Repeats
<1>14. r.epoch > 0 => r.key \in Used(e)
  BY <1>2 DEF Opens, Used
<1>15. Spent(o, D2)
  <2> SUFFICES ASSUME NEW x \in D2, x \notin D
               PROVE  /\ x.seq \in Nat /\ x.seq > 0 /\ x.epoch \in Nat /\ x.epoch > 0 /\ Old(o, x.key)
                      /\ \A k \in 1 .. 2 : o.p[k].epoch = x.epoch /\ o.p[k].key = x.key =>
                           IsReplay(o.p[k], x.seq)
    BY <1>12 DEF Base, Spent
  <2>1. /\ x.epoch = r.epoch /\ x.seq = r.seq /\ x.key = r.key /\ r.epoch > 0 /\ r.seq > 0
    BY <1>13
  <2>2. r.epoch \in Nat
    BY <1>2, <2>1
  <2>3. Old(o, x.key)
    BY <1>1, <1>8, <1>10, <1>14, <2>1 DEF Old
  <2>4. ASSUME NEW k \in 1 .. 2, o.p[k].epoch = r.epoch PROVE IsReplay(o.p[k], r.seq)
    <3>1. o.p[k] = After(e, c, r, k)
      BY <1>3, <1>5, <2>1, <2>4 DEF Freed
    <3>2. k = c
      BY <1>2, <1>4, <2>4, <3>1
    <3>3. IsSec(e.p[k]) /\ e.p[k].cseq \in Nat
      BY <1>1, <1>2 DEF IsEnd
    <3>4. IsReplay(Seen(e.p[k], r.seq), r.seq)
      BY <2>1, <3>3, NowReplay
    <3> QED
      BY <3>1, <3>2, <3>4 DEF After
  <2> QED
    BY <2>1, <2>2, <2>3, <2>4
<1>16. Base(o, i, oth, ver, D2)
  BY <1>12, <1>15 DEF Base
<1>17. Settled(o, oth, ver, D2)
  <2>1. /\ Deriving(o) <=> Deriving(e)
        /\ Finishing(o) <=> Finishing(e)
    BY <1>8 DEF Deriving, Finishing
  <2>2. DerivingRight(e, ver, D) => DerivingRight(o, ver, D2)
    <3>1. KeysOf(D2) \subseteq KeysOf(D) \cup Used(e)
      BY <1>13, <1>14 DEF KeysOf
    <3>2. Apart(e, D) => Apart(o, D2)
      BY <1>8, <1>10, <3>1 DEF Apart
    <3> QED
      BY <1>8, <3>2 DEF DerivingRight
  <2>3. FinishingRight(e, ver) => FinishingRight(o, ver)
    <3>1. SUFFICES ASSUME FinishingRight(e, ver) PROVE FinishingRight(o, ver)
      OBVIOUS
    <3>2. CASE e.id = 1
      BY <1>4, <1>6, <1>8, <3>1, <3>2 DEF FinishingRight
    <3>3. CASE e.id # 1
      <4>1. e.p[2].epoch = e.p[1].epoch + 1
        BY <3>1, <3>3 DEF FinishingRight
      <4>2. o.p[2] = After(e, c, r, 2)
        BY <1>2, <1>6, <4>1 DEF Freed
      <4> QED
        BY <1>4, <1>6, <1>8, <1>10, <3>1, <3>3, <4>2 DEF FinishingRight
    <3> QED
      BY <3>2, <3>3
  <2>4. ConnectedRight(e, oth) => ConnectedRight(o, oth)
    BY <1>4, <1>6, <1>8 DEF ConnectedRight
  <2> QED
    BY <1>8, <2>1, <2>2, <2>3, <2>4 DEF Settled
<1> QED
  BY <1>3, <1>16, <1>17 DEF o

\* What an end has read, has written and hands to the channel is not in its invariant,
\* nor is the context of an end without a peer.
LEMMA AsideKept ==
    ASSUME NEW i, NEW oth, NEW ver, NEW D, NEW e, Base(e, i, oth, ver, D),
           NEW s, DOMAIN s = EndFields, Same(e, s, EndFields \ {"read", "wrote", "out", "ctx"}),
           s.out = e.out \/ s.out = <<>>, s.ctx = e.ctx \/ (s.ctx \in BOOLEAN /\ ~HasPeer(e))
    PROVE  Base(s, i, oth, ver, D) /\ (Settled(e, oth, ver, D) => Settled(s, oth, ver, D))
<1>1. /\ s.id = e.id /\ s.can = e.can /\ s.gen = e.gen /\ s.peers = e.peers /\ s.state = e.state
      /\ s.role = e.role /\ s.hs = e.hs /\ s.p = e.p /\ s.q = e.q /\ s.err = e.err
      /\ s.freed = e.freed /\ s.keys = e.keys /\ s.reused = e.reused
  BY DEF Same, EndFields
<1>2. Sound(s, i)
  BY <1>1 DEF Base, Sound, IsEnd, HasPeer
<1>3. Contexts(s)
  BY <1>1 DEF Base, Contexts, HasPeer
<1>4. Traffic(s, ver)
  <2>1. \A n : NodeOK(n, e, ver) => NodeOK(n, s, ver)
    BY <1>1 DEF NodeOK, HasPeer
  <2> QED
    BY <1>1, <2>1, EmptyList DEF Base, Traffic
<1>5. Early(s, oth, ver)
  BY <1>1 DEF Base, Early
<1>6. Own(s) = Own(e) /\ Used(s) = Used(e) /\ Fresh(s) = Fresh(e)
  BY <1>1 DEF Own, Used, Fresh
<1>7. \A k : Old(e, k) <=> Old(s, k)
  BY <1>1, <1>6 DEF Old
<1>8. Secrets(s) /\ Spent(s, D)
  BY <1>1, <1>6, <1>7 DEF Base, Secrets, Spent
<1>9. ASSUME Settled(e, oth, ver, D) PROVE Settled(s, oth, ver, D)
  <2>1. /\ Deriving(s) <=> Deriving(e)
        /\ Finishing(s) <=> Finishing(e)
    BY <1>1 DEF Deriving, Finishing
  <2>2. DerivingRight(e, ver, D) => DerivingRight(s, ver, D)
    BY <1>1, <1>6 DEF DerivingRight, Apart
  <2>3. FinishingRight(e, ver) => FinishingRight(s, ver)
    BY <1>1, <1>6 DEF FinishingRight
  <2>4. ConnectedRight(e, oth) => ConnectedRight(s, oth)
    BY <1>1 DEF ConnectedRight
  <2> QED
    BY <1>1, <1>9, <2>1, <2>2, <2>3, <2>4 DEF Settled
<1> QED
  BY <1>2, <1>3, <1>4, <1>5, <1>8, <1>9 DEF Base

\* A record of the other end, as it arrives.
Arrives(r, i, oth, ver) ==
  /\ r.seq \in Nat /\ r.t \in {"handshake", "ccs", "alert", "data"}
  /\ r.t = "handshake" => ArrivedOK(r.m, i, oth, ver)

\* Data is read that was not read before, and is not read again.
Reads(e, s, r, i, oth, ver, D) ==
  /\ r.t = "data" /\ r \notin D /\ s.read = Append(e.read, r.m.v)
  /\ ~s.err /\ s.wrote = e.wrote /\ s.ctx = e.ctx /\ s.keys = e.keys
  /\ \A D2 : Repeats(D2, D, r) => Base(s, i, oth, ver, D2) /\ Settled(s, oth, ver, D2)

\* A datum that is read was not read before, and is marked.
LEMMA DataRead ==
    ASSUME NEW i, NEW oth, NEW ver, NEW D, NEW e, Base(e, i, oth, ver, D), Settled(e, oth, ver, D),
           ~e.err, HasPeer(e), NEW c \in 1 .. 2, NEW r, r.seq \in Nat, e.p[c].epoch = r.epoch, Opens(e, c, r),
           ~IsReplay(e.p[c], r.seq), r.t = "data", r.epoch > 0
    PROVE  Reads(e, [StopRetransmission(Opened(e, c, r)) EXCEPT !.read = Append(@, r.m.v)], r, i, oth, ver, D)
<1> DEFINE o == Opened(e, c, r)
           q == StopRetransmission(o)
           s == [q EXCEPT !.read = Append(@, r.m.v)]
<1>1. ASSUME NEW D2, Repeats(D2, D, r)
      PROVE  Base(o, i, oth, ver, D2) /\ Settled(o, oth, ver, D2)
  BY <1>1, Opening
<1>2. Repeats(D, D, r)
  BY DEF Repeats
<1>3. Same(e, o, EndFields \ {"p"}) /\ IsEnd(o)
  <2>1. Same(e, o, EndFields \ {"p"})
    BY <1>2, Opening
  <2>2. Base(o, i, oth, ver, D)
    BY <1>1, <1>2
  <2> HIDE DEF o
  <2> QED
    BY <2>1, <2>2, BaseParts
<1> HIDE DEF o
<1>4. /\ IsEnd(q) /\ Same(o, q, EndFields \ {"q"})
  BY <1>3 DEF StopRetransmission, IsEnd, EndFields, Same
<1>5. ASSUME NEW D2, Base(o, i, oth, ver, D2), Settled(o, oth, ver, D2)
      PROVE  Base(q, i, oth, ver, D2) /\ Settled(q, oth, ver, D2)
  <2>1. Sends(o, StopRetransmission(o), ver)
    BY <1>5, Marks
  <2> QED
    BY <1>5, <2>1, KeptBase
<1> HIDE DEF q
<1>6. /\ DOMAIN s = EndFields /\ Same(q, s, EndFields \ {"read"}) /\ s.read = Append(q.read, r.m.v)
  BY <1>4 DEF IsEnd, EndFields, Same
<1> HIDE DEF s
<1>7. Same(q, s, EndFields \ {"read", "wrote", "out", "ctx"}) /\ s.out = q.out /\ s.ctx = q.ctx
  BY <1>6 DEF Same, EndFields
<1>8. ASSUME NEW D2, Repeats(D2, D, r)
      PROVE  Base(s, i, oth, ver, D2) /\ Settled(s, oth, ver, D2)
  <2>1. Base(q, i, oth, ver, D2) /\ Settled(q, oth, ver, D2)
    BY <1>1, <1>5, <1>8
  <2> QED
    BY <1>6, <1>7, <2>1, AsideKept
<1>9. /\ s.read = Append(e.read, r.m.v) /\ s.err = e.err /\ s.wrote = e.wrote /\ s.ctx = e.ctx
      /\ s.keys = e.keys
  BY <1>3, <1>4, <1>6 DEF Same, EndFields
<1>10. r \notin D
  <2>1. e.p[c].key = r.key
    <3>1. e.p[c].key # NoKey
      BY DEF Base, Contexts
    <3> QED
      BY <3>1 DEF Opens
  <2> QED
    BY <2>1 DEF Base, Spent
<1> QED
  BY <1>8, <1>9, <1>10 DEF Reads, s, q, o

\* dtls_handle_message
LEMMA RecordHandled ==
    ASSUME NEW i, NEW oth, NEW ver, NEW D, NEW e, Base(e, i, oth, ver, D), Settled(e, oth, ver, D),
           ~e.err, e.ctx, NEW r, Arrives(r, i, oth, ver), r.t = "data" => r.epoch > 0,
           NEW s \in HandleRecord(e, r)
    PROVE  Done(e, s, i, oth, ver, D) \/ Reads(e, s, r, i, oth, ver, D)
<1> DEFINE ks == EpochOf(e, r.epoch)
           c == Min(ks)
           replay == HasPeer(e) /\ ks # {} /\ IsReplay(e.p[c], r.seq)
           opens == HasPeer(e) /\ ks # {} /\ Opens(e, c, r)
           hello == IF HasPeer(e) THEN NewAttempt(e, r)
                    ELSE r.t = "handshake" /\ r.key = NoKey /\ r.m.h = "ClientHello"
           o == Opened(e, c, r)
<1>1. \/ s = e \/ s = Refuse(e)
      \/ ~opens /\ hello /\ s \in Dispatch(e, r, "server", "wait_clienthello")
      \/ ~replay /\ opens /\ s \in Dispatch(o, r, e.role, e.state)
  BY DEF HandleRecord
<1>2. CASE s = e
  BY <1>2 DEF Done, Frame, Same
<1>3. CASE s = Refuse(e)
  BY <1>3, RefuseDone
<1>4. CASE ~opens /\ hello /\ s \in Dispatch(e, r, "server", "wait_clienthello")
  <2>1. r.t = "handshake" /\ r.m.h \in {"ClientHello", "HelloRequest"} /\ e.state \in {"connected", "none"}
    BY <1>4 DEF NewAttempt, HasPeer
  <2>2. s \in HandshakeRecord(e, r, "server", "wait_clienthello")
    BY <1>4, <2>1 DEF Dispatch
  <2>3. ArrivedOK(r.m, i, oth, ver)
    BY <2>1 DEF Arrives
  <2>4. i = 2
    <3>1. r.m.h \in Kinds(3 - i)
      BY <2>3 DEF ArrivedOK, MsgOK
    <3>2. i \in 1 .. 2
      BY BaseParts
    <3>3. i = 1 => r.m.h \in Kinds(2)
      BY <3>1
    <3> QED
      BY <2>1, <3>2, <3>3 DEF Kinds
  <2>5. RoleFor(e, i, "server", "wait_clienthello")
    BY <2>1, <2>4 DEF RoleFor
  <2>6. r.t = "handshake"
    BY <2>1
  <2> QED
    BY <2>2, <2>3, <2>5, <2>6, HandshakeDone
<1>5. CASE ~replay /\ opens /\ s \in Dispatch(o, r, e.role, e.state)
  <2>1. HasPeer(e) /\ ks # {} /\ Opens(e, c, r) /\ ~IsReplay(e.p[c], r.seq)
    BY <1>5
  <2>2. c \in 1 .. 2 /\ e.p[c].epoch = r.epoch
    <3>1. ks \subseteq 1 .. 2
      BY DEF EpochOf
    <3>2. c \in ks
      BY <2>1, <3>1, MinIn
    <3> HIDE DEF c
    <3> QED
      BY <3>2 DEF EpochOf
  <2>3. s \in Dispatch(o, r, e.role, e.state)
    BY <1>5
  <2> HIDE DEF c, ks
  <2>4. r.seq \in Nat /\ r.t \in {"handshake", "ccs", "alert", "data"}
    BY DEF Arrives
  <2>5. Base(o, i, oth, ver, D) /\ Settled(o, oth, ver, D) /\ Same(e, o, EndFields \ {"p"})
    <3>1. Repeats(D, D, r)
      BY DEF Repeats
    <3>2. HasPeer(e) /\ Opens(e, c, r)
      BY <2>1
    <3>3. r.seq \in Nat
      BY <2>4
    <3> QED
      BY <2>2, <3>1, <3>2, <3>3, Opening
  <2> DEFINE q == StopRetransmission(o)
             d == [q EXCEPT !.read = Append(@, r.m.v)]
  <2>6. \/ r.t = "ccs" /\ s = HandleCcs(q)
        \/ r.t = "alert" /\ s = HandleAlert(q, r.m)
        \/ r.t = "handshake" /\ s \in HandshakeRecord(o, r, e.role, e.state)
        \/ r.t = "data" /\ s = d
    BY <2>3, <2>4 DEF Dispatch
  <2>7. CASE r.t = "data" /\ s = d
    <3>1. Reads(e, d, r, i, oth, ver, D)
      <4>1. HasPeer(e) /\ Opens(e, c, r) /\ ~IsReplay(e.p[c], r.seq)
        BY <2>1
      <4>2. r.t = "data" /\ r.epoch > 0 /\ r.seq \in Nat
        BY <2>4, <2>7
      <4> QED
        BY <2>2, <4>1, <4>2, DataRead
    <3> HIDE DEF d
    <3> QED
      BY <2>7, <3>1
  <2> HIDE DEF o, d
  <2>8. o.state = e.state /\ o.role = e.role /\ o.err = e.err /\ o.ctx = e.ctx /\ Frame(e, o)
    BY <2>5 DEF Same, EndFields, Frame
  <2>9. HasPeer(o) /\ ~o.err /\ o.ctx /\ o.role = Role(i)
    BY <2>1, <2>8, BaseParts DEF HasPeer
  <2>10. Done(e, o, i, oth, ver, D)
    BY <2>5, <2>8 DEF Done
  <2>11. Done(e, q, i, oth, ver, D) /\ q.q = <<>> /\ q.state = o.state
    <3>1. Done(e, StopRetransmission(o), i, oth, ver, D)
      BY <2>10, StopDone
    <3>2. IsEnd(o)
      BY <2>5, BaseParts
    <3>3. StopRetransmission(o).q = <<>> /\ StopRetransmission(o).state = o.state
      BY <3>2 DEF StopRetransmission, IsEnd, EndFields
    <3> QED
      BY <3>1, <3>3
  <2> HIDE DEF q
  <2>12. /\ Base(q, i, oth, ver, D) /\ Settled(q, oth, ver, D) /\ ~q.err /\ Frame(e, q) /\ HasPeer(q)
    BY <2>9, <2>11 DEF Done, HasPeer
  <2>13. CASE s = HandleCcs(q)
    <3>1. Done(q, HandleCcs(q), i, oth, ver, D)
      BY <2>12, CcsDone
    <3> QED
      BY <2>12, <2>13, <3>1, FrameOn DEF Done
  <2>14. CASE s = HandleAlert(q, r.m)
    <3>1. Done(q, HandleAlert(q, r.m), i, oth, ver, D)
      BY <2>11, <2>12, AlertDone
    <3> QED
      BY <2>12, <2>14, <3>1, FrameOn DEF Done
  <2>15. CASE r.t = "handshake" /\ s \in HandshakeRecord(o, r, e.role, e.state)
    <3>1. RoleFor(o, i, e.role, e.state)
      BY <2>8, <2>9 DEF RoleFor
    <3>2. r.t = "handshake" /\ ArrivedOK(r.m, i, oth, ver)
      BY <2>15 DEF Arrives
    <3>3. s \in HandshakeRecord(o, r, e.role, e.state)
      BY <2>15
    <3>4. Base(o, i, oth, ver, D) /\ Settled(o, oth, ver, D) /\ ~o.err /\ o.ctx
      BY <2>5, <2>9
    <3>5. Done(o, s, i, oth, ver, D)
      BY <3>1, <3>2, <3>3, <3>4, HandshakeDone
    <3> QED
      BY <2>8, <3>5, FrameOn DEF Done
  <2> QED
    BY <2>6, <2>7, <2>13, <2>14, <2>15
<1> QED
  BY <1>1, <1>2, <1>3, <1>4, <1>5

-----------------------------------------------------------------------------
(* The invariant of the link.                                              *)

\* What is on its way to end i: records of the other end, and of each datum one.
NetOK(i) ==
  /\ IsList(net[i])
  /\ \A r \in Elems(net[i]) : RecOK(r, 3 - i, ends[3 - i].keys, verified, ends[3 - i].wrote)
  /\ \A r, x \in Elems(net[i]) : r.t = "data" /\ x.t = "data" /\ r.m.v = x.m.v =>
       r.epoch = x.epoch /\ r.seq = x.seq /\ r.key = x.key

\* What end i has read, and what of it is on its way again.
ReadOK(i) ==
  /\ IsList(ends[i].read) /\ Distinct(ends[i].read)
  /\ ends[i].wrote \in Nat /\ \A v \in Elems(ends[i].read) : v \in 1 .. ends[3 - i].wrote
Spoils(s, read) == {r \in Elems(s) : r.t = "data" /\ r.m.v \in Elems(read)}
Spoiled(i) == Spoils(net[i], ends[i].read)

EndOK(i) ==
  /\ Base(ends[i], i, ends[3 - i].keys, verified, Spoiled(i))
  /\ Settled(ends[i], ends[3 - i].keys, verified, Spoiled(i))
  /\ ends[i].out = <<>> /\ ~ends[i].err

LinkInv ==
  /\ DOMAIN ends = Ends /\ DOMAIN net = Ends
  /\ \A i \in Ends : EndOK(i) /\ NetOK(i) /\ ReadOK(i)

\* The more the other end and the history have seen, the better.
LEMMA RecLarger ==
    ASSUME NEW i, NEW keys, NEW ver, NEW w \in Nat, NEW r, RecOK(r, i, keys, ver, w),
           NEW keys2, keys \subseteq keys2, NEW ver2, ver \subseteq ver2, NEW w2 \in Nat, w <= w2
    PROVE  RecOK(r, i, keys2, ver2, w2)
<1>1. ASSUME MsgOK(r.m, i, keys, ver) PROVE MsgOK(r.m, i, keys2, ver2)
  BY <1>1 DEF MsgOK
<1>2. r.m.v \in 1 .. w => r.m.v \in 1 .. w2
  OBVIOUS
<1> QED
  BY <1>1, <1>2 DEF RecOK

\* And the fewer records are spoiled.
LEMMA BaseLarger ==
    ASSUME NEW i, NEW oth, NEW ver, NEW D, NEW e, Base(e, i, oth, ver, D),
           NEW oth2, oth \subseteq oth2, NEW ver2, ver \subseteq ver2, NEW D2, D2 \subseteq D
    PROVE  Base(e, i, oth2, ver2, D2) /\ (Settled(e, oth, ver, D) => Settled(e, oth2, ver2, D2))
<1>1. \A m, j, k, k2 : k \subseteq k2 /\ MsgOK(m, j, k, ver) => MsgOK(m, j, k2, ver2)
  BY DEF MsgOK
<1>2. Traffic(e, ver2)
  <2>1. \A r : RecOK(r, e.id, e.keys, ver, 0) => RecOK(r, e.id, e.keys, ver2, 0)
    BY <1>1 DEF RecOK
  <2>2. \A n : NodeOK(n, e, ver) => NodeOK(n, e, ver2)
    BY <2>1 DEF NodeOK
  <2> QED
    BY <2>1, <2>2 DEF Base, Traffic
<1>3. Early(e, oth2, ver2)
  <2>1. \A m : ArrivedOK(m, e.id, oth, ver) => ArrivedOK(m, e.id, oth2, ver2)
    BY <1>1 DEF ArrivedOK
  <2> QED
    BY <2>1 DEF Base, Early
<1>4. Spent(e, D2)
  BY DEF Base, Spent
<1>5. ASSUME Settled(e, oth, ver, D) PROVE Settled(e, oth2, ver2, D2)
  <2>1. KeysOf(D2) \subseteq KeysOf(D)
    BY DEF KeysOf
  <2>2. DerivingRight(e, ver, D) => DerivingRight(e, ver2, D2)
    BY <2>1 DEF DerivingRight, Apart
  <2>3. FinishingRight(e, ver) => FinishingRight(e, ver2)
    BY DEF FinishingRight
  <2>4. ConnectedRight(e, oth) => ConnectedRight(e, oth2)
    BY DEF ConnectedRight
  <2> QED
    BY <1>5, <2>2, <2>3, <2>4 DEF Settled
<1> QED
  BY <1>2, <1>3, <1>4, <1>5 DEF Base

\* The channels only lose, repeat and reorder.
LEMMA NetMoves ==
    ASSUME LinkInv, UNCHANGED <<ends, verified>>, DOMAIN net' = Ends,
           \A k \in Ends : IsList(net'[k]) /\ Elems(net'[k]) \subseteq Elems(net[k])
    PROVE  LinkInv'
<1>1. ASSUME NEW k \in Ends PROVE EndOK(k)' /\ NetOK(k)' /\ ReadOK(k)'
  <2>1. EndOK(k) /\ NetOK(k) /\ ReadOK(k)
    BY DEF LinkInv
  <2>2. Spoiled(k)' \subseteq Spoiled(k)
    BY DEF Spoiled, Spoils
  <2>3. /\ Base(ends[k], k, ends[3 - k].keys, verified, Spoiled(k))
        /\ Settled(ends[k], ends[3 - k].keys, verified, Spoiled(k))
    BY <2>1 DEF EndOK
  <2> DEFINE D == Spoiled(k)
             D2 == Spoiled(k)'
             e == ends[k]
             oth == ends[3 - k].keys
             ver == verified
  <2>4. Base(e, k, oth, ver, D2) /\ Settled(e, oth, ver, D2)
    <3> HIDE DEF D, D2, e, oth, ver
    <3>1. Base(e, k, oth, ver, D) /\ Settled(e, oth, ver, D) /\ D2 \subseteq D
      BY <2>2, <2>3 DEF D, D2, e, oth, ver
    <3>2. oth \subseteq oth /\ ver \subseteq ver
      OBVIOUS
    <3> QED
      BY <3>1, <3>2, BaseLarger
  <2>5. EndOK(k)'
    BY <2>1, <2>4 DEF EndOK
  <2>6. NetOK(k)'
    BY <2>1 DEF NetOK
  <2>7. ReadOK(k)'
    BY <2>1 DEF ReadOK
  <2> QED
    BY <2>5, <2>6, <2>7
<1>2. (DOMAIN ends = Ends)'
  BY DEF LinkInv
<1> QED
  BY <1>1, <1>2 DEF LinkInv

\* What an end sends in a step: at most one datum, which is new.
OutOK(s, i, keys, ver, wrote, before) ==
  /\ IsList(s) /\ \A r \in Elems(s) : RecOK(r, i, keys, ver, wrote)
  /\ \A r, x \in Elems(s) : r.t = "data" /\ x.t = "data" => r = x
  /\ \A r \in Elems(s) : r.t = "data" => r.m.v > before

\* End i makes a step, which the other end does not notice yet.
Moves(i, e, to) ==
  /\ Becomes(i, e, to) /\ verified \subseteq verified'
  /\ DOMAIN to = Ends /\ to[3 - i] = net[3 - i] /\ IsList(to[i]) /\ Elems(to[i]) \subseteq Elems(net[i])
  /\ ends[i].keys \subseteq e.keys /\ e.wrote \in Nat /\ ends[i].wrote <= e.wrote
  /\ OutOK(e.out, i, e.keys, verified', e.wrote, ends[i].wrote)
  /\ IsList(e.read) /\ Distinct(e.read) /\ \A v \in Elems(e.read) : v \in 1 .. ends[3 - i].wrote

\* If the end is right after its step, with what it sent on its way, so is the link.
LEMMA EndMoves ==
    ASSUME LinkInv, NEW i \in Ends, NEW e, DOMAIN e = EndFields, NEW to, Moves(i, e, to),
           ~e.err,
           LET z == [e EXCEPT !.out = <<>>]
               D == Spoils(to[i], e.read) IN
           Base(z, i, ends[3 - i].keys, verified', D) /\ Settled(z, ends[3 - i].keys, verified', D)
    PROVE  LinkInv'
<1> DEFINE j == 3 - i
           z == [e EXCEPT !.out = <<>>]
           D == Spoils(to[i], e.read)
<1>1. j \in Ends /\ i # j /\ 3 - j = i /\ \A k \in Ends : k = i \/ k = j
  BY DEF Ends
<1>2. /\ DOMAIN ends = Ends /\ DOMAIN net = Ends
      /\ EndOK(i) /\ NetOK(i) /\ ReadOK(i) /\ EndOK(j) /\ NetOK(j) /\ ReadOK(j)
  BY <1>1 DEF LinkInv
<1>3. DOMAIN z = EndFields /\ z.out = <<>> /\ Same(e, z, EndFields \ {"out"})
  BY DEF EndFields, Same
<1>4. Base(z, i, ends[j].keys, verified', D) /\ Settled(z, ends[j].keys, verified', D)
  OBVIOUS
<1>5. ends' = [ends EXCEPT ![i] = z] /\ net' = [to EXCEPT ![j] = to[j] \o e.out]
  BY DEF Moves, Becomes
<1> HIDE DEF z
<1>6. z.read = e.read /\ z.wrote = e.wrote /\ z.keys = e.keys /\ z.err = e.err
  BY <1>3 DEF Same, EndFields
<1>7. /\ verified \subseteq verified'
      /\ DOMAIN to = Ends /\ to[j] = net[j] /\ IsList(to[i]) /\ Elems(to[i]) \subseteq Elems(net[i])
      /\ ends[i].keys \subseteq z.keys /\ z.wrote \in Nat /\ ends[i].wrote <= z.wrote
      /\ OutOK(e.out, i, z.keys, verified', z.wrote, ends[i].wrote)
      /\ IsList(z.read) /\ Distinct(z.read) /\ \A v \in Elems(z.read) : v \in 1 .. ends[j].wrote
  BY <1>6 DEF Moves
<1> HIDE DEF j
<1>8. ends'[i] = z /\ ends'[j] = ends[j] /\ DOMAIN ends' = Ends
  BY <1>1, <1>2, <1>5
<1>9. net'[i] = to[i] /\ net'[j] = net[j] \o e.out /\ DOMAIN net' = Ends
  BY <1>1, <1>2, <1>5, <1>7
<1>10. IsList(net'[j]) /\ Elems(net'[j]) \subseteq Elems(net[j]) \cup Elems(e.out)
  <2>1. IsList(net[j])
    BY <1>2 DEF NetOK
  <2>2. IsList(e.out)
    BY <1>7 DEF OutOK
  <2> QED
    BY <1>9, <2>1, <2>2, ListsJoined
<1>11. ends[i].wrote \in Nat /\ ends[j].wrote \in Nat
  BY <1>2 DEF ReadOK
<1>12. \A r \in Elems(net[j]) : /\ RecOK(r, i, ends[i].keys, verified, ends[i].wrote)
                                /\ RecOK(r, i, z.keys, verified', z.wrote)
  <2>1. \A r \in Elems(net[j]) : RecOK(r, i, ends[i].keys, verified, ends[i].wrote)
    BY <1>1, <1>2 DEF NetOK
  <2> DEFINE keys == ends[i].keys
             ver == verified
             ver2 == verified'
             w == ends[i].wrote
             w2 == z.wrote
             keys2 == z.keys
  <2>2. keys \subseteq keys2 /\ ver \subseteq ver2 /\ w \in Nat /\ w2 \in Nat /\ w <= w2
    BY <1>7, <1>11
  <2>3. ASSUME NEW r, RecOK(r, i, keys, ver, w) PROVE RecOK(r, i, keys2, ver2, w2)
    <3> HIDE DEF keys, ver, ver2, w, w2, keys2
    <3> QED
      BY <2>2, <2>3, RecLarger
  <2> QED
    BY <2>1, <2>3
<1>13. NetOK(j)'
  <2>1. \A r \in Elems(net'[j]) : RecOK(r, i, z.keys, verified', z.wrote)
    BY <1>7, <1>10, <1>12 DEF OutOK
  <2>2. \A r \in Elems(net[j]) : r.t = "data" => r.m.v \in 1 .. ends[i].wrote
    BY <1>12 DEF RecOK
  <2>3. \A r \in Elems(net[j]), x \in Elems(e.out) : r.t = "data" /\ x.t = "data" => r.m.v # x.m.v
    <3> SUFFICES ASSUME NEW r \in Elems(net[j]), NEW x \in Elems(e.out), r.t = "data", x.t = "data"
                 PROVE  r.m.v # x.m.v
      OBVIOUS
    <3>1. x.m.v > ends[i].wrote
      BY <1>7 DEF OutOK
    <3> QED
      BY <1>11, <2>2, <3>1
  <2>4. \A r, x \in Elems(e.out) : r.t = "data" /\ x.t = "data" => r = x
    BY <1>7 DEF OutOK
  <2>5. \A r, x \in Elems(net[j]) : r.t = "data" /\ x.t = "data" /\ r.m.v = x.m.v =>
          r.epoch = x.epoch /\ r.seq = x.seq /\ r.key = x.key
    BY <1>2 DEF NetOK
  <2>6. \A r, x \in Elems(net'[j]) : r.t = "data" /\ x.t = "data" /\ r.m.v = x.m.v =>
          r.epoch = x.epoch /\ r.seq = x.seq /\ r.key = x.key
    BY <1>10, <2>3, <2>4, <2>5
  <2> QED
    BY <1>1, <1>8, <1>10, <2>1, <2>6 DEF NetOK
<1>14. NetOK(i)'
  <2>1. \A r \in Elems(net[i]) : RecOK(r, j, ends[j].keys, verified, ends[j].wrote)
    BY <1>2 DEF NetOK, j
  <2> DEFINE keys == ends[j].keys
             ver == verified
             ver2 == verified'
             w == ends[j].wrote
  <2>2. keys \subseteq keys /\ ver \subseteq ver2 /\ w \in Nat /\ w <= w
    BY <1>7, <1>11
  <2>3. ASSUME NEW r, RecOK(r, j, keys, ver, w) PROVE RecOK(r, j, keys, ver2, w)
    <3> HIDE DEF keys, ver, ver2, w
    <3> QED
      BY <2>2, <2>3, RecLarger
  <2>4. \A r \in Elems(net'[i]) : RecOK(r, j, ends'[j].keys, verified', ends'[j].wrote)
    BY <1>7, <1>8, <1>9, <2>1, <2>3
  <2>5. \A r, x \in Elems(net'[i]) : r.t = "data" /\ x.t = "data" /\ r.m.v = x.m.v =>
          r.epoch = x.epoch /\ r.seq = x.seq /\ r.key = x.key
    <3>1. \A r, x \in Elems(net[i]) : r.t = "data" /\ x.t = "data" /\ r.m.v = x.m.v =>
          r.epoch = x.epoch /\ r.seq = x.seq /\ r.key = x.key
      BY <1>2 DEF NetOK
    <3> QED
      BY <1>7, <1>9, <3>1
  <2>6. IsList(net'[i])
    BY <1>7, <1>9
  <2> QED
    BY <2>4, <2>5, <2>6 DEF NetOK, j
<1>15. ReadOK(i)'
  BY <1>7, <1>8 DEF ReadOK, j
<1>16. ReadOK(j)'
  <2>1. \A v : v \in 1 .. ends[i].wrote => v \in 1 .. z.wrote
    BY <1>7, <1>11
  <2>2. /\ IsList(ends[j].read) /\ Distinct(ends[j].read) /\ ends[j].wrote \in Nat
        /\ \A v \in Elems(ends[j].read) : v \in 1 .. ends[i].wrote
    BY <1>1, <1>2 DEF ReadOK
  <2> QED
    BY <1>1, <1>8, <2>1, <2>2 DEF ReadOK
<1>17. EndOK(i)'
  <2>1. Spoiled(i)' = D
    BY <1>6, <1>8, <1>9 DEF Spoiled
  <2> HIDE DEF D
  <2>2. ~z.err
    BY <1>6
  <2>3. ends'[3 - i].keys = ends[j].keys
    BY <1>8 DEF j
  <2> QED
    BY <1>3, <1>4, <1>8, <2>1, <2>2, <2>3 DEF EndOK
<1>18. EndOK(j)'
  <2> DEFINE s == ends[j]
             oth == ends[i].keys
             oth2 == z.keys
             ver == verified
             ver2 == verified'
             S == Spoiled(j)
             S2 == Spoiled(j)'
  <2>1. Base(s, j, oth, ver, S) /\ Settled(s, oth, ver, S) /\ s.out = <<>> /\ ~s.err
    BY <1>1, <1>2 DEF EndOK
  <2>2. S2 \subseteq S
    <3>1. \A x \in Elems(e.out) : x.t = "data" => x.m.v \notin Elems(ends[j].read)
      <4> SUFFICES ASSUME NEW x \in Elems(e.out), x.t = "data", x.m.v \in Elems(ends[j].read) PROVE FALSE
        OBVIOUS
      <4>1. x.m.v > ends[i].wrote
        BY <1>7 DEF OutOK
      <4>2. x.m.v \in 1 .. ends[i].wrote
        BY <1>1, <1>2 DEF ReadOK
      <4> QED
        BY <1>11, <4>1, <4>2
    <3> QED
      BY <1>8, <1>10, <3>1 DEF Spoiled, Spoils
  <2>3. oth \subseteq oth2 /\ ver \subseteq ver2
    BY <1>7
  <2>4. Base(s, j, oth2, ver2, S2) /\ Settled(s, oth2, ver2, S2)
    <3> HIDE DEF s, oth, oth2, ver, ver2, S, S2
    <3> QED
      BY <2>1, <2>2, <2>3, BaseLarger
  <2> QED
    BY <1>1, <1>8, <2>1, <2>4 DEF EndOK
<1> QED
  BY <1>1, <1>8, <1>9, <1>13, <1>14, <1>15, <1>16, <1>17, <1>18 DEF LinkInv

-----------------------------------------------------------------------------
(* The steps of the link.                                                  *)

\* What is left on the way to end i is part of what was there.
Rest(i, to) ==
  DOMAIN to = Ends /\ to[3 - i] = net[3 - i] /\ IsList(to[i]) /\ Elems(to[i]) \subseteq Elems(net[i])

\* A step in which an end reads nothing.
LEMMA EndWorks ==
    ASSUME LinkInv, NEW i \in Ends, NEW e, NEW to, Becomes(i, e, to), verified \subseteq verified',
           Rest(i, to), Same(ends[i], e, {"read", "wrote"}), ends[i].keys \subseteq e.keys, ~e.err,
           Base(e, i, ends[3 - i].keys, verified', Spoiled(i)),
           Settled(e, ends[3 - i].keys, verified', Spoiled(i))
    PROVE  LinkInv'
<1> DEFINE D == Spoils(to[i], e.read)
           z == [e EXCEPT !.out = <<>>]
           oth == ends[3 - i].keys
           ver == verified'
           S == Spoiled(i)
<1>1. IsEnd(e) /\ e.id = i
  BY BaseParts
<1>2. e.read = ends[i].read /\ e.wrote = ends[i].wrote
  BY DEF Same
<1>3. D \subseteq S
  BY <1>2 DEF Rest, Spoiled, Spoils
<1>4. Base(e, i, oth, ver, D) /\ Settled(e, oth, ver, D)
  <2>1. Base(e, i, oth, ver, S) /\ Settled(e, oth, ver, S) /\ oth \subseteq oth /\ ver \subseteq ver
    OBVIOUS
  <2> HIDE DEF D, S, oth, ver
  <2> QED
    BY <1>3, <2>1, BaseLarger
<1>5. DOMAIN z = EndFields /\ Same(e, z, EndFields \ {"read", "wrote", "out", "ctx"}) /\ z.out = <<>>
      /\ z.ctx = e.ctx
  BY <1>1 DEF IsEnd, EndFields, Same
<1>6. Base(z, i, oth, ver, D) /\ Settled(z, oth, ver, D)
  <2> HIDE DEF D, oth, ver, z
  <2> QED
    BY <1>4, <1>5, AsideKept
<1>7. IsList(e.out) /\ \A r \in Elems(e.out) : RecOK(r, i, e.keys, ver, 0)
  BY <1>1, <1>4 DEF Base, Traffic
<1>8. EndOK(i) /\ NetOK(i) /\ ReadOK(i)
  BY DEF LinkInv
<1>9. e.wrote \in Nat /\ IsList(e.read) /\ Distinct(e.read) /\ \A v \in Elems(e.read) : v \in 1 .. ends[3 - i].wrote
  BY <1>2, <1>8 DEF ReadOK
<1>10. OutOK(e.out, i, e.keys, ver, e.wrote, ends[i].wrote)
  <2>1. \A r \in Elems(e.out) : r.t # "data"
    BY <1>7 DEF RecOK
  <2> DEFINE w == e.wrote
             keys == e.keys
  <2>2. w \in Nat /\ 0 <= w /\ 0 \in Nat /\ keys \subseteq keys /\ ver \subseteq ver
    BY <1>9
  <2>3. ASSUME NEW r, RecOK(r, i, keys, ver, 0) PROVE RecOK(r, i, keys, ver, w)
    <3> HIDE DEF w, keys, ver
    <3> QED
      BY <2>2, <2>3, RecLarger
  <2> QED
    BY <1>7, <2>1, <2>3 DEF OutOK
<1>11. ends[i].wrote <= e.wrote
  BY <1>2, <1>9
<1>12. Moves(i, e, to)
  BY <1>9, <1>10, <1>11 DEF Moves, Rest
<1>13. DOMAIN e = EndFields
  BY <1>1 DEF IsEnd
<1> QED
  BY <1>6, <1>12, <1>13, EndMoves

\* An end as it is.
LEMMA EndAsIs ==
    ASSUME LinkInv, NEW i \in Ends, verified \subseteq verified'
    PROVE  /\ Base(ends[i], i, ends[3 - i].keys, verified', Spoiled(i))
           /\ Settled(ends[i], ends[3 - i].keys, verified', Spoiled(i))
           /\ ends[i].out = <<>> /\ ~ends[i].err
<1> DEFINE e == ends[i]
           oth == ends[3 - i].keys
           ver == verified
           ver2 == verified'
           S == Spoiled(i)
<1>1. Base(e, i, oth, ver, S) /\ Settled(e, oth, ver, S) /\ e.out = <<>> /\ ~e.err
  BY DEF LinkInv, EndOK
<1>2. oth \subseteq oth /\ ver \subseteq ver2 /\ S \subseteq S
  OBVIOUS
<1>3. Base(e, i, oth, ver2, S) /\ Settled(e, oth, ver2, S)
  <2> HIDE DEF e, oth, ver, ver2, S
  <2> QED
    BY <1>1, <1>2, BaseLarger
<1> QED
  BY <1>1, <1>3

\* A sequence and one more are as distinct as they were, when the one is new.
LEMMA DistinctAppended ==
    ASSUME NEW s, IsList(s), Distinct(s), NEW x, x \notin Elems(s)
    PROVE  Distinct(Append(s, x))
<1> DEFINE S == Elems(s) \cup {x}
           t == Append(s, x)
<1>1. s \in Seq(S) /\ x \in S
  <2>1. Seq(Elems(s)) \subseteq Seq(S)
    BY SeqDef
  <2> QED
    BY <2>1 DEF IsList
<1>2. t \in Seq(S) /\ Len(t) = Len(s) + 1 /\ (\A i \in 1 .. Len(s) : t[i] = s[i]) /\ t[Len(s) + 1] = x
  BY <1>1, AppendProperties
<1>3. DOMAIN s = 1 .. Len(s) /\ DOMAIN t = 1 .. Len(t) /\ Len(s) \in Nat
  BY <1>1, <1>2, LenProperties
<1> HIDE DEF t, S
<1>4. \A k \in 1 .. Len(s) : s[k] # x
  BY <1>3 DEF Elems
<1>5. ASSUME NEW a \in DOMAIN t, NEW b \in DOMAIN t, a # b PROVE t[a] # t[b]
  <2>1. /\ a \in 1 .. Len(s) \/ a = Len(s) + 1
        /\ b \in 1 .. Len(s) \/ b = Len(s) + 1
    BY <1>2, <1>3
  <2> QED
    BY <1>2, <1>3, <1>4, <1>5, <2>1 DEF Distinct
<1> QED
  BY <1>5 DEF Distinct, t

\* handleRawData
LEMMA DeliverKeeps ==
    ASSUME LinkInv, NEW i \in Ends, Deliver(i)
    PROVE  LinkInv'
<1> DEFINE r == Head(net[i])
           to == [net EXCEPT ![i] = Tail(@)]
           oth == ends[3 - i].keys
           ver == verified'
           S == Spoiled(i)
<1>1. /\ i \in 1 .. 2 /\ 3 - i \in Ends /\ 3 - i # i
      /\ DOMAIN net = Ends /\ EndOK(i) /\ NetOK(i) /\ ReadOK(i) /\ net[i] # <<>>
  BY DEF Ends, LinkInv, Deliver
<1>2. PICK e \in (IF ends[i].ctx THEN HandleRecord(ends[i], r) ELSE {ends[i]}) : Becomes(i, e, to)
  BY DEF Deliver
<1>3. ver = IF i = 1 /\ r.m.h = "HelloVerifyRequest" THEN verified \cup {r.m.v} ELSE verified
  BY DEF Deliver
<1>4. verified \subseteq ver
  BY <1>3
<1>5. IsList(Tail(net[i])) /\ Elems(Tail(net[i])) \subseteq Elems(net[i]) /\ r \in Elems(net[i])
  BY <1>1, ListEnds DEF NetOK
<1>6. Rest(i, to)
  BY <1>1, <1>5 DEF Rest
<1>7. RecOK(r, 3 - i, oth, verified, ends[3 - i].wrote)
  BY <1>1, <1>5 DEF NetOK
<1> HIDE DEF r, to
<1>8. Arrives(r, i, oth, ver) /\ (r.t = "data" => r.epoch > 0)
  <2>1. r.seq \in Nat /\ r.t \in {"handshake", "ccs", "alert", "data"} /\ (r.t = "data" => r.epoch > 0)
    BY <1>7 DEF RecOK
  <2>2. ASSUME r.t = "handshake" PROVE ArrivedOK(r.m, i, oth, ver)
    <3>1. MsgOK(r.m, 3 - i, oth, verified)
      BY <1>7, <2>2 DEF RecOK
    <3>2. MsgOK(r.m, 3 - i, oth, ver)
      BY <1>4, <3>1 DEF MsgOK
    <3>3. r.m.h = "HelloVerifyRequest" => r.m.v \in ver
      <4>1. r.m.h = "HelloVerifyRequest" => i = 1
        BY <1>1, <3>1 DEF MsgOK, Kinds
      <4> QED
        BY <1>3, <4>1
    <3> QED
      BY <3>2, <3>3 DEF ArrivedOK
  <2> QED
    BY <2>1, <2>2 DEF Arrives
<1>9. Base(ends[i], i, oth, ver, S) /\ Settled(ends[i], oth, ver, S) /\ ~ends[i].err
  BY <1>4, EndAsIs
<1>10. CASE ~ends[i].ctx
  <2>1. e = ends[i]
    BY <1>2, <1>10
  <2>2. Same(ends[i], e, {"read", "wrote"}) /\ ends[i].keys \subseteq e.keys /\ ~e.err
        /\ Base(e, i, oth, ver, S) /\ Settled(e, oth, ver, S)
    BY <1>9, <2>1 DEF Same
  <2>3. Becomes(i, e, to)
    BY <1>2
  <2> QED
    BY <1>4, <1>6, <2>2, <2>3, EndWorks
<1>11. CASE ends[i].ctx
  <2>1. e \in HandleRecord(ends[i], r) /\ Becomes(i, e, to)
    BY <1>2, <1>11
  <2> DEFINE a == ends[i]
  <2>2. Done(a, e, i, oth, ver, S) \/ Reads(a, e, r, i, oth, ver, S)
    <3>1. Base(a, i, oth, ver, S) /\ Settled(a, oth, ver, S) /\ ~a.err /\ a.ctx /\ e \in HandleRecord(a, r)
      BY <1>9, <1>11, <2>1
    <3> HIDE DEF a, oth, ver, S
    <3> QED
      BY <1>8, <3>1, RecordHandled
  <2>3. CASE Done(a, e, i, oth, ver, S)
    <3>1. Same(a, e, {"read", "wrote"}) /\ a.keys \subseteq e.keys /\ ~e.err
          /\ Base(e, i, oth, ver, S) /\ Settled(e, oth, ver, S)
      BY <2>3 DEF Done, Frame, Same
    <3> QED
      BY <1>4, <1>6, <2>1, <3>1, EndWorks
  <2>4. CASE Reads(a, e, r, i, oth, ver, S)
    <3>1. /\ r.t = "data" /\ r \notin S /\ e.read = Append(a.read, r.m.v)
          /\ ~e.err /\ e.wrote = a.wrote /\ e.keys = a.keys
      BY <2>4 DEF Reads
    <3> DEFINE D == Spoils(to[i], e.read)
               z == [e EXCEPT !.out = <<>>]
    <3>2. r.m.v \notin Elems(a.read) /\ r.m.v \in 1 .. ends[3 - i].wrote
      BY <1>5, <1>7, <3>1 DEF Spoiled, Spoils, RecOK
    <3>3. IsList(e.read) /\ Elems(e.read) = Elems(a.read) \cup {r.m.v} /\ Distinct(e.read)
      <4>1. IsList(a.read) /\ Distinct(a.read)
        BY <1>1 DEF ReadOK
      <4> QED
        BY <3>1, <3>2, <4>1, ListAppended, DistinctAppended
    <3>4. Repeats(D, S, r)
      <4>1. r.epoch > 0 /\ r.seq > 0
        BY <1>7, <3>1 DEF RecOK
      <4>2. \A x \in Elems(to[i]) : x \in Elems(net[i])
        BY <1>6 DEF Rest
      <4>3. \A x \in Elems(net[i]) : x.t = "data" /\ x.m.v = r.m.v =>
              x.epoch = r.epoch /\ x.seq = r.seq /\ x.key = r.key
        BY <1>1, <1>5, <3>1 DEF NetOK
      <4>4. ASSUME NEW x \in D PROVE x \in S \/ (x.epoch = r.epoch /\ x.seq = r.seq /\ x.key = r.key)
        <5>1. x \in Elems(net[i]) /\ x.t = "data" /\ (x.m.v \in Elems(a.read) \/ x.m.v = r.m.v)
          BY <3>3, <4>2, <4>4 DEF Spoils
        <5> QED
          BY <4>3, <5>1 DEF Spoiled, Spoils
      <4> HIDE DEF D
      <4> QED
        BY <4>1, <4>4 DEF Repeats
    <3>5. Base(e, i, oth, ver, D) /\ Settled(e, oth, ver, D)
      <4> HIDE DEF D, oth, ver, S, a
      <4> QED
        BY <2>4, <3>4 DEF Reads
    <3>6. IsEnd(e) /\ e.id = i
      <4> HIDE DEF D, oth, ver
      <4> QED
        BY <3>5, BaseParts
    <3>7. DOMAIN z = EndFields /\ Same(e, z, EndFields \ {"read", "wrote", "out", "ctx"}) /\ z.out = <<>>
          /\ z.ctx = e.ctx
      BY <3>6 DEF IsEnd, EndFields, Same
    <3>8. Base(z, i, oth, ver, D) /\ Settled(z, oth, ver, D)
      <4> HIDE DEF D, oth, ver, z
      <4> QED
        BY <3>5, <3>7, AsideKept
    <3>9. IsList(e.out) /\ \A x \in Elems(e.out) : RecOK(x, i, e.keys, ver, 0)
      BY <3>5, <3>6 DEF Base, Traffic
    <3>10. e.wrote \in Nat /\ ends[i].wrote <= e.wrote
      <4>1. ends[i].wrote \in Nat
        BY <1>1 DEF ReadOK
      <4> QED
        BY <3>1, <4>1
    <3>11. OutOK(e.out, i, e.keys, ver, e.wrote, ends[i].wrote)
      <4>1. \A x \in Elems(e.out) : x.t # "data"
        BY <3>9 DEF RecOK
      <4>2. \A x \in Elems(e.out) : RecOK(x, i, e.keys, ver, e.wrote)
        BY <3>9, <4>1 DEF RecOK
      <4> QED
        BY <3>9, <4>1, <4>2 DEF OutOK
    <3>12. \A v \in Elems(e.read) : v \in 1 .. ends[3 - i].wrote
      BY <1>1, <3>2, <3>3 DEF ReadOK
    <3>13. Moves(i, e, to)
      BY <1>4, <1>6, <2>1, <3>1, <3>3, <3>10, <3>11, <3>12 DEF Moves, Rest
    <3>14. DOMAIN e = EndFields /\ ~e.err
      BY <3>1, <3>6 DEF IsEnd
    <3> QED
      BY <3>8, <3>13, <3>14, EndMoves
  <2> QED
    BY <2>2, <2>3, <2>4
<1> QED
  BY <1>10, <1>11

\* A sequence whose elements are exchanged one by one is one.
LEMMA ListMapped ==
    ASSUME NEW s, IsList(s), NEW t, DOMAIN t = DOMAIN s, t = [k \in DOMAIN s |-> t[k]]
    PROVE  IsList(t)
<1>1. Len(s) \in Nat /\ DOMAIN s = 1 .. Len(s)
  BY LenProperties DEF IsList
<1>2. \A k \in DOMAIN s : t[k] \in Elems(t)
  BY DEF Elems
<1>3. t \in [1 .. Len(s) -> Elems(t)]
  BY <1>1, <1>2
<1>4. t \in Seq(Elems(t))
  BY <1>1, <1>3, SeqDef
<1> QED
  BY <1>4 DEF IsList

\* dtls_check_retransmit
LEMMA RetransmittedSends ==
    ASSUME NEW i, NEW oth, NEW ver, NEW D, NEW e, Base(e, i, oth, ver, D)
    PROVE  LET s == Retransmitted(e) IN
           Sends(e, s, ver) /\ s.err = e.err /\ Same(e, s, EndFields \ {"q", "out"})
<1> DEFINE live == {k \in Due(e) : e.q[k].cnt < MAX_RETRANSMIT}
           more == [k \in DOMAIN e.q |-> IF k \in Due(e) THEN [e.q[k] EXCEPT !.cnt = @ + 1] ELSE e.q[k]]
           recs == [k \in DOMAIN e.q |-> Again(e, e.q[k])]
           left == (DOMAIN e.q \ Due(e)) \cup live
           q == Selected(more, left)
           o == Selected(recs, live)
           s == [e EXCEPT !.q = q, !.out = e.out \o o]
<1>1. Retransmitted(e) = s
  BY DEF Retransmitted
<1>2. /\ IsEnd(e) /\ e.id = i /\ e.gen \in Nat /\ e.err \in BOOLEAN /\ e.p[1].rseq \in Nat
  BY BaseParts
<1>3. Traffic(e, ver)
  BY DEF Base
<1>4. \A k \in DOMAIN e.q : NodeOK(e.q[k], e, ver)
  BY <1>3 DEF Traffic, Elems
<1>5. IsList(q) /\ \A n \in Elems(q) : NodeOK(n, e, ver)
  <2>1. IsList(more)
    <3>1. DOMAIN more = DOMAIN e.q /\ more = [k \in DOMAIN e.q |-> more[k]]
      OBVIOUS
    <3> HIDE DEF more
    <3> QED
      BY <1>3, <3>1, ListMapped DEF Traffic
  <2>2. \A k \in left \cap DOMAIN e.q : NodeOK(more[k], e, ver)
    <3> SUFFICES ASSUME NEW k \in left \cap DOMAIN e.q PROVE NodeOK(more[k], e, ver)
      OBVIOUS
    <3>1. NodeOK(e.q[k], e, ver)
      BY <1>4
    <3>2. CASE k \in Due(e)
      <4>1. e.q[k].cnt < MAX_RETRANSMIT
        BY <3>2
      <4> DEFINE n == e.q[k]
                 x == [n EXCEPT !.cnt = n.cnt + 1]
      <4>2. more[k] = x
        BY <3>2
      <4>3. NodeOK(n, e, ver) /\ n.cnt < MAX_RETRANSMIT
        BY <3>1, <4>1
      <4> HIDE DEF n
      <4>4. /\ DOMAIN x = {"r", "first", "cnt", "peer"} /\ x.r = n.r /\ x.peer = n.peer
            /\ x.cnt = n.cnt + 1
        BY <4>3 DEF NodeOK
      <4>5. x.cnt \in 0 .. MAX_RETRANSMIT
        BY <4>3, <4>4, RecordAssumption DEF NodeOK
      <4> HIDE DEF x
      <4>6. NodeOK(x, e, ver)
        BY <4>3, <4>4, <4>5 DEF NodeOK
      <4> QED
        BY <4>2, <4>6
    <3>3. CASE k \notin Due(e)
      BY <3>1, <3>3
    <3> QED
      BY <3>2, <3>3
  <2>3. DOMAIN more = DOMAIN e.q
    OBVIOUS
  <2> HIDE DEF more, left
  <2>4. IsList(q) /\ \A x \in Elems(q) : \E k \in left \cap DOMAIN more : x = more[k]
    BY <2>1, SelectedIn
  <2> QED
    BY <2>2, <2>3, <2>4
<1>6. IsList(o) /\ \A r \in Elems(o) : RecOK(r, e.id, e.keys, ver, 0)
  <2>1. IsList(recs)
    <3>1. DOMAIN recs = DOMAIN e.q /\ recs = [k \in DOMAIN e.q |-> recs[k]]
      OBVIOUS
    <3> HIDE DEF recs
    <3> QED
      BY <1>3, <3>1, ListMapped DEF Traffic
  <2>2. \A k \in DOMAIN e.q : RecOK(Again(e, e.q[k]), e.id, e.keys, ver, 0)
    <3> SUFFICES ASSUME NEW k \in DOMAIN e.q PROVE RecOK(Again(e, e.q[k]), e.id, e.keys, ver, 0)
      OBVIOUS
    <3> DEFINE r == e.q[k].r
               a == Again(e, e.q[k])
    <3>1. RecOK(r, e.id, e.keys, ver, 0)
      BY <1>4 DEF NodeOK
    <3>2. \E y : a = [r EXCEPT !.key = y]
      BY DEF Again
    <3> HIDE DEF r, a
    <3>3. PICK y : a = [r EXCEPT !.key = y]
      BY <3>2
    <3>4. DOMAIN a = DOMAIN r /\ a.t = r.t /\ a.epoch = r.epoch /\ a.seq = r.seq /\ a.m = r.m
      BY <3>1, <3>3 DEF RecOK
    <3>5. RecOK(a, e.id, e.keys, ver, 0)
      BY <3>1, <3>4 DEF RecOK
    <3> QED
      BY <3>5 DEF a
  <2>3. \A k \in DOMAIN recs : recs[k] = Again(e, e.q[k]) /\ k \in DOMAIN e.q
    OBVIOUS
  <2> HIDE DEF recs, live
  <2>4. IsList(o) /\ \A x \in Elems(o) : \E k \in live \cap DOMAIN recs : x = recs[k]
    BY <2>1, SelectedIn
  <2> QED
    BY <2>2, <2>3, <2>4
<1> HIDE DEF live, more, recs, left, q, o
<1>7. DOMAIN s = EndFields /\ Same(e, s, EndFields \ {"q", "out"}) /\ s.q = q /\ s.out = e.out \o o
  BY <1>2 DEF IsEnd, EndFields, Same
<1> HIDE DEF s
<1>8. /\ s.id = e.id /\ s.peers = e.peers /\ s.state = e.state /\ s.keys = e.keys /\ s.p = e.p
      /\ s.hs = e.hs /\ s.gen = e.gen /\ s.err = e.err
  BY <1>7 DEF Same, EndFields
<1>9. Keeps(e, s)
  <2>1. Same(e, s, EndFields \ {"gen", "hs", "p", "q", "out", "err", "status"})
    BY <1>7 DEF Same
  <2>2. Same(e.hs, s.hs, {"on", "client", "master"}) /\ Same(e.p[1], s.p[1], SecFields \ {"rseq"})
    BY <1>8 DEF Same
  <2>3. IsEnd(s)
    BY <1>2, <1>7, <1>8 DEF IsEnd
  <2>4. s.gen >= e.gen /\ s.p[1].rseq >= e.p[1].rseq
    BY <1>2, <1>8
  <2> QED
    BY <1>2, <1>8, <2>1, <2>2, <2>3, <2>4 DEF Keeps
<1>10. Traffic(s, ver)
  <2>1. \A n : NodeOK(n, e, ver) => NodeOK(n, s, ver)
    BY <1>8 DEF NodeOK, HasPeer
  <2>2. IsList(e.out \o o) /\ Elems(e.out \o o) \subseteq Elems(e.out) \cup Elems(o)
    BY <1>3, <1>6, ListsJoined DEF Traffic
  <2> QED
    BY <1>3, <1>5, <1>6, <1>7, <1>8, <2>1, <2>2 DEF Traffic
<1> QED
  BY <1>1, <1>7, <1>8, <1>9, <1>10 DEF Sends

\* triggerPeriodicRetransmit
LEMMA RetransmitKeeps ==
    ASSUME LinkInv, NEW i \in Ends, CheckRetransmit(i)
    PROVE  LinkInv'
<1> DEFINE a == ends[i]
           e == Retransmitted(a)
           oth == ends[3 - i].keys
           ver == verified'
           S == Spoiled(i)
<1>1. Becomes(i, e, net) /\ verified \subseteq verified'
  BY DEF CheckRetransmit
<1>2. Base(a, i, oth, ver, S) /\ Settled(a, oth, ver, S) /\ ~a.err
  BY <1>1, EndAsIs
<1>3. Rest(i, net)
  BY DEF Rest, LinkInv, NetOK
<1>4. Sends(a, e, ver) /\ e.err = a.err /\ Same(a, e, EndFields \ {"q", "out"})
  <2> HIDE DEF a, oth, ver, S
  <2> QED
    BY <1>2, RetransmittedSends
<1> HIDE DEF e
<1>5. Base(e, i, oth, ver, S) /\ Settled(e, oth, ver, S)
  <2> HIDE DEF a, oth, ver, S
  <2> QED
    BY <1>2, <1>4, KeptBase
<1>6. Same(a, e, {"read", "wrote"}) /\ a.keys \subseteq e.keys /\ ~e.err
  BY <1>2, <1>4 DEF Same, EndFields
<1> QED
  BY <1>1, <1>3, <1>5, <1>6, EndWorks

\* A handshake that the client starts.
Started(e) ==
  Told([SendClientHello([e EXCEPT !.hs = NewHandshake], 0) EXCEPT !.state = "clienthello"], "connect")

\* A client that sends its first hello.
LEMMA HandshakeStarted ==
    ASSUME NEW oth, NEW ver, NEW D, NEW e, Base(e, 1, oth, ver, D), HasPeer(e), ~e.err
    PROVE  Done(e, Started(e), 1, oth, ver, D)
<1> DEFINE h == [e EXCEPT !.hs = NewHandshake]
           c == SendClientHello(h, 0)
           s == [c EXCEPT !.state = "clienthello"]
<1>1. /\ DOMAIN NewHandshake = HsFields /\ NewHandshake.on = TRUE /\ NewHandshake.reorder = {}
      /\ NewHandshake.client = 0 /\ NewHandshake.server = 0
  BY DEF NewHandshake, NoHandshake, HsFields
<1>2. Base(h, 1, oth, ver, D) /\ h.hs = NewHandshake /\ Same(e, h, EndFields \ {"hs"})
  <2> DEFINE n == NewHandshake
  <2>1. DOMAIN n = HsFields /\ n.on \in BOOLEAN /\ n.reorder = {} /\ n.client = 0 /\ n.server = 0
    BY <1>1
  <2> HIDE DEF n
  <2>2. LET x == [e EXCEPT !.hs = n] IN
          Base(x, 1, oth, ver, D) /\ x.hs = n /\ Same(e, x, EndFields \ {"hs"})
    BY <2>1, HandshakeSet
  <2> QED
    BY <2>2 DEF n
<1> HIDE DEF h
<1>3. h.hs.on /\ HasPeer(h) /\ Frame(e, h) /\ h.err = e.err /\ h.status = e.status
  BY <1>1, <1>2 DEF Same, EndFields, HasPeer, Frame
<1>4. Base(c, 1, oth, ver, D) /\ Frame(h, c) /\ c.state = h.state /\ DerivingRight(c, ver, D)
  <2> DEFINE k == 0
  <2>1. k \in ver \cup {0} /\ (k # 0 => DerivingRight(h, ver, D))
    OBVIOUS
  <2>2. HasPeer(h) /\ Base(h, 1, oth, ver, D)
    BY <1>2, <1>3
  <2> HIDE DEF k
  <2>3. LET x == SendClientHello(h, k) IN
        /\ Base(x, 1, oth, ver, D) /\ Frame(h, x) /\ x.state = h.state
        /\ h.hs.on => DerivingRight(x, ver, D)
    BY <2>1, <2>2, ClientHelloSent
  <2> QED
    BY <1>3, <2>3 DEF k
<1>5. c.err = h.err
  <2> DEFINE d == [Drawn(h) EXCEPT !.hs.client = Fresh(h)]
             m == [Message("ClientHello", d.hs.client) EXCEPT !.cookie = 0, !.cipher = h.can.ciphers]
             n == Numbered(d, m)
             g == Counted(d)
  <2>1. c = Send(g, "handshake", n)
    BY DEF SendClientHello, SendUnhashed
  <2>2. IsEnd(h)
    BY <1>2, BaseParts
  <2>3. IsEnd(Drawn(h)) /\ Drawn(h).err = h.err
    BY <2>2 DEF Drawn, IsEnd, EndFields
  <2>4. IsEnd(d) /\ d.err = h.err
    <3> DEFINE w == Drawn(h)
               y == Noted(w, "client", Fresh(h))
    <3>1. IsEnd(w) /\ "client" \in HsFields /\ w.err = h.err
      BY <2>3 DEF HsFields
    <3>2. d = y
      BY DEF Noted
    <3> HIDE DEF w, d
    <3>3. IsEnd(y) /\ Same(w, y, EndFields \ {"hs"})
      BY <3>1, NotedFields
    <3> HIDE DEF y
    <3>4. y.err = w.err
      BY <3>3 DEF Same, EndFields
    <3> QED
      BY <3>1, <3>2, <3>3, <3>4
  <2> HIDE DEF d, n
  <2>5. IsEnd(g) /\ g.err = d.err
    <3> DEFINE y == Noted(d, "ms", d.hs.ms + 1)
    <3>1. g = y \/ g = d
      BY <2>4 DEF Counted, Noted, IsEnd, EndFields, HsFields
    <3> HIDE DEF g
    <3>2. "ms" \in HsFields
      BY DEF HsFields
    <3>3. IsEnd(y) /\ Same(d, y, EndFields \ {"hs"})
      BY <2>4, <3>2, NotedFields
    <3> HIDE DEF y
    <3>4. y.err = d.err
      BY <3>3 DEF Same, EndFields
    <3> QED
      BY <2>4, <3>1, <3>3, <3>4
  <2> HIDE DEF g
  <2> DEFINE x == Send(g, "handshake", n)
  <2>6. Same(g, x, EndFields \ {"p", "q", "out"})
    BY <2>5, SendFields
  <2> HIDE DEF x
  <2>7. x.err = g.err
    BY <2>6 DEF Same, EndFields
  <2> QED
    BY <2>1, <2>4, <2>5, <2>7 DEF x
<1> HIDE DEF c
<1>6. HasPeer(c)
  BY <1>3, <1>4 DEF HasPeer
<1>7. Base(s, 1, oth, ver, D) /\ s.state = "clienthello" /\ Same(c, s, EndFields \ {"state"})
  <2>1. "clienthello" \in PeerStates
    BY DEF PeerStates, Before
  <2>2. Base(c, 1, oth, ver, D)
    BY <1>4
  <2> QED
    BY <1>6, <2>1, <2>2, StateSet
<1> HIDE DEF s
<1>8. s.id = c.id /\ s.hs = c.hs /\ s.keys = c.keys /\ s.p = c.p /\ s.err = c.err /\ Frame(c, s)
  BY <1>7 DEF Same, EndFields, Frame
<1>9. Own(s) = Own(c) /\ Used(s) = Used(c) /\ s.id = 1
  BY <1>7, <1>8, BaseParts DEF Own, Used
<1>10. DerivingRight(s, ver, D)
  BY <1>4, <1>8, <1>9 DEF DerivingRight, Apart
<1>11. Deriving(s) /\ ~Finishing(s) /\ s.state # "connected"
  BY <1>7, <1>9 DEF Deriving, Finishing
<1>12. Settled(s, oth, ver, D)
  BY <1>10, <1>11 DEF Settled
<1>13. Frame(e, s)
  <2>1. Frame(e, c)
    BY <1>3, <1>4, FrameOn
  <2> QED
    BY <1>8, <2>1, FrameOn
<1>14. Done(e, s, 1, oth, ver, D)
  BY <1>3, <1>5, <1>7, <1>8, <1>12, <1>13 DEF Done
<1>15. Done(e, Told(s, "connect"), 1, oth, ver, D)
  BY <1>14, ToldDone
<1> QED
  BY <1>15 DEF Started, s, c, h

\* dtls_connect_peer: a new peer, a new handshake, or nothing.
LEMMA DtlsConnects ==
    ASSUME NEW oth, NEW ver, NEW D, NEW e, Base(e, 1, oth, ver, D), Settled(e, oth, ver, D), ~e.err, e.ctx
    PROVE  Done(e, DtlsConnect(e), 1, oth, ver, D)
<1> DEFINE n == NewPeer(e, "client")
<1>1. DtlsConnect(e) = IF ~HasPeer(e) THEN Started(n) ELSE IF e.state = "connected" THEN Started(e) ELSE e
  BY DEF DtlsConnect, Started
<1>2. CASE ~HasPeer(e)
  <2>1. e.q = <<>>
    BY <1>2, NothingQueued
  <2>2. Role(1) = "client"
    BY DEF Role
  <2> DEFINE x == NewPeer(e, Role(1))
  <2>3. /\ Base(x, 1, oth, ver, D) /\ Frame(e, x) /\ x.state = "init"
        /\ Same(e, x, {"err", "out", "q", "freed", "can"})
    BY <2>1, PeerComes
  <2>4. x = n
    BY <2>2
  <2> HIDE DEF x, n
  <2>5. HasPeer(x) /\ ~x.err
    BY <2>3 DEF HasPeer, Same
  <2>6. Done(x, Started(x), 1, oth, ver, D)
    BY <2>3, <2>5, HandshakeStarted
  <2>7. Done(e, Started(x), 1, oth, ver, D)
    BY <2>3, <2>6, FrameOn DEF Done
  <2> QED
    BY <1>1, <1>2, <2>4, <2>7
<1>3. CASE HasPeer(e) /\ e.state = "connected"
  <2>1. Done(e, Started(e), 1, oth, ver, D)
    BY <1>3, HandshakeStarted
  <2> QED
    BY <1>1, <1>3, <2>1
<1>4. CASE HasPeer(e) /\ e.state # "connected"
  BY <1>1, <1>4 DEF Done, Frame, Same
<1> QED
  BY <1>2, <1>3, <1>4

\* A client that connects, or handshakes anew.
LEMMA ConnectKeeps ==
    ASSUME LinkInv, UNCHANGED verified, NEW c, Becomes(1, DtlsConnect(c), net),
           \/ c = Client /\ Client.ctx
           \/ c = [Client EXCEPT !.ctx = TRUE] /\ (Client.ctx \/ ~HasPeer(Client))
    PROVE  LinkInv'
<1> DEFINE a == Client
           e == DtlsConnect(c)
           oth == ends[3 - 1].keys
           ver == verified'
           S == Spoiled(1)
<1>1. 1 \in Ends /\ verified \subseteq verified' /\ ends[1] = a
  BY DEF Ends, Client
<1>2. Base(a, 1, oth, ver, S) /\ Settled(a, oth, ver, S) /\ ~a.err
  BY <1>1, EndAsIs
<1>3. Rest(1, net)
  BY <1>1 DEF Rest, LinkInv, NetOK
<1>4. Becomes(1, e, net)
  OBVIOUS
<1> HIDE DEF e
<1>5. a.ctx \/ ~HasPeer(a)
  OBVIOUS
<1>6. IsEnd(a) /\ a.ctx \in BOOLEAN
  <2> HIDE DEF a, oth, ver, S
  <2> QED
    BY <1>2, BaseParts DEF Base, Sound
<1>7. /\ DOMAIN c = EndFields /\ Same(a, c, EndFields \ {"ctx"}) /\ c.ctx = TRUE
  <2>1. (c = a /\ a.ctx) \/ c = [a EXCEPT !.ctx = TRUE]
    OBVIOUS
  <2> HIDE DEF a
  <2>2. CASE c = a /\ a.ctx
    BY <1>6, <2>2 DEF IsEnd, Same
  <2>3. CASE c = [a EXCEPT !.ctx = TRUE]
    BY <1>6, <2>3 DEF IsEnd, EndFields, Same
  <2> QED
    BY <2>1, <2>2, <2>3
<1> HIDE DEF a, oth, ver, S
<1>8. /\ Same(a, c, EndFields \ {"read", "wrote", "out", "ctx"}) /\ c.out = a.out /\ c.err = a.err
      /\ c.ctx = a.ctx \/ (c.ctx \in BOOLEAN /\ ~HasPeer(a))
  BY <1>5, <1>6, <1>7 DEF Same, EndFields
<1>9. Base(c, 1, oth, ver, S) /\ Settled(c, oth, ver, S)
  BY <1>2, <1>7, <1>8, AsideKept
<1>10. ~c.err /\ c.ctx
  BY <1>2, <1>7, <1>8
<1>11. Done(c, e, 1, oth, ver, S)
  BY <1>9, <1>10, DtlsConnects DEF e
<1>12. Base(e, 1, oth, ver, S) /\ Settled(e, oth, ver, S) /\ ~e.err
  BY <1>11 DEF Done
<1>13. Same(a, e, {"read", "wrote"}) /\ a.keys \subseteq e.keys
  BY <1>7, <1>11 DEF Done, Frame, Same, EndFields
<1> QED
  BY <1>1, <1>3, <1>4, <1>12, <1>13, EndWorks DEF oth, ver, S

\* close
LEMMA CloseKeeps ==
    ASSUME LinkInv, CloseClient
    PROVE  LinkInv'
<1> DEFINE a == Client
           e == CloseContext(a)
           oth == ends[3 - 1].keys
           ver == verified'
           S == Spoiled(1)
           p == IF HasPeer(a) THEN Close(a) ELSE a
           s == StopRetransmission(p)
           g == IF HasPeer(s) THEN NoPeer(s) ELSE s
           z == [g EXCEPT !.ctx = FALSE]
<1>1. 1 \in Ends /\ verified \subseteq verified' /\ ends[1] = a /\ Becomes(1, e, net)
  BY DEF Ends, Client, CloseClient
<1>2. Base(a, 1, oth, ver, S) /\ Settled(a, oth, ver, S) /\ ~a.err
  BY <1>1, EndAsIs
<1>3. Rest(1, net)
  BY <1>1 DEF Rest, LinkInv, NetOK
<1>4. CloseContext(a) = [IF HasPeer(s) THEN DestroyPeer(s) ELSE s EXCEPT !.ctx = FALSE]
  BY DEF CloseContext
<1> HIDE DEF e, a, oth, ver, S, s
<1>5. Base(p, 1, oth, ver, S) /\ Frame(a, p) /\ ~p.err /\ p.state \in {"closing", "none"}
  <2>1. CASE HasPeer(a)
    <3> DEFINE x == Close(a)
    <3>1. /\ Base(x, 1, oth, ver, S) /\ Frame(a, x) /\ x.state = "closing"
          /\ Same(a, x, {"err", "q", "freed"})
      BY <1>2, <2>1, PeerClosed
    <3>2. p = x
      BY <2>1
    <3> HIDE DEF x, p
    <3> QED
      BY <1>2, <3>1, <3>2 DEF Same
  <2>2. CASE ~HasPeer(a)
    BY <1>2, <2>2 DEF HasPeer, Frame, Same
  <2> QED
    BY <2>1, <2>2
<1> HIDE DEF p
<1>6. Base(s, 1, oth, ver, S) /\ Frame(p, s) /\ ~s.err /\ s.q = <<>> /\ s.state = p.state
  <2>1. Sends(p, StopRetransmission(p), ver)
    BY <1>5, Marks
  <2>2. Base(StopRetransmission(p), 1, oth, ver, S)
    BY <1>5, <2>1, KeptBase
  <2>3. Frame(p, StopRetransmission(p))
    BY <2>1, FrameKept DEF Sends
  <2>4. IsEnd(p)
    BY <1>5, BaseParts
  <2>5. /\ StopRetransmission(p).err = p.err /\ StopRetransmission(p).q = <<>>
        /\ StopRetransmission(p).state = p.state
    BY <2>4 DEF StopRetransmission, IsEnd, EndFields
  <2> QED
    BY <1>5, <2>2, <2>3, <2>5 DEF s
<1>7. e = z
  <2>1. HasPeer(s) => DestroyPeer(s) = NoPeer(s)
    BY <1>5, <1>6 DEF DestroyPeer, HasPeer
  <2> QED
    BY <1>4, <2>1 DEF e
<1>8. Base(g, 1, oth, ver, S) /\ Settled(g, oth, ver, S) /\ Frame(s, g) /\ ~g.err /\ ~HasPeer(g)
  <2>1. CASE HasPeer(s)
    <3> DEFINE x == NoPeer(s)
    <3>1. Base(s, 1, oth, ver, S) /\ s.q = <<>>
      BY <1>6
    <3>2. /\ Base(x, 1, oth, ver, S) /\ Settled(x, oth, ver, S) /\ Frame(s, x)
          /\ ~HasPeer(x) /\ Same(s, x, {"err", "out", "q", "freed", "peers", "can"})
      BY <3>1, PeerGone
    <3>3. g = x
      BY <2>1
    <3> HIDE DEF x, g
    <3> QED
      BY <1>6, <3>2, <3>3 DEF Same
  <2>2. CASE ~HasPeer(s)
    <3>1. g = s /\ s.state = "none"
      BY <2>2 DEF HasPeer
    <3> HIDE DEF g
    <3>2. Settled(s, oth, ver, S)
      BY <3>1, AtRest
    <3> QED
      BY <1>6, <2>2, <3>1, <3>2 DEF Frame, Same
  <2> QED
    BY <2>1, <2>2
<1> HIDE DEF g
<1>9. IsEnd(g)
  BY <1>8, BaseParts
<1>10. DOMAIN z = EndFields /\ Same(g, z, EndFields \ {"ctx"}) /\ z.ctx = FALSE
  BY <1>9 DEF IsEnd, EndFields, Same
<1> HIDE DEF z
<1>11. /\ Same(g, z, EndFields \ {"read", "wrote", "out", "ctx"}) /\ z.out = g.out /\ z.err = g.err
       /\ z.ctx = g.ctx \/ (z.ctx \in BOOLEAN /\ ~HasPeer(g))
  BY <1>8, <1>10 DEF Same, EndFields
<1>12. Base(z, 1, oth, ver, S) /\ Settled(z, oth, ver, S)
  BY <1>8, <1>10, <1>11, AsideKept
<1>13. Frame(a, g)
  <2>1. Frame(a, s)
    BY <1>5, <1>6, FrameOn
  <2> QED
    BY <1>8, <2>1, FrameOn
<1>14. Same(a, z, {"read", "wrote"}) /\ a.keys \subseteq z.keys /\ ~z.err
  BY <1>8, <1>10, <1>11, <1>13 DEF Frame, Same, EndFields
<1>15. Becomes(1, z, net)
  BY <1>1, <1>7
<1> QED
  BY <1>1, <1>3, <1>12, <1>14, <1>15, EndWorks DEF oth, ver, S

\* A fault of the channels.
LEMMA FaultKeeps ==
    ASSUME LinkInv, NEW i \in Ends, Fault(i)
    PROVE  LinkInv'
<1>1. DOMAIN net = Ends /\ \A k \in Ends : IsList(net[k])
  BY DEF LinkInv, NetOK
<1>2. net[i] # <<>> /\ IsList(net[i]) /\ UNCHANGED <<ends, verified>>
  BY <1>1 DEF Fault
<1>3. IsList(Tail(net[i])) /\ Elems(Tail(net[i])) \subseteq Elems(net[i]) /\ Head(net[i]) \in Elems(net[i])
  BY <1>2, ListEnds
<1>4. ASSUME NEW s, net' = [net EXCEPT ![i] = s], IsList(s), Elems(s) \subseteq Elems(net[i])
      PROVE  LinkInv'
  <2>1. DOMAIN net' = Ends /\ \A k \in Ends : net'[k] = IF k = i THEN s ELSE net[k]
    BY <1>1, <1>4
  <2>2. \A k \in Ends : IsList(net'[k]) /\ Elems(net'[k]) \subseteq Elems(net[k])
    BY <1>1, <1>4, <2>1
  <2> QED
    BY <1>2, <2>1, <2>2, NetMoves
<1>5. CASE net' = [net EXCEPT ![i] = Tail(@)]
  BY <1>3, <1>4, <1>5
<1>6. CASE net' = [net EXCEPT ![i] = <<>>]
  BY <1>4, <1>6, EmptyList
<1>7. CASE net' = [net EXCEPT ![i] = Append(@, Head(@))]
  <2> DEFINE s == Append(net[i], Head(net[i]))
  <2>1. IsList(s) /\ Elems(s) = Elems(net[i]) \cup {Head(net[i])}
    BY <1>2, ListAppended
  <2>2. net' = [net EXCEPT ![i] = s]
    BY <1>7
  <2> HIDE DEF s
  <2> QED
    BY <1>3, <1>4, <2>1, <2>2
<1>8. CASE \E k \in 1 .. Len(net[i]) - 1 : net' = [net EXCEPT ![i] = SwapAt(@, k)]
  <2>1. PICK k \in 1 .. Len(net[i]) - 1 : net' = [net EXCEPT ![i] = SwapAt(@, k)]
    BY <1>8
  <2> DEFINE s == SwapAt(net[i], k)
  <2>2. IsList(s) /\ Elems(s) \subseteq Elems(net[i])
    BY <1>2, ListSwapped
  <2>3. net' = [net EXCEPT ![i] = s]
    BY <2>1
  <2> HIDE DEF s
  <2> QED
    BY <1>4, <2>2, <2>3
<1> QED
  BY <1>5, <1>6, <1>7, <1>8 DEF Fault

\* dtls_write
LEMMA WriteKeeps ==
    ASSUME LinkInv, NEW i \in Ends, SendData(i)
    PROVE  LinkInv'
<1> DEFINE a == ends[i]
           m == Message("data", a.wrote + 1)
           s == [a EXCEPT !.wrote = a.wrote + 1]
           e == DtlsWrite(a)
           oth == ends[3 - i].keys
           ver == verified'
           S == Spoiled(i)
           z == [e EXCEPT !.out = <<>>]
<1>1. verified \subseteq verified' /\ Becomes(i, e, net)
  BY DEF SendData
<1>2. Base(a, i, oth, ver, S) /\ Settled(a, oth, ver, S) /\ ~a.err /\ a.out = <<>>
  BY <1>1, EndAsIs
<1>3. Rest(i, net)
  BY DEF Rest, LinkInv, NetOK
<1>4. /\ IsList(a.read) /\ Distinct(a.read) /\ a.wrote \in Nat
      /\ \A v \in Elems(a.read) : v \in 1 .. ends[3 - i].wrote
  BY DEF LinkInv, ReadOK
<1>5. S = Spoils(net[i], a.read)
  BY DEF Spoiled
<1> HIDE DEF oth, ver, S
<1>6. IsEnd(a) /\ a.id = i /\ i \in 1 .. 2
  <2> HIDE DEF a
  <2> QED
    BY <1>2, BaseParts
<1>7. DOMAIN s = EndFields /\ Same(a, s, EndFields \ {"wrote"}) /\ s.wrote = a.wrote + 1
  <2> HIDE DEF a
  <2> QED
    BY <1>6 DEF IsEnd, EndFields, Same
<1>8. e = IF a.state = "connected" THEN Send(s, "data", m) ELSE s
  <2>1. s = [a EXCEPT !.wrote = @ + 1] /\ m = Message("data", s.wrote)
    BY <1>7
  <2> HIDE DEF s, m, a
  <2> QED
    BY <2>1 DEF DtlsWrite
<1> HIDE DEF a, s, e
<1>9. /\ Same(a, s, EndFields \ {"read", "wrote", "out", "ctx"}) /\ s.out = a.out /\ s.ctx = a.ctx
      /\ s.state = a.state /\ s.id = a.id /\ s.keys = a.keys /\ s.read = a.read /\ s.err = a.err
  BY <1>7 DEF Same, EndFields
<1>10. Base(s, i, oth, ver, S) /\ Settled(s, oth, ver, S)
  BY <1>2, <1>7, <1>9, AsideKept
<1>11. IsEnd(s) /\ s.id = i /\ s.err \in BOOLEAN /\ s.gen \in Nat /\ s.p[1].rseq \in Nat
  BY <1>10, BaseParts
<1>12. /\ DOMAIN e = EndFields /\ e.wrote = s.wrote /\ e.read = s.read /\ e.keys = s.keys /\ e.err = s.err
       /\ OutOK(e.out, i, e.keys, ver, e.wrote, a.wrote)
       /\ Base(z, i, oth, ver, S) /\ Settled(z, oth, ver, S)
  <2>1. CASE a.state # "connected"
    <3>1. e = s /\ e.out = <<>>
      BY <1>2, <1>8, <1>9, <2>1
    <3>2. OutOK(<<>>, i, e.keys, ver, e.wrote, a.wrote)
      BY EmptyList DEF OutOK
    <3>3. DOMAIN z = EndFields /\ Same(s, z, EndFields \ {"read", "wrote", "out", "ctx"}) /\ z.out = <<>> /\ z.ctx = s.ctx
      BY <1>7, <3>1 DEF EndFields, Same
    <3> HIDE DEF z
    <3>4. Base(z, i, oth, ver, S) /\ Settled(z, oth, ver, S)
      BY <1>10, <3>3, AsideKept
    <3> QED
      BY <1>7, <3>1, <3>2, <3>4
  <2>2. CASE a.state = "connected"
    <3> DEFINE r == Record(s, "data", m)
               x == Send(s, "data", m)
    <3>1. e = x
      BY <1>8, <2>2
    <3>2. /\ IsEnd(x) /\ Same(s, x, EndFields \ {"p", "q", "out"})
          /\ x.p[2] = s.p[2] /\ Same(s.p[1], x.p[1], SecFields \ {"rseq"})
          /\ x.p[1].rseq = s.p[1].rseq + 1
          /\ x.out = Append(s.out, r)
          /\ x.q = IF IsKept(r) THEN Append(s.q, Kept(s, r)) ELSE s.q
      BY <1>11, SendFields
    <3>3. /\ r.t = "data" /\ r.m.v = a.wrote + 1 /\ r.epoch = s.p[1].epoch /\ r.seq = s.p[1].rseq
          /\ DOMAIN r = {"t", "epoch", "seq", "key", "m"}
      BY DEF Record, Message
    <3>4. ~IsKept(r)
      BY <3>3 DEF IsKept
    <3> HIDE DEF x, r, m
    <3>5. s.p[1].epoch > 0 /\ s.p[1].rseq > 0
      BY <1>9, <1>10, <2>2 DEF Settled, ConnectedRight
    <3>6. s.p[1].epoch \in Nat
      <4>1. s.p[1].epoch \in Int
        BY <1>10, BaseParts
      <4> QED
        BY <3>5, <4>1
    <3>7. /\ x.wrote = s.wrote /\ x.read = s.read /\ x.keys = s.keys /\ x.err = s.err /\ x.ctx = s.ctx
      BY <3>2 DEF Same, EndFields
    <3>8. r.m.v \in 1 .. s.wrote /\ r.m.v > a.wrote
      BY <1>4, <1>7, <3>3
    <3>9. RecOK(r, i, x.keys, ver, x.wrote)
      BY <1>11, <3>3, <3>5, <3>6, <3>7, <3>8 DEF RecOK
    <3>10. IsList(x.out) /\ Elems(x.out) = {r}
      <4>1. x.out = Append(<<>>, r)
        BY <1>2, <1>9, <3>2
      <4>2. IsList(Append(<<>>, r)) /\ Elems(Append(<<>>, r)) = {} \cup {r}
        BY EmptyList, ListAppended
      <4> QED
        BY <4>1, <4>2
    <3>11. OutOK(x.out, i, x.keys, ver, x.wrote, a.wrote)
      BY <3>8, <3>9, <3>10 DEF OutOK
    <3>12. /\ DOMAIN z = EndFields /\ Same(x, z, EndFields \ {"out"}) /\ z.out = <<>>
      BY <3>1, <3>2 DEF IsEnd, EndFields, Same
    <3> HIDE DEF z
    <3>13. /\ z.id = s.id /\ z.peers = s.peers /\ z.state = s.state /\ z.keys = s.keys /\ z.p = x.p
           /\ z.hs = s.hs /\ z.gen = s.gen /\ z.err = s.err /\ z.q = s.q
      BY <3>2, <3>4, <3>12 DEF Same, EndFields
    <3>14. Keeps(s, z)
      <4>1. Same(s, z, EndFields \ {"gen", "hs", "p", "q", "out", "err", "status"})
        BY <3>2, <3>12 DEF Same
      <4>2. Same(s.hs, z.hs, {"on", "client", "master"})
        BY <3>13 DEF Same
      <4>3. Same(s.p[1], z.p[1], SecFields \ {"rseq"}) /\ z.p[2] = s.p[2]
        BY <3>2, <3>13
      <4>4. IsEnd(z)
        BY <1>11, <3>2, <3>12, <3>13 DEF IsEnd
      <4>5. /\ z.gen >= s.gen /\ z.p[1].rseq \in Nat /\ z.p[1].rseq >= s.p[1].rseq
        <5>1. z.gen = s.gen /\ z.p[1].rseq = s.p[1].rseq + 1 /\ s.gen \in Nat /\ s.p[1].rseq \in Nat
          BY <1>11, <3>2, <3>13
        <5> QED
          BY <5>1
      <4> QED
        BY <1>11, <3>13, <4>1, <4>2, <4>3, <4>4, <4>5 DEF Keeps
    <3>15. Traffic(s, ver) => Traffic(z, ver)
      <4>1. \A n : NodeOK(n, s, ver) => NodeOK(n, z, ver)
        BY <3>13 DEF NodeOK, HasPeer
      <4> QED
        BY <3>12, <3>13, <4>1, EmptyList DEF Traffic
    <3>16. Sends(s, z, ver)
      BY <3>14, <3>15 DEF Sends
    <3>17. Base(z, i, oth, ver, S) /\ Settled(z, oth, ver, S)
      BY <1>10, <3>16, KeptBase
    <3> QED
      BY <3>1, <3>2, <3>7, <3>11, <3>17 DEF IsEnd
  <2> QED
    BY <2>1, <2>2
<1>13. a.wrote <= e.wrote /\ e.wrote \in Nat
  BY <1>4, <1>7, <1>12
<1>14. Moves(i, e, net)
  <2>1. a.keys \subseteq e.keys
    BY <1>9, <1>12
  <2>2. IsList(e.read) /\ Distinct(e.read) /\ \A v \in Elems(e.read) : v \in 1 .. ends[3 - i].wrote
    BY <1>4, <1>9, <1>12
  <2>3. OutOK(e.out, i, e.keys, verified', e.wrote, ends[i].wrote)
    BY <1>12 DEF ver, a
  <2>4. ends[i].keys \subseteq e.keys /\ ends[i].wrote <= e.wrote
    BY <1>13, <2>1 DEF a
  <2> QED
    BY <1>1, <1>3, <1>13, <2>2, <2>3, <2>4 DEF Moves, Rest
<1>15. ~e.err /\ DOMAIN e = EndFields
  BY <1>2, <1>9, <1>12
<1>16. S = Spoils(net[i], e.read)
  BY <1>5, <1>9, <1>12
<1>17. /\ Base(z, i, ends[3 - i].keys, verified', Spoils(net[i], e.read))
       /\ Settled(z, ends[3 - i].keys, verified', Spoils(net[i], e.read))
  BY <1>12, <1>16 DEF oth, ver
<1> QED
  BY <1>14, <1>15, <1>17, EndMoves

\* An end before anything happened.
Blank(e, i) ==
  /\ DOMAIN e = EndFields /\ e.id = i /\ e.gen = 1 /\ e.peers = 0 /\ e.state = "none"
  /\ e.role = "none" /\ e.hs = NoHandshake /\ e.p = <<NoSecurity, NoSecurity>>
  /\ e.q = <<>> /\ e.out = <<>> /\ e.err = FALSE /\ e.freed = FALSE /\ e.ctx \in BOOLEAN
  /\ e.read = <<>> /\ e.wrote = 0 /\ e.keys = {} /\ e.reused = FALSE

\* It is right.
LEMMA BlankBase ==
    ASSUME NEW i \in Ends, NEW e, Blank(e, i), NEW oth
    PROVE  Base(e, i, oth, {}, {}) /\ Settled(e, oth, {}, {})
<1>1. /\ DOMAIN e = EndFields /\ e.id = i /\ e.gen = 1 /\ e.peers = 0 /\ e.state = "none"
      /\ e.role = "none" /\ e.hs = NoHandshake /\ e.p = <<NoSecurity, NoSecurity>>
      /\ e.q = <<>> /\ e.out = <<>> /\ e.err = FALSE /\ e.freed = FALSE /\ e.ctx \in BOOLEAN
      /\ e.read = <<>> /\ e.wrote = 0 /\ e.keys = {} /\ e.reused = FALSE
  BY DEF Blank
<1>2. /\ DOMAIN NoHandshake = HsFields /\ IsSec(NoSecurity) /\ NoHandshake.on = FALSE
      /\ NoHandshake.reorder = {} /\ NoHandshake.client = 0 /\ NoHandshake.server = 0
      /\ NoSecurity.epoch = -1 /\ NoSecurity.key = NoKey /\ NoSecurity.rseq = 0 /\ NoSecurity.cseq = 0
  BY DEF NoHandshake, HsFields, IsSec, NoSecurity, Security, SecFields
<1>3. Sound(e, i)
  <2>1. IsEnd(e)
    BY <1>1, <1>2 DEF IsEnd
  <2>2. i \in 1 .. 2
    BY DEF Ends
  <2>3. /\ ~HasPeer(e) /\ e.gen \in Nat /\ e.peers \in Nat /\ e.err \in BOOLEAN /\ e.freed \in BOOLEAN
        /\ ~e.freed /\ e.hs.on = FALSE /\ e.hs.on \in BOOLEAN
    <3>1. ~HasPeer(e)
      BY <1>1 DEF HasPeer
    <3>2. e.gen \in Nat /\ e.peers \in Nat
      BY <1>1
    <3>3. e.err = FALSE /\ e.freed = FALSE
      BY <1>1
    <3>4. e.hs.on = FALSE
      BY <1>1, <1>2
    <3> QED
      BY <3>1, <3>2, <3>3, <3>4
  <2> QED
    BY <1>1, <2>1, <2>2, <2>3 DEF Sound
<1>4. Contexts(e)
  BY <1>1, <1>2 DEF Contexts, HasPeer
<1>5. Traffic(e, {})
  BY <1>1, EmptyList DEF Traffic
<1>6. Early(e, oth, {})
  BY <1>1, <1>2, FS_EmptySet DEF Early
<1>7. Used(e) = {} /\ Own(e) = 0 /\ Fresh(e) = 10 + i
  BY <1>1, <1>2 DEF Used, Own, Fresh, Ends
<1>8. Secrets(e) /\ Spent(e, {})
  BY <1>1, <1>7 DEF Secrets, Spent, Ends
<1>9. Settled(e, oth, {}, {})
  BY <1>1, AtRest
<1> QED
  BY <1>3, <1>4, <1>5, <1>6, <1>8, <1>9 DEF Base

\* The link starts with two such ends and nothing on its way.
LEMMA LinkStarts ==
    ASSUME LinkInit
    PROVE  LinkInv
<1>1. PICK f \in Suites : ends = [i \in Ends |->
       Endpoint(i, [ciphers |-> IF i = 1 THEN f.client ELSE f.server, auth |-> f.auth, hint |-> f.hint])]
  BY DEF LinkInit
<1>2. net = [i \in Ends |-> <<>>] /\ verified = {}
  BY DEF LinkInit
<1>3. ASSUME NEW i \in Ends, NEW can PROVE Blank(Endpoint(i, can), i)
  BY DEF Endpoint, NoPeer, EndFields, Blank
<1>4. ASSUME NEW i \in Ends PROVE Blank(ends[i], i)
  BY <1>1, <1>3
<1>5. ASSUME NEW i \in Ends PROVE EndOK(i) /\ NetOK(i) /\ ReadOK(i)
  <2>1. net[i] = <<>> /\ 3 - i \in Ends
    BY <1>2 DEF Ends
  <2>2. Spoiled(i) = {}
    BY <2>1, EmptyList DEF Spoiled, Spoils
  <2>3. EndOK(i)
    <3>1. Base(ends[i], i, ends[3 - i].keys, {}, {}) /\ Settled(ends[i], ends[3 - i].keys, {}, {})
      BY <1>4, BlankBase
    <3>2. ends[i].out = <<>> /\ ~ends[i].err
      BY <1>4 DEF Blank
    <3> QED
      BY <1>2, <2>2, <3>1, <3>2 DEF EndOK
  <2>4. NetOK(i)
    BY <2>1, EmptyList DEF NetOK
  <2>5. ReadOK(i)
    <3>1. ends[i].read = <<>> /\ ends[i].wrote = 0
      BY <1>4 DEF Blank
    <3>2. Distinct(<<>>) /\ 0 \in Nat
      BY DEF Distinct
    <3> QED
      BY <3>1, <3>2, EmptyList DEF ReadOK
  <2> QED
    BY <2>3, <2>4, <2>5
<1>6. DOMAIN ends = Ends /\ DOMAIN net = Ends
  BY <1>1, <1>2
<1> QED
  BY <1>5, <1>6 DEF LinkInv

-----------------------------------------------------------------------------
(* The invariant holds, and the properties of the runs follow from it.     *)

\* Every step of an end and of the channels keeps the invariant.
LEMMA LinkKeeps ==
    ASSUME LinkInv, [LinkNext]_linkVars
    PROVE  LinkInv'
<1>1. Base(Client, 1, ends[3 - 1].keys, verified, Spoiled(1))
  <2>1. EndOK(1) /\ Client = ends[1]
    BY DEF LinkInv, Ends, Client
  <2> QED
    BY <2>1 DEF EndOK
<1>2. CASE Connect
  <2> DEFINE c == [Client EXCEPT !.ctx = TRUE]
  <2>1. Client.ctx \/ ~HasPeer(Client)
    BY <1>1, <1>2 DEF Connect, Base, Sound
  <2>2. UNCHANGED verified /\ Becomes(1, DtlsConnect(c), net)
    BY <1>2 DEF Connect
  <2>3. c = [Client EXCEPT !.ctx = TRUE]
    OBVIOUS
  <2> HIDE DEF c
  <2> QED
    BY <2>1, <2>2, <2>3, ConnectKeeps
<1>3. CASE Rehandshake
  <2>1. Client.ctx /\ UNCHANGED verified /\ Becomes(1, DtlsConnect(Client), net)
    BY <1>3 DEF Rehandshake
  <2> QED
    BY <2>1, ConnectKeeps
<1>4. CASE CloseClient
  BY <1>4, CloseKeeps
<1>5. CASE \E i \in Ends : Deliver(i) \/ CheckRetransmit(i)
  BY <1>5, DeliverKeeps, RetransmitKeeps
<1>6. CASE \E i \in Ends : SendData(i) \/ Fault(i)
  BY <1>6, WriteKeeps, FaultKeeps
<1>7. CASE UNCHANGED linkVars
  <2>1. UNCHANGED <<ends, verified, net>>
    BY <1>7 DEF linkVars
  <2>2. DOMAIN net = Ends /\ \A k \in Ends : IsList(net[k])
    BY DEF LinkInv, NetOK
  <2>3. DOMAIN net' = Ends /\ \A k \in Ends : IsList(net'[k]) /\ Elems(net'[k]) \subseteq Elems(net[k])
    BY <2>1, <2>2
  <2>4. UNCHANGED <<ends, verified>>
    BY <2>1
  <2> QED
    BY <2>3, <2>4, NetMoves
<1> QED
  BY <1>2, <1>3, <1>4, <1>5, <1>6, <1>7 DEF LinkNext, LinkStep, Use

\* The invariant of the link holds in every state of every behaviour.
THEOREM LinkInvariant == LinkSpec => []LinkInv
<1>1. LinkInit => LinkInv
  BY LinkStarts
<1>2. LinkInv /\ [LinkNext]_linkVars => LinkInv'
  BY LinkKeeps
<1> QED
  BY <1>1, <1>2, PTL DEF LinkSpec

\* What the invariant says of one end.
LEMMA OfOneEnd ==
    ASSUME LinkInv, NEW i \in Ends
    PROVE  /\ Base(ends[i], i, ends[3 - i].keys, verified, Spoiled(i))
           /\ Settled(ends[i], ends[3 - i].keys, verified, Spoiled(i))
           /\ ends[i].out = <<>> /\ ~ends[i].err /\ ReadOK(i)
  BY DEF LinkInv, EndOK

\* Peers, handshakes and queued flights belong together, and the server works only
\* for a cookie that came back (dtls_retransmit, dtls_destroy_peer, dtls_verify_peer).
THEOREM PeersAreConsistent == LinkSpec => []PeersConsistent
<1>1. LinkInv => PeersConsistent
  <2> SUFFICES ASSUME LinkInv PROVE PeersConsistent
    OBVIOUS
  <2>1. ASSUME NEW i \in Ends PROVE
          /\ ends[i].state \in PeerStates \cup {"none"}
          /\ ends[i].role \in {"client", "server", "none"}
          /\ ends[i].hs.on => HasPeer(ends[i])
          /\ HasPeer(ends[i]) => /\ ends[i].ctx /\ ends[i].p[1].epoch >= 0
                                 /\ ends[i].p[2].epoch >= 0 => ends[i].p[1].epoch # ends[i].p[2].epoch
          /\ \A k \in DOMAIN ends[i].q : NodeOK(ends[i].q[k], ends[i], verified)
          /\ i = 1 => ~ends[i].freed
          /\ ends[i].out = <<>> /\ ~ends[i].err
    <3> DEFINE e == ends[i]
               oth == ends[3 - i].keys
               D == Spoiled(i)
    <3>1. Base(e, i, oth, verified, D) /\ e.out = <<>> /\ ~e.err
      BY OfOneEnd
    <3> HIDE DEF e, oth, D
    <3>2. Sound(e, i) /\ Contexts(e) /\ Traffic(e, verified)
      BY <3>1 DEF Base
    <3>3. e.state \in PeerStates \cup {"none"} /\ (e.hs.on => HasPeer(e)) /\ (i = 1 => ~e.freed)
      BY <3>2 DEF Sound
    <3>4. e.role \in {"client", "server", "none"} /\ (HasPeer(e) => e.ctx)
      BY <3>2 DEF Sound, Role
    <3>5. HasPeer(e) => e.p[1].epoch >= 0 /\ e.p[1].epoch # e.p[2].epoch
      BY <3>2 DEF Contexts
    <3>6. \A k \in DOMAIN e.q : NodeOK(e.q[k], e, verified)
      BY <3>2 DEF Traffic, Elems
    <3> QED
      BY <3>1, <3>3, <3>4, <3>5, <3>6 DEF e
  <2>2. LinkTypeOK
    BY <2>1 DEF LinkTypeOK, NodeOK
  <2>3. NoDanglingNode
    BY <2>1 DEF NoDanglingNode, NodeOK, Client, Ends
  <2>4. CookieFirst
    <3> SUFFICES ASSUME Server.hs.on, Server.state # "closing" PROVE Server.hs.client \in verified
      BY DEF CookieFirst
    <3> DEFINE e == Server
               oth == ends[3 - 2].keys
               D == Spoiled(2)
    <3>1. Base(e, 2, oth, verified, D) /\ Settled(e, oth, verified, D)
      BY OfOneEnd DEF Server, Ends
    <3> HIDE DEF e, oth, D
    <3>2. e.id = 2 /\ (e.hs.on => HasPeer(e))
      BY <3>1 DEF Base, Sound
    <3>3. e.hs.on /\ e.state # "closing"
      BY DEF e
    <3>4. e.state # "none" /\ e.state # "connected"
      BY <3>1, <3>2, <3>3 DEF HasPeer, Settled, ConnectedRight
    <3>5. Deriving(e) \/ Finishing(e)
      BY <3>1, <3>3, <3>4 DEF Settled
    <3>6. e.hs.client \in verified
      BY <3>1, <3>2, <3>5 DEF Settled, DerivingRight, FinishingRight
    <3> QED
      BY <3>6 DEF e
  <2> QED
    BY <2>2, <2>3, <2>4 DEF PeersConsistent
<1> QED
  BY <1>1, LinkInvariant, PTL

\* A connected end has a key with which the other has finished, and no key serves
\* two handshakes (dtls_security_params_switch, calculate_key_block).
THEOREM KeysAreConsistent == LinkSpec => []KeysConsistent
<1>1. LinkInv => KeysConsistent
  <2> SUFFICES ASSUME LinkInv, NEW i \in Ends
               PROVE  /\ ~ends[i].reused
                      /\ ends[i].state = "connected" /\ ~ends[i].hs.on =>
                           ends[i].p[1].key \in ends[3 - i].keys
    BY DEF KeysConsistent, KeysAgree, KeysFresh
  <2> DEFINE e == ends[i]
             oth == ends[3 - i].keys
             D == Spoiled(i)
  <2>1. Base(e, i, oth, verified, D) /\ Settled(e, oth, verified, D)
    BY OfOneEnd
  <2> HIDE DEF e, oth, D
  <2>2. ~e.reused
    BY <2>1 DEF Base, Secrets
  <2>3. e.state = "connected" => e.p[1].key \in oth
    BY <2>1 DEF Settled, ConnectedRight
  <2> QED
    BY <2>2, <2>3 DEF e, oth
<1> QED
  BY <1>1, LinkInvariant, PTL

\* What one end wrote is read by the other at most once, whatever the channels repeat
\* and reorder, and over every number of handshakes (dtls_handle_message).
THEOREM DataArrivesOnce == LinkSpec => []DataOnce
<1>1. LinkInv => DataOnce
  <2> SUFFICES ASSUME LinkInv, NEW i \in Ends
               PROVE  /\ Distinct(ends[i].read)
                      /\ \A k \in DOMAIN ends[i].read : ends[i].read[k] <= ends[3 - i].wrote
    BY DEF DataOnce
  <2>1. ReadOK(i) /\ 3 - i \in Ends
    BY OfOneEnd DEF Ends
  <2>2. ends[3 - i].wrote \in Nat
    BY <2>1, OfOneEnd DEF ReadOK
  <2>3. \A k \in DOMAIN ends[i].read : ends[i].read[k] \in 1 .. ends[3 - i].wrote
    BY <2>1 DEF ReadOK, Elems
  <2> QED
    BY <2>1, <2>2, <2>3 DEF ReadOK
<1> QED
  BY <1>1, LinkInvariant, PTL

=============================================================================
