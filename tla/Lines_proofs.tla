---------------------------- MODULE Lines_proofs ----------------------------
(***************************************************************************)
(* Proofs about the two serial lines.  The line editor of the console, for *)
(* every size of the history, length of the line, set of registered        *)
(* commands and number of commands entered; and the AT command engine, for *)
(* all sizes of the buffer and all that the modem may write to the line.   *)
(***************************************************************************)
EXTENDS ModemCLI, ModemAT, FiniteSetsExt,
        FiniteSetTheorems, SequenceTheorems, WellFoundedInduction, TLAPS

\* A set of numbers has a least one.
LEMMA Least ==
    ASSUME NEW S \in SUBSET Nat, S # {}
    PROVE  \E m \in S : \A n \in S : m <= n
<1> DEFINE R == OpToRel(<, Nat)
<1>1. IsWellFoundedOn(R, Nat)
  BY NatLessThanWellFounded
<1>2. \A x, y \in Nat : <<y, x>> \in R <=> y < x
  BY DEF OpToRel
<1> HIDE DEF R
<1>3. PICK m \in S : \A y \in S : ~ (<<y, m>> \in R)
  BY <1>1, WFMin
<1>4. ASSUME NEW n \in S PROVE m <= n
  <2>1. m \in Nat /\ n \in Nat
    OBVIOUS
  <2>2. ~ (n < m)
    BY <1>2, <1>3, <2>1, Zenon
  <2> QED
    BY <2>1, <2>2
<1> QED
  BY <1>4

\* A set of positions has a last one, which Max picks.
LEMMA Greatest ==
    ASSUME NEW k \in Nat, NEW I \in SUBSET (1 .. k), I # {}
    PROVE  Max(I) \in I /\ \A i \in I : i <= Max(I)
<1> DEFINE S == {k - i : i \in I}
<1>1. S \in SUBSET Nat /\ S # {}
  <2>1. \A i \in I : k - i \in Nat
    OBVIOUS
  <2>2. PICK i \in I : TRUE
    OBVIOUS
  <2>3. k - i \in S
    OBVIOUS
  <2> QED
    BY <2>1, <2>3
<1>2. PICK m \in S : \A n \in S : m <= n
  <2> HIDE DEF S
  <2> QED
    BY <1>1, Least
<1>3. PICK x \in I : m = k - x
  OBVIOUS
<1>4. ASSUME NEW i \in I PROVE x >= i
  <2>1. m <= k - i
    BY <1>2
  <2> QED
    BY <1>3, <2>1
<1>5. Max(I) \in I /\ \A i \in I : Max(I) >= i
  BY <1>4 DEF Max
<1> QED
  BY <1>5

\* What a line is made of.
Characters == STRING \cup {Blank, "ESC", "[", "A", "B", "C", "D", "h", "q"}

-----------------------------------------------------------------------------
(* Names that begin alike.                                                 *)

\* A set of numbers has a lowest one.
LEMMA LowestIs ==
    ASSUME NEW S \in SUBSET Nat, S # {}
    PROVE  Lowest(S) \in S /\ \A j \in S : Lowest(S) <= j
BY Least DEF Lowest

\* A set of positions has a highest one.
LEMMA HighestIs ==
    ASSUME NEW k \in Nat, NEW S \in SUBSET (1 .. k), S # {}
    PROVE  Highest(S) \in S
<1> DEFINE T == {k - i : i \in S}
<1>1. T \in SUBSET Nat /\ T # {}
  <2>1. \A i \in S : k - i \in Nat
    OBVIOUS
  <2>2. PICK i \in S : TRUE
    OBVIOUS
  <2>3. k - i \in T
    OBVIOUS
  <2> QED
    BY <2>1, <2>3
<1>2. PICK low \in T : \A j \in T : low <= j
  <2> HIDE DEF T
  <2> QED
    BY <1>1, LowestIs
<1>3. PICK i \in S : low = k - i
  OBVIOUS
<1>4. \A j \in S : j <= i
  <2> SUFFICES ASSUME NEW j \in S PROVE j <= i
    OBVIOUS
  <2>1. low <= k - j
    BY <1>2
  <2> QED
    BY <1>3, <2>1
<1> QED
  BY <1>4 DEF Highest

\* What Begins says of each character.
LEMMA BeginsMeans ==
    ASSUME NEW s \in Seq(Characters), NEW p \in Seq(Characters)
    PROVE  Begins(s, p) <=> Len(p) <= Len(s) /\ \A i \in 1 .. Len(p) : s[i] = p[i]
<1>1. Len(s) \in Nat /\ Len(p) \in Nat
  BY LenProperties
<1> SUFFICES ASSUME Len(p) <= Len(s) PROVE SubSeq(s, 1, Len(p)) = p <=> \A i \in 1 .. Len(p) : s[i] = p[i]
  BY DEF Begins
<1> DEFINE t == SubSeq(s, 1, Len(p))
<1>2. t \in Seq(Characters) /\ Len(t) = Len(p) /\ \A i \in 1 .. Len(p) : t[i] = s[i]
  <2>1. \A i \in 1 .. Len(p) : i \in 1 .. Len(s)
    BY <1>1
  <2>2. \A i \in 1 .. Len(p) : s[i] \in Characters
    BY <2>1, ElementOfSeq
  <2>3. /\ t \in Seq(Characters) /\ Len(t) = (IF 1 <= Len(p) THEN Len(p) - 1 + 1 ELSE 0)
        /\ \A i \in 1 .. Len(p) - 1 + 1 : t[i] = s[1 + i - 1]
    BY <1>1, <2>2, SubSeqProperties
  <2>4. Len(p) - 1 + 1 = Len(p) /\ (IF 1 <= Len(p) THEN Len(p) - 1 + 1 ELSE 0) = Len(p)
        /\ \A i \in 1 .. Len(p) : 1 + i - 1 = i
    BY <1>1
  <2> HIDE DEF t
  <2> QED
    BY <2>3, <2>4
<1> HIDE DEF t
<1>3. t = p => \A i \in 1 .. Len(p) : s[i] = p[i]
  BY <1>2
<1>4. (\A i \in 1 .. Len(p) : s[i] = p[i]) => t = p
  BY <1>2, SeqEqual
<1> QED
  BY <1>3, <1>4 DEF t

\* A line begins with itself.
LEMMA BeginsSelf ==
    ASSUME NEW s \in Seq(Characters)
    PROVE  Begins(s, s)
<1>1. Len(s) \in Nat
  BY LenProperties
<1> QED
  BY <1>1, BeginsMeans

\* The beginning of a line up to some place.
LEMMA CutTypes ==
    ASSUME NEW s \in Seq(Characters), NEW n \in Int, n <= Len(s)
    PROVE  /\ SubSeq(s, 1, n) \in Seq(Characters)
           /\ n >= 0 => Len(SubSeq(s, 1, n)) = n /\ \A i \in 1 .. n : SubSeq(s, 1, n)[i] = s[i]
<1> DEFINE t == SubSeq(s, 1, n)
<1>1. Len(s) \in Nat
  BY LenProperties
<1>2. \A i \in 1 .. n : i \in 1 .. Len(s)
  BY <1>1
<1>3. \A i \in 1 .. n : s[i] \in Characters
  BY <1>2, ElementOfSeq
<1>4. /\ t \in Seq(Characters) /\ Len(t) = (IF 1 <= n THEN n - 1 + 1 ELSE 0)
      /\ \A i \in 1 .. n - 1 + 1 : t[i] = s[1 + i - 1]
  BY <1>3, SubSeqProperties
<1>5. n - 1 + 1 = n /\ (n >= 0 => (IF 1 <= n THEN n - 1 + 1 ELSE 0) = n) /\ \A i \in 1 .. n : 1 + i - 1 = i
  OBVIOUS
<1> HIDE DEF t
<1>6. t \in Seq(Characters) /\ (n >= 0 => Len(t) = n /\ \A i \in 1 .. n : t[i] = s[i])
  BY <1>4, <1>5
<1> QED
  BY <1>6 DEF t

\* What a name and others share begins the others, and begins with all that they share.
LEMMA CommonRight ==
    ASSUME NEW name \in Seq(Characters), NEW others \in SUBSET Seq(Characters)
    PROVE  /\ Common(name, others) \in Seq(Characters)
           /\ \A other \in others : Begins(other, Common(name, others))
           /\ \A p \in Seq(Characters) :
                Begins(name, p) /\ (\A other \in others : Begins(other, p)) => Begins(Common(name, others), p)
<1> DEFINE differs == {j \in 1 .. Len(name) : \E other \in others : Len(other) < j \/ other[j] # name[j]}
           low == Lowest(differs)
<1>1. Len(name) \in Nat /\ \A other \in others : Len(other) \in Nat
  BY LenProperties
<1>2. CASE differs = {}
  <2>1. Common(name, others) = name
    BY <1>2 DEF Common
  <2>2. \A other \in others : Begins(other, name)
    <3> SUFFICES ASSUME NEW other \in others PROVE Begins(other, name)
      OBVIOUS
    <3>1. \A j \in 1 .. Len(name) : ~ (Len(other) < j) /\ other[j] = name[j]
      BY <1>2
    <3>2. Len(name) <= Len(other)
      <4>1. CASE Len(name) = 0
        BY <1>1, <4>1
      <4>2. CASE Len(name) # 0
        <5>1. Len(name) \in 1 .. Len(name)
          BY <1>1, <4>2
        <5>2. ~ (Len(other) < Len(name))
          BY <3>1, <5>1
        <5> QED
          BY <1>1, <5>2
      <4> QED
        BY <4>1, <4>2
    <3> QED
      BY <3>1, <3>2, BeginsMeans
  <2> QED
    BY <2>1, <2>2
<1>3. CASE differs # {}
  <2>1. low \in differs /\ \A j \in differs : low <= j
    <3>1. differs \in SUBSET Nat
      OBVIOUS
    <3> HIDE DEF differs
    <3> QED
      BY <1>3, <3>1, LowestIs
  <2> DEFINE n == low - 1
             t == SubSeq(name, 1, n)
  <2>2. n \in Nat /\ n <= Len(name) /\ low \in Nat /\ low = n + 1
    BY <1>1, <2>1
  <2>3. Common(name, others) = t
    BY <1>3 DEF Common
  <2>4. t \in Seq(Characters) /\ Len(t) = n /\ \A i \in 1 .. n : t[i] = name[i]
    <3>1. n \in Int /\ n >= 0
      BY <2>2
    <3> HIDE DEF n
    <3> QED
      BY <2>2, <3>1, CutTypes
  <2>5. \A j \in 1 .. n : j \in 1 .. Len(name) /\ j \notin differs
    <3> HIDE DEF differs, low
    <3> QED
      BY <1>1, <2>1, <2>2
  <2>6. \A j \in 1 .. n : \A other \in others : ~ (Len(other) < j) /\ other[j] = name[j]
    BY <2>5
  <2>7. PICK odd \in others : Len(odd) < low \/ odd[low] # name[low]
    BY <2>1
  <2> HIDE DEF n, t, low, differs
  <2>8. ASSUME NEW other \in others PROVE Begins(other, t)
    <3>1. n <= Len(other)
      <4>1. CASE n = 0
        BY <1>1, <4>1
      <4>2. CASE n # 0
        <5>1. n \in 1 .. n
          BY <2>2, <4>2
        <5>2. ~ (Len(other) < n)
          BY <2>6, <5>1
        <5> QED
          BY <1>1, <2>2, <5>2
      <4> QED
        BY <4>1, <4>2
    <3>2. \A i \in 1 .. n : other[i] = t[i]
      BY <2>4, <2>6
    <3> QED
      BY <2>4, <3>1, <3>2, BeginsMeans
  <2>9. ASSUME NEW p \in Seq(Characters), Begins(name, p), \A other \in others : Begins(other, p)
        PROVE  Begins(t, p)
    <3>1. Len(p) \in Nat
      BY LenProperties
    <3>2. Len(p) <= Len(odd) /\ \A i \in 1 .. Len(p) : odd[i] = p[i]
      <4>1. Begins(odd, p)
        BY <2>9
      <4> QED
        BY <4>1, BeginsMeans
    <3>3. \A i \in 1 .. Len(p) : name[i] = p[i]
      BY <2>9, BeginsMeans
    <3>4. Len(p) <= n
      <4> SUFFICES ASSUME ~ (Len(p) <= n) PROVE FALSE
        OBVIOUS
      <4>1. low \in 1 .. Len(p)
        BY <2>2, <3>1
      <4>2. odd[low] = name[low]
        BY <3>2, <3>3, <4>1
      <4>3. Len(odd) < low
        BY <2>7, <4>2
      <4> QED
        BY <1>1, <3>1, <3>2, <4>1, <4>3
    <3>5. \A i \in 1 .. Len(p) : t[i] = p[i]
      <4>1. \A i \in 1 .. Len(p) : i \in 1 .. n
        BY <2>2, <3>1, <3>4
      <4> QED
        BY <2>4, <3>3, <4>1
    <3> QED
      BY <2>4, <3>4, <3>5, BeginsMeans
  <2> QED
    BY <2>3, <2>4, <2>8, <2>9
<1> QED
  BY <1>2, <1>3

\* The names that a line may become.
LEMMA NamesAre ==
    /\ Executors \in Seq(Seq(Characters)) /\ Builtins \in Seq(Seq(Characters)) /\ Len(Builtins) = 2
    /\ \A names \in Seq(Seq(Characters)) : \A p :
         /\ Matching(names, p) \in SUBSET (1 .. Len(names)) /\ Len(names) \in Nat
         /\ \A i \in Matching(names, p) : names[i] \in Seq(Characters) /\ Begins(names[i], p)
         /\ IsFiniteSet(Matching(names, p)) /\ Cardinality(Matching(names, p)) \in Nat
<1>1. Seq(STRING) \subseteq Seq(Characters)
  <2>1. STRING \subseteq Characters
    BY Zenon DEF Characters
  <2> QED
    BY <2>1, SeqMonotonic
<1>2. Executors \in Seq(Seq(Characters))
  <2>1. Executors \in Seq(Seq(STRING))
    BY CLIAssumption
  <2> QED
    BY <1>1, <2>1, SeqMonotonic
<1>3. Builtins \in Seq(Seq(Characters)) /\ Len(Builtins) = 2
  <2>1. "h" \in Characters /\ "q" \in Characters
    BY DEF Characters
  <2>2. <<"h">> \in Seq(Characters) /\ <<"q">> \in Seq(Characters)
    BY <2>1
  <2> DEFINE h == <<"h">>
             q == <<"q">>
  <2> HIDE DEF h, q
  <2>3. <<h, q>> \in Seq(Seq(Characters)) /\ Len(<<h, q>>) = 2
    BY <2>2 DEF h, q
  <2> QED
    BY <2>3 DEF Builtins, h, q
<1>4. ASSUME NEW names \in Seq(Seq(Characters)), NEW p
      PROVE  /\ Matching(names, p) \in SUBSET (1 .. Len(names)) /\ Len(names) \in Nat
             /\ \A i \in Matching(names, p) : names[i] \in Seq(Characters) /\ Begins(names[i], p)
             /\ IsFiniteSet(Matching(names, p)) /\ Cardinality(Matching(names, p)) \in Nat
  <2>1. Len(names) \in Nat /\ DOMAIN names = 1 .. Len(names)
    BY LenProperties
  <2>2. Matching(names, p) \in SUBSET (1 .. Len(names))
    BY <2>1 DEF Matching
  <2>3. \A i \in Matching(names, p) : names[i] \in Seq(Characters) /\ Begins(names[i], p)
    BY <2>1, ElementOfSeq DEF Matching
  <2>4. IsFiniteSet(1 .. Len(names))
    BY <2>1, FS_Interval
  <2>5. IsFiniteSet(Matching(names, p))
    BY <2>2, <2>4, FS_Subset
  <2> QED
    BY <2>1, <2>2, <2>3, <2>5, FS_CardinalityType
<1> QED
  BY <1>2, <1>3, <1>4

\* What <TAB> makes of a line begins with the line, and begins what the line may become.
LEMMA CompletedRight ==
    ASSUME NEW line \in Seq(Characters)
    PROVE  /\ Completed(line) \in Seq(Characters) /\ Begins(Completed(line), line)
           /\ Cardinality(Matching(Executors, line)) > 1
                => \A i \in Matching(Executors, line) : Begins(Executors[i], Completed(line))
<1> DEFINE builtins == Matching(Builtins, line)
           names == Matching(Executors, line)
           last == IF names = {} THEN Builtins[Highest(builtins)] ELSE Executors[Highest(names)]
           others == {Executors[i] : i \in names}
<1>1. /\ names \in SUBSET (1 .. Len(Executors)) /\ Len(Executors) \in Nat
      /\ \A i \in names : Executors[i] \in Seq(Characters) /\ Begins(Executors[i], line)
      /\ Cardinality(names) \in Nat
  BY NamesAre
<1>2. /\ builtins \in SUBSET (1 .. Len(Builtins)) /\ Len(Builtins) \in Nat
      /\ \A i \in builtins : Builtins[i] \in Seq(Characters) /\ Begins(Builtins[i], line)
      /\ Cardinality(builtins) \in Nat
  BY NamesAre
<1>3. CASE line = <<>> \/ builtins \cup names = {} \/ \E i \in DOMAIN line : line[i] = Blank
  <2>1. Completed(line) = line
    BY <1>3 DEF Completed
  <2> QED
    BY <1>1, <2>1, BeginsSelf
<1>4. CASE ~ (line = <<>> \/ builtins \cup names = {} \/ \E i \in DOMAIN line : line[i] = Blank)
  <2>1. Completed(line) = IF Cardinality(builtins) + Cardinality(names) = 1 THEN Append(last, Blank)
                          ELSE Common(last, others)
    BY <1>4 DEF Completed
  <2>2. last \in Seq(Characters) /\ Begins(last, line)
    <3>1. CASE names = {}
      <4>1. builtins # {}
        BY <1>4, <3>1
      <4> HIDE DEF builtins
      <4>2. Highest(builtins) \in builtins
        BY <1>2, <4>1, HighestIs
      <4> QED
        BY <1>2, <3>1, <4>2
    <3>2. CASE names # {}
      <4> HIDE DEF names
      <4>1. Highest(names) \in names
        BY <1>1, <3>2, HighestIs
      <4> QED
        BY <1>1, <3>2, <4>1
    <3> QED
      BY <3>1, <3>2
  <2>3. others \in SUBSET Seq(Characters) /\ \A other \in others : Begins(other, line)
    BY <1>1
  <2>4. \A i \in names : Executors[i] \in others
    OBVIOUS
  <2> HIDE DEF builtins, names, last, others
  <2>5. CASE Cardinality(builtins) + Cardinality(names) = 1
    <3> DEFINE t == Append(last, Blank)
    <3>1. /\ t \in Seq(Characters) /\ Len(t) = Len(last) + 1
          /\ \A i \in 1 .. Len(last) : t[i] = last[i]
      <4>1. Blank \in Characters
        BY DEF Characters
      <4> QED
        BY <2>2, <4>1, AppendProperties
    <3> HIDE DEF t
    <3>2. Len(line) <= Len(last) /\ \A i \in 1 .. Len(line) : last[i] = line[i]
      BY <2>2, BeginsMeans
    <3>3. Len(line) \in Nat /\ Len(last) \in Nat
      BY <2>2, LenProperties
    <3>4. Len(line) <= Len(t) /\ \A i \in 1 .. Len(line) : i \in 1 .. Len(last)
      BY <3>1, <3>2, <3>3
    <3>5. Begins(t, line)
      BY <3>1, <3>2, <3>4, BeginsMeans
    <3>6. ~ (Cardinality(names) > 1)
      BY <1>1, <1>2, <2>5
    <3> QED
      BY <2>1, <2>5, <3>1, <3>5, <3>6 DEF t, names
  <2>6. CASE Cardinality(builtins) + Cardinality(names) # 1
    <3>1. /\ Common(last, others) \in Seq(Characters)
          /\ \A other \in others : Begins(other, Common(last, others))
          /\ Begins(Common(last, others), line)
      BY <2>2, <2>3, CommonRight
    <3>2. \A i \in names : Begins(Executors[i], Common(last, others))
      BY <2>4, <3>1
    <3> QED
      BY <2>1, <2>6, <3>1, <3>2 DEF names
  <2> QED
    BY <2>5, <2>6
<1> QED
  BY <1>3, <1>4

\* What is typed, and what is left of a line when its last word is deleted.
LEMMA EditedTypes ==
    ASSUME NEW line \in Seq(Characters)
    PROVE  /\ \A c \in Characters : Typed(line, c) \in Seq(Characters)
           /\ WithoutLastWord(line) \in Seq(Characters)
           /\ SubSeq(line, 1, Len(line) - 1) \in Seq(Characters)
<1>1. Len(line) \in Nat /\ DOMAIN line = 1 .. Len(line)
  BY LenProperties
<1>2. \A c \in Characters : Typed(line, c) \in Seq(Characters)
  BY AppendProperties DEF Typed
<1>3. WithoutLastWord(line) \in Seq(Characters)
  <2> DEFINE blanks == {i \in DOMAIN line : line[i] = Blank}
  <2>1. CASE blanks = {}
    BY <2>1 DEF WithoutLastWord
  <2>2. CASE blanks # {}
    <3>1. WithoutLastWord(line) = SubSeq(line, 1, Highest(blanks) - 1)
      BY <2>2 DEF WithoutLastWord
    <3>2. blanks \in SUBSET (1 .. Len(line))
      BY <1>1
    <3> HIDE DEF blanks
    <3>3. Highest(blanks) \in 1 .. Len(line)
      BY <1>1, <2>2, <3>2, HighestIs
    <3>4. Highest(blanks) - 1 \in Int /\ Highest(blanks) - 1 <= Len(line)
      BY <1>1, <3>3
    <3> QED
      BY <3>1, <3>4, CutTypes
  <2> QED
    BY <2>1, <2>2
<1>4. SubSeq(line, 1, Len(line) - 1) \in Seq(Characters)
  <2>1. Len(line) - 1 \in Int /\ Len(line) - 1 <= Len(line)
    BY <1>1
  <2> QED
    BY <2>1, CutTypes
<1> QED
  BY <1>2, <1>3, <1>4

-----------------------------------------------------------------------------
(* The history.                                                            *)

\* The slot of the command entered age commands before the one in slot h, and the slot
\* that follows h.
BackFrom(h, age) == IF age <= h THEN h - age ELSE h - age + HISTORY
Following(h) == IF h = HISTORY - 1 THEN 0 ELSE h + 1
Back(age) == BackFrom(head, age)

Recordings == [len : Nat, bytes : Seq(Characters)]

LineRight == command \in Seq(Characters) /\ running \in Seq(Characters) /\ entered \in Seq(Seq(Characters))
RingRight == ring \in [Slots -> Recordings] /\ \A slot \in Slots : ring[slot].len <= Len(ring[slot].bytes)

\* The history fills up from slot 0; once it is full, the tail is behind the head.
EndsRight ==
    IF entered = <<>> THEN head = -1 /\ tail = -1
    ELSE /\ head \in Slots
         /\ IF Len(entered) < HISTORY THEN head = Len(entered) - 1 /\ tail = 0 ELSE tail = Following(head)

\* The command in a slot of the ring r.
Content(r, slot) == SubSeq(r[slot].bytes, 1, r[slot].len)

\* The slots from the tail to the head hold the commands entered last.
HistoryRight == \A age \in 0 .. Kept - 1 : Content(ring, Back(age)) = entered[Len(entered) - age]

\* The cursor is one of them.
CursorRight == cursor = -1 \/ \E age \in 0 .. Kept - 1 : cursor = Back(age)

\* A command that runs is in the line, and the CLI is open.
RunRight == ArgumentsStay /\ open \in BOOLEAN /\ (~ open => running = <<>>)

ConsoleInv == LineRight /\ RingRight /\ EndsRight /\ HistoryRight /\ CursorRight /\ RunRight

\* How the slots follow each other.
LEMMA SlotsTurn ==
    /\ HISTORY \in Nat \ {0}
    /\ \A h \in Slots : (h + 1) % HISTORY = Following(h) /\ Following(h) \in Slots
    /\ \A h \in Slots, age \in Slots :
         /\ BackFrom(h, age) \in Slots /\ BackFrom(h, 0) = h
         /\ (h - BackFrom(h, age)) % HISTORY = age
         /\ age # 0 => BackFrom(Following(h), age) = BackFrom(h, age - 1) /\ BackFrom(Following(h), age) # Following(h)
<1>1. HISTORY \in Nat \ {0}
  BY CLIAssumption
<1>2. ASSUME NEW h \in Slots PROVE (h + 1) % HISTORY = Following(h) /\ Following(h) \in Slots
  BY <1>1 DEF Slots, Following
<1>3. ASSUME NEW h \in Slots, NEW age \in Slots
      PROVE  /\ BackFrom(h, age) \in Slots /\ BackFrom(h, 0) = h
             /\ (h - BackFrom(h, age)) % HISTORY = age
             /\ age # 0 => BackFrom(Following(h), age) = BackFrom(h, age - 1)
                           /\ BackFrom(Following(h), age) # Following(h)
  <2>1. BackFrom(h, age) \in Slots /\ BackFrom(h, 0) = h
    BY <1>1 DEF Slots, BackFrom
  <2>2. (h - BackFrom(h, age)) % HISTORY = age
    <3>1. CASE age <= h
      <4>1. h - BackFrom(h, age) = age
        BY <1>1, <3>1 DEF Slots, BackFrom
      <4> QED
        BY <1>1, <4>1 DEF Slots
    <3>2. CASE ~ (age <= h)
      <4>1. h - BackFrom(h, age) = age - HISTORY
        BY <1>1, <3>2 DEF Slots, BackFrom
      <4>2. (age - HISTORY) % HISTORY = age
        BY <1>1 DEF Slots
      <4> QED
        BY <4>1, <4>2
    <3> QED
      BY <3>1, <3>2
  <2>3. ASSUME age # 0
        PROVE  BackFrom(Following(h), age) = BackFrom(h, age - 1) /\ BackFrom(Following(h), age) # Following(h)
    BY <1>1, <2>3 DEF Slots, BackFrom, Following
  <2> QED
    BY <2>1, <2>2, <2>3
<1> QED
  BY <1>1, <1>2, <1>3

\* How much of the history is kept.
LEMMA KeptIs ==
    ASSUME entered \in Seq(Seq(Characters))
    PROVE  /\ Len(entered) \in Nat /\ Kept \in 0 .. HISTORY /\ Kept <= Len(entered)
           /\ (entered # <<>> => Kept > 0) /\ (Len(entered) < HISTORY => Kept = Len(entered))
           /\ (~ (Len(entered) < HISTORY) => Kept = HISTORY)
           /\ \A age \in 0 .. Kept - 1 : age \in Slots
<1>1. Len(entered) \in Nat /\ (entered # <<>> => Len(entered) # 0) /\ HISTORY \in Nat \ {0}
  BY LenProperties, EmptySeq, CLIAssumption
<1> QED
  BY <1>1 DEF Kept, Slots

\* A command that is recorded is there in full, whatever the slot held before.
LEMMA StoredRight ==
    ASSUME RingRight, NEW slot \in Slots, NEW line \in Seq(Characters)
    PROVE  /\ Stored(slot, line) \in Recordings /\ Stored(slot, line).len <= Len(Stored(slot, line).bytes)
           /\ SubSeq(Stored(slot, line).bytes, 1, Stored(slot, line).len) = line
<1> DEFINE old == ring[slot].bytes
           rest == SubSeq(old, Len(line) + 1, Len(old))
<1>1. old \in Seq(Characters) /\ Len(old) \in Nat /\ Len(line) \in Nat
  <2>1. old \in Seq(Characters)
    BY DEF RingRight, Recordings
  <2> QED
    BY <2>1, LenProperties
<1>2. Stored(slot, line).len = Len(line) /\ Stored(slot, line).bytes = line \o rest
      /\ Stored(slot, line) = [len |-> Len(line), bytes |-> line \o rest]
  BY DEF Stored
<1>3. rest \in Seq(Characters)
  <2>1. \A i \in Len(line) + 1 .. Len(old) : i \in 1 .. Len(old)
    BY <1>1
  <2>2. \A i \in Len(line) + 1 .. Len(old) : old[i] \in Characters
    BY <1>1, <2>1, ElementOfSeq
  <2>3. Len(line) + 1 \in Int /\ Len(old) \in Int
    BY <1>1
  <2> HIDE DEF old
  <2> QED
    BY <1>1, <2>2, <2>3, SubSeqProperties
<1> HIDE DEF rest, old
<1> DEFINE t == line \o rest
<1>4. /\ t \in Seq(Characters) /\ Len(t) = Len(line) + Len(rest) /\ Len(rest) \in Nat
      /\ \A i \in 1 .. Len(line) + Len(rest) : t[i] = IF i <= Len(line) THEN line[i] ELSE rest[i - Len(line)]
  BY <1>3, ConcatProperties, LenProperties
<1>5. Len(line) <= Len(t) /\ \A i \in 1 .. Len(line) : i \in 1 .. Len(line) + Len(rest) /\ i <= Len(line)
  BY <1>1, <1>4
<1>6. \A i \in 1 .. Len(line) : t[i] = line[i]
  BY <1>4, <1>5
<1> HIDE DEF t
<1>7. SubSeq(t, 1, Len(line)) = line
  BY <1>4, <1>5, <1>6, BeginsMeans DEF Begins
<1> QED
  BY <1>1, <1>2, <1>4, <1>5, <1>7 DEF Recordings, t

\* What is recorded is a line.
LEMMA RecordedTypes ==
    ASSUME RingRight, NEW slot \in Slots
    PROVE  Recorded(slot) \in Seq(Characters) /\ Recorded(slot) = Content(ring, slot)
<1>1. /\ ring[slot].len \in Nat /\ ring[slot].bytes \in Seq(Characters)
      /\ ring[slot].len <= Len(ring[slot].bytes)
  BY DEF RingRight, Recordings
<1>2. ring[slot].len \in Int
  BY <1>1
<1> QED
  BY <1>1, <1>2, CutTypes DEF Recorded, Content

\* A command entered becomes the last one, and the oldest makes room for it.
LEMMA RememberRight ==
    ASSUME LineRight, RingRight, EndsRight, HistoryRight, Remember(command)
    PROVE  entered' \in Seq(Seq(Characters)) /\ RingRight' /\ EndsRight' /\ HistoryRight'
<1>1. /\ command \in Seq(Characters) /\ entered \in Seq(Seq(Characters)) /\ HISTORY \in Nat \ {0}
      /\ Len(entered) \in Nat /\ ring \in [Slots -> Recordings]
  BY CLIAssumption, LenProperties DEF LineRight, RingRight
<1>2. head = -1 <=> entered = <<>>
  BY <1>1 DEF EndsRight, Slots
<1>3. ASSUME NEW slot \in Slots, ring' = [ring EXCEPT ![slot] = Stored(slot, command)]
      PROVE  /\ RingRight' /\ Content(ring', slot) = command
             /\ \A s \in Slots : s # slot => Content(ring', s) = Content(ring, s)
  <2> DEFINE new == Stored(slot, command)
  <2>1. /\ new \in Recordings /\ new.len <= Len(new.bytes) /\ SubSeq(new.bytes, 1, new.len) = command
    BY <1>1, StoredRight
  <2> HIDE DEF new
  <2>2. ring' = [ring EXCEPT ![slot] = new]
    BY <1>3 DEF new
  <2>3. ring'[slot] = new /\ \A s \in Slots : s # slot => ring'[s] = ring[s]
    BY <1>1, <2>2
  <2>4. RingRight'
    BY <1>1, <2>1, <2>2, <2>3 DEF RingRight, Slots
  <2> QED
    BY <2>1, <2>3, <2>4 DEF Content
<1>4. CASE head = -1
  <2>1. /\ head' = 0 /\ tail' = 0 /\ ring' = [ring EXCEPT ![0] = Stored(0, command)] /\ entered' = <<command>>
    BY <1>4 DEF Remember
  <2>2. 0 \in Slots
    BY <1>1 DEF Slots
  <2>3. entered' \in Seq(Seq(Characters)) /\ Len(entered') = 1 /\ entered'[1] = command /\ entered' # <<>>
    BY <1>1, <2>1
  <2>4. RingRight' /\ Content(ring', 0) = command
    BY <1>3, <2>1, <2>2
  <2>5. EndsRight'
    BY <1>1, <2>1, <2>2, <2>3 DEF EndsRight, Following
  <2>6. HistoryRight'
    <3>1. Kept' = 1
      BY <1>1, <2>3 DEF Kept
    <3>2. \A age \in 0 .. Kept' - 1 : age = 0
      BY <3>1
    <3>3. Back(0)' = 0 /\ Len(entered') - 0 = 1
      BY <2>1, <2>3 DEF Back, BackFrom
    <3> QED
      BY <2>1, <2>3, <2>4, <3>2, <3>3 DEF HistoryRight
  <2> QED
    BY <2>3, <2>4, <2>5, <2>6
<1>5. CASE head # -1 /\ SameAsHead(command)
  <2>1. UNCHANGED <<ring, head, tail, entered>>
    BY <1>5 DEF Remember
  <2> QED
    BY <1>1, <2>1 DEF RingRight, EndsRight, HistoryRight, Kept, Back
<1>6. CASE head # -1 /\ ~ SameAsHead(command)
  <2>1. /\ head' = (head + 1) % HISTORY
        /\ tail' = NextTail(head')
        /\ ring' = [ring EXCEPT ![head'] = Stored(head', command)]
        /\ entered' = Append(entered, command)
    BY <1>6 DEF Remember
  <2>2. head \in Slots /\ entered # <<>>
    BY <1>2, <1>6 DEF EndsRight
  <2>3. head' = Following(head) /\ head' \in Slots
    BY <2>1, <2>2, SlotsTurn
  <2>4. /\ entered' \in Seq(Seq(Characters)) /\ Len(entered') = Len(entered) + 1
        /\ entered'[Len(entered) + 1] = command /\ entered' # <<>>
        /\ \A i \in 1 .. Len(entered) : entered'[i] = entered[i]
    BY <1>1, <2>1, AppendProperties
  <2>5. /\ RingRight' /\ Content(ring', head') = command
        /\ \A s \in Slots : s # head' => Content(ring', s) = Content(ring, s)
    BY <1>3, <2>1, <2>3
  <2>6. EndsRight'
    <3>1. CASE Len(entered) < HISTORY
      <4>1. head = Len(entered) - 1 /\ tail = 0
        BY <2>2, <3>1 DEF EndsRight
      <4>2. Len(entered) # 0
        BY <1>1, <2>2, EmptySeq
      <4>3. head' = Len(entered)
        BY <1>1, <2>3, <3>1, <4>1 DEF Following
      <4>4. tail' = 0
        <5>1. head' # tail
          BY <1>1, <4>1, <4>2, <4>3
        <5> QED
          BY <2>1, <4>1, <5>1 DEF NextTail
      <4> QED
        BY <1>1, <2>3, <2>4, <3>1, <4>3, <4>4 DEF EndsRight, Following
    <3>2. CASE ~ (Len(entered) < HISTORY)
      <4>1. tail = Following(head) /\ tail \in Slots
        BY <2>2, <2>3, <3>2 DEF EndsRight
      <4>2. tail' = Following(head')
        BY <2>1, <2>3, <4>1, SlotsTurn DEF NextTail
      <4>3. ~ (Len(entered') < HISTORY)
        BY <1>1, <2>4, <3>2
      <4> QED
        BY <2>3, <2>4, <4>2, <4>3 DEF EndsRight
    <3> QED
      BY <3>1, <3>2
  <2>7. HistoryRight'
    <3> SUFFICES ASSUME NEW age \in 0 .. Kept' - 1
                 PROVE  Content(ring', Back(age)') = entered'[Len(entered') - age]
      BY DEF HistoryRight
    <3>1. /\ Kept \in 0 .. HISTORY /\ age \in Slots /\ Kept <= Len(entered)
          /\ age # 0 => age - 1 \in 0 .. Kept - 1 /\ age - 1 \in Slots
      BY <1>1, <2>4 DEF Kept, Slots
    <3>2. Back(age)' = BackFrom(head', age)
      BY DEF Back
    <3>3. CASE age = 0
      <4>1. Back(age)' = head' /\ Len(entered') - age = Len(entered) + 1
        <5>1. BackFrom(head', 0) = head'
          BY <2>3, <3>1, <3>3, SlotsTurn
        <5> QED
          BY <1>1, <2>4, <3>2, <3>3, <5>1
      <4> QED
        BY <2>4, <2>5, <4>1
    <3>4. CASE age # 0
      <4>1. Back(age)' = Back(age - 1) /\ Back(age - 1) # head'
        BY <2>2, <2>3, <3>1, <3>2, <3>4, SlotsTurn DEF Back
      <4>2. Back(age - 1) \in Slots
        BY <2>2, <3>1, <3>4, SlotsTurn DEF Back
      <4>3. Content(ring, Back(age - 1)) = entered[Len(entered) - (age - 1)]
        BY <3>1, <3>4 DEF HistoryRight
      <4>4. Len(entered) - (age - 1) \in 1 .. Len(entered) /\ Len(entered') - age = Len(entered) - (age - 1)
        BY <1>1, <2>4, <3>1, <3>4
      <4>5. Content(ring', Back(age)') = Content(ring, Back(age - 1))
        BY <2>5, <4>1, <4>2
      <4>6. entered'[Len(entered') - age] = entered[Len(entered) - (age - 1)]
        BY <2>4, <4>4
      <4> QED
        BY <4>3, <4>5, <4>6
    <3> QED
      BY <3>3, <3>4
  <2> QED
    BY <2>4, <2>5, <2>6, <2>7
<1> QED
  BY <1>4, <1>5, <1>6

-----------------------------------------------------------------------------
(* The keys.                                                               *)

\* A key that changes the line alone leaves the history and the cursor as they were.
LEMMA EditKeeps ==
    ASSUME ConsoleInv, NEW line \in Seq(Characters), Edit(line)
    PROVE  ConsoleInv'
<1>1. /\ LineRight /\ RingRight /\ EndsRight /\ HistoryRight /\ CursorRight /\ RunRight
  BY DEF ConsoleInv
<1>2. /\ open /\ running = <<>> /\ command' = line
      /\ UNCHANGED <<ring, head, tail, cursor, running, open, entered>>
  BY DEF Edit, Listening
<1>3. LineRight'
  BY <1>1, <1>2 DEF LineRight
<1>4. RingRight' /\ EndsRight'
  BY <1>1, <1>2 DEF RingRight, EndsRight
<1>5. HistoryRight' /\ CursorRight'
  BY <1>1, <1>2 DEF HistoryRight, CursorRight, Kept, Back
<1>6. RunRight'
  BY <1>1, <1>2 DEF RunRight, ArgumentsStay
<1> QED
  BY <1>3, <1>4, <1>5, <1>6 DEF ConsoleInv

\* The arrow keys show what is in the slot that the cursor moves to.
LEMMA ArrowKeeps ==
    ASSUME ConsoleInv, command' \in Seq(Characters), CursorRight', running = <<>>,
           UNCHANGED <<ring, head, tail, running, open, entered>>
    PROVE  ConsoleInv'
<1>1. /\ LineRight /\ RingRight /\ EndsRight /\ HistoryRight /\ RunRight
  BY DEF ConsoleInv
<1>2. LineRight'
  BY <1>1 DEF LineRight
<1>3. RingRight' /\ EndsRight'
  BY <1>1 DEF RingRight, EndsRight
<1>4. HistoryRight'
  BY <1>1 DEF HistoryRight, Kept, Back
<1>5. RunRight'
  BY <1>1 DEF RunRight, ArgumentsStay
<1> QED
  BY <1>2, <1>3, <1>4, <1>5 DEF ConsoleInv

\* The characters of an arrow key that the line has no room for.
LEMMA EscapedTypes ==
    ASSUME LineRight
    PROVE  \A c \in {"A", "B", "C", "D"} : Typed(Escaped, c) \in Seq(Characters)
<1>1. command \in Seq(Characters) /\ "ESC" \in Characters /\ "[" \in Characters
      /\ {"A", "B", "C", "D"} \subseteq Characters
  BY DEF LineRight, Characters
<1>2. Typed(command, "ESC") \in Seq(Characters)
  BY <1>1, EditedTypes
<1>3. Escaped \in Seq(Characters)
  BY <1>1, <1>2, EditedTypes DEF Escaped
<1> QED
  BY <1>1, <1>3, EditedTypes

\* Where the history ends, in terms of the slots behind the head.
LEMMA TailIs ==
    ASSUME EndsRight, entered # <<>>, entered \in Seq(Seq(Characters))
    PROVE  head \in Slots /\ tail \in Slots /\ tail = Back(Kept - 1) /\ Kept - 1 \in Slots
<1>1. HISTORY \in Nat \ {0} /\ Len(entered) \in Nat /\ Len(entered) # 0 /\ Kept \in 1 .. HISTORY
  BY CLIAssumption, KeptIs, EmptySeq
<1>2. CASE Len(entered) < HISTORY
  <2>1. head = Len(entered) - 1 /\ tail = 0 /\ Kept = Len(entered)
    BY <1>2, KeptIs DEF EndsRight
  <2> QED
    BY <1>1, <1>2, <2>1 DEF Slots, Back, BackFrom
<1>3. CASE ~ (Len(entered) < HISTORY)
  <2>1. head \in Slots /\ tail = Following(head) /\ Kept = HISTORY
    BY <1>3, KeptIs DEF EndsRight
  <2> QED
    BY <1>1, <2>1 DEF Slots, Back, BackFrom, Following
<1> QED
  BY <1>2, <1>3

\* The arrow up goes to a command that is kept.
LEMMA OlderRight ==
    ASSUME EndsRight, entered # <<>>, entered \in Seq(Seq(Characters)), CursorRight
    PROVE  \E age \in 0 .. Kept - 1 : Older = Back(age)
<1>1. /\ HISTORY \in Nat \ {0} /\ Kept \in 1 .. HISTORY /\ head \in Slots /\ tail \in Slots
      /\ tail = Back(Kept - 1)
  BY CLIAssumption, KeptIs, TailIs
<1>2. CASE cursor = -1
  <2>1. Older = Back(0) /\ 0 \in 0 .. Kept - 1
    BY <1>1, <1>2 DEF Older, Back, BackFrom, Slots
  <2> QED
    BY <2>1
<1>3. CASE cursor # -1
  <2>1. PICK age \in 0 .. Kept - 1 : cursor = Back(age)
    BY <1>3 DEF CursorRight
  <2>2. cursor \in Slots
    BY <1>1, <2>1 DEF Back, BackFrom, Slots
  <2>3. CASE age = Kept - 1
    <3>1. cursor = tail
      BY <1>1, <2>1, <2>3
    <3>2. Older = tail \/ (head < tail /\ cursor <= head)
      BY <1>1, <1>3, <3>1 DEF Older, Slots
    <3>3. ~ (head < tail /\ cursor <= head)
      BY <1>1, <3>1 DEF Slots
    <3> QED
      BY <2>1, <2>3, <3>1, <3>2, <3>3
  <2>4. CASE age # Kept - 1
    <3>1. age + 1 \in 0 .. Kept - 1
      BY <1>1, <2>4
    <3>2. Older = Back(age + 1)
      <4>1. CASE cursor > tail
        <5>1. Older = cursor - 1
          BY <1>3, <4>1 DEF Older
        <5>2. cursor - 1 = Back(age + 1)
          BY <1>1, <2>1, <2>4, <4>1 DEF Back, BackFrom, Slots
        <5> QED
          BY <5>1, <5>2
      <4>2. CASE ~ (cursor > tail)
        <5>1. cursor <= head /\ head < tail
          BY <1>1, <2>1, <2>2, <2>4, <4>2 DEF Back, BackFrom, Slots
        <5>2. Older = IF cursor = 0 THEN HISTORY - 1 ELSE cursor - 1
          BY <1>3, <4>2, <5>1 DEF Older
        <5>3. age <= head /\ cursor = head - age
          BY <1>1, <2>1, <2>2, <4>2, <5>1 DEF Back, BackFrom, Slots
        <5>4. (IF cursor = 0 THEN HISTORY - 1 ELSE cursor - 1) = Back(age + 1)
          BY <1>1, <2>2, <5>3 DEF Back, BackFrom, Slots
        <5> QED
          BY <5>2, <5>4
      <4> QED
        BY <4>1, <4>2
    <3> QED
      BY <3>1, <3>2
  <2> QED
    BY <2>3, <2>4
<1> QED
  BY <1>2, <1>3

\* The arrow down goes to the command entered next.
LEMMA YoungerRight ==
    ASSUME EndsRight, entered \in Seq(Seq(Characters)), CursorRight, cursor \notin {-1, head}
    PROVE  \E age \in 0 .. Kept - 1 : Younger = Back(age)
<1>1. PICK age \in 0 .. Kept - 1 : cursor = Back(age)
  BY DEF CursorRight
<1>2. HISTORY \in Nat \ {0} /\ Kept \in 0 .. HISTORY
  BY CLIAssumption, KeptIs
<1>3. entered # <<>>
  BY <1>1, <1>2, LenProperties, EmptySeq DEF Kept
<1>4. head \in Slots
  BY <1>3 DEF EndsRight
<1>5. age # 0 /\ age - 1 \in 0 .. Kept - 1 /\ cursor \in Slots
  BY <1>1, <1>2, <1>4 DEF Back, BackFrom, Slots
<1>6. Younger = Back(age - 1)
  <2>1. CASE cursor < head
    <3>1. Younger = cursor + 1
      BY <2>1 DEF Younger
    <3> QED
      BY <1>1, <1>2, <1>4, <1>5, <2>1, <3>1 DEF Back, BackFrom, Slots
  <2>2. CASE ~ (cursor < head)
    <3>1. Younger = Following(cursor)
      BY <1>5, <2>2, SlotsTurn DEF Younger
    <3> QED
      BY <1>1, <1>2, <1>4, <1>5, <2>2, <3>1 DEF Back, BackFrom, Slots, Following
  <2> QED
    BY <2>1, <2>2
<1> QED
  BY <1>5, <1>6

\* A cursor on a command that is kept is on a slot.
LEMMA ShownTypes ==
    ASSUME RingRight, EndsRight, entered \in Seq(Seq(Characters)), NEW age \in 0 .. Kept - 1
    PROVE  Back(age) \in Slots /\ Recorded(Back(age)) \in Seq(Characters)
<1>1. HISTORY \in Nat \ {0} /\ Kept \in 0 .. HISTORY /\ age \in Slots
  BY CLIAssumption, KeptIs
<1>2. entered # <<>>
  BY <1>1, LenProperties, EmptySeq DEF Kept
<1>3. Back(age) \in Slots
  BY <1>1, <1>2, SlotsTurn DEF EndsRight, Back
<1> QED
  BY <1>3, RecordedTypes

\* The arrow up.
LEMMA UpKeeps ==
    ASSUME ConsoleInv, ArrowUp
    PROVE  ConsoleInv'
<1>1. LineRight /\ RingRight /\ EndsRight /\ CursorRight /\ entered \in Seq(Seq(Characters))
  BY DEF ConsoleInv, LineRight
<1>2. running = <<>> /\ UNCHANGED <<ring, head, tail, running, open, entered>>
  BY DEF ArrowUp, Listening
<1>3. CASE IsArrow /\ head # -1
  <2>1. cursor' = Older /\ command' = Recorded(cursor)'
    BY <1>2, <1>3 DEF ArrowUp, Recorded
  <2>2. PICK age \in 0 .. Kept - 1 : Older = Back(age)
    <3>1. entered # <<>>
      BY <1>1, <1>3 DEF EndsRight
    <3> QED
      BY <1>1, <3>1, OlderRight
  <2>3. CursorRight'
    BY <1>2, <2>1, <2>2 DEF CursorRight, Kept, Back
  <2>4. command' \in Seq(Characters)
    <3>1. command' = Recorded(Back(age))
      BY <1>2, <2>1, <2>2 DEF Recorded
    <3> QED
      BY <1>1, <3>1, ShownTypes
  <2> QED
    BY <1>2, <2>3, <2>4, ArrowKeeps
<1>4. CASE ~ (IsArrow /\ head # -1)
  <2>1. command' = Typed(Escaped, "A") /\ cursor' = cursor
    BY <1>4 DEF ArrowUp
  <2>2. command' \in Seq(Characters)
    BY <1>1, <2>1, EscapedTypes
  <2>3. CursorRight'
    BY <1>1, <1>2, <2>1 DEF CursorRight, Kept, Back
  <2> QED
    BY <1>2, <2>2, <2>3, ArrowKeeps
<1> QED
  BY <1>3, <1>4

\* The arrow down.
LEMMA DownKeeps ==
    ASSUME ConsoleInv, ArrowDown
    PROVE  ConsoleInv'
<1>1. LineRight /\ RingRight /\ EndsRight /\ CursorRight /\ entered \in Seq(Seq(Characters))
  BY DEF ConsoleInv, LineRight
<1>2. running = <<>> /\ UNCHANGED <<ring, head, tail, running, open, entered>>
  BY DEF ArrowDown, Listening
<1>3. CASE IsArrow /\ cursor \notin {-1, head}
  <2>1. cursor' = Younger /\ command' = Recorded(cursor)'
    BY <1>2, <1>3 DEF ArrowDown, Recorded
  <2>2. PICK age \in 0 .. Kept - 1 : Younger = Back(age)
    BY <1>1, <1>3, YoungerRight
  <2>3. CursorRight'
    BY <1>2, <2>1, <2>2 DEF CursorRight, Kept, Back
  <2>4. command' \in Seq(Characters)
    <3>1. command' = Recorded(Back(age))
      BY <1>2, <2>1, <2>2 DEF Recorded
    <3> QED
      BY <1>1, <3>1, ShownTypes
  <2> QED
    BY <1>2, <2>3, <2>4, ArrowKeeps
<1>4. CASE ~ (IsArrow /\ cursor \notin {-1, head})
  <2>1. cursor' = cursor /\ (command' = <<>> \/ command' = Typed(Escaped, "B"))
    BY <1>4 DEF ArrowDown
  <2>2. command' \in Seq(Characters)
    <3>1. <<>> \in Seq(Characters) /\ Typed(Escaped, "B") \in Seq(Characters)
      BY <1>1, EscapedTypes
    <3> QED
      BY <2>1, <3>1
  <2>3. CursorRight'
    BY <1>1, <1>2, <2>1 DEF CursorRight, Kept, Back
  <2> QED
    BY <1>2, <2>2, <2>3, ArrowKeeps
<1> QED
  BY <1>3, <1>4

\* A carriage return takes the cursor out of the history.
LEMMA PromptKeeps ==
    ASSUME ConsoleInv, Prompt
    PROVE  ConsoleInv'
<1>1. /\ LineRight /\ running = <<>> /\ cursor' = -1 /\ command' = command
      /\ UNCHANGED <<ring, head, tail, running, open, entered>>
  BY DEF ConsoleInv, Prompt, Listening
<1>2. command' \in Seq(Characters) /\ CursorRight'
  BY <1>1 DEF LineRight, CursorRight
<1> QED
  BY <1>1, <1>2, ArrowKeeps

\* A command that is entered is recorded, and the cursor leaves the history.
LEMMA EnterKeeps ==
    ASSUME ConsoleInv, Enter
    PROVE  ConsoleInv'
<1>1. LineRight /\ RingRight /\ EndsRight /\ HistoryRight /\ RunRight
  BY DEF ConsoleInv
<1>2. /\ open /\ running = <<>> /\ Remember(command) /\ cursor' = -1 /\ command' = command
      /\ \/ open' = FALSE /\ running' = running
         \/ running' = command /\ open' = open
  BY DEF Enter, Listening
<1>3. entered' \in Seq(Seq(Characters)) /\ RingRight' /\ EndsRight' /\ HistoryRight'
  BY <1>1, <1>2, RememberRight
<1>4. LineRight'
  BY <1>1, <1>2, <1>3 DEF LineRight
<1>5. CursorRight'
  BY <1>2 DEF CursorRight
<1>6. RunRight'
  BY <1>1, <1>2 DEF RunRight, ArgumentsStay
<1> QED
  BY <1>3, <1>4, <1>5, <1>6 DEF ConsoleInv

\* The end of a command, and of the session, empties the line; no command runs then.
LEMMA EndKeeps ==
    ASSUME ConsoleInv, EndExecution \/ Restart
    PROVE  ConsoleInv'
<1>1. LineRight /\ RingRight /\ EndsRight /\ HistoryRight /\ CursorRight /\ RunRight
  BY DEF ConsoleInv
<1>2. /\ command' = <<>> /\ running' = <<>> /\ open' \in BOOLEAN
      /\ UNCHANGED <<ring, head, tail, cursor, entered>>
  BY <1>1 DEF EndExecution, Restart, RunRight
<1>3. LineRight'
  BY <1>1, <1>2 DEF LineRight
<1>4. RingRight' /\ EndsRight'
  BY <1>1, <1>2 DEF RingRight, EndsRight
<1>5. HistoryRight' /\ CursorRight'
  BY <1>1, <1>2 DEF HistoryRight, CursorRight, Kept, Back
<1>6. RunRight'
  BY <1>2 DEF RunRight, ArgumentsStay
<1> QED
  BY <1>3, <1>4, <1>5, <1>6 DEF ConsoleInv

\* A CLI that starts has no history.
LEMMA ConsoleStarts == CLIInit => ConsoleInv
<1> SUFFICES ASSUME CLIInit PROVE ConsoleInv
  OBVIOUS
<1>1. /\ command = <<>> /\ running = <<>> /\ open = TRUE /\ entered = <<>>
      /\ ring = [slot \in Slots |-> [len |-> 0, bytes |-> <<>>]]
      /\ head = -1 /\ tail = -1 /\ cursor = -1
  BY DEF CLIInit
<1>2. LineRight /\ EndsRight /\ CursorRight /\ RunRight
  BY <1>1 DEF LineRight, EndsRight, CursorRight, RunRight, ArgumentsStay
<1>3. RingRight
  <2>1. [len |-> 0, bytes |-> <<>>] \in Recordings
    BY DEF Recordings
  <2> QED
    BY <1>1, <2>1 DEF RingRight
<1>4. HistoryRight
  <2>1. Kept = 0
    BY <1>1, CLIAssumption DEF Kept
  <2> QED
    BY <2>1 DEF HistoryRight
<1> QED
  BY <1>2, <1>3, <1>4 DEF ConsoleInv

\* Every key, and every end of a command, keeps the invariant.
LEMMA ConsoleSteps ==
    ASSUME ConsoleInv, [CLINext]_cliVars
    PROVE  ConsoleInv'
<1>1. LineRight /\ command \in Seq(Characters)
  BY DEF ConsoleInv, LineRight
<1>2. ASSUME NEW c \in Letters, TypeCharacter(c) PROVE ConsoleInv'
  <2>1. c \in Characters
    BY CLIAssumption, Zenon DEF Characters
  <2>2. Typed(command, c) \in Seq(Characters)
    BY <1>1, <2>1, EditedTypes
  <2> QED
    BY <1>2, <2>2, EditKeeps DEF TypeCharacter
<1>3. ASSUME Backspace \/ DeleteLastWord PROVE ConsoleInv'
  BY <1>1, <1>3, EditedTypes, EditKeeps DEF Backspace, DeleteLastWord
<1>4. ASSUME ClearLine PROVE ConsoleInv'
  <2>1. <<>> \in Seq(Characters)
    OBVIOUS
  <2> QED
    BY <1>4, <2>1, EditKeeps DEF ClearLine
<1>5. ASSUME Tab PROVE ConsoleInv'
  BY <1>1, <1>5, CompletedRight, EditKeeps DEF Tab
<1>6. ASSUME NEW c \in {"C", "D"}, ArrowAside(c) PROVE ConsoleInv'
  BY <1>1, <1>6, EscapedTypes, EditKeeps DEF ArrowAside
<1>7. ASSUME UNCHANGED cliVars PROVE ConsoleInv'
  <2>1. LineRight /\ RingRight /\ EndsRight /\ HistoryRight /\ CursorRight /\ RunRight
    BY DEF ConsoleInv
  <2>2. /\ command' = command /\ running' = running /\ open' = open /\ entered' = entered
        /\ ring' = ring /\ head' = head /\ tail' = tail /\ cursor' = cursor
    BY <1>7 DEF cliVars
  <2>3. LineRight' /\ RunRight'
    BY <2>1, <2>2 DEF LineRight, RunRight, ArgumentsStay
  <2>4. RingRight' /\ EndsRight'
    BY <2>1, <2>2 DEF RingRight, EndsRight
  <2>5. HistoryRight' /\ CursorRight'
    BY <2>1, <2>2 DEF HistoryRight, CursorRight, Kept, Back
  <2> QED
    BY <2>3, <2>4, <2>5 DEF ConsoleInv
<1> QED
  BY <1>2, <1>3, <1>4, <1>5, <1>6, <1>7, UpKeeps, DownKeeps, PromptKeeps, EnterKeeps, EndKeeps DEF CLINext

-----------------------------------------------------------------------------
(* What the user is promised.                                              *)

\* The tail is at the oldest command kept, every slot from there to the head holds the
\* command entered at its turn in full, and the cursor is on one of those slots
\* (handleUserInput, its history and its arrow keys).
THEOREM ConsoleInvariant == CLISpec => []ConsoleInv
<1>1. CLIInit => ConsoleInv
  BY ConsoleStarts
<1>2. ConsoleInv /\ [CLINext]_cliVars => ConsoleInv'
  BY ConsoleSteps
<1> QED
  BY <1>1, <1>2, PTL DEF CLISpec

\* The slots from the head back to the tail are the commands entered last.
LEMMA ShownRight == ConsoleInv => HistoryKeepsLatest
<1> SUFFICES ASSUME ConsoleInv, head # -1
             PROVE  Shown = [i \in 1 .. Kept |-> entered[Len(entered) + 1 - i]]
  BY DEF HistoryKeepsLatest
<1>1. RingRight /\ EndsRight /\ HistoryRight /\ entered \in Seq(Seq(Characters)) /\ entered # <<>>
  BY DEF ConsoleInv, LineRight, EndsRight
<1>2. /\ HISTORY \in Nat \ {0} /\ Len(entered) \in Nat /\ Kept \in 1 .. HISTORY
      /\ head \in Slots /\ tail \in Slots /\ tail = Back(Kept - 1)
  BY <1>1, CLIAssumption, KeptIs, TailIs
<1> DEFINE from == IF head < tail THEN head + HISTORY ELSE head
<1>3. from - tail + 1 = Kept
  BY <1>2 DEF Back, BackFrom, Slots
<1>4. ASSUME NEW i \in 1 .. Kept
      PROVE  Recorded((from + 1 - i) % HISTORY) = entered[Len(entered) + 1 - i]
  <2>1. i - 1 \in 0 .. Kept - 1 /\ Len(entered) - (i - 1) = Len(entered) + 1 - i
    BY <1>2
  <2>2. Back(i - 1) \in Slots
    BY <1>1, <2>1, ShownTypes
  <2>3. from + 1 - i = Back(i - 1) \/ from + 1 - i = Back(i - 1) + HISTORY
    BY <1>2, <2>1 DEF Back, BackFrom, Slots
  <2>4. (from + 1 - i) % HISTORY = Back(i - 1)
    <3>1. \A h \in Slots : h % HISTORY = h /\ (h + HISTORY) % HISTORY = h
      BY <1>2 DEF Slots
    <3> QED
      BY <2>2, <2>3, <3>1
  <2>5. Recorded(Back(i - 1)) = Content(ring, Back(i - 1))
    BY <1>1, <2>2, RecordedTypes
  <2>6. Content(ring, Back(i - 1)) = entered[Len(entered) - (i - 1)]
    BY <1>1, <2>1 DEF HistoryRight
  <2> QED
    BY <2>1, <2>4, <2>5, <2>6
<1>5. Shown = [i \in 1 .. from - tail + 1 |-> Recorded((from + 1 - i) % HISTORY)]
  BY DEF Shown
<1> HIDE DEF from
<1> QED
  BY <1>3, <1>4, <1>5

\* The cursor is as many slots behind the head as the history holds, or fewer.
LEMMA CursorKept == ConsoleInv => CursorInHistory
<1> SUFFICES ASSUME ConsoleInv, cursor # -1 PROVE head # -1 /\ Age(cursor) < Kept
  BY DEF CursorInHistory
<1>1. EndsRight /\ entered \in Seq(Seq(Characters)) /\ CursorRight
  BY DEF ConsoleInv, LineRight
<1>2. PICK age \in 0 .. Kept - 1 : cursor = Back(age)
  BY <1>1 DEF CursorRight
<1>3. HISTORY \in Nat \ {0} /\ Kept \in 0 .. HISTORY /\ age \in Slots
  BY <1>1, CLIAssumption, KeptIs
<1>4. head \in Slots /\ head # -1
  <2>1. entered # <<>>
    BY <1>2, <1>3, LenProperties, EmptySeq, <1>1 DEF Kept
  <2> QED
    BY <1>1, <1>3, <2>1 DEF EndsRight, Slots
<1>5. Age(cursor) = age
  BY <1>2, <1>3, <1>4, SlotsTurn DEF Age, Back
<1> QED
  BY <1>2, <1>3, <1>4, <1>5

\* "history" prints the commands entered last, each in full; the cursor of the arrow keys
\* stays on them; the words of a command that runs stay in the line; and <TAB> keeps what
\* was typed, and every registered command that it could have become
\* (handleUserInput, doHistory, commandCompletion).
THEOREM ConsoleIsConsistent == CLISpec => []ConsoleConsistent
<1>1. ConsoleInv => ConsoleConsistent
  <2> SUFFICES ASSUME ConsoleInv PROVE ConsoleConsistent
    OBVIOUS
  <2>1. HistoryKeepsLatest /\ CursorInHistory
    BY ShownRight, CursorKept
  <2>2. ArgumentsStay
    BY DEF ConsoleInv, RunRight
  <2>3. CompletionKeepsOpen
    <3>1. command \in Seq(Characters)
      BY DEF ConsoleInv, LineRight
    <3> QED
      BY <3>1, CompletedRight DEF CompletionKeepsOpen
  <2> QED
    BY <2>1, <2>2, <2>3 DEF ConsoleConsistent
<1> QED
  BY <1>1, ConsoleInvariant, PTL

-----------------------------------------------------------------------------
(* The AT command engine.                                                  *)

Kinds == Urcs \cup Results \cup {"info"}
Pieces == Kinds \X Nat \X {"head", "tail"}
IsUrc(x) == x[1] \in Urcs

\* A head is followed by its tail, and a tail follows its head.
Flat(s) ==
  \A i \in 1 .. Len(s) :
     IF s[i][3] = "head" THEN i < Len(s) /\ s[i + 1] = <<s[i][1], s[i][2], "tail">>
     ELSE i > 1 /\ s[i - 1] = <<s[i][1], s[i][2], "head">>

\* A URC line ends at i.
UrcAt(s, i) == i \in 1 .. Len(s) /\ s[i][3] = "tail" /\ IsUrc(s[i])

\* The URCs from m + 1 to n, and no others, are in s, in order.
Awaiting(s, m, n) ==
  /\ \A i \in 1 .. Len(s) : UrcAt(s, i) => s[i][2] \in m + 1 .. n
  /\ \A k \in m + 1 .. n : \E i \in 1 .. Len(s) : UrcAt(s, i) /\ s[i][2] = k
  /\ \A i, k \in 1 .. Len(s) : i < k /\ UrcAt(s, i) /\ UrcAt(s, k) => s[i][2] < s[k][2]

\* Besides URCs, s holds what the modem said to the command that runs.
ToCommand(s, c, p) ==
  /\ \A i \in 1 .. Len(s) : IsUrc(s[i]) \/ s[i][2] = c
  /\ p = <<>> \/ ((\E x \in BOOLEAN : p = <<<<c, x>>>>) /\ \A i \in 1 .. Len(s) : s[i][1] \notin Results)
  /\ \A i, k \in 1 .. Len(s) : i < k /\ s[i][1] \in Results /\ s[i][3] = "tail" => IsUrc(s[k])
NoAnswers(s) == \A i \in 1 .. Len(s) : IsUrc(s[i])
Own(s, st, p) == IF st = <<>> THEN p = <<>> /\ NoAnswers(s) ELSE ToCommand(s, st[1].c, p)

\* At most one command runs, and waits for its answer.
Single(st) == st = <<>> \/ \E c \in Nat : st = <<Frame(c, "rx", 0)>>

Counted(h, n) == h = [i \in 1 .. Len(h) |-> i] /\ Len(h) <= n

\* The line as long as nothing but a timeout came in between.
Straight ==
  /\ Flat(rx \o port) /\ pins = 0 /\ ~under /\ Single(stack)
  /\ Counted(handled, sent) /\ Awaiting(rx \o port, Len(handled), sent)
  /\ rough = {} => Own(rx \o port, stack, pending)
-----------------------------------------------------------------------------
(* What At takes from a sequence.                                          *)

\* The function by which At is defined.
Takes(f, b, S, n) ==
  f = [k \in 0 .. n |-> IF k = 0 THEN <<>> ELSE IF k \in S THEN Append(f[k - 1], b[k]) ELSE f[k - 1]]

\* There is one, by the least length for which there would be none.
LEMMA TakesExists ==
    ASSUME NEW b, NEW S, NEW n \in Nat
    PROVE  \E f : Takes(f, b, S, n)
<1> DEFINE Then1(a, k) == IF k \in S THEN Append(a, b[k]) ELSE a
           Is(f, j) == f = [k \in 0 .. j |-> IF k = 0 THEN <<>> ELSE Then1(f[k - 1], k)]
           Bad == {j \in Nat : ~ \E f : Is(f, j)}
<1> HIDE DEF Then1
<1>1. Bad = {}
  <2> SUFFICES ASSUME Bad # {} PROVE FALSE
    OBVIOUS
  <2>1. PICK m \in Bad : \A j \in Bad : m <= j
    BY Least
  <2>2. CASE m = 0
    <3> DEFINE g == [k \in 0 .. 0 |-> <<>>]
    <3>1. g = [k \in 0 .. 0 |-> IF k = 0 THEN <<>> ELSE Then1(g[k - 1], k)]
      OBVIOUS
    <3>2. Is(g, 0)
      BY <3>1
    <3> QED
      BY <2>1, <2>2, <3>2
  <2>3. CASE m # 0
    <3>1. m - 1 \in Nat /\ ~ (m <= m - 1)
      BY <2>3
    <3>2. PICK f : Is(f, m - 1)
      BY <2>1, <3>1
    <3> DEFINE g == [k \in 0 .. m |-> IF k = m THEN Then1(f[m - 1], m) ELSE f[k]]
    <3>3. \A k \in 0 .. m - 1 : f[k] = IF k = 0 THEN <<>> ELSE Then1(f[k - 1], k)
      BY <3>2, Zenon
    <3>4. \A k \in 0 .. m - 1 : g[k] = f[k]
      BY <3>1
    <3>5. \A k \in 0 .. m : g[k] = IF k = 0 THEN <<>> ELSE Then1(g[k - 1], k)
      <4> SUFFICES ASSUME NEW k \in 0 .. m PROVE g[k] = IF k = 0 THEN <<>> ELSE Then1(g[k - 1], k)
        OBVIOUS
      <4>1. CASE k = m
        BY <2>3, <3>1, <3>4, <4>1
      <4>2. CASE k # m
        <5>1. k \in 0 .. m - 1 /\ (k # 0 => k - 1 \in 0 .. m - 1)
          BY <3>1, <4>2
        <5> QED
          BY <3>3, <3>4, <5>1
      <4> QED
        BY <4>1, <4>2
    <3>6. Is(g, m)
      BY <3>5
    <3> QED
      BY <2>1, <3>6
  <2> QED
    BY <2>2, <2>3
<1>2. \E f : Is(f, n)
  BY <1>1
<1> QED
  BY <1>2 DEF Then1, Takes

\* Prefix by prefix.
ByPrefix(f, b, S) ==
  \A k \in 0 .. Len(b) : f[k] = IF k = 0 THEN <<>> ELSE IF k \in S THEN Append(f[k - 1], b[k]) ELSE f[k - 1]

\* What At gives is the value of that function at the end.
LEMMA AtLast ==
    ASSUME NEW T, NEW b \in Seq(T), NEW S
    PROVE  \E f : At(b, S) = f[Len(b)] /\ ByPrefix(f, b, S)
<1> DEFINE f == CHOOSE g : Takes(g, b, S, Len(b))
           to(P) == LET g[k \in 0 .. Len(b)] ==
                          IF k = 0 THEN <<>> ELSE IF k \in P THEN Append(g[k - 1], b[k]) ELSE g[k - 1]
                    IN  g[Len(b)]
<1>1. At(b, S) = to(S)
  <2>1. At(b, S) = CHOOSE s \in {to(P) : P \in {S}} : TRUE
    BY DEF At
  <2> HIDE DEF to
  <2>2. {to(P) : P \in {S}} = {to(S)}
    OBVIOUS
  <2> QED
    BY <2>1, <2>2
<1>2. to(S) = f[Len(b)]
  BY DEF Takes
<1>3. Takes(f, b, S, Len(b))
  <2> HIDE DEF f, to
  <2>1. Len(b) \in Nat
    BY LenProperties
  <2>2. \E g : Takes(g, b, S, Len(b))
    BY <2>1, TakesExists
  <2> QED
    BY <2>2, Zenon DEF f
<1> HIDE DEF f, to
<1>4. ByPrefix(f, b, S)
  BY <1>3, Zenon DEF Takes, ByPrefix
<1> QED
  BY <1>1, <1>2, <1>4

\* Where the elements of At(b, S) are in b.
Places(e, t, b, S, n) ==
  /\ e \in [1 .. Len(t) -> S \cap (1 .. n)]
  /\ \A i, k \in 1 .. Len(t) : i < k => e[i] < e[k]
  /\ \A i \in 1 .. Len(t) : t[i] = b[e[i]]
  /\ \A x \in S \cap (1 .. n) : \E i \in 1 .. Len(t) : e[i] = x
  /\ Len(t) <= n

\* At keeps the elements at the places of S, and their order.
LEMMA AtPlaces ==
    ASSUME NEW T, NEW b \in Seq(T), NEW S
    PROVE  At(b, S) \in Seq(T) /\ \E e : Places(e, At(b, S), b, S, Len(b))
<1>1. PICK f : At(b, S) = f[Len(b)] /\ ByPrefix(f, b, S)
  BY AtLast
<1>2. Len(b) \in Nat /\ \A k \in 1 .. Len(b) : b[k] \in T
  BY LenProperties, ElementOfSeq
<1> DEFINE Good(k) == f[k] \in Seq(T) /\ \E e : Places(e, f[k], b, S, k)
           Bad == {k \in 0 .. Len(b) : ~Good(k)}
<1>3. ASSUME NEW m \in 0 .. Len(b), m = 0 \/ Good(m - 1) PROVE Good(m)
  <2>1. CASE m = 0
    <3>1. f[0] = <<>>
      BY <1>1, <1>2 DEF ByPrefix
    <3> DEFINE e == [i \in 1 .. 0 |-> 0]
    <3>2. Places(e, <<>>, b, S, 0)
      BY DEF Places
    <3>3. <<>> \in Seq(T)
      OBVIOUS
    <3> HIDE DEF e
    <3> QED
      BY <2>1, <3>1, <3>2, <3>3
  <2>2. CASE m # 0
    <3>1. m \in 1 .. Len(b) /\ m - 1 \in Nat
      BY <1>2, <2>2
    <3>2. f[m - 1] \in Seq(T)
      BY <1>3, <2>2
    <3>3. PICK e : Places(e, f[m - 1], b, S, m - 1)
      BY <1>3, <2>2
    <3> DEFINE t == f[m - 1]
    <3>4. t \in Seq(T) /\ Len(t) \in Nat /\ Len(t) <= m - 1
      BY <3>2, <3>3, LenProperties DEF Places
    <3>5. f[m] = IF m \in S THEN Append(t, b[m]) ELSE t
      BY <1>1, <2>2 DEF ByPrefix
    <3>6. Places(e, t, b, S, m - 1)
      BY <3>3
    <3> HIDE DEF t
    <3>7. CASE m \notin S
      <4>1. S \cap (1 .. m) = S \cap (1 .. m - 1)
        BY <3>1, <3>7
      <4>2. Places(e, t, b, S, m)
        BY <3>1, <3>4, <3>6, <4>1 DEF Places
      <4> QED
        BY <3>4, <3>5, <3>7, <4>2
    <3>8. CASE m \in S
      <4> DEFINE u == Append(t, b[m])
                 d == [i \in 1 .. Len(t) + 1 |-> IF i = Len(t) + 1 THEN m ELSE e[i]]
      <4>1. /\ u \in Seq(T) /\ Len(u) = Len(t) + 1 /\ \A i \in 1 .. Len(t) : u[i] = t[i]
            /\ u[Len(t) + 1] = b[m]
        BY <1>2, <3>1, <3>4, AppendProperties
      <4> HIDE DEF u
      <4>2. \A i \in 1 .. Len(t) : e[i] \in S \cap (1 .. m - 1) /\ t[i] = b[e[i]]
        BY <3>6 DEF Places
      <4>3. \A i, k \in 1 .. Len(t) : i < k => e[i] < e[k]
        BY <3>6 DEF Places
      <4>4. \A x \in S \cap (1 .. m - 1) : \E i \in 1 .. Len(t) : e[i] = x
        BY <3>6 DEF Places
      <4>5. d \in [1 .. Len(u) -> S \cap (1 .. m)]
        BY <3>1, <3>4, <3>8, <4>1, <4>2
      <4>6. \A i, k \in 1 .. Len(u) : i < k => d[i] < d[k]
        <5> SUFFICES ASSUME NEW i \in 1 .. Len(u), NEW k \in 1 .. Len(u), i < k PROVE d[i] < d[k]
          OBVIOUS
        <5>1. i \in 1 .. Len(t) /\ d[i] = e[i]
          BY <3>4, <4>1
        <5>2. CASE k = Len(t) + 1
          BY <3>1, <3>4, <4>1, <4>2, <5>1, <5>2
        <5>3. CASE k # Len(t) + 1
          <6>1. k \in 1 .. Len(t) /\ d[k] = e[k]
            BY <3>4, <4>1, <5>3
          <6> QED
            BY <4>3, <5>1, <6>1
        <5> QED
          BY <5>2, <5>3
      <4>7. \A i \in 1 .. Len(u) : u[i] = b[d[i]]
        BY <3>4, <4>1, <4>2
      <4>8. \A x \in S \cap (1 .. m) : \E i \in 1 .. Len(u) : d[i] = x
        <5> SUFFICES ASSUME NEW x \in S \cap (1 .. m) PROVE \E i \in 1 .. Len(u) : d[i] = x
          OBVIOUS
        <5>1. CASE x = m
          BY <3>4, <4>1, <5>1
        <5>2. CASE x # m
          <6>1. x \in S \cap (1 .. m - 1)
            BY <3>1, <5>2
          <6>2. PICK i \in 1 .. Len(t) : e[i] = x
            BY <4>4, <6>1
          <6> QED
            BY <3>4, <4>1, <6>2
        <5> QED
          BY <5>1, <5>2
      <4>9. Places(d, u, b, S, m)
        BY <3>1, <3>4, <4>1, <4>5, <4>6, <4>7, <4>8 DEF Places
      <4>10. f[m] = u
        BY <3>5, <3>8 DEF u
      <4> HIDE DEF d
      <4> QED
        BY <4>1, <4>9, <4>10
    <3> QED
      BY <3>7, <3>8
  <2> QED
    BY <2>1, <2>2
<1>4. Bad = {}
  <2> SUFFICES ASSUME Bad # {} PROVE FALSE
    OBVIOUS
  <2>1. Bad \in SUBSET Nat
    BY <1>2
  <2> HIDE DEF Good
  <2>2. PICK m \in Bad : \A j \in Bad : m <= j
    BY <2>1, Least
  <2>3. m = 0 \/ (m - 1 \in 0 .. Len(b) /\ ~ (m <= m - 1))
    BY <1>2, <2>2
  <2> QED
    BY <1>3, <2>2, <2>3
<1> HIDE DEF Good
<1>5. Good(Len(b))
  BY <1>2, <1>4
<1> QED
  BY <1>1, <1>5 DEF Good

-----------------------------------------------------------------------------
(* Parts of a sequence.                                                    *)

\* t holds the elements of s at the positions in S, in order.
Sub(t, s, S) == \E e : Places(e, t, s, S, Len(s))

\* At takes a part of a sequence.
LEMMA AtSub ==
    ASSUME NEW T, NEW b \in Seq(T), NEW S
    PROVE  At(b, S) \in Seq(T) /\ Sub(At(b, S), b, S) /\ Len(At(b, S)) <= Len(b)
<1>1. At(b, S) \in Seq(T) /\ \E e : Places(e, At(b, S), b, S, Len(b))
  BY AtPlaces
<1>2. PICK e : Places(e, At(b, S), b, S, Len(b))
  BY <1>1
<1> DEFINE t == At(b, S)
<1>3. Places(e, t, b, S, Len(b)) /\ t \in Seq(T)
  BY <1>1, <1>2
<1> HIDE DEF t
<1>4. Len(t) <= Len(b)
  BY <1>3 DEF Places
<1>5. Sub(t, b, S)
  BY <1>3 DEF Sub
<1> QED
  BY <1>3, <1>4, <1>5 DEF t

\* Every element of a part is one of the whole.
LEMMA SubElements ==
    ASSUME NEW s, NEW t, NEW S, Sub(t, s, S), NEW i \in 1 .. Len(t)
    PROVE  \E j \in S \cap (1 .. Len(s)) : t[i] = s[j]
BY DEF Sub, Places

\* What follows can be added to both.
LEMMA SubJoined ==
    ASSUME NEW T, NEW b \in Seq(T), NEW q \in Seq(T), NEW t \in Seq(T), NEW S \in SUBSET (1 .. Len(b)), Sub(t, b, S)
    PROVE  Sub(t \o q, b \o q, S \cup (Len(b) + 1 .. Len(b) + Len(q)))
<1> DEFINE W == S \cup (Len(b) + 1 .. Len(b) + Len(q))
           u == t \o q
           w == b \o q
<1>1. PICK e : Places(e, t, b, S, Len(b))
  BY DEF Sub
<1>2. Len(b) \in Nat /\ Len(q) \in Nat /\ Len(t) \in Nat
  BY LenProperties
<1>3. /\ Len(u) = Len(t) + Len(q)
      /\ \A i \in 1 .. Len(u) : u[i] = IF i <= Len(t) THEN t[i] ELSE q[i - Len(t)]
  BY ConcatProperties
<1>4. /\ Len(w) = Len(b) + Len(q)
      /\ \A i \in 1 .. Len(w) : w[i] = IF i <= Len(b) THEN b[i] ELSE q[i - Len(b)]
  BY ConcatProperties
<1>5. /\ \A i \in 1 .. Len(t) : e[i] \in S \cap (1 .. Len(b)) /\ t[i] = b[e[i]]
      /\ \A x \in S \cap (1 .. Len(b)) : \E i \in 1 .. Len(t) : e[i] = x
      /\ Len(t) <= Len(b)
  BY <1>1 DEF Places
<1>6. \A i, k \in 1 .. Len(t) : i < k => e[i] < e[k]
  BY <1>1 DEF Places
<1> HIDE DEF u, w
<1> DEFINE d == [i \in 1 .. Len(u) |-> IF i <= Len(t) THEN e[i] ELSE i - Len(t) + Len(b)]
<1>7. \A i \in 1 .. Len(u) : d[i] = IF i <= Len(t) THEN e[i] ELSE i - Len(t) + Len(b)
  OBVIOUS
<1>8. \A i \in 1 .. Len(u) : d[i] \in W \cap (1 .. Len(w))
  <2> SUFFICES ASSUME NEW i \in 1 .. Len(u) PROVE d[i] \in W \cap (1 .. Len(w))
    OBVIOUS
  <2>1. CASE i <= Len(t)
    <3>1. i \in 1 .. Len(t)
      BY <1>2, <2>1
    <3> QED
      BY <1>2, <1>4, <1>5, <1>7, <2>1, <3>1
  <2>2. CASE ~ (i <= Len(t))
    <3>1. d[i] = i - Len(t) + Len(b)
      BY <1>7, <2>2
    <3>2. d[i] \in Len(b) + 1 .. Len(b) + Len(q)
      BY <1>2, <1>3, <2>2, <3>1
    <3> QED
      BY <1>2, <1>4, <3>2
  <2> QED
    BY <2>1, <2>2
<1>9. d \in [1 .. Len(u) -> W \cap (1 .. Len(w))]
  BY <1>8
<1> HIDE DEF d
<1>10. \A i, k \in 1 .. Len(u) : i < k => d[i] < d[k]
  <2> SUFFICES ASSUME NEW i \in 1 .. Len(u), NEW k \in 1 .. Len(u), i < k PROVE d[i] < d[k]
    OBVIOUS
  <2>1. CASE k <= Len(t)
    <3>1. i \in 1 .. Len(t) /\ k \in 1 .. Len(t) /\ d[i] = e[i] /\ d[k] = e[k]
      BY <1>2, <1>7, <2>1
    <3> QED
      BY <1>6, <3>1
  <2>2. CASE ~ (k <= Len(t))
    <3>1. d[k] = k - Len(t) + Len(b)
      BY <1>7, <2>2
    <3>2. CASE i <= Len(t)
      <4>1. d[i] = e[i] /\ e[i] \in 1 .. Len(b)
        BY <1>2, <1>5, <1>7, <3>2
      <4> QED
        BY <1>2, <2>2, <3>1, <4>1
    <3>3. CASE ~ (i <= Len(t))
      <4>1. d[i] = i - Len(t) + Len(b)
        BY <1>7, <3>3
      <4> QED
        BY <1>2, <3>1, <4>1
    <3> QED
      BY <3>2, <3>3
  <2> QED
    BY <2>1, <2>2
<1>11. \A i \in 1 .. Len(u) : u[i] = w[d[i]]
  <2> SUFFICES ASSUME NEW i \in 1 .. Len(u) PROVE u[i] = w[d[i]]
    OBVIOUS
  <2>1. CASE i <= Len(t)
    <3>1. i \in 1 .. Len(t) /\ d[i] = e[i] /\ u[i] = t[i]
      BY <1>2, <1>3, <1>7, <2>1
    <3>2. e[i] \in 1 .. Len(b) /\ t[i] = b[e[i]]
      BY <1>5, <3>1
    <3>3. w[e[i]] = b[e[i]]
      BY <1>2, <1>4, <3>2
    <3> QED
      BY <3>1, <3>2, <3>3
  <2>2. CASE ~ (i <= Len(t))
    <3>1. d[i] = i - Len(t) + Len(b) /\ u[i] = q[i - Len(t)]
      BY <1>3, <1>7, <2>2
    <3>2. d[i] \in 1 .. Len(w) /\ ~ (d[i] <= Len(b)) /\ d[i] - Len(b) = i - Len(t)
      BY <1>2, <1>3, <1>4, <2>2, <3>1
    <3>3. w[d[i]] = q[d[i] - Len(b)]
      BY <1>4, <3>2
    <3> QED
      BY <3>1, <3>2, <3>3
  <2> QED
    BY <2>1, <2>2
<1>12. \A x \in W \cap (1 .. Len(w)) : \E i \in 1 .. Len(u) : d[i] = x
  <2> SUFFICES ASSUME NEW x \in W \cap (1 .. Len(w)) PROVE \E i \in 1 .. Len(u) : d[i] = x
    OBVIOUS
  <2>1. CASE x \in S
    <3>1. PICK i \in 1 .. Len(t) : e[i] = x
      BY <1>5, <2>1
    <3>2. i \in 1 .. Len(u) /\ d[i] = x
      BY <1>2, <1>3, <1>7, <3>1
    <3> QED
      BY <3>2
  <2>2. CASE x \notin S
    <3>1. x \in Len(b) + 1 .. Len(b) + Len(q)
      BY <2>2
    <3> DEFINE i == x - Len(b) + Len(t)
    <3>2. i \in 1 .. Len(u) /\ ~ (i <= Len(t)) /\ i - Len(t) + Len(b) = x
      BY <1>2, <1>3, <3>1
    <3> HIDE DEF i
    <3>3. d[i] = x
      BY <1>7, <3>2
    <3> QED
      BY <3>2, <3>3
  <2> QED
    BY <2>1, <2>2
<1>13. Len(u) <= Len(w)
  BY <1>2, <1>3, <1>4, <1>5
<1> HIDE DEF W
<1>14. Places(d, u, w, W, Len(w))
  BY <1>9, <1>10, <1>11, <1>12, <1>13 DEF Places
<1> QED
  BY <1>14 DEF Sub, W, u, w

\* The end of a sequence is a part of it.
LEMMA SubEnd ==
    ASSUME NEW T, NEW s \in Seq(T), NEW n \in 0 .. Len(s)
    PROVE  SubSeq(s, n + 1, Len(s)) \in Seq(T) /\ Sub(SubSeq(s, n + 1, Len(s)), s, n + 1 .. Len(s))
<1> DEFINE t == SubSeq(s, n + 1, Len(s))
           e == [i \in 1 .. Len(t) |-> i + n]
<1>1. Len(s) \in Nat
  BY LenProperties
<1>2. t \in Seq(T) /\ Len(t) = Len(s) - n /\ \A i \in 1 .. Len(s) - n : t[i] = s[i + n]
  BY <1>1, SubSeqProperties
<1> HIDE DEF t
<1>3. \A x \in (n + 1 .. Len(s)) \cap (1 .. Len(s)) : x - n \in 1 .. Len(t) /\ e[x - n] = x
  BY <1>1, <1>2
<1>4. \A i \in 1 .. Len(t) : e[i] = i + n
  OBVIOUS
<1>5. e \in [1 .. Len(t) -> (n + 1 .. Len(s)) \cap (1 .. Len(s))]
  BY <1>1, <1>2
<1> HIDE DEF e
<1>6. \A x \in (n + 1 .. Len(s)) \cap (1 .. Len(s)) : \E i \in 1 .. Len(t) : e[i] = x
  BY <1>3
<1>7. \A i, k \in 1 .. Len(t) : i < k => e[i] < e[k]
  BY <1>1, <1>2, <1>4
<1>8. \A i \in 1 .. Len(t) : t[i] = s[e[i]]
  BY <1>1, <1>2, <1>4
<1>9. Len(t) <= Len(s)
  BY <1>1, <1>2
<1>10. Places(e, t, s, n + 1 .. Len(s), Len(s))
  BY <1>5, <1>6, <1>7, <1>8, <1>9, Zenon DEF Places
<1> QED
  BY <1>2, <1>10 DEF Sub, t

\* Neighbours that are both taken remain neighbours.
LEMMA Neighbours ==
    ASSUME NEW s, Len(s) \in Nat, NEW t, Len(t) \in Nat, NEW S, NEW e, Places(e, t, s, S, Len(s)),
           NEW i \in 1 .. Len(t)
    PROVE  /\ e[i] < Len(s) /\ e[i] + 1 \in S => i + 1 \in 1 .. Len(t) /\ e[i + 1] = e[i] + 1
           /\ e[i] > 1 /\ e[i] - 1 \in S => i - 1 \in 1 .. Len(t) /\ e[i - 1] = e[i] - 1
<1>1. /\ \A a \in 1 .. Len(t) : e[a] \in 1 .. Len(s)
      /\ \A x \in S \cap (1 .. Len(s)) : \E a \in 1 .. Len(t) : e[a] = x
  BY DEF Places
<1>2. \A a, k \in 1 .. Len(t) : a < k => e[a] < e[k]
  BY DEF Places
<1>3. e[i] \in 1 .. Len(s)
  BY <1>1
<1>4. ASSUME e[i] < Len(s), e[i] + 1 \in S PROVE i + 1 \in 1 .. Len(t) /\ e[i + 1] = e[i] + 1
  <2>1. PICK k \in 1 .. Len(t) : e[k] = e[i] + 1
    BY <1>1, <1>3, <1>4
  <2>2. i < k
    <3>1. k < i => e[k] < e[i]
      BY <1>2
    <3>2. k # i
      BY <1>3, <2>1
    <3> QED
      BY <1>3, <2>1, <3>1, <3>2
  <2>3. i + 1 \in 1 .. Len(t) /\ e[i + 1] \in Int
    <3>1. i + 1 \in 1 .. Len(t)
      BY <2>2
    <3> QED
      BY <1>1, <3>1
  <2>4. e[i] < e[i + 1]
    BY <1>2, <2>3
  <2>5. i + 1 < k => e[i + 1] < e[k]
    BY <1>2, <2>3
  <2>6. k = i + 1
    BY <1>3, <2>1, <2>2, <2>3, <2>4, <2>5
  <2> QED
    BY <2>1, <2>3, <2>6
<1>5. ASSUME e[i] > 1, e[i] - 1 \in S PROVE i - 1 \in 1 .. Len(t) /\ e[i - 1] = e[i] - 1
  <2>1. PICK k \in 1 .. Len(t) : e[k] = e[i] - 1
    BY <1>1, <1>3, <1>5
  <2>2. k < i
    <3>1. i < k => e[i] < e[k]
      BY <1>2
    <3>2. k # i
      BY <1>3, <2>1
    <3> QED
      BY <1>3, <2>1, <3>1, <3>2
  <2>3. i - 1 \in 1 .. Len(t) /\ e[i - 1] \in Int
    <3>1. i - 1 \in 1 .. Len(t)
      BY <2>2
    <3> QED
      BY <1>1, <3>1
  <2>4. e[i - 1] < e[i]
    BY <1>2, <2>3
  <2>5. k < i - 1 => e[k] < e[i - 1]
    BY <1>2, <2>3
  <2>6. k = i - 1
    BY <1>3, <2>1, <2>2, <2>3, <2>4, <2>5
  <2> QED
    BY <2>1, <2>3, <2>6
<1> QED
  BY <1>4, <1>5

\* S has both pieces of a line, or neither.
Closed(S, s) == \A i \in 1 .. Len(s) : i < Len(s) /\ s[i][3] = "head" => (i \in S <=> i + 1 \in S)

\* Whole lines taken from whole lines.
LEMMA SubFlat ==
    ASSUME NEW T, NEW s \in Seq(T), NEW t \in Seq(T), NEW S, Flat(s), Sub(t, s, S), Closed(S, s)
    PROVE  Flat(t)
<1>1. PICK e : Places(e, t, s, S, Len(s))
  BY DEF Sub
<1>2. Len(s) \in Nat /\ Len(t) \in Nat
  BY LenProperties
<1>3. \A i \in 1 .. Len(t) : e[i] \in S /\ e[i] \in 1 .. Len(s) /\ t[i] = s[e[i]]
  BY <1>1 DEF Places
<1>4. ASSUME NEW i \in 1 .. Len(t)
      PROVE  IF t[i][3] = "head" THEN i < Len(t) /\ t[i + 1] = <<t[i][1], t[i][2], "tail">>
             ELSE i > 1 /\ t[i - 1] = <<t[i][1], t[i][2], "head">>
  <2>1. e[i] \in S /\ e[i] \in 1 .. Len(s) /\ t[i] = s[e[i]]
    BY <1>3
  <2>2. CASE t[i][3] = "head"
    <3>1. e[i] < Len(s) /\ s[e[i] + 1] = <<t[i][1], t[i][2], "tail">>
      BY <2>1, <2>2 DEF Flat
    <3>2. e[i] + 1 \in S
      BY <2>1, <2>2, <3>1 DEF Closed
    <3>3. i + 1 \in 1 .. Len(t) /\ e[i + 1] = e[i] + 1
      BY <1>1, <1>2, <3>1, <3>2, Neighbours
    <3>4. t[i + 1] = s[e[i] + 1]
      BY <1>3, <3>3
    <3> QED
      BY <1>2, <2>2, <3>1, <3>3, <3>4
  <2>3. CASE t[i][3] # "head"
    <3>1. e[i] > 1 /\ s[e[i] - 1] = <<t[i][1], t[i][2], "head">>
      BY <2>1, <2>3 DEF Flat
    <3>2. e[i] - 1 \in 1 .. Len(s) /\ e[i] - 1 < Len(s) /\ (e[i] - 1) + 1 = e[i]
      <4>1. e[i] \in 1 .. Len(s) /\ e[i] > 1
        BY <2>1, <3>1
      <4> QED
        BY <1>2, <4>1
    <3>3. s[e[i] - 1][3] = "head"
      BY <3>1
    <3>4. e[i] - 1 \in S
      BY <2>1, <3>2, <3>3 DEF Closed
    <3>5. i - 1 \in 1 .. Len(t) /\ e[i - 1] = e[i] - 1
      BY <1>1, <1>2, <3>1, <3>4, Neighbours
    <3>6. t[i - 1] = s[e[i] - 1]
      BY <1>3, <3>5
    <3> QED
      BY <1>2, <2>3, <3>1, <3>5, <3>6
  <2> QED
    BY <2>2, <2>3
<1> QED
  BY <1>4 DEF Flat

-----------------------------------------------------------------------------
(* What a scan does with whole lines.                                      *)

\* The beginning of whole lines: the last one may be without its tail.
Begun(b) ==
  \A i \in 1 .. Len(b) :
     IF b[i][3] = "head" THEN i < Len(b) => b[i + 1] = <<b[i][1], b[i][2], "tail">>
     ELSE i > 1 /\ b[i - 1] = <<b[i][1], b[i][2], "head">>

\* Whole lines, of which the last may have begun only.
LEMMA FlatBegun ==
    ASSUME NEW T, NEW b \in Seq(T), NEW q \in Seq(T), Flat(b \o q)
    PROVE  Begun(b)
<1> DEFINE w == b \o q
<1>1. Len(b) \in Nat /\ Len(q) \in Nat
  BY LenProperties
<1>2. Len(w) = Len(b) + Len(q) /\ \A i \in 1 .. Len(b) : w[i] = b[i]
  <2>1. \A i \in 1 .. Len(b) : i \in 1 .. Len(b) + Len(q) /\ i <= Len(b)
    BY <1>1
  <2> QED
    BY <2>1, ConcatProperties
<1>3. Flat(w)
  OBVIOUS
<1> HIDE DEF w
<1> SUFFICES ASSUME NEW i \in 1 .. Len(b)
             PROVE  IF b[i][3] = "head" THEN i < Len(b) => b[i + 1] = <<b[i][1], b[i][2], "tail">>
                    ELSE i > 1 /\ b[i - 1] = <<b[i][1], b[i][2], "head">>
  BY DEF Begun
<1>4. i \in 1 .. Len(w) /\ w[i] = b[i]
  BY <1>1, <1>2
<1>5. CASE b[i][3] = "head"
  <2> SUFFICES ASSUME i < Len(b) PROVE b[i + 1] = <<b[i][1], b[i][2], "tail">>
    BY <1>5
  <2>1. i + 1 \in 1 .. Len(b)
    BY <1>1
  <2>2. w[i + 1] = <<b[i][1], b[i][2], "tail">>
    BY <1>3, <1>4, <1>5 DEF Flat
  <2> QED
    BY <1>2, <2>1, <2>2
<1>6. CASE b[i][3] # "head"
  <2>1. i > 1 /\ w[i - 1] = <<b[i][1], b[i][2], "head">>
    BY <1>3, <1>4, <1>6 DEF Flat
  <2>2. i - 1 \in 1 .. Len(b)
    BY <1>1, <2>1
  <2> QED
    BY <1>2, <1>6, <2>1, <2>2
<1> QED
  BY <1>5, <1>6

\* The parts of a piece.
LEMMA PieceParts ==
    ASSUME NEW b \in Seq(Pieces), NEW i \in 1 .. Len(b)
    PROVE  /\ b[i] \in Pieces /\ b[i][1] \in Kinds /\ b[i][2] \in Nat /\ b[i][3] \in {"head", "tail"}
           /\ b[i] = <<b[i][1], b[i][2], b[i][3]>>
<1>1. b[i] \in Pieces
  BY ElementOfSeq
<1> QED
  BY <1>1 DEF Pieces

\* A line starts one piece before its end.
LEMMA LineStarts ==
    ASSUME NEW b \in Seq(Pieces), Begun(b), NEW j \in LineEnds(b, 1)
    PROVE  /\ LineStart(j, LineEnds(b, 1), 1) = j - 1 /\ j - 1 \in 1 .. Len(b) /\ j \in 1 .. Len(b)
           /\ b[j - 1] = <<b[j][1], b[j][2], "head">>
<1> DEFINE E == LineEnds(b, 1)
<1>1. Len(b) \in Nat /\ j \in 1 .. Len(b) /\ b[j][3] = "tail"
  BY LenProperties DEF LineEnds, Piece
<1>2. j > 1 /\ b[j - 1] = <<b[j][1], b[j][2], "head">>
  BY <1>1 DEF Begun
<1>3. j - 1 \in 1 .. Len(b) /\ j - 1 < Len(b) /\ b[j - 1][3] = "head"
  BY <1>1, <1>2
<1>4. \A e \in E : e \in 1 .. Len(b) /\ b[e][3] = "tail" /\ e # j - 1
  BY <1>3 DEF LineEnds, Piece
<1>5. j > 2 => j - 2 \in E
  <2> SUFFICES ASSUME j > 2 PROVE j - 2 \in E
    OBVIOUS
  <2>1. j - 2 \in 1 .. Len(b) /\ j - 2 < Len(b) /\ (j - 2) + 1 = j - 1
    BY <1>1
  <2>2. b[j - 2][3] = "head" => b[j - 1] = <<b[j - 2][1], b[j - 2][2], "tail">>
    BY <2>1 DEF Begun
  <2>3. b[j - 2][3] # "head"
    BY <1>3, <2>2
  <2>4. b[j - 2][3] \in {"head", "tail"}
    BY <2>1, PieceParts
  <2> QED
    BY <2>1, <2>3, <2>4 DEF LineEnds, Piece
<1> HIDE DEF E
<1>6. LineStart(j, E, 1) = j - 1
  <2>1. CASE j = 2
    <3>1. ~ \E i \in E : i < j
      BY <1>4, <2>1
    <3> QED
      BY <2>1, <3>1 DEF LineStart
  <2>2. CASE j # 2
    <3>1. j - 2 \in E /\ j - 2 < j
      BY <1>1, <1>2, <1>5, <2>2
    <3>2. \A e \in E : e < j => e <= j - 2
      BY <1>1, <1>4
    <3>3. \A i \in E : (i < j /\ \A e \in E : e < j => e <= i) => i = j - 2
      BY <1>1, <1>4, <3>1, <3>2
    <3>4. (CHOOSE i \in E : i < j /\ \A e \in E : e < j => e <= i) = j - 2
      BY <3>1, <3>2, <3>3
    <3>5. LineStart(j, E, 1) = 1 + (j - 2)
      BY <3>1, <3>4 DEF LineStart
    <3> QED
      BY <1>1, <3>5
  <2> QED
    BY <2>1, <2>2
<1> QED
  BY <1>1, <1>2, <1>3, <1>6 DEF E

\* Two pieces are a line.
LEMMA WholeLine ==
    ASSUME NEW b \in Seq(Pieces), NEW i \in 1 .. Len(b), NEW ks
    PROVE  Whole(b, i, ks) <=> /\ i < Len(b) /\ b[i][1] \in ks /\ b[i][3] = "head"
                               /\ b[i + 1] = <<b[i][1], b[i][2], "tail">>
<1>1. Len(b) \in Nat
  BY LenProperties
<1>2. CASE i < Len(b)
  <2> DEFINE t == SubSeq(b, i, i + 1)
             l == Line(b[i][1], b[i][2])
  <2>1. t \in Seq(Pieces) /\ Len(t) = 2 /\ t[1] = b[i] /\ t[2] = b[i + 1]
    <3>1. Len(t) = i + 1 - i + 1 /\ \A k \in 1 .. i + 1 - i + 1 : t[k] = b[i + k - 1]
      BY <1>1, <1>2, SubSeqProperties
    <3>2. t \in Seq(Pieces)
      BY <1>1, <1>2, SubSeqProperties
    <3>3. i + 1 - i + 1 = 2 /\ 1 \in 1 .. 2 /\ 2 \in 1 .. 2 /\ i + 1 - 1 = i /\ i + 2 - 1 = i + 1
      OBVIOUS
    <3> HIDE DEF t
    <3> QED
      BY <3>1, <3>2, <3>3
  <2>2. t = <<t[1], t[2]>>
    <3> HIDE DEF t
    <3> QED
      BY <2>1
  <2>3. t = <<b[i], b[i + 1]>>
    <3> HIDE DEF t
    <3> QED
      BY <2>1, <2>2
  <2>4. l = <<<<b[i][1], b[i][2], "head">>, <<b[i][1], b[i][2], "tail">>>>
    BY DEF Line
  <2> HIDE DEF t, l
  <2>5. t = l <=> (b[i] = <<b[i][1], b[i][2], "head">> /\ b[i + 1] = <<b[i][1], b[i][2], "tail">>)
    BY <2>3, <2>4
  <2>6. b[i] = <<b[i][1], b[i][2], "head">> <=> b[i][3] = "head"
    BY PieceParts
  <2>7. Whole(b, i, ks) <=> i < Len(b) /\ b[i][1] \in ks /\ t = l
    BY DEF Whole, t, l
  <2> QED
    BY <1>2, <2>5, <2>6, <2>7
<1>3. CASE ~ (i < Len(b))
  BY <1>3 DEF Whole
<1> QED
  BY <1>2, <1>3

\* UrcEnds finds the ends of the URC lines.
LEMMA UrcEndsAre ==
    ASSUME NEW b \in Seq(Pieces), Begun(b)
    PROVE  UrcEnds(b, LineEnds(b, 1), 1) = {j \in 1 .. Len(b) : UrcAt(b, j)}
<1> DEFINE E == LineEnds(b, 1)
<1>1. ASSUME NEW j \in E
      PROVE  (LineStart(j, E, 1) = j - 1 /\ Whole(b, j - 1, Urcs)) <=> UrcAt(b, j)
  <2>1. /\ LineStart(j, E, 1) = j - 1 /\ j - 1 \in 1 .. Len(b) /\ j \in 1 .. Len(b)
        /\ b[j - 1] = <<b[j][1], b[j][2], "head">>
    BY <1>1, LineStarts
  <2>2. b[j][3] = "tail" /\ Len(b) \in Nat
    BY LenProperties DEF LineEnds, Piece
  <2>3. b[j - 1][1] = b[j][1] /\ b[j - 1][2] = b[j][2] /\ b[j - 1][3] = "head"
    BY <2>1
  <2>4. b[j] = <<b[j][1], b[j][2], "tail">>
    BY <2>1, <2>2, PieceParts
  <2>5. j - 1 < Len(b) /\ (j - 1) + 1 = j
    BY <2>1, <2>2
  <2>6. Whole(b, j - 1, Urcs) <=> b[j][1] \in Urcs
    <3>1. Whole(b, j - 1, Urcs) <=> /\ j - 1 < Len(b) /\ b[j - 1][1] \in Urcs /\ b[j - 1][3] = "head"
                                    /\ b[j - 1 + 1] = <<b[j - 1][1], b[j - 1][2], "tail">>
      BY <2>1, WholeLine
    <3> QED
      BY <2>3, <2>4, <2>5, <3>1
  <2>7. UrcAt(b, j) <=> b[j][1] \in Urcs
    BY <2>1, <2>2 DEF UrcAt, IsUrc
  <2> QED
    BY <2>1, <2>6, <2>7
<1>2. E = {j \in 1 .. Len(b) : b[j][3] = "tail"}
  BY DEF LineEnds, Piece
<1> HIDE DEF E
<1>3. UrcEnds(b, E, 1) = {j \in E : LineStart(j, E, 1) = j - 1 /\ Whole(b, j - 1, Urcs)}
  BY DEF UrcEnds
<1>4. UrcEnds(b, E, 1) = {j \in E : UrcAt(b, j)}
  BY <1>1, <1>3
<1>5. {j \in E : UrcAt(b, j)} = {j \in 1 .. Len(b) : UrcAt(b, j)}
  BY <1>2 DEF UrcAt
<1> QED
  BY <1>4, <1>5 DEF E

-----------------------------------------------------------------------------
(* What a scan leaves, in general.                                         *)

\* A line starts where the scan began, or later, and after the lines before it.
LEMMA LineStartFrom ==
    ASSUME NEW k \in Nat, NEW from \in Nat \ {0}, NEW E \in SUBSET (from .. k), NEW j \in E
    PROVE  LineStart(j, E, from) \in from .. k /\ \A e \in E : e < j => e < LineStart(j, E, from)
<1>1. CASE \E i \in E : i < j
  <2> DEFINE I == {i \in E : i < j}
             ok(i) == i < j /\ \A e \in E : e < j => e <= i
  <2>1. I \in SUBSET (1 .. k) /\ I # {}
    <3>1. \A i \in E : i \in from .. k
      OBVIOUS
    <3>2. \A i \in E : i \in 1 .. k
      BY <3>1
    <3> QED
      BY <1>1, <3>2
  <2>2. Max(I) \in I /\ \A i \in I : i <= Max(I)
    <3> HIDE DEF I
    <3> QED
      BY <2>1, Greatest
  <2>3. \E i \in E : ok(i)
    BY <2>2
  <2> HIDE DEF I
  <2>4. (CHOOSE i \in E : ok(i)) \in E /\ ok(CHOOSE i \in E : ok(i))
    <3> HIDE DEF ok
    <3> QED
      BY <2>3
  <2>5. LineStart(j, E, from) = 1 + CHOOSE i \in E : ok(i)
    BY <1>1 DEF LineStart
  <2>6. PICK x \in E : x = (CHOOSE i \in E : ok(i)) /\ x < j /\ \A e \in E : e < j => e <= x
    BY <2>4
  <2> HIDE DEF ok
  <2>7. LineStart(j, E, from) = 1 + x
    BY <2>5, <2>6
  <2>8. j \in from .. k /\ x \in from .. k
    OBVIOUS
  <2>9. LineStart(j, E, from) \in from .. k
    BY <2>6, <2>7, <2>8
  <2>10. ASSUME NEW e \in E, e < j PROVE e < 1 + x
    <3>1. e <= x /\ e \in from .. k
      BY <2>6, <2>10
    <3> QED
      BY <2>8, <3>1
  <2> QED
    BY <2>7, <2>9, <2>10
<1>2. CASE ~ \E i \in E : i < j
  <2>1. LineStart(j, E, from) = from
    BY <1>2 DEF LineStart
  <2> QED
    BY <1>2, <2>1
<1> QED
  BY <1>1, <1>2

\* The numbers of the pieces.
Numbers(b) == [j \in 1 .. Len(b) |-> b[j][2]]

\* The numbers of the lines.
LEMMA NumbersSeq ==
    ASSUME NEW b \in Seq(Pieces)
    PROVE  Numbers(b) \in Seq(Nat) /\ Len(Numbers(b)) = Len(b) /\ \A j \in 1 .. Len(b) : Numbers(b)[j] = b[j][2]
<1>1. Len(b) \in Nat /\ \A j \in 1 .. Len(b) : b[j][2] \in Nat
  BY LenProperties, PieceParts
<1>2. Numbers(b) \in [1 .. Len(b) -> Nat]
  BY <1>1 DEF Numbers
<1>3. \A j \in 1 .. Len(b) : Numbers(b)[j] = b[j][2]
  BY DEF Numbers
<1> QED
  BY <1>1, <1>2, <1>3

\* The sets of positions that a scan works with.
EndOf(b, from, mode, p) ==
  LastEnd(b, {j \in UrcEnds(b, LineEnds(b, from), from) : b[j][1] = "pin"}, mode, p)
TakenOf(b, from, last) == {j \in UrcEnds(b, LineEnds(b, from), from) : j <= last}
GoneOf(b, from, mode, last) ==
  UNION {LineStart(j, LineEnds(b, from), from) .. j :
           j \in {e \in LineEnds(b, from) : e < last /\ Removes(mode, e \in UrcEnds(b, LineEnds(b, from), from))}}
PinsOf(b, s) == {j \in s : b[j][1] = "pin"}

\* What a scan that ends at last removes and takes.
ScanIs(r, b, h, p, last, gone, taken) ==
  /\ r.rx = At(b, (1 .. Len(b)) \ gone)
  /\ r.urcs = h \o At(Numbers(b), taken)
  /\ r.pins = p + Cardinality(PinsOf(b, taken))
  /\ r.stop = IF last > Len(b) THEN 0 ELSE last - 1 - Cardinality(gone)

\* The parts of what a scan returns.
LEMMA ScanFields ==
    ASSUME NEW b, NEW from, NEW mode, NEW h, NEW p, NEW last, last = EndOf(b, from, mode, p),
           NEW r, r = Scan(b, from, mode, h, p)
    PROVE  ScanIs(r, b, h, p, last, GoneOf(b, from, mode, last), TakenOf(b, from, last))
BY DEF Scan, EndOf, TakenOf, GoneOf, PinsOf, Numbers, ScanIs

\* Where the scan ends.
LEMMA EndIs ==
    ASSUME NEW b \in Seq(Pieces), NEW from \in Nat \ {0}, NEW mode, NEW p \in Nat, NEW last,
           last = EndOf(b, from, mode, p)
    PROVE  \/ /\ last = Len(b) + 2
              /\ p > 0 \/ mode = "timer" \/ PinsOf(b, UrcEnds(b, LineEnds(b, from), from)) = {}
           \/ /\ p = 0 /\ last \in from .. Len(b) /\ mode # "timer"
              /\ last \in PinsOf(b, UrcEnds(b, LineEnds(b, from), from))
<1> DEFINE P == PinsOf(b, UrcEnds(b, LineEnds(b, from), from))
<1>1. P \subseteq from .. Len(b)
  BY DEF PinsOf, UrcEnds, LineEnds
<1>2. last = LastEnd(b, P, mode, p)
  BY DEF EndOf, PinsOf
<1> HIDE DEF P
<1>3. CASE p > 0 \/ mode = "timer" \/ P = {}
  BY <1>2, <1>3 DEF LastEnd, P
<1>4. CASE ~ (p > 0 \/ mode = "timer" \/ P = {})
  <2> DEFINE ok(j) == \A e \in P : j <= e
  <2>1. P \in SUBSET Nat /\ P # {}
    BY <1>1, <1>4
  <2>2. \E j \in P : ok(j)
    BY <2>1, Least
  <2>3. last = CHOOSE j \in P : ok(j)
    BY <1>2, <1>4 DEF LastEnd
  <2> HIDE DEF ok
  <2>4. last \in P
    BY <2>2, <2>3
  <2> QED
    BY <1>1, <1>4, <2>4 DEF P
<1> QED
  BY <1>3, <1>4

\* A scan that does not stop goes on to the end.
LEMMA NoStop ==
    ASSUME NEW b \in Seq(Pieces), NEW from \in Nat \ {0}, NEW mode, NEW h, NEW p \in Nat, NEW last,
           last = EndOf(b, from, mode, p), NEW r, r = Scan(b, from, mode, h, p), r.stop = 0
    PROVE  last = Len(b) + 2
<1> SUFFICES ASSUME last # Len(b) + 2 PROVE FALSE
  OBVIOUS
<1> DEFINE ends == LineEnds(b, from)
           gone == GoneOf(b, from, mode, last)
           taken == TakenOf(b, from, last)
<1>1. Len(b) \in Nat
  BY LenProperties
<1>2. last \in from .. Len(b) /\ last \in UrcEnds(b, ends, from)
  BY EndIs DEF PinsOf
<1>3. last \in ends /\ LineStart(last, ends, from) = last - 1
  BY <1>2 DEF UrcEnds
<1>4. ends \in SUBSET (from .. Len(b))
  BY DEF LineEnds
<1>5. \A x \in gone : \E j \in ends : j < last /\ x \in LineStart(j, ends, from) .. j
  BY DEF GoneOf
<1>6. ScanIs(r, b, h, p, last, gone, taken)
  BY ScanFields
<1>7. r.stop = last - 1 - Cardinality(gone)
  <2>1. ~ (last > Len(b))
    BY <1>1, <1>2
  <2> HIDE DEF gone, taken
  <2> QED
    BY <1>6, <2>1 DEF ScanIs
<1> HIDE DEF ends, gone, taken
<1>8. \A j \in ends : LineStart(j, ends, from) \in from .. Len(b)
  BY <1>1, <1>4, LineStartFrom
<1>9. \A j \in ends : j < last => j < last - 1
  <2>1. \A j \in ends : j < last => j < LineStart(last, ends, from)
    BY <1>1, <1>3, <1>4, LineStartFrom
  <2> QED
    BY <1>3, <2>1
<1>10. gone \subseteq from .. last - 2
  <2> SUFFICES ASSUME NEW x \in gone PROVE x \in from .. last - 2
    OBVIOUS
  <2>1. PICK j \in ends : j < last /\ x \in LineStart(j, ends, from) .. j
    BY <1>5
  <2>2. j \in from .. Len(b) /\ LineStart(j, ends, from) \in from .. Len(b) /\ j < last - 1
    BY <1>4, <1>8, <1>9, <2>1
  <2>3. last \in from .. Len(b)
    BY <1>2
  <2> QED
    BY <1>1, <2>1, <2>2, <2>3
<1>11. IsFiniteSet(from .. last - 2) /\ Cardinality(from .. last - 2) <= last - 2 /\ Cardinality(from .. last - 2) \in Nat
  <2>1. from \in Int /\ last - 2 \in Int /\ last \in Int /\ from >= 1 /\ last >= from
    BY <1>1, <1>2
  <2>2. /\ IsFiniteSet(from .. last - 2)
        /\ Cardinality(from .. last - 2) = IF from > last - 2 THEN 0 ELSE (last - 2) - from + 1
    BY <2>1, FS_Interval
  <2>3. last >= 2
    <3>1. last \in ends /\ last - 1 \in from .. Len(b)
      BY <1>3, <1>8
    <3> QED
      BY <2>1, <3>1
  <2> QED
    BY <2>1, <2>2, <2>3
<1>12. Cardinality(gone) <= last - 2 /\ Cardinality(gone) \in Nat
  <2>1. IsFiniteSet(gone) /\ Cardinality(gone) <= Cardinality(from .. last - 2)
    BY <1>10, <1>11, FS_Subset
  <2>2. Cardinality(gone) \in Nat
    BY <2>1, FS_CardinalityType
  <2>3. last \in Int
    BY <1>1, <1>2
  <2> QED
    BY <1>11, <2>1, <2>2, <2>3
<1>13. last \in Int
  BY <1>1, <1>2
<1>14. \A c \in Nat, l \in Int : c <= l - 2 => l - 1 - c # 0
  OBVIOUS
<1> QED
  BY <1>7, <1>12, <1>13, <1>14

\* A scan that does not stop takes no PIN URC, unless the PIN was asked for.
LEMMA ScanQuiet ==
    ASSUME NEW b \in Seq(Pieces), NEW from \in Nat \ {0}, NEW mode, mode # "timer", NEW h,
           NEW r, r = Scan(b, from, mode, h, 0), r.stop = 0
    PROVE  r.pins = 0
<1> DEFINE last == EndOf(b, from, mode, 0)
           taken == TakenOf(b, from, last)
           gone == GoneOf(b, from, mode, last)
           U == UrcEnds(b, LineEnds(b, from), from)
<1>1. last = Len(b) + 2
  <2> HIDE DEF last
  <2>1. last = EndOf(b, from, mode, 0) /\ 0 \in Nat
    BY DEF last
  <2> QED
    BY <2>1, NoStop
<1>2. PinsOf(b, U) = {}
  <2> HIDE DEF last
  <2>1. last = EndOf(b, from, mode, 0) /\ 0 \in Nat /\ ~ (0 > 0)
    BY DEF last
  <2>2. Len(b) \in Nat
    BY LenProperties
  <2>3. ~ (last \in from .. Len(b))
    BY <1>1, <2>2
  <2> QED
    BY <2>1, <2>3, EndIs
<1>3. taken \subseteq U
  BY DEF TakenOf
<1>4. ScanIs(r, b, h, 0, last, gone, taken)
  <2> HIDE DEF last
  <2>1. last = EndOf(b, from, mode, 0)
    BY DEF last
  <2> QED
    BY <2>1, ScanFields
<1> HIDE DEF last, taken, gone, U
<1>5. PinsOf(b, taken) = {}
  BY <1>2, <1>3 DEF PinsOf
<1>6. r.pins = 0 + Cardinality(PinsOf(b, taken))
  BY <1>4 DEF ScanIs
<1> QED
  BY <1>5, <1>6, FS_EmptySet

\* A scan gives a buffer and URCs of their types; it stops at a PIN URC once only.
ScanTypesOK(r, b, h, p) ==
  /\ r.rx \in Seq(Pieces) /\ Len(r.rx) <= Len(b) /\ r.urcs \in Seq(Nat)
  /\ r.pins \in Nat /\ r.pins >= p /\ r.stop \in Int
  /\ r.stop > 0 => p = 0 /\ r.pins > 0

\* The types of what a scan returns.
LEMMA ScanTypes ==
    ASSUME NEW b \in Seq(Pieces), NEW from \in Nat \ {0}, NEW mode, NEW h \in Seq(Nat), NEW p \in Nat,
           NEW r, r = Scan(b, from, mode, h, p)
    PROVE  ScanTypesOK(r, b, h, p)
<1> DEFINE last == EndOf(b, from, mode, p)
           ends == LineEnds(b, from)
           urcEnds == UrcEnds(b, ends, from)
           taken == TakenOf(b, from, last)
           gone == GoneOf(b, from, mode, last)
           pinsIn == PinsOf(b, taken)
<1>1. Len(b) \in Nat
  BY LenProperties
<1>2. ends \in SUBSET (from .. Len(b)) /\ urcEnds \in SUBSET (from .. Len(b)) /\ taken \subseteq from .. Len(b)
      /\ pinsIn \subseteq from .. Len(b)
  BY DEF LineEnds, UrcEnds, TakenOf, PinsOf
<1>3. gone \subseteq from .. Len(b)
  <2>1. \A j \in ends : LineStart(j, ends, from) \in from .. Len(b)
    <3> SUFFICES ASSUME NEW j \in ends PROVE LineStart(j, ends, from) \in from .. Len(b)
      OBVIOUS
    <3> HIDE DEF ends
    <3> QED
      BY <1>1, <1>2, LineStartFrom
  <2>2. \A j \in ends : LineStart(j, ends, from) .. j \subseteq from .. Len(b)
    <3> SUFFICES ASSUME NEW j \in ends PROVE LineStart(j, ends, from) .. j \subseteq from .. Len(b)
      OBVIOUS
    <3>1. j \in from .. Len(b) /\ LineStart(j, ends, from) \in from .. Len(b)
      BY <1>2, <2>1
    <3> HIDE DEF ends
    <3> QED
      BY <1>1, <3>1
  <2>3. \A x \in gone : \E j \in ends : x \in LineStart(j, ends, from) .. j
    BY DEF GoneOf
  <2> HIDE DEF gone, ends
  <2> QED
    BY <2>2, <2>3
<1>4. IsFiniteSet(from .. Len(b))
  BY <1>1, FS_Interval
<1>5. IsFiniteSet(gone) /\ IsFiniteSet(pinsIn)
  <2> HIDE DEF gone, pinsIn
  <2> QED
    BY <1>2, <1>3, <1>4, FS_Subset
<1>6. Cardinality(gone) \in Nat /\ Cardinality(pinsIn) \in Nat
  <2> HIDE DEF gone, pinsIn
  <2> QED
    BY <1>5, FS_CardinalityType
<1>7. /\ r.rx = At(b, (1 .. Len(b)) \ gone)
      /\ r.urcs = h \o At(Numbers(b), taken)
      /\ r.pins = p + Cardinality(pinsIn)
      /\ r.stop = IF last > Len(b) THEN 0 ELSE last - 1 - Cardinality(gone)
  <2> HIDE DEF last
  <2>1. last = EndOf(b, from, mode, p)
    BY DEF last
  <2>2. ScanIs(r, b, h, p, last, gone, taken)
    BY <2>1, ScanFields
  <2> HIDE DEF gone, taken
  <2> QED
    BY <2>2 DEF ScanIs
<1>8. \/ last = Len(b) + 2
      \/ p = 0 /\ last \in from .. Len(b) /\ last \in PinsOf(b, urcEnds)
  <2> HIDE DEF last
  <2>1. last = EndOf(b, from, mode, p)
    BY DEF last
  <2> QED
    BY <2>1, EndIs
<1>9. last \in from .. Len(b) => (last \in PinsOf(b, urcEnds) => last \in pinsIn)
  <2> HIDE DEF last
  <2> QED
    BY <1>1 DEF PinsOf, TakenOf
<1> HIDE DEF last, ends, urcEnds, taken, gone, pinsIn
<1>10. r.rx \in Seq(Pieces) /\ Len(r.rx) <= Len(b)
  BY <1>7, AtSub
<1>11. r.urcs \in Seq(Nat)
  <2>1. At(Numbers(b), taken) \in Seq(Nat)
    BY NumbersSeq, AtSub
  <2> QED
    BY <1>7, <2>1, ConcatProperties
<1>12. r.pins \in Nat /\ r.pins >= p
  BY <1>6, <1>7
<1>13. r.stop \in Int
  BY <1>1, <1>6, <1>7, <1>8
<1>14. ASSUME r.stop > 0 PROVE p = 0 /\ r.pins > 0
  <2>1. last # Len(b) + 2
    BY <1>1, <1>7, <1>14
  <2>2. p = 0 /\ last \in pinsIn
    BY <1>8, <1>9, <2>1
  <2>3. Cardinality(pinsIn) # 0
    BY <1>5, <2>2, FS_EmptySet
  <2> QED
    BY <1>6, <1>7, <2>2, <2>3
<1> QED
  BY <1>10, <1>11, <1>12, <1>13, <1>14 DEF ScanTypesOK

-----------------------------------------------------------------------------
(* What a scan of whole lines leaves, when it does not run into a command. *)

UrcSet(b) == {j \in 1 .. Len(b) : UrcAt(b, j)}

\* The pieces of complete lines that the scan removes.
Gone(b, mode) ==
  {i \in 1 .. Len(b) : (b[i][3] = "head" => i < Len(b)) /\ Removes(mode, IsUrc(b[i]))}

Clear(r, b, h, mode) ==
  /\ r.pins = 0
  /\ r.rx = At(b, (1 .. Len(b)) \ Gone(b, mode))
  /\ r.urcs = h \o At(Numbers(b), UrcSet(b))

\* What a scan removes.
LEMMA GoneIs ==
    ASSUME NEW b \in Seq(Pieces), Begun(b), NEW mode
    PROVE  GoneOf(b, 1, mode, Len(b) + 2) = Gone(b, mode)
<1> DEFINE E == LineEnds(b, 1)
           U == UrcEnds(b, E, 1)
           G == GoneOf(b, 1, mode, Len(b) + 2)
<1>1. Len(b) \in Nat
  BY LenProperties
<1>2. /\ \A j \in E : /\ LineStart(j, E, 1) = j - 1 /\ j - 1 \in 1 .. Len(b) /\ j \in 1 .. Len(b)
                      /\ b[j - 1] = <<b[j][1], b[j][2], "head">>
      /\ \A j \in E : b[j][3] = "tail"
      /\ \A j \in 1 .. Len(b) : b[j][3] = "tail" => j \in E
  BY LineStarts DEF LineEnds, Piece
<1>3. \A j \in E : (j \in U) <=> IsUrc(b[j])
  <2>1. U = {j \in 1 .. Len(b) : UrcAt(b, j)}
    BY UrcEndsAre
  <2> HIDE DEF U, E
  <2> QED
    BY <1>2, <2>1 DEF UrcAt
<1>4. \A x : x \in G <=> \E j \in E : j < Len(b) + 2 /\ Removes(mode, j \in U) /\ x \in LineStart(j, E, 1) .. j
  BY DEF GoneOf
<1> HIDE DEF E, U, G
<1>5. \A j \in E : j < Len(b) + 2 /\ j \in 2 .. Len(b)
  BY <1>1, <1>2
<1>6. \A j \in E : Removes(mode, j \in U) <=> Removes(mode, IsUrc(b[j]))
  <2>1. \A x, y \in BOOLEAN : (x <=> y) => (Removes(mode, x) <=> Removes(mode, y))
    BY DEF Removes
  <2>2. \A j \in E : (j \in U) \in BOOLEAN /\ IsUrc(b[j]) \in BOOLEAN
    BY DEF IsUrc
  <2> QED
    BY <1>3 DEF Removes, IsUrc
<1>7. \A x : x \in G <=> \E j \in E : Removes(mode, IsUrc(b[j])) /\ (x = j - 1 \/ x = j)
  <2>1. \A j \in E : \A x : x \in LineStart(j, E, 1) .. j <=> (x = j - 1 \/ x = j)
    <3> SUFFICES ASSUME NEW j \in E, NEW x PROVE x \in LineStart(j, E, 1) .. j <=> (x = j - 1 \/ x = j)
      OBVIOUS
    <3>1. LineStart(j, E, 1) = j - 1 /\ j \in Nat
      BY <1>2
    <3>2. x \in j - 1 .. j <=> (x = j - 1 \/ x = j)
      BY <3>1
    <3> QED
      BY <3>1, <3>2
  <2> QED
    BY <1>4, <1>5, <1>6, <2>1
<1>8. ASSUME NEW x \in G PROVE x \in Gone(b, mode)
  <2>1. PICK j \in E : Removes(mode, IsUrc(b[j])) /\ (x = j - 1 \/ x = j)
    BY <1>7
  <2>2. CASE x = j
    <3>1. x \in 1 .. Len(b) /\ b[x][3] = "tail"
      BY <1>2, <2>2
    <3> QED
      BY <2>1, <2>2, <3>1 DEF Gone
  <2>3. CASE x = j - 1
    <3>1. x \in 1 .. Len(b) /\ x < Len(b) /\ b[x] = <<b[j][1], b[j][2], "head">>
      BY <1>1, <1>2, <2>3
    <3>2. IsUrc(b[x]) <=> IsUrc(b[j])
      BY <3>1 DEF IsUrc
    <3>3. Removes(mode, IsUrc(b[x]))
      BY <2>1, <3>2 DEF Removes
    <3> QED
      BY <3>1, <3>3 DEF Gone
  <2> QED
    BY <2>1, <2>2, <2>3
<1>9. ASSUME NEW x \in Gone(b, mode) PROVE x \in G
  <2>1. x \in 1 .. Len(b) /\ (b[x][3] = "head" => x < Len(b)) /\ Removes(mode, IsUrc(b[x]))
    BY DEF Gone
  <2>2. CASE b[x][3] = "tail"
    BY <1>2, <1>7, <2>1, <2>2
  <2>3. CASE b[x][3] = "head"
    <3>1. x < Len(b) /\ b[x + 1] = <<b[x][1], b[x][2], "tail">>
      BY <2>1, <2>3 DEF Begun
    <3>2. x + 1 \in 1 .. Len(b) /\ b[x + 1][3] = "tail" /\ b[x + 1][1] = b[x][1] /\ x + 1 - 1 = x
      BY <1>1, <2>1, <3>1
    <3>3. Removes(mode, IsUrc(b[x + 1]))
      BY <2>1, <3>2 DEF IsUrc
    <3>4. x + 1 \in E
      BY <1>2, <3>2
    <3>5. x \in Nat /\ x = (x + 1) - 1
      BY <2>1
    <3> QED
      BY <1>7, <3>3, <3>4, <3>5
  <2>4. b[x][3] \in {"head", "tail"}
    BY <2>1, PieceParts
  <2> QED
    BY <2>2, <2>3, <2>4
<1>10. \A x : x \in G <=> x \in Gone(b, mode)
  BY <1>8, <1>9
<1> QED
  BY <1>10 DEF G

\* What a scan of whole lines leaves holds no URC.
LEMMA ScanClear ==
    ASSUME NEW b \in Seq(Pieces), Begun(b), NEW mode, NEW h \in Seq(Nat), NEW r, r = Scan(b, 1, mode, h, 0),
           (mode = "timer" /\ r.pins = 0) \/ (mode # "timer" /\ r.stop = 0)
    PROVE  Clear(r, b, h, mode)
<1> DEFINE last == EndOf(b, 1, mode, 0)
           ends == LineEnds(b, 1)
           urcEnds == UrcEnds(b, ends, 1)
           taken == TakenOf(b, 1, last)
           gone == GoneOf(b, 1, mode, last)
<1>1. Len(b) \in Nat
  BY LenProperties
<1>2. ScanIs(r, b, h, 0, last, gone, taken)
  <2> HIDE DEF last
  <2>1. last = EndOf(b, 1, mode, 0)
    BY DEF last
  <2> QED
    BY <2>1, ScanFields
<1>3. last = Len(b) + 2
  <2> HIDE DEF last
  <2>1. last = EndOf(b, 1, mode, 0) /\ 0 \in Nat /\ 1 \in Nat \ {0}
    BY DEF last
  <2>2. CASE mode = "timer"
    BY <2>1, <2>2, EndIs
  <2>3. CASE mode # "timer"
    BY <2>1, <2>3, NoStop
  <2> QED
    BY <2>2, <2>3
<1>4. urcEnds = UrcSet(b)
  BY UrcEndsAre DEF UrcSet
<1>5. taken = UrcSet(b)
  <2>1. taken = {j \in urcEnds : j <= last}
    BY DEF TakenOf
  <2>2. \A j \in UrcSet(b) : j \in 1 .. Len(b)
    BY DEF UrcSet
  <2> HIDE DEF taken, urcEnds, last
  <2> QED
    BY <1>1, <1>3, <1>4, <2>1, <2>2
<1>6. gone = Gone(b, mode)
  <2> HIDE DEF last
  <2>1. gone = GoneOf(b, 1, mode, Len(b) + 2)
    BY <1>3
  <2> QED
    BY <2>1, GoneIs
<1>7. r.pins = 0
  <2>1. 1 \in Nat \ {0}
    OBVIOUS
  <2> QED
    BY <2>1, ScanQuiet
<1> HIDE DEF last, gone, taken, urcEnds, ends
<1> QED
  BY <1>2, <1>5, <1>6, <1>7 DEF ScanIs, Clear

-----------------------------------------------------------------------------
(* Order of the URCs.                                                      *)

\* Growing numbers after m that leave none out are counted on from m.
LEMMA CountedOn ==
    ASSUME NEW v \in Seq(Nat), NEW m \in Nat,
           \A i, k \in 1 .. Len(v) : i < k => v[i] < v[k],
           \A i \in 1 .. Len(v) : v[i] > m,
           \A i \in 1 .. Len(v) : \A x \in m + 1 .. v[i] : \E k \in 1 .. Len(v) : v[k] = x
    PROVE  \A i \in 1 .. Len(v) : v[i] = m + i
<1> DEFINE Bad == {i \in 1 .. Len(v) : v[i] # m + i}
<1>1. Len(v) \in Nat /\ \A i \in 1 .. Len(v) : v[i] \in Nat
  BY LenProperties, ElementOfSeq
<1>2. Bad = {}
  <2> SUFFICES ASSUME Bad # {} PROVE FALSE
    OBVIOUS
  <2>1. Bad \in SUBSET Nat
    OBVIOUS
  <2>2. PICK i \in Bad : \A j \in Bad : i <= j
    <3> HIDE DEF Bad
    <3> QED
      BY <2>1, Least
  <2>3. i \in 1 .. Len(v) /\ v[i] # m + i /\ v[i] \in Nat /\ v[i] > m
    BY <1>1, <2>2
  <2>4. \A j \in 1 .. Len(v) : j < i => v[j] = m + j
    <3> SUFFICES ASSUME NEW j \in 1 .. Len(v), j < i PROVE v[j] = m + j
      OBVIOUS
    <3>1. j \notin Bad
      BY <1>1, <2>2
    <3> QED
      BY <3>1
  <2>5. v[i] > m + i
    <3>1. CASE i = 1
      BY <2>3, <3>1
    <3>2. CASE i # 1
      <4>1. i - 1 \in 1 .. Len(v) /\ i - 1 < i
        BY <1>1, <2>3, <3>2
      <4>2. v[i - 1] < v[i] /\ v[i - 1] = m + (i - 1)
        BY <2>3, <2>4, <4>1
      <4>3. \A y \in Nat : m + (i - 1) < y /\ y # m + i => y > m + i
        BY <2>3
      <4> QED
        BY <2>3, <4>2, <4>3
    <3> QED
      BY <3>1, <3>2
  <2>6. m + i \in m + 1 .. v[i]
    BY <2>3, <2>5
  <2>7. PICK k \in 1 .. Len(v) : v[k] = m + i
    BY <2>3, <2>6
  <2>8. k < i
    <3>1. i < k => v[i] < v[k]
      BY <2>3
    <3>2. k # i
      BY <2>3, <2>7
    <3> QED
      BY <2>3, <2>5, <2>7, <3>1, <3>2
  <2>9. v[k] = m + k
    BY <2>4, <2>8
  <2> QED
    BY <2>3, <2>7, <2>8, <2>9
<1> QED
  BY <1>2

\* The URC lines up to position k are those with the numbers up to m.
Divided(s, k, m) == \A i \in 1 .. Len(s) : UrcAt(s, i) => (i <= k <=> s[i][2] <= m)

\* The numbers of the URC lines that b holds are the next ones.
LEMMA ScanOrders ==
    ASSUME NEW b \in Seq(Pieces), NEW q \in Seq(Pieces), NEW n \in Nat, NEW h \in Seq(Nat),
           Counted(h, n), Awaiting(b \o q, Len(h), n),
           NEW v, v = At(Numbers(b), UrcSet(b))
    PROVE  /\ Counted(h \o v, n) /\ Len(h) <= Len(h \o v) /\ h \o v \in Seq(Nat)
           /\ Divided(b \o q, Len(b), Len(h \o v))
<1> DEFINE w == b \o q
           m == Len(h)
           K == Len(v)
           N(i) == w[i][2]
<1>1. Len(b) \in Nat /\ Len(q) \in Nat /\ m \in Nat /\ m <= n
  BY LenProperties DEF Counted
<1>2. v \in Seq(Nat) /\ Sub(v, Numbers(b), UrcSet(b)) /\ K \in Nat
  <2>1. v \in Seq(Nat) /\ Sub(v, Numbers(b), UrcSet(b))
    BY NumbersSeq, AtSub
  <2> QED
    BY <2>1, LenProperties
<1>3. PICK e : Places(e, v, Numbers(b), UrcSet(b), Len(b))
  BY <1>2, NumbersSeq DEF Sub
<1>4. Len(w) = Len(b) + Len(q) /\ w \in Seq(Pieces) /\ \A i \in 1 .. Len(b) : w[i] = b[i]
  <2>1. \A i \in 1 .. Len(b) : i \in 1 .. Len(b) + Len(q) /\ i <= Len(b)
    BY <1>1
  <2> QED
    BY <2>1, ConcatProperties
<1>5. \A i \in 1 .. Len(b) : i \in 1 .. Len(w) /\ (i \in UrcSet(b) <=> UrcAt(w, i))
  BY <1>1, <1>4 DEF UrcSet, UrcAt
<1>6. /\ \A i \in 1 .. Len(w) : UrcAt(w, i) => N(i) \in m + 1 .. n
      /\ \A k \in m + 1 .. n : \E i \in 1 .. Len(w) : UrcAt(w, i) /\ N(i) = k
      /\ \A i, k \in 1 .. Len(w) : i < k /\ UrcAt(w, i) /\ UrcAt(w, k) => N(i) < N(k)
  BY DEF Awaiting
<1> HIDE DEF w, m
<1>7. /\ \A i \in 1 .. K : e[i] \in UrcSet(b) /\ e[i] \in 1 .. Len(b) /\ v[i] = Numbers(b)[e[i]]
      /\ \A x \in UrcSet(b) \cap (1 .. Len(b)) : \E i \in 1 .. K : e[i] = x
  BY <1>3 DEF Places
<1>8. \A i, k \in 1 .. K : i < k => e[i] < e[k]
  BY <1>3 DEF Places
<1> HIDE DEF K
<1>9. \A i \in 1 .. K : UrcAt(w, e[i]) /\ e[i] \in 1 .. Len(w) /\ v[i] = N(e[i])
  <2>1. \A j \in 1 .. Len(b) : Numbers(b)[j] = b[j][2]
    BY NumbersSeq
  <2> QED
    BY <1>4, <1>5, <1>7, <2>1
<1>10. \A i \in 1 .. Len(w) : UrcAt(w, i) /\ i <= Len(b) => \E k \in 1 .. K : e[k] = i
  <2> SUFFICES ASSUME NEW i \in 1 .. Len(w), UrcAt(w, i), i <= Len(b) PROVE \E k \in 1 .. K : e[k] = i
    OBVIOUS
  <2>1. i \in 1 .. Len(b) /\ i \in UrcSet(b)
    BY <1>1, <1>5
  <2> QED
    BY <1>7, <2>1
<1>11. \A i, k \in 1 .. K : i < k => v[i] < v[k]
  <2> SUFFICES ASSUME NEW i \in 1 .. K, NEW k \in 1 .. K, i < k PROVE v[i] < v[k]
    OBVIOUS
  <2>1. e[i] < e[k]
    BY <1>8
  <2>2. UrcAt(w, e[i]) /\ UrcAt(w, e[k]) /\ e[i] \in 1 .. Len(w) /\ e[k] \in 1 .. Len(w)
        /\ v[i] = N(e[i]) /\ v[k] = N(e[k])
    BY <1>9
  <2> HIDE DEF N
  <2> QED
    BY <1>6, <2>1, <2>2
<1>12. \A i \in 1 .. K : v[i] \in m + 1 .. n
  <2> HIDE DEF N
  <2> QED
    BY <1>6, <1>9
<1>13. ASSUME NEW i \in 1 .. K, NEW x \in m + 1 .. v[i] PROVE \E k \in 1 .. K : v[k] = x
  <2>1. x \in m + 1 .. n
    BY <1>1, <1>12
  <2> HIDE DEF N
  <2>2. PICK j \in 1 .. Len(w) : UrcAt(w, j) /\ N(j) = x
    BY <1>6, <2>1
  <2>3. UrcAt(w, e[i]) /\ e[i] \in 1 .. Len(w) /\ v[i] = N(e[i]) /\ e[i] \in 1 .. Len(b)
    BY <1>7, <1>9
  <2>4. e[i] < j => N(e[i]) < N(j)
    BY <1>6, <2>2, <2>3
  <2>5. j <= Len(b)
    <3>1. v[i] \in Int /\ x \in Int /\ x <= v[i]
      <4>1. v[i] \in m + 1 .. n
        BY <1>12
      <4> QED
        BY <4>1
    <3>2. ~ (v[i] < x)
      BY <3>1
    <3>3. ~ (e[i] < j)
      BY <2>2, <2>3, <2>4, <3>2
    <3> QED
      BY <1>1, <2>3, <3>3
  <2>6. PICK k \in 1 .. K : e[k] = j
    BY <1>10, <2>2, <2>5
  <2> QED
    BY <1>9, <2>2, <2>6
<1>14. \A i \in 1 .. K : v[i] = m + i
  <2>1. m \in Nat /\ \A i \in 1 .. K : v[i] > m
    BY <1>1, <1>12
  <2> HIDE DEF N
  <2> QED
    BY <1>2, <1>11, <1>13, <2>1, CountedOn DEF K
<1> DEFINE g == h \o v
<1>15. Len(g) = m + K /\ g \in Seq(Nat) /\ \A i \in 1 .. Len(g) : g[i] = IF i <= m THEN h[i] ELSE v[i - m]
  <2> HIDE DEF N
  <2> QED
    BY <1>2, ConcatProperties DEF m, K
<1>16. m + K <= n
  <2>1. CASE K = 0
    BY <1>1, <1>2, <2>1
  <2>2. CASE K # 0
    <3>1. K \in 1 .. K
      BY <1>2, <2>2 DEF K
    <3>2. v[K] = m + K /\ v[K] \in m + 1 .. n
      BY <1>12, <1>14, <3>1
    <3> QED
      BY <1>1, <3>2
  <2> QED
    BY <2>1, <2>2
<1>17. \A i \in 1 .. Len(g) : g[i] = i
  <2> SUFFICES ASSUME NEW i \in 1 .. Len(g) PROVE g[i] = i
    OBVIOUS
  <2>1. CASE i <= m
    <3>1. i \in 1 .. Len(h)
      BY <1>1, <2>1 DEF m
    <3>2. h = [j \in 1 .. Len(h) |-> j]
      BY DEF Counted
    <3>3. h[i] = i
      BY <3>1, <3>2
    <3> QED
      BY <1>15, <2>1, <3>3
  <2>2. CASE ~ (i <= m)
    <3>1. i - m \in 1 .. K /\ m + (i - m) = i
      <4>1. i \in 1 .. m + K
        BY <1>15
      <4> QED
        BY <1>1, <1>2, <2>2, <4>1 DEF K
    <3> QED
      BY <1>14, <1>15, <2>2, <3>1
  <2> QED
    BY <2>1, <2>2
<1>18. Counted(g, n)
  <2>1. g = [i \in 1 .. Len(g) |-> g[i]]
    <3>1. g \in Seq(Nat)
      BY <1>15
    <3> HIDE DEF g
    <3> QED
      BY <3>1
  <2> HIDE DEF g
  <2>2. g = [i \in 1 .. Len(g) |-> i]
    BY <1>17, <2>1
  <2> QED
    BY <1>15, <1>16, <2>2 DEF Counted
<1>19. Divided(w, Len(b), m + K)
  <2> SUFFICES ASSUME NEW i \in 1 .. Len(w), UrcAt(w, i) PROVE i <= Len(b) <=> N(i) <= m + K
    BY DEF Divided
  <2>1. N(i) \in m + 1 .. n
    BY <1>6
  <2> HIDE DEF N
  <2>2. CASE i <= Len(b)
    <3>1. PICK k \in 1 .. K : e[k] = i
      BY <1>10, <2>2
    <3>2. N(i) = m + k
      BY <1>9, <1>14, <3>1
    <3> QED
      BY <1>1, <1>2, <2>2, <3>2 DEF K
  <2>3. CASE ~ (i <= Len(b))
    <3>1. CASE K = 0
      BY <1>1, <2>1, <2>3, <3>1
    <3>2. CASE K # 0
      <4>1. K \in 1 .. K
        BY <1>2, <3>2 DEF K
      <4>2. UrcAt(w, e[K]) /\ e[K] \in 1 .. Len(w) /\ e[K] \in 1 .. Len(b) /\ N(e[K]) = m + K
        BY <1>7, <1>9, <1>14, <4>1
      <4>3. e[K] < i
        BY <1>1, <1>4, <2>3, <4>2
      <4>4. N(e[K]) < N(i)
        BY <1>6, <4>2, <4>3
      <4> QED
        BY <1>1, <1>2, <2>1, <2>3, <4>2, <4>4 DEF K
    <3> QED
      BY <3>1, <3>2
  <2> QED
    BY <2>2, <2>3
<1> HIDE DEF g, N
<1>20. Len(h) <= Len(g)
  BY <1>1, <1>2, <1>15 DEF m, K
<1> QED
  BY <1>15, <1>18, <1>19, <1>20 DEF w, g

\* A part without the URCs up to m awaits the others.
LEMMA AwaitRest ==
    ASSUME NEW s, Len(s) \in Nat, NEW t, Len(t) \in Nat, NEW S, Sub(t, s, S), NEW l \in Nat, NEW m \in Nat, NEW n \in Nat,
           l <= m, Awaiting(s, l, n),
           \A i \in 1 .. Len(s) : UrcAt(s, i) => (i \in S <=> ~ (s[i][2] <= m))
    PROVE  Awaiting(t, m, n)
<1>1. PICK e : Places(e, t, s, S, Len(s))
  BY DEF Sub
<1>2. /\ \A i \in 1 .. Len(t) : e[i] \in S /\ e[i] \in 1 .. Len(s) /\ t[i] = s[e[i]]
      /\ \A x \in S \cap (1 .. Len(s)) : \E i \in 1 .. Len(t) : e[i] = x
  BY <1>1 DEF Places
<1>3. \A i, k \in 1 .. Len(t) : i < k => e[i] < e[k]
  BY <1>1 DEF Places
<1>4. \A i \in 1 .. Len(t) : UrcAt(t, i) <=> UrcAt(s, e[i])
  BY <1>2 DEF UrcAt
<1>5. ASSUME NEW i \in 1 .. Len(t), UrcAt(t, i) PROVE t[i][2] \in m + 1 .. n
  <2>1. UrcAt(s, e[i]) /\ e[i] \in S /\ e[i] \in 1 .. Len(s) /\ t[i] = s[e[i]]
    BY <1>2, <1>4, <1>5
  <2>2. s[e[i]][2] \in l + 1 .. n /\ ~ (s[e[i]][2] <= m)
    BY <2>1 DEF Awaiting
  <2>3. t[i][2] \in l + 1 .. n /\ ~ (t[i][2] <= m)
    BY <2>1, <2>2
  <2>4. \A y \in l + 1 .. n : ~ (y <= m) => y \in m + 1 .. n
    OBVIOUS
  <2> QED
    BY <2>3, <2>4
<1>6. ASSUME NEW k \in m + 1 .. n PROVE \E i \in 1 .. Len(t) : UrcAt(t, i) /\ t[i][2] = k
  <2>1. k \in l + 1 .. n
    OBVIOUS
  <2>2. PICK x \in 1 .. Len(s) : UrcAt(s, x) /\ s[x][2] = k
    BY <2>1 DEF Awaiting
  <2>3. x \in S
    <3>1. ~ (s[x][2] <= m)
      BY <2>2
    <3> QED
      BY <2>2, <3>1
  <2>4. PICK i \in 1 .. Len(t) : e[i] = x
    BY <1>2, <2>3
  <2> QED
    BY <1>2, <1>4, <2>2, <2>4
<1>7. ASSUME NEW i \in 1 .. Len(t), NEW k \in 1 .. Len(t), i < k, UrcAt(t, i), UrcAt(t, k)
      PROVE  t[i][2] < t[k][2]
  <2>1. e[i] < e[k]
    BY <1>3, <1>7
  <2>2. UrcAt(s, e[i]) /\ UrcAt(s, e[k]) /\ e[i] \in 1 .. Len(s) /\ e[k] \in 1 .. Len(s)
        /\ t[i] = s[e[i]] /\ t[k] = s[e[k]]
    BY <1>2, <1>4, <1>7
  <2>3. s[e[i]][2] < s[e[k]][2]
    BY <2>1, <2>2 DEF Awaiting
  <2> QED
    BY <2>2, <2>3
<1> QED
  BY <1>5, <1>6, <1>7 DEF Awaiting

-----------------------------------------------------------------------------
(* A scan and a result keep the line straight.                             *)

Part(t, s) == \E S : Sub(t, s, S)

\* The first k pieces of what was read and not removed, and the rest of the line.
LEMMA ScanRest ==
    ASSUME NEW b \in Seq(Pieces), NEW q \in Seq(Pieces), Flat(b \o q), NEW mode, NEW r, NEW h, Clear(r, b, h, mode)
    PROVE  \E S : /\ Sub(r.rx \o q, b \o q, S) /\ Closed(S, b \o q)
                  /\ \A i \in 1 .. Len(b \o q) : UrcAt(b \o q, i) => (i \in S <=> ~ (i <= Len(b)))
                  /\ r.rx \in Seq(Pieces)
<1> DEFINE w == b \o q
           A == (1 .. Len(b)) \ Gone(b, mode)
           S == A \cup (Len(b) + 1 .. Len(b) + Len(q))
<1>1. Len(b) \in Nat /\ Len(q) \in Nat
  BY LenProperties
<1>2. Len(w) = Len(b) + Len(q) /\ \A i \in 1 .. Len(b) : i \in 1 .. Len(w) /\ w[i] = b[i]
  <2>1. \A i \in 1 .. Len(b) : i \in 1 .. Len(b) + Len(q) /\ i <= Len(b)
    BY <1>1
  <2> QED
    BY <2>1, ConcatProperties
<1>3. r.rx \in Seq(Pieces) /\ Sub(r.rx, b, A)
  <2>1. r.rx = At(b, A)
    BY DEF Clear
  <2> HIDE DEF A
  <2> QED
    BY <2>1, AtSub
<1>4. Sub(r.rx \o q, w, S)
  <2>1. A \in SUBSET (1 .. Len(b))
    OBVIOUS
  <2> HIDE DEF A
  <2> QED
    BY <1>3, <2>1, SubJoined
<1>5. \A i \in 1 .. Len(b) : i \in S <=> ~ ((w[i][3] = "head" => i < Len(b)) /\ Removes(mode, IsUrc(w[i])))
  <2>1. \A i \in 1 .. Len(b) : i \in S <=> i \notin Gone(b, mode)
    BY <1>1
  <2> HIDE DEF w, S
  <2> QED
    BY <1>2, <2>1 DEF Gone
<1>6. \A i \in 1 .. Len(w) : ~ (i <= Len(b)) => i \in S
  BY <1>1, <1>2
<1>7. Flat(w)
  OBVIOUS
<1> HIDE DEF w, S, A
<1>8. Closed(S, w)
  <2> SUFFICES ASSUME NEW i \in 1 .. Len(w), i < Len(w), w[i][3] = "head" PROVE i \in S <=> i + 1 \in S
    BY DEF Closed
  <2>1. w[i + 1] = <<w[i][1], w[i][2], "tail">>
    BY <1>7 DEF Flat
  <2>2. i + 1 \in 1 .. Len(w)
    BY <1>1, <1>2
  <2>3. w[i + 1][1] = w[i][1] /\ w[i + 1][3] = "tail"
    BY <2>1
  <2>4. CASE i + 1 <= Len(b)
    <3>1. i \in 1 .. Len(b) /\ i + 1 \in 1 .. Len(b) /\ i < Len(b)
      BY <1>1, <2>4
    <3>2. i \in S <=> ~ Removes(mode, IsUrc(w[i]))
      BY <1>5, <3>1
    <3>3. i + 1 \in S <=> ~ Removes(mode, IsUrc(w[i + 1]))
      BY <1>5, <2>3, <3>1
    <3> QED
      BY <2>3, <3>2, <3>3 DEF IsUrc
  <2>5. CASE i = Len(b)
    <3>1. i \in 1 .. Len(b) /\ ~ (i < Len(b)) /\ ~ (i + 1 <= Len(b))
      BY <1>1, <2>5
    <3> QED
      BY <1>5, <1>6, <2>2, <3>1
  <2>6. CASE i > Len(b)
    <3>1. ~ (i <= Len(b)) /\ ~ (i + 1 <= Len(b))
      BY <1>1, <2>6
    <3> QED
      BY <1>6, <2>2, <3>1
  <2> QED
    BY <1>1, <2>4, <2>5, <2>6
<1>9. \A i \in 1 .. Len(w) : UrcAt(w, i) => (i \in S <=> ~ (i <= Len(b)))
  <2> SUFFICES ASSUME NEW i \in 1 .. Len(w), UrcAt(w, i) PROVE i \in S <=> ~ (i <= Len(b))
    OBVIOUS
  <2>1. w[i][3] = "tail" /\ IsUrc(w[i])
    BY DEF UrcAt
  <2>2. CASE i <= Len(b)
    <3>1. i \in 1 .. Len(b)
      BY <1>1, <2>2
    <3>2. Removes(mode, IsUrc(w[i]))
      BY <2>1 DEF Removes
    <3> QED
      BY <1>5, <2>1, <2>2, <3>1, <3>2
  <2>3. CASE ~ (i <= Len(b))
    BY <1>6, <2>3
  <2> QED
    BY <2>2, <2>3
<1> QED
  BY <1>3, <1>4, <1>8, <1>9 DEF w

\* The line after a scan that did not run into a command.
Scanned(r, b, q, n) ==
  /\ r.pins = 0 /\ r.rx \in Seq(Pieces) /\ r.urcs \in Seq(Nat)
  /\ Flat(r.rx \o q) /\ Part(r.rx \o q, b \o q)
  /\ Counted(r.urcs, n) /\ Awaiting(r.rx \o q, Len(r.urcs), n)

\* A scan of whole lines keeps the line straight.
LEMMA ScanStraight ==
    ASSUME NEW b \in Seq(Pieces), NEW q \in Seq(Pieces), Flat(b \o q), NEW n \in Nat, NEW h \in Seq(Nat),
           Counted(h, n), Awaiting(b \o q, Len(h), n), NEW mode, NEW r, r = Scan(b, 1, mode, h, 0),
           (mode = "timer" /\ r.pins = 0) \/ (mode # "timer" /\ r.stop = 0)
    PROVE  Scanned(r, b, q, n) /\ Clear(r, b, h, mode)
<1>1. Begun(b)
  BY FlatBegun
<1>2. Clear(r, b, h, mode)
  BY <1>1, ScanClear
<1> DEFINE v == At(Numbers(b), UrcSet(b))
<1>3. r.pins = 0 /\ r.urcs = h \o v
  BY <1>2 DEF Clear
<1>4. /\ Counted(r.urcs, n) /\ Len(h) <= Len(r.urcs) /\ r.urcs \in Seq(Nat)
      /\ Divided(b \o q, Len(b), Len(r.urcs))
  <2>1. /\ Counted(h \o v, n) /\ Len(h) <= Len(h \o v) /\ h \o v \in Seq(Nat)
        /\ Divided(b \o q, Len(b), Len(h \o v))
    BY ScanOrders
  <2> HIDE DEF v
  <2> QED
    BY <1>3, <2>1
<1> DEFINE w == b \o q
           t == r.rx \o q
<1>5. PICK S : /\ Sub(t, w, S) /\ Closed(S, w)
               /\ \A i \in 1 .. Len(w) : UrcAt(w, i) => (i \in S <=> ~ (i <= Len(b)))
               /\ r.rx \in Seq(Pieces)
  BY <1>2, ScanRest
<1>6. t \in Seq(Pieces) /\ w \in Seq(Pieces)
  BY <1>5, ConcatProperties
<1>7. Flat(w) /\ Awaiting(w, Len(h), n)
  OBVIOUS
<1> HIDE DEF w, t, v
<1>8. Flat(t)
  BY <1>5, <1>6, <1>7, SubFlat
<1>9. \A i \in 1 .. Len(w) : UrcAt(w, i) => (i \in S <=> ~ (w[i][2] <= Len(r.urcs)))
  BY <1>4, <1>5 DEF Divided, w
<1>10. Len(w) \in Nat /\ Len(t) \in Nat /\ Len(h) \in Nat /\ Len(r.urcs) \in Nat
  BY <1>4, <1>6, LenProperties
<1>11. Awaiting(t, Len(r.urcs), n)
  BY <1>4, <1>5, <1>7, <1>9, <1>10, AwaitRest
<1>12. Part(t, w)
  BY <1>5 DEF Part
<1> QED
  BY <1>2, <1>3, <1>4, <1>5, <1>8, <1>11, <1>12 DEF Scanned, w, t

\* A part holds nothing of another command, and nothing twice.
LEMMA PartOwn ==
    ASSUME NEW s, NEW t, Part(t, s)
    PROVE  /\ NoAnswers(s) => NoAnswers(t)
           /\ \A c, p : ToCommand(s, c, p) => ToCommand(t, c, p)
<1>1. PICK S, e : Places(e, t, s, S, Len(s))
  BY DEF Part, Sub
<1>2. \A i \in 1 .. Len(t) : e[i] \in 1 .. Len(s) /\ t[i] = s[e[i]]
  BY <1>1 DEF Places
<1>3. \A i, k \in 1 .. Len(t) : i < k => e[i] < e[k]
  BY <1>1 DEF Places
<1>4. NoAnswers(s) => NoAnswers(t)
  BY <1>2 DEF NoAnswers
<1>5. ASSUME NEW c, NEW p, ToCommand(s, c, p) PROVE ToCommand(t, c, p)
  <2>1. \A i \in 1 .. Len(t) : IsUrc(t[i]) \/ t[i][2] = c
    BY <1>2, <1>5 DEF ToCommand
  <2>2. p = <<>> \/ ((\E x \in BOOLEAN : p = <<<<c, x>>>>) /\ \A i \in 1 .. Len(t) : t[i][1] \notin Results)
    BY <1>2, <1>5 DEF ToCommand
  <2>3. ASSUME NEW i \in 1 .. Len(t), NEW k \in 1 .. Len(t), i < k, t[i][1] \in Results, t[i][3] = "tail"
        PROVE  IsUrc(t[k])
    <3>1. e[i] < e[k] /\ e[i] \in 1 .. Len(s) /\ e[k] \in 1 .. Len(s) /\ t[i] = s[e[i]] /\ t[k] = s[e[k]]
      BY <1>2, <1>3, <2>3
    <3> QED
      BY <1>5, <2>3, <3>1 DEF ToCommand
  <2> QED
    BY <2>1, <2>2, <2>3 DEF ToCommand
<1> QED
  BY <1>4, <1>5

\* No complete URC line is left in a response.
LEMMA NoUrcLeft ==
    ASSUME NEW b \in Seq(Pieces), NEW h, NEW r, Clear(r, b, h, "rx")
    PROVE  \A i \in 1 .. Len(r.rx) : r.rx[i][3] = "tail" => ~ IsUrc(r.rx[i])
<1> DEFINE A == (1 .. Len(b)) \ Gone(b, "rx")
<1>1. Sub(r.rx, b, A)
  <2>1. r.rx = At(b, A)
    BY DEF Clear
  <2> HIDE DEF A
  <2> QED
    BY <2>1, AtSub
<1>2. \A j \in A : j \in 1 .. Len(b) /\ (b[j][3] = "tail" => ~ IsUrc(b[j]))
  BY DEF Gone, Removes
<1> HIDE DEF A
<1> QED
  BY <1>1, <1>2, SubElements

-----------------------------------------------------------------------------
(* Results.                                                                *)

\* The first result, and what follows it.
LEMMA ResultTypes ==
    ASSUME NEW t \in Seq(Pieces), ResultsIn(t) # {}, NEW i, i = ResultAt(t)
    PROVE  /\ i \in ResultsIn(t) /\ i \in 1 .. Len(t) /\ \A j \in ResultsIn(t) : i <= j
           /\ ResultEnd(t, i) \in i .. Len(t)
           /\ AfterResult(t, i) \in Seq(Pieces) /\ Len(AfterResult(t, i)) <= Len(t)
           /\ RunsOut(t, i) => AfterResult(t, i) = <<>>
<1> DEFINE P == ResultsIn(t)
           ok(x) == \A j \in P : x <= j
<1>1. Len(t) \in Nat
  BY LenProperties
<1>2. P \subseteq 1 .. Len(t)
  BY DEF ResultsIn
<1>3. i \in P /\ ok(i)
  <2>1. P \in SUBSET Nat /\ P # {}
    BY <1>2
  <2> HIDE DEF P
  <2>2. \E x \in P : ok(x)
    BY <2>1, Least
  <2>3. i = CHOOSE x \in P : ok(x)
    BY DEF ResultAt, P
  <2> HIDE DEF ok
  <2> QED
    BY <2>2, <2>3
<1>4. i \in 1 .. Len(t)
  BY <1>2, <1>3
<1>5. ResultEnd(t, i) \in i .. Len(t)
  BY <1>1, <1>4 DEF ResultEnd
<1> DEFINE e == ResultEnd(t, i)
<1>6. AfterResult(t, i) = SubSeq(t, e + 1, Len(t)) /\ e \in 0 .. Len(t)
  BY <1>1, <1>4, <1>5 DEF AfterResult
<1> HIDE DEF e
<1>7. AfterResult(t, i) \in Seq(Pieces) /\ Len(AfterResult(t, i)) = Len(t) - e
  BY <1>1, <1>6, SubSeqProperties
<1>8. RunsOut(t, i) => AfterResult(t, i) = <<>>
  <2> SUFFICES ASSUME RunsOut(t, i) PROVE AfterResult(t, i) = <<>>
    OBVIOUS
  <2>1. i = Len(t)
    BY DEF RunsOut
  <2>2. e = Len(t)
    BY <1>1, <1>5, <2>1 DEF e
  <2>3. Len(AfterResult(t, i)) = 0
    BY <1>1, <1>7, <2>2
  <2> QED
    BY <1>7, <2>3, EmptySeq
<1> QED
  BY <1>1, <1>3, <1>4, <1>5, <1>6, <1>7, <1>8

\* Without URCs, what precedes the first result is data.
LEMMA BeforeResult ==
    ASSUME NEW t \in Seq(Pieces), Begun(t), ResultsIn(t) # {}, NEW i, i = ResultAt(t),
           \A j \in 1 .. Len(t) : t[j][3] = "tail" => ~ IsUrc(t[j])
    PROVE  \A j \in 1 .. i - 1 : t[j][1] = "info"
<1>1. Len(t) \in Nat /\ i \in 1 .. Len(t) /\ \A j \in ResultsIn(t) : i <= j
  BY ResultTypes, LenProperties
<1>2. ASSUME NEW j \in 1 .. Len(t), j + 1 \in 1 .. Len(t), t[j][3] = "head", j < i
      PROVE  t[j][1] = "info"
  <2>1. t[j + 1] = <<t[j][1], t[j][2], "tail">> /\ j < Len(t)
    BY <1>1, <1>2 DEF Begun
  <2>2. ~ IsUrc(t[j])
    <3>1. t[j + 1][3] = "tail" /\ t[j + 1][1] = t[j][1]
      BY <2>1
    <3>2. ~ IsUrc(t[j + 1])
      BY <1>2, <3>1
    <3> QED
      BY <3>1, <3>2 DEF IsUrc
  <2>3. j \notin ResultsIn(t)
    BY <1>1, <1>2
  <2>4. t[j][1] # "OK"
    <3> SUFFICES ASSUME t[j][1] = "OK" PROVE FALSE
      OBVIOUS
    <3>1. Whole(t, j, {"OK"})
      BY <1>2, <2>1, WholeLine
    <3> QED
      BY <2>3, <3>1 DEF ResultsIn
  <2>5. t[j][1] # "CME"
    BY <1>2, <2>3 DEF ResultsIn, Piece
  <2>6. t[j][1] \in Kinds
    BY PieceParts
  <2> QED
    BY <2>2, <2>4, <2>5, <2>6 DEF Kinds, Results, IsUrc
<1> SUFFICES ASSUME NEW j \in 1 .. i - 1 PROVE t[j][1] = "info"
  OBVIOUS
<1>3. j \in 1 .. Len(t) /\ j + 1 \in 1 .. Len(t) /\ j < i
  BY <1>1
<1>4. CASE t[j][3] = "head"
  BY <1>2, <1>3, <1>4
<1>5. CASE t[j][3] # "head"
  <2>1. j > 1 /\ t[j - 1] = <<t[j][1], t[j][2], "head">>
    BY <1>3, <1>5 DEF Begun
  <2>2. j - 1 \in 1 .. Len(t) /\ (j - 1) + 1 \in 1 .. Len(t) /\ j - 1 < i
    <3>1. j \in 1 .. Len(t) /\ j > 1 /\ i \in 1 .. Len(t) /\ j < i
      BY <1>1, <1>3, <2>1
    <3> QED
      BY <1>1, <3>1
  <2>3. t[j - 1][3] = "head" /\ t[j - 1][1] = t[j][1]
    BY <2>1
  <2>4. t[j - 1][1] = "info"
    BY <1>2, <2>2, <2>3
  <2> QED
    BY <2>3, <2>4
<1> QED
  BY <1>4, <1>5

\* A result that did not run out of the buffer is a whole line.
LEMMA ResultLine ==
    ASSUME NEW t \in Seq(Pieces), Begun(t), ResultsIn(t) # {}, NEW i, i = ResultAt(t), ~ RunsOut(t, i)
    PROVE  /\ i + 1 \in 1 .. Len(t) /\ i \in 1 .. Len(t) /\ t[i][1] \in Results /\ ResultEnd(t, i) = i + 1
           /\ t[i + 1] = <<t[i][1], t[i][2], "tail">>
<1>1. Len(t) \in Nat /\ i \in 1 .. Len(t) /\ i \in ResultsIn(t)
  BY ResultTypes, LenProperties
<1>2. Whole(t, i, {"OK"}) \/ (t[i][1] = "CME" /\ t[i][3] = "head")
  BY <1>1 DEF ResultsIn, Piece
<1>3. t[i][1] \in Results /\ t[i][3] = "head"
  BY <1>1, <1>2, WholeLine DEF Results
<1>4. i < Len(t)
  <2>1. CASE Whole(t, i, {"OK"})
    BY <1>1, <2>1, WholeLine
  <2>2. CASE t[i][1] = "CME"
    BY <1>1, <2>2 DEF RunsOut
  <2> QED
    BY <1>2, <2>1, <2>2
<1>5. t[i + 1] = <<t[i][1], t[i][2], "tail">>
  BY <1>1, <1>3, <1>4 DEF Begun
<1>6. ResultEnd(t, i) = i + 1
  BY <1>4, <1>5 DEF ResultEnd, Piece
<1> QED
  BY <1>1, <1>3, <1>4, <1>5, <1>6

\* A result line is at i, and no URC line at all.
ResultLineAt(t, i) == t[i][1] \in Results /\ t[i + 1] = <<t[i][1], t[i][2], "tail">>
NoUrcs(t) == \A j \in 1 .. Len(t) : t[j][3] = "tail" => ~ IsUrc(t[j])

\* What follows a result line in w is straight, and all of it URCs.
CutFrom(u, w, m, n) ==
  /\ Flat(u) /\ Awaiting(u, m, n)
  /\ \A c, p : ToCommand(w, c, p) => p = <<>> /\ NoAnswers(u)

\* The line after a complete result.
LEMMA ResultCut ==
    ASSUME NEW t \in Seq(Pieces), NEW q \in Seq(Pieces), Flat(t \o q),
           NEW i \in Nat, 1 <= i, i + 1 <= Len(t), ResultLineAt(t, i), NoUrcs(t),
           NEW m \in Nat, NEW n \in Nat, Awaiting(t \o q, m, n), NEW a, a = SubSeq(t, i + 2, Len(t))
    PROVE  CutFrom(a \o q, t \o q, m, n)
<1> DEFINE w == t \o q
           u == a \o q
           R == i + 2 .. Len(t)
           S == R \cup (Len(t) + 1 .. Len(t) + Len(q))
<1>1. Len(t) \in Nat /\ Len(q) \in Nat
  BY LenProperties
<1>2. a \in Seq(Pieces) /\ Sub(a, t, R)
  <2> DEFINE k == i + 1
  <2>1. k \in 0 .. Len(t) /\ k + 1 = i + 2
    BY <1>1
  <2> HIDE DEF k
  <2>2. SubSeq(t, k + 1, Len(t)) \in Seq(Pieces) /\ Sub(SubSeq(t, k + 1, Len(t)), t, k + 1 .. Len(t))
    BY <2>1, SubEnd
  <2> QED
    BY <2>1, <2>2
<1>3. R \in SUBSET (1 .. Len(t))
  BY <1>1
<1>4. Sub(u, w, S)
  <2> HIDE DEF R
  <2> QED
    BY <1>2, <1>3, SubJoined
<1>5. Len(w) = Len(t) + Len(q) /\ \A j \in 1 .. Len(t) : j \in 1 .. Len(w) /\ w[j] = t[j]
  <2>1. \A j \in 1 .. Len(t) : j \in 1 .. Len(t) + Len(q) /\ j <= Len(t)
    BY <1>1
  <2> QED
    BY <2>1, ConcatProperties
<1>6. \A j \in 1 .. Len(w) : j \in S <=> j > i + 1
  <2>1. Len(w) = Len(t) + Len(q)
    BY <1>5
  <2> HIDE DEF w
  <2> QED
    BY <1>1, <2>1
<1>7. Flat(w) /\ Awaiting(w, m, n) /\ w \in Seq(Pieces) /\ u \in Seq(Pieces)
  BY <1>2, ConcatProperties
<1>8. i \in 1 .. Len(t) /\ i + 1 \in 1 .. Len(t)
  BY <1>1
<1>9. i \in 1 .. Len(w) /\ i + 1 \in 1 .. Len(w) /\ w[i] = t[i] /\ w[i + 1] = <<t[i][1], t[i][2], "tail">>
  BY <1>5, <1>8 DEF ResultLineAt
<1> HIDE DEF w, u, S
<1>10. Closed(S, w)
  <2> SUFFICES ASSUME NEW j \in 1 .. Len(w), j < Len(w), w[j][3] = "head" PROVE j \in S <=> j + 1 \in S
    BY DEF Closed
  <2>1. w[i + 1][3] = "tail"
    BY <1>9
  <2>2. j # i + 1
    BY <2>1
  <2>3. j + 1 \in 1 .. Len(w)
    BY <1>1, <1>5
  <2>4. j > i + 1 <=> j + 1 > i + 1
    BY <2>2
  <2> QED
    BY <1>6, <2>3, <2>4
<1>11. Flat(u)
  BY <1>4, <1>7, <1>10, SubFlat
<1>12. \A j \in 1 .. Len(w) : UrcAt(w, j) => (j \in S <=> ~ (w[j][2] <= m))
  <2> SUFFICES ASSUME NEW j \in 1 .. Len(w), UrcAt(w, j) PROVE j \in S /\ ~ (w[j][2] <= m)
    OBVIOUS
  <2>1. w[j][2] \in m + 1 .. n
    BY <1>7 DEF Awaiting
  <2>2. w[j][3] = "tail" /\ IsUrc(w[j])
    BY DEF UrcAt
  <2>3. ~ (j <= i + 1)
    <3> SUFFICES ASSUME j <= i + 1 PROVE FALSE
      OBVIOUS
    <3>1. j \in 1 .. Len(t)
      BY <1>1
    <3> QED
      BY <1>5, <2>2, <3>1 DEF NoUrcs
  <2>4. \A y \in m + 1 .. n : ~ (y <= m)
    OBVIOUS
  <2>5. j > i + 1
    BY <2>3
  <2> QED
    BY <1>6, <2>1, <2>4, <2>5
<1>13. Len(w) \in Nat /\ Len(u) \in Nat
  BY <1>7, LenProperties
<1>14. Awaiting(u, m, n)
  <2>1. m <= m
    OBVIOUS
  <2> QED
    BY <1>4, <1>7, <1>12, <1>13, <2>1, AwaitRest
<1>15. ASSUME NEW c, NEW p, ToCommand(w, c, p)
       PROVE  p = <<>> /\ NoAnswers(u)
  <2>1. p = <<>>
    BY <1>9, <1>15 DEF ToCommand, ResultLineAt
  <2>2. NoAnswers(u)
    <3> SUFFICES ASSUME NEW k \in 1 .. Len(u) PROVE IsUrc(u[k])
      BY DEF NoAnswers
    <3>1. PICK j \in S \cap (1 .. Len(w)) : u[k] = w[j]
      BY <1>4, SubElements
    <3>2. i + 1 < j
      BY <1>6, <3>1
    <3>3. w[i + 1][1] \in Results /\ w[i + 1][3] = "tail"
      BY <1>9 DEF ResultLineAt
    <3>4. IsUrc(w[j])
      BY <1>9, <1>15, <3>1, <3>2, <3>3 DEF ToCommand
    <3> QED
      BY <3>1, <3>4
  <2> QED
    BY <2>1, <2>2
<1> QED
  BY <1>11, <1>14, <1>15 DEF CutFrom, w, u

\* The line after a result, and what the command makes of it.
ResultDone(t, i, q, m, n) ==
  /\ Flat(AfterResult(t, i) \o q) /\ Awaiting(AfterResult(t, i) \o q, m, n)
  /\ \A c, p : ToCommand(t \o q, c, p) =>
       p = <<>> /\ NoAnswers(AfterResult(t, i) \o q) /\ Verdict(t, i, c) = "own"

\* Taking the result keeps the line straight.
LEMMA ResultStraight ==
    ASSUME NEW t \in Seq(Pieces), NEW q \in Seq(Pieces), Flat(t \o q), ResultsIn(t) # {},
           NEW i, i = ResultAt(t), ~ RunsOut(t, i),
           NoUrcs(t),
           NEW m \in Nat, NEW n \in Nat, Awaiting(t \o q, m, n)
    PROVE  ResultDone(t, i, q, m, n)
<1> DEFINE a == AfterResult(t, i)
           w == t \o q
<1>1. Len(t) \in Nat /\ Len(q) \in Nat
  BY LenProperties
<1>2. Begun(t)
  BY FlatBegun
<1>3. /\ i + 1 \in 1 .. Len(t) /\ i \in 1 .. Len(t) /\ t[i][1] \in Results /\ ResultEnd(t, i) = i + 1
      /\ t[i + 1] = <<t[i][1], t[i][2], "tail">>
  BY <1>2, ResultLine
<1>4. i \in Nat /\ 1 <= i /\ i + 1 <= Len(t) /\ (i + 1) + 1 = i + 2
  <2>1. i \in 1 .. Len(t) /\ i + 1 \in 1 .. Len(t)
    BY <1>3
  <2> QED
    BY <2>1
<1>5. a = SubSeq(t, i + 2, Len(t))
  BY <1>3, <1>4 DEF AfterResult
<1> HIDE DEF a
<1>6. CutFrom(a \o q, t \o q, m, n)
  <2>1. ResultLineAt(t, i)
    BY <1>3 DEF ResultLineAt
  <2> QED
    BY <1>4, <1>5, <2>1, ResultCut
<1>7. \A j \in 1 .. Len(t) : j \in 1 .. Len(w) /\ w[j] = t[j]
  <2>1. \A j \in 1 .. Len(t) : j \in 1 .. Len(t) + Len(q) /\ j <= Len(t)
    BY <1>1
  <2> QED
    BY <2>1, ConcatProperties
<1> HIDE DEF w
<1>8. ASSUME NEW c, NEW p, ToCommand(w, c, p) PROVE Verdict(t, i, c) = "own"
  <2>1. \A j \in 1 .. i - 1 : t[j][1] = "info"
    BY <1>2, BeforeResult DEF NoUrcs
  <2>2. \A j \in 1 .. Len(t) : ~ IsUrc(t[j]) => t[j][2] = c
    BY <1>7, <1>8 DEF ToCommand
  <2>3. \A j \in 1 .. i - 1 : j \in 1 .. Len(t) /\ ~ IsUrc(t[j])
    <3>1. \A x, l \in Nat : x + 1 <= l => \A j \in 1 .. x - 1 : j \in 1 .. l
      OBVIOUS
    <3>2. \A j \in 1 .. i - 1 : j \in 1 .. Len(t)
      BY <1>1, <1>4, <3>1
    <3> QED
      BY <2>1, <3>2 DEF IsUrc, Urcs
  <2>4. ~ IsUrc(t[i])
    BY <1>3 DEF IsUrc, Urcs, Results
  <2> QED
    BY <1>3, <2>1, <2>2, <2>3, <2>4 DEF Verdict
<1> QED
  BY <1>6, <1>8 DEF CutFrom, ResultDone, w, a

-----------------------------------------------------------------------------
(* The state of the engine.                                                *)

Frames == [c : Nat, mode : {"start", "rx"}, at : Nat]
Roughness == {"timeout", "nested", "dropped", "cut"}
Outcomes == {"none", "own", "other", "timeout", "failure"}

EngineTypes ==
  /\ rx \in Seq(Pieces) /\ Len(rx) <= RX_SIZE
  /\ in_command \in BOOLEAN /\ pins \in Nat /\ handled \in Seq(Nat)
  /\ pending \in Seq(Nat \X BOOLEAN) /\ stack \in Seq(Frames) /\ rough \subseteq Roughness
  /\ \A c \in DOMAIN answers : answers[c] \in Outcomes

RestTypes == under \in BOOLEAN /\ issued \in Nat /\ port \in Seq(Pieces) /\ sent \in Nat

\* A second command is there, or one is interrupted, only after a PIN URC.
Fits(st, p) ==
  /\ Len(st) <= 2 /\ (Len(st) = 2 => p > 0)
  /\ \A i \in 1 .. Len(st) : IF st[i].at = 0 THEN st[i].mode = "rx" ELSE p > 0

HarmIsKnown == (under => rx = <<>> /\ "cut" \in rough) /\ (pins > 0 => "nested" \in rough)

Sound == EngineTypes /\ RestTypes /\ Fits(stack, pins) /\ HarmIsKnown /\ FlagFollowsCommand

ATInv == Sound /\ (rough \subseteq {"timeout"} => Straight) /\ AnswersAreOwn

-----------------------------------------------------------------------------
(* Parts of the actions.                                                   *)

\* None or one.
LEMMA AtMostOne ==
    ASSUME NEW n \in Nat, n <= 1
    PROVE  (n = 0 \/ n = 1) /\ n <= 2 /\ n # 2
OBVIOUS

\* A command on top of at most one other.
LEMMA FitsPush ==
    ASSUME NEW base \in Seq(Frames), NEW p \in Nat, NEW p2 \in Nat, p <= p2, Fits(base, p), Len(base) <= 1,
           Len(base) = 1 => p > 0, NEW c \in Nat
    PROVE  Append(base, Frame(c, "rx", 0)) \in Seq(Frames) /\ Fits(Append(base, Frame(c, "rx", 0)), p2)
<1> DEFINE x == Frame(c, "rx", 0)
           s == Append(base, x)
<1>1. x \in Frames /\ x.at = 0 /\ x.mode = "rx"
  BY DEF Frame, Frames
<1> HIDE DEF x
<1>2. /\ s \in Seq(Frames) /\ Len(s) = Len(base) + 1 /\ \A i \in 1 .. Len(base) : s[i] = base[i]
      /\ s[Len(base) + 1] = x /\ Len(base) \in Nat
  BY <1>1, AppendProperties, LenProperties
<1> HIDE DEF s
<1>3. \A i \in 1 .. Len(s) : IF s[i].at = 0 THEN s[i].mode = "rx" ELSE p2 > 0
  <2> SUFFICES ASSUME NEW i \in 1 .. Len(s) PROVE IF s[i].at = 0 THEN s[i].mode = "rx" ELSE p2 > 0
    OBVIOUS
  <2>1. CASE i = Len(base) + 1
    BY <1>1, <1>2, <2>1
  <2>2. CASE i # Len(base) + 1
    <3>1. i \in 1 .. Len(base)
      BY <1>2, <2>2
    <3>2. s[i] = base[i] /\ (IF base[i].at = 0 THEN base[i].mode = "rx" ELSE p > 0)
      BY <1>2, <3>1 DEF Fits
    <3>3. p > 0 => p2 > 0
      OBVIOUS
    <3> QED
      BY <3>2, <3>3
  <2> QED
    BY <2>1, <2>2
<1>4. Len(s) <= 2 /\ (Len(s) = 2 => p2 > 0)
  <2>1. Len(base) = 0 \/ Len(base) = 1
    BY <1>2, AtMostOne
  <2>2. CASE Len(base) = 0
    <3>1. Len(s) = 1
      BY <1>2, <2>2
    <3> QED
      BY <3>1
  <2>3. CASE Len(base) = 1
    <3>1. Len(s) = 2
      BY <1>2, <2>3
    <3>2. p2 > 0
      BY <2>3
    <3> QED
      BY <3>1, <3>2
  <2> QED
    BY <2>1, <2>2, <2>3
<1> QED
  BY <1>2, <1>3, <1>4 DEF Fits, s, x

\* base is the stack st without its top.
Popped(st, base, p) ==
  /\ base \in Seq(Frames) /\ Fits(base, p) /\ Len(base) <= 1 /\ (Len(base) = 1 => p > 0)
  /\ st[Len(st)] \in Frames /\ (p = 0 => base = <<>>)
  /\ (IF st[Len(st)].at = 0 THEN st[Len(st)].mode = "rx" ELSE p > 0)

\* The commands below the top.
LEMMA FitsPop ==
    ASSUME NEW st \in Seq(Frames), st # <<>>, NEW p \in Nat, Fits(st, p), NEW base, base = SubSeq(st, 1, Len(st) - 1)
    PROVE  Popped(st, base, p)
<1>1. Len(st) \in Nat \ {0}
  <2>1. Len(st) \in Nat /\ Len(st) # 0
    BY LenProperties, EmptySeq
  <2> QED
    BY <2>1
<1>2. base \in Seq(Frames) /\ Len(base) = Len(st) - 1 /\ \A i \in 1 .. Len(st) - 1 : base[i] = st[i]
  <2>1. Len(st) - 1 \in 0 .. Len(st)
    BY <1>1
  <2>2. \A i \in 1 .. Len(st) - 1 : st[i] \in Frames
    <3>1. \A i \in 1 .. Len(st) - 1 : i \in 1 .. Len(st)
      BY <1>1
    <3> QED
      BY <3>1, ElementOfSeq
  <2> DEFINE k == Len(st) - 1
  <2>3. k \in Nat /\ 1 \in Int /\ k \in Int
    BY <1>1
  <2>4. base = SubSeq(st, 1, k) /\ \A i \in 1 .. k : st[i] \in Frames
    BY <2>2
  <2> HIDE DEF k
  <2>5. /\ base \in Seq(Frames) /\ Len(base) = (IF 1 <= k THEN k - 1 + 1 ELSE 0)
        /\ \A i \in 1 .. k - 1 + 1 : base[i] = st[1 + i - 1]
    BY <2>3, <2>4, SubSeqProperties
  <2>6. k - 1 + 1 = k /\ \A i \in 1 .. k : 1 + i - 1 = i
    BY <2>3
  <2>7. base \in Seq(Frames) /\ Len(base) = k /\ \A i \in 1 .. k : base[i] = st[i]
    BY <2>3, <2>5, <2>6
  <2> QED
    BY <2>7 DEF k
<1>3. Len(st) <= 2 /\ (Len(st) = 2 => p > 0)
  BY DEF Fits
<1>4. Len(base) <= 1 /\ (Len(base) = 1 => p > 0)
  BY <1>1, <1>2, <1>3
<1>5. \A i \in 1 .. Len(base) : i \in 1 .. Len(st) /\ base[i] = st[i]
  BY <1>1, <1>2
<1>6. Fits(base, p)
  <2>1. Len(base) <= 2 /\ Len(base) # 2
    <3>1. Len(base) \in Nat
      BY <1>2, LenProperties
    <3> QED
      BY <1>4, <3>1, AtMostOne
  <2>2. \A i \in 1 .. Len(base) : IF base[i].at = 0 THEN base[i].mode = "rx" ELSE p > 0
    BY <1>5 DEF Fits
  <2> QED
    BY <2>1, <2>2 DEF Fits
<1>7. Len(st) \in 1 .. Len(st)
  BY <1>1
<1>8. st[Len(st)] \in Frames /\ (IF st[Len(st)].at = 0 THEN st[Len(st)].mode = "rx" ELSE p > 0)
  BY <1>7, ElementOfSeq DEF Fits
<1>9. p = 0 => base = <<>>
  <2>1. p = 0 => Len(base) = 0
    <3>1. Len(base) \in Nat
      BY <1>2, LenProperties
    <3>2. p = 0 => Len(base) # 1
      BY <1>4
    <3>3. Len(base) = 0 \/ Len(base) = 1
      BY <1>4, <3>1, AtMostOne
    <3> QED
      BY <3>2, <3>3
  <2> QED
    BY <1>2, <2>1, EmptySeq
<1> QED
  BY <1>2, <1>4, <1>6, <1>8, <1>9 DEF Popped

\* What a command returned is noted.
LEMMA NotedTypes ==
    ASSUME NEW f, NEW c, NEW what \in Outcomes, \A x \in DOMAIN f : f[x] \in Outcomes
    PROVE  \A x \in DOMAIN [f EXCEPT ![c] = what] : [f EXCEPT ![c] = what][x] \in Outcomes
OBVIOUS

\* An outcome other than "other" harms nobody.
LEMMA NotedOwn ==
    ASSUME NEW f, NEW c, NEW what, what # "other", \A x \in DOMAIN f : f[x] # "other"
    PROVE  \A x \in DOMAIN [f EXCEPT ![c] = what] : [f EXCEPT ![c] = what][x] # "other"
OBVIOUS

\* verifyPIN within a scan.
LEMMA NestsTypes ==
    ASSUME Sound, NEW b \in Seq(Pieces), Len(b) <= RX_SIZE, NEW c \in Nat, NEW n \in Nat, NEW mode \in {"start", "rx"},
           NEW r, ScanTypesOK(r, b, handled, pins), NEW harm \in SUBSET Roughness,
           Nests(<<>>, c, mode, r, n, harm), RX_SIZE \in Nat
    PROVE  EngineTypes' /\ Fits(stack', pins') /\ issued' \in Nat /\ Len(rx') <= Len(b)
           /\ pins = 0 /\ "nested" \in rough' /\ harm \subseteq rough'
<1>1. PICK inner \in {Scan(r.rx, 1, "start", r.urcs, r.pins)}, outer \in {Append(<<>>, Frame(c, mode, r.stop))} :
        /\ r.stop > 0
        /\ rx' = inner.rx /\ handled' = inner.urcs /\ pins' = inner.pins
        /\ rough' = harm \cup {"nested"} /\ issued' = n
        /\ \/ /\ stack' = Append(outer, Frame(n, "rx", 0))
              /\ pending' = Append(pending, <<n, FALSE>>)
              /\ in_command' = TRUE /\ UNCHANGED answers
           \/ May("txfail") /\ Return(outer, n, "failure") /\ UNCHANGED pending
  BY DEF Nests
<1>2. /\ r.rx \in Seq(Pieces) /\ Len(r.rx) <= Len(b) /\ r.urcs \in Seq(Nat) /\ r.pins \in Nat /\ r.stop \in Int
      /\ pins = 0 /\ r.pins > 0
  BY <1>1 DEF ScanTypesOK
<1>3. ScanTypesOK(inner, r.rx, r.urcs, r.pins)
  <2>1. 1 \in Nat \ {0}
    OBVIOUS
  <2>2. inner = Scan(r.rx, 1, "start", r.urcs, r.pins)
    OBVIOUS
  <2> QED
    BY <1>2, <2>1, <2>2, ScanTypes
<1>4. Len(b) \in Nat /\ Len(r.rx) \in Nat
  BY <1>2, LenProperties
<1>5. rx' \in Seq(Pieces) /\ Len(rx') <= Len(b) /\ handled' \in Seq(Nat) /\ pins' \in Nat /\ pins' > 0
  <2>1. rx' \in Seq(Pieces) /\ Len(rx') <= Len(r.rx) /\ handled' \in Seq(Nat) /\ pins' \in Nat /\ pins' >= r.pins
    BY <1>1, <1>3 DEF ScanTypesOK
  <2>2. Len(rx') \in Nat
    BY <2>1, LenProperties
  <2> QED
    BY <1>2, <1>4, <2>1, <2>2
<1> DEFINE x == Frame(c, mode, r.stop)
           y == Frame(n, "rx", 0)
<1>6. r.stop \in Nat /\ r.stop # 0
  BY <1>1, <1>2
<1>7. x \in Frames /\ y \in Frames
  BY <1>6 DEF Frame, Frames
<1>8. x.at # 0 /\ y.at = 0 /\ y.mode = "rx"
  BY <1>6 DEF Frame
<1>9. outer = <<x>>
  OBVIOUS
<1> HIDE DEF x, y
<1>10. <<x>> \in Seq(Frames) /\ Fits(<<x>>, pins')
  BY <1>5, <1>7, <1>8 DEF Fits
<1>11. <<x, y>> \in Seq(Frames) /\ Fits(<<x, y>>, pins')
  BY <1>5, <1>7, <1>8 DEF Fits
<1>12. Append(<<x>>, y) = <<x, y>>
  <2> DEFINE s == Append(<<x>>, y)
  <2>1. <<x>> \in Seq(Frames) /\ Len(<<x>>) = 1 /\ <<x>>[1] = x
    BY <1>7
  <2>2. s \in Seq(Frames) /\ Len(s) = 2 /\ s[1] = x /\ s[2] = y
    <3>1. /\ s \in Seq(Frames) /\ Len(s) = Len(<<x>>) + 1 /\ \A i \in 1 .. Len(<<x>>) : s[i] = <<x>>[i]
          /\ s[Len(<<x>>) + 1] = y
      BY <1>7, <2>1, AppendProperties
    <3> HIDE DEF s
    <3> QED
      BY <2>1, <3>1
  <2> HIDE DEF s
  <2>3. s = <<s[1], s[2]>>
    BY <2>2
  <2> QED
    BY <2>2, <2>3 DEF s
<1>13. /\ in_command' \in BOOLEAN /\ pending' \in Seq(Nat \X BOOLEAN) /\ stack' \in Seq(Frames)
       /\ Fits(stack', pins') /\ \A a \in DOMAIN answers' : answers'[a] \in Outcomes
  <2>1. pending \in Seq(Nat \X BOOLEAN) /\ \A a \in DOMAIN answers : answers[a] \in Outcomes
    BY DEF Sound, EngineTypes
  <2>2. CASE /\ stack' = Append(outer, Frame(n, "rx", 0))
             /\ pending' = Append(pending, <<n, FALSE>>)
             /\ in_command' = TRUE /\ UNCHANGED answers
    <3>1. stack' = <<x, y>>
      BY <1>9, <1>12, <2>2 DEF y
    <3>2. pending' \in Seq(Nat \X BOOLEAN)
      BY <2>1, <2>2, AppendProperties
    <3> QED
      BY <1>11, <2>1, <2>2, <3>1, <3>2
  <2>3. CASE Return(outer, n, "failure") /\ UNCHANGED pending
    <3>1. stack' = <<x>> /\ in_command' = FALSE /\ pending' = pending /\ answers' = [answers EXCEPT ![n] = "failure"]
      BY <1>9, <2>3 DEF Return
    <3>2. \A a \in DOMAIN answers' : answers'[a] \in Outcomes
      BY <2>1, <3>1, NotedTypes DEF Outcomes
    <3> QED
      BY <1>10, <2>1, <3>1, <3>2
  <2> QED
    BY <1>1, <2>2, <2>3
<1>14. rough' \subseteq Roughness /\ "nested" \in rough' /\ harm \subseteq rough'
  BY <1>1 DEF Roughness
<1>15. Len(rx') <= RX_SIZE
  <2>1. Len(rx') \in Nat
    BY <1>5, LenProperties
  <2> QED
    BY <1>4, <1>5, <2>1
<1>16. EngineTypes'
  BY <1>5, <1>13, <1>14, <1>15 DEF EngineTypes
<1> QED
  BY <1>1, <1>2, <1>5, <1>13, <1>14, <1>16

\* More PIN URCs allow no less.
LEMMA FitsMore ==
    ASSUME NEW st, NEW p \in Nat, NEW p2 \in Nat, p <= p2, Fits(st, p)
    PROVE  Fits(st, p2)
<1>1. p > 0 => p2 > 0
  OBVIOUS
<1> QED
  BY <1>1 DEF Fits

\* A command is written.
LEMMA WrittenTypes ==
    ASSUME Sound, NEW b \in Seq(Pieces), Len(b) <= RX_SIZE, RX_SIZE \in Nat, NEW r, ScanTypesOK(r, b, handled, pins),
           NEW base \in Seq(Frames), Fits(base, pins), Len(base) <= 1, Len(base) = 1 => pins > 0,
           NEW c \in Nat, NEW flag \in BOOLEAN, Written(base, c, r, flag)
    PROVE  /\ EngineTypes' /\ Fits(stack', pins') /\ rough' = rough /\ Len(rx') <= Len(b)
           /\ pins <= pins' /\ r.stop = 0 /\ pins' = r.pins
<1>1. /\ rx' \in Seq(Pieces) /\ Len(rx') <= Len(b) /\ handled' \in Seq(Nat) /\ pins' \in Nat /\ pins <= pins'
      /\ r.stop = 0 /\ pins' = r.pins /\ pins \in Nat
  <2>1. rx' = r.rx /\ handled' = r.urcs /\ pins' = r.pins /\ r.stop = 0 /\ pins \in Nat
    BY DEF Written, Sound, EngineTypes
  <2>2. r.pins \in Nat /\ r.pins >= pins
    BY DEF ScanTypesOK
  <2>3. pins <= r.pins
    BY <2>1, <2>2
  <2> QED
    BY <2>1, <2>2, <2>3 DEF ScanTypesOK
<1>2. Len(rx') <= RX_SIZE
  <2>1. Len(rx') \in Nat /\ Len(b) \in Nat
    BY <1>1, LenProperties
  <2> QED
    BY <1>1, <2>1
<1>3. /\ pending \in Seq(Nat \X BOOLEAN) /\ \A a \in DOMAIN answers : answers[a] \in Outcomes
      /\ rough \subseteq Roughness
  BY DEF Sound, EngineTypes
<1>4. rough' = rough
  BY DEF Written
<1>5. CASE /\ stack' = Append(base, Frame(c, "rx", 0))
           /\ pending' = Append(pending, <<c, FALSE>>)
           /\ in_command' = flag /\ UNCHANGED answers
  <2>1. stack' \in Seq(Frames) /\ Fits(stack', pins')
    BY <1>1, <1>5, FitsPush
  <2>2. pending' \in Seq(Nat \X BOOLEAN)
    BY <1>3, <1>5, AppendProperties
  <2>3. in_command' \in BOOLEAN /\ \A a \in DOMAIN answers' : answers'[a] \in Outcomes
    BY <1>3, <1>5
  <2> QED
    BY <1>1, <1>2, <1>3, <1>4, <2>1, <2>2, <2>3 DEF EngineTypes
<1>6. CASE Return(base, c, "failure") /\ UNCHANGED pending
  <2>1. /\ stack' = base /\ in_command' = FALSE /\ answers' = [answers EXCEPT ![c] = "failure"]
        /\ pending' = pending
    BY <1>6 DEF Return
  <2>2. Fits(base, pins')
    BY <1>1, FitsMore
  <2>3. \A a \in DOMAIN answers' : answers'[a] \in Outcomes
    BY <1>3, <2>1, NotedTypes DEF Outcomes
  <2> QED
    BY <1>1, <1>2, <1>3, <1>4, <2>1, <2>2, <2>3 DEF EngineTypes
<1> QED
  BY <1>1, <1>4, <1>5, <1>6 DEF Written

\* What a scan of a response found.
Found(base, c, r, flag, harm) ==
  LET i == ResultAt(r.rx) IN
  /\ ResultsIn(r.rx) # {}
  /\ rx' = AfterResult(r.rx, i) /\ under' = RunsOut(r.rx, i)
  /\ rough' = IF RunsOut(r.rx, i) THEN harm \cup {"cut"} ELSE harm
  /\ Return(base, c, Verdict(r.rx, i, c))
NoResult(base, c, r, flag, harm) ==
  /\ ResultsIn(r.rx) = {}
  /\ rx' = r.rx /\ stack' = Append(base, Frame(c, "rx", 0)) /\ in_command' = flag
  /\ under' = FALSE /\ rough' = harm
  /\ UNCHANGED answers

\* A command looks for its result.
LEMMA ExtractsTypes ==
    ASSUME Sound, NEW b \in Seq(Pieces), Len(b) <= RX_SIZE, RX_SIZE \in Nat, NEW r, ScanTypesOK(r, b, handled, pins),
           NEW base \in Seq(Frames), Fits(base, pins), Len(base) <= 1, Len(base) = 1 => pins > 0,
           NEW c \in Nat, NEW flag \in BOOLEAN, NEW harm \in SUBSET Roughness, Extracts(base, c, r, flag, harm)
    PROVE  /\ EngineTypes' /\ Fits(stack', pins') /\ harm \subseteq rough' /\ under' \in BOOLEAN /\ issued' = issued
           /\ (under' => rx' = <<>> /\ "cut" \in rough') /\ pins <= pins' /\ r.stop = 0 /\ pins' = r.pins
           /\ Found(base, c, r, flag, harm) \/ NoResult(base, c, r, flag, harm)
<1>1. Found(base, c, r, flag, harm) \/ NoResult(base, c, r, flag, harm)
  BY DEF Extracts, Found, NoResult
<1>2. /\ handled' \in Seq(Nat) /\ pins' \in Nat /\ pins <= pins' /\ r.stop = 0 /\ pins' = r.pins /\ pins \in Nat
      /\ issued' = issued /\ pending' = pending
  <2>1. /\ handled' = r.urcs /\ pins' = r.pins /\ r.stop = 0 /\ pins \in Nat /\ issued' = issued /\ pending' = pending
    BY DEF Extracts, Sound, EngineTypes
  <2>2. r.pins \in Nat /\ r.pins >= pins
    BY DEF ScanTypesOK
  <2>3. pins <= r.pins
    BY <2>1, <2>2
  <2> QED
    BY <2>1, <2>2, <2>3 DEF ScanTypesOK
<1>3. r.rx \in Seq(Pieces) /\ Len(r.rx) \in Nat /\ Len(b) \in Nat /\ Len(r.rx) <= Len(b)
  BY LenProperties DEF ScanTypesOK
<1>4. /\ pending \in Seq(Nat \X BOOLEAN) /\ \A a \in DOMAIN answers : answers[a] \in Outcomes
  BY DEF Sound, EngineTypes
<1>5. CASE NoResult(base, c, r, flag, harm)
  <2>1. /\ rx' = r.rx /\ stack' = Append(base, Frame(c, "rx", 0)) /\ in_command' = flag
        /\ under' = FALSE /\ rough' = harm /\ answers' = answers
    BY <1>5 DEF NoResult
  <2>2. stack' \in Seq(Frames) /\ Fits(stack', pins')
    BY <1>2, <2>1, FitsPush
  <2>3. rx' \in Seq(Pieces) /\ Len(rx') <= RX_SIZE
    BY <1>3, <2>1
  <2>4. EngineTypes'
    BY <1>2, <1>4, <2>1, <2>2, <2>3 DEF EngineTypes
  <2> QED
    BY <1>1, <1>2, <2>1, <2>2, <2>4
<1>6. CASE Found(base, c, r, flag, harm)
  <2> DEFINE i == ResultAt(r.rx)
             out == RunsOut(r.rx, i)
  <2>1. /\ ResultsIn(r.rx) # {} /\ rx' = AfterResult(r.rx, i) /\ under' = out
        /\ rough' = (IF out THEN harm \cup {"cut"} ELSE harm)
        /\ stack' = base /\ in_command' = FALSE /\ answers' = [answers EXCEPT ![c] = Verdict(r.rx, i, c)]
    BY <1>6 DEF Found, Return
  <2>2. /\ AfterResult(r.rx, i) \in Seq(Pieces) /\ Len(AfterResult(r.rx, i)) <= Len(r.rx)
        /\ (out => AfterResult(r.rx, i) = <<>>)
    BY <1>3, <2>1, ResultTypes
  <2>3. out \in BOOLEAN
    BY DEF RunsOut
  <2>4. Verdict(r.rx, i, c) \in Outcomes
    BY DEF Verdict, Outcomes
  <2> HIDE DEF i, out
  <2>5. \A a \in DOMAIN answers' : answers'[a] \in Outcomes
    BY <1>4, <2>1, <2>4, NotedTypes
  <2>6. rx' \in Seq(Pieces) /\ Len(rx') <= RX_SIZE
    <3>1. rx' \in Seq(Pieces) /\ Len(rx') <= Len(r.rx)
      BY <2>1, <2>2
    <3>2. Len(rx') \in Nat
      BY <3>1, LenProperties
    <3> QED
      BY <1>3, <3>1, <3>2
  <2>7. rough' \subseteq Roughness /\ harm \subseteq rough' /\ (out => "cut" \in rough')
    BY <2>1 DEF Roughness
  <2>8. Fits(stack', pins')
    BY <1>2, <2>1, FitsMore
  <2>9. EngineTypes'
    BY <1>2, <1>4, <2>1, <2>5, <2>6, <2>7 DEF EngineTypes
  <2> QED
    BY <1>1, <1>2, <2>1, <2>2, <2>3, <2>7, <2>8, <2>9
<1> QED
  BY <1>1, <1>5, <1>6

\* Once a command ran within another one, the types are all there is to keep.
LEMMA NestedKeeps ==
    ASSUME Sound', "nested" \in rough'
    PROVE  ATInv'
BY DEF ATInv, AnswersAreOwn

\* A scan that does not stop leaves the count of PIN URCs, unless the PIN was asked for.
LEMMA QuietPins ==
    ASSUME Sound, NEW b \in Seq(Pieces), NEW from \in Nat \ {0}, NEW mode, mode # "timer",
           NEW r, r = Scan(b, from, mode, handled, pins), r.stop = 0, r.pins > 0
    PROVE  "nested" \in rough
<1>1. pins \in Nat /\ (pins > 0 => "nested" \in rough)
  BY DEF Sound, EngineTypes, HarmIsKnown
<1>2. CASE pins = 0
  <2>1. r = Scan(b, from, mode, handled, 0)
    BY <1>2
  <2>2. r.pins = 0
    BY <2>1, ScanQuiet
  <2> QED
    BY <2>2
<1>3. CASE pins # 0
  BY <1>1, <1>3
<1> QED
  BY <1>2, <1>3

\* A scan of the straight line.
LEMMA StraightScan ==
    ASSUME Sound, Straight, NEW b \in Seq(Pieces), NEW q \in Seq(Pieces), b \o q = rx \o port, NEW mode,
           NEW r, r = Scan(b, 1, mode, handled, pins),
           (mode = "timer" /\ r.pins = 0) \/ (mode # "timer" /\ r.stop = 0)
    PROVE  Scanned(r, b, q, sent) /\ Clear(r, b, handled, mode)
<1>1. Flat(b \o q) /\ Counted(handled, sent) /\ Awaiting(b \o q, Len(handled), sent) /\ pins = 0
  BY DEF Straight
<1>2. sent \in Nat /\ handled \in Seq(Nat)
  BY DEF Sound, EngineTypes, RestTypes
<1>3. r = Scan(b, 1, mode, handled, 0)
  BY <1>1
<1> QED
  BY <1>1, <1>2, <1>3, ScanStraight

\* The beginning of a command keeps the line.
LEMMA DoCommandKeeps ==
    ASSUME ATInv, RX_SIZE \in Nat, DoCommand
    PROVE  ATInv'
<1>1. Sound /\ (rough \subseteq {"timeout"} => Straight) /\ AnswersAreOwn
  BY DEF ATInv
<1>2. /\ EngineTypes /\ RestTypes /\ HarmIsKnown /\ FlagFollowsCommand
      /\ rx \in Seq(Pieces) /\ Len(rx) <= RX_SIZE /\ pins \in Nat /\ handled \in Seq(Nat) /\ rough \subseteq Roughness
      /\ issued \in Nat /\ port \in Seq(Pieces)
  BY <1>1 DEF Sound, EngineTypes, RestTypes
<1>3. stack = <<>> /\ UNCHANGED <<under, port, sent>>
  BY DEF DoCommand
<1>4. PICK c \in {issued + 1}, r \in {Before} :
        \/ Nests(<<>>, c, "start", r, c + 1, rough)
        \/ Written(<<>>, c, r, TRUE) /\ issued' = c
        \/ /\ May("txfail") /\ Return(<<>>, c, "failure") /\ issued' = c
           /\ UNCHANGED <<rx, pins, handled, rough, pending>>
  BY DEF DoCommand
<1>5. c \in Nat /\ c + 1 \in Nat
  BY <1>2
<1>6. r = Scan(rx, 1, "start", handled, pins) /\ 1 \in Nat \ {0} /\ "start" # "timer" /\ "start" \in {"start", "rx"}
  BY DEF Before
<1>7. ScanTypesOK(r, rx, handled, pins)
  BY <1>2, <1>6, ScanTypes
<1>8. <<>> \in Seq(Frames) /\ Fits(<<>>, pins) /\ Len(<<>>) <= 1 /\ (Len(<<>>) = 1 => pins > 0)
  BY DEF Fits
<1>9. Len(rx') <= Len(rx) /\ rx' \in Seq(Pieces) => (under => rx' = <<>>)
  <2> SUFFICES ASSUME Len(rx') <= Len(rx), rx' \in Seq(Pieces), under PROVE rx' = <<>>
    OBVIOUS
  <2>1. Len(rx) = 0 /\ Len(rx') \in Nat
    BY <1>2, LenProperties DEF HarmIsKnown
  <2>2. Len(rx') = 0
    BY <2>1
  <2> QED
    BY <2>2, EmptySeq
<1>10. CASE Nests(<<>>, c, "start", r, c + 1, rough)
  <2>1. /\ EngineTypes' /\ Fits(stack', pins') /\ issued' \in Nat /\ Len(rx') <= Len(rx)
        /\ "nested" \in rough' /\ rough \subseteq rough'
    BY <1>1, <1>2, <1>5, <1>6, <1>7, <1>10, NestsTypes
  <2>2. RestTypes'
    BY <1>2, <1>3, <2>1 DEF RestTypes
  <2>3. HarmIsKnown'
    BY <1>2, <1>3, <1>9, <2>1 DEF HarmIsKnown, EngineTypes
  <2>4. FlagFollowsCommand'
    BY <2>1 DEF FlagFollowsCommand
  <2> QED
    BY <2>1, <2>2, <2>3, <2>4, NestedKeeps DEF Sound
<1>11. CASE Written(<<>>, c, r, TRUE) /\ issued' = c
  <2>1. /\ EngineTypes' /\ Fits(stack', pins') /\ rough' = rough /\ Len(rx') <= Len(rx)
        /\ r.stop = 0 /\ pins' = r.pins
    <3>1. TRUE \in BOOLEAN /\ Written(<<>>, c, r, TRUE)
      BY <1>11
    <3> QED
      BY <1>1, <1>2, <1>5, <1>7, <1>8, <3>1, WrittenTypes
  <2>2. RestTypes'
    BY <1>2, <1>3, <1>5, <1>11 DEF RestTypes
  <2>3. pins' > 0 => "nested" \in rough
    BY <1>1, <1>2, <1>6, <2>1, QuietPins
  <2>4. HarmIsKnown'
    BY <1>2, <1>3, <1>9, <2>1, <2>3 DEF HarmIsKnown, EngineTypes
  <2>5. \/ /\ stack' = <<Frame(c, "rx", 0)>> /\ in_command' = TRUE /\ answers' = answers
           /\ pending' = Append(pending, <<c, FALSE>>)
        \/ /\ stack' = <<>> /\ in_command' = FALSE /\ answers' = [answers EXCEPT ![c] = "failure"]
           /\ pending' = pending
    <3>1. Append(<<>>, Frame(c, "rx", 0)) = <<Frame(c, "rx", 0)>>
      OBVIOUS
    <3> QED
      BY <1>11, <3>1 DEF Written, Return
  <2>6. FlagFollowsCommand'
    <3>1. <<Frame(c, "rx", 0)>> # <<>>
      OBVIOUS
    <3> QED
      BY <2>5, <3>1 DEF FlagFollowsCommand
  <2>7. AnswersAreOwn'
    <3>1. rough = {} => \A a \in DOMAIN answers : answers[a] # "other"
      BY <1>1 DEF AnswersAreOwn
    <3>2. rough = {} => \A a \in DOMAIN answers' : answers'[a] # "other"
      <4>1. CASE answers' = answers
        BY <3>1, <4>1
      <4>2. CASE answers' = [answers EXCEPT ![c] = "failure"]
        BY <3>1, <4>2, NotedOwn
      <4> QED
        BY <2>5, <4>1, <4>2
    <3> QED
      BY <2>1, <3>2 DEF AnswersAreOwn
  <2>8. ASSUME rough' \subseteq {"timeout"} PROVE Straight'
    <3>1. Straight
      BY <1>1, <2>1, <2>8
    <3>2. Scanned(r, rx, port, sent)
      BY <1>1, <1>2, <1>6, <2>1, <3>1, StraightScan
    <3>3. rx' = r.rx /\ handled' = r.urcs /\ port' = port /\ sent' = sent /\ ~ under' /\ pins' = 0
      BY <1>3, <1>11, <3>1, <3>2 DEF Written, Straight, Scanned
    <3>4. /\ Flat(rx' \o port') /\ Counted(handled', sent') /\ Awaiting(rx' \o port', Len(handled'), sent')
          /\ Part(rx' \o port', rx \o port)
      BY <3>2, <3>3 DEF Scanned
    <3>5. Single(stack')
      BY <1>5, <2>5 DEF Single
    <3>6. rough' = {} => Own(rx' \o port', stack', pending')
      <4> SUFFICES ASSUME rough' = {} PROVE Own(rx' \o port', stack', pending')
        OBVIOUS
      <4>1. pending = <<>> /\ NoAnswers(rx \o port)
        BY <1>3, <2>1, <3>1 DEF Straight, Own
      <4>2. NoAnswers(rx' \o port')
        BY <3>4, <4>1, PartOwn
      <4>3. CASE stack' = <<>> /\ pending' = pending
        BY <4>1, <4>2, <4>3 DEF Own
      <4>4. CASE stack' = <<Frame(c, "rx", 0)>> /\ pending' = Append(pending, <<c, FALSE>>)
        <5>1. stack' # <<>> /\ stack'[1].c = c
          BY <4>4 DEF Frame
        <5>2. pending' = <<<<c, FALSE>>>>
          BY <4>1, <4>4
        <5>3. ToCommand(rx' \o port', c, pending')
          <6> DEFINE w == rx' \o port'
          <6>1. \A i \in 1 .. Len(w) : IsUrc(w[i]) /\ w[i][1] \notin Results
            BY <4>2 DEF NoAnswers, IsUrc, Urcs, Results
          <6> HIDE DEF w
          <6>2. ToCommand(w, c, <<<<c, FALSE>>>>)
            BY <6>1 DEF ToCommand
          <6> QED
            BY <5>2, <6>2 DEF w
        <5> QED
          BY <5>1, <5>3 DEF Own
      <4> QED
        BY <2>5, <4>3, <4>4
    <3> QED
      BY <3>3, <3>4, <3>5, <3>6 DEF Straight
  <2>9. Sound'
    BY <2>1, <2>2, <2>4, <2>6 DEF Sound
  <2> QED
    BY <2>7, <2>8, <2>9 DEF ATInv
<1>12. CASE Return(<<>>, c, "failure") /\ issued' = c /\ UNCHANGED <<rx, pins, handled, rough, pending>>
  <2>1. stack' = <<>> /\ in_command' = FALSE /\ answers' = [answers EXCEPT ![c] = "failure"]
    BY <1>12 DEF Return
  <2>2. \A a \in DOMAIN answers' : answers'[a] \in Outcomes
    <3>1. \A a \in DOMAIN answers : answers[a] \in Outcomes
      BY <1>2 DEF EngineTypes
    <3> QED
      BY <2>1, <3>1, NotedTypes DEF Outcomes
  <2>3. EngineTypes' /\ RestTypes'
    BY <1>2, <1>3, <1>5, <1>8, <1>12, <2>1, <2>2 DEF EngineTypes, RestTypes
  <2>4. HarmIsKnown' /\ FlagFollowsCommand'
    BY <1>2, <1>3, <1>12, <2>1 DEF HarmIsKnown, FlagFollowsCommand
  <2>5. Fits(stack', pins')
    BY <1>8, <1>12, <2>1
  <2>6. AnswersAreOwn'
    <3>1. rough = {} => \A a \in DOMAIN answers : answers[a] # "other"
      BY <1>1 DEF AnswersAreOwn
    <3>2. rough = {} => \A a \in DOMAIN answers' : answers'[a] # "other"
      BY <2>1, <3>1, NotedOwn
    <3> QED
      BY <1>12, <3>2 DEF AnswersAreOwn
  <2>7. Straight => Straight'
    BY <1>3, <1>12, <2>1 DEF Straight
  <2> QED
    BY <1>1, <1>12, <2>3, <2>4, <2>5, <2>6, <2>7 DEF ATInv, Sound
<1> QED
  BY <1>4, <1>10, <1>11, <1>12

-----------------------------------------------------------------------------
(* The loop of a command.                                                  *)

\* The buffer b with the first n pieces of the port, and the others, q.
DrainedOK(n, b, q) ==
  /\ b \in Seq(Pieces) /\ Len(b) <= RX_SIZE /\ q \in Seq(Pieces)
  /\ ~ under /\ ~ (Len(rx) + n > RX_SIZE) => b \o q = rx \o port
  /\ n = 0 => Len(b) <= Len(rx)

\* What was read fits the buffer, and nothing else gets lost.
LEMMA DrainedTypes ==
    ASSUME RX_SIZE \in Nat, rx \in Seq(Pieces), port \in Seq(Pieces), NEW n \in 0 .. Len(port)
    PROVE  DrainedOK(n, Drained(n), SubSeq(port, n + 1, Len(port)))
<1> DEFINE from == IF under THEN 2 ELSE 1
           got == SubSeq(port, from, n)
           all == rx \o got
           k == IF Len(all) > RX_SIZE THEN Len(all) - RX_SIZE + 1 ELSE 1
           q == SubSeq(port, n + 1, Len(port))
<1>1. Len(port) \in Nat /\ Len(rx) \in Nat /\ n \in Nat /\ n <= Len(port)
  <2>1. Len(port) \in Nat /\ Len(rx) \in Nat
    BY LenProperties
  <2> QED
    BY <2>1
<1>2. \A i \in 1 .. Len(port) : port[i] \in Pieces
  BY ElementOfSeq
<1>3. got \in Seq(Pieces)
  <2>1. from \in Int /\ from >= 1
    OBVIOUS
  <2> HIDE DEF from
  <2>2. \A i \in from .. n : i \in 1 .. Len(port)
    BY <1>1, <2>1
  <2>3. \A i \in from .. n : port[i] \in Pieces
    BY <1>2, <2>2
  <2> QED
    BY <1>1, <2>1, <2>3, SubSeqProperties
<1>4. q \in Seq(Pieces) /\ Len(q) = Len(port) - n /\ \A i \in 1 .. Len(port) - n : q[i] = port[i + n]
  <2>1. \A i \in n + 1 .. Len(port) : port[i] \in Pieces
    BY <1>1, <1>2
  <2>2. n + 1 \in Int /\ Len(port) \in Int
    BY <1>1
  <2>3. /\ q \in Seq(Pieces) /\ Len(q) = IF n + 1 <= Len(port) THEN Len(port) - (n + 1) + 1 ELSE 0
        /\ \A i \in 1 .. Len(port) - (n + 1) + 1 : q[i] = port[n + 1 + i - 1]
    BY <2>1, <2>2, SubSeqProperties
  <2> HIDE DEF q
  <2>4. Len(port) - (n + 1) + 1 = Len(port) - n /\ \A i \in 1 .. Len(port) - n : n + 1 + i - 1 = i + n
    BY <1>1
  <2>5. Len(q) = Len(port) - n
    BY <1>1, <2>3
  <2>6. ASSUME NEW i \in 1 .. Len(port) - n PROVE q[i] = port[i + n]
    <3>1. i \in 1 .. Len(port) - (n + 1) + 1
      BY <2>4
    <3>2. q[i] = port[n + 1 + i - 1]
      BY <2>3, <3>1
    <3>3. n + 1 + i - 1 = i + n
      BY <2>4
    <3> QED
      BY <3>2, <3>3
  <2> QED
    BY <2>3, <2>5, <2>6
<1>5. Drained(n) = SubSeq(all, k, Len(all))
  BY DEF Drained
<1>6. all \in Seq(Pieces) /\ Len(all) \in Nat
  <2> HIDE DEF got
  <2>1. all \in Seq(Pieces)
    BY <1>3, ConcatProperties
  <2> HIDE DEF all
  <2> QED
    BY <2>1, LenProperties
<1>7. n = 0 => Len(all) <= Len(rx)
  <2> SUFFICES ASSUME n = 0 PROVE Len(all) <= Len(rx)
    OBVIOUS
  <2>1. n < from /\ from \in Int
    OBVIOUS
  <2> HIDE DEF from
  <2>2. got = <<>>
    BY <1>1, <2>1, SubSeqEmpty
  <2> HIDE DEF got
  <2>3. Len(all) = Len(rx) + Len(got) /\ Len(got) = 0
    BY <1>3, <2>2, ConcatProperties, EmptySeq
  <2> HIDE DEF all
  <2> QED
    BY <1>1, <2>3
<1> HIDE DEF got, from
<1>8. Drained(n) \in Seq(Pieces) /\ Len(Drained(n)) <= RX_SIZE /\ Len(Drained(n)) <= Len(all)
  <2> HIDE DEF all
  <2>1. k \in Int /\ k >= 1 /\ k <= Len(all) + 1 /\ Len(all) - k + 1 <= RX_SIZE
    BY <1>6
  <2> HIDE DEF k
  <2>2. \A i \in k .. Len(all) : i \in 1 .. Len(all)
    BY <1>6, <2>1
  <2>3. \A i \in k .. Len(all) : all[i] \in Pieces
    BY <1>6, <2>2, ElementOfSeq
  <2>4. /\ Drained(n) \in Seq(Pieces)
        /\ Len(Drained(n)) = IF k <= Len(all) THEN Len(all) - k + 1 ELSE 0
    <3>1. Len(all) \in Int
      BY <1>6
    <3> QED
      BY <1>5, <2>1, <2>3, <3>1, SubSeqProperties
  <2>5. Len(Drained(n)) <= Len(all)
    BY <1>6, <2>1, <2>4
  <2> QED
    BY <2>1, <2>4, <2>5
<1>9. ASSUME ~ under, ~ (Len(rx) + n > RX_SIZE) PROVE Drained(n) \o q = rx \o port
  <2>1. got = SubSeq(port, 1, n)
    BY <1>9 DEF got, from
  <2>2. \A i \in 1 .. n : port[i] \in Pieces
    BY <1>1, <1>2
  <2>3. Len(got) = n /\ \A i \in 1 .. n : got[i] = port[i]
    <3>1. /\ Len(got) = IF 1 <= n THEN n - 1 + 1 ELSE 0
          /\ \A i \in 1 .. n - 1 + 1 : got[i] = port[1 + i - 1]
      <4>1. 1 \in Int /\ n \in Int
        OBVIOUS
      <4> QED
        BY <2>1, <2>2, <4>1, SubSeqProperties
    <3>2. n - 1 + 1 = n /\ \A i \in 1 .. n : 1 + i - 1 = i
      BY <1>1
    <3>3. Len(got) = n
      BY <1>1, <3>1
    <3> QED
      BY <3>1, <3>2, <3>3
  <2>4. Len(all) = Len(rx) + n
    BY <1>3, <2>3, ConcatProperties
  <2>5. Drained(n) = all
    <3>1. k = 1
      <4>1. ~ (Len(all) > RX_SIZE)
        BY <1>9, <2>4
      <4> QED
        BY <4>1
    <3> HIDE DEF all, k
    <3>2. Drained(n) = SubSeq(all, 1, Len(all))
      BY <1>5, <3>1
    <3> QED
      BY <1>6, <3>2, SubSeqFull
  <2>6. got \o q = port
    <3> DEFINE s == got \o q
    <3>1. /\ s \in Seq(Pieces) /\ Len(s) = Len(got) + Len(q)
          /\ \A i \in 1 .. Len(got) + Len(q) : s[i] = IF i <= Len(got) THEN got[i] ELSE q[i - Len(got)]
      BY <1>3, <1>4, ConcatProperties
    <3> HIDE DEF s
    <3>2. Len(s) = Len(port)
      BY <1>1, <1>4, <2>3, <3>1
    <3>3. \A i \in 1 .. Len(port) : s[i] = port[i]
      <4> SUFFICES ASSUME NEW i \in 1 .. Len(port) PROVE s[i] = port[i]
        OBVIOUS
      <4>1. s[i] = IF i <= n THEN got[i] ELSE q[i - n]
        BY <2>3, <3>1, <3>2
      <4>2. CASE i <= n
        <5>1. i \in 1 .. n
          BY <1>1, <4>2
        <5> QED
          BY <2>3, <4>1, <4>2, <5>1
      <4>3. CASE ~ (i <= n)
        <5>1. i - n \in 1 .. Len(port) - n /\ (i - n) + n = i
          BY <1>1, <4>3
        <5>2. q[i - n] = port[(i - n) + n]
          BY <1>4, <5>1
        <5> QED
          BY <4>1, <4>3, <5>1, <5>2
      <4> QED
        BY <4>2, <4>3
    <3>4. s = port
      BY <3>1, <3>2, <3>3, SeqEqual
    <3> QED
      BY <3>4 DEF s
  <2> HIDE DEF q
  <2>7. (rx \o got) \o q = rx \o (got \o q)
    <3>1. rx \in Seq(Pieces) /\ got \in Seq(Pieces) /\ q \in Seq(Pieces)
      BY <1>3, <1>4
    <3> QED
      BY <3>1, ConcatAssociative
  <2> QED
    BY <2>5, <2>6, <2>7
<1>10. n = 0 => Len(Drained(n)) <= Len(rx)
  <2>1. Len(Drained(n)) \in Nat
    BY <1>8, LenProperties
  <2> HIDE DEF all
  <2> QED
    BY <1>7, <1>1, <1>6, <1>8, <2>1
<1> HIDE DEF q, all
<1> QED
  BY <1>4, <1>8, <1>9, <1>10 DEF DrainedOK, q

\* What is dropped is noted.
LEMMA HarmTypes ==
    ASSUME rough \subseteq Roughness, NEW n
    PROVE  /\ Harm(n) \in SUBSET Roughness /\ rough \subseteq Harm(n)
           /\ Harm(n) \subseteq {"timeout"} => ~ (Len(rx) + n > RX_SIZE) /\ Harm(n) = rough
BY DEF Harm, Roughness

\* What Receive and Resume know of the command on top.
LEMMA TopIs ==
    ASSUME Sound, stack # <<>>
    PROVE  /\ Below \in Seq(Frames) /\ Fits(Below, pins) /\ Len(Below) <= 1 /\ (Len(Below) = 1 => pins > 0)
           /\ Top \in Frames /\ Top.c \in Nat /\ Top.at \in Nat /\ Top.mode \in {"start", "rx"} /\ (pins = 0 => Below = <<>>)
           /\ (Top.at # 0 => pins > 0) /\ (~ (pins > 0) => Below = <<>>)
<1>1. stack \in Seq(Frames) /\ pins \in Nat /\ Fits(stack, pins)
  BY DEF Sound, EngineTypes
<1> DEFINE b == Below
<1>2. Popped(stack, b, pins)
  <2>1. b = SubSeq(stack, 1, Len(stack) - 1)
    BY DEF Below
  <2> HIDE DEF b
  <2> QED
    BY <1>1, <2>1, FitsPop
<1>3. Top \in Frames /\ (Top.at # 0 => pins > 0)
  BY <1>2 DEF Top, Popped
<1>4. Top.c \in Nat /\ Top.at \in Nat /\ Top.mode \in {"start", "rx"}
  BY <1>3 DEF Frames
<1>5. ~ (pins > 0) => pins = 0
  BY <1>1
<1> HIDE DEF b
<1> QED
  BY <1>2, <1>3, <1>4, <1>5 DEF b, Popped

\* The command that a result ends, on the straight line.
LEMMA FoundStraight ==
    ASSUME Sound, Straight, NEW b \in Seq(Pieces), NEW q \in Seq(Pieces), b \o q = rx \o port,
           NEW r, r = Scan(b, 1, "rx", handled, pins), r.stop = 0, NEW c, NEW flag, NEW harm,
           Found(<<>>, c, r, flag, harm), stack = <<Frame(c, "rx", 0)>>,
           rough' \subseteq {"timeout"}, rough \subseteq rough', pins' = r.pins, handled' = r.urcs, port' = q,
           sent' = sent, pending' = pending
    PROVE  Straight' /\ (rough' = {} => answers' = [answers EXCEPT ![c] = "own"])
<1> DEFINE i == ResultAt(r.rx)
<1>1. Scanned(r, b, q, sent) /\ Clear(r, b, handled, "rx")
  <2>1. "rx" # "timer"
    OBVIOUS
  <2> QED
    BY <2>1, StraightScan
<1>2. /\ r.pins = 0 /\ r.rx \in Seq(Pieces) /\ r.urcs \in Seq(Nat)
      /\ Flat(r.rx \o q) /\ Part(r.rx \o q, b \o q)
      /\ Counted(r.urcs, sent) /\ Awaiting(r.rx \o q, Len(r.urcs), sent)
  BY <1>1 DEF Scanned
<1>3. /\ ResultsIn(r.rx) # {} /\ rx' = AfterResult(r.rx, i) /\ under' = RunsOut(r.rx, i)
      /\ rough' = (IF RunsOut(r.rx, i) THEN harm \cup {"cut"} ELSE harm)
      /\ stack' = <<>> /\ answers' = [answers EXCEPT ![c] = Verdict(r.rx, i, c)]
  BY DEF Found, Return
<1>4. ~ RunsOut(r.rx, i)
  BY <1>3
<1>5. NoUrcs(r.rx)
  BY <1>1, NoUrcLeft DEF NoUrcs
<1>6. Len(r.urcs) \in Nat /\ sent \in Nat
  BY <1>2, LenProperties DEF Sound, RestTypes
<1>7. ResultDone(r.rx, i, q, Len(r.urcs), sent)
  <2> HIDE DEF i
  <2>1. i = ResultAt(r.rx)
    BY DEF i
  <2> QED
    BY <1>2, <1>3, <1>4, <1>5, <1>6, <2>1, ResultStraight
<1> HIDE DEF i
<1>8. ASSUME rough' = {}
      PROVE  pending = <<>> /\ NoAnswers(rx' \o port') /\ Verdict(r.rx, i, c) = "own"
  <2>1. Own(rx \o port, stack, pending)
    BY <1>8 DEF Straight
  <2>2. stack # <<>> /\ stack[1].c = c
    BY DEF Frame
  <2>3. ToCommand(rx \o port, c, pending)
    BY <2>1, <2>2 DEF Own
  <2>4. ToCommand(r.rx \o q, c, pending)
    <3>1. ToCommand(b \o q, c, pending)
      BY <2>3
    <3> QED
      BY <1>2, <3>1, PartOwn
  <2>5. pending = <<>> /\ NoAnswers(AfterResult(r.rx, i) \o q) /\ Verdict(r.rx, i, c) = "own"
    BY <1>7, <2>4 DEF ResultDone
  <2> QED
    BY <1>3, <2>5
<1>9. rough' = {} => Own(rx' \o port', stack', pending')
  BY <1>3, <1>8 DEF Own
<1>10. Flat(rx' \o port') /\ Awaiting(rx' \o port', Len(handled'), sent') /\ Counted(handled', sent')
  BY <1>2, <1>3, <1>7 DEF ResultDone
<1>11. pins' = 0 /\ ~ under' /\ Single(stack')
  BY <1>2, <1>3, <1>4 DEF Single
<1>12. Straight'
  BY <1>9, <1>10, <1>11 DEF Straight
<1> QED
  BY <1>3, <1>8, <1>12

\* The command that goes on waiting, on the straight line.
LEMMA NoResultStraight ==
    ASSUME Sound, Straight, NEW b \in Seq(Pieces), NEW q \in Seq(Pieces), b \o q = rx \o port,
           NEW r, r = Scan(b, 1, "rx", handled, pins), r.stop = 0, NEW c \in Nat, NEW flag, NEW harm,
           NoResult(<<>>, c, r, flag, harm), stack = <<Frame(c, "rx", 0)>>,
           rough \subseteq rough', pins' = r.pins, handled' = r.urcs, port' = q, sent' = sent, pending' = pending
    PROVE  Straight' /\ answers' = answers
<1>1. Scanned(r, b, q, sent)
  <2>1. "rx" # "timer"
    OBVIOUS
  <2> QED
    BY <2>1, StraightScan
<1>2. /\ r.pins = 0 /\ Flat(r.rx \o q) /\ Part(r.rx \o q, b \o q)
      /\ Counted(r.urcs, sent) /\ Awaiting(r.rx \o q, Len(r.urcs), sent)
  BY <1>1 DEF Scanned
<1>3. /\ rx' = r.rx /\ under' = FALSE /\ stack' = <<Frame(c, "rx", 0)>> /\ answers' = answers
  <2>1. Append(<<>>, Frame(c, "rx", 0)) = <<Frame(c, "rx", 0)>>
    OBVIOUS
  <2> QED
    BY <2>1 DEF NoResult
<1>4. rough' = {} => Own(rx' \o port', stack', pending')
  <2> SUFFICES ASSUME rough' = {} PROVE Own(rx' \o port', stack', pending')
    OBVIOUS
  <2>1. Own(rx \o port, stack, pending)
    BY DEF Straight
  <2>2. stack # <<>> /\ stack[1].c = c
    BY DEF Frame
  <2>3. ToCommand(b \o q, c, pending)
    BY <2>1, <2>2 DEF Own
  <2>4. ToCommand(r.rx \o q, c, pending)
    BY <1>2, <2>3, PartOwn
  <2>5. stack' # <<>> /\ stack'[1].c = c
    BY <1>3, <2>2
  <2> QED
    BY <1>3, <2>4, <2>5 DEF Own
<1>5. Single(stack')
  BY <1>3 DEF Single
<1>6. Straight'
  BY <1>2, <1>3, <1>4, <1>5 DEF Straight
<1> QED
  BY <1>3, <1>6

\* A command reads, scans and looks for its result.
LEMMA ReceiveKeeps ==
    ASSUME ATInv, RX_SIZE \in Nat, Receive
    PROVE  ATInv'
<1>1. Sound /\ (rough \subseteq {"timeout"} => Straight) /\ AnswersAreOwn
  BY DEF ATInv
<1>2. /\ EngineTypes /\ RestTypes /\ HarmIsKnown /\ FlagFollowsCommand
      /\ rx \in Seq(Pieces) /\ Len(rx) <= RX_SIZE /\ pins \in Nat /\ handled \in Seq(Nat) /\ rough \subseteq Roughness
      /\ issued \in Nat /\ port \in Seq(Pieces) /\ under \in BOOLEAN /\ in_command \in BOOLEAN /\ sent \in Nat
  BY <1>1 DEF Sound, EngineTypes, RestTypes
<1>3. stack # <<>> /\ Top.at = 0 /\ sent' = sent
  BY DEF Receive
<1> DEFINE Read(n, r) ==
             /\ port' = SubSeq(port, n + 1, Len(port))
             /\ \/ Nests(Below, Top.c, "rx", r, issued + 1, Harm(n)) /\ under' = FALSE
                \/ Extracts(Below, Top.c, r, in_command \/ under, Harm(n))
<1>4. \E n \in Arrived : \E b \in {Drained(n)} : \E r \in {Scan(b, 1, "rx", handled, pins)} : Read(n, r)
  BY DEF Receive
<1>5. PICK n \in Arrived : \E b \in {Drained(n)} : \E r \in {Scan(b, 1, "rx", handled, pins)} : Read(n, r)
  BY <1>4
<1>6. PICK b \in {Drained(n)} : \E r \in {Scan(b, 1, "rx", handled, pins)} : Read(n, r)
  BY <1>5
<1>7. PICK r \in {Scan(b, 1, "rx", handled, pins)} : Read(n, r)
  BY <1>6
<1>8. n \in 0 .. Len(port)
  <2>1. Len(port) \in Nat
    BY <1>2, LenProperties
  <2> QED
    BY <2>1 DEF Arrived
<1> DEFINE q == SubSeq(port, n + 1, Len(port))
<1>9. /\ b = Drained(n) /\ b \in Seq(Pieces) /\ Len(b) <= RX_SIZE /\ q \in Seq(Pieces)
      /\ ~ under /\ ~ (Len(rx) + n > RX_SIZE) => b \o q = rx \o port
  <2>1. DrainedOK(n, Drained(n), q)
    BY <1>2, <1>8, DrainedTypes
  <2>2. b = Drained(n)
    OBVIOUS
  <2> HIDE DEF q
  <2> QED
    BY <2>1, <2>2 DEF DrainedOK
<1>10. r = Scan(b, 1, "rx", handled, pins) /\ 1 \in Nat \ {0} /\ "rx" # "timer" /\ "rx" \in {"start", "rx"}
  OBVIOUS
<1>11. ScanTypesOK(r, b, handled, pins)
  BY <1>2, <1>9, <1>10, ScanTypes
<1>12. /\ Below \in Seq(Frames) /\ Fits(Below, pins) /\ Len(Below) <= 1 /\ (Len(Below) = 1 => pins > 0)
      /\ Top.c \in Nat /\ (pins = 0 => Below = <<>>)
  BY <1>1, <1>3, TopIs
<1>13. /\ Harm(n) \in SUBSET Roughness /\ rough \subseteq Harm(n)
       /\ Harm(n) \subseteq {"timeout"} => ~ (Len(rx) + n > RX_SIZE) /\ Harm(n) = rough
  BY <1>2, HarmTypes
<1>14. port' = q
  BY <1>7
<1> HIDE DEF q
<1>15. CASE Nests(Below, Top.c, "rx", r, issued + 1, Harm(n)) /\ under' = FALSE
  <2>1. pins = 0
    <3>1. r.stop > 0
      BY <1>15 DEF Nests
    <3> QED
      BY <1>11, <3>1 DEF ScanTypesOK
  <2>2. Nests(<<>>, Top.c, "rx", r, issued + 1, Harm(n))
    BY <1>12, <1>15, <2>1
  <2>3. /\ EngineTypes' /\ Fits(stack', pins') /\ issued' \in Nat /\ "nested" \in rough' /\ Harm(n) \subseteq rough'
    <3>1. issued + 1 \in Nat
      BY <1>2
    <3> QED
      BY <1>1, <1>9, <1>10, <1>11, <1>12, <1>13, <2>2, <3>1, NestsTypes
  <2>4. RestTypes'
    BY <1>2, <1>3, <1>9, <1>14, <1>15, <2>3 DEF RestTypes
  <2>5. HarmIsKnown'
    BY <1>15, <2>3 DEF HarmIsKnown
  <2>6. FlagFollowsCommand'
    BY <2>3 DEF FlagFollowsCommand
  <2> QED
    BY <2>3, <2>4, <2>5, <2>6, NestedKeeps DEF Sound
<1>16. CASE Extracts(Below, Top.c, r, in_command \/ under, Harm(n))
  <2> DEFINE c == Top.c
             flag == in_command \/ under
  <2>1. /\ EngineTypes' /\ Fits(stack', pins') /\ Harm(n) \subseteq rough' /\ under' \in BOOLEAN /\ issued' = issued
        /\ (under' => rx' = <<>> /\ "cut" \in rough') /\ r.stop = 0 /\ pins' = r.pins
        /\ Found(Below, c, r, flag, Harm(n)) \/ NoResult(Below, c, r, flag, Harm(n))
    <3>1. flag \in BOOLEAN
      BY <1>2
    <3> QED
      BY <1>1, <1>9, <1>11, <1>12, <1>13, <1>16, <3>1, ExtractsTypes
  <2>2. handled' = r.urcs /\ pending' = pending
    BY <1>16 DEF Extracts
  <2>3. RestTypes'
    BY <1>2, <1>3, <1>9, <1>14, <2>1 DEF RestTypes
  <2>4. rough \subseteq rough'
    BY <1>13, <2>1
  <2>5. HarmIsKnown'
    <3>1. pins' > 0 => "nested" \in rough
      BY <1>1, <1>9, <1>10, <2>1, QuietPins
    <3> QED
      BY <2>1, <2>4, <3>1 DEF HarmIsKnown
  <2> HIDE DEF c
  <2>6. FlagFollowsCommand'
    <3> SUFFICES ASSUME rough' \cap {"nested", "cut"} = {} PROVE in_command' <=> stack' # <<>>
      BY DEF FlagFollowsCommand
    <3>1. rough \cap {"nested", "cut"} = {} /\ "nested" \notin rough /\ "cut" \notin rough
      BY <2>4
    <3>2. ~ under /\ ~ (pins > 0) /\ in_command
      BY <1>2, <1>3, <3>1 DEF HarmIsKnown, FlagFollowsCommand
    <3>3. Below = <<>>
      BY <1>1, <1>3, <3>2, TopIs
    <3>4. CASE Found(Below, c, r, flag, Harm(n))
      <4>1. stack' = <<>> /\ in_command' = FALSE
        BY <3>3, <3>4 DEF Found, Return
      <4> QED
        BY <4>1
    <3>5. CASE NoResult(Below, c, r, flag, Harm(n))
      <4>1. stack' = Append(Below, Frame(c, "rx", 0)) /\ in_command' = flag
        BY <3>5 DEF NoResult
      <4>2. stack' # <<>>
        BY <3>3, <4>1
      <4>3. in_command' = TRUE
        BY <3>2, <4>1
      <4> QED
        BY <4>2, <4>3
    <3> QED
      BY <2>1, <3>4, <3>5
  <2>7. Sound'
    BY <2>1, <2>3, <2>5, <2>6 DEF Sound
  <2>8. ASSUME rough' \subseteq {"timeout"}
        PROVE  Straight' /\ (rough' = {} => answers' = answers \/ answers' = [answers EXCEPT ![c] = "own"])
    <3>1. Harm(n) \subseteq {"timeout"} /\ rough \subseteq {"timeout"}
      BY <2>1, <2>4, <2>8
    <3>2. Straight /\ ~ (Len(rx) + n > RX_SIZE)
      BY <1>1, <1>13, <3>1
    <3>3. ~ under /\ pins = 0 /\ Single(stack)
      BY <3>2 DEF Straight
    <3>4. b \o q = rx \o port
      BY <1>9, <3>2, <3>3
    <3>5. Below = <<>>
      BY <1>12, <3>3
    <3>6. stack = <<Frame(c, "rx", 0)>> /\ c \in Nat
      <4>1. PICK d \in Nat : stack = <<Frame(d, "rx", 0)>>
        BY <1>3, <3>3 DEF Single
      <4>2. Top = Frame(d, "rx", 0)
        BY <4>1 DEF Top
      <4>3. c = d
        BY <4>2 DEF c, Frame
      <4> QED
        BY <4>1, <4>3
    <3>7. CASE Found(Below, c, r, flag, Harm(n))
      <4>1. Found(<<>>, c, r, flag, Harm(n))
        BY <3>5, <3>7
      <4> HIDE DEF flag
      <4> QED
        BY <1>1, <1>3, <1>9, <1>10, <1>14, <2>1, <2>2, <2>4, <2>8, <3>2, <3>4, <3>6, <4>1, FoundStraight
    <3>8. CASE NoResult(Below, c, r, flag, Harm(n))
      <4>1. NoResult(<<>>, c, r, flag, Harm(n))
        BY <3>5, <3>8
      <4> HIDE DEF flag
      <4> QED
        BY <1>1, <1>3, <1>9, <1>10, <1>14, <2>1, <2>2, <2>4, <3>2, <3>4, <3>6, <4>1, NoResultStraight
    <3> QED
      BY <2>1, <3>7, <3>8
  <2>9. AnswersAreOwn'
    <3> SUFFICES ASSUME rough' = {} PROVE \A a \in DOMAIN answers' : answers'[a] # "other"
      BY DEF AnswersAreOwn
    <3>1. \A a \in DOMAIN answers : answers[a] # "other"
      BY <1>1, <2>4 DEF AnswersAreOwn
    <3>2. answers' = answers \/ answers' = [answers EXCEPT ![c] = "own"]
      BY <2>8
    <3>3. CASE answers' = answers
      BY <3>1, <3>3
    <3>4. CASE answers' = [answers EXCEPT ![c] = "own"]
      BY <3>1, <3>4, NotedOwn
    <3> QED
      BY <3>2, <3>3, <3>4
  <2> QED
    BY <2>7, <2>8, <2>9 DEF ATInv
<1> QED
  BY <1>7, <1>15, <1>16

\* Taking a line out of the buffer.
LEMMA RemoveTypes ==
    ASSUME NEW b \in Seq(Pieces), NEW i \in Nat, i > 0
    PROVE  RemoveLine(b, i, 2) \in Seq(Pieces) /\ Len(RemoveLine(b, i, 2)) <= Len(b)
<1>1. Len(b) \in Nat
  BY LenProperties
<1>2. CASE i + 2 - 1 > Len(b)
  <2>1. RemoveLine(b, i, 2) = b
    BY <1>2 DEF RemoveLine
  <2> QED
    BY <1>1, <2>1
<1>3. CASE ~ (i + 2 - 1 > Len(b))
  <2> DEFINE s == SubSeq(b, 1, i - 1)
             t == SubSeq(b, i + 2, Len(b))
  <2>1. RemoveLine(b, i, 2) = s \o t
    BY <1>3 DEF RemoveLine
  <2>2. /\ \A k \in 1 .. i - 1 : k \in 1 .. Len(b)
        /\ \A k \in i + 2 .. Len(b) : k \in 1 .. Len(b)
        /\ i - 1 \in Int /\ i + 2 \in Int /\ Len(b) \in Int /\ i - 1 >= 0 /\ i + 1 <= Len(b)
    BY <1>1, <1>3
  <2>3. (\A k \in 1 .. i - 1 : b[k] \in Pieces) /\ (\A k \in i + 2 .. Len(b) : b[k] \in Pieces)
    BY <2>2, ElementOfSeq
  <2>4. s \in Seq(Pieces) /\ Len(s) = IF 1 <= i - 1 THEN (i - 1) - 1 + 1 ELSE 0
    BY <2>2, <2>3, SubSeqProperties
  <2>5. t \in Seq(Pieces) /\ Len(t) = IF i + 2 <= Len(b) THEN Len(b) - (i + 2) + 1 ELSE 0
    BY <2>2, <2>3, SubSeqProperties
  <2> HIDE DEF s, t
  <2>6. Len(s) = i - 1
    BY <2>2, <2>4
  <2>7. Len(t) <= Len(b) - (i + 1)
    BY <2>2, <2>5
  <2>8. s \o t \in Seq(Pieces) /\ Len(s \o t) = Len(s) + Len(t) /\ Len(t) \in Nat
    BY <2>4, <2>5, ConcatProperties, LenProperties
  <2>9. Len(s \o t) <= Len(b)
    BY <1>1, <2>6, <2>7, <2>8
  <2> QED
    BY <2>1, <2>8, <2>9
<1> QED
  BY <1>2, <1>3

\* An interrupted scan goes on.
LEMMA ResumeKeeps ==
    ASSUME ATInv, RX_SIZE \in Nat, Resume
    PROVE  ATInv'
<1>1. Sound
  BY DEF ATInv
<1>2. /\ EngineTypes /\ RestTypes /\ HarmIsKnown
      /\ rx \in Seq(Pieces) /\ Len(rx) <= RX_SIZE /\ pins \in Nat /\ handled \in Seq(Nat) /\ rough \subseteq Roughness
      /\ in_command \in BOOLEAN
  BY <1>1 DEF Sound, EngineTypes
<1>3. stack # <<>> /\ Top.at > 0 /\ UNCHANGED <<port, sent>>
  BY DEF Resume
<1> DEFINE Goes(r) ==
             \/ Top.mode = "start" /\ Written(Below, Top.c, r, in_command) /\ UNCHANGED <<under, issued>>
             \/ Top.mode = "rx" /\ Extracts(Below, Top.c, r, in_command, rough)
<1>4. \E b \in {RemoveLine(rx, Top.at, 2)} : \E r \in {Scan(b, Top.at, Top.mode, handled, pins)} : Goes(r)
  BY DEF Resume
<1>5. PICK b \in {RemoveLine(rx, Top.at, 2)} : \E r \in {Scan(b, Top.at, Top.mode, handled, pins)} : Goes(r)
  BY <1>4
<1>6. PICK r \in {Scan(b, Top.at, Top.mode, handled, pins)} : Goes(r)
  BY <1>5
<1>7. /\ Below \in Seq(Frames) /\ Fits(Below, pins) /\ Len(Below) <= 1 /\ (Len(Below) = 1 => pins > 0)
      /\ Top.c \in Nat /\ Top.at \in Nat /\ (Top.at # 0 => pins > 0)
  BY <1>1, <1>3, TopIs
<1>8. Top.at \in Nat \ {0} /\ pins > 0 /\ "nested" \in rough
  <2>1. Top.at # 0
    BY <1>3
  <2> QED
    BY <1>2, <1>7, <2>1 DEF HarmIsKnown
<1>9. b \in Seq(Pieces) /\ Len(b) <= Len(rx) /\ Len(b) <= RX_SIZE
  <2>1. b \in Seq(Pieces) /\ Len(b) <= Len(rx)
    BY <1>2, <1>3, <1>7, RemoveTypes
  <2>2. Len(b) \in Nat /\ Len(rx) \in Nat
    BY <1>2, <2>1, LenProperties
  <2> QED
    BY <1>2, <2>1, <2>2
<1>10. ScanTypesOK(r, b, handled, pins)
  <2>1. r = Scan(b, Top.at, Top.mode, handled, pins)
    OBVIOUS
  <2> QED
    BY <1>2, <1>8, <1>9, <2>1, ScanTypes
<1>11. CASE Written(Below, Top.c, r, in_command) /\ UNCHANGED <<under, issued>>
  <2>1. EngineTypes' /\ Fits(stack', pins') /\ rough' = rough /\ Len(rx') <= Len(b)
    BY <1>1, <1>2, <1>7, <1>9, <1>10, <1>11, WrittenTypes
  <2>2. RestTypes'
    BY <1>2, <1>3, <1>11 DEF RestTypes
  <2>3. under => rx' = <<>>
    <3> SUFFICES ASSUME under PROVE rx' = <<>>
      OBVIOUS
    <3>1. rx' \in Seq(Pieces)
      BY <2>1 DEF EngineTypes
    <3>2. Len(rx) = 0 /\ Len(rx') \in Nat /\ Len(b) \in Nat
      BY <1>2, <1>9, <3>1, LenProperties DEF HarmIsKnown
    <3>3. Len(rx') = 0
      BY <1>9, <2>1, <3>2
    <3> QED
      BY <3>1, <3>3, EmptySeq
  <2>4. HarmIsKnown' /\ FlagFollowsCommand'
    BY <1>2, <1>8, <1>11, <2>1, <2>3 DEF HarmIsKnown, FlagFollowsCommand
  <2> QED
    BY <1>8, <2>1, <2>2, <2>4, NestedKeeps DEF Sound
<1>12. CASE Extracts(Below, Top.c, r, in_command, rough)
  <2>1. /\ EngineTypes' /\ Fits(stack', pins') /\ rough \subseteq rough' /\ under' \in BOOLEAN /\ issued' = issued
        /\ (under' => rx' = <<>> /\ "cut" \in rough')
    <3>1. rough \in SUBSET Roughness
      BY <1>2
    <3> QED
      BY <1>1, <1>2, <1>7, <1>9, <1>10, <1>12, <3>1, ExtractsTypes
  <2>2. RestTypes'
    BY <1>2, <1>3, <2>1 DEF RestTypes
  <2>3. HarmIsKnown' /\ FlagFollowsCommand' /\ "nested" \in rough'
    BY <1>8, <2>1 DEF HarmIsKnown, FlagFollowsCommand
  <2> QED
    BY <2>1, <2>2, <2>3, NestedKeeps DEF Sound
<1> QED
  BY <1>6, <1>11, <1>12

\* A command gives up.
LEMMA TimeoutKeeps ==
    ASSUME ATInv, Timeout
    PROVE  ATInv'
<1>1. Sound /\ (rough \subseteq {"timeout"} => Straight)
  BY DEF ATInv
<1>2. EngineTypes /\ RestTypes /\ HarmIsKnown /\ Fits(stack, pins) /\ FlagFollowsCommand /\ pins \in Nat
  BY <1>1 DEF Sound, EngineTypes
<1>3. /\ stack # <<>> /\ stack' = Below /\ in_command' = FALSE /\ answers' = [answers EXCEPT ![Top.c] = "timeout"]
      /\ rough' = rough \cup {"timeout"}
      /\ UNCHANGED <<rx, under, pins, handled, issued, port, pending, sent>>
  BY DEF Timeout, Return
<1>4. Below \in Seq(Frames) /\ Fits(Below, pins) /\ (~ (pins > 0) => Below = <<>>)
  BY <1>1, <1>3, TopIs
<1>5. \A a \in DOMAIN answers' : answers'[a] \in Outcomes
  <2>1. \A a \in DOMAIN answers : answers[a] \in Outcomes
    BY <1>2 DEF EngineTypes
  <2> QED
    BY <1>3, <2>1, NotedTypes DEF Outcomes
<1>6. EngineTypes' /\ RestTypes' /\ HarmIsKnown' /\ Fits(stack', pins')
  BY <1>2, <1>3, <1>4, <1>5 DEF EngineTypes, RestTypes, HarmIsKnown, Roughness
<1>7. FlagFollowsCommand'
  BY <1>2, <1>3, <1>4 DEF FlagFollowsCommand, HarmIsKnown
<1>8. ASSUME rough' \subseteq {"timeout"} PROVE Straight'
  <2>1. Straight /\ pins = 0
    BY <1>1, <1>3, <1>8 DEF Straight
  <2>2. stack' = <<>>
    BY <1>3, <1>4, <2>1
  <2>3. rough' # {}
    BY <1>3
  <2> QED
    BY <1>3, <2>1, <2>2, <2>3 DEF Straight, Single
<1>9. AnswersAreOwn'
  BY <1>3 DEF AnswersAreOwn
<1> QED
  BY <1>6, <1>7, <1>8, <1>9 DEF ATInv, Sound

\* The timer handles what came meanwhile.
LEMMA TimerKeeps ==
    ASSUME ATInv, RX_SIZE \in Nat, HandleRxOnTimer
    PROVE  ATInv'
<1>1. Sound /\ (rough \subseteq {"timeout"} => Straight) /\ AnswersAreOwn
  BY DEF ATInv
<1>2. /\ EngineTypes /\ RestTypes /\ HarmIsKnown /\ FlagFollowsCommand /\ Fits(stack, pins)
      /\ rx \in Seq(Pieces) /\ Len(rx) <= RX_SIZE /\ pins \in Nat /\ handled \in Seq(Nat) /\ rough \subseteq Roughness
      /\ issued \in Nat /\ port \in Seq(Pieces) /\ under \in BOOLEAN /\ sent \in Nat
  BY <1>1 DEF Sound, EngineTypes, RestTypes
<1>3. stack = <<>> /\ UNCHANGED <<stack, answers, issued, pending, sent>>
  BY DEF HandleRxOnTimer
<1> DEFINE asked(r) == pins = 0 /\ r.pins > 0
           Read(n, r) ==
             /\ port' = SubSeq(port, n + 1, Len(port))
             /\ rx' = r.rx /\ handled' = r.urcs /\ pins' = r.pins
             /\ in_command' = (asked(r) \/ (under /\ n > 0))
             /\ under' = (under /\ n = 0)
             /\ rough' = Harm(n) \cup (IF asked(r) THEN {"nested"} ELSE {})
<1>4. \E n \in Arrived \cup {0} : \E b \in {Drained(n)} : \E r \in {Scan(b, 1, "timer", handled, pins)} : Read(n, r)
  BY DEF HandleRxOnTimer
<1>5. PICK n \in Arrived \cup {0} : \E b \in {Drained(n)} : \E r \in {Scan(b, 1, "timer", handled, pins)} : Read(n, r)
  BY <1>4
<1>6. PICK b \in {Drained(n)} : \E r \in {Scan(b, 1, "timer", handled, pins)} : Read(n, r)
  BY <1>5
<1>7. PICK r \in {Scan(b, 1, "timer", handled, pins)} : Read(n, r)
  BY <1>6
<1>8. n \in 0 .. Len(port)
  <2>1. Len(port) \in Nat
    BY <1>2, LenProperties
  <2> QED
    BY <2>1 DEF Arrived
<1> DEFINE q == SubSeq(port, n + 1, Len(port))
<1>9. DrainedOK(n, b, q) /\ b \in Seq(Pieces) /\ q \in Seq(Pieces) /\ Len(b) <= RX_SIZE
  <2>1. DrainedOK(n, Drained(n), q)
    BY <1>2, <1>8, DrainedTypes
  <2>2. b = Drained(n)
    OBVIOUS
  <2> HIDE DEF q
  <2> QED
    BY <2>1, <2>2 DEF DrainedOK
<1>10. r = Scan(b, 1, "timer", handled, pins) /\ 1 \in Nat \ {0}
  OBVIOUS
<1>11. /\ r.rx \in Seq(Pieces) /\ Len(r.rx) <= Len(b) /\ r.urcs \in Seq(Nat) /\ r.pins \in Nat
  <2>1. ScanTypesOK(r, b, handled, pins)
    BY <1>2, <1>9, <1>10, ScanTypes
  <2> QED
    BY <2>1 DEF ScanTypesOK
<1>12. /\ Harm(n) \in SUBSET Roughness /\ rough \subseteq Harm(n)
       /\ Harm(n) \subseteq {"timeout"} => ~ (Len(rx) + n > RX_SIZE) /\ Harm(n) = rough
  BY <1>2, HarmTypes
<1>13. /\ port' = q /\ rx' = r.rx /\ handled' = r.urcs /\ pins' = r.pins
       /\ in_command' = (asked(r) \/ (under /\ n > 0)) /\ under' = (under /\ n = 0)
       /\ rough' = Harm(n) \cup (IF asked(r) THEN {"nested"} ELSE {})
  BY <1>7
<1> HIDE DEF q
<1>14. rough' \subseteq Roughness /\ rough \subseteq rough' /\ Harm(n) \subseteq rough'
       /\ (asked(r) => "nested" \in rough')
  BY <1>12, <1>13 DEF Roughness
<1>15. Len(b) \in Nat /\ Len(r.rx) \in Nat /\ Len(rx) \in Nat
  BY <1>2, <1>9, <1>11, LenProperties
<1>16. EngineTypes'
  <2>1. Len(rx') <= RX_SIZE
    BY <1>9, <1>11, <1>13, <1>15
  <2> QED
    BY <1>2, <1>3, <1>11, <1>13, <1>14, <2>1 DEF EngineTypes
<1>17. RestTypes' /\ Fits(stack', pins')
  <2>1. Fits(stack', pins')
    BY <1>3 DEF Fits
  <2> QED
    BY <1>2, <1>3, <1>9, <1>13, <2>1 DEF RestTypes
<1>18. HarmIsKnown'
  <2>1. under' => rx' = <<>> /\ "cut" \in rough'
    <3> SUFFICES ASSUME under, n = 0 PROVE rx' = <<>> /\ "cut" \in rough'
      BY <1>13
    <3>1. Len(rx) = 0 /\ "cut" \in rough
      BY <1>2 DEF HarmIsKnown
    <3>2. Len(b) <= Len(rx)
      BY <1>9 DEF DrainedOK
    <3>3. Len(rx') = 0
      BY <1>11, <1>13, <1>15, <3>1, <3>2
    <3>4. rx' = <<>>
      BY <1>11, <1>13, <3>3, EmptySeq
    <3> QED
      BY <1>14, <3>1, <3>4
  <2>2. pins' > 0 => "nested" \in rough'
    <3>1. pins = 0 \/ pins > 0
      BY <1>2
    <3> QED
      BY <1>2, <1>13, <1>14, <3>1 DEF HarmIsKnown
  <2> QED
    BY <2>1, <2>2 DEF HarmIsKnown
<1>19. FlagFollowsCommand'
  <2> SUFFICES ASSUME rough' \cap {"nested", "cut"} = {} PROVE in_command' <=> stack' # <<>>
    BY DEF FlagFollowsCommand
  <2>1. ~ asked(r)
    BY <1>14
  <2>2. ~ under
    BY <1>2, <1>14 DEF HarmIsKnown
  <2>3. in_command' = FALSE
    BY <1>13, <2>1, <2>2
  <2> QED
    BY <1>3, <2>3
<1>20. Sound'
  BY <1>16, <1>17, <1>18, <1>19 DEF Sound
<1>21. ASSUME rough' \subseteq {"timeout"} PROVE Straight'
  <2>1. Straight /\ ~ (Len(rx) + n > RX_SIZE) /\ ~ asked(r)
    BY <1>1, <1>12, <1>14, <1>21
  <2>2. ~ under /\ pins = 0
    BY <2>1 DEF Straight
  <2>3. r.pins = 0
    BY <1>11, <2>1, <2>2
  <2>4. b \o q = rx \o port
    BY <1>9, <2>1, <2>2 DEF DrainedOK
  <2>5. Scanned(r, b, q, sent)
    BY <1>1, <1>9, <1>10, <2>1, <2>3, <2>4, StraightScan
  <2>6. /\ Flat(rx' \o port') /\ Counted(handled', sent') /\ Awaiting(rx' \o port', Len(handled'), sent')
        /\ Part(rx' \o port', rx \o port)
    BY <1>3, <1>13, <2>4, <2>5 DEF Scanned
  <2>7. rough' = {} => Own(rx' \o port', stack', pending')
    <3> SUFFICES ASSUME rough' = {} PROVE Own(rx' \o port', stack', pending')
      OBVIOUS
    <3>1. pending = <<>> /\ NoAnswers(rx \o port)
      BY <1>3, <1>14, <2>1 DEF Straight, Own
    <3>2. NoAnswers(rx' \o port')
      BY <2>6, <3>1, PartOwn
    <3> QED
      BY <1>3, <3>1, <3>2 DEF Own
  <2>8. pins' = 0 /\ ~ under' /\ Single(stack')
    BY <1>3, <1>13, <2>2, <2>3 DEF Single
  <2> QED
    BY <2>6, <2>7, <2>8 DEF Straight
<1>22. AnswersAreOwn'
  BY <1>1, <1>3, <1>14 DEF AnswersAreOwn
<1> QED
  BY <1>20, <1>21, <1>22 DEF ATInv

-----------------------------------------------------------------------------
(* The modem writes to the line.                                           *)

\* The line k about m follows what is in s.
Added(t, s, k, m) ==
  /\ t \in Seq(Pieces) /\ Len(t) = Len(s) + 2
  /\ \A i \in 1 .. Len(s) : t[i] = s[i]
  /\ t[Len(s) + 1] = <<k, m, "head">> /\ t[Len(s) + 2] = <<k, m, "tail">>

\* A line at the end.
LEMMA LineAdded ==
    ASSUME NEW s \in Seq(Pieces), NEW k \in Kinds, NEW m \in Nat
    PROVE  Added(s \o Line(k, m), s, k, m)
<1> DEFINE L == Line(k, m)
<1>1. L \in Seq(Pieces) /\ Len(L) = 2 /\ L[1] = <<k, m, "head">> /\ L[2] = <<k, m, "tail">>
  <2>1. <<k, m, "head">> \in Pieces /\ <<k, m, "tail">> \in Pieces
    BY DEF Pieces
  <2> QED
    BY <2>1 DEF Line
<1> HIDE DEF L
<1>2. Len(s) \in Nat
  BY LenProperties
<1>3. /\ s \o L \in Seq(Pieces) /\ Len(s \o L) = Len(s) + Len(L)
      /\ \A i \in 1 .. Len(s) + Len(L) : (s \o L)[i] = IF i <= Len(s) THEN s[i] ELSE L[i - Len(s)]
  BY <1>1, ConcatProperties
<1>4. \A i \in 1 .. Len(s) : (s \o L)[i] = s[i]
  BY <1>1, <1>2, <1>3
<1>5. (s \o L)[Len(s) + 1] = L[1]
  <2>1. Len(s) + 1 \in 1 .. Len(s) + Len(L) /\ ~ (Len(s) + 1 <= Len(s)) /\ Len(s) + 1 - Len(s) = 1
    BY <1>1, <1>2
  <2> QED
    BY <1>3, <2>1
<1>6. (s \o L)[Len(s) + 2] = L[2]
  <2>1. Len(s) + 2 \in 1 .. Len(s) + Len(L) /\ ~ (Len(s) + 2 <= Len(s)) /\ Len(s) + 2 - Len(s) = 2
    BY <1>1, <1>2
  <2> QED
    BY <1>3, <2>1
<1> QED
  BY <1>1, <1>3, <1>4, <1>5, <1>6 DEF Added, L

\* Lines stay whole.
LEMMA FlatAdded ==
    ASSUME NEW s \in Seq(Pieces), NEW k \in Kinds, NEW m \in Nat, NEW t, Added(t, s, k, m), Flat(s)
    PROVE  Flat(t)
<1> DEFINE n == Len(s)
<1>1. n \in Nat /\ Len(t) = n + 2
  BY LenProperties DEF Added
<1>2. SUFFICES ASSUME NEW i \in 1 .. Len(t)
               PROVE  IF t[i][3] = "head" THEN i < Len(t) /\ t[i + 1] = <<t[i][1], t[i][2], "tail">>
                      ELSE i > 1 /\ t[i - 1] = <<t[i][1], t[i][2], "head">>
  BY DEF Flat
<1>3. i \in 1 .. n \/ i = n + 1 \/ i = n + 2
  BY <1>1
<1>4. CASE i \in 1 .. n
  <2>1. t[i] = s[i]
    BY <1>4 DEF Added
  <2>2. IF s[i][3] = "head" THEN i < n /\ s[i + 1] = <<s[i][1], s[i][2], "tail">>
        ELSE i > 1 /\ s[i - 1] = <<s[i][1], s[i][2], "head">>
    BY <1>4 DEF Flat
  <2>3. CASE s[i][3] = "head"
    <3>1. i < n
      BY <2>2, <2>3
    <3>2. i + 1 \in 1 .. n /\ i < Len(t)
      BY <1>1, <1>4, <3>1
    <3>3. t[i + 1] = s[i + 1]
      BY <3>2 DEF Added
    <3> QED
      BY <2>1, <2>2, <2>3, <3>2, <3>3
  <2>4. CASE s[i][3] # "head"
    <3>1. i > 1
      BY <2>2, <2>4
    <3>2. i - 1 \in 1 .. n
      BY <1>1, <1>4, <3>1
    <3>3. t[i - 1] = s[i - 1]
      BY <3>2 DEF Added
    <3> QED
      BY <2>1, <2>2, <2>4, <3>1, <3>3
  <2> QED
    BY <2>3, <2>4
<1>5. CASE i = n + 1
  <2>1. i < Len(t) /\ i + 1 = n + 2
    BY <1>1, <1>5
  <2>2. t[i] = <<k, m, "head">> /\ t[i + 1] = <<k, m, "tail">>
    BY <1>5, <2>1 DEF Added
  <2> QED
    BY <2>1, <2>2
<1>6. CASE i = n + 2
  <2>1. i > 1 /\ i - 1 = n + 1
    BY <1>1, <1>6
  <2>2. t[i] = <<k, m, "tail">> /\ t[i - 1] = <<k, m, "head">>
    BY <1>6, <2>1 DEF Added
  <2> QED
    BY <2>1, <2>2
<1> QED
  BY <1>3, <1>4, <1>5, <1>6

\* The URCs of the longer line.
LEMMA UrcsAdded ==
    ASSUME NEW s \in Seq(Pieces), NEW k \in Kinds, NEW m \in Nat, NEW t, Added(t, s, k, m)
    PROVE  /\ \A i \in 1 .. Len(t) : UrcAt(t, i) => (i \in 1 .. Len(s) /\ UrcAt(s, i)) \/ (i = Len(s) + 2 /\ k \in Urcs)
           /\ \A i \in 1 .. Len(s) : i \in 1 .. Len(t) /\ t[i] = s[i] /\ (UrcAt(s, i) => UrcAt(t, i))
           /\ Len(s) + 2 \in 1 .. Len(t) /\ t[Len(s) + 2][2] = m /\ (k \in Urcs => UrcAt(t, Len(s) + 2))
<1> DEFINE n == Len(s)
<1>1. n \in Nat /\ Len(t) = n + 2 /\ Len(t) \in Nat
  BY LenProperties DEF Added
<1>2. /\ \A i \in 1 .. Len(t) : i \in 1 .. n \/ i = n + 1 \/ i = n + 2
      /\ \A i \in 1 .. n : i \in 1 .. Len(t)
      /\ n + 2 \in 1 .. Len(t)
  BY <1>1
<1>3. /\ \A i \in 1 .. n : t[i] = s[i]
      /\ t[n + 1] = <<k, m, "head">> /\ t[n + 2] = <<k, m, "tail">>
  BY DEF Added
<1>4. t[n + 1][3] # "tail" /\ t[n + 2][1] = k /\ t[n + 2][2] = m /\ t[n + 2][3] = "tail"
  BY <1>3
<1> HIDE DEF n
<1>5. \A i \in 1 .. Len(t) : UrcAt(t, i) => (i \in 1 .. n /\ UrcAt(s, i)) \/ (i = n + 2 /\ k \in Urcs)
  <2> SUFFICES ASSUME NEW i \in 1 .. Len(t), UrcAt(t, i)
               PROVE  (i \in 1 .. n /\ UrcAt(s, i)) \/ (i = n + 2 /\ k \in Urcs)
    OBVIOUS
  <2>1. CASE i \in 1 .. n
    BY <1>3, <2>1 DEF UrcAt, IsUrc, n
  <2>2. CASE i = n + 1
    BY <1>4, <2>2 DEF UrcAt
  <2>3. CASE i = n + 2
    BY <1>4, <2>3 DEF UrcAt, IsUrc
  <2> QED
    BY <1>2, <2>1, <2>2, <2>3
<1>6. \A i \in 1 .. n : i \in 1 .. Len(t) /\ t[i] = s[i] /\ (UrcAt(s, i) => UrcAt(t, i))
  BY <1>2, <1>3 DEF UrcAt, IsUrc
<1>7. n + 2 \in 1 .. Len(t) /\ t[n + 2][2] = m /\ (k \in Urcs => UrcAt(t, n + 2))
  BY <1>2, <1>4 DEF UrcAt, IsUrc
<1> QED
  BY <1>5, <1>6, <1>7 DEF n

\* One more URC is awaited.
LEMMA AwaitUrc ==
    ASSUME NEW s \in Seq(Pieces), NEW k \in Urcs, NEW l \in Nat, NEW n \in Nat, l <= n,
           NEW t, Added(t, s, k, n + 1), Awaiting(s, l, n)
    PROVE  Awaiting(t, l, n + 1)
<1>1. k \in Kinds /\ n + 1 \in Nat
  BY DEF Kinds
<1> DEFINE e == Len(s) + 2
<1>2. /\ \A i \in 1 .. Len(t) : UrcAt(t, i) => (i \in 1 .. Len(s) /\ UrcAt(s, i)) \/ i = e
      /\ \A i \in 1 .. Len(s) : i \in 1 .. Len(t) /\ t[i] = s[i] /\ (UrcAt(s, i) => UrcAt(t, i))
      /\ e \in 1 .. Len(t) /\ t[e][2] = n + 1 /\ UrcAt(t, e)
  BY <1>1, UrcsAdded
<1>3. \A i \in 1 .. Len(s) : i < e /\ ~ (e < i)
  <2>1. Len(s) \in Nat
    BY LenProperties
  <2> QED
    BY <2>1
<1>4. ~ (e < e)
  <2>1. Len(s) \in Nat
    BY LenProperties
  <2> QED
    BY <2>1
<1> HIDE DEF e
<1>5. \A i \in 1 .. Len(s) : UrcAt(s, i) => s[i][2] \in l + 1 .. n
  BY DEF Awaiting
<1>6. /\ \A x \in l + 1 .. n : x \in l + 1 .. n + 1 /\ x < n + 1
      /\ \A x \in l + 1 .. n + 1 : x \in l + 1 .. n \/ x = n + 1
      /\ n + 1 \in l + 1 .. n + 1
  OBVIOUS
<1>7. \A i \in 1 .. Len(t) : UrcAt(t, i) => t[i][2] \in l + 1 .. n + 1
  BY <1>2, <1>5, <1>6
<1>8. \A x \in l + 1 .. n + 1 : \E i \in 1 .. Len(t) : UrcAt(t, i) /\ t[i][2] = x
  <2> SUFFICES ASSUME NEW x \in l + 1 .. n + 1 PROVE \E i \in 1 .. Len(t) : UrcAt(t, i) /\ t[i][2] = x
    OBVIOUS
  <2>1. CASE x = n + 1
    BY <1>2, <2>1
  <2>2. CASE x \in l + 1 .. n
    <3>1. PICK i \in 1 .. Len(s) : UrcAt(s, i) /\ s[i][2] = x
      BY <2>2 DEF Awaiting
    <3>2. i \in 1 .. Len(t) /\ UrcAt(t, i) /\ t[i][2] = x
      BY <1>2, <3>1
    <3> QED
      BY <3>2
  <2> QED
    BY <1>6, <2>1, <2>2
<1>9. \A i, j \in 1 .. Len(t) : i < j /\ UrcAt(t, i) /\ UrcAt(t, j) => t[i][2] < t[j][2]
  <2> SUFFICES ASSUME NEW i \in 1 .. Len(t), NEW j \in 1 .. Len(t), i < j, UrcAt(t, i), UrcAt(t, j)
               PROVE  t[i][2] < t[j][2]
    OBVIOUS
  <2>1. CASE i \in 1 .. Len(s) /\ UrcAt(s, i) /\ j \in 1 .. Len(s) /\ UrcAt(s, j)
    <3>1. s[i][2] < s[j][2]
      BY <2>1 DEF Awaiting
    <3> QED
      BY <1>2, <2>1, <3>1
  <2>2. CASE i \in 1 .. Len(s) /\ UrcAt(s, i) /\ j = e
    <3>1. s[i][2] < n + 1
      BY <1>5, <1>6, <2>2
    <3> QED
      BY <1>2, <2>2, <3>1
  <2>3. CASE i = e
    <3>1. j = e \/ j \in 1 .. Len(s)
      BY <1>2
    <3> QED
      BY <1>3, <1>4, <2>3, <3>1
  <2> QED
    BY <1>2, <2>1, <2>2, <2>3
<1> QED
  BY <1>7, <1>8, <1>9 DEF Awaiting

\* The others do not matter to the URCs.
LEMMA AwaitOther ==
    ASSUME NEW s \in Seq(Pieces), NEW k \in Kinds \ Urcs, NEW m \in Nat, NEW l, NEW n,
           NEW t, Added(t, s, k, m), Awaiting(s, l, n)
    PROVE  Awaiting(t, l, n)
<1>1. /\ \A i \in 1 .. Len(t) : UrcAt(t, i) => i \in 1 .. Len(s) /\ UrcAt(s, i)
      /\ \A i \in 1 .. Len(s) : i \in 1 .. Len(t) /\ t[i] = s[i] /\ (UrcAt(s, i) => UrcAt(t, i))
  BY UrcsAdded
<1>2. \A i \in 1 .. Len(t) : UrcAt(t, i) => t[i][2] \in l + 1 .. n
  BY <1>1 DEF Awaiting
<1>3. \A x \in l + 1 .. n : \E i \in 1 .. Len(t) : UrcAt(t, i) /\ t[i][2] = x
  <2> TAKE x \in l + 1 .. n
  <2>1. PICK i \in 1 .. Len(s) : UrcAt(s, i) /\ s[i][2] = x
    BY DEF Awaiting
  <2>2. i \in 1 .. Len(t) /\ UrcAt(t, i) /\ t[i][2] = x
    BY <1>1, <2>1
  <2> QED
    BY <2>2
<1>4. \A i, j \in 1 .. Len(t) : i < j /\ UrcAt(t, i) /\ UrcAt(t, j) => t[i][2] < t[j][2]
  <2> SUFFICES ASSUME NEW i \in 1 .. Len(t), NEW j \in 1 .. Len(t), i < j, UrcAt(t, i), UrcAt(t, j)
               PROVE  t[i][2] < t[j][2]
    OBVIOUS
  <2>1. i \in 1 .. Len(s) /\ UrcAt(s, i) /\ j \in 1 .. Len(s) /\ UrcAt(s, j)
    BY <1>1
  <2>2. s[i][2] < s[j][2]
    BY <2>1 DEF Awaiting
  <2> QED
    BY <1>1, <2>1, <2>2
<1> QED
  BY <1>2, <1>3, <1>4 DEF Awaiting

\* The modem says more to the command that runs.
LEMMA OwnAdded ==
    ASSUME NEW s \in Seq(Pieces), NEW k \in Kinds, NEW m \in Nat, NEW t, Added(t, s, k, m),
           NEW c, NEW p, NEW p2, ToCommand(s, c, p), k \in Urcs \/ (m = c /\ p # <<>>),
           p2 = <<>> \/ (p # <<>> /\ k \notin Results /\ \E x \in BOOLEAN : p2 = <<<<c, x>>>>)
    PROVE  ToCommand(t, c, p2)
<1> DEFINE n == Len(s)
<1>1. n \in Nat /\ Len(t) = n + 2
  BY LenProperties DEF Added
<1>2. /\ \A i \in 1 .. Len(t) : i \in 1 .. n \/ i = n + 1 \/ i = n + 2
      /\ \A i, j \in 1 .. Len(t) : i < j => i \in 1 .. n \/ i = n + 1
  BY <1>1
<1>3. /\ \A i \in 1 .. n : t[i] = s[i]
      /\ t[n + 1] = <<k, m, "head">> /\ t[n + 2] = <<k, m, "tail">>
  BY DEF Added
<1>4. t[n + 1][1] = k /\ t[n + 1][2] = m /\ t[n + 1][3] # "tail" /\ t[n + 2][1] = k /\ t[n + 2][2] = m
  BY <1>3
<1>5. \A i \in 1 .. Len(t) : (i \in 1 .. n /\ t[i] = s[i]) \/ (t[i][1] = k /\ t[i][2] = m)
  BY <1>2, <1>3, <1>4
<1>6. \A i, j \in 1 .. Len(t) : i < j => (i \in 1 .. n /\ t[i] = s[i]) \/ t[i][3] # "tail"
  BY <1>2, <1>3, <1>4
<1> HIDE DEF n
<1>7. \A i \in 1 .. Len(t) : IsUrc(t[i]) \/ t[i][2] = c
  <2> TAKE i \in 1 .. Len(t)
  <2>1. CASE i \in 1 .. n /\ t[i] = s[i]
    BY <2>1 DEF ToCommand, n
  <2>2. CASE t[i][1] = k /\ t[i][2] = m
    BY <2>2 DEF IsUrc
  <2> QED
    BY <1>5, <2>1, <2>2
<1>8. p # <<>> => \A i \in 1 .. n : s[i][1] \notin Results
  BY DEF ToCommand, n
<1>9. p2 = <<>> \/ ((\E x \in BOOLEAN : p2 = <<<<c, x>>>>) /\ \A i \in 1 .. Len(t) : t[i][1] \notin Results)
  BY <1>5, <1>8
<1>10. \A i, j \in 1 .. Len(t) : i < j /\ t[i][1] \in Results /\ t[i][3] = "tail" => IsUrc(t[j])
  <2> SUFFICES ASSUME NEW i \in 1 .. Len(t), NEW j \in 1 .. Len(t), i < j, t[i][1] \in Results, t[i][3] = "tail"
               PROVE  IsUrc(t[j])
    OBVIOUS
  <2>1. i \in 1 .. n /\ t[i] = s[i]
    BY <1>6
  <2>2. p = <<>>
    BY <1>8, <2>1
  <2>3. CASE j \in 1 .. n /\ t[j] = s[j]
    BY <2>1, <2>3 DEF ToCommand, n
  <2>4. CASE t[j][1] = k
    BY <2>2, <2>4 DEF IsUrc
  <2> QED
    BY <1>5, <2>3, <2>4
<1> QED
  BY <1>7, <1>9, <1>10 DEF ToCommand

\* What reaches the port follows what is in the buffer.
LEMMA PortAdded ==
    ASSUME NEW b \in Seq(Pieces), NEW q \in Seq(Pieces), NEW k \in Kinds, NEW m \in Nat
    PROVE  Added(b \o (q \o Line(k, m)), b \o q, k, m) /\ q \o Line(k, m) \in Seq(Pieces)
<1>1. Line(k, m) \in Seq(Pieces)
  BY DEF Line, Pieces
<1>2. b \o q \in Seq(Pieces)
  BY ConcatProperties
<1>3. (b \o q) \o Line(k, m) = b \o (q \o Line(k, m))
  BY <1>1, ConcatAssociative
<1>4. Added((b \o q) \o Line(k, m), b \o q, k, m) /\ Added(q \o Line(k, m), q, k, m)
  BY <1>2, LineAdded
<1> QED
  BY <1>3, <1>4 DEF Added

\* Nothing else is told to the engine.
LEMMA ModemTypes ==
    ASSUME Sound, UNCHANGED sdk, port' \in Seq(Pieces), pending' \in Seq(Nat \X BOOLEAN), sent' \in Nat, issued' = issued
    PROVE  Sound'
<1>1. /\ EngineTypes /\ RestTypes /\ Fits(stack, pins) /\ HarmIsKnown /\ FlagFollowsCommand
      /\ rx' = rx /\ under' = under /\ in_command' = in_command /\ stack' = stack /\ pins' = pins
      /\ handled' = handled /\ answers' = answers /\ rough' = rough
  BY DEF Sound, sdk
<1>2. EngineTypes'
  BY <1>1 DEF EngineTypes
<1>3. RestTypes'
  BY <1>1 DEF RestTypes
<1>4. Fits(stack', pins') /\ HarmIsKnown' /\ FlagFollowsCommand'
  BY <1>1 DEF HarmIsKnown, FlagFollowsCommand
<1> QED
  BY <1>2, <1>3, <1>4 DEF Sound

\* The modem writes a line to the port.
LEMMA LineKeeps ==
    ASSUME ATInv, NEW k \in Kinds, NEW m \in Nat, port' = port \o Line(k, m),
           UNCHANGED sdk, issued' = issued, pending' \in Seq(Nat \X BOOLEAN),
           IF k \in Urcs THEN m = sent + 1 /\ sent' = sent + 1 /\ pending' = pending
           ELSE /\ sent' = sent /\ pending # <<>> /\ m = pending[1][1]
                /\ \A c : (\E x \in BOOLEAN : pending = <<<<c, x>>>>)
                          => pending' = <<>> \/ (k \notin Results /\ \E x \in BOOLEAN : pending' = <<<<c, x>>>>)
    PROVE  ATInv'
<1>1. Sound /\ (rough \subseteq {"timeout"} => Straight) /\ AnswersAreOwn
  BY DEF ATInv
<1>2. rx \in Seq(Pieces) /\ port \in Seq(Pieces) /\ sent \in Nat /\ handled \in Seq(Nat)
  BY <1>1 DEF Sound, EngineTypes, RestTypes
<1>3. /\ rx' = rx /\ under' = under /\ in_command' = in_command /\ stack' = stack /\ pins' = pins
      /\ handled' = handled /\ answers' = answers /\ rough' = rough
  BY DEF sdk
<1> DEFINE s == rx \o port
           t == rx' \o port'
<1>4. Added(t, s, k, m) /\ port' \in Seq(Pieces) /\ s \in Seq(Pieces)
  BY <1>2, <1>3, PortAdded, ConcatProperties
<1> HIDE DEF s, t
<1>5. Sound'
  <2>1. sent' \in Nat
    BY <1>2
  <2> QED
    BY <1>1, <1>4, <2>1, ModemTypes
<1>6. AnswersAreOwn'
  BY <1>1, <1>3 DEF AnswersAreOwn
<1>7. ASSUME rough' \subseteq {"timeout"} PROVE Straight'
  <2>1. /\ Flat(s) /\ pins = 0 /\ ~ under /\ Single(stack)
        /\ Counted(handled, sent) /\ Awaiting(s, Len(handled), sent)
        /\ rough = {} => Own(s, stack, pending)
    BY <1>1, <1>3, <1>7 DEF Straight, s
  <2>2. Flat(t)
    BY <1>4, <2>1, FlatAdded
  <2>3. Len(handled) \in Nat /\ Len(handled) <= sent
    BY <1>2, <2>1, LenProperties DEF Counted
  <2>4. Counted(handled', sent') /\ Awaiting(t, Len(handled'), sent')
    <3>1. CASE k \in Urcs
      <4>1. Awaiting(t, Len(handled), sent + 1)
        BY <1>2, <1>4, <2>1, <2>3, <3>1, AwaitUrc
      <4>2. Len(handled) <= sent + 1
        BY <1>2, <2>3
      <4> QED
        BY <1>3, <2>1, <3>1, <4>1, <4>2 DEF Counted
    <3>2. CASE k \notin Urcs
      <4>1. Awaiting(t, Len(handled), sent)
        BY <1>4, <2>1, <3>2, AwaitOther
      <4> QED
        BY <1>3, <2>1, <3>2, <4>1
    <3> QED
      BY <3>1, <3>2
  <2>5. ASSUME rough = {} PROVE Own(t, stack, pending')
    <3>1. Own(s, stack, pending)
      BY <2>1, <2>5
    <3>2. CASE stack = <<>>
      <4>1. pending = <<>> /\ NoAnswers(s)
        BY <3>1, <3>2 DEF Own
      <4>2. k \in Urcs /\ pending' = <<>>
        BY <4>1
      <4>3. NoAnswers(t)
        <5> DEFINE n == Len(s)
        <5>1. n \in Nat /\ Len(t) = n + 2
          BY <1>4, LenProperties DEF Added
        <5>2. \A i \in 1 .. Len(t) : i \in 1 .. n \/ i = n + 1 \/ i = n + 2
          <6>1. \A x \in Nat : \A i \in 1 .. x + 2 : i \in 1 .. x \/ i = x + 1 \/ i = x + 2
            OBVIOUS
          <6> QED
            BY <5>1, <6>1
        <5>3. /\ \A i \in 1 .. n : t[i] = s[i]
              /\ t[n + 1] = <<k, m, "head">> /\ t[n + 2] = <<k, m, "tail">>
          BY <1>4 DEF Added
        <5>4. IsUrc(t[n + 1]) /\ IsUrc(t[n + 2])
          BY <4>2, <5>3 DEF IsUrc
        <5> QED
          BY <4>1, <5>2, <5>3, <5>4 DEF NoAnswers
      <4> QED
        BY <3>2, <4>2, <4>3 DEF Own
    <3>3. CASE stack # <<>>
      <4> DEFINE c == stack[1].c
      <4>1. ToCommand(s, c, pending)
        BY <3>1, <3>3 DEF Own
      <4> HIDE DEF c
      <4>2. pending = <<>> \/ \E x \in BOOLEAN : pending = <<<<c, x>>>>
        BY <4>1 DEF ToCommand
      <4>3. ToCommand(t, c, pending')
        <5>1. CASE k \in Urcs
          <6>1. k \notin Results
            BY <5>1 DEF Urcs, Results
          <6>2. pending' = <<>> \/ (pending # <<>> /\ k \notin Results /\ \E x \in BOOLEAN : pending' = <<<<c, x>>>>)
            BY <4>2, <5>1, <6>1
          <6> QED
            BY <1>4, <4>1, <5>1, <6>2, OwnAdded
        <5>2. CASE k \notin Urcs
          <6>1. PICK x \in BOOLEAN : pending = <<<<c, x>>>>
            BY <4>2, <5>2
          <6>2. m = c /\ pending # <<>>
            BY <5>2, <6>1
          <6>3. pending' = <<>> \/ (pending # <<>> /\ k \notin Results /\ \E y \in BOOLEAN : pending' = <<<<c, y>>>>)
            BY <5>2, <6>1
          <6> QED
            BY <1>4, <4>1, <6>2, <6>3, OwnAdded
        <5> QED
          BY <5>1, <5>2
      <4> QED
        BY <3>3, <4>3 DEF Own, c
    <3> QED
      BY <3>2, <3>3
  <2> QED
    BY <1>3, <2>1, <2>2, <2>4, <2>5 DEF Straight, t
<1> QED
  BY <1>5, <1>6, <1>7 DEF ATInv

\* Changing the second part of a pair.
LEMMA SecondOf ==
    ASSUME NEW c, NEW x, NEW y
    PROVE  [<<c, x>> EXCEPT ![2] = y] = <<c, y>>
<1> DEFINE f == [<<c, x>> EXCEPT ![2] = y]
           g == <<c, y>>
           S == {c, x, y}
<1>1. f \in Seq(S) /\ Len(f) = 2 /\ f[1] = c /\ f[2] = y
  <2>1. <<c, x>> \in Seq(S) /\ Len(<<c, x>>) = 2 /\ 2 \in 1 .. 2 /\ 1 \in 1 .. 2 /\ y \in S
    OBVIOUS
  <2> HIDE DEF S
  <2> QED
    BY <2>1, ExceptSeq
<1>2. g \in Seq(S) /\ Len(g) = 2 /\ g[1] = c /\ g[2] = y
  OBVIOUS
<1> HIDE DEF f, g, S
<1>3. \A i \in 1 .. 2 : f[i] = g[i]
  <2>1. \A i \in 1 .. 2 : i = 1 \/ i = 2
    OBVIOUS
  <2> QED
    BY <1>1, <1>2, <2>1
<1>4. f = g
  BY <1>1, <1>2, <1>3, SeqEqual
<1> QED
  BY <1>4 DEF f, g

\* Changing the only element of a sequence.
LEMMA OnlyOf ==
    ASSUME NEW p, NEW c, NEW x, p = <<<<c, x>>>>, NEW e
    PROVE  [p EXCEPT ![1] = e] = <<e>>
<1> DEFINE f == [p EXCEPT ![1] = e]
           S == {<<c, x>>, e}
<1>1. f \in Seq(S) /\ Len(f) = 1 /\ f[1] = e
  <2>1. p \in Seq(S) /\ Len(p) = 1 /\ 1 \in 1 .. 1 /\ e \in S
    OBVIOUS
  <2> HIDE DEF S
  <2> QED
    BY <2>1, ExceptSeq
<1>2. <<e>> \in Seq(S) /\ Len(<<e>>) = 1
  OBVIOUS
<1> HIDE DEF f, S
<1>3. \A i \in 1 .. 1 : f[i] = <<e>>[i]
  BY <1>1
<1>4. f = <<e>>
  BY <1>1, <1>2, <1>3, SeqEqual
<1> QED
  BY <1>4 DEF f

\* A URC.
LEMMA ModemUrcKeeps ==
    ASSUME ATInv, ModemUrc
    PROVE  ATInv'
<1>1. PICK k \in Urcs : port' = port \o Line(k, sent + 1)
  BY DEF ModemUrc, Urcs
<1>2. pending \in Seq(Nat \X BOOLEAN) /\ sent + 1 \in Nat /\ k \in Kinds
  BY DEF ATInv, Sound, EngineTypes, RestTypes, Kinds
<1>3. UNCHANGED sdk /\ issued' = issued /\ pending' = pending /\ sent' = sent + 1
  BY DEF ModemUrc
<1> QED
  BY <1>1, <1>2, <1>3, LineKeeps

\* A line of an answer.
LEMMA ModemInfoKeeps ==
    ASSUME ATInv, ModemInfo
    PROVE  ATInv'
<1>1. /\ pending # <<>> /\ port' = port \o Line("info", pending[1][1])
      /\ pending' = [pending EXCEPT ![1][2] = TRUE]
      /\ UNCHANGED sdk /\ sent' = sent /\ issued' = issued
  BY DEF ModemInfo
<1>2. pending \in Seq(Nat \X BOOLEAN) /\ "info" \in Kinds /\ "info" \notin Urcs /\ "info" \notin Results
  BY DEF ATInv, Sound, EngineTypes, Kinds, Urcs, Results
<1>3. Len(pending) \in Nat /\ 1 \in 1 .. Len(pending)
  BY <1>1, <1>2, LenProperties, EmptySeq
<1>4. pending[1] \in Nat \X BOOLEAN
  BY <1>2, <1>3, ElementOfSeq
<1>5. PICK c \in Nat, x \in BOOLEAN : pending[1] = <<c, x>>
  BY <1>4
<1> DEFINE e == <<c, TRUE>>
<1>6. pending' = [pending EXCEPT ![1] = e]
  <2>1. pending' = [pending EXCEPT ![1] = [pending[1] EXCEPT ![2] = TRUE]]
    BY <1>1
  <2>2. [pending[1] EXCEPT ![2] = TRUE] = e
    <3>1. [<<c, x>> EXCEPT ![2] = TRUE] = <<c, TRUE>>
      BY SecondOf, Zenon
    <3> QED
      BY <1>5, <3>1, Zenon
  <2> HIDE DEF e
  <2> QED
    BY <2>1, <2>2
<1>7. pending' \in Seq(Nat \X BOOLEAN)
  <2>1. e \in Nat \X BOOLEAN
    OBVIOUS
  <2> HIDE DEF e
  <2> QED
    BY <1>2, <1>3, <1>6, <2>1, ExceptSeq
<1>8. \A d : (\E y \in BOOLEAN : pending = <<<<d, y>>>>) => \E y \in BOOLEAN : pending' = <<<<d, y>>>>
  <2> SUFFICES ASSUME NEW d, NEW y \in BOOLEAN, pending = <<<<d, y>>>> PROVE pending' = <<<<d, TRUE>>>>
    OBVIOUS
  <2>1. d = c
    BY <1>5
  <2>2. pending' = <<e>>
    <3> HIDE DEF e
    <3> QED
      BY <1>6, OnlyOf
  <2> QED
    BY <2>1, <2>2
<1>9. pending[1][1] \in Nat
  BY <1>4
<1> QED
  BY <1>1, <1>2, <1>7, <1>8, <1>9, LineKeeps

\* The result of a command.
LEMMA ModemResultKeeps ==
    ASSUME ATInv, ModemResult
    PROVE  ATInv'
<1>1. pending # <<>> /\ pending' = Tail(pending) /\ UNCHANGED sdk /\ sent' = sent /\ issued' = issued
  BY DEF ModemResult
<1>2. PICK k \in Results : port' = port \o Line(k, pending[1][1])
  BY DEF ModemResult, Results
<1>3. pending \in Seq(Nat \X BOOLEAN) /\ k \in Kinds /\ k \notin Urcs
  BY DEF ATInv, Sound, EngineTypes, Kinds, Urcs, Results
<1>4. Len(pending) \in Nat /\ 1 \in 1 .. Len(pending)
  BY <1>1, <1>3, LenProperties, EmptySeq
<1>5. pending[1] \in Nat \X BOOLEAN
  BY <1>3, <1>4, ElementOfSeq
<1>6. pending[1][1] \in Nat
  BY <1>5
<1>7. pending' \in Seq(Nat \X BOOLEAN)
  BY <1>1, <1>3, HeadTailProperties
<1>8. \A c : (\E x \in BOOLEAN : pending = <<<<c, x>>>>) => pending' = <<>>
  BY <1>1
<1> QED
  BY <1>1, <1>2, <1>3, <1>6, <1>7, <1>8, LineKeeps

-----------------------------------------------------------------------------
(* The engine.                                                             *)

\* The engine begins with the invariant.
LEMMA ATInitially == ATInit => ATInv
<1> SUFFICES ASSUME ATInit PROVE ATInv
  OBVIOUS
<1>1. /\ rx = <<>> /\ under = FALSE /\ in_command = FALSE /\ stack = <<>> /\ pins = 0
      /\ port = <<>> /\ pending = <<>> /\ issued = 0 /\ sent = 0
      /\ handled = <<>> /\ answers = [c \in 1 .. MaxCommands + 1 |-> "none"] /\ rough = {}
  BY DEF ATInit
<1>2. EngineTypes
  <2>1. Len(rx) = 0 /\ 0 <= RX_SIZE
    BY <1>1, ATAssumption
  <2>2. Len(rx) <= RX_SIZE
    BY <2>1
  <2>3. rx \in Seq(Pieces) /\ handled \in Seq(Nat) /\ pending \in Seq(Nat \X BOOLEAN) /\ stack \in Seq(Frames)
    BY <1>1
  <2>4. \A c \in DOMAIN answers : answers[c] \in Outcomes
    BY <1>1 DEF Outcomes
  <2>5. in_command \in BOOLEAN /\ pins \in Nat /\ rough \subseteq Roughness
    BY <1>1
  <2> QED
    BY <2>2, <2>3, <2>4, <2>5 DEF EngineTypes
<1>3. RestTypes /\ Fits(stack, pins) /\ HarmIsKnown /\ FlagFollowsCommand
  <2>1. RestTypes
    <3>1. under \in BOOLEAN /\ issued \in Nat /\ sent \in Nat
      BY <1>1
    <3>2. port \in Seq(Pieces)
      BY <1>1
    <3> QED
      BY <3>1, <3>2 DEF RestTypes
  <2>2. Fits(<<>>, 0)
    BY DEF Fits
  <2>3. HarmIsKnown /\ FlagFollowsCommand
    BY <1>1 DEF HarmIsKnown, FlagFollowsCommand
  <2> QED
    BY <1>1, <2>1, <2>2, <2>3
<1>4. Straight
  <2>1. rx \o port = <<>> /\ Len(<<>>) = 0 /\ Len(handled) = 0
    BY <1>1
  <2>2. Flat(<<>>) /\ NoAnswers(<<>>)
    BY <2>1 DEF Flat, NoAnswers
  <2>3. Awaiting(<<>>, 0, 0)
    BY <2>1 DEF Awaiting
  <2>4. Counted(<<>>, 0)
    BY DEF Counted
  <2> QED
    BY <1>1, <2>1, <2>2, <2>3, <2>4 DEF Straight, Single, Own
<1>5. AnswersAreOwn
  BY <1>1 DEF AnswersAreOwn
<1> QED
  BY <1>2, <1>3, <1>4, <1>5 DEF ATInv, Sound

\* Every step of the engine keeps it.
LEMMA ATSteps == ATInv /\ [ATNext]_atVars => ATInv'
<1> SUFFICES ASSUME ATInv, [ATNext]_atVars PROVE ATInv'
  OBVIOUS
<1>1. RX_SIZE \in Nat
  BY ATAssumption
<1>2. CASE DoCommand
  BY <1>1, <1>2, DoCommandKeeps
<1>3. CASE Receive
  BY <1>1, <1>3, ReceiveKeeps
<1>4. CASE Resume
  BY <1>1, <1>4, ResumeKeeps
<1>5. CASE Timeout
  BY <1>5, TimeoutKeeps
<1>6. CASE HandleRxOnTimer
  BY <1>1, <1>6, TimerKeeps
<1>7. CASE ModemUrc
  BY <1>7, ModemUrcKeeps
<1>8. CASE ModemInfo
  BY <1>8, ModemInfoKeeps
<1>9. CASE ModemResult
  BY <1>9, ModemResultKeeps
<1>10. CASE UNCHANGED atVars
  <2>1. /\ rx' = rx /\ under' = under /\ in_command' = in_command /\ stack' = stack /\ pins' = pins
        /\ handled' = handled /\ answers' = answers /\ rough' = rough
        /\ port' = port /\ pending' = pending /\ issued' = issued /\ sent' = sent
    BY <1>10 DEF atVars, sdk
  <2>2. Sound'
    BY <2>1 DEF ATInv, Sound, EngineTypes, RestTypes, HarmIsKnown, FlagFollowsCommand
  <2>3. (rough \subseteq {"timeout"} => Straight)'
    BY <2>1 DEF ATInv, Straight
  <2>4. AnswersAreOwn'
    BY <2>1 DEF ATInv, AnswersAreOwn
  <2> QED
    BY <2>2, <2>3, <2>4 DEF ATInv
<1> QED
  BY <1>2, <1>3, <1>4, <1>5, <1>6, <1>7, <1>8, <1>9, <1>10 DEF ATNext

(***************************************************************************)
(* The invariant of the AT command engine: what is in the buffer and on    *)
(* the line are whole lines, of which the URCs are those that were sent    *)
(* and not handled, in order, and the others answer the command that runs, *)
(* as long as nothing garbled the line (OwlModem).                         *)
(***************************************************************************)
THEOREM EngineInvariant == ATSpec => []ATInv
<1>1. ATInit => ATInv
  BY ATInitially
<1>2. ATInv /\ [ATNext]_atVars => ATInv'
  BY ATSteps
<1> QED
  BY <1>1, <1>2, PTL DEF ATSpec

(***************************************************************************)
(* URCs reach their handlers once and in order, whatever part of a line is *)
(* read at a time, whatever command they interrupt and whether or not it   *)
(* times out, and in_command stands for a command that runs.               *)
(* consumeUnsolicited, consumeUnsolicitedInCommandResponse, doCommand.     *)
(***************************************************************************)
THEOREM LinesAreConsistent == ATSpec => []LinesConsistent
<1>1. ATInv => LinesConsistent
  <2> SUFFICES ASSUME ATInv PROVE LinesConsistent
    OBVIOUS
  <2>1. EngineTypes /\ Fits(stack, pins) /\ HarmIsKnown /\ FlagFollowsCommand
    BY DEF ATInv, Sound
  <2>2. ATTypeOK
    BY <2>1 DEF ATTypeOK, EngineTypes, Fits, HarmIsKnown, Outcomes, Roughness
  <2>3. UrcsInOrder
    BY DEF ATInv, Straight, Counted, UrcsInOrder
  <2> QED
    BY <2>1, <2>2, <2>3 DEF LinesConsistent
<1> QED
  BY <1>1, EngineInvariant, PTL

(***************************************************************************)
(* A command gets the result that the modem gave to it, and no other lines *)
(* than its own as its response, as long as no command timed out and       *)
(* nothing garbled the line.  doCommand, extractResult.                    *)
(***************************************************************************)
THEOREM AnswersAreTheirs == ATSpec => []AnswersAreOwn
<1>1. ATInv => AnswersAreOwn
  BY DEF ATInv
<1> QED
  BY <1>1, EngineInvariant, PTL

=============================================================================
