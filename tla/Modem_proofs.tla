--------------------------- MODULE Modem_proofs ---------------------------
(***************************************************************************)
(* Proofs about the bring-up of the modem, for all domains, statuses,      *)
(* numbers of attempts, faults and changes of the registration; and about  *)
(* its sockets, for all numbers of them, calls of the application and      *)
(* faults.                                                                 *)
(***************************************************************************)
EXTENDS ModemBringUp, ModemSocket,
        FiniteSetTheorems, SequenceTheorems, WellFoundedInduction, TLAPS

-----------------------------------------------------------------------------
(* Lines.                                                                  *)

\* What the modem may have told of a registration: a URC, or an answer with its n.
Reports == [domain : Domains,
         tokens : {StatusTokens(stat) : stat \in Statuses}
                  \cup {<<Plain(n)>> \o StatusTokens(stat) : n \in {0, 2}, stat \in Statuses}]

\* That, or the result of a command.
Said == Reports \cup {ResultCode(TRUE), ResultCode(FALSE)}

LEMMA ReportOrResult ==
    /\ \A e \in Said : e \in Reports <=> e.domain \in Domains
    /\ \A e \in Said : e \in Reports <=> e.domain # "result"
<1>1. \A e \in Reports : e.domain \in Domains
  BY DEF Reports
<1>2. "result" \notin Domains
  BY BringUpAssumption
<1>3. \A e \in {ResultCode(TRUE), ResultCode(FALSE)} : e.domain = "result"
  BY DEF ResultCode
<1> QED
  BY <1>1, <1>2, <1>3 DEF Said

\* A set of numbers has a least one.
LEMMA Least ==
    ASSUME NEW S \in SUBSET Nat, S # {}
    PROVE  \E m \in S : \A n \in S : m <= n
<1> DEFINE R == OpToRel(<, Nat)
<1>1. IsWellFoundedOn(R, Nat)
  BY NatLessThanWellFounded
<1>2. \A x, y \in Nat : <<y, x>> \in R <=> y < x
  BY DEF OpToRel
<1> HIDE DEF R
<1>3. PICK m \in S : \A y \in S : ~ (<<y, m>> \in R)
  BY <1>1, WFMin
<1>4. ASSUME NEW n \in S PROVE m <= n
  <2>1. m \in Nat /\ n \in Nat
    OBVIOUS
  <2>2. ~ (n < m)
    BY <1>2, <1>3, <2>1, Zenon
  <2> QED
    BY <2>1, <2>2
<1> QED
  BY <1>4

\* A set of positions has a last one, which Max picks.
LEMMA Greatest ==
    ASSUME NEW k \in Nat, NEW I \in SUBSET (1 .. k), I # {}
    PROVE  Max(I) \in I /\ \A i \in I : i <= Max(I)
<1> DEFINE S == {k - i : i \in I}
<1>1. S \in SUBSET Nat /\ S # {}
  <2>1. \A i \in I : k - i \in Nat
    OBVIOUS
  <2>2. PICK i \in I : TRUE
    OBVIOUS
  <2>3. k - i \in S
    OBVIOUS
  <2> QED
    BY <2>1, <2>3
<1>2. PICK m \in S : \A n \in S : m <= n
  <2> HIDE DEF S
  <2> QED
    BY <1>1, Least
<1>3. PICK x \in I : m = k - x
  OBVIOUS
<1>4. ASSUME NEW i \in I PROVE x >= i
  <2>1. m <= k - i
    BY <1>2
  <2> QED
    BY <1>3, <2>1
<1>5. Max(I) \in I /\ \A i \in I : Max(I) >= i
  BY <1>4 DEF Max
<1> QED
  BY <1>5

\* Does a queue speak of the domain?
Speaks(s, d) == \E i \in DOMAIN s : s[i].domain = d

\* LastOf is a line of the domain, and none comes after it.
LEMMA LastLine ==
    ASSUME NEW s \in Seq(Said), NEW d, Speaks(s, d)
    PROVE  \E i \in DOMAIN s : /\ LastOf(s, d) = s[i] /\ s[i].domain = d
                               /\ \A j \in DOMAIN s : s[j].domain = d => j <= i
<1> DEFINE I == {i \in 1 .. Len(s) : s[i].domain = d}
<1>1. Len(s) \in Nat /\ DOMAIN s = 1 .. Len(s)
  BY LenProperties
<1>2. I \in SUBSET (1 .. Len(s)) /\ I # {}
  BY <1>1 DEF Speaks
<1>3. LastOf(s, d) = s[Max(I)]
  BY <1>2 DEF LastOf, SelectLastInSeq
<1>4. Max(I) \in I /\ \A i \in I : i <= Max(I)
  <2> HIDE DEF I
  <2> QED
    BY <1>1, <1>2, Greatest
<1> QED
  BY <1>1, <1>3, <1>4

\* A line that is appended is the last of its domain, and does not concern others.
LEMMA LastAppended ==
    ASSUME NEW s \in Seq(Said), NEW e \in Said, NEW d
    PROVE  LET t == Append(s, e) IN
           /\ t \in Seq(Said)
           /\ e.domain = d => Speaks(t, d) /\ LastOf(t, d) = e
           /\ e.domain # d => /\ Speaks(t, d) <=> Speaks(s, d)
                              /\ Speaks(s, d) => LastOf(t, d) = LastOf(s, d)
<1> DEFINE t == Append(s, e)
           n == Len(s)
<1>1. n \in Nat /\ DOMAIN s = 1 .. n
  BY LenProperties
<1>2. /\ t \in Seq(Said) /\ Len(t) = n + 1 /\ DOMAIN t = 1 .. (n + 1)
      /\ t[n + 1] = e /\ \A i \in 1 .. n : t[i] = s[i]
  BY <1>1, AppendProperties, LenProperties
<1> HIDE DEF t, n
<1>3. ASSUME e.domain = d PROVE Speaks(t, d) /\ LastOf(t, d) = e
  <2>1. n + 1 \in DOMAIN t /\ t[n + 1].domain = d
    BY <1>1, <1>2, <1>3
  <2>2. Speaks(t, d)
    BY <2>1 DEF Speaks
  <2>3. PICK i \in DOMAIN t : /\ LastOf(t, d) = t[i] /\ t[i].domain = d
                              /\ \A j \in DOMAIN t : t[j].domain = d => j <= i
    BY <1>2, <2>2, LastLine
  <2>4. i = n + 1
    BY <1>1, <1>2, <2>1, <2>3
  <2> QED
    BY <1>2, <2>2, <2>3, <2>4
<1>4. ASSUME e.domain # d
      PROVE  /\ Speaks(t, d) <=> Speaks(s, d)
             /\ Speaks(s, d) => LastOf(t, d) = LastOf(s, d)
  <2>1. \A i \in DOMAIN t : t[i].domain = d => i \in DOMAIN s /\ t[i] = s[i]
    BY <1>1, <1>2, <1>4
  <2>2. \A i \in DOMAIN s : i \in DOMAIN t /\ t[i] = s[i]
    BY <1>1, <1>2
  <2>3. Speaks(t, d) <=> Speaks(s, d)
    BY <2>1, <2>2 DEF Speaks
  <2>4. ASSUME Speaks(s, d) PROVE LastOf(t, d) = LastOf(s, d)
    <3>1. PICK i \in DOMAIN t : /\ LastOf(t, d) = t[i] /\ t[i].domain = d
                                /\ \A j \in DOMAIN t : t[j].domain = d => j <= i
      BY <1>2, <2>3, <2>4, LastLine
    <3>2. PICK j \in DOMAIN s : /\ LastOf(s, d) = s[j] /\ s[j].domain = d
                                /\ \A h \in DOMAIN s : s[h].domain = d => h <= j
      BY <2>4, LastLine
    <3>3. i \in DOMAIN s /\ t[i] = s[i] /\ j \in DOMAIN t /\ t[j] = s[j]
      BY <2>1, <2>2, <3>1, <3>2
    <3>4. i <= j /\ j <= i
      BY <3>1, <3>2, <3>3
    <3>5. i = j
      BY <1>1, <3>3, <3>4
    <3> QED
      BY <3>1, <3>2, <3>3, <3>5
  <2> QED
    BY <2>3, <2>4
<1> QED
  BY <1>2, <1>3, <1>4 DEF t

\* A URC without a location is read as n without a status.
LEMMA ParsedUrc ==
    ASSUME NEW stat \in Statuses
    PROVE  Parse(StatusTokens(stat)) =
             IF Registered(stat) THEN [n |-> 0, stat |-> stat] ELSE [n |-> stat, stat |-> 0]
<1> DEFINE t == StatusTokens(stat)
<1>1. CASE Registered(stat)
  <2>1. t = <<Plain(stat), Location>>
    BY <1>1 DEF StatusTokens
  <2>2. t[1].value = stat /\ t[2].quoted /\ Len(t) = 2
    BY <2>1 DEF Location, Plain
  <2> HIDE DEF t
  <2>3. ~ HasN(t)
    BY <2>2 DEF HasN
  <2>4. Parse(t) = [n |-> 0, stat |-> stat]
    BY <2>2, <2>3 DEF Parse
  <2> QED
    BY <1>1, <2>4 DEF t
<1>2. CASE ~ Registered(stat)
  <2>1. t = <<Plain(stat)>>
    BY <1>2 DEF StatusTokens
  <2>2. t[1].value = stat /\ Len(t) = 1
    BY <2>1 DEF Plain
  <2> HIDE DEF t
  <2>3. HasN(t)
    BY <2>2 DEF HasN
  <2>4. Parse(t) = [n |-> stat, stat |-> 0]
    BY <2>2, <2>3 DEF Parse
  <2> QED
    BY <1>2, <2>4 DEF t
<1> QED
  BY <1>1, <1>2

\* An answer is read right, whatever it says.
LEMMA ParsedResponse ==
    ASSUME NEW n, NEW stat \in Statuses
    PROVE  Parse(<<Plain(n)>> \o StatusTokens(stat)) = [n |-> n, stat |-> stat]
<1> DEFINE t == <<Plain(n)>> \o StatusTokens(stat)
<1>1. t[1] = Plain(n) /\ t[2] = Plain(stat) /\ Len(t) \in {2, 3}
  <2>1. CASE Registered(stat)
    <3>1. t = <<Plain(n)>> \o <<Plain(stat), Location>>
      BY <2>1 DEF StatusTokens
    <3> QED
      BY <3>1
  <2>2. CASE ~ Registered(stat)
    <3>1. t = <<Plain(n)>> \o <<Plain(stat)>>
      BY <2>2 DEF StatusTokens
    <3> QED
      BY <3>1
  <2> QED
    BY <2>1, <2>2
<1>2. t[1].value = n /\ t[2].value = stat /\ t[2].quoted = FALSE
  BY <1>1 DEF Plain
<1> HIDE DEF t
<1>3. HasN(t)
  BY <1>2 DEF HasN
<1>4. Parse(t) = [n |-> n, stat |-> stat]
  BY <1>1, <1>2, <1>3 DEF Parse
<1> QED
  BY <1>4 DEF t

\* What may be kept of a line.
Kept == [n : {0, 1, 2, 3, 5}, stat : Statuses \cup {0}]

LEMMA ParsedKept ==
    ASSUME NEW l \in Reports
    PROVE  Parse(l.tokens) \in Kept
<1>1. ASSUME NEW stat \in Statuses, l.tokens = StatusTokens(stat) PROVE Parse(l.tokens) \in Kept
  BY <1>1, ParsedUrc, BringUpAssumption DEF Kept
<1>2. ASSUME NEW stat \in Statuses, NEW n \in {0, 2}, l.tokens = <<Plain(n)>> \o StatusTokens(stat)
      PROVE  Parse(l.tokens) \in Kept
  <2>1. Parse(l.tokens) = [n |-> n, stat |-> stat]
    BY <1>2, ParsedResponse
  <2> QED
    BY <2>1 DEF Kept
<1>3. l.tokens \in {StatusTokens(stat) : stat \in Statuses}
                   \cup {<<Plain(n)>> \o StatusTokens(stat) : n \in {0, 2}, stat \in Statuses}
  BY DEF Reports
<1> QED
  BY <1>1, <1>2, <1>3

-----------------------------------------------------------------------------
(* Plans.                                                                  *)

Names == {"ATV1", "ATQ0", "ATE0", "AT+CMEE=2", "ATS3=13", "ATS4=10", "AT+UMNOPROF?", "AT+CFUN=0",
          "AT+UMNOPROF=", "AT+URAT=8", "AT+UBANDMASK", "AT+CFUN=15", "wait", "AT+CSCS", "AT+UGPIOC",
          "AT+CREG=2", "AT+CGREG=2", "AT+CEREG=2", "AT+CPIN?", "AT+UDCONF", "AT+CGMM"}

Item == [command : Names, needed : BOOLEAN]

\* No command of p is c.
Without(p, c) == \A i \in DOMAIN p : p[i].command # c

\* p has the needed command c.
Orders(p, c) == \E i \in DOMAIN p : p[i] = Need(c)

\* p has it, and no reset after it.
Makes(p, c) ==
    \E i \in DOMAIN p : p[i] = Need(c) /\ \A j \in DOMAIN p : j > i => p[j].command # "AT+CFUN=15"

Necessary == {"ATQ0", "ATE0", "AT+CMEE=2"}

\* When p has been carried out on a modem m, or was given up, m has all it needs.
PlanRight(p, m) ==
    /\ \A c \in Necessary :
          \/ c \in m.settings /\ Without(p, "AT+CFUN=15")
          \/ Makes(p, c)
    /\ \A i \in DOMAIN p : p[i].command = "AT+UMNOPROF?" => i = Len(p)
    /\ \/ m.profile = Expected
       \/ Orders(p, "AT+UMNOPROF=")
       \/ \E i \in DOMAIN p : p[i].command = "AT+UMNOPROF?"

LEMMA Commands ==
    \A c \in Names : Need(c) \in Item /\ Warn(c) \in Item
BY DEF Need, Warn, Item

LEMMA WithoutBoth ==
    ASSUME NEW s \in Seq(Item), NEW t \in Seq(Item), NEW c,
           Without(s, c), Without(t, c)
    PROVE  Without(s \o t, c)
<1>1. \A i \in 1 .. Len(s) + Len(t) :
        (s \o t)[i] = IF i <= Len(s) THEN s[i] ELSE t[i - Len(s)]
  BY ConcatProperties
<1>2. /\ s \o t \in Seq(Item) /\ DOMAIN (s \o t) = 1 .. Len(s) + Len(t)
      /\ DOMAIN s = 1 .. Len(s) /\ DOMAIN t = 1 .. Len(t) /\ Len(s) \in Nat /\ Len(t) \in Nat
  BY ConcatProperties, LenProperties
<1>3. ASSUME NEW i \in DOMAIN (s \o t) PROVE (s \o t)[i].command # c
  <2>1. CASE i <= Len(s)
    BY <1>1, <1>2, <2>1 DEF Without
  <2>2. CASE ~ i <= Len(s)
    <3>1. i - Len(s) \in DOMAIN t
      BY <1>2, <2>2
    <3> QED
      BY <1>1, <1>2, <2>2, <3>1 DEF Without
  <2> QED
    BY <2>1, <2>2
<1> QED
  BY <1>3 DEF Without

\* What is made before other commands, without a reset among them, is made.
LEMMA MadeBefore ==
    ASSUME NEW s \in Seq(Item), NEW t \in Seq(Item), NEW c,
           Makes(s, c), Without(t, "AT+CFUN=15")
    PROVE  Makes(s \o t, c)
<1>1. \A i \in 1 .. Len(s) + Len(t) :
        (s \o t)[i] = IF i <= Len(s) THEN s[i] ELSE t[i - Len(s)]
  BY ConcatProperties
<1>2. /\ s \o t \in Seq(Item) /\ DOMAIN (s \o t) = 1 .. Len(s) + Len(t)
      /\ DOMAIN s = 1 .. Len(s) /\ DOMAIN t = 1 .. Len(t) /\ Len(s) \in Nat /\ Len(t) \in Nat
  BY ConcatProperties, LenProperties
<1>3. PICK i \in DOMAIN s : s[i] = Need(c) /\ \A j \in DOMAIN s : j > i => s[j].command # "AT+CFUN=15"
  BY DEF Makes
<1>4. i \in DOMAIN (s \o t) /\ (s \o t)[i] = Need(c)
  BY <1>1, <1>2, <1>3
<1>5. ASSUME NEW j \in DOMAIN (s \o t), j > i PROVE (s \o t)[j].command # "AT+CFUN=15"
  <2>1. CASE j <= Len(s)
    BY <1>1, <1>2, <1>3, <1>5, <2>1
  <2>2. CASE ~ j <= Len(s)
    <3>1. j - Len(s) \in DOMAIN t
      BY <1>2, <2>2
    <3> QED
      BY <1>1, <1>2, <2>2, <3>1 DEF Without
  <2> QED
    BY <2>1, <2>2
<1> QED
  BY <1>4, <1>5 DEF Makes

\* What is made after other commands is made.
LEMMA MadeAfter ==
    ASSUME NEW s \in Seq(Item), NEW t \in Seq(Item), NEW c, Makes(t, c)
    PROVE  Makes(s \o t, c)
<1>1. \A i \in 1 .. Len(s) + Len(t) :
        (s \o t)[i] = IF i <= Len(s) THEN s[i] ELSE t[i - Len(s)]
  BY ConcatProperties
<1>2. /\ s \o t \in Seq(Item) /\ DOMAIN (s \o t) = 1 .. Len(s) + Len(t)
      /\ DOMAIN s = 1 .. Len(s) /\ DOMAIN t = 1 .. Len(t) /\ Len(s) \in Nat /\ Len(t) \in Nat
  BY ConcatProperties, LenProperties
<1>3. PICK i \in DOMAIN t : t[i] = Need(c) /\ \A j \in DOMAIN t : j > i => t[j].command # "AT+CFUN=15"
  BY DEF Makes
<1>4. PICK k \in Nat : k = Len(s) + i
  BY <1>2
<1>5. k \in DOMAIN (s \o t) /\ ~ k <= Len(s) /\ k - Len(s) = i
  BY <1>2, <1>4
<1>6. (s \o t)[k] = Need(c)
  BY <1>1, <1>2, <1>3, <1>5
<1>7. ASSUME NEW j \in DOMAIN (s \o t), j > k PROVE (s \o t)[j].command # "AT+CFUN=15"
  <2>1. j - Len(s) \in DOMAIN t /\ j - Len(s) > i /\ ~ j <= Len(s)
    BY <1>2, <1>4, <1>7
  <2> QED
    BY <1>1, <1>2, <1>3, <2>1
<1> QED
  BY <1>5, <1>6, <1>7 DEF Makes

LEMMA OrderedByEither ==
    ASSUME NEW s \in Seq(Item), NEW t \in Seq(Item), NEW c,
           Orders(s, c) \/ Orders(t, c)
    PROVE  Orders(s \o t, c)
<1>1. \A i \in 1 .. Len(s) + Len(t) :
        (s \o t)[i] = IF i <= Len(s) THEN s[i] ELSE t[i - Len(s)]
  BY ConcatProperties
<1>2. /\ s \o t \in Seq(Item) /\ DOMAIN (s \o t) = 1 .. Len(s) + Len(t)
      /\ DOMAIN s = 1 .. Len(s) /\ DOMAIN t = 1 .. Len(t) /\ Len(s) \in Nat /\ Len(t) \in Nat
  BY ConcatProperties, LenProperties
<1>3. CASE Orders(s, c)
  BY <1>1, <1>2, <1>3 DEF Orders
<1>4. CASE Orders(t, c)
  <2>1. PICK i \in DOMAIN t : t[i] = Need(c)
    BY <1>4 DEF Orders
  <2>2. PICK k \in Nat : k = Len(s) + i
    BY <1>2
  <2>3. k \in DOMAIN (s \o t) /\ ~ k <= Len(s) /\ k - Len(s) = i
    BY <1>2, <2>2
  <2> QED
    BY <1>1, <1>2, <2>1, <2>3 DEF Orders
<1> QED
  BY <1>3, <1>4

\* The basic settings: all that is necessary, and no reset.
LEMMA BasicMakes ==
    /\ Basic \in Seq(Item) /\ Len(Basic) = 6
    /\ Without(Basic, "AT+CFUN=15") /\ Without(Basic, "AT+UMNOPROF?")
    /\ \A c \in Necessary : Makes(Basic, c)
<1> DEFINE b == Basic
<1>1. b \in Seq(Item) /\ Len(b) = 6 /\ DOMAIN b = 1 .. 6
  <2>1. b \in Seq(Item)
    BY Commands DEF Names, Basic
  <2>2. Len(b) = 6
    BY DEF Basic
  <2> QED
    BY <2>1, <2>2, LenProperties
<1>2. /\ b[1] = Warn("ATV1") /\ b[2] = Need("ATQ0") /\ b[3] = Need("ATE0")
      /\ b[4] = Need("AT+CMEE=2") /\ b[5] = Warn("ATS3=13") /\ b[6] = Warn("ATS4=10")
  BY DEF Basic
<1> HIDE DEF b
<1>3. \A i \in 1 .. 6 : i = 1 \/ i = 2 \/ i = 3 \/ i = 4 \/ i = 5 \/ i = 6
  OBVIOUS
<1>4. \A i \in 1 .. 6 : b[i].command # "AT+CFUN=15" /\ b[i].command # "AT+UMNOPROF?"
  BY <1>2, <1>3 DEF Need, Warn
<1>5. \A c \in Necessary : \E i \in 1 .. 6 : b[i] = Need(c)
  BY <1>2 DEF Necessary
<1> QED
  BY <1>1, <1>4, <1>5 DEF Without, Makes, b

\* The rest of the script makes no reset.
LEMMA RestMakes ==
    /\ Rest \in Seq(Item) /\ Len(Rest) = 8
    /\ Without(Rest, "AT+CFUN=15") /\ Without(Rest, "AT+UMNOPROF?")
<1> DEFINE b == Rest
<1>1. b \in Seq(Item) /\ Len(b) = 8 /\ DOMAIN b = 1 .. 8
  <2>1. b \in Seq(Item)
    BY Commands DEF Names, Rest
  <2>2. Len(b) = 8
    BY DEF Rest
  <2> QED
    BY <2>1, <2>2, LenProperties
<1>2. /\ b[1] = Warn("AT+CSCS") /\ b[2] = Warn("AT+UGPIOC") /\ b[3] = Warn("AT+CREG=2")
      /\ b[4] = Warn("AT+CGREG=2") /\ b[5] = Warn("AT+CEREG=2") /\ b[6] = Warn("AT+CPIN?")
      /\ b[7] = Warn("AT+UDCONF") /\ b[8] = Warn("AT+CGMM")
  BY DEF Rest
<1> HIDE DEF b
<1>3. \A i \in 1 .. 8 : i = 1 \/ i = 2 \/ i = 3 \/ i = 4 \/ i = 5 \/ i = 6 \/ i = 7 \/ i = 8
  OBVIOUS
<1>4. \A i \in 1 .. 8 : b[i].command # "AT+CFUN=15" /\ b[i].command # "AT+UMNOPROF?"
  BY <1>2, <1>3 DEF Warn
<1> QED
  BY <1>1, <1>4 DEF Without, b

\* The script that powerOn leaves to initModem is right for every modem.
LEMMA StartRight ==
    ASSUME NEW m
    PROVE  LET p == Basic \o <<Need("AT+UMNOPROF?")>> IN
           p \in Seq(Item) /\ p # <<>> /\ PlanRight(p, m)
<1> DEFINE q == <<Need("AT+UMNOPROF?")>>
           p == Basic \o q
<1>1. q \in Seq(Item) /\ Len(q) = 1 /\ q[1] = Need("AT+UMNOPROF?")
  BY Commands DEF Names
<1>2. Without(q, "AT+CFUN=15")
  BY <1>1, LenProperties DEF Need, Without
<1> HIDE DEF q
<1>3. /\ p \in Seq(Item) /\ Len(p) = 7 /\ DOMAIN p = 1 .. 7
      /\ \A i \in 1 .. 6 : p[i] = Basic[i]
      /\ p[7] = q[1]
  <2>1. Basic \in Seq(Item) /\ Len(Basic) = 6
    BY BasicMakes
  <2>2. /\ p \in Seq(Item) /\ Len(p) = Len(Basic) + Len(q)
        /\ \A i \in 1 .. Len(Basic) + Len(q) : p[i] = IF i <= Len(Basic) THEN Basic[i] ELSE q[i - Len(Basic)]
    BY <1>1, <2>1, ConcatProperties
  <2> HIDE DEF p
  <2>3. /\ p \in Seq(Item) /\ Len(p) = 7
        /\ \A i \in 1 .. 7 : p[i] = IF i <= 6 THEN Basic[i] ELSE q[i - 6]
    BY <1>1, <2>1, <2>2
  <2>4. DOMAIN p = 1 .. 7
    BY <2>3, LenProperties
  <2> QED
    BY <2>3, <2>4
<1>4. \A c \in Necessary : Makes(p, c)
  BY <1>1, <1>2, BasicMakes, MadeBefore
<1> HIDE DEF p
<1>5. \A i \in DOMAIN p : p[i].command = "AT+UMNOPROF?" => i = 7
  <2>1. \A i \in 1 .. 6 : Basic[i].command # "AT+UMNOPROF?"
    BY BasicMakes, LenProperties DEF Without
  <2>2. \A i \in 1 .. 7 : i \in 1 .. 6 \/ i = 7
    OBVIOUS
  <2> QED
    BY <1>3, <2>1, <2>2
<1>6. p[7].command = "AT+UMNOPROF?" /\ 7 \in DOMAIN p
  BY <1>1, <1>3 DEF Need
<1> QED
  <2>1. PlanRight(p, m)
    BY <1>3, <1>4, <1>5, <1>6 DEF PlanRight
  <2>2. p \in Seq(Item)
    BY <1>3
  <2>3. p # <<>>
    BY <1>6
  <2> QED
    BY <2>1, <2>2, <2>3 DEF p, q

\* So is what follows the query of the profile: after a reset everything is made again.
LEMMA ResetRight ==
    ASSUME NEW m, NEW other \in BOOLEAN, Necessary \subseteq m.settings,
           NEW was, was = Expected => m.profile = Expected
    PROVE  LET p == Reset(was, other) \o Rest IN
           p \in Seq(Item) /\ p # <<>> /\ PlanRight(p, m)
<1> DEFINE p == Reset(was, other) \o Rest
<1>1. CASE was = Expected /\ ~ other
  <2>1. p = Rest
    <3>1. Reset(was, other) = <<>>
      BY <1>1 DEF Reset
    <3> QED
      BY <3>1, RestMakes, ConcatEmptySeq
  <2>2. Rest # <<>>
    <3>1. Len(Rest) = 8 /\ Len(<<>>) = 0
      BY RestMakes
    <3> QED
      BY <3>1
  <2>3. \A c \in Necessary : c \in m.settings /\ Without(Rest, "AT+CFUN=15")
    BY RestMakes
  <2>4. \A i \in DOMAIN Rest : Rest[i].command # "AT+UMNOPROF?"
    BY RestMakes DEF Without
  <2>5. PlanRight(Rest, m)
    BY <1>1, <2>3, <2>4 DEF PlanRight
  <2> QED
    BY <2>1, <2>2, <2>5, RestMakes
<1>2. CASE ~ (was = Expected /\ ~ other)
  <2> DEFINE off == <<Warn("AT+CFUN=0")>>
             profile == IF was = Expected THEN <<>> ELSE <<Need("AT+UMNOPROF=")>>
             bands1 == IF other THEN Bands ELSE <<>>
             on == <<Warn("AT+CFUN=15"), Need("wait")>>
             head == off \o profile \o bands1 \o on
             ask == "AT+UMNOPROF?"
  <2>1. p = (head \o Basic) \o Rest
    BY <1>2 DEF Reset
  <2>2. off \in Seq(Item) /\ Without(off, ask)
    <3>1. off \in Seq(Item) /\ Len(off) = 1 /\ off[1] = Warn("AT+CFUN=0")
      BY Commands DEF Names
    <3> HIDE DEF off
    <3>2. DOMAIN off = 1 .. 1
      BY <3>1, LenProperties
    <3> QED
      BY <3>1, <3>2 DEF Without, Warn
  <2>3. /\ profile \in Seq(Item) /\ Without(profile, ask)
        /\ was # Expected => Orders(profile, "AT+UMNOPROF=")
    <3>1. CASE was = Expected
      BY <3>1 DEF Without
    <3>2. CASE was # Expected
      <4>1. profile \in Seq(Item) /\ Len(profile) = 1 /\ profile[1] = Need("AT+UMNOPROF=")
        BY <3>2, Commands DEF Names
      <4> HIDE DEF profile
      <4>2. DOMAIN profile = 1 .. 1
        BY <4>1, LenProperties
      <4>3. Orders(profile, "AT+UMNOPROF=")
        BY <4>1, <4>2 DEF Orders
      <4>4. Without(profile, ask)
        BY <4>1, <4>2 DEF Without, Need
      <4> QED
        BY <4>1, <4>3, <4>4
    <3> QED
      BY <3>1, <3>2
  <2>4. bands1 \in Seq(Item) /\ Without(bands1, ask)
    <3>1. CASE other
      <4>1. /\ bands1 \in Seq(Item) /\ Len(bands1) = 2
            /\ bands1[1] = Warn("AT+URAT=8") /\ bands1[2] = Warn("AT+UBANDMASK")
        BY <3>1, Commands DEF Names, Bands
      <4> HIDE DEF bands1
      <4>2. DOMAIN bands1 = 1 .. 2
        BY <4>1, LenProperties
      <4> QED
        BY <4>1, <4>2 DEF Without, Warn
    <3>2. CASE ~ other
      BY <3>2 DEF Without
    <3> QED
      BY <3>1, <3>2
  <2>5. on \in Seq(Item) /\ Without(on, ask)
    <3>1. /\ on \in Seq(Item) /\ Len(on) = 2
          /\ on[1] = Warn("AT+CFUN=15") /\ on[2] = Need("wait")
      BY Commands DEF Names
    <3> HIDE DEF on
    <3>2. DOMAIN on = 1 .. 2
      BY <3>1, LenProperties
    <3> QED
      BY <3>1, <3>2 DEF Without, Warn, Need
  <2> HIDE DEF off, profile, bands1, on
  <2>6. /\ off \o profile \in Seq(Item) /\ Without(off \o profile, ask)
        /\ was # Expected => Orders(off \o profile, "AT+UMNOPROF=")
    BY <2>2, <2>3, ConcatProperties, WithoutBoth, OrderedByEither
  <2>7. /\ off \o profile \o bands1 \in Seq(Item) /\ Without(off \o profile \o bands1, ask)
        /\ was # Expected => Orders(off \o profile \o bands1, "AT+UMNOPROF=")
    BY <2>4, <2>6, ConcatProperties, WithoutBoth, OrderedByEither
  <2>8. /\ head \in Seq(Item) /\ Without(head, ask)
        /\ was # Expected => Orders(head, "AT+UMNOPROF=")
    BY <2>5, <2>7, ConcatProperties, WithoutBoth, OrderedByEither
  <2> HIDE DEF head
  <2>9. /\ head \o Basic \in Seq(Item) /\ Without(head \o Basic, ask)
        /\ was # Expected => Orders(head \o Basic, "AT+UMNOPROF=")
        /\ \A c \in Necessary : Makes(head \o Basic, c)
    BY <2>8, BasicMakes, ConcatProperties, WithoutBoth, OrderedByEither, MadeAfter
  <2>10. /\ p \in Seq(Item) /\ Without(p, ask)
         /\ was # Expected => Orders(p, "AT+UMNOPROF=")
         /\ \A c \in Necessary : Makes(p, c)
    <3> HIDE DEF p
    <3> DEFINE q == head \o Basic
    <3>1. q \in Seq(Item) /\ p = q \o Rest
      BY <2>1, <2>9
    <3>2. \A c \in Necessary : Makes(q \o Rest, c)
      BY <2>9, RestMakes, MadeBefore
    <3> QED
      BY <2>9, <3>1, <3>2, RestMakes, ConcatProperties, WithoutBoth, OrderedByEither
  <2>11. p # <<>>
    <3>1. Makes(p, "ATQ0")
      BY <2>10 DEF Necessary
    <3> QED
      BY <3>1 DEF Makes
  <2>12. PlanRight(p, m)
    BY <2>10 DEF PlanRight, Without
  <2> QED
    BY <2>10, <2>11, <2>12
<1> QED
  BY <1>1, <1>2

\* A command is carried out, or fails with a warning: the rest of the plan is right.
LEMMA TailRight ==
    ASSUME NEW p \in Seq(Item), p # <<>>, NEW m, NEW after, PlanRight(p, m),
           Head(p).command # "AT+UMNOPROF?",
           Head(p).command # "AT+CFUN=15" => m.settings \subseteq after.settings,
           Head(p).needed /\ Head(p).command \in Necessary => Head(p).command \in after.settings,
           m.profile = Expected => after.profile = Expected,
           Head(p) = Need("AT+UMNOPROF=") => after.profile = Expected
    PROVE  Tail(p) \in Seq(Item) /\ PlanRight(Tail(p), after)
<1> DEFINE t == Tail(p)
<1>1. /\ Len(p) \in Nat \ {0} /\ DOMAIN p = 1 .. Len(p) /\ Head(p) = p[1]
      /\ t \in Seq(Item) /\ Len(t) = Len(p) - 1 /\ DOMAIN t = 1 .. Len(p) - 1
      /\ \A i \in 1 .. Len(p) - 1 : t[i] = p[i + 1]
  BY HeadTailProperties, EmptySeq, LenProperties
<1> HIDE DEF t
<1>2. \A i \in DOMAIN p : i # 1 => i - 1 \in DOMAIN t /\ t[i - 1] = p[i]
  <2>1. \A i \in DOMAIN p : i # 1 => i - 1 \in 1 .. Len(p) - 1 /\ (i - 1) + 1 = i
    BY <1>1
  <2> QED
    BY <1>1, <2>1
<1>3. \A i \in DOMAIN t : i + 1 \in DOMAIN p /\ t[i] = p[i + 1] /\ i + 1 # 1
  BY <1>1
<1>4. ASSUME NEW c \in Necessary
      PROVE  \/ c \in after.settings /\ Without(t, "AT+CFUN=15")
             \/ Makes(t, c)
  <2>1. CASE c \in m.settings /\ Without(p, "AT+CFUN=15")
    <3>1. Without(t, "AT+CFUN=15")
      BY <1>3, <2>1 DEF Without
    <3>2. Head(p).command # "AT+CFUN=15"
      BY <1>1, <2>1 DEF Without
    <3> QED
      BY <2>1, <3>1, <3>2
  <2>2. CASE Makes(p, c)
    <3>1. PICK i \in DOMAIN p : p[i] = Need(c) /\ \A j \in DOMAIN p : j > i => p[j].command # "AT+CFUN=15"
      BY <2>2 DEF Makes
    <3>2. CASE i = 1
      <4>1. c \in after.settings
        BY <1>1, <3>1, <3>2 DEF Need
      <4>2. \A j \in DOMAIN t : j + 1 \in DOMAIN p /\ j + 1 > 1 /\ t[j] = p[j + 1]
        BY <1>1
      <4>3. Without(t, "AT+CFUN=15")
        BY <3>1, <3>2, <4>2 DEF Without
      <4> QED
        BY <4>1, <4>3
    <3>3. CASE i # 1
      <4>1. i - 1 \in DOMAIN t /\ t[i - 1] = Need(c)
        BY <1>2, <3>1, <3>3
      <4>2. \A j \in DOMAIN t : j > i - 1 => j + 1 \in DOMAIN p /\ j + 1 > i /\ t[j] = p[j + 1]
        BY <1>1
      <4>3. \A j \in DOMAIN t : j > i - 1 => t[j].command # "AT+CFUN=15"
        BY <3>1, <4>2
      <4> QED
        BY <4>1, <4>3 DEF Makes
    <3> QED
      BY <3>2, <3>3
  <2> QED
    BY <2>1, <2>2 DEF PlanRight
<1>5. ASSUME NEW i \in DOMAIN t, t[i].command = "AT+UMNOPROF?" PROVE i = Len(t)
  <2>1. i + 1 = Len(p)
    BY <1>3, <1>5 DEF PlanRight
  <2> QED
    BY <1>1, <2>1
<1>6. \/ after.profile = Expected
      \/ Orders(t, "AT+UMNOPROF=")
      \/ \E i \in DOMAIN t : t[i].command = "AT+UMNOPROF?"
  <2>1. CASE m.profile = Expected
    BY <2>1
  <2>2. CASE Orders(p, "AT+UMNOPROF=")
    <3>1. PICK i \in DOMAIN p : p[i] = Need("AT+UMNOPROF=")
      BY <2>2 DEF Orders
    <3> QED
      BY <1>1, <1>2, <3>1 DEF Orders
  <2>3. CASE \E i \in DOMAIN p : p[i].command = "AT+UMNOPROF?"
    BY <1>1, <1>2, <2>3
  <2> QED
    BY <2>1, <2>2, <2>3 DEF PlanRight
<1> QED
  BY <1>1, <1>4, <1>5, <1>6 DEF PlanRight, t

-----------------------------------------------------------------------------
(* The inductive invariant.                                                *)

Modem == [on : BOOLEAN, settings : SUBSET Lasting, profile : {"TMO", "default"}]

Types ==
    /\ BringUpTypeOK
    /\ plan \in Seq(Item) /\ lines \in Seq(Said)
    /\ cache \in [Domains -> Kept]
    /\ modem \in Modem
    /\ bands \in BOOLEAN /\ handlers \in BOOLEAN
    /\ passed \in SUBSET Credible
    /\ phase = "describe" => attempts # 0

\* What the modem would be if it had taken the commands that another's result stood for.
Credited == [settings |-> (modem.settings \cup passed) \cap Lasting,
             profile |-> IF "AT+UMNOPROF=" \in passed THEN Expected ELSE modem.profile]

\* What is left of the plan does what is not done yet.
Script == phase \notin {"power", "halted"} => PlanRight(plan, Credited)

\* What Breakout will hold the status to be once it has read the lines in s.
Word(s, stat) == IF Concerned(s) THEN Parse(LastOf(s, "CEREG").tokens).stat ELSE stat

Known ==
    /\ phase \in {"register", "describe", "up"} => handlers
    /\ phase \in {"describe", "up"} /\ Mode("CEREG") = 2 /\ "AT+CEREG?" \notin passed =>
          (Registered(Word(lines, eps_registration_status)) <=> Registered(net["CEREG"]))

BringUpInv == Types /\ Script /\ Known /\ AnswersAreCurrent

LEMMA ProcessedRight ==
    ASSUME Types, NEW queue \in Seq(Said), Processed(queue)
    PROVE  /\ cache' \in [Domains -> Kept]
           /\ eps_registration_status' \in Statuses \cup {0}
           /\ handlers => eps_registration_status' = Word(queue, eps_registration_status)
           /\ \A d \in Domains : Speaks(queue, d) => cache'[d] = Parse(LastOf(queue, d).tokens)
<1>1. cache' = [d \in Domains |->
                  IF Speaks(queue, d) THEN Parse(LastOf(queue, d).tokens) ELSE cache[d]]
  BY DEF Processed, Speaks
<1>2. ASSUME NEW d \in Domains, Speaks(queue, d) PROVE Parse(LastOf(queue, d).tokens) \in Kept
  <2>1. LastOf(queue, d) \in Said /\ LastOf(queue, d).domain = d
    BY <1>2, LastLine, ElementOfSeq, LenProperties
  <2> QED
    BY <2>1, ParsedKept, ReportOrResult
<1>3. \A d \in Domains : cache[d] \in Kept
  BY DEF Types
<1>4. cache' \in [Domains -> Kept]
  BY <1>1, <1>2, <1>3
<1>5. "CEREG" \in Domains
  BY BringUpAssumption
<1>6. cache'["CEREG"].stat \in Statuses \cup {0}
  BY <1>4, <1>5 DEF Kept
<1>7. Concerned(queue) => cache'["CEREG"].stat = Parse(LastOf(queue, "CEREG").tokens).stat
  BY <1>1, <1>5 DEF Concerned, Speaks
<1>8. eps_registration_status' \in Statuses \cup {0}
  BY <1>6 DEF Processed, Types, BringUpTypeOK
<1>9. handlers => eps_registration_status' = Word(queue, eps_registration_status)
  BY <1>7 DEF Processed, Word
<1> QED
  BY <1>1, <1>4, <1>8, <1>9

\* Nothing is left to be read.
LEMMA NoWord ==
    \A stat : Word(<<>>, stat) = stat
BY DEF Word, Concerned

\* Breakout will know whether the device is registered.
Knows(s, stat) == Registered(Word(s, stat)) <=> Registered(net["CEREG"])

LEMMA UrcSaid ==
    ASSUME NEW d \in Domains, NEW stat \in Statuses
    PROVE  Urc(d, stat) \in Said
<1> DEFINE tokens == StatusTokens(stat)
<1>1. tokens \in {StatusTokens(s) : s \in Statuses}
  OBVIOUS
<1> HIDE DEF tokens
<1>2. [domain |-> d, tokens |-> tokens] \in Reports
  BY <1>1 DEF Reports
<1>3. Urc(d, stat) = [domain |-> d, tokens |-> tokens]
  BY DEF Urc, tokens
<1> QED
  BY <1>2, <1>3 DEF Said

LEMMA ResponseSaid ==
    ASSUME Types, NEW d \in Domains
    PROVE  Response(d) \in Reports
<1>1. Mode(d) \in {0, 2} /\ net[d] \in Statuses
  BY DEF Mode, Types, BringUpTypeOK
<1> QED
  BY <1>1 DEF Response, Reports

\* What a line that is appended makes Breakout hold.
LEMMA AppendedWord ==
    ASSUME NEW s \in Seq(Said), NEW e \in Said, NEW stat
    PROVE  Word(Append(s, e), stat) =
             IF e.domain = "CEREG" THEN Parse(e.tokens).stat ELSE Word(s, stat)
<1> DEFINE t == Append(s, e)
<1>1. /\ e.domain = "CEREG" => Speaks(t, "CEREG") /\ LastOf(t, "CEREG") = e
      /\ e.domain # "CEREG" => /\ Speaks(t, "CEREG") <=> Speaks(s, "CEREG")
                               /\ Speaks(s, "CEREG") => LastOf(t, "CEREG") = LastOf(s, "CEREG")
  BY LastAppended
<1> HIDE DEF t
<1>2. Word(t, stat) = IF e.domain = "CEREG" THEN Parse(e.tokens).stat ELSE Word(s, stat)
  BY <1>1 DEF Word, Concerned, Speaks
<1> QED
  BY <1>2 DEF t

\* A queue may be read in two goes.
LEMMA SplitWord ==
    ASSUME NEW q \in Seq(Said), NEW k \in 0 .. Len(q), NEW stat
    PROVE  LET a == SubSeq(q, 1, k)
               b == SubSeq(q, k + 1, Len(q))
           IN /\ a \in Seq(Said) /\ b \in Seq(Said)
              /\ Word(b, Word(a, stat)) = Word(q, stat)
<1> DEFINE a == SubSeq(q, 1, k)
           b == SubSeq(q, k + 1, Len(q))
           c == "CEREG"
           n == Len(q)
<1>1. n \in Nat /\ k \in Nat /\ k <= n /\ DOMAIN q = 1 .. n /\ \A i \in 1 .. n : q[i] \in Said
  BY LenProperties, ElementOfSeq
<1>2. a \in Seq(Said) /\ Len(a) = k /\ \A i \in 1 .. k : a[i] = q[i]
  <2>1. \A i \in 1 .. k : q[i] \in Said
    BY <1>1
  <2>2. /\ SubSeq(q, 1, k) \in Seq(Said)
        /\ Len(SubSeq(q, 1, k)) = IF 1 <= k THEN k - 1 + 1 ELSE 0
        /\ \A i \in 1 .. k - 1 + 1 : SubSeq(q, 1, k)[i] = q[1 + i - 1]
    BY <1>1, <2>1, SubSeqProperties
  <2> QED
    BY <1>1, <2>2
<1>3. b \in Seq(Said) /\ Len(b) = n - k /\ \A i \in 1 .. n - k : b[i] = q[k + i]
  <2>1. \A i \in k + 1 .. n : q[i] \in Said
    BY <1>1
  <2>2. /\ SubSeq(q, k + 1, n) \in Seq(Said)
        /\ Len(SubSeq(q, k + 1, n)) = IF k + 1 <= n THEN n - (k + 1) + 1 ELSE 0
        /\ \A i \in 1 .. n - (k + 1) + 1 : SubSeq(q, k + 1, n)[i] = q[(k + 1) + i - 1]
    BY <1>1, <2>1, SubSeqProperties
  <2>3. n - (k + 1) + 1 = n - k /\ Len(SubSeq(q, k + 1, n)) = n - k
    <3> DEFINE s == SubSeq(q, k + 1, n)
    <3>1. Len(s) = IF k + 1 <= n THEN n - (k + 1) + 1 ELSE 0
      BY <2>2
    <3> HIDE DEF s, n
    <3>2. n - (k + 1) + 1 = n - k /\ Len(s) = n - k
      BY <1>1, <3>1
    <3> QED
      BY <3>2 DEF s
  <2>4. \A i \in 1 .. n - k : (k + 1) + i - 1 = k + i
    BY <1>1
  <2>5. \A i \in 1 .. n - k : SubSeq(q, k + 1, n)[i] = q[k + i]
    BY <2>2, <2>3, <2>4
  <2> QED
    BY <2>2, <2>3, <2>5
<1>4. DOMAIN a = 1 .. k /\ DOMAIN b = 1 .. n - k
  BY <1>2, <1>3, LenProperties
<1> HIDE DEF a, b, n, c
<1>5. ASSUME Speaks(b, c) PROVE Word(b, Word(a, stat)) = Word(q, stat)
  <2>1. PICK i \in DOMAIN b : /\ LastOf(b, c) = b[i] /\ b[i].domain = c
                              /\ \A j \in DOMAIN b : b[j].domain = c => j <= i
    BY <1>3, <1>5, LastLine
  <2>2. k + i \in DOMAIN q /\ q[k + i] = b[i]
    BY <1>1, <1>3, <1>4
  <2>3. Speaks(q, c)
    BY <2>1, <2>2 DEF Speaks
  <2>4. PICK j \in DOMAIN q : /\ LastOf(q, c) = q[j] /\ q[j].domain = c
                              /\ \A h \in DOMAIN q : q[h].domain = c => h <= j
    BY <2>3, LastLine
  <2>5. k + i <= j
    BY <2>1, <2>2, <2>4
  <2>6. j - k \in DOMAIN b /\ b[j - k] = q[j]
    <3>1. j - k \in 1 .. n - k /\ k + (j - k) = j
      BY <1>1, <1>4, <2>5
    <3> QED
      BY <1>3, <1>4, <3>1
  <2>7. j - k <= i
    BY <2>1, <2>4, <2>6
  <2>8. j = k + i
    BY <1>1, <1>4, <2>5, <2>7
  <2>9. LastOf(b, c) = LastOf(q, c)
    BY <2>1, <2>2, <2>4, <2>8
  <2>10. Concerned(b) /\ Concerned(q)
    BY <1>5, <2>3 DEF Concerned, Speaks, c
  <2> QED
    BY <2>9, <2>10 DEF Word, c
<1>6. ASSUME ~ Speaks(b, c) PROVE Word(b, Word(a, stat)) = Word(q, stat)
  <2>1. \A j \in DOMAIN q : q[j].domain = c => j \in DOMAIN a /\ a[j] = q[j]
    <3>1. SUFFICES ASSUME NEW j \in DOMAIN q, q[j].domain = c, ~ j <= k PROVE FALSE
      BY <1>1, <1>2, <1>4
    <3>2. j - k \in 1 .. n - k /\ k + (j - k) = j
      BY <1>1, <3>1
    <3>3. b[j - k] = q[j] /\ j - k \in DOMAIN b
      BY <1>3, <1>4, <3>2
    <3> QED
      BY <1>6, <3>1, <3>3 DEF Speaks
  <2>2. \A j \in DOMAIN a : j \in DOMAIN q /\ q[j] = a[j]
    BY <1>1, <1>2, <1>4
  <2>3. Speaks(a, c) <=> Speaks(q, c)
    BY <2>1, <2>2 DEF Speaks
  <2>4. ASSUME Speaks(a, c) PROVE LastOf(a, c) = LastOf(q, c)
    <3>1. PICK i \in DOMAIN a : /\ LastOf(a, c) = a[i] /\ a[i].domain = c
                                /\ \A j \in DOMAIN a : a[j].domain = c => j <= i
      BY <1>2, <2>4, LastLine
    <3>2. PICK j \in DOMAIN q : /\ LastOf(q, c) = q[j] /\ q[j].domain = c
                                /\ \A h \in DOMAIN q : q[h].domain = c => h <= j
      BY <2>3, <2>4, LastLine
    <3>3. j \in DOMAIN a /\ a[j] = q[j] /\ i \in DOMAIN q /\ q[i] = a[i]
      BY <2>1, <2>2, <3>1, <3>2
    <3>4. i <= j /\ j <= i
      BY <3>1, <3>2, <3>3
    <3>5. i = j
      BY <1>1, <3>3, <3>4
    <3> QED
      BY <3>1, <3>2, <3>3, <3>5
  <2>5. ~ Concerned(b) /\ (Concerned(a) <=> Speaks(a, c)) /\ (Concerned(q) <=> Speaks(q, c))
    BY <1>6 DEF Concerned, Speaks, c
  <2>6. Word(b, Word(a, stat)) = Word(a, stat)
    BY <2>5 DEF Word
  <2>7. Word(a, stat) = Word(q, stat)
    BY <2>3, <2>4, <2>5 DEF Word, c
  <2> QED
    BY <2>6, <2>7
<1> QED
  BY <1>2, <1>3, <1>5, <1>6 DEF a, b, n

\* A command: what the line says to Breakout in the end is what the modem answered.
LEMMA CommandRight ==
    ASSUME Types, NEW fate \in Fates, NEW ok \in BOOLEAN, NEW said,
           Answered(fate, said) \in Seq(Said), Command(fate, said, ok)
    PROVE  /\ cache' \in [Domains -> Kept]
           /\ eps_registration_status' \in Statuses \cup {0}
           /\ lines' \in Seq(Said) /\ faults' \in 0 .. MaxFaults
           /\ handlers => Word(lines', eps_registration_status') =
                            Word(Answered(fate, said), eps_registration_status)
<1> DEFINE q == Answered(fate, said)
<1>1. PICK k \in 0 .. Len(q) :
         /\ lines' = SubSeq(q, k + 1, Len(q))
         /\ Processed(SubSeq(q, 1, k))
         /\ (faults' = faults + 1 /\ faults < MaxFaults) \/ faults' = faults
  BY DEF Command
<1> HIDE DEF q
<1>2. /\ SubSeq(q, 1, k) \in Seq(Said) /\ SubSeq(q, k + 1, Len(q)) \in Seq(Said)
      /\ Word(SubSeq(q, k + 1, Len(q)), Word(SubSeq(q, 1, k), eps_registration_status))
           = Word(q, eps_registration_status)
  BY SplitWord DEF q
<1>3. /\ cache' \in [Domains -> Kept]
      /\ eps_registration_status' \in Statuses \cup {0}
      /\ handlers => eps_registration_status' = Word(SubSeq(q, 1, k), eps_registration_status)
  BY <1>1, <1>2, ProcessedRight
<1>4. faults' \in 0 .. MaxFaults
  BY <1>1, BringUpAssumption DEF Types, BringUpTypeOK
<1> QED
  BY <1>1, <1>2, <1>3, <1>4 DEF q

\* A result is no word.
LEMMA ResultSays ==
    ASSUME NEW s \in Seq(Said), NEW good \in BOOLEAN, NEW stat
    PROVE  LET t == Append(s, ResultCode(good)) IN
           t \in Seq(Said) /\ Word(t, stat) = Word(s, stat)
<1> DEFINE e == ResultCode(good)
<1>1. e \in Said /\ e.domain = "result"
  BY DEF Said, ResultCode
<1> HIDE DEF e
<1>2. Append(s, e) \in Seq(Said) /\ Word(Append(s, e), stat) = Word(s, stat)
  BY <1>1, AppendProperties, AppendedWord
<1> QED
  BY <1>2 DEF e

\* A command whose answer says nothing: whoever knew goes on to know.
LEMMA PlainRight ==
    ASSUME Types, NEW fate \in Fates, NEW ok \in BOOLEAN, Command(fate, <<>>, ok)
    PROVE  /\ cache' \in [Domains -> Kept]
           /\ eps_registration_status' \in Statuses \cup {0}
           /\ lines' \in Seq(Said) /\ faults' \in 0 .. MaxFaults
           /\ handlers /\ Knows(lines, eps_registration_status) => Knows(lines', eps_registration_status')
<1> DEFINE q == Answered(fate, <<>>)
<1>1. lines \in Seq(Said) /\ lines \o <<>> = lines
  BY ConcatEmptySeq DEF Types
<1>2. q = lines \/ \E good \in BOOLEAN : q = Append(lines, ResultCode(good))
  BY <1>1 DEF Answered
<1> HIDE DEF q
<1>3. q \in Seq(Said) /\ Word(q, eps_registration_status) = Word(lines, eps_registration_status)
  <2>1. CASE q = lines
    BY <1>1, <2>1
  <2>2. ASSUME NEW good \in BOOLEAN, q = Append(lines, ResultCode(good))
        PROVE  q \in Seq(Said) /\ Word(q, eps_registration_status) = Word(lines, eps_registration_status)
    BY <1>1, <2>2, ResultSays
  <2> QED
    BY <1>2, <2>1, <2>2
<1>4. /\ cache' \in [Domains -> Kept]
      /\ eps_registration_status' \in Statuses \cup {0}
      /\ lines' \in Seq(Said) /\ faults' \in 0 .. MaxFaults
      /\ handlers => Word(lines', eps_registration_status') = Word(q, eps_registration_status)
  BY <1>3, CommandRight DEF q
<1> QED
  BY <1>3, <1>4 DEF Knows

\* A query: whoever knew goes on to know, and knows again if the modem took it; and if it
\* ended with its own result, its answer was read.
LEMMA QueryRight ==
    ASSUME Types, NEW d \in Domains, NEW fate \in Fates, NEW ok \in BOOLEAN, Query(d, fate, ok)
    PROVE  /\ cache' \in [Domains -> Kept]
           /\ eps_registration_status' \in Statuses \cup {0}
           /\ lines' \in Seq(Said) /\ faults' \in 0 .. MaxFaults
           /\ answer'.own => answer'.stat = answer'.is /\ answer'.n = answer'.mode
           /\ handlers /\ ((fate = "executed" /\ d = "CEREG") \/ Knows(lines, eps_registration_status)) =>
                Knows(lines', eps_registration_status')
<1> DEFINE r == Response(d)
           told == Append(lines, r)
           q == Answered(fate, <<r>>)
<1>1. lines \in Seq(Said) /\ r \in Said /\ r \in Reports /\ told \in Seq(Said) /\ lines \o <<r>> = told
  <2>1. lines \in Seq(Said) /\ r \in Reports /\ r \in Said
    BY ResponseSaid DEF Types, Said
  <2> HIDE DEF r
  <2> QED
    BY <2>1, AppendProperties, AppendIsConcat
<1>2. net[d] \in Statuses /\ r.domain = d /\ r.tokens = <<Plain(Mode(d))>> \o StatusTokens(net[d])
  BY DEF Types, BringUpTypeOK, Response
<1>3. Parse(r.tokens) = [n |-> Mode(d), stat |-> net[d]]
  BY <1>2, ParsedResponse
<1>4. /\ fate = "executed" => q = Append(told, ResultCode(TRUE))
      /\ fate = "refused" => q = Append(lines, ResultCode(FALSE))
      /\ fate = "lost" => q = lines
  BY <1>1 DEF Answered
<1>5. Command(fate, <<r>>, ok)
  BY DEF Query
<1> HIDE DEF r, told, q
<1>6. fate = "executed" \/ fate = "refused" \/ fate = "lost"
  BY DEF Fates
<1>11. TRUE \in BOOLEAN /\ FALSE \in BOOLEAN
  OBVIOUS
<1>7. /\ q \in Seq(Said)
      /\ Word(q, eps_registration_status) =
           IF fate = "executed" /\ d = "CEREG" THEN net[d] ELSE Word(lines, eps_registration_status)
  <2>1. CASE fate = "executed"
    <3>1. q \in Seq(Said) /\ Word(q, eps_registration_status) = Word(told, eps_registration_status)
      <4> DEFINE p == Append(told, ResultCode(TRUE))
      <4>1. p \in Seq(Said) /\ Word(p, eps_registration_status) = Word(told, eps_registration_status)
        BY <1>1, <1>11, ResultSays
      <4>2. q = p
        BY <1>4, <2>1
      <4> HIDE DEF p
      <4> QED
        BY <4>1, <4>2
    <3>2. Word(told, eps_registration_status) =
            IF r.domain = "CEREG" THEN Parse(r.tokens).stat ELSE Word(lines, eps_registration_status)
      BY <1>1, AppendedWord DEF told
    <3> QED
      BY <1>2, <1>3, <2>1, <3>1, <3>2
  <2>2. CASE fate # "executed"
    <3> DEFINE p == Append(lines, ResultCode(FALSE))
    <3>1. p \in Seq(Said) /\ Word(p, eps_registration_status) = Word(lines, eps_registration_status)
      BY <1>1, <1>11, ResultSays
    <3>2. q = p \/ q = lines
      BY <1>4, <1>6, <2>2
    <3> HIDE DEF p
    <3> QED
      BY <1>1, <2>2, <3>1, <3>2
  <2> QED
    BY <2>1, <2>2
<1>8. /\ cache' \in [Domains -> Kept]
      /\ eps_registration_status' \in Statuses \cup {0}
      /\ lines' \in Seq(Said) /\ faults' \in 0 .. MaxFaults
      /\ handlers => Word(lines', eps_registration_status') = Word(q, eps_registration_status)
  BY <1>5, <1>7, CommandRight DEF q
<1>9. handlers /\ ((fate = "executed" /\ d = "CEREG") \/ Knows(lines, eps_registration_status)) =>
        Knows(lines', eps_registration_status')
  BY <1>7, <1>8 DEF Knows
<1>10. ASSUME answer'.own PROVE answer'.stat = answer'.is /\ answer'.n = answer'.mode
  <2>1. /\ ok /\ ~ Stale
        /\ answer' = [stat |-> cache'[d].stat, n |-> cache'[d].n, is |-> net[d], mode |-> Mode(d),
                      own |-> ~ Stale]
    BY <1>10 DEF Query
  <2>2. PICK k \in 0 .. Len(q) : Ok(SubSeq(q, 1, k)) /\ Processed(SubSeq(q, 1, k))
    BY <1>5, <2>1 DEF Command, q
  <2> DEFINE read == SubSeq(q, 1, k)
  <2>3. Len(q) \in Nat /\ \A i \in 1 .. Len(q) : q[i] \in Said
    BY <1>7, LenProperties, ElementOfSeq
  <2>4. read \in Seq(Said) /\ Len(read) = k /\ DOMAIN read = 1 .. k /\ \A i \in 1 .. k : read[i] = q[i]
    <3>1. \A i \in 1 .. k : q[i] \in Said
      BY <2>3
    <3>2. /\ SubSeq(q, 1, k) \in Seq(Said)
          /\ Len(SubSeq(q, 1, k)) = IF 1 <= k THEN k - 1 + 1 ELSE 0
          /\ \A i \in 1 .. k - 1 + 1 : SubSeq(q, 1, k)[i] = q[1 + i - 1]
      BY <3>1, SubSeqProperties
    <3>3. Len(read) = k /\ \A i \in 1 .. k : read[i] = q[i]
      BY <3>2
    <3> QED
      BY <3>2, <3>3, LenProperties
  <2> HIDE DEF read
  <2>5. PICK i \in 1 .. k : q[i].domain = "result" /\ q[i].ok
    BY <2>2, <2>4 DEF Ok, ResultCodes, read
  <2>6. Len(lines) \in Nat /\ DOMAIN lines = 1 .. Len(lines)
    BY <1>1, LenProperties
  <2>7. \A j \in 1 .. Len(lines) : lines[j].domain # "result"
    BY <2>1, <2>6 DEF Stale, ResultCodes
  <2> DEFINE yes == ResultCode(TRUE)
             no == ResultCode(FALSE)
  <2>11. yes \in Said /\ no \in Said /\ ~ no.ok /\ yes.domain = "result" /\ no.domain = "result"
    BY DEF Said, ResultCode
  <2>12. /\ fate = "executed" => q = Append(told, yes)
         /\ fate = "refused" => q = Append(lines, no)
    BY <1>4
  <2> HIDE DEF yes, no
  <2>8. CASE fate = "executed"
    <3>1. /\ Len(told) = Len(lines) + 1 /\ told[Len(lines) + 1] = r
          /\ \A j \in 1 .. Len(lines) : told[j] = lines[j]
      BY <1>1, AppendProperties DEF told
    <3>2. /\ Len(q) = Len(told) + 1
          /\ \A j \in 1 .. Len(told) : q[j] = told[j]
      BY <1>1, <2>8, <2>11, <2>12, AppendProperties
    <3>3. r.domain # "result"
      BY <1>1, ReportOrResult
    <3>4. \A j \in 1 .. Len(lines) + 1 : q[j].domain # "result"
      BY <2>6, <2>7, <3>1, <3>2, <3>3
    <3>5. i = Len(lines) + 2 /\ k = Len(q)
      <4>1. Len(q) = Len(lines) + 2
        BY <2>6, <3>1, <3>2
      <4>2. ~ (i <= Len(lines) + 1)
        BY <2>5, <2>6, <3>4
      <4> QED
        BY <2>6, <4>1, <4>2
    <3>6. read = q
      BY <1>7, <3>5, SubSeqFull DEF read
    <3>7. Speaks(told, d) /\ LastOf(told, d) = r
      BY <1>1, <1>2, LastAppended DEF told
    <3>8. yes.domain # d
      BY <2>11, BringUpAssumption
    <3>9. /\ Speaks(Append(told, yes), d)
          /\ LastOf(Append(told, yes), d) = LastOf(told, d)
      BY <1>1, <2>11, <3>7, <3>8, LastAppended
    <3>10. Speaks(q, d) /\ LastOf(q, d) = r
      BY <2>8, <2>12, <3>7, <3>9
    <3>11. cache'[d] = Parse(r.tokens)
      <4>1. Processed(q)
        BY <2>2, <3>6 DEF read
      <4> QED
        BY <1>7, <3>10, <4>1, ProcessedRight
    <3> QED
      BY <1>3, <2>1, <3>11
  <2>9. CASE fate = "refused"
    <3>1. /\ Len(q) = Len(lines) + 1 /\ q[Len(lines) + 1] = no
          /\ \A j \in 1 .. Len(lines) : q[j] = lines[j]
      <4> DEFINE p == Append(lines, no)
      <4>1. /\ Len(p) = Len(lines) + 1 /\ p[Len(lines) + 1] = no
            /\ \A j \in 1 .. Len(lines) : p[j] = lines[j]
        BY <1>1, <2>11, AppendProperties
      <4> HIDE DEF p
      <4>2. q = p
        BY <2>9, <2>12 DEF p
      <4> QED
        BY <4>1, <4>2
    <3>2. i \in 1 .. Len(lines) \/ i = Len(lines) + 1
      BY <2>6, <3>1
    <3> QED
      BY <2>5, <2>7, <2>11, <3>1, <3>2
  <2>10. CASE fate = "lost"
    BY <1>4, <2>5, <2>6, <2>7, <2>10
  <2> QED
    BY <1>6, <2>8, <2>9, <2>10
<1> QED
  BY <1>8, <1>9, <1>10

\* What is on its way is read, or its beginning: whoever knew goes on to know.
LEMMA ReadRight ==
    ASSUME Types, NEW k \in 0 .. Len(lines), Processed(SubSeq(lines, 1, k)),
           lines' = SubSeq(lines, k + 1, Len(lines))
    PROVE  /\ cache' \in [Domains -> Kept]
           /\ eps_registration_status' \in Statuses \cup {0}
           /\ lines' \in Seq(Said)
           /\ handlers /\ Knows(lines, eps_registration_status) => Knows(lines', eps_registration_status')
<1>1. lines \in Seq(Said)
  BY DEF Types
<1>2. /\ SubSeq(lines, 1, k) \in Seq(Said) /\ lines' \in Seq(Said)
      /\ Word(lines', Word(SubSeq(lines, 1, k), eps_registration_status))
           = Word(lines, eps_registration_status)
  BY <1>1, SplitWord
<1>3. /\ cache' \in [Domains -> Kept]
      /\ eps_registration_status' \in Statuses \cup {0}
      /\ handlers => eps_registration_status' = Word(SubSeq(lines, 1, k), eps_registration_status)
  BY <1>2, ProcessedRight
<1> QED
  BY <1>2, <1>3 DEF Knows

-----------------------------------------------------------------------------
(* The invariant is kept.                                                  *)

LEMMA Initially == BringUpInit => BringUpInv
<1> SUFFICES ASSUME BringUpInit PROVE BringUpInv
  OBVIOUS
<1> USE BringUpAssumption
<1>1. modem \in Modem
  BY DEF BringUpInit, Modem
<1>2. cache \in [Domains -> Kept]
  BY DEF BringUpInit, Kept
<1>3. \A d \in Domains : cache[d].stat \in Statuses \cup {0} /\ cache[d].n \in {0, 1, 2, 3, 5}
  BY <1>2 DEF Kept
<1>4. net \in [Domains -> Statuses]
  BY DEF BringUpInit
<1>5. BringUpTypeOK
  BY <1>3, <1>4 DEF BringUpInit, BringUpTypeOK
<1>6. plan \in Seq(Item) /\ lines \in Seq(Said)
  BY DEF BringUpInit
<1>7. bands \in BOOLEAN /\ handlers \in BOOLEAN /\ phase # "describe"
  BY DEF BringUpInit
<1>8. Types
  <2>1. passed = {}
    BY DEF BringUpInit
  <2> QED
    BY <1>1, <1>2, <1>5, <1>6, <1>7, <2>1 DEF Types
<1> QED
  BY <1>8 DEF BringUpInit, BringUpInv, Script, Known, AnswersAreCurrent

\* The types after a step, from those of what it changes.
LEMMA TypesKept ==
    ASSUME Types,
           phase' \in {"power", "init", "iccid", "register", "describe", "up", "halted"},
           plan' \in Seq(Item), (plan' # <<>>) <=> (phase' = "init"),
           attempts' \in 0 .. ATTEMPTS, phase' = "describe" => attempts' # 0,
           net' \in [Domains -> Statuses], cache' \in [Domains -> Kept],
           eps_registration_status' \in Statuses \cup {0},
           faults' \in 0 .. MaxFaults, changes' \in 0 .. MaxChanges,
           lines' \in Seq(Said), modem' \in Modem, bands' = bands, handlers' \in BOOLEAN,
           passed' \in SUBSET Credible
    PROVE  Types'
<1>1. \A d \in Domains : cache'[d].stat \in Statuses \cup {0} /\ cache'[d].n \in {0, 1, 2, 3, 5}
  BY DEF Kept
<1>2. ASSUME NEW i \in DOMAIN plan' PROVE plan'[i].needed \in BOOLEAN
  <2>1. plan'[i] \in Item
    BY LenProperties, ElementOfSeq
  <2> QED
    BY <2>1 DEF Item
<1>3. BringUpTypeOK'
  BY <1>1, <1>2 DEF BringUpTypeOK
<1> QED
  BY <1>3 DEF Types

\* What the modem makes of a command.
LEMMA ExecutedRight ==
    ASSUME modem \in Modem, NEW c
    PROVE  LET m == Executed(c) IN
           /\ m \in Modem
           /\ c # "AT+CFUN=15" => modem.settings \subseteq m.settings
           /\ c \in Necessary => c \in m.settings
           /\ modem.profile = Expected => m.profile = Expected
           /\ c = "AT+UMNOPROF=" => m.profile = Expected
           /\ c = "AT+UMNOPROF?" => m.profile = modem.profile
<1>1. CASE c = "AT+CFUN=15"
  BY <1>1 DEF Executed, Modem, Necessary
<1>2. CASE c = "AT+UMNOPROF="
  BY <1>2 DEF Executed, Modem, Necessary, Expected
<1>3. CASE c \notin {"AT+CFUN=15", "AT+UMNOPROF="}
  <2>1. Executed(c) = [modem EXCEPT !.settings = @ \cup ({c} \cap Lasting)]
    BY <1>3 DEF Executed
  <2>2. c \in Necessary => c \in Lasting
    BY DEF Necessary, Lasting
  <2> QED
    BY <1>3, <2>1, <2>2 DEF Modem
<1> QED
  BY <1>1, <1>2, <1>3

\* What is credited goes on to be, and a command that returned OK is credited too.
LEMMA CreditRight ==
    ASSUME modem \in Modem, passed \in SUBSET Credible, NEW c, NEW fate \in Fates, NEW ok \in BOOLEAN,
           modem' = IF fate = "executed" THEN Executed(c) ELSE modem,
           passed' = Passed(c, fate, ok)
    PROVE  /\ modem' \in Modem /\ passed' \in SUBSET Credible
           /\ c # "AT+CFUN=15" => Credited.settings \subseteq Credited'.settings
           /\ ok /\ c \in Necessary => c \in Credited'.settings
           /\ Credited.profile = Expected => Credited'.profile = Expected
           /\ ok /\ c = "AT+UMNOPROF=" => Credited'.profile = Expected
           /\ modem'.profile = Expected => Credited'.profile = Expected
<1>1. Necessary \subseteq Lasting /\ Lasting \subseteq Credible /\ "AT+CFUN=15" \notin Credible
      /\ "AT+UMNOPROF=" \in Credible /\ "AT+UMNOPROF=" \notin Lasting
  BY DEF Necessary, Lasting, Credible
<1>2. /\ Credited.settings = (modem.settings \cup passed) \cap Lasting
      /\ Credited'.settings = (modem'.settings \cup passed') \cap Lasting
      /\ Credited.profile = IF "AT+UMNOPROF=" \in passed THEN Expected ELSE modem.profile
      /\ Credited'.profile = IF "AT+UMNOPROF=" \in passed' THEN Expected ELSE modem'.profile
  BY DEF Credited
<1>3. CASE fate = "executed" /\ c = "AT+CFUN=15"
  <2>1. modem' \in Modem /\ (modem.profile = Expected => modem'.profile = Expected)
    BY <1>3, ExecutedRight
  <2>2. passed' = passed \ Lasting
    BY <1>3 DEF Passed
  <2>3. c \notin Necessary /\ c # "AT+UMNOPROF="
    BY <1>3 DEF Necessary
  <2> QED
    BY <1>1, <1>2, <1>3, <2>1, <2>2, <2>3
<1>4. CASE fate = "executed" /\ c # "AT+CFUN=15"
  <2>1. /\ modem' \in Modem /\ modem.settings \subseteq modem'.settings
        /\ c \in Necessary => c \in modem'.settings
        /\ modem.profile = Expected => modem'.profile = Expected
        /\ c = "AT+UMNOPROF=" => modem'.profile = Expected
        /\ c \in Lasting => c \in modem'.settings
    <3>1. Executed(c) = IF c = "AT+UMNOPROF=" THEN [modem EXCEPT !.profile = Expected]
                        ELSE [modem EXCEPT !.settings = @ \cup ({c} \cap Lasting)]
      BY <1>4 DEF Executed
    <3>2. c \in Lasting => c \in Executed(c).settings
      BY <1>1, <3>1 DEF Modem
    <3> QED
      BY <1>4, <3>2, ExecutedRight
  <2>2. passed' = passed \ {c}
    BY <1>4 DEF Passed
  <2> QED
    BY <1>1, <1>2, <1>4, <2>1, <2>2
<1>5. CASE fate # "executed"
  <2>1. modem' = modem /\ passed' = IF ok THEN passed \cup ({c} \cap Credible) ELSE passed
    BY <1>5 DEF Passed
  <2> QED
    BY <1>1, <1>2, <2>1
<1> QED
  BY <1>3, <1>4, <1>5

LEMMA PowerOnKeeps ==
    ASSUME BringUpInv, NEW fate \in Fates, NEW ok \in BOOLEAN, PowerOn(fate, ok)
    PROVE  BringUpInv'
<1> DEFINE start == Basic \o <<Need("AT+UMNOPROF?")>>
<1>1. start \in Seq(Item) /\ start # <<>> /\ \A m : PlanRight(start, m)
  BY StartRight
<1> HIDE DEF start
<1>2. /\ phase = "power" /\ Command(fate, <<>>, ok)
      /\ \/ phase' = "init" /\ plan' = start
         \/ phase' = phase /\ plan' = plan
         \/ phase' = "halted" /\ plan' = <<>>
      /\ UNCHANGED <<bands, attempts, modem, net, handlers, answer, passed, changes>>
  BY DEF PowerOn, Fails, start
<1>3. Types
  BY DEF BringUpInv
<1>4. /\ cache' \in [Domains -> Kept] /\ eps_registration_status' \in Statuses \cup {0}
      /\ lines' \in Seq(Said) /\ faults' \in 0 .. MaxFaults
  BY <1>2, <1>3, PlainRight
<1>5. plan' \in Seq(Item) /\ (plan' # <<>> <=> phase' = "init")
  BY <1>1, <1>2, <1>3 DEF Types, BringUpTypeOK
<1>6. Types'
  BY <1>2, <1>3, <1>4, <1>5, TypesKept DEF Types, BringUpTypeOK
<1>7. Script'
  BY <1>1, <1>2 DEF Script
<1>8. Known'
  BY <1>2 DEF Known
<1>9. AnswersAreCurrent'
  BY <1>2 DEF BringUpInv, AnswersAreCurrent
<1> QED
  BY <1>6, <1>7, <1>8, <1>9 DEF BringUpInv

LEMMA ConfigureKeeps ==
    ASSUME BringUpInv, NEW fate \in Fates, NEW ok \in BOOLEAN, Configure(fate, ok)
    PROVE  BringUpInv'
<1> DEFINE next == Head(plan)
<1>1. /\ phase = "init" /\ plan # <<>> /\ plan \in Seq(Item) /\ PlanRight(plan, Credited)
      /\ Types /\ modem \in Modem /\ passed \in SUBSET Credible
  BY DEF Configure, BringUpInv, Types, Script
<1>2. next \in Item /\ next = plan[1] /\ 1 \in DOMAIN plan /\ Len(plan) \in Nat \ {0}
  BY <1>1, HeadTailProperties, EmptySeq, LenProperties, ElementOfSeq
<1> HIDE DEF next
<1>3. /\ modem' = IF fate = "executed" THEN Executed(next.command) ELSE modem
      /\ passed' = Passed(next.command, fate, ok)
      /\ Command(fate, <<>>, ok)
      /\ UNCHANGED <<bands, attempts, net, handlers, answer, changes>>
  BY DEF Configure, next
<1>4. \/ phase' = "halted" /\ plan' = <<>>
      \/ /\ ok \/ ~ next.needed
         /\ plan' = IF next.command = "AT+UMNOPROF?" THEN Reset(ProfileRead, bands) \o Rest
                    ELSE Tail(plan)
         /\ phase' = IF plan' = <<>> THEN "iccid" ELSE phase
  BY DEF Configure, next, Fails
<1>5. /\ modem' \in Modem /\ passed' \in SUBSET Credible
      /\ next.command # "AT+CFUN=15" => Credited.settings \subseteq Credited'.settings
      /\ ok /\ next.command \in Necessary => next.command \in Credited'.settings
      /\ Credited.profile = Expected => Credited'.profile = Expected
      /\ ok /\ next.command = "AT+UMNOPROF=" => Credited'.profile = Expected
      /\ modem'.profile = Expected => Credited'.profile = Expected
  BY <1>1, <1>3, CreditRight
<1>6. plan' \in Seq(Item) /\ (phase' # "halted" => PlanRight(plan', Credited'))
  <2>1. CASE phase' = "halted" /\ plan' = <<>>
    BY <2>1
  <2>2. CASE /\ next.command = "AT+UMNOPROF?"
             /\ plan' = Reset(ProfileRead, bands) \o Rest
    <3>1. Len(plan) = 1
      BY <1>1, <1>2, <2>2 DEF PlanRight
    <3>2. ASSUME NEW c \in Necessary PROVE c \in Credited.settings
      <4>1. ~ Makes(plan, c)
        <5>1. SUFFICES ASSUME Makes(plan, c) PROVE FALSE
          OBVIOUS
        <5>2. PICK i \in DOMAIN plan : plan[i] = Need(c)
          BY <5>1 DEF Makes
        <5>3. i = 1
          BY <1>1, <3>1, <5>2, LenProperties
        <5> QED
          BY <1>2, <2>2, <5>2, <5>3 DEF Need, Necessary
      <4> QED
        BY <1>1, <4>1 DEF PlanRight
    <3>3. Necessary \subseteq Credited'.settings
      BY <1>5, <2>2, <3>2
    <3>4. ProfileRead = Expected => modem'.profile = Expected
      <4>1. modem'.profile = modem.profile
        BY <1>1, <1>3, <2>2, ExecutedRight
      <4> QED
        BY <4>1 DEF ProfileRead, Expected
    <3>5. bands \in BOOLEAN
      BY <1>1 DEF Types
    <3> QED
      BY <1>5, <2>2, <3>3, <3>4, <3>5, ResetRight
  <2>3. CASE /\ ok \/ ~ next.needed
             /\ next.command # "AT+UMNOPROF?"
             /\ plan' = Tail(plan)
    <3>1. next.needed /\ next.command \in Necessary => next.command \in Credited'.settings
      BY <1>5, <2>3
    <3>2. next = Need("AT+UMNOPROF=") => Credited'.profile = Expected
      BY <1>5, <2>3 DEF Need
    <3> QED
      BY <1>1, <1>5, <2>3, <3>1, <3>2, TailRight DEF next
  <2> QED
    BY <1>4, <2>1, <2>2, <2>3
<1>7. /\ cache' \in [Domains -> Kept] /\ eps_registration_status' \in Statuses \cup {0}
      /\ lines' \in Seq(Said) /\ faults' \in 0 .. MaxFaults
  BY <1>1, <1>3, PlainRight
<1>8. phase' \in {"halted", "iccid", "init"} /\ ((plan' # <<>>) <=> (phase' = "init"))
  BY <1>1, <1>4
<1>9. Types'
  BY <1>1, <1>3, <1>5, <1>6, <1>7, <1>8, TypesKept DEF Types, BringUpTypeOK
<1>10. Script'
  BY <1>6 DEF Script
<1>11. Known'
  BY <1>8 DEF Known
<1>12. AnswersAreCurrent'
  BY <1>3 DEF BringUpInv, AnswersAreCurrent
<1> QED
  BY <1>9, <1>10, <1>11, <1>12 DEF BringUpInv

LEMMA WaitForModemKeeps ==
    ASSUME BringUpInv, NEW fate \in Fates, NEW ok \in BOOLEAN, WaitForModem(fate, ok)
    PROVE  BringUpInv'
<1>1. /\ phase = "init" /\ plan # <<>> /\ plan \in Seq(Item) /\ PlanRight(plan, Credited)
      /\ Types /\ modem \in Modem
  BY DEF WaitForModem, BringUpInv, Types, Script
<1>2. /\ Head(plan).command = "wait" /\ plan' = IF ok THEN Tail(plan) ELSE plan
      /\ phase' = IF plan' = <<>> THEN "iccid" ELSE phase
      /\ Command(fate, <<>>, ok)
      /\ UNCHANGED <<bands, attempts, modem, net, handlers, answer, passed, changes>>
  BY DEF WaitForModem
<1>3. plan' \in Seq(Item) /\ PlanRight(plan', Credited)
  <2>1. "wait" \notin Necessary /\ Head(plan) # Need("AT+UMNOPROF=")
    BY <1>2 DEF Necessary, Need
  <2>2. Tail(plan) \in Seq(Item) /\ PlanRight(Tail(plan), Credited)
    BY <1>1, <1>2, <2>1, TailRight
  <2> QED
    BY <1>1, <1>2, <2>2
<1>4. /\ cache' \in [Domains -> Kept] /\ eps_registration_status' \in Statuses \cup {0}
      /\ lines' \in Seq(Said) /\ faults' \in 0 .. MaxFaults
  BY <1>1, <1>2, PlainRight
<1>5. phase' \in {"iccid", "init"} /\ ((plan' # <<>>) <=> (phase' = "init"))
  BY <1>1, <1>2
<1>6. Types'
  BY <1>1, <1>2, <1>3, <1>4, <1>5, TypesKept DEF Types, BringUpTypeOK
<1>7. Script'
  BY <1>2, <1>3 DEF Script, Credited
<1>8. Known'
  BY <1>5 DEF Known
<1>9. AnswersAreCurrent'
  BY <1>2 DEF BringUpInv, AnswersAreCurrent
<1> QED
  BY <1>6, <1>7, <1>8, <1>9 DEF BringUpInv

LEMMA ReadICCIDKeeps ==
    ASSUME BringUpInv, NEW fate \in Fates, NEW ok \in BOOLEAN, ReadICCID(fate, ok)
    PROVE  BringUpInv'
<1>1. phase = "iccid" /\ PlanRight(plan, Credited) /\ Types
  BY DEF ReadICCID, BringUpInv, Script
<1>2. /\ Command(fate, <<>>, ok)
      /\ (phase' = "register" /\ handlers') \/ (phase' = "halted" /\ handlers' = handlers)
      /\ handlers' \in BOOLEAN
      /\ UNCHANGED <<plan, bands, attempts, modem, net, answer, passed, changes>>
  <2>1. CASE ok
    BY <2>1, Zenon DEF ReadICCID
  <2>2. CASE ~ ok
    BY <1>1, <2>2, Zenon DEF ReadICCID, Types
  <2> QED
    BY <2>1, <2>2
<1>3. /\ cache' \in [Domains -> Kept] /\ eps_registration_status' \in Statuses \cup {0}
      /\ lines' \in Seq(Said) /\ faults' \in 0 .. MaxFaults
  BY <1>1, <1>2, PlainRight
<1>4. Types'
  BY <1>1, <1>2, <1>3, TypesKept DEF Types, BringUpTypeOK
<1>5. Script'
  BY <1>1, <1>2 DEF Script, Credited
<1>6. Known'
  BY <1>2 DEF Known
<1>7. AnswersAreCurrent'
  BY <1>2 DEF BringUpInv, AnswersAreCurrent
<1> QED
  BY <1>4, <1>5, <1>6, <1>7 DEF BringUpInv

LEMMA WaitForNetworkRegistrationKeeps ==
    ASSUME BringUpInv, NEW fate \in Fates, NEW ok \in BOOLEAN, WaitForNetworkRegistration(fate, ok)
    PROVE  BringUpInv'
<1>1. phase = "register" /\ PlanRight(plan, Credited) /\ Types /\ handlers
      /\ passed \in SUBSET Credible
  BY DEF WaitForNetworkRegistration, BringUpInv, Script, Known, Types
<1>2. /\ Query("CEREG", fate, ok)
      /\ passed' = Passed("AT+CEREG?", fate, ok)
      /\ \/ ok /\ phase' = "describe" /\ attempts' = ATTEMPTS
         \/ phase' = phase /\ attempts' = attempts
      /\ UNCHANGED <<plan, bands, modem, net, handlers, changes>>
  BY DEF WaitForNetworkRegistration
<1>3. /\ cache' \in [Domains -> Kept]
      /\ eps_registration_status' \in Statuses \cup {0}
      /\ lines' \in Seq(Said) /\ faults' \in 0 .. MaxFaults
      /\ answer'.own => answer'.stat = answer'.is /\ answer'.n = answer'.mode
      /\ fate = "executed" => Knows(lines', eps_registration_status')
  BY <1>1, <1>2, QueryRight, BringUpAssumption
<1>4. attempts' \in 0 .. ATTEMPTS /\ (phase' = "describe" => attempts' # 0)
  BY <1>1, <1>2, BringUpAssumption DEF Types, BringUpTypeOK
<1>5. /\ passed' \in SUBSET Credible /\ passed' \cap Lasting = passed \cap Lasting
      /\ "AT+UMNOPROF=" \in passed' <=> "AT+UMNOPROF=" \in passed
      /\ ok /\ fate # "executed" => "AT+CEREG?" \in passed'
  <2>1. "AT+CEREG?" \notin Lasting /\ "AT+CEREG?" \in Credible
    BY DEF Lasting, Credible
  <2>2. passed' = passed \ {"AT+CEREG?"} \/ passed' = passed \/ passed' = passed \cup {"AT+CEREG?"}
    BY <1>2, <2>1 DEF Passed
  <2>3. ok /\ fate # "executed" => "AT+CEREG?" \in passed'
    BY <1>2, <2>1 DEF Passed
  <2> QED
    BY <1>1, <2>1, <2>2, <2>3
<1>6. Types'
  BY <1>1, <1>2, <1>3, <1>4, <1>5, TypesKept DEF Types, BringUpTypeOK
<1>7. Script'
  <2>1. Credited' = Credited
    <3>1. (modem.settings \cup passed') \cap Lasting = (modem.settings \cup passed) \cap Lasting
      BY <1>5
    <3> QED
      BY <1>2, <1>5, <3>1 DEF Credited
  <2> QED
    BY <1>1, <1>2, <2>1 DEF Script
<1>8. Known'
  BY <1>1, <1>2, <1>3, <1>5 DEF Known, Knows
<1>9. AnswersAreCurrent'
  BY <1>3 DEF AnswersAreCurrent
<1> QED
  BY <1>6, <1>7, <1>8, <1>9 DEF BringUpInv

LEMMA SetHostDeviceInformationKeeps ==
    ASSUME BringUpInv, NEW fate \in Fates, NEW ok \in BOOLEAN, SetHostDeviceInformation(fate, ok)
    PROVE  BringUpInv'
<1>1. phase = "describe" /\ PlanRight(plan, Credited) /\ Types /\ handlers /\ attempts # 0
  BY DEF SetHostDeviceInformation, BringUpInv, Script, Known, Types
<1>2. /\ Command(fate, <<>>, ok)
      /\ attempts' = attempts - 1
      /\ phase' = IF ok \/ attempts' = 0 THEN "up" ELSE phase
      /\ UNCHANGED <<plan, bands, modem, net, handlers, answer, passed, changes>>
  BY DEF SetHostDeviceInformation
<1>3. /\ cache' \in [Domains -> Kept] /\ eps_registration_status' \in Statuses \cup {0}
      /\ lines' \in Seq(Said) /\ faults' \in 0 .. MaxFaults
      /\ Knows(lines, eps_registration_status) => Knows(lines', eps_registration_status')
  BY <1>1, <1>2, PlainRight
<1>4. attempts' \in 0 .. ATTEMPTS
  BY <1>1, <1>2, BringUpAssumption DEF Types, BringUpTypeOK
<1>5. Types'
  BY <1>1, <1>2, <1>3, <1>4, TypesKept DEF Types, BringUpTypeOK
<1>6. Script'
  BY <1>1, <1>2 DEF Script, Credited
<1>7. Known'
  <2>1. Mode("CEREG")' = Mode("CEREG")
    BY <1>2 DEF Mode
  <2> QED
    BY <1>1, <1>2, <1>3, <2>1 DEF BringUpInv, Known, Knows
<1>8. AnswersAreCurrent'
  BY <1>2 DEF BringUpInv, AnswersAreCurrent
<1> QED
  BY <1>5, <1>6, <1>7, <1>8 DEF BringUpInv

LEMMA HandleLinesKeeps ==
    ASSUME BringUpInv, HandleLines
    PROVE  BringUpInv'
<1>1. phase = "up" /\ PlanRight(plan, Credited) /\ Types /\ handlers
  BY DEF HandleLines, BringUpInv, Script, Known
<1>2. /\ \E k \in DOMAIN lines : /\ Processed(SubSeq(lines, 1, k))
                                 /\ lines' = SubSeq(lines, k + 1, Len(lines))
      /\ UNCHANGED <<phase, plan, bands, attempts, modem, net, handlers, answer, passed, faults, changes>>
  BY DEF HandleLines
<1>3. PICK k \in 0 .. Len(lines) : /\ Processed(SubSeq(lines, 1, k))
                                   /\ lines' = SubSeq(lines, k + 1, Len(lines))
  <2>1. DOMAIN lines = 1 .. Len(lines) /\ Len(lines) \in Nat
    BY <1>1, LenProperties DEF Types
  <2>2. 1 .. Len(lines) \subseteq 0 .. Len(lines)
    BY <2>1
  <2> QED
    BY <1>2, <2>1, <2>2
<1>4. /\ cache' \in [Domains -> Kept] /\ eps_registration_status' \in Statuses \cup {0}
      /\ lines' \in Seq(Said)
      /\ Knows(lines, eps_registration_status) => Knows(lines', eps_registration_status')
  BY <1>1, <1>3, ReadRight
<1>5. Types'
  BY <1>1, <1>2, <1>4, TypesKept DEF Types, BringUpTypeOK
<1>6. Script'
  BY <1>1, <1>2 DEF Script, Credited
<1>7. Known'
  <2>1. Mode("CEREG")' = Mode("CEREG")
    BY <1>2 DEF Mode
  <2> QED
    BY <1>1, <1>2, <1>4, <2>1 DEF BringUpInv, Known, Knows
<1>8. AnswersAreCurrent'
  BY <1>2 DEF BringUpInv, AnswersAreCurrent
<1> QED
  BY <1>5, <1>6, <1>7, <1>8 DEF BringUpInv

LEMMA GetRegistrationStatusKeeps ==
    ASSUME BringUpInv, NEW d \in Domains, NEW fate \in Fates, NEW ok \in BOOLEAN,
           GetRegistrationStatus(d, fate, ok)
    PROVE  BringUpInv'
<1>1. phase = "up" /\ PlanRight(plan, Credited) /\ Types /\ handlers
  BY DEF GetRegistrationStatus, BringUpInv, Script, Known
<1>2. /\ Query(d, fate, ok)
      /\ UNCHANGED <<phase, plan, bands, attempts, modem, net, handlers, passed, changes>>
  BY DEF GetRegistrationStatus
<1>3. /\ cache' \in [Domains -> Kept]
      /\ eps_registration_status' \in Statuses \cup {0}
      /\ lines' \in Seq(Said) /\ faults' \in 0 .. MaxFaults
      /\ answer'.own => answer'.stat = answer'.is /\ answer'.n = answer'.mode
      /\ Knows(lines, eps_registration_status) => Knows(lines', eps_registration_status')
  BY <1>1, <1>2, QueryRight
<1>4. Types'
  BY <1>1, <1>2, <1>3, TypesKept DEF Types, BringUpTypeOK
<1>5. Script'
  BY <1>1, <1>2 DEF Script, Credited
<1>6. Known'
  <2>1. Mode("CEREG")' = Mode("CEREG")
    BY <1>2 DEF Mode
  <2> QED
    BY <1>1, <1>2, <1>3, <2>1 DEF BringUpInv, Known, Knows
<1>7. AnswersAreCurrent'
  BY <1>3 DEF AnswersAreCurrent
<1> QED
  BY <1>4, <1>5, <1>6, <1>7 DEF BringUpInv

LEMMA BootsKeeps ==
    ASSUME BringUpInv, Boots
    PROVE  BringUpInv'
<1>1. Types /\ modem' = [modem EXCEPT !.on = TRUE]
      /\ UNCHANGED <<phase, plan, bands, attempts, net, lines, cache, handlers,
                     eps_registration_status, answer, passed, faults, changes>>
  BY DEF Boots, BringUpInv
<1>2. modem' \in Modem /\ modem'.settings = modem.settings /\ modem'.profile = modem.profile
  BY <1>1 DEF Types, Modem
<1>3. Types'
  BY <1>1, <1>2, TypesKept DEF Types, BringUpTypeOK
<1>4. Script'
  BY <1>1, <1>2 DEF BringUpInv, Script, Credited
<1>5. Known'
  <2>1. Mode("CEREG")' = Mode("CEREG")
    BY <1>2 DEF Mode
  <2> QED
    BY <1>1, <2>1 DEF BringUpInv, Known
<1>6. AnswersAreCurrent'
  BY <1>1 DEF BringUpInv, AnswersAreCurrent
<1> QED
  BY <1>3, <1>4, <1>5, <1>6 DEF BringUpInv

LEMMA NetworkChangesKeeps ==
    ASSUME BringUpInv, NEW d \in Domains, NEW stat \in Statuses, NetworkChanges(d, stat)
    PROVE  BringUpInv'
<1> DEFINE u == Urc(d, stat)
<1>1. /\ Types /\ changes < MaxChanges /\ changes' = changes + 1
      /\ net' = [net EXCEPT ![d] = stat]
      /\ lines' = IF Mode(d) = 2 THEN Append(lines, u) ELSE lines
      /\ UNCHANGED <<phase, plan, bands, attempts, modem, cache, handlers,
                     eps_registration_status, answer, passed, faults>>
  BY DEF NetworkChanges, BringUpInv
<1>2. u \in Said /\ u.domain = d /\ u.tokens = StatusTokens(stat)
  BY UrcSaid DEF Urc
<1>3. lines \in Seq(Said) /\ lines' \in Seq(Said)
  BY <1>1, <1>2, AppendProperties DEF Types
<1>4. changes' \in 0 .. MaxChanges /\ net' \in [Domains -> Statuses]
  BY <1>1, BringUpAssumption DEF Types, BringUpTypeOK
<1>5. Types'
  BY <1>1, <1>3, <1>4, TypesKept DEF Types, BringUpTypeOK
<1>6. Script'
  BY <1>1 DEF BringUpInv, Script, Credited
<1>7. Known'
  <2>1. Mode("CEREG")' = Mode("CEREG")
    BY <1>1 DEF Mode
  <2>2. ASSUME phase \in {"describe", "up"}, Mode("CEREG") = 2, "AT+CEREG?" \notin passed
        PROVE  Registered(Word(lines', eps_registration_status)) <=> Registered(net'["CEREG"])
    <3>1. Registered(Word(lines, eps_registration_status)) <=> Registered(net["CEREG"])
      BY <2>2 DEF BringUpInv, Known
    <3>2. CASE d = "CEREG"
      <4>1. lines' = Append(lines, u) /\ net'["CEREG"] = stat
        BY <1>1, <2>2, <3>2 DEF Types, BringUpTypeOK
      <4>2. Word(lines', eps_registration_status) = Parse(StatusTokens(stat)).stat
        BY <1>2, <1>3, <3>2, <4>1, AppendedWord
      <4>3. Parse(StatusTokens(stat)).stat = IF Registered(stat) THEN stat ELSE 0
        BY ParsedUrc
      <4> QED
        BY <4>1, <4>2, <4>3 DEF Registered
    <3>3. CASE d # "CEREG"
      <4>1. net'["CEREG"] = net["CEREG"]
        BY <1>1, <3>3, BringUpAssumption DEF Types, BringUpTypeOK
      <4>2. Word(lines', eps_registration_status) = Word(lines, eps_registration_status)
        BY <1>1, <1>2, <1>3, <3>3, AppendedWord
      <4> QED
        BY <3>1, <4>1, <4>2
    <3> QED
      BY <3>2, <3>3
  <2> QED
    BY <1>1, <2>1, <2>2 DEF BringUpInv, Known
<1>8. AnswersAreCurrent'
  BY <1>1 DEF BringUpInv, AnswersAreCurrent
<1> QED
  BY <1>5, <1>6, <1>7, <1>8 DEF BringUpInv

LEMMA StepKeeps ==
    BringUpInv /\ [BringUpNext]_bringUpVars => BringUpInv'
<1> SUFFICES ASSUME BringUpInv, [BringUpNext]_bringUpVars PROVE BringUpInv'
  OBVIOUS
<1>1. ASSUME NEW fate \in Fates, NEW ok \in BOOLEAN, WaitForModem(fate, ok) PROVE BringUpInv'
  BY <1>1, WaitForModemKeeps
<1>2. ASSUME NEW fate \in Fates, NEW ok \in BOOLEAN, PowerOn(fate, ok) PROVE BringUpInv'
  BY <1>2, PowerOnKeeps
<1>3. ASSUME NEW fate \in Fates, NEW ok \in BOOLEAN, Configure(fate, ok) PROVE BringUpInv'
  BY <1>3, ConfigureKeeps
<1>4. ASSUME NEW fate \in Fates, NEW ok \in BOOLEAN, ReadICCID(fate, ok) PROVE BringUpInv'
  BY <1>4, ReadICCIDKeeps
<1>5. ASSUME NEW fate \in Fates, NEW ok \in BOOLEAN, WaitForNetworkRegistration(fate, ok) PROVE BringUpInv'
  BY <1>5, WaitForNetworkRegistrationKeeps
<1>6. ASSUME NEW fate \in Fates, NEW ok \in BOOLEAN, SetHostDeviceInformation(fate, ok) PROVE BringUpInv'
  BY <1>6, SetHostDeviceInformationKeeps
<1>7. CASE HandleLines
  BY <1>7, HandleLinesKeeps
<1>8. ASSUME NEW d \in Domains, NEW fate \in Fates, NEW ok \in BOOLEAN,
             GetRegistrationStatus(d, fate, ok)
      PROVE  BringUpInv'
  BY <1>8, GetRegistrationStatusKeeps
<1>9. CASE Boots
  BY <1>9, BootsKeeps
<1>10. ASSUME NEW d \in Domains, NEW stat \in Statuses, NetworkChanges(d, stat) PROVE BringUpInv'
  BY <1>10, NetworkChangesKeeps
<1>11. CASE UNCHANGED bringUpVars
  <2>1. Types'
    BY <1>11 DEF bringUpVars, BringUpInv, Types, BringUpTypeOK
  <2>2. Script' /\ AnswersAreCurrent'
    BY <1>11 DEF bringUpVars, BringUpInv, Script, Credited, AnswersAreCurrent
  <2>3. Known'
    BY <1>11 DEF bringUpVars, BringUpInv, Known, Mode
  <2> QED
    BY <2>1, <2>2, <2>3 DEF BringUpInv
<1> QED
  BY <1>1, <1>2, <1>3, <1>4, <1>5, <1>6, <1>7, <1>8, <1>9, <1>10, <1>11
     DEF BringUpNext, BringUp

-----------------------------------------------------------------------------
(* The theorems.                                                           *)

\* The inductive invariant: the rest of the plan, and what is on its way, make good
\* what is not as it should be (OwlModem::initModem, OwlModemNetwork::processURC).
THEOREM BringUpInvariant == BringUpSpec => []BringUpInv
  BY Initially, StepKeeps, PTL DEF BringUpSpec

\* After an initialization that succeeded the modem has every setting it cannot do
\* without, made after its last reset, and the MNO profile, except what it did not take
\* when the late result of another command was read for it.  OwlModem::initModem.
THEOREM AlwaysConfigured == BringUpSpec => []Configured
<1>1. BringUpInv => Configured
  <2> SUFFICES ASSUME BringUpInv, Initialized PROVE Configured
    BY DEF Configured
  <2>1. plan = <<>> /\ PlanRight(plan, Credited)
    BY DEF BringUpInv, Types, BringUpTypeOK, Script, Initialized
  <2>2. \A c : ~ Makes(plan, c) /\ ~ Orders(plan, c)
    BY <2>1 DEF Makes, Orders
  <2>3. DOMAIN plan = {}
    BY <2>1
  <2> QED
    BY <2>1, <2>2, <2>3 DEF Configured, PlanRight, Necessary, Credited
<1> QED
  BY <1>1, BringUpInvariant, PTL

\* A getter that succeeds by its own result returns what the modem says at that moment,
\* and a device that is up, whose wait for the network the modem answered, and that has
\* read all lines holds itself registered exactly if the network does.
\* OwlModemNetwork::processURC, handler_EPSRegistrationStatusChange.
THEOREM RegistrationIsTrue == BringUpSpec => []RegistrationTrue
<1>1. BringUpInv => RegistrationTrue
  <2> SUFFICES ASSUME BringUpInv PROVE RegistrationTrue
    OBVIOUS
  <2>1. RegistrationKnown
    <3> SUFFICES ASSUME phase = "up", lines = <<>>, Mode("CEREG") = 2, "AT+CEREG?" \notin passed
                 PROVE  Registered(eps_registration_status) <=> Registered(net["CEREG"])
      BY DEF RegistrationKnown
    <3>1. Word(lines, eps_registration_status) = eps_registration_status
      BY NoWord
    <3> QED
      BY <3>1 DEF BringUpInv, Known
  <2> QED
    BY <2>1 DEF BringUpInv, Types, RegistrationTrue
<1> QED
  BY <1>1, BringUpInvariant, PTL

-----------------------------------------------------------------------------
(* The sockets: types.                                                    *)

Protocols == {"none", "UDP", "TCP"}

\* What the SDK keeps of a socket, and what the modem does.
Beliefs == [opened : BOOLEAN, connected : BOOLEAN, proto : Protocols, rd : Nat, rf : Nat,
            data : Nat, closed : Nat, accept : Nat]
Ends == [open : BOOLEAN, gen : Nat, proto : Protocols, conn : BOOLEAN, listens : BOOLEAN, q : Nat]

\* The lines the modem sends: URCs about its sockets, and results.
Notices == [k : {"rd", "rf", "li", "co", "cl"}, s : Sockets, n : Nat, on : Sockets, gen : Nat]
Requests == {"UDP", "TCP", "listen", "connect", "accept", "close", "rd", "rf"}
Strays == [k : {"late"}, ok : BOOLEAN, to : Requests, s : Sockets \cup {-1}, gen : Nat, got : Nat]
Spoken == {u \in Notices : u.k \in {"rd", "rf"} => u.n > 0}
          \cup {u \in Strays : u.ok /\ u.to \in {"UDP", "TCP"} => u.s \in Sockets}
          \cup {Result(TRUE), Result(FALSE)}

-----------------------------------------------------------------------------
(* What a line says, whatever the order of its parts. *)

\* The openings of a socket by connections that come in, news of which is on the line.
ComingIn(ln, s) == {ln[i].gen : i \in {j \in DOMAIN ln : ln[j].k = "li" /\ ln[j].s = s}}

\* The results on the line, and whether data of a socket is announced.
VerdictIn(ln) == {ln[i].n : i \in {j \in DOMAIN ln : ln[j].k = "result"}}
AnnouncedIn(ln, s) == \E i \in DOMAIN ln : ln[i].k \in {"rd", "rf"} /\ ln[i].s = s
PlainIn(ln) == \A i \in DOMAIN ln : ln[i].k \notin {"co", "cl"}

\* News of connections come in the order of the openings, those after a result of later ones.
InOrder(ln, g) ==
  \A i, j \in DOMAIN ln : i < j /\ ln[j].k = "li" =>
    /\ ln[i].k = "li" => ln[i].gen < ln[j].gen
    /\ ln[i].k = "result" => g < ln[j].gen
OneResult(ln) == \A i, j \in DOMAIN ln : ln[i].k = "result" /\ ln[j].k = "result" => i = j

\* The parts of what may be on the line.
LEMMA SpokenParts ==
    ASSUME NEW u \in Spoken
    PROVE  /\ u.k \in {"rd", "rf", "li", "co", "cl", "result", "late"}
           /\ u.k \notin {"result", "late"} =>
                /\ u.s \in Sockets /\ u.on \in Sockets /\ u.n \in Nat /\ u.gen \in Nat
                /\ u.k \in {"rd", "rf"} => u.n > 0
           /\ u.k = "late" => /\ u.s \in Sockets \cup {-1} /\ u.gen \in Nat /\ u.got \in Nat /\ u.ok \in BOOLEAN
                              /\ u.ok /\ u.to \in {"UDP", "TCP"} => u.s \in Sockets
           /\ u.k = "result" => u.n \in {0, 1} /\ (u.n = 1 <=> u = Result(TRUE))
<1>1. CASE u \in Notices /\ (u.k \in {"rd", "rf"} => u.n > 0)
  BY <1>1 DEF Notices
<1>2. CASE u = Result(TRUE)
  BY <1>2 DEF Result, Unsolicited
<1>3. CASE u = Result(FALSE)
  <2>1. u.k = "result" /\ u.n = 0
    BY <1>3 DEF Result, Unsolicited
  <2>2. u # Result(TRUE)
    BY <2>1 DEF Result, Unsolicited
  <2>3. u.n # 1
    BY <2>1
  <2> QED
    BY <2>1, <2>2, <2>3, Zenon
<1>4. CASE u \in Strays /\ (u.ok /\ u.to \in {"UDP", "TCP"} => u.s \in Sockets)
  BY <1>4 DEF Strays
<1> QED
  BY <1>1, <1>2, <1>3, <1>4 DEF Spoken

\* A line that is appended.
LEMMA Appended ==
    ASSUME NEW ln \in Seq(Spoken), NEW e \in Spoken, NEW g, InOrder(ln, g), OneResult(ln),
           e.k = "result" => VerdictIn(ln) = {},
           e.k = "li" => /\ \A s \in Sockets : \A h \in ComingIn(ln, s) : h < e.gen
                         /\ VerdictIn(ln) # {} => g < e.gen
    PROVE  LET t == Append(ln, e) IN
           /\ t \in Seq(Spoken) /\ InOrder(t, g) /\ OneResult(t)
           /\ e.k # "li" => \A s \in Sockets : ComingIn(t, s) = ComingIn(ln, s)
           /\ e.k = "li" => /\ ComingIn(t, e.s) = ComingIn(ln, e.s) \cup {e.gen}
                            /\ \A s \in Sockets \ {e.s} : ComingIn(t, s) = ComingIn(ln, s)
           /\ e.k # "result" => VerdictIn(t) = VerdictIn(ln)
           /\ e.k = "result" => VerdictIn(t) = {e.n}
           /\ \A s \in Sockets : AnnouncedIn(ln, s) => AnnouncedIn(t, s)
           /\ e.k \in {"rd", "rf"} => AnnouncedIn(t, e.s)
           /\ PlainIn(ln) /\ e.k \notin {"co", "cl"} => PlainIn(t)
<1> DEFINE t == Append(ln, e)
           n == Len(ln)
<1>1. n \in Nat /\ DOMAIN ln = 1 .. n
  BY LenProperties
<1>2. /\ t \in Seq(Spoken) /\ DOMAIN t = 1 .. (n + 1)
      /\ t[n + 1] = e /\ \A i \in 1 .. n : t[i] = ln[i]
  BY <1>1, AppendProperties, LenProperties
<1> HIDE DEF t, n
<1>3. \A i \in 1 .. (n + 1) : i \in 1 .. n \/ i = n + 1
  BY <1>1
<1>4. n + 1 \in 1 .. (n + 1) /\ \A i \in 1 .. n : i \in 1 .. (n + 1) /\ i < n + 1 /\ i # n + 1
  BY <1>1
<1>5. e.k # "li" => \A s \in Sockets : ComingIn(t, s) = ComingIn(ln, s)
  BY <1>1, <1>2, <1>3, <1>4 DEF ComingIn
<1>6. e.k = "li" => /\ ComingIn(t, e.s) = ComingIn(ln, e.s) \cup {e.gen}
                    /\ \A s \in Sockets \ {e.s} : ComingIn(t, s) = ComingIn(ln, s)
  BY <1>1, <1>2, <1>3, <1>4 DEF ComingIn
<1>7. /\ e.k # "result" => VerdictIn(t) = VerdictIn(ln)
      /\ e.k = "result" => VerdictIn(t) = {e.n}
  BY <1>1, <1>2, <1>3, <1>4 DEF VerdictIn
<1>8. /\ \A s \in Sockets : AnnouncedIn(ln, s) => AnnouncedIn(t, s)
      /\ e.k \in {"rd", "rf"} => AnnouncedIn(t, e.s)
      /\ PlainIn(ln) /\ e.k \notin {"co", "cl"} => PlainIn(t)
  BY <1>1, <1>2, <1>3, <1>4 DEF AnnouncedIn, PlainIn
<1>9. ASSUME NEW i \in 1 .. n, e.k = "li"
      PROVE  /\ ln[i].k = "li" => ln[i].gen < e.gen
             /\ ln[i].k = "result" => g < e.gen
  <2>1. ln[i] \in Spoken
    BY <1>1, ElementOfSeq DEF n
  <2>2. ASSUME ln[i].k = "li" PROVE ln[i].gen < e.gen
    <3>1. ln[i].s \in Sockets
      BY <2>1, <2>2, SpokenParts
    <3>2. ln[i].gen \in ComingIn(ln, ln[i].s)
      BY <1>1, <2>2 DEF ComingIn
    <3> QED
      BY <1>9, <3>1, <3>2
  <2>3. ASSUME ln[i].k = "result" PROVE g < e.gen
    <3>1. ln[i].n \in VerdictIn(ln)
      BY <1>1, <2>3 DEF VerdictIn
    <3> QED
      BY <1>9, <3>1
  <2> QED
    BY <2>2, <2>3
<1>10. InOrder(t, g)
  <2> SUFFICES ASSUME NEW i \in 1 .. (n + 1), NEW j \in 1 .. (n + 1), i < j, t[j].k = "li"
               PROVE  /\ t[i].k = "li" => t[i].gen < t[j].gen
                      /\ t[i].k = "result" => g < t[j].gen
    BY <1>2 DEF InOrder
  <2>1. i \in 1 .. n /\ t[i] = ln[i]
    BY <1>1, <1>2
  <2>2. CASE j = n + 1
    BY <1>2, <1>9, <2>1, <2>2
  <2>3. CASE j \in 1 .. n
    BY <1>1, <1>2, <2>1, <2>3 DEF InOrder
  <2> QED
    BY <1>3, <2>2, <2>3
<1>11. OneResult(t)
  <2>1. ASSUME NEW i \in 1 .. n, ln[i].k = "result" PROVE e.k # "result"
    BY <1>1, <2>1 DEF VerdictIn
  <2> SUFFICES ASSUME NEW i \in 1 .. (n + 1), NEW j \in 1 .. (n + 1), t[i].k = "result", t[j].k = "result"
               PROVE  i = j
    BY <1>2 DEF OneResult
  <2> QED
    BY <1>1, <1>2, <1>3, <2>1 DEF OneResult
<1> QED
  BY <1>2, <1>5, <1>6, <1>7, <1>8, <1>10, <1>11 DEF t

\* A line whose parts are those of another but one, in the same order.
LEMMA Dropped ==
    ASSUME NEW ln \in Seq(Spoken), NEW i \in 1 .. Len(ln)
    PROVE  LET t == RemoveAt(ln, i) IN
           /\ t \in Seq(Spoken)
           /\ \A j \in DOMAIN t : LET k == IF j < i THEN j ELSE j + 1 IN
                k \in DOMAIN ln /\ k # i /\ t[j] = ln[k]
           /\ \A k \in DOMAIN ln : k # i => LET j == IF k < i THEN k ELSE k - 1 IN
                j \in DOMAIN t /\ t[j] = ln[k]
<1> DEFINE n == Len(ln)
           a == SubSeq(ln, 1, i - 1)
           b == SubSeq(ln, i + 1, n)
           t == a \o b
<1>1. n \in Nat /\ DOMAIN ln = 1 .. n /\ i \in 1 .. n
  BY LenProperties
<1>2. \A j \in 1 .. n : ln[j] \in Spoken
  BY ElementOfSeq
<1> HIDE DEF n
<1>3. a \in Seq(Spoken) /\ Len(a) = i - 1 /\ \A j \in 1 .. (i - 1) : a[j] = ln[j]
  BY <1>1, <1>2, SubSeqProperties
<1>4. b \in Seq(Spoken) /\ Len(b) = n - i /\ \A j \in 1 .. (n - i) : b[j] = ln[i + j]
  BY <1>1, <1>2, SubSeqProperties
<1> HIDE DEF a, b
<1>5. /\ t \in Seq(Spoken) /\ Len(t) = Len(a) + Len(b)
      /\ \A j \in 1 .. Len(a) + Len(b) : t[j] = IF j <= Len(a) THEN a[j] ELSE b[j - Len(a)]
  BY <1>3, <1>4, ConcatProperties
<1>6. DOMAIN t = 1 .. Len(t)
  BY <1>5, LenProperties
<1> HIDE DEF t
<1>7. Len(t) = n - 1 /\ DOMAIN t = 1 .. (n - 1)
  BY <1>1, <1>3, <1>4, <1>5, <1>6
<1>8. \A j \in 1 .. (n - 1) : t[j] = IF j < i THEN ln[j] ELSE ln[j + 1]
  <2> SUFFICES ASSUME NEW j \in 1 .. (n - 1) PROVE t[j] = IF j < i THEN ln[j] ELSE ln[j + 1]
    OBVIOUS
  <2>1. t[j] = IF j <= i - 1 THEN a[j] ELSE b[j - (i - 1)]
    BY <1>1, <1>3, <1>4, <1>5, <1>7
  <2>2. CASE j < i
    BY <1>1, <1>3, <2>1, <2>2
  <2>3. CASE ~ (j < i)
    <3>1. j - (i - 1) \in 1 .. (n - i) /\ i + (j - (i - 1)) = j + 1
      BY <1>1, <2>3
    <3> QED
      BY <1>1, <1>4, <2>1, <2>3, <3>1
  <2> QED
    BY <2>2, <2>3
<1>9. RemoveAt(ln, i) = t
  BY DEF RemoveAt, t, a, b, n
<1>10. \A j \in 1 .. (n - 1) : LET k == IF j < i THEN j ELSE j + 1 IN
         k \in 1 .. n /\ k # i /\ t[j] = ln[k]
  BY <1>1, <1>8
<1>11. \A k \in 1 .. n : k # i => LET j == IF k < i THEN k ELSE k - 1 IN
         j \in 1 .. (n - 1) /\ t[j] = ln[k]
  BY <1>1, <1>8
<1> QED
  BY <1>1, <1>5, <1>7, <1>9, <1>10, <1>11

\* The first line that is no result is read.
LEMMA FirstRead ==
    ASSUME NEW ln \in Seq(Spoken), NEW i \in DOMAIN ln, NEW g, InOrder(ln, g), OneResult(ln),
           ln[i].k # "result", \A j \in 1 .. i - 1 : ln[j].k = "result"
    PROVE  LET t == RemoveAt(ln, i)
               u == ln[i] IN
           /\ t \in Seq(Spoken) /\ InOrder(t, g) /\ OneResult(t)
           /\ u.k # "li" => \A s \in Sockets : ComingIn(t, s) = ComingIn(ln, s)
           /\ u.k = "li" => /\ u.gen \in ComingIn(ln, u.s)
                            /\ ComingIn(t, u.s) = ComingIn(ln, u.s) \ {u.gen}
                            /\ \A s \in Sockets \ {u.s} : ComingIn(t, s) = ComingIn(ln, s)
                            /\ \A s \in Sockets : \A h \in ComingIn(t, s) : u.gen < h
           /\ VerdictIn(t) = VerdictIn(ln)
           /\ \A s \in Sockets : AnnouncedIn(ln, s) => AnnouncedIn(t, s) \/ (u.k \in {"rd", "rf"} /\ u.s = s)
           /\ PlainIn(ln) => PlainIn(t) /\ u.k \notin {"co", "cl"}
<1> DEFINE t == RemoveAt(ln, i)
           u == ln[i]
           n == Len(ln)
           up(j) == IF j < i THEN j ELSE j + 1
           dn(k) == IF k < i THEN k ELSE k - 1
<1>1. n \in Nat /\ DOMAIN ln = 1 .. n /\ i \in 1 .. n
  BY LenProperties
<1>2. /\ t \in Seq(Spoken)
      /\ \A j \in DOMAIN t : up(j) \in DOMAIN ln /\ up(j) # i /\ t[j] = ln[up(j)]
      /\ \A k \in DOMAIN ln : k # i => dn(k) \in DOMAIN t /\ t[dn(k)] = ln[k]
  <2>1. i \in 1 .. Len(ln)
    BY <1>1
  <2> QED
    BY <2>1, Dropped, SMTT(30)
<1>3. DOMAIN t \subseteq Nat
  <2>1. DOMAIN t = 1 .. Len(t) /\ Len(t) \in Nat
    BY <1>2, LenProperties
  <2> QED
    BY <2>1
<1>4. \A j, k \in DOMAIN t : /\ j < k => up(j) < up(k)
                             /\ up(j) = up(k) => j = k
  BY <1>1, <1>3
<1> HIDE DEF t, n, up, dn
<1>5. InOrder(t, g)
  <2> SUFFICES ASSUME NEW j \in DOMAIN t, NEW k \in DOMAIN t, j < k, t[k].k = "li"
               PROVE  /\ t[j].k = "li" => t[j].gen < t[k].gen
                      /\ t[j].k = "result" => g < t[k].gen
    BY DEF InOrder
  <2>1. up(j) \in DOMAIN ln /\ up(k) \in DOMAIN ln /\ up(j) < up(k)
    BY <1>2, <1>4
  <2>2. t[j] = ln[up(j)] /\ t[k] = ln[up(k)]
    BY <1>2
  <2> QED
    BY <2>1, <2>2 DEF InOrder
<1>6. OneResult(t)
  <2> SUFFICES ASSUME NEW j \in DOMAIN t, NEW k \in DOMAIN t, t[j].k = "result", t[k].k = "result"
               PROVE  j = k
    BY DEF OneResult
  <2>1. up(j) \in DOMAIN ln /\ up(k) \in DOMAIN ln /\ t[j] = ln[up(j)] /\ t[k] = ln[up(k)]
    BY <1>2
  <2>2. up(j) = up(k)
    BY <2>1 DEF OneResult
  <2> QED
    BY <1>4, <2>2
<1>7. /\ \A j \in DOMAIN t : \E k \in DOMAIN ln : k # i /\ t[j] = ln[k]
      /\ \A k \in DOMAIN ln : k = i \/ \E j \in DOMAIN t : t[j] = ln[k]
  BY <1>2
<1>8. VerdictIn(t) = VerdictIn(ln)
  <2>1. VerdictIn(t) \subseteq VerdictIn(ln)
    BY <1>7 DEF VerdictIn
  <2>2. ASSUME NEW v \in VerdictIn(ln) PROVE v \in VerdictIn(t)
    <3>1. PICK k \in DOMAIN ln : ln[k].k = "result" /\ v = ln[k].n
      BY DEF VerdictIn
    <3>2. PICK j \in DOMAIN t : t[j] = ln[k]
      BY <1>7, <3>1
    <3> QED
      BY <3>1, <3>2 DEF VerdictIn
  <2> QED
    BY <2>1, <2>2
<1>9. \A s \in Sockets : ComingIn(t, s) \subseteq ComingIn(ln, s)
  BY <1>7 DEF ComingIn
<1>10. ASSUME NEW s \in Sockets, NEW h \in ComingIn(ln, s)
       PROVE  h \in ComingIn(t, s) \/ (u.k = "li" /\ s = u.s /\ h = u.gen)
  <2>1. PICK k \in DOMAIN ln : ln[k].k = "li" /\ ln[k].s = s /\ h = ln[k].gen
    BY DEF ComingIn
  <2>2. CASE k = i
    BY <2>1, <2>2
  <2>3. CASE k # i
    <3>1. PICK j \in DOMAIN t : t[j] = ln[k]
      BY <1>7, <2>3
    <3> QED
      BY <2>1, <3>1 DEF ComingIn
  <2> QED
    BY <2>2, <2>3
<1>11. u.k # "li" => \A s \in Sockets : ComingIn(t, s) = ComingIn(ln, s)
  BY <1>9, <1>10
<1>12. \A s \in Sockets : AnnouncedIn(ln, s) => AnnouncedIn(t, s) \/ (u.k \in {"rd", "rf"} /\ u.s = s)
  BY <1>2 DEF AnnouncedIn
<1>13. PlainIn(ln) => PlainIn(t) /\ u.k \notin {"co", "cl"}
  BY <1>2 DEF PlainIn
<1>14. ASSUME u.k = "li", NEW s \in Sockets, NEW h \in ComingIn(t, s) PROVE u.gen < h
  <2>1. PICK j \in DOMAIN t : t[j].k = "li" /\ t[j].s = s /\ t[j].gen = h
    BY <1>14 DEF ComingIn
  <2>2. up(j) \in 1 .. n /\ up(j) # i /\ ln[up(j)].k = "li" /\ ln[up(j)].gen = h
    BY <1>1, <1>2, <2>1
  <2>3. ~ (up(j) < i)
    BY <1>1, <2>2
  <2>4. i < up(j)
    BY <1>1, <2>2, <2>3
  <2> QED
    BY <1>1, <1>14, <2>2, <2>4 DEF InOrder
<1>15. ASSUME u.k = "li"
       PROVE  /\ u.gen \in ComingIn(ln, u.s)
              /\ ComingIn(t, u.s) = ComingIn(ln, u.s) \ {u.gen}
              /\ \A s \in Sockets \ {u.s} : ComingIn(t, s) = ComingIn(ln, s)
  <2>1. u \in Spoken
    BY <1>1, ElementOfSeq DEF n
  <2>2. u.s \in Sockets /\ u.gen \in Nat
    BY <1>15, <2>1, SpokenParts
  <2>3. u.gen \in ComingIn(ln, u.s)
    BY <1>1, <1>15 DEF ComingIn
  <2>6. u.gen \notin ComingIn(t, u.s)
    BY <1>14, <1>15, <2>2
  <2> QED
    BY <1>9, <1>10, <2>2, <2>3, <2>6
<1> QED
  BY <1>2, <1>5, <1>6, <1>8, <1>11, <1>12, <1>13, <1>14, <1>15 DEF t, u

\* The result is taken.
LEMMA ResultTaken ==
    ASSUME NEW ln \in Seq(Spoken), NEW g, InOrder(ln, g), OneResult(ln),
           ln # <<>>, Head(ln).k = "result"
    PROVE  LET t == Tail(ln) IN
           /\ t \in Seq(Spoken) /\ (\A h : InOrder(t, h)) /\ OneResult(t)
           /\ \A s \in Sockets : ComingIn(t, s) = ComingIn(ln, s)
           /\ \A s \in Sockets : \A h \in ComingIn(ln, s) : g < h
           /\ VerdictIn(ln) = {Head(ln).n} /\ VerdictIn(t) = {} /\ Head(ln).n \in {0, 1}
           /\ \A s \in Sockets : AnnouncedIn(ln, s) => AnnouncedIn(t, s)
           /\ PlainIn(ln) => PlainIn(t)
<1> DEFINE t == Tail(ln)
           n == Len(ln)
<1>1. n \in Nat \ {0} /\ DOMAIN ln = 1 .. n /\ ln[1] = Head(ln)
  BY LenProperties, EmptySeq
<1>2. t \in Seq(Spoken) /\ Len(t) = n - 1 /\ \A i \in 1 .. Len(t) : t[i] = ln[i + 1]
  BY HeadTailProperties
<1>3. DOMAIN t = 1 .. Len(t)
  BY <1>2, LenProperties
<1> HIDE DEF t, n
<1>4. /\ \A i \in DOMAIN t : i + 1 \in DOMAIN ln /\ t[i] = ln[i + 1] /\ i \in Nat
      /\ \A i \in DOMAIN ln : i # 1 => i - 1 \in DOMAIN t /\ t[i - 1] = ln[i]
      /\ 1 \in DOMAIN ln /\ ln[1].k = "result"
  BY <1>1, <1>2, <1>3
<1>5. \A i \in DOMAIN t : t[i].k # "result"
  <2> SUFFICES ASSUME NEW i \in DOMAIN t, t[i].k = "result" PROVE FALSE
    OBVIOUS
  <2>1. i + 1 \in DOMAIN ln /\ ln[i + 1].k = "result" /\ i + 1 = 1
    BY <1>4 DEF OneResult
  <2> QED
    BY <1>2, <1>3, <1>1, <2>1
<1>6. VerdictIn(t) = {} /\ VerdictIn(ln) = {Head(ln).n} /\ OneResult(t)
  <2>1. VerdictIn(t) = {} /\ OneResult(t)
    BY <1>5 DEF VerdictIn, OneResult
  <2>2. \A i \in DOMAIN ln : ln[i].k = "result" <=> i = 1
    BY <1>4 DEF OneResult
  <2>3. {j \in DOMAIN ln : ln[j].k = "result"} = {1}
    BY <1>4, <2>2
  <2>4. VerdictIn(ln) = {ln[1].n}
    BY <2>3 DEF VerdictIn
  <2> QED
    BY <1>1, <2>1, <2>4
<1>7. /\ \A s \in Sockets : ComingIn(t, s) = ComingIn(ln, s)
      /\ \A s \in Sockets : AnnouncedIn(ln, s) => AnnouncedIn(t, s)
      /\ PlainIn(ln) => PlainIn(t)
  <2>1. \A i \in DOMAIN ln : i # 1 \/ ln[i].k = "result"
    BY <1>4
  <2>2. \A s \in Sockets : ComingIn(t, s) = ComingIn(ln, s)
    BY <1>4, <2>1 DEF ComingIn
  <2>3. \A s \in Sockets : AnnouncedIn(ln, s) => AnnouncedIn(t, s)
    BY <1>4, <2>1 DEF AnnouncedIn
  <2>4. PlainIn(ln) => PlainIn(t)
    BY <1>4 DEF PlainIn
  <2> QED
    BY <2>2, <2>3, <2>4
<1>8. ASSUME NEW s \in Sockets, NEW h \in ComingIn(ln, s) PROVE g < h
  <2>1. PICK i \in DOMAIN ln : ln[i].k = "li" /\ ln[i].gen = h
    BY DEF ComingIn
  <2>2. 1 < i
    BY <1>1, <1>4, <2>1
  <2> QED
    BY <1>4, <2>1, <2>2 DEF InOrder
<1>9. ASSUME NEW h PROVE InOrder(t, h)
  <2> SUFFICES ASSUME NEW i \in DOMAIN t, NEW j \in DOMAIN t, i < j, t[j].k = "li", t[i].k = "li"
               PROVE  t[i].gen < t[j].gen
    BY <1>5 DEF InOrder
  <2>1. i + 1 < j + 1
    BY <1>4
  <2> QED
    BY <1>4, <2>1 DEF InOrder
<1>10. Head(ln).n \in {0, 1}
  <2>1. Head(ln) \in Spoken
    BY HeadTailProperties
  <2> QED
    BY <2>1, SpokenParts
<1> QED
  BY <1>2, <1>6, <1>7, <1>8, <1>9, <1>10 DEF t

\* An orphan is dropped.
LEMMA OrphanTaken ==
    ASSUME NEW ln \in Seq(Spoken), NEW g, InOrder(ln, g), OneResult(ln),
           ln # <<>>, Head(ln).k = "late"
    PROVE  LET t == Tail(ln) IN
           /\ t \in Seq(Spoken) /\ InOrder(t, g) /\ OneResult(t)
           /\ \A s \in Sockets : ComingIn(t, s) = ComingIn(ln, s)
           /\ VerdictIn(t) = VerdictIn(ln)
           /\ \A s \in Sockets : AnnouncedIn(ln, s) => AnnouncedIn(t, s)
           /\ PlainIn(ln) => PlainIn(t)
<1> DEFINE t == Tail(ln)
           n == Len(ln)
<1>1. n \in Nat \ {0} /\ DOMAIN ln = 1 .. n /\ ln[1] = Head(ln)
  BY LenProperties, EmptySeq
<1>2. t \in Seq(Spoken) /\ Len(t) = n - 1 /\ \A i \in 1 .. Len(t) : t[i] = ln[i + 1]
  BY HeadTailProperties
<1>3. DOMAIN t = 1 .. Len(t)
  BY <1>2, LenProperties
<1> HIDE DEF t, n
<1>4. /\ \A i \in DOMAIN t : i + 1 \in DOMAIN ln /\ t[i] = ln[i + 1] /\ i \in Nat
      /\ \A i \in DOMAIN ln : i # 1 => i - 1 \in DOMAIN t /\ t[i - 1] = ln[i]
      /\ 1 \in DOMAIN ln /\ ln[1].k = "late"
  BY <1>1, <1>2, <1>3
<1>5. \A i \in DOMAIN ln : i # 1 \/ ln[i].k = "late"
  BY <1>4
<1>6. \A s \in Sockets : ComingIn(t, s) = ComingIn(ln, s)
  BY <1>4, <1>5 DEF ComingIn
<1>7. VerdictIn(t) = VerdictIn(ln)
  BY <1>4, <1>5 DEF VerdictIn
<1>8. /\ \A s \in Sockets : AnnouncedIn(ln, s) => AnnouncedIn(t, s)
      /\ PlainIn(ln) => PlainIn(t)
  <2>1. \A s \in Sockets : AnnouncedIn(ln, s) => AnnouncedIn(t, s)
    BY <1>4, <1>5 DEF AnnouncedIn
  <2>2. PlainIn(ln) => PlainIn(t)
    BY <1>4 DEF PlainIn
  <2> QED
    BY <2>1, <2>2
<1>9. InOrder(t, g)
  <2> SUFFICES ASSUME NEW i \in DOMAIN t, NEW j \in DOMAIN t, i < j, t[j].k = "li"
               PROVE  /\ t[i].k = "li" => t[i].gen < t[j].gen
                      /\ t[i].k = "result" => g < t[j].gen
    BY DEF InOrder
  <2>1. i + 1 < j + 1
    BY <1>4
  <2> QED
    BY <1>4, <2>1 DEF InOrder
<1>10. OneResult(t)
  <2> SUFFICES ASSUME NEW i \in DOMAIN t, NEW j \in DOMAIN t, t[i].k = "result", t[j].k = "result"
               PROVE  i = j
    BY DEF OneResult
  <2>1. i + 1 = j + 1
    BY <1>4 DEF OneResult
  <2> QED
    BY <1>4, <2>1
<1> QED
  BY <1>2, <1>6, <1>7, <1>8, <1>9, <1>10 DEF t

-----------------------------------------------------------------------------
(* The inductive invariant. *)

\* What is left of the composite calls.
Agenda ==
  {<<"UDP", "listen">>, <<"listen">>, <<"UDP", "handler">>, <<"handler">>,
   <<"UDP", "connect", "handler">>, <<"connect", "handler">>,
   <<"UDP", "listen", "connect">>, <<"listen", "connect">>, <<"connect">>,
   <<"TCP", "handler", "connect">>, <<"handler", "connect">>,
   <<"TCP", "handler", "accept">>, <<"handler", "accept">>, <<"accept">>}

Call == [k : {"idle", "open", "close", "fetch"}, s : Sockets \cup {-1}, gen : Nat,
         todo : Agenda \cup {<<>>, <<"close">>, <<"rd">>, <<"rf">>}, sent : BOOLEAN, got : Nat]

\* The call in progress opens s, is told which socket the modem opened, connects it, or closes it.
Opens(s) == op.k = "open" /\ op.s = s
Begins(s) == Opens(s) /\ op.sent /\ Step \in {"UDP", "TCP"}
Connects(s) == Opens(s) /\ op.sent /\ Step = "connect"
Closes(s) == op.k = "close" /\ op.s = s

\* Each variable has its type.
Typed ==
  /\ status \in [Sockets -> Beliefs] /\ real \in [Sockets -> Ends]
  /\ line \in Seq(Spoken)
  /\ owned \subseteq Sockets /\ opens \in Nat /\ units \in Nat
  /\ mixed \in BOOLEAN

\* A call has a socket but for the first command of one that opens.
CallRight ==
  /\ op \in Call /\ op.gen <= opens
  /\ \/ op = Nothing
     \/ /\ op.k = "open" /\ op.todo \in Agenda /\ op.got = 0
        /\ op.s = -1 => Step \in {"UDP", "TCP"}
        /\ op.s # -1 /\ ~op.sent => Step \notin {"UDP", "TCP"}
        /\ op.sent => Step # "handler"
     \/ op.k = "close" /\ op.todo = <<"close">> /\ op.s # -1 /\ op.got = 0
     \/ op.k = "fetch" /\ op.todo \in {<<"rd">>, <<"rf">>} /\ op.s # -1

\* A call has a socket but for the first command of one that opens, and the
\* line at most one result, of a command that has a socket when it is OK.
CallFormed ==
  /\ op \in Call
  /\ \/ op = Nothing
     \/ /\ op.k = "open" /\ op.todo \in Agenda /\ op.got = 0
        /\ op.s = -1 => Step \in {"UDP", "TCP"}
        /\ op.s # -1 /\ ~op.sent => Step \notin {"UDP", "TCP"}
        /\ op.sent => Step # "handler"
     \/ op.k = "close" /\ op.todo = <<"close">> /\ op.s # -1 /\ op.got = 0
     \/ op.k = "fetch" /\ op.todo \in {<<"rd">>, <<"rf">>} /\ op.s # -1
LineFormed ==
  /\ OneResult(line)
  /\ ~op.sent => VerdictIn(line) = {}
  /\ op.s = -1 => 1 \notin VerdictIn(line)
Formed == Typed /\ CallFormed /\ LineFormed

\* Only a socket that is open, and connected or listening, has data.
EndsRight ==
  \A s \in Sockets :
    /\ ~real[s].open => real[s] = Shut
    /\ real[s].open => real[s].gen <= opens /\ real[s].proto \in {"UDP", "TCP"}
    /\ real[s].q > 0 => real[s].conn \/ real[s].listens

\* There is one result for the command that was sent, and news are of openings that happened.
LineRight ==
  /\ InOrder(line, op.gen) /\ OneResult(line)
  /\ op.sent <=> VerdictIn(line) # {}
  /\ op.got > 0 => VerdictIn(line) = {1}
  /\ (op.sent /\ op.k = "open" /\ Step \in {"UDP", "TCP"}) => (VerdictIn(line) = {1} <=> op.s # -1)
  /\ \A s \in Sockets : \A g \in ComingIn(line, s) :
       g \in Nat /\ g <= opens /\ (real[s].open => g <= real[s].gen)

\* The handlers are those of the opening g, or reset, and no news are of an earlier one.
Fresh(s, g) == status[s].data \in {0, g} /\ \A h \in ComingIn(line, s) : g <= h

\* The socket that is being opened is open and not yet connected, or its last
\* command is under way, which may find that the other side hung up.
OpenRight ==
  op.k = "open" /\ op.s # -1 =>
    \/ op.todo = <<"connect">> /\ op.sent
    \/ /\ real[op.s].open /\ real[op.s].gen = op.gen
       /\ Step \in {"UDP", "TCP"} =>
            real[op.s].proto = Step /\ ~real[op.s].conn /\ ~real[op.s].listens
       /\ Step \notin {"UDP", "TCP"} =>
            /\ Fresh(op.s, op.gen)
            /\ real[op.s].conn => op.todo = <<"handler">> \/ (Step = "connect" /\ op.sent)
            /\ real[op.s].proto = "TCP" => op.todo \notin {<<"handler">>, <<"connect", "handler">>}

\* Data that can come in meets the handlers of its own opening, or those that
\* the news on the line will set.
HandlersRight ==
  \A s \in Sockets : real[s].open =>
    \/ Fresh(s, real[s].gen)
    \/ real[s].gen \in ComingIn(line, s)
    \/ Begins(s)
    \/ ~real[s].conn /\ ~real[s].listens /\ ~Opens(s)

\* The same for data on the line.
FetchedRight ==
  "overtaken" \notin flaw =>
    /\ ~mixed
    /\ op.got > 0 => Fresh(op.s, op.gen) \/ op.gen \in ComingIn(line, op.s)

\* Somebody knows of a socket that is open, or will close it.
LeakRight ==
  flaw \subseteq {"overtaken"} => \A s \in Sockets : real[s].open =>
    s \in owned \/ ComingIn(line, s) # {} \/ Opens(s) \/ (Closes(s) /\ ~op.sent)

\* No command failed that has to succeed, and nobody hangs up.
Quiet == flaw = {} /\ "hangup" \notin sky

\* Then news are of a connection that is there,
NewsRight ==
  Quiet => /\ PlainIn(line)
           /\ \A s \in Sockets : \A g \in ComingIn(line, s) :
                real[s].open /\ g = real[s].gen /\ real[s].proto = "TCP" /\ real[s].conn

\* a socket that is owned, opened or about to be closed is open,
UseRight ==
  Quiet =>
    /\ \A s \in owned : real[s].open /\ ComingIn(line, s) = {} /\ ~Opens(s) /\ ~Closes(s)
    /\ op.k = "open" /\ op.s # -1 => real[op.s].open /\ ComingIn(line, op.s) = {}
    /\ op.k = "close" /\ ~op.sent => real[op.s].open /\ ComingIn(line, op.s) = {}
    /\ op.k = "close" /\ op.sent =>
         /\ VerdictIn(line) = {1} /\ \A g \in ComingIn(line, op.s) : op.gen < g
         /\ real[op.s].open => ComingIn(line, op.s) # {}

\* and the status of a socket is right but for what is on the line.
BeliefRight ==
  Quiet => \A s \in Sockets :
    \/ ComingIn(line, s) # {}
    \/ Begins(s)
    \/ /\ Connects(s)
       /\ status[s].opened = real[s].open /\ status[s].proto = real[s].proto
       /\ (VerdictIn(line) = {1} <=> real[s].conn) /\ ~status[s].connected
    \/ Closes(s) /\ op.sent /\ ~real[s].open
    \/ Agrees(s) /\ ~Connects(s)

\* The socket has a datagram that is announced or about to be fetched.
Due(s) == \/ status[s].rd > 0 \/ status[s].rf > 0 \/ AnnouncedIn(line, s)
          \/ op.k = "fetch" /\ op.s = s /\ ~op.sent

\* A UDP socket is known, and so are its datagrams.
DatagramsRight ==
  flaw \subseteq {"overtaken"} =>
    \A s \in Sockets : (real[s].open /\ real[s].proto = "UDP" /\ ~Begins(s)) =>
      /\ status[s].opened /\ status[s].proto = "UDP" /\ ComingIn(line, s) = {}
      /\ real[s].q > 0 => Due(s)
      /\ ~ (Closes(s) /\ op.sent /\ VerdictIn(line) = {1})

\* A command that was sent finds no answer to another on the line, unless it was mistaken.
LateRight == op.sent => \A i \in DOMAIN line : line[i].k # "late"

SocketInv ==
  /\ Typed /\ CallRight /\ EndsRight /\ LineRight /\ OpenRight /\ HandlersRight
  /\ FetchedRight /\ LeakRight /\ NewsRight /\ UseRight /\ BeliefRight /\ DatagramsRight

-----------------------------------------------------------------------------
(* The steps. *)

\* The line without news, but maybe with an announcement or the end of a connection.
LEMMA NoNews ==
    ASSUME Typed, LineRight, NEW k \in {"rd", "rf", "co", "cl"}, NEW s \in Sockets, NEW n \in Nat,
           k \in {"rd", "rf"} => n > 0
    PROVE  LET t == Append(line, Unsolicited(k, s, n)) IN
           /\ t \in Seq(Spoken) /\ InOrder(t, op.gen) /\ OneResult(t)
           /\ \A x \in Sockets : ComingIn(t, x) = ComingIn(line, x)
           /\ VerdictIn(t) = VerdictIn(line)
           /\ \A x \in Sockets : AnnouncedIn(line, x) => AnnouncedIn(t, x)
           /\ k \in {"rd", "rf"} => AnnouncedIn(t, s) /\ (PlainIn(line) => PlainIn(t))
<1> DEFINE e == Unsolicited(k, s, n)
<1>1. e \in Spoken /\ e.k = k /\ e.s = s
  BY DEF Unsolicited, Spoken, Notices
<1>2. line \in Seq(Spoken) /\ InOrder(line, op.gen) /\ OneResult(line)
  BY DEF Typed, LineRight
<1> HIDE DEF e
<1>3. e.k # "li" /\ e.k # "result"
  BY <1>1
<1> QED
  BY <1>1, <1>2, <1>3, Appended DEF e

\* What CallRight says of each kind of call.
LEMMA Calls ==
    ASSUME CallRight
    PROVE  /\ op \in Call /\ op.gen \in Nat /\ op.gen <= opens /\ op.sent \in BOOLEAN /\ op.got \in Nat
           /\ op.k \in {"idle", "open", "close", "fetch"}
           /\ op # Nothing <=> op.k # "idle"
           /\ op.k = "idle" => op.s = -1 /\ ~op.sent /\ op.got = 0
           /\ op.s # -1 => op.s \in Sockets
           /\ op.got > 0 => op.k = "fetch"
           /\ op.k = "open" => op.todo \in Agenda
           /\ op.k = "close" => op.todo = <<"close">> /\ Step = "close" /\ op.s \in Sockets
           /\ op.k = "fetch" => /\ op.todo \in {<<"rd">>, <<"rf">>} /\ Step \in {"rd", "rf"}
                                /\ op.s \in Sockets
<1>1. op \in Call /\ op.gen <= opens
  BY DEF CallRight
<1>2. /\ op.gen \in Nat /\ op.sent \in BOOLEAN /\ op.got \in Nat
      /\ op.s # -1 => op.s \in Sockets
  BY <1>1 DEF Call
<1>3. CASE op = Nothing
  BY <1>1, <1>2, <1>3 DEF Nothing
<1>4. CASE op # Nothing
  <2>1. op.k \in {"open", "close", "fetch"}
    BY <1>4 DEF CallRight
  <2>2. op.got > 0 => op.k = "fetch"
    BY <1>4 DEF CallRight
  <2>3. /\ op.k = "open" => op.todo \in Agenda
        /\ op.k = "close" => op.todo = <<"close">> /\ op.s # -1
        /\ op.k = "fetch" => op.todo \in {<<"rd">>, <<"rf">>} /\ op.s # -1
    BY <1>4 DEF CallRight
  <2> QED
    BY <1>1, <1>2, <1>4, <2>1, <2>2, <2>3 DEF Step
<1> QED
  BY <1>3, <1>4

\* What may come after a command of a composite call.
LEMMA Tails ==
    ASSUME NEW todo \in Agenda
    PROVE  /\ todo # <<>>
           /\ Tail(todo) = <<>> \/ (Tail(todo) \in Agenda /\ Head(Tail(todo)) \notin {"UDP", "TCP"})
           /\ Head(todo) \in {"UDP", "TCP", "listen", "connect", "accept", "handler"}
           /\ Head(todo) = "handler" /\ todo # <<"handler">> =>
                Tail(todo) \in {<<"connect">>, <<"accept">>}
           /\ Head(todo) \in {"UDP", "TCP"} =>
                /\ Tail(todo) # <<>>
                /\ Head(todo) = "TCP" => Tail(todo) \notin {<<"handler">>, <<"connect", "handler">>}
           /\ Head(todo) = "listen" => Tail(todo) \in {<<>>, <<"connect">>}
           /\ Head(todo) = "accept" => Tail(todo) = <<>>
           /\ Head(todo) = "connect" => todo \in {<<"connect">>, <<"connect", "handler">>}
<1>1. CASE todo = <<"UDP", "listen">>
  <2>1. Head(todo) = "UDP" /\ Tail(todo) = <<"listen">>
    BY <1>1
  <2> QED
    BY <1>1, <2>1 DEF Agenda
<1>2. CASE todo = <<"listen">>
  <2>1. Head(todo) = "listen" /\ Tail(todo) = <<>>
    BY <1>2
  <2> QED
    BY <1>2, <2>1 DEF Agenda
<1>3. CASE todo = <<"UDP", "handler">>
  <2>1. Head(todo) = "UDP" /\ Tail(todo) = <<"handler">>
    BY <1>3
  <2> QED
    BY <1>3, <2>1 DEF Agenda
<1>4. CASE todo = <<"handler">>
  <2>1. Head(todo) = "handler" /\ Tail(todo) = <<>>
    BY <1>4
  <2> QED
    BY <1>4, <2>1 DEF Agenda
<1>5. CASE todo = <<"UDP", "connect", "handler">>
  <2>1. Head(todo) = "UDP" /\ Tail(todo) = <<"connect", "handler">>
    BY <1>5
  <2> QED
    BY <1>5, <2>1 DEF Agenda
<1>6. CASE todo = <<"connect", "handler">>
  <2>1. Head(todo) = "connect" /\ Tail(todo) = <<"handler">>
    BY <1>6
  <2> QED
    BY <1>6, <2>1 DEF Agenda
<1>7. CASE todo = <<"UDP", "listen", "connect">>
  <2>1. Head(todo) = "UDP" /\ Tail(todo) = <<"listen", "connect">>
    BY <1>7
  <2> QED
    BY <1>7, <2>1 DEF Agenda
<1>8. CASE todo = <<"listen", "connect">>
  <2>1. Head(todo) = "listen" /\ Tail(todo) = <<"connect">>
    BY <1>8
  <2> QED
    BY <1>8, <2>1 DEF Agenda
<1>9. CASE todo = <<"connect">>
  <2>1. Head(todo) = "connect" /\ Tail(todo) = <<>>
    BY <1>9
  <2> QED
    BY <1>9, <2>1 DEF Agenda
<1>10. CASE todo = <<"TCP", "handler", "connect">>
  <2>1. Head(todo) = "TCP" /\ Tail(todo) = <<"handler", "connect">>
    BY <1>10
  <2> QED
    BY <1>10, <2>1 DEF Agenda
<1>11. CASE todo = <<"handler", "connect">>
  <2>1. Head(todo) = "handler" /\ Tail(todo) = <<"connect">>
    BY <1>11
  <2> QED
    BY <1>11, <2>1 DEF Agenda
<1>12. CASE todo = <<"TCP", "handler", "accept">>
  <2>1. Head(todo) = "TCP" /\ Tail(todo) = <<"handler", "accept">>
    BY <1>12
  <2> QED
    BY <1>12, <2>1 DEF Agenda
<1>13. CASE todo = <<"handler", "accept">>
  <2>1. Head(todo) = "handler" /\ Tail(todo) = <<"accept">>
    BY <1>13
  <2> QED
    BY <1>13, <2>1 DEF Agenda
<1>14. CASE todo = <<"accept">>
  <2>1. Head(todo) = "accept" /\ Tail(todo) = <<>>
    BY <1>14
  <2> QED
    BY <1>14, <2>1 DEF Agenda
<1> QED
  BY <1>1, <1>2, <1>3, <1>4, <1>5, <1>6, <1>7, <1>8, <1>9, <1>10, <1>11, <1>12, <1>13, <1>14 DEF Agenda

\* Data arrives.
LEMMA ArriveStep ==
    ASSUME SocketInv, NEW a \in Sockets, Arrive(a)
    PROVE  SocketInv'
<1>1. Typed /\ LineRight /\ CallRight
  BY DEF SocketInv
<1>2. /\ UNCHANGED <<status, op, owned, opens, flaw, mixed, sky>>
      /\ real' = [real EXCEPT ![a].q = @ + 1] /\ units' = units + 1
      /\ real[a].open /\ (real[a].conn \/ real[a].listens)
  BY DEF Arrive
<1>3. PICK n \in {1, 2} :
        line' = CASE real[a].proto = "TCP" -> Append(line, Unsolicited("rd", a, real[a].q + 1))
                  [] real[a].proto = "UDP" /\ real[a].q = 0 -> Append(line, [Announces(real[a], a) EXCEPT !.n = n])
                  [] OTHER -> line
  BY DEF Arrive
<1>4. /\ real' \in [Sockets -> Ends] /\ units' \in Nat
      /\ \A s \in Sockets : /\ real'[s].open = real[s].open /\ real'[s].gen = real[s].gen
                            /\ real'[s].proto = real[s].proto /\ real'[s].conn = real[s].conn
                            /\ real'[s].listens = real[s].listens
                            /\ s # a => real'[s] = real[s]
  <2>1. real \in [Sockets -> Ends] /\ units \in Nat
    BY <1>1 DEF Typed
  <2>2. real[a] \in Ends /\ real[a].q \in Nat
    BY <2>1 DEF Ends
  <2>3. [real[a] EXCEPT !.q = @ + 1] \in Ends
    BY <2>2 DEF Ends
  <2> QED
    BY <1>2, <2>1, <2>3 DEF Ends
<1>5. /\ line' \in Seq(Spoken) /\ InOrder(line', op.gen) /\ OneResult(line')
      /\ \A s \in Sockets : ComingIn(line', s) = ComingIn(line, s)
      /\ VerdictIn(line') = VerdictIn(line)
      /\ \A s \in Sockets : AnnouncedIn(line, s) => AnnouncedIn(line', s)
      /\ PlainIn(line) => PlainIn(line')
      /\ real[a].q = 0 => AnnouncedIn(line', a)
  <2>1. real[a].q \in Nat
    BY <1>1 DEF Typed, Ends
  <2>5. real[a].proto \in {"UDP", "TCP"}
    BY <1>2 DEF SocketInv, EndsRight
  <2>2. CASE real[a].proto = "TCP"
    <3>1. line' = Append(line, Unsolicited("rd", a, real[a].q + 1))
      BY <1>3, <2>2
    <3>2. real[a].q + 1 \in Nat /\ real[a].q + 1 > 0
      BY <2>1
    <3> QED
      BY <1>1, <3>1, <3>2, NoNews
  <2>3. CASE real[a].proto = "UDP" /\ real[a].q = 0
    <3>1. PICK k \in {"rd", "rf"} : [Announces(real[a], a) EXCEPT !.n = n] = Unsolicited(k, a, n)
      BY DEF Announces, Unsolicited
    <3>2. line' = Append(line, Unsolicited(k, a, n)) /\ n \in Nat /\ n > 0
      BY <1>3, <2>3, <3>1
    <3> QED
      BY <1>1, <3>2, NoNews
  <2>4. CASE real[a].proto = "UDP" /\ real[a].q # 0
    <3>1. line' = line
      BY <1>3, <2>4
    <3> QED
      BY <1>1, <2>4, <3>1 DEF Typed, LineRight
  <2> QED
    BY <2>2, <2>3, <2>4, <2>5
<1>6. Typed'
  BY <1>1, <1>2, <1>4, <1>5 DEF Typed
<1>7. CallRight'
  BY <1>1, <1>2 DEF CallRight, Step
<1>8. EndsRight'
  <2> SUFFICES ASSUME NEW s \in Sockets
               PROVE  /\ ~real'[s].open => real'[s] = Shut
                      /\ real'[s].open => real'[s].gen <= opens /\ real'[s].proto \in {"UDP", "TCP"}
                      /\ real'[s].q > 0 => real'[s].conn \/ real'[s].listens
    BY <1>2 DEF EndsRight
  <2>1. /\ ~real[s].open => real[s] = Shut
        /\ real[s].open => real[s].gen <= opens /\ real[s].proto \in {"UDP", "TCP"}
        /\ real[s].q > 0 => real[s].conn \/ real[s].listens
    BY DEF SocketInv, EndsRight
  <2>2. CASE s = a
    BY <1>2, <1>4, <2>1, <2>2
  <2>3. CASE s # a
    BY <1>4, <2>1, <2>3
  <2> QED
    BY <2>2, <2>3
<1>9. LineRight'
  BY <1>1, <1>2, <1>4, <1>5 DEF LineRight, Step
<1>10. OpenRight'
  BY <1>1, <1>2, <1>4, <1>5, Calls DEF SocketInv, OpenRight, Fresh, Step
<1>11. HandlersRight'
  BY <1>2, <1>4, <1>5 DEF SocketInv, HandlersRight, Fresh, Begins, Opens, Step
<1>12. FetchedRight'
  BY <1>1, <1>2, <1>4, <1>5, Calls DEF SocketInv, FetchedRight, Fresh
<1>13. LeakRight'
  BY <1>2, <1>4, <1>5 DEF SocketInv, LeakRight, Opens, Closes
<1>14. NewsRight'
  BY <1>2, <1>4, <1>5 DEF SocketInv, NewsRight, Quiet
<1>15. UseRight'
  BY <1>1, <1>2, <1>4, <1>5, Calls DEF SocketInv, Typed, UseRight, Quiet, Opens, Closes
<1>16. BeliefRight'
  BY <1>2, <1>4, <1>5 DEF SocketInv, BeliefRight, Connects, Quiet, Opens, Closes, Begins, Agrees, Step
<1>17. DatagramsRight'
  <2> SUFFICES ASSUME flaw \subseteq {"overtaken"}, NEW s \in Sockets, 
                      real'[s].open /\ real'[s].proto = "UDP" /\ ~Begins(s)'
               PROVE  /\ status'[s].opened /\ status'[s].proto = "UDP" /\ ComingIn(line', s) = {}
                      /\ real'[s].q > 0 => Due(s)'
                      /\ ~ (Closes(s)' /\ op'.sent /\ VerdictIn(line') = {1})
    BY <1>2 DEF DatagramsRight
  <2>1. /\ status[s].opened /\ status[s].proto = "UDP" /\ ComingIn(line, s) = {}
        /\ real[s].q > 0 => Due(s)
        /\ ~ (Closes(s) /\ op.sent /\ VerdictIn(line) = {1})
    BY <1>2, <1>4 DEF SocketInv, DatagramsRight, Begins, Opens, Step
  <2>2. Due(s) => Due(s)'
    BY <1>2, <1>5 DEF Due
  <2>3. AnnouncedIn(line', s) => Due(s)'
    BY <1>2 DEF Due
  <2>4. real[s].q \in Nat
    BY <1>1 DEF Typed, Ends
  <2> QED
    BY <1>2, <1>4, <1>5, <2>1, <2>2, <2>3, <2>4 DEF Closes
<1> QED
  BY <1>6, <1>7, <1>8, <1>9, <1>10, <1>11, <1>12, <1>13, <1>14, <1>15, <1>16, <1>17 DEF SocketInv

\* A connection comes in.
LEMMA IncomingStep ==
    ASSUME SocketInv, NEW on \in Sockets, Incoming(on)
    PROVE  SocketInv'
<1>1. Typed /\ LineRight /\ CallRight
  BY DEF SocketInv
<1>2. UNCHANGED <<status, op, owned, units, flaw, mixed, sky>> /\ opens' = opens + 1
  BY DEF Incoming
<1>3. PICK c \in Sockets :
        /\ ~real[c].open
        /\ real' = [real EXCEPT ![c] = [Shut EXCEPT !.open = TRUE, !.gen = opens + 1, !.proto = "TCP", !.conn = TRUE]]
        /\ line' = Append(line, [k |-> "li", s |-> c, n |-> 0, on |-> on, gen |-> opens + 1])
  BY DEF Incoming, Free
<1>4. opens \in Nat /\ opens + 1 \in Nat /\ op.gen \in Nat /\ op.gen <= opens
  BY <1>1, Calls DEF Typed
<1>5. /\ real' \in [Sockets -> Ends]
      /\ \A s \in Sockets \ {c} : real'[s] = real[s]
      /\ real'[c].open /\ real'[c].gen = opens + 1 /\ real'[c].proto = "TCP" /\ real'[c].conn /\ real'[c].q = 0
  <2>1. [Shut EXCEPT !.open = TRUE, !.gen = opens + 1, !.proto = "TCP", !.conn = TRUE] \in Ends
    BY <1>4 DEF Ends, Shut, Protocols
  <2> QED
    BY <1>1, <1>3, <2>1 DEF Typed, Shut
<1>6. /\ line' \in Seq(Spoken) /\ InOrder(line', op.gen) /\ OneResult(line')
      /\ ComingIn(line', c) = ComingIn(line, c) \cup {opens + 1}
      /\ \A s \in Sockets \ {c} : ComingIn(line', s) = ComingIn(line, s)
      /\ VerdictIn(line') = VerdictIn(line)
      /\ \A s \in Sockets : AnnouncedIn(line, s) => AnnouncedIn(line', s)
      /\ PlainIn(line) => PlainIn(line')
  <2> DEFINE e == [k |-> "li", s |-> c, n |-> 0, on |-> on, gen |-> opens + 1]
  <2>1. e \in Spoken /\ e.k = "li" /\ e.gen = opens + 1 /\ e.s = c
    BY <1>4 DEF Spoken, Notices
  <2>2. line \in Seq(Spoken) /\ InOrder(line, op.gen) /\ OneResult(line)
    BY <1>1 DEF Typed, LineRight
  <2>3. line' = Append(line, e)
    BY <1>3
  <2> HIDE DEF e
  <2>4. \A s \in Sockets : \A h \in ComingIn(line, s) : h < e.gen
    BY <1>1, <1>4, <2>1 DEF LineRight
  <2>5. op.gen < e.gen /\ e.k # "result" /\ e.k \notin {"co", "cl"}
    BY <1>4, <2>1
  <2> QED
    BY <2>1, <2>2, <2>3, <2>4, <2>5, Appended
<1>7. Typed'
  BY <1>1, <1>2, <1>4, <1>5, <1>6 DEF Typed
<1>8. CallRight'
  BY <1>1, <1>2, <1>4 DEF CallRight, Step
<1>9. EndsRight'
  <2> SUFFICES ASSUME NEW s \in Sockets
               PROVE  /\ ~real'[s].open => real'[s] = Shut
                      /\ real'[s].open => real'[s].gen <= opens + 1 /\ real'[s].proto \in {"UDP", "TCP"}
                      /\ real'[s].q > 0 => real'[s].conn \/ real'[s].listens
    BY <1>2 DEF EndsRight
  <2>1. CASE s = c
    BY <1>4, <1>5, <2>1
  <2>2. CASE s # c
    <3>1. real'[s] = real[s] /\ real[s].gen \in Nat
      BY <1>1, <1>5, <2>2 DEF Typed, Ends
    <3>2. real[s].open => real[s].gen <= opens + 1
      BY <1>4, <3>1 DEF SocketInv, EndsRight
    <3> QED
      BY <3>1, <3>2 DEF SocketInv, EndsRight
  <2> QED
    BY <2>1, <2>2
<1>10. LineRight'
  <2>1. ASSUME NEW s \in Sockets, NEW g \in ComingIn(line', s)
        PROVE  g \in Nat /\ g <= opens + 1 /\ (real'[s].open => g <= real'[s].gen)
    <3>1. CASE g \in ComingIn(line, s)
      <4>1. g \in Nat /\ g <= opens /\ (real[s].open => g <= real[s].gen)
        BY <1>1, <3>1 DEF LineRight
      <4> QED
        BY <1>4, <1>5, <4>1
    <3>2. CASE s = c /\ g = opens + 1
      BY <1>4, <1>5, <3>2
    <3> QED
      BY <1>6, <2>1, <3>1, <3>2
  <2> QED
    BY <1>1, <1>2, <1>6, <2>1 DEF LineRight, Step
<1>11. OpenRight'
  BY <1>1, <1>2, <1>3, <1>5, <1>6, Calls DEF SocketInv, OpenRight, Fresh, Step
<1>12. HandlersRight'
  BY <1>2, <1>5, <1>6 DEF SocketInv, HandlersRight, Fresh, Begins, Opens, Step
<1>13. FetchedRight'
  <2> SUFFICES ASSUME "overtaken" \notin flaw, op.got > 0, Fresh(op.s, op.gen), op.s \in Sockets
               PROVE  Fresh(op.s, op.gen)'
    BY <1>1, <1>2, <1>6, Calls DEF SocketInv, FetchedRight
  <2> QED
    BY <1>2, <1>4, <1>6 DEF Fresh
<1>14. LeakRight'
  BY <1>2, <1>5, <1>6 DEF SocketInv, LeakRight, Opens, Closes
<1>15. NewsRight'
  <2> SUFFICES ASSUME Quiet, NEW s \in Sockets, NEW g \in ComingIn(line', s)
               PROVE  real'[s].open /\ g = real'[s].gen /\ real'[s].proto = "TCP" /\ real'[s].conn
    BY <1>2, <1>6 DEF SocketInv, NewsRight, Quiet
  <2>1. CASE g \in ComingIn(line, s)
    BY <1>3, <1>5, <2>1 DEF SocketInv, NewsRight
  <2>2. CASE s = c /\ g = opens + 1
    BY <1>5, <2>2
  <2> QED
    BY <1>6, <2>1, <2>2
<1>16. UseRight'
  <2> SUFFICES ASSUME Quiet PROVE UseRight'
    BY <1>2 DEF UseRight, Quiet
  <2>1. ASSUME NEW s \in owned
        PROVE  real'[s].open /\ ComingIn(line', s) = {} /\ ~Opens(s) /\ ~Closes(s)
    BY <1>1, <1>3, <1>5, <1>6 DEF SocketInv, Typed, UseRight
  <2>2. (op.k = "open" /\ op.s # -1) \/ (op.k = "close" /\ ~op.sent)
          => real'[op.s].open /\ ComingIn(line', op.s) = {}
    BY <1>1, <1>3, <1>5, <1>6, Calls DEF SocketInv, UseRight
  <2>3. ASSUME op.k = "close", op.sent
        PROVE  /\ VerdictIn(line') = {1} /\ \A g \in ComingIn(line', op.s) : op.gen < g
               /\ real'[op.s].open => ComingIn(line', op.s) # {}
    <3>1. /\ VerdictIn(line) = {1} /\ \A g \in ComingIn(line, op.s) : op.gen < g
          /\ real[op.s].open => ComingIn(line, op.s) # {}
      BY <2>3 DEF SocketInv, UseRight
    <3>2. op.s \in Sockets /\ op.gen < opens + 1
      BY <1>1, <1>4, <2>3, Calls
    <3> QED
      BY <1>5, <1>6, <3>1, <3>2
  <2> QED
    BY <1>2, <2>1, <2>2, <2>3 DEF UseRight, Quiet, Opens, Closes
<1>17. BeliefRight'
  <2>1. \A s \in Sockets : /\ Opens(s)' <=> Opens(s)
                           /\ Begins(s)' <=> Begins(s)
                           /\ Connects(s)' <=> Connects(s)
                           /\ Closes(s)' <=> Closes(s)
    BY <1>2 DEF Opens, Begins, Connects, Closes, Step
  <2> QED
    BY <1>2, <1>5, <1>6, <2>1 DEF SocketInv, BeliefRight, Quiet, Agrees
<1>18. DatagramsRight'
  BY <1>2, <1>5, <1>6 DEF SocketInv, DatagramsRight, Due, Opens, Closes, Begins, Step
<1> QED
  BY <1>7, <1>8, <1>9, <1>10, <1>11, <1>12, <1>13, <1>14, <1>15, <1>16, <1>17, <1>18 DEF SocketInv


\* The other side hangs up.
LEMMA HangupStep ==
    ASSUME SocketInv, NEW a \in Sockets, Hangup(a)
    PROVE  SocketInv'
<1>1. Typed /\ LineRight /\ CallRight
  BY DEF SocketInv
<1>2. /\ UNCHANGED <<status, op, owned, opens, units, flaw, mixed, sky>>
      /\ real[a].open /\ real[a].proto = "TCP" /\ real[a].conn
      /\ real' = [real EXCEPT ![a] = Shut]
      /\ line' = Append(line, Unsolicited("cl", a, 0))
      /\ ~Quiet
  BY DEF Hangup, Can, Quiet
<1>3. /\ real' \in [Sockets -> Ends] /\ real'[a] = Shut /\ ~real'[a].open /\ real'[a].q = 0
      /\ \A s \in Sockets \ {a} : real'[s] = real[s]
  <2>1. Shut \in Ends
    BY DEF Ends, Shut, Protocols
  <2> QED
    BY <1>1, <1>2, <2>1 DEF Typed, Shut
<1>4. /\ line' \in Seq(Spoken) /\ InOrder(line', op.gen) /\ OneResult(line')
      /\ \A s \in Sockets : ComingIn(line', s) = ComingIn(line, s)
      /\ VerdictIn(line') = VerdictIn(line)
      /\ \A s \in Sockets : AnnouncedIn(line, s) => AnnouncedIn(line', s)
  BY <1>1, <1>2, NoNews
<1>5. Typed' /\ CallRight'
  BY <1>1, <1>2, <1>3, <1>4 DEF Typed, CallRight, Step
<1>6. EndsRight'
  BY <1>2, <1>3 DEF SocketInv, EndsRight
<1>7. LineRight'
  BY <1>1, <1>2, <1>3, <1>4 DEF LineRight, Step
<1>8. OpenRight'
  <2> SUFFICES ASSUME op.k = "open", op.s # -1, ~(op.todo = <<"connect">> /\ op.sent)
               PROVE  OpenRight'
    BY <1>2 DEF OpenRight
  <2>1. /\ real[op.s].open /\ real[op.s].gen = op.gen
        /\ Step \in {"UDP", "TCP"} =>
             real[op.s].proto = Step /\ ~real[op.s].conn /\ ~real[op.s].listens
        /\ Step \notin {"UDP", "TCP"} =>
             /\ Fresh(op.s, op.gen)
             /\ real[op.s].conn => op.todo = <<"handler">> \/ (Step = "connect" /\ op.sent)
             /\ real[op.s].proto = "TCP" => op.todo \notin {<<"handler">>, <<"connect", "handler">>}
    BY DEF SocketInv, OpenRight
  <2>2. op.s # a
    <3> SUFFICES ASSUME op.s = a PROVE FALSE
      OBVIOUS
    <3>1. Step = "connect" /\ op.sent /\ op.todo # <<"connect", "handler">>
      BY <1>2, <2>1
    <3> QED
      BY <1>1, <3>1, Calls, Tails DEF Step
  <2> QED
    BY <1>1, <1>2, <1>3, <1>4, <2>1, <2>2, Calls DEF OpenRight, Fresh, Step
<1>9. HandlersRight'
  BY <1>2, <1>3, <1>4 DEF SocketInv, HandlersRight, Fresh, Begins, Opens, Step
<1>10. FetchedRight'
  BY <1>1, <1>2, <1>4, Calls DEF SocketInv, FetchedRight, Fresh
<1>11. LeakRight'
  BY <1>2, <1>3, <1>4 DEF SocketInv, LeakRight, Opens, Closes
<1>12. NewsRight' /\ UseRight' /\ BeliefRight'
  BY <1>2 DEF NewsRight, UseRight, BeliefRight, Connects, Quiet
<1>13. DatagramsRight'
  BY <1>2, <1>3, <1>4 DEF SocketInv, DatagramsRight, Due, Opens, Closes, Begins, Step
<1> QED
  BY <1>5, <1>6, <1>7, <1>8, <1>9, <1>10, <1>11, <1>12, <1>13 DEF SocketInv

\* A plan opens the socket with its first command, and the rest is an agenda.
LEMMA Plan ==
    ASSUME NEW p \in Plans
    PROVE  Steps(p) \in Agenda /\ Head(Steps(p)) \in {"UDP", "TCP"}
<1>1. p \in {"listenUDP", "listenUDPbug", "connectUDP", "listenConnectUDP", "listenConnectTCP", "acceptTCP"}
  BY SocketAssumption
<1> QED
  BY <1>1 DEF Steps, Agenda

\* No socket has the number of none.
LEMMA NoSocket == -1 \notin Sockets
  BY SocketAssumption

\* A call that just began has not sent anything.
LEMMA Idle ==
    ASSUME SocketInv, op = Nothing
    PROVE  /\ op.k = "idle" /\ op.s = -1 /\ ~op.sent /\ VerdictIn(line) = {}
           /\ \A s \in Sockets : ~Opens(s) /\ ~Closes(s) /\ ~Begins(s)
           /\ \A g : InOrder(line, g)
<1>1. op.k = "idle" /\ op.s = -1 /\ ~op.sent
  BY DEF Nothing
<1>2. VerdictIn(line) = {}
  BY <1>1 DEF SocketInv, LineRight
<1>3. ASSUME NEW g PROVE InOrder(line, g)
  <2>1. \A i \in DOMAIN line : line[i].k # "result"
    BY <1>2 DEF VerdictIn
  <2> QED
    BY <2>1 DEF SocketInv, LineRight, InOrder
<1> QED
  BY <1>1, <1>2, <1>3 DEF Opens, Closes, Begins

\* The application opens a socket.
LEMMA OpenStep ==
    ASSUME SocketInv, Open
    PROVE  SocketInv'
<1>1. Typed /\ LineRight /\ CallRight
  BY DEF SocketInv
<1>2. op = Nothing /\ UNCHANGED <<status, real, line, owned, opens, units, flaw, mixed, sky>>
  BY DEF Open
<1>3. PICK p \in Plans : op' = Opening(p)
  BY DEF Open
<1>4. /\ op'.k = "open" /\ op'.s = -1 /\ op'.gen = 0 /\ op'.todo = Steps(p) /\ ~op'.sent /\ op'.got = 0
      /\ op'.sent \in BOOLEAN
  BY <1>3 DEF Opening, Nothing
<1>5. op'.todo \in Agenda /\ Step' \in {"UDP", "TCP"} /\ op' \in Call
  BY <1>3, <1>4, Plan DEF Step, Call, Opening, Nothing
<1>6. \A s \in Sockets : ~Opens(s)' /\ ~Closes(s)' /\ ~Begins(s)'
  BY <1>4, NoSocket DEF Opens, Closes, Begins
<1>7. Typed'
  BY <1>1, <1>2 DEF Typed
<1>8. CallRight'
  BY <1>1, <1>2, <1>4, <1>5 DEF CallRight, Typed
<1>9. EndsRight'
  BY <1>2 DEF SocketInv, EndsRight
<1>10. LineRight'
  BY <1>1, <1>2, <1>4, Idle DEF LineRight
<1>11. OpenRight' /\ FetchedRight'
  BY <1>2, <1>4 DEF SocketInv, OpenRight, FetchedRight
<1>12. HandlersRight'
  BY <1>2, <1>6, Idle DEF SocketInv, HandlersRight, Fresh
<1>13. LeakRight'
  BY <1>2, <1>6, Idle DEF SocketInv, LeakRight
<1>14. NewsRight' /\ UseRight'
  BY <1>1, <1>2, <1>4, <1>6 DEF SocketInv, Typed, NewsRight, UseRight, Quiet
<1>15. BeliefRight'
  BY <1>2, <1>6, Idle DEF SocketInv, BeliefRight, Connects, Quiet, Agrees
<1>16. DatagramsRight'
  BY <1>2, <1>6, Idle DEF SocketInv, DatagramsRight, Due
<1> QED
  BY <1>7, <1>8, <1>9, <1>10, <1>11, <1>12, <1>13, <1>14, <1>15, <1>16 DEF SocketInv

\* The application closes a socket.
LEMMA CloseStep ==
    ASSUME SocketInv, NEW a \in Sockets, Close(a)
    PROVE  SocketInv'
<1>1. Typed /\ LineRight /\ CallRight
  BY DEF SocketInv
<1>2. /\ op = Nothing /\ UNCHANGED <<status, real, line, opens, units, flaw, mixed, sky>>
      /\ op' = Closing(a) /\ a \in owned /\ owned' = owned \ {a}
  BY DEF Close
<1>3. /\ op'.k = "close" /\ op'.s = a /\ op'.gen = 0 /\ op'.todo = <<"close">> /\ ~op'.sent /\ op'.got = 0
      /\ op' \in Call
  BY <1>2 DEF Closing, Nothing, Call
<1>4. a # -1
  BY NoSocket
<1>5. \A s \in Sockets : ~Opens(s)' /\ (Closes(s)' <=> s = a) /\ ~Begins(s)'
  BY <1>3 DEF Opens, Closes, Begins
<1>6. Typed'
  BY <1>1, <1>2 DEF Typed
<1>7. CallRight'
  BY <1>1, <1>2, <1>3, <1>4 DEF CallRight, Typed
<1>8. EndsRight'
  BY <1>2 DEF SocketInv, EndsRight
<1>9. LineRight'
  BY <1>1, <1>2, <1>3, Idle DEF LineRight
<1>10. OpenRight' /\ FetchedRight'
  BY <1>2, <1>3 DEF SocketInv, OpenRight, FetchedRight
<1>11. HandlersRight'
  BY <1>2, <1>5, Idle DEF SocketInv, HandlersRight, Fresh
<1>12. LeakRight'
  BY <1>2, <1>3, <1>5, Idle DEF SocketInv, LeakRight
<1>13. NewsRight' /\ UseRight'
  BY <1>1, <1>2, <1>3, <1>5 DEF SocketInv, Typed, NewsRight, UseRight, Quiet
<1>14. BeliefRight'
  BY <1>2, <1>5, Idle DEF SocketInv, BeliefRight, Connects, Quiet, Agrees
<1>15. DatagramsRight'
  BY <1>2, <1>3, <1>5, Idle DEF SocketInv, DatagramsRight, Due
<1> QED
  BY <1>6, <1>7, <1>8, <1>9, <1>10, <1>11, <1>12, <1>13, <1>14, <1>15 DEF SocketInv

\* handleWaitingData resets what was announced and fetches it.
LEMMA HandleWaitingDataStep ==
    ASSUME SocketInv, NEW a \in Sockets, HandleWaitingData(a)
    PROVE  SocketInv'
<1>1. Typed /\ LineRight /\ CallRight
  BY DEF SocketInv
<1>2. op = Nothing /\ UNCHANGED <<real, line, owned, opens, units, mixed, sky>>
  BY DEF HandleWaitingData
<1>3. PICK how \in {"rd", "rf"} :
        /\ status' = [status EXCEPT ![a][how] = 0]
        /\ LET reads == /\ status[a].proto = "UDP" \/ (status[a].proto = "TCP" /\ how = "rd")
                        /\ Fetchable(status[a], how) IN
           /\ op' = IF reads THEN Fetching(a, how) ELSE op
           /\ flaw' = IF reads \/ ~status[a].opened THEN flaw ELSE flaw \cup {"refused"}
  BY DEF HandleWaitingData
<1>4. /\ status' \in [Sockets -> Beliefs]
      /\ \A s \in Sockets \ {a} : status'[s] = status[s]
      /\ \A s \in Sockets : /\ status'[s].data = status[s].data /\ status'[s].opened = status[s].opened
                            /\ status'[s].proto = status[s].proto
                            /\ status'[s].connected = status[s].connected
  <2>1. status \in [Sockets -> Beliefs] /\ status[a] \in Beliefs
    BY <1>1 DEF Typed
  <2>2. CASE how = "rd"
    <3>1. status' = [status EXCEPT ![a] = [@ EXCEPT !.rd = 0]]
      BY <1>3, <2>2
    <3> QED
      BY <2>1, <3>1 DEF Beliefs
  <2>3. CASE how = "rf"
    <3>1. status' = [status EXCEPT ![a] = [@ EXCEPT !.rf = 0]]
      BY <1>3, <2>3
    <3> QED
      BY <2>1, <3>1 DEF Beliefs
  <2> QED
    BY <2>2, <2>3
<1>5. /\ op' = op \/ op' = Fetching(a, how)
      /\ \/ flaw' = flaw /\ (op' = Fetching(a, how) \/ ~status[a].opened)
         \/ flaw' = flaw \cup {"refused"}
  BY <1>3, Zenon
<1>6. /\ op'.k \in {"idle", "fetch"} /\ ~op'.sent /\ op'.got = 0 /\ op'.gen = 0 /\ op'.sent \in BOOLEAN
      /\ op' = Nothing \/ (op'.k = "fetch" /\ op'.s = a /\ op'.todo \in {<<"rd">>, <<"rf">>})
      /\ op' \in Call
  <2>1. CASE op' = Nothing
    BY <2>1 DEF Nothing, Call
  <2>2. CASE op' = Fetching(a, how)
    <3>1. /\ op'.k = "fetch" /\ op'.s = a /\ ~op'.sent /\ op'.got = 0 /\ op'.gen = 0 /\ op'.sent \in BOOLEAN
          /\ op' = [k |-> "fetch", s |-> a, gen |-> 0, todo |-> <<how>>, sent |-> FALSE, got |-> 0]
      BY <2>2 DEF Fetching, Nothing
    <3>2. op'.todo \in {<<"rd">>, <<"rf">>}
      BY <3>1
    <3> QED
      BY <3>1, <3>2 DEF Call
  <2> QED
    BY <1>2, <1>5, <2>1, <2>2
<1>7. /\ "overtaken" \notin flaw' => "overtaken" \notin flaw
      /\ flaw' \subseteq {"overtaken"} => /\ flaw \subseteq {"overtaken"}
                                          /\ op' = Fetching(a, how) \/ ~status[a].opened
      /\ Quiet' => Quiet
  BY <1>2, <1>5 DEF Quiet
<1>8. \A s \in Sockets : ~Opens(s)' /\ ~Closes(s)' /\ ~Begins(s)'
  BY <1>6 DEF Opens, Closes, Begins
<1>9. Typed'
  BY <1>1, <1>2, <1>4 DEF Typed
<1>10. CallRight'
  BY <1>1, <1>2, <1>6, NoSocket DEF CallRight, Typed
<1>11. EndsRight'
  BY <1>2 DEF SocketInv, EndsRight
<1>12. LineRight'
  BY <1>1, <1>2, <1>6, Idle DEF LineRight
<1>13. OpenRight' /\ FetchedRight'
  BY <1>2, <1>6, <1>7 DEF SocketInv, OpenRight, FetchedRight
<1>14. HandlersRight'
  BY <1>2, <1>4, <1>8, Idle DEF SocketInv, HandlersRight, Fresh
<1>15. LeakRight'
  BY <1>2, <1>7, <1>8, Idle DEF SocketInv, LeakRight
<1>16. NewsRight' /\ UseRight'
  BY <1>1, <1>2, <1>6, <1>7, <1>8 DEF SocketInv, Typed, NewsRight, UseRight
<1>17. BeliefRight'
  BY <1>2, <1>4, <1>7, <1>8, Idle DEF SocketInv, BeliefRight, Connects, Agrees
<1>18. DatagramsRight'
  <2> SUFFICES ASSUME flaw' \subseteq {"overtaken"}, NEW s \in Sockets, real[s].open, real[s].proto = "UDP"
               PROVE  /\ status'[s].opened /\ status'[s].proto = "UDP" /\ ComingIn(line, s) = {}
                      /\ real[s].q > 0 => Due(s)'
    BY <1>2, <1>8 DEF DatagramsRight
  <2>1. /\ status[s].opened /\ status[s].proto = "UDP" /\ ComingIn(line, s) = {}
        /\ real[s].q > 0 => Due(s)
    BY <1>2, <1>7, Idle DEF SocketInv, DatagramsRight
  <2>2. CASE s = a
    <3>1. op' = Fetching(a, how)
      BY <1>7, <2>1, <2>2
    <3>2. Due(s)'
      BY <2>2, <3>1 DEF Due, Fetching, Nothing
    <3> QED
      BY <1>4, <2>1, <3>2
  <2>3. CASE s # a
    <3>1. Due(s) => Due(s)'
      BY <1>2, <1>4, <2>3, Idle DEF Due
    <3> QED
      BY <1>4, <2>1, <3>1
  <2> QED
    BY <2>2, <2>3
<1> QED
  BY <1>9, <1>10, <1>11, <1>12, <1>13, <1>14, <1>15, <1>16, <1>17, <1>18 DEF SocketInv

\* The handler of the data is set.
LEMMA SetHandlerStep ==
    ASSUME SocketInv, SetHandler
    PROVE  SocketInv'
<1> DEFINE a == op.s
<1>1. Typed /\ LineRight /\ CallRight
  BY DEF SocketInv
<1>2. /\ op # Nothing /\ ~op.sent /\ Step = "handler"
      /\ UNCHANGED <<real, line, opens, units, flaw, mixed, sky>>
      /\ status' = [status EXCEPT ![a].data = op.gen]
      /\ owned' = IF Tail(op.todo) = <<>> THEN owned \cup {a} ELSE owned
      /\ Continue(op)
  BY DEF SetHandler
<1>3. op.k = "open" /\ a # -1 /\ a \in Sockets /\ op.todo \in Agenda /\ op.got = 0
  BY <1>1, <1>2, Calls DEF CallRight
<1>4. /\ real[a].open /\ real[a].gen = op.gen /\ Fresh(a, op.gen)
      /\ real[a].conn => op.todo = <<"handler">>
      /\ real[a].proto = "TCP" => op.todo # <<"handler">>
  BY <1>2, <1>3 DEF SocketInv, OpenRight
<1>5. /\ status' \in [Sockets -> Beliefs] /\ status'[a].data = op.gen
      /\ \A s \in Sockets \ {a} : status'[s] = status[s]
      /\ \A s \in Sockets : /\ status'[s].opened = status[s].opened /\ status'[s].proto = status[s].proto
                            /\ status'[s].connected = status[s].connected
                            /\ status'[s].rd = status[s].rd /\ status'[s].rf = status[s].rf
  <2>1. status \in [Sockets -> Beliefs] /\ op.gen \in Nat
    BY <1>1, Calls DEF Typed
  <2>2. status[a] \in Beliefs
    BY <1>3, <2>1
  <2>3. [status[a] EXCEPT !.data = op.gen] \in Beliefs
    BY <2>1, <2>2 DEF Beliefs
  <2> QED
    BY <1>2, <1>3, <2>1, <2>2, <2>3 DEF Beliefs
<1> HIDE DEF a
<1>6. \A s \in Sockets : Begins(s) <=> FALSE
  BY <1>2 DEF Begins
<1>7. VerdictIn(line) = {} /\ \A g : InOrder(line, g)
  <2>1. VerdictIn(line) = {}
    BY <1>1, <1>2 DEF LineRight
  <2>2. \A i \in DOMAIN line : line[i].k # "result"
    BY <2>1 DEF VerdictIn
  <2> QED
    BY <1>1, <2>1, <2>2 DEF LineRight, InOrder
<1>8. CASE Tail(op.todo) = <<>>
  <2>1. op' = Nothing /\ op'.k = "idle" /\ op'.s = -1 /\ ~op'.sent /\ op'.got = 0 /\ owned' = owned \cup {a}
    BY <1>2, <1>8 DEF Continue, Nothing
  <2>2. \A s \in Sockets : ~Opens(s)' /\ ~Closes(s)' /\ ~Begins(s)'
    BY <2>1 DEF Opens, Closes, Begins
  <2>3. \A s \in Sockets : (Opens(s) <=> s = a) /\ ~Closes(s)
    BY <1>3 DEF Opens, Closes, a
  <2>4. Typed'
    BY <1>1, <1>2, <1>3, <1>5, <2>1 DEF Typed
  <2>5. CallRight'
    BY <1>1, <1>2, <2>1 DEF CallRight, Typed, Nothing, Call
  <2>6. EndsRight'
    BY <1>2 DEF SocketInv, EndsRight
  <2>7. LineRight'
    BY <1>1, <1>2, <1>7, <2>1 DEF LineRight
  <2>8. OpenRight' /\ FetchedRight'
    BY <1>2, <2>1 DEF SocketInv, OpenRight, FetchedRight
  <2>9. HandlersRight'
    BY <1>2, <1>4, <1>5, <1>6, <2>2, <2>3 DEF SocketInv, HandlersRight, Fresh
  <2>10. LeakRight'
    BY <1>2, <2>1, <2>3 DEF SocketInv, LeakRight
  <2>11. NewsRight' /\ UseRight'
    BY <1>1, <1>2, <1>3, <1>4, <2>1, <2>2, <2>3 DEF SocketInv, Typed, NewsRight, UseRight, Quiet, a
  <2>12. BeliefRight'
    BY <1>2, <1>5, <1>6, <2>2, <2>3 DEF SocketInv, BeliefRight, Connects, Quiet, Agrees
  <2>13. DatagramsRight'
    BY <1>2, <1>3, <1>5, <1>6, <2>2, <2>3 DEF SocketInv, DatagramsRight, Due
  <2> QED
    BY <2>4, <2>5, <2>6, <2>7, <2>8, <2>9, <2>10, <2>11, <2>12, <2>13 DEF SocketInv
<1>9. CASE Tail(op.todo) # <<>>
  <2>1. op' = [op EXCEPT !.todo = Tail(op.todo), !.sent = FALSE] /\ owned' = owned
    BY <1>2, <1>9 DEF Continue
  <2>2. op.todo # <<"handler">>
    <3>1. Tail(<<"handler">>) = <<>>
      OBVIOUS
    <3> QED
      BY <1>9, <3>1
  <2>3. /\ op'.k = "open" /\ op'.s = a /\ ~op'.sent /\ op'.got = 0 /\ op'.todo \in {<<"connect">>, <<"accept">>}
        /\ op'.gen = op.gen /\ op' \in Call /\ op.gen <= opens
    <3>1. Tail(op.todo) \in {<<"connect">>, <<"accept">>}
      BY <1>2, <1>3, <2>2, Tails DEF Step
    <3>2. op' \in Call
      BY <1>1, <2>1, <3>1, Calls DEF Call, Agenda
    <3> QED
      BY <1>1, <1>2, <1>3, <2>1, <3>1, <3>2, Calls DEF Call, a
  <2>4. op'.todo \in Agenda /\ Step' \notin {"UDP", "TCP"}
    BY <2>3 DEF Agenda, Step
  <2>5. \A s \in Sockets : (Opens(s)' <=> Opens(s)) /\ ~Closes(s)' /\ ~Closes(s) /\ ~Begins(s)'
    BY <1>3, <2>3 DEF Opens, Closes, Begins, a
  <2>6. Typed'
    BY <1>1, <1>2, <1>3, <1>5, <2>1 DEF Typed
  <2>7. CallRight'
    BY <1>2, <1>3, <2>3, <2>4 DEF CallRight
  <2>8. EndsRight'
    BY <1>2 DEF SocketInv, EndsRight
  <2>9. LineRight'
    BY <1>1, <1>2, <1>7, <2>3 DEF LineRight
  <2>10. ~real[a].conn
    BY <1>4, <2>2
  <2>11. OpenRight'
    <3>1. status'[a].data \in {0, op.gen} /\ \A h \in ComingIn(line, a) : op.gen <= h
      BY <1>4, <1>5 DEF Fresh
    <3>2. op'.todo \notin {<<"handler">>, <<"connect", "handler">>}
      BY <2>3
    <3> QED
      BY <1>2, <1>4, <2>3, <2>4, <2>10, <3>1, <3>2 DEF OpenRight, Fresh
  <2>12. FetchedRight'
    BY <1>2, <2>3 DEF SocketInv, FetchedRight
  <2>13. HandlersRight'
    BY <1>2, <1>4, <1>5, <1>6, <2>5 DEF SocketInv, HandlersRight, Fresh
  <2>14. LeakRight'
    BY <1>2, <2>1, <2>5 DEF SocketInv, LeakRight
  <2>15. NewsRight' /\ UseRight'
    BY <1>1, <1>2, <1>3, <2>1, <2>3, <2>5 DEF SocketInv, Typed, NewsRight, UseRight, Quiet, a
  <2>16. BeliefRight'
    BY <1>2, <1>5, <1>6, <2>3, <2>5 DEF SocketInv, BeliefRight, Connects, Quiet, Agrees
  <2>17. DatagramsRight'
    BY <1>2, <1>3, <1>5, <1>6, <2>5 DEF SocketInv, DatagramsRight, Due
  <2> QED
    BY <2>6, <2>7, <2>8, <2>9, <2>11, <2>12, <2>13, <2>14, <2>15, <2>16, <2>17 DEF SocketInv
<1> QED
  BY <1>8, <1>9

\* A call whose next command was not sent.
LEMMA Waiting ==
    ASSUME SocketInv, Waits
    PROVE  /\ ~op.sent /\ op.got = 0 /\ VerdictIn(line) = {} /\ \A g : InOrder(line, g)
           /\ \A s \in Sockets : ~Begins(s)
           /\ \/ op.k = "open" /\ op.s = -1 /\ Step \in {"UDP", "TCP"} /\ op.todo \in Agenda
              \/ /\ op.k = "open" /\ op.s \in Sockets /\ Step \in {"listen", "connect", "accept"}
                 /\ op.todo \in Agenda
                 /\ real[op.s].open /\ real[op.s].gen = op.gen /\ Fresh(op.s, op.gen) /\ ~real[op.s].conn
                 /\ real[op.s].proto = "TCP" => op.todo \notin {<<"handler">>, <<"connect", "handler">>}
              \/ op.k = "close" /\ op.s \in Sockets /\ Step = "close"
              \/ op.k = "fetch" /\ op.s \in Sockets /\ Step \in {"rd", "rf"}
<1>1. Typed /\ LineRight /\ CallRight
  BY DEF SocketInv
<1>2. ~op.sent /\ Step # "handler" /\ op # Nothing
  BY DEF Waits
<1>3. VerdictIn(line) = {} /\ op.got = 0
  <2>1. VerdictIn(line) = {} /\ ~(op.got > 0) /\ op.got \in Nat
    BY <1>1, <1>2, Calls DEF LineRight
  <2> QED
    BY <2>1
<1>4. \A g : InOrder(line, g)
  <2>1. \A i \in DOMAIN line : line[i].k # "result"
    BY <1>3 DEF VerdictIn
  <2> QED
    BY <1>1, <2>1 DEF LineRight, InOrder
<1>5. CASE op.k = "open" /\ op.s # -1
  <2>1. op.s \in Sockets /\ op.todo \in Agenda /\ Step \notin {"UDP", "TCP"}
    BY <1>1, <1>2, <1>5, Calls DEF CallRight, Nothing
  <2>2. Step \in {"listen", "connect", "accept"}
    BY <1>2, <2>1, Tails DEF Step
  <2>3. op.todo # <<"handler">>
    BY <1>2 DEF Step
  <2>4. /\ real[op.s].open /\ real[op.s].gen = op.gen /\ Fresh(op.s, op.gen) /\ ~real[op.s].conn
        /\ real[op.s].proto = "TCP" => op.todo \notin {<<"handler">>, <<"connect", "handler">>}
    BY <1>2, <1>5, <2>1, <2>3 DEF SocketInv, OpenRight
  <2> QED
    BY <1>2, <1>3, <1>4, <1>5, <2>1, <2>2, <2>4 DEF Begins
<1>6. CASE op.k = "open" /\ op.s = -1
  BY <1>1, <1>2, <1>3, <1>4, <1>6, Calls DEF Begins, CallRight, Nothing
<1>7. CASE op.k \in {"close", "fetch"}
  BY <1>1, <1>2, <1>3, <1>4, <1>7, Calls DEF Begins
<1> QED
  BY <1>1, <1>2, <1>5, <1>6, <1>7, Calls

\* The line with the result of a command.
LEMMA ResultSent ==
    ASSUME NEW ln \in Seq(Spoken), NEW g, InOrder(ln, g), OneResult(ln), VerdictIn(ln) = {},
           NEW ok \in BOOLEAN
    PROVE  LET t == Append(ln, Result(ok)) IN
           /\ t \in Seq(Spoken) /\ InOrder(t, g) /\ OneResult(t)
           /\ \A s \in Sockets : ComingIn(t, s) = ComingIn(ln, s)
           /\ ok => VerdictIn(t) = {1}
           /\ ~ok => VerdictIn(t) = {0}
           /\ \A s \in Sockets : AnnouncedIn(ln, s) => AnnouncedIn(t, s)
           /\ PlainIn(ln) => PlainIn(t)
<1>1. /\ Result(ok) \in Spoken /\ Result(ok).k = "result"
      /\ Result(ok).n = IF ok THEN 1 ELSE 0
  BY DEF Spoken, Result, Unsolicited
<1> QED
  BY <1>1, Appended

\* connect marks its socket, and nothing else changes.
LEMMA Marked ==
    ASSUME Typed, Step = "connect" => op.s \in Sockets
    PROVE  /\ Unconnected(status) \in [Sockets -> Beliefs]
           /\ \A s \in Sockets :
                /\ Unconnected(status)[s].data = status[s].data
                /\ Unconnected(status)[s].opened = status[s].opened
                /\ Unconnected(status)[s].proto = status[s].proto
                /\ Unconnected(status)[s].rd = status[s].rd /\ Unconnected(status)[s].rf = status[s].rf
                /\ Step # "connect" \/ s # op.s => Unconnected(status)[s] = status[s]
           /\ Step = "connect" => ~Unconnected(status)[op.s].connected
<1>1. status \in [Sockets -> Beliefs]
  BY DEF Typed
<1>2. CASE Step # "connect"
  BY <1>1, <1>2 DEF Unconnected
<1>3. CASE Step = "connect"
  <2>1. Unconnected(status) = [status EXCEPT ![op.s].connected = FALSE]
    BY <1>3 DEF Unconnected
  <2>2. status[op.s] \in Beliefs /\ op.s \in Sockets
    BY <1>1, <1>3
  <2>3. [status[op.s] EXCEPT !.connected = FALSE] \in Beliefs
    BY <2>2 DEF Beliefs
  <2> QED
    BY <1>1, <1>3, <2>1, <2>2, <2>3 DEF Beliefs
<1> QED
  BY <1>2, <1>3

\* The modem refuses a command.
LEMMA RefuseStep ==
    ASSUME SocketInv, Mistaken = {}, Refuse
    PROVE  SocketInv'
<1>1. Typed /\ LineRight /\ CallRight
  BY DEF SocketInv
<1>2. /\ Waits /\ UNCHANGED <<real, owned, opens, units, mixed, sky>>
  BY DEF Refuse
<1>3. /\ flaw' = flaw \/ flaw' = flaw \cup {"stuck"} \/ flaw' = flaw \cup {"unread"}
      /\ op.s \in Sockets /\ real[op.s].open /\ Step = "close" => flaw' = flaw \cup {"stuck"}
      /\ op.s \in Sockets /\ real[op.s].open /\ Step \in {"rd", "rf"} => flaw' = flaw \cup {"unread"}
  BY DEF Refuse, Reads
<1>4. /\ ~op.sent /\ op.got = 0 /\ VerdictIn(line) = {} /\ \A g : InOrder(line, g)
      /\ \A s \in Sockets : ~Begins(s)
      /\ \/ op.k = "open" /\ op.s = -1 /\ Step \in {"UDP", "TCP"} /\ op.todo \in Agenda
         \/ /\ op.k = "open" /\ op.s \in Sockets /\ Step \in {"listen", "connect", "accept"}
            /\ op.todo \in Agenda
            /\ real[op.s].open /\ real[op.s].gen = op.gen /\ Fresh(op.s, op.gen) /\ ~real[op.s].conn
            /\ real[op.s].proto = "TCP" => op.todo \notin {<<"handler">>, <<"connect", "handler">>}
         \/ op.k = "close" /\ op.s \in Sockets /\ Step = "close"
         \/ op.k = "fetch" /\ op.s \in Sockets /\ Step \in {"rd", "rf"}
  BY <1>2, Waiting
<1>5. /\ op'.k = op.k /\ op'.s = op.s /\ op'.gen = op.gen /\ op'.todo = op.todo /\ op'.sent = TRUE
      /\ op'.got = 0 /\ Step' = Step /\ op.gen \in Nat /\ op.gen <= opens
      /\ op.k = "close" => op.todo = <<"close">>
      /\ op.k = "fetch" => op.todo \in {<<"rd">>, <<"rf">>}
      /\ op # Nothing /\ op' \in Call
  <2>1. op' = [op EXCEPT !.sent = TRUE]
    BY DEF Refuse, Sends
  <2>2. op # Nothing
    BY <1>2 DEF Waits
  <2>3. op' \in Call
    BY <1>1, <2>1 DEF CallRight, Call
  <2> QED
    BY <1>1, <1>4, <2>1, <2>2, <2>3, Calls DEF CallRight, Call, Nothing, Step
<1>6. /\ status' \in [Sockets -> Beliefs]
      /\ \A s \in Sockets :
           /\ status'[s].data = status[s].data /\ status'[s].opened = status[s].opened
           /\ status'[s].proto = status[s].proto
           /\ status'[s].rd = status[s].rd /\ status'[s].rf = status[s].rf
           /\ Step # "connect" \/ s # op.s => status'[s] = status[s]
      /\ Step = "connect" => ~status'[op.s].connected
  <2>1. status' = Unconnected(status)
    BY DEF Refuse
  <2> QED
    BY <1>1, <1>4, <2>1, Marked
<1>7. /\ line' \in Seq(Spoken) /\ InOrder(line', op.gen) /\ OneResult(line')
      /\ \A s \in Sockets : ComingIn(line', s) = ComingIn(line, s)
      /\ VerdictIn(line') = {0}
      /\ \A s \in Sockets : AnnouncedIn(line, s) => AnnouncedIn(line', s)
      /\ PlainIn(line) => PlainIn(line')
  <2>1. line \in Seq(Spoken) /\ OneResult(line)
    BY <1>1 DEF Typed, LineRight
  <2>2. line' = Append(line, Result(FALSE))
    BY DEF Refuse
  <2> QED
    BY <1>4, <2>1, <2>2, ResultSent
<1>8. \A s \in Sockets : /\ Opens(s)' <=> Opens(s)
                         /\ Closes(s)' <=> Closes(s)
                         /\ ~Begins(s)'
  BY <1>4, <1>5, NoSocket DEF Opens, Closes, Begins
<1>9. /\ "overtaken" \notin flaw' => "overtaken" \notin flaw
      /\ flaw' \subseteq {"overtaken"} =>
           /\ flaw \subseteq {"overtaken"}
           /\ op.k \in {"close", "fetch"} => ~real[op.s].open
      /\ Quiet' => Quiet /\ (op.k \in {"close", "fetch"} => ~real[op.s].open)
  <2>1. op.k \in {"close", "fetch"} /\ real[op.s].open =>
          flaw' \in {flaw \cup {"stuck"}, flaw \cup {"unread"}}
    BY <1>3, <1>4
  <2>2. flaw' \in {flaw \cup {"stuck"}, flaw \cup {"unread"}} => ~(flaw' \subseteq {"overtaken"}) /\ flaw' # {}
    <3>1. flaw' \in {flaw \cup {"stuck"}, flaw \cup {"unread"}} => "stuck" \in flaw' \/ "unread" \in flaw'
      OBVIOUS
    <3> QED
      BY <3>1
  <2>3. flaw \subseteq flaw' /\ ("overtaken" \in flaw' => "overtaken" \in flaw)
    BY <1>3
  <2> QED
    BY <1>2, <2>1, <2>2, <2>3 DEF Quiet
<1>10. Typed'
  BY <1>1, <1>2, <1>6, <1>7 DEF Typed
<1>11. CallRight'
  BY <1>1, <1>2, <1>4, <1>5, NoSocket DEF CallRight
<1>12. EndsRight'
  BY <1>2 DEF SocketInv, EndsRight
<1>13. LineRight'
  <2>1. op'.k = "open" /\ Step' \in {"UDP", "TCP"} => op'.s = -1
    BY <1>4, <1>5
  <2> QED
    BY <1>1, <1>2, <1>5, <1>7, <2>1 DEF LineRight
<1>14. OpenRight'
  <2> SUFFICES ASSUME op.k = "open", op.s # -1 PROVE OpenRight'
    BY <1>5 DEF OpenRight
  <2>1. /\ op.s \in Sockets /\ Step \notin {"UDP", "TCP"}
        /\ real[op.s].open /\ real[op.s].gen = op.gen /\ Fresh(op.s, op.gen) /\ ~real[op.s].conn
        /\ real[op.s].proto = "TCP" => op.todo \notin {<<"handler">>, <<"connect", "handler">>}
    BY <1>4
  <2> QED
    BY <1>2, <1>5, <1>6, <1>7, <2>1 DEF OpenRight, Fresh
<1>15. HandlersRight'
  BY <1>2, <1>4, <1>6, <1>7, <1>8 DEF SocketInv, HandlersRight, Fresh
<1>16. FetchedRight'
  BY <1>2, <1>5, <1>9 DEF SocketInv, FetchedRight
<1>17. LeakRight'
  BY <1>2, <1>7, <1>8, <1>9 DEF SocketInv, LeakRight, Closes
<1>18. NewsRight'
  BY <1>2, <1>7, <1>9 DEF SocketInv, NewsRight
<1>19. UseRight'
  <2> SUFFICES ASSUME Quiet' PROVE UseRight'
    BY DEF UseRight
  <2>1. op.k # "close"
    BY <1>4, <1>9 DEF SocketInv, UseRight
  <2> QED
    BY <1>1, <1>2, <1>4, <1>5, <1>7, <1>8, <1>9, <2>1 DEF SocketInv, Typed, UseRight
<1>20. BeliefRight'
  <2> SUFFICES ASSUME Quiet', NEW s \in Sockets, ComingIn(line, s) = {}
               PROVE  \/ /\ Opens(s) /\ Step = "connect"
                         /\ status'[s].opened = real[s].open /\ status'[s].proto = real[s].proto
                         /\ ~real[s].conn /\ ~status'[s].connected
                      \/ Agrees(s)' /\ ~(Opens(s) /\ Step = "connect")
    BY <1>2, <1>5, <1>7, <1>8 DEF BeliefRight, Connects
  <2>1. Agrees(s)
    BY <1>4, <1>9 DEF SocketInv, BeliefRight, Connects
  <2>2. CASE Opens(s) /\ Step = "connect"
    BY <1>4, <1>6, <2>1, <2>2 DEF Opens, Agrees
  <2>3. CASE ~(Opens(s) /\ Step = "connect")
    BY <1>2, <1>4, <1>6, <2>1, <2>3 DEF Opens, Agrees
  <2> QED
    BY <2>2, <2>3
<1>21. DatagramsRight'
  <2> SUFFICES ASSUME flaw' \subseteq {"overtaken"}, NEW s \in Sockets, real[s].open, real[s].proto = "UDP"
               PROVE  /\ status'[s].opened /\ status'[s].proto = "UDP" /\ ComingIn(line', s) = {}
                      /\ real[s].q > 0 => Due(s)'
    BY <1>2, <1>7 DEF DatagramsRight
  <2>1. /\ status[s].opened /\ status[s].proto = "UDP" /\ ComingIn(line, s) = {}
        /\ real[s].q > 0 => Due(s)
    BY <1>4, <1>9 DEF SocketInv, DatagramsRight
  <2>2. Due(s) => Due(s)'
    BY <1>6, <1>7, <1>9 DEF Due
  <2> QED
    BY <1>6, <1>7, <2>1, <2>2
<1> QED
  BY <1>10, <1>11, <1>12, <1>13, <1>14, <1>15, <1>16, <1>17, <1>18, <1>19, <1>20, <1>21 DEF SocketInv

\* The modem opens a socket for the call.
LEMMA ExecuteOpenStep ==
    ASSUME SocketInv, Mistaken = {}, ExecuteOpen
    PROVE  SocketInv'
<1>1. Typed /\ LineRight /\ CallRight
  BY DEF SocketInv
<1>2. Waits /\ Step \in {"UDP", "TCP"} /\ UNCHANGED <<status, owned, units, flaw, mixed, sky>>
  BY DEF ExecuteOpen, OpenEnds, OpenCall, Claims
<1>3. PICK c \in Sockets :
        /\ ~real[c].open
        /\ real' = [real EXCEPT ![c] = [Shut EXCEPT !.open = TRUE, !.gen = opens + 1, !.proto = Step]]
        /\ op' = [op EXCEPT !.s = c, !.gen = opens + 1, !.sent = TRUE]
  BY DEF ExecuteOpen, OpenEnds, OpenCall, Claims, Free, Sends
<1>4. /\ ~op.sent /\ op.got = 0 /\ VerdictIn(line) = {} /\ \A g : InOrder(line, g)
      /\ \A s \in Sockets : ~Begins(s)
      /\ op.k = "open" /\ op.s = -1 /\ op.todo \in Agenda /\ op \in Call
  BY <1>1, <1>2, Waiting, Calls
<1>5. opens \in Nat /\ opens + 1 \in Nat /\ opens' = opens + 1
  BY <1>1 DEF ExecuteOpen, OpenEnds, OpenCall, Claims, Typed
<1>6. /\ op'.k = "open" /\ op'.s = c /\ op'.gen = opens + 1 /\ op'.todo = op.todo /\ op'.sent = TRUE
      /\ op'.got = 0 /\ Step' = Step /\ op' \in Call
  <2>1. op' \in Call
    BY <1>3, <1>4, <1>5 DEF Call
  <2> QED
    BY <1>3, <1>4, <2>1 DEF Call, Step
<1>7. /\ real' \in [Sockets -> Ends]
      /\ \A s \in Sockets \ {c} : real'[s] = real[s]
      /\ real'[c].open /\ real'[c].gen = opens + 1 /\ real'[c].proto = Step
      /\ ~real'[c].conn /\ ~real'[c].listens /\ real'[c].q = 0
  <2>1. [Shut EXCEPT !.open = TRUE, !.gen = opens + 1, !.proto = Step] \in Ends
    BY <1>2, <1>5 DEF Ends, Shut, Protocols
  <2> QED
    BY <1>1, <1>3, <2>1 DEF Typed, Shut
<1>8. /\ line' \in Seq(Spoken) /\ InOrder(line', opens + 1) /\ OneResult(line')
      /\ \A s \in Sockets : ComingIn(line', s) = ComingIn(line, s)
      /\ VerdictIn(line') = {1}
      /\ \A s \in Sockets : AnnouncedIn(line, s) => AnnouncedIn(line', s)
      /\ PlainIn(line) => PlainIn(line')
  <2>1. line \in Seq(Spoken) /\ OneResult(line)
    BY <1>1 DEF Typed, LineRight
  <2>2. line' = Append(line, Result(TRUE))
    BY DEF ExecuteOpen, OpenEnds, OpenCall, Claims
  <2> QED
    BY <1>4, <2>1, <2>2, ResultSent
<1>9. c # -1 /\ ~real[c].open
  BY <1>3, NoSocket
<1>10. \A s \in Sockets : /\ Opens(s)' <=> s = c
                          /\ Begins(s)' <=> s = c
                          /\ ~Opens(s) /\ ~Closes(s) /\ ~Closes(s)'
  BY <1>2, <1>4, <1>6, NoSocket DEF Opens, Closes, Begins
<1>11. Typed'
  BY <1>1, <1>2, <1>5, <1>7, <1>8 DEF Typed
<1>12. CallRight'
  BY <1>2, <1>4, <1>5, <1>6 DEF CallRight
<1>13. EndsRight'
  <2> SUFFICES ASSUME NEW s \in Sockets
               PROVE  /\ ~real'[s].open => real'[s] = Shut
                      /\ real'[s].open => real'[s].gen <= opens + 1 /\ real'[s].proto \in {"UDP", "TCP"}
                      /\ real'[s].q > 0 => real'[s].conn \/ real'[s].listens
    BY <1>5 DEF EndsRight
  <2>1. CASE s = c
    BY <1>2, <1>5, <1>7, <2>1
  <2>2. CASE s # c
    <3>1. real'[s] = real[s] /\ real[s].gen \in Nat
      BY <1>1, <1>7, <2>2 DEF Typed, Ends
    <3>2. real[s].open => real[s].gen <= opens + 1
      BY <1>5, <3>1 DEF SocketInv, EndsRight
    <3> QED
      BY <3>1, <3>2 DEF SocketInv, EndsRight
  <2> QED
    BY <2>1, <2>2
<1>14. LineRight'
  <2>1. ASSUME NEW s \in Sockets, NEW g \in ComingIn(line, s)
        PROVE  g \in Nat /\ g <= opens + 1 /\ (real'[s].open => g <= real'[s].gen)
    <3>1. g \in Nat /\ g <= opens /\ (real[s].open => g <= real[s].gen)
      BY <1>1 DEF LineRight
    <3>2. g <= opens + 1
      BY <1>5, <3>1
    <3> QED
      BY <1>7, <3>1, <3>2
  <2> QED
    BY <1>5, <1>6, <1>8, <1>9, <2>1 DEF LineRight
<1>15. OpenRight'
  BY <1>2, <1>6, <1>7 DEF OpenRight
<1>16. HandlersRight'
  BY <1>2, <1>4, <1>7, <1>8, <1>10 DEF SocketInv, HandlersRight, Fresh
<1>17. FetchedRight'
  BY <1>2, <1>6 DEF SocketInv, FetchedRight
<1>18. LeakRight'
  BY <1>2, <1>7, <1>8, <1>10 DEF SocketInv, LeakRight
<1>19. Quiet => ComingIn(line, c) = {} /\ c \notin owned
  BY <1>9 DEF SocketInv, NewsRight, UseRight
<1>20. NewsRight'
  BY <1>2, <1>7, <1>8, <1>19 DEF SocketInv, NewsRight, Quiet
<1>21. UseRight'
  <2> SUFFICES ASSUME Quiet PROVE UseRight'
    BY <1>2 DEF UseRight, Quiet
  <2>1. ASSUME NEW s \in owned
        PROVE  real'[s].open /\ ComingIn(line', s) = {} /\ ~Opens(s)' /\ ~Closes(s)'
    BY <1>1, <1>7, <1>8, <1>10, <1>19 DEF SocketInv, Typed, UseRight
  <2> QED
    BY <1>2, <1>6, <1>7, <1>8, <1>19, <2>1 DEF UseRight
<1>22. BeliefRight'
  BY <1>2, <1>4, <1>7, <1>8, <1>10 DEF SocketInv, BeliefRight, Connects, Quiet, Agrees
<1>23. DatagramsRight'
  <2> SUFFICES ASSUME flaw \subseteq {"overtaken"}, NEW s \in Sockets, s # c, real[s].open, real[s].proto = "UDP"
               PROVE  /\ status[s].opened /\ status[s].proto = "UDP" /\ ComingIn(line, s) = {}
                      /\ real[s].q > 0 => Due(s)'
    BY <1>2, <1>7, <1>8, <1>10 DEF DatagramsRight
  <2>1. Due(s) => Due(s)'
    BY <1>2, <1>4, <1>8 DEF Due
  <2> QED
    BY <1>4, <2>1 DEF SocketInv, DatagramsRight
<1> QED
  BY <1>11, <1>12, <1>13, <1>14, <1>15, <1>16, <1>17, <1>18, <1>20, <1>21, <1>22, <1>23 DEF SocketInv

\* The modem executes a command on a socket that is being opened.
LEMMA ExecuteOpeningStep ==
    ASSUME SocketInv, Mistaken = {}, Execute, op.k = "open"
    PROVE  SocketInv'
<1> DEFINE a == op.s
<1>1. Typed /\ LineRight /\ CallRight
  BY DEF SocketInv
<1>2. Waits /\ UNCHANGED <<owned, opens, units, flaw, mixed, sky>> /\ a # -1
  BY DEF Execute
<1>3. /\ ~op.sent /\ op.got = 0 /\ VerdictIn(line) = {} /\ \A g : InOrder(line, g)
      /\ \A s \in Sockets : ~Begins(s)
      /\ a \in Sockets /\ Step \in {"listen", "connect", "accept"} /\ op.todo \in Agenda /\ op \in Call
      /\ real[a].open /\ real[a].gen = op.gen /\ Fresh(a, op.gen) /\ ~real[a].conn
      /\ real[a].proto = "TCP" => op.todo \notin {<<"handler">>, <<"connect", "handler">>}
      /\ op.gen \in Nat /\ op.gen <= opens
  BY <1>1, <1>2, Waiting, Calls
<1>4. /\ op'.k = "open" /\ op'.s = a /\ op'.gen = op.gen /\ op'.todo = op.todo /\ op'.sent = TRUE
      /\ op'.got = 0 /\ Step' = Step /\ op' \in Call
  <2>1. op' = [op EXCEPT !.got = 0, !.gen = op.gen, !.sent = TRUE]
    BY <1>3 DEF Execute, Sends, Served, Reads
  <2>2. op' \in Call
    BY <1>3, <2>1 DEF Call
  <2> QED
    BY <1>3, <2>1, <2>2 DEF Call, Step
<1>5. /\ real' \in [Sockets -> Ends]
      /\ \A s \in Sockets \ {a} : real'[s] = real[s]
      /\ real'[a].open /\ real'[a].gen = op.gen /\ real'[a].proto = real[a].proto
      /\ real'[a].conn <=> Step = "connect"
      /\ real'[a].open = real[a].open
      /\ real'[a].conn \/ real'[a].listens
      /\ real'[a].q = real[a].q /\ (Step # "connect" => real'[a].conn = real[a].conn)
  <2>1. real \in [Sockets -> Ends] /\ real' = [real EXCEPT ![a] = After(a)]
    BY <1>1 DEF Execute, Typed
  <2>2. CASE Step = "connect"
    <3>1. After(a) = [real[a] EXCEPT !.conn = TRUE]
      BY <2>2 DEF After
    <3> QED
      BY <1>3, <2>1, <2>2, <3>1 DEF Ends
  <2>3. CASE Step \in {"listen", "accept"}
    <3>1. After(a) = [real[a] EXCEPT !.listens = TRUE]
      BY <2>3 DEF After
    <3> QED
      BY <1>3, <2>1, <2>3, <3>1 DEF Ends
  <2> QED
    BY <1>3, <2>2, <2>3
<1>6. /\ status' \in [Sockets -> Beliefs]
      /\ \A s \in Sockets :
           /\ status'[s].data = status[s].data /\ status'[s].opened = status[s].opened
           /\ status'[s].proto = status[s].proto
           /\ status'[s].rd = status[s].rd /\ status'[s].rf = status[s].rf
           /\ Step # "connect" \/ s # a => status'[s] = status[s]
      /\ Step = "connect" => ~status'[a].connected
  <2>1. status' = Unconnected(status)
    BY DEF Execute
  <2> QED
    BY <1>1, <1>3, <2>1, Marked
<1>7. /\ line' \in Seq(Spoken) /\ InOrder(line', op.gen) /\ OneResult(line')
      /\ \A s \in Sockets : ComingIn(line', s) = ComingIn(line, s)
      /\ VerdictIn(line') = {1}
      /\ \A s \in Sockets : AnnouncedIn(line, s) => AnnouncedIn(line', s)
      /\ PlainIn(line) => PlainIn(line')
  <2>1. line \in Seq(Spoken) /\ OneResult(line)
    BY <1>1 DEF Typed, LineRight
  <2>2. line' = Append(line, Result(TRUE))
    BY <1>3 DEF Execute, Reread, Reads
  <2> QED
    BY <1>3, <2>1, <2>2, ResultSent
<1> HIDE DEF a
<1>8. \A s \in Sockets : /\ Opens(s)' <=> s = a
                         /\ Opens(s) <=> s = a
                         /\ ~Closes(s) /\ ~Closes(s)' /\ ~Begins(s)'
  BY <1>3, <1>4 DEF Opens, Closes, Begins, a
<1>9. Typed'
  BY <1>1, <1>2, <1>5, <1>6, <1>7 DEF Typed
<1>10. CallRight'
  BY <1>2, <1>3, <1>4 DEF CallRight
<1>11. EndsRight'
  <2>1. opens' = opens
    BY <1>2
  <2> QED
    BY <1>3, <1>5, <2>1 DEF SocketInv, EndsRight
<1>12. LineRight'
  <2>1. opens' = opens /\ \A s \in Sockets : real'[s].open => real[s].open /\ real'[s].gen = real[s].gen
    BY <1>2, <1>3, <1>5
  <2> QED
    BY <1>1, <1>3, <1>4, <1>7, <2>1 DEF LineRight
<1>13. OpenRight'
  <2>1. status'[a].data \in {0, op.gen} /\ \A h \in ComingIn(line', a) : op.gen <= h
    BY <1>3, <1>6, <1>7 DEF Fresh
  <2> QED
    BY <1>3, <1>4, <1>5, <2>1 DEF OpenRight, Fresh
<1>14. HandlersRight'
  BY <1>3, <1>5, <1>6, <1>7, <1>8 DEF SocketInv, HandlersRight, Fresh
<1>15. FetchedRight'
  BY <1>2, <1>4 DEF SocketInv, FetchedRight
<1>16. LeakRight'
  BY <1>2, <1>5, <1>7, <1>8 DEF SocketInv, LeakRight
<1>17. NewsRight'
  BY <1>2, <1>3, <1>5, <1>7 DEF SocketInv, NewsRight, Quiet
<1>18. UseRight'
  <2> SUFFICES ASSUME Quiet PROVE UseRight'
    BY <1>2 DEF UseRight, Quiet
  <2>1. ASSUME NEW s \in owned
        PROVE  real'[s].open /\ ComingIn(line', s) = {} /\ ~Opens(s)' /\ ~Closes(s)'
    BY <1>1, <1>5, <1>7, <1>8 DEF SocketInv, Typed, UseRight
  <2>2. ComingIn(line', a) = {}
    BY <1>2, <1>3, <1>7 DEF SocketInv, UseRight, a
  <2> QED
    BY <1>2, <1>4, <1>5, <2>1, <2>2 DEF UseRight
<1>19. BeliefRight'
  <2> SUFFICES ASSUME Quiet, NEW s \in Sockets, ComingIn(line, s) = {}
               PROVE  \/ /\ s = a /\ Step = "connect"
                         /\ status'[s].opened = real'[s].open /\ status'[s].proto = real'[s].proto
                         /\ real'[s].conn /\ ~status'[s].connected
                      \/ Agrees(s)' /\ ~(s = a /\ Step = "connect")
    BY <1>2, <1>4, <1>7, <1>8 DEF BeliefRight, Connects, Quiet
  <2>1. Agrees(s)
    BY <1>3, <1>8 DEF SocketInv, BeliefRight, Connects
  <2>2. CASE s = a /\ Step = "connect"
    BY <1>3, <1>5, <1>6, <2>1, <2>2 DEF Agrees
  <2>3. CASE ~(s = a /\ Step = "connect")
    <3>1. /\ real'[s].open = real[s].open /\ real'[s].proto = real[s].proto
          /\ real'[s].conn = real[s].conn /\ status'[s] = status[s]
      <4>1. CASE s = a
        BY <1>3, <1>5, <1>6, <2>3, <4>1
      <4>2. CASE s # a
        BY <1>5, <1>6, <4>2
      <4> QED
        BY <4>1, <4>2
    <3> QED
      BY <2>1, <2>3, <3>1 DEF Agrees
  <2> QED
    BY <2>2, <2>3
<1>20. DatagramsRight'
  <2> SUFFICES ASSUME flaw \subseteq {"overtaken"}, NEW s \in Sockets, real'[s].open, real'[s].proto = "UDP"
               PROVE  /\ status'[s].opened /\ status'[s].proto = "UDP" /\ ComingIn(line', s) = {}
                      /\ real'[s].q > 0 => Due(s)'
    BY <1>2, <1>8 DEF DatagramsRight
  <2>1. real[s].open /\ real[s].proto = "UDP" /\ real'[s].q = real[s].q
    BY <1>3, <1>5
  <2>2. /\ status[s].opened /\ status[s].proto = "UDP" /\ ComingIn(line, s) = {}
        /\ real[s].q > 0 => Due(s)
    BY <1>3, <2>1 DEF SocketInv, DatagramsRight
  <2>3. op.k = "open"
    OBVIOUS
  <2>4. Due(s) => Due(s)'
    BY <1>6, <1>7, <2>3 DEF Due
  <2> QED
    BY <1>6, <1>7, <2>1, <2>2, <2>4
<1> QED
  BY <1>9, <1>10, <1>11, <1>12, <1>13, <1>14, <1>15, <1>16, <1>17, <1>18, <1>19, <1>20 DEF SocketInv

\* The modem closes a socket.
LEMMA ExecuteCloseStep ==
    ASSUME SocketInv, Mistaken = {}, Execute, op.k = "close"
    PROVE  SocketInv'
<1> DEFINE a == op.s
<1>1. Typed /\ LineRight /\ CallRight
  BY DEF SocketInv
<1>2. Waits /\ UNCHANGED <<owned, opens, units, flaw, mixed, sky>>
  BY DEF Execute
<1>3. /\ ~op.sent /\ op.got = 0 /\ VerdictIn(line) = {} /\ \A g : InOrder(line, g)
      /\ \A s \in Sockets : ~Begins(s)
      /\ a \in Sockets /\ Step = "close" /\ op.todo = <<"close">> /\ op \in Call
      /\ real[a].open
  BY <1>1, <1>2, Waiting, Calls DEF Execute
<1>4. real[a].gen \in Nat /\ real[a].gen <= opens
  BY <1>1, <1>3 DEF SocketInv, EndsRight, Typed, Ends
<1>5. /\ op'.k = "close" /\ op'.s = a /\ op'.gen = real[a].gen /\ op'.todo = <<"close">> /\ op'.sent = TRUE
      /\ op'.got = 0 /\ op' \in Call
  <2>1. op' = [op EXCEPT !.got = 0, !.gen = real[a].gen, !.sent = TRUE]
    BY <1>3 DEF Execute, Sends, Served, Reads
  <2>2. op' \in Call
    BY <1>3, <1>4, <2>1 DEF Call
  <2> QED
    BY <1>3, <2>1, <2>2 DEF Call
<1>6. /\ real' \in [Sockets -> Ends] /\ real'[a] = Shut /\ ~real'[a].open /\ real'[a].q = 0
      /\ \A s \in Sockets \ {a} : real'[s] = real[s]
  <2>1. Shut \in Ends
    BY DEF Ends, Shut, Protocols
  <2>2. real \in [Sockets -> Ends] /\ real' = [real EXCEPT ![a] = Shut]
    BY <1>1, <1>3 DEF Execute, Typed, After
  <2> QED
    BY <1>3, <2>1, <2>2 DEF Shut
<1>7. status' = status
  BY <1>3 DEF Execute, Unconnected
<1>8. /\ line' \in Seq(Spoken) /\ InOrder(line', op'.gen) /\ OneResult(line')
      /\ \A s \in Sockets : ComingIn(line', s) = ComingIn(line, s)
      /\ VerdictIn(line') = {1}
      /\ \A s \in Sockets : AnnouncedIn(line, s) => AnnouncedIn(line', s)
      /\ PlainIn(line) => PlainIn(line')
  <2>1. line \in Seq(Spoken) /\ OneResult(line)
    BY <1>1 DEF Typed, LineRight
  <2>2. line' = Append(line, Result(TRUE))
    BY <1>3 DEF Execute, Reread, Reads
  <2> QED
    BY <1>3, <2>1, <2>2, ResultSent
<1> HIDE DEF a
<1>9. \A s \in Sockets : /\ Closes(s)' <=> s = a
                         /\ Closes(s) <=> s = a
                         /\ ~Opens(s) /\ ~Opens(s)' /\ ~Begins(s)'
  BY <1>3, <1>5 DEF Opens, Closes, Begins, a
<1>10. Typed'
  BY <1>1, <1>2, <1>6, <1>7, <1>8 DEF Typed
<1>11. CallRight'
  BY <1>2, <1>3, <1>4, <1>5, NoSocket DEF CallRight
<1>12. EndsRight'
  BY <1>2, <1>6 DEF SocketInv, EndsRight
<1>13. LineRight'
  <2>1. opens' = opens /\ \A s \in Sockets : real'[s].open => real[s].open /\ real'[s].gen = real[s].gen
    BY <1>2, <1>3, <1>6
  <2> QED
    BY <1>1, <1>5, <1>8, <2>1 DEF LineRight
<1>14. OpenRight'
  BY <1>5 DEF OpenRight
<1>15. HandlersRight'
  BY <1>3, <1>6, <1>7, <1>8, <1>9 DEF SocketInv, HandlersRight, Fresh
<1>16. FetchedRight'
  BY <1>2, <1>5 DEF SocketInv, FetchedRight
<1>17. LeakRight'
  BY <1>2, <1>6, <1>8, <1>9 DEF SocketInv, LeakRight
<1>18. Quiet => ComingIn(line, a) = {}
  BY <1>3 DEF SocketInv, UseRight, a
<1>19. NewsRight'
  BY <1>2, <1>6, <1>8, <1>18 DEF SocketInv, NewsRight, Quiet
<1>20. UseRight'
  <2> SUFFICES ASSUME Quiet PROVE UseRight'
    BY <1>2 DEF UseRight, Quiet
  <2>1. ASSUME NEW s \in owned
        PROVE  real'[s].open /\ ComingIn(line', s) = {} /\ ~Opens(s)' /\ ~Closes(s)'
    BY <1>1, <1>6, <1>8, <1>9 DEF SocketInv, Typed, UseRight
  <2>2. ComingIn(line', a) = {}
    BY <1>3, <1>8, <1>18
  <2> QED
    BY <1>2, <1>5, <1>6, <1>8, <2>1, <2>2 DEF UseRight
<1>21. BeliefRight'
  BY <1>2, <1>3, <1>5, <1>6, <1>7, <1>8, <1>9 DEF SocketInv, BeliefRight, Connects, Quiet, Agrees
<1>22. DatagramsRight'
  <2> SUFFICES ASSUME flaw \subseteq {"overtaken"}, NEW s \in Sockets, s # a, real[s].open, real[s].proto = "UDP"
               PROVE  /\ status[s].opened /\ status[s].proto = "UDP" /\ ComingIn(line, s) = {}
                      /\ real[s].q > 0 => Due(s)'
    BY <1>2, <1>6, <1>7, <1>8, <1>9 DEF DatagramsRight
  <2>1. op.k = "close"
    OBVIOUS
  <2>2. Due(s) => Due(s)'
    BY <1>7, <1>8, <2>1 DEF Due
  <2> QED
    BY <1>3, <2>2 DEF SocketInv, DatagramsRight
<1> QED
  BY <1>10, <1>11, <1>12, <1>13, <1>14, <1>15, <1>16, <1>17, <1>19, <1>20, <1>21, <1>22 DEF SocketInv

\* The modem gives data to the call.
LEMMA ExecuteFetchStep ==
    ASSUME SocketInv, Mistaken = {}, Execute, op.k = "fetch"
    PROVE  SocketInv'
<1> DEFINE a == op.s
           q == real[a].q
           left == After(a).q
           ln == IF left > 0 THEN Append(line, Announces(real[a], a)) ELSE line
<1>1. Typed /\ LineRight /\ CallRight
  BY DEF SocketInv
<1>2. Waits /\ UNCHANGED <<owned, opens, units, flaw, mixed, sky>>
  BY DEF Execute
<1>3. /\ ~op.sent /\ op.got = 0 /\ VerdictIn(line) = {} /\ \A g : InOrder(line, g)
      /\ \A s \in Sockets : ~Begins(s)
      /\ a \in Sockets /\ Step \in {"rd", "rf"} /\ op.todo \in {<<"rd">>, <<"rf">>} /\ op \in Call
      /\ real[a].open
  BY <1>1, <1>2, Waiting, Calls DEF Execute
<1>4. /\ real[a] \in Ends /\ real[a].gen \in Nat /\ q \in Nat /\ real[a].gen <= opens
      /\ q > 0 => real[a].conn \/ real[a].listens
  BY <1>1, <1>3 DEF SocketInv, EndsRight, Typed, Ends
<1>5. PICK n \in Nat : After(a) = [real[a] EXCEPT !.q = n] /\ n <= q /\ left = n
  <2>1. \E n \in Nat : After(a) = [real[a] EXCEPT !.q = n] /\ n <= q
    <3> DEFINE m == IF q > 0 THEN q - 1 ELSE 0
               o == IF q > 0 /\ real[a].proto = "UDP" THEN q - 1 ELSE 0
    <3>1. m \in Nat /\ m <= q /\ o \in Nat /\ o <= q
      BY <1>4
    <3>2. CASE Step = "rf"
      <4>1. After(a) = [real[a] EXCEPT !.q = m]
        BY <3>2 DEF After
      <4> QED
        BY <3>1, <4>1
    <3>3. CASE Step = "rd"
      <4>1. After(a) = [real[a] EXCEPT !.q = o]
        BY <3>3 DEF After
      <4> QED
        BY <3>1, <4>1
    <3> QED
      BY <1>3, <3>2, <3>3
  <2> QED
    BY <1>4, <2>1 DEF Ends
<1>6. /\ op'.k = "fetch" /\ op'.s = a /\ op'.gen = real[a].gen /\ op'.todo = op.todo /\ op'.sent = TRUE
      /\ op'.got = q - n /\ op' \in Call
  <2>1. op' = [op EXCEPT !.got = q - n, !.gen = real[a].gen, !.sent = TRUE]
    BY <1>3, <1>5 DEF Execute, Sends, Served, Reads
  <2>2. q - n \in Nat
    BY <1>4, <1>5
  <2>3. op' \in Call
    BY <1>3, <1>4, <2>1, <2>2 DEF Call
  <2> QED
    BY <1>3, <2>1, <2>3 DEF Call
<1>7. /\ real' \in [Sockets -> Ends]
      /\ \A s \in Sockets \ {a} : real'[s] = real[s]
      /\ \A s \in Sockets : /\ real'[s].open = real[s].open /\ real'[s].gen = real[s].gen
                            /\ real'[s].proto = real[s].proto /\ real'[s].conn = real[s].conn
                            /\ real'[s].listens = real[s].listens
      /\ real'[a].q = n
  <2>1. real \in [Sockets -> Ends] /\ real' = [real EXCEPT ![a] = [real[a] EXCEPT !.q = n]]
    BY <1>1, <1>5 DEF Execute, Typed
  <2>2. [real[a] EXCEPT !.q = n] \in Ends
    BY <1>4, <1>5 DEF Ends
  <2> QED
    BY <1>3, <2>1, <2>2 DEF Ends
<1>8. status' = status
  BY <1>3 DEF Execute, Unconnected
<1>9. /\ line' \in Seq(Spoken) /\ InOrder(line', op'.gen) /\ OneResult(line')
      /\ \A s \in Sockets : ComingIn(line', s) = ComingIn(line, s)
      /\ VerdictIn(line') = {1}
      /\ \A s \in Sockets : AnnouncedIn(line, s) => AnnouncedIn(line', s)
      /\ PlainIn(line) => PlainIn(line')
      /\ n > 0 => AnnouncedIn(line', a)
  <2>1. line' = Append(ln, Result(TRUE))
    BY <1>3 DEF Execute, Reread, Reads
  <2>2. /\ ln \in Seq(Spoken) /\ OneResult(ln) /\ InOrder(ln, op'.gen) /\ VerdictIn(ln) = {}
        /\ \A s \in Sockets : ComingIn(ln, s) = ComingIn(line, s)
        /\ \A s \in Sockets : AnnouncedIn(line, s) => AnnouncedIn(ln, s)
        /\ PlainIn(line) => PlainIn(ln)
        /\ n > 0 => AnnouncedIn(ln, a)
    <3>1. line \in Seq(Spoken) /\ OneResult(line) /\ InOrder(line, op'.gen)
      BY <1>1, <1>3 DEF Typed, LineRight
    <3>2. CASE n > 0
      <4>1. PICK k \in {"rd", "rf"} : Announces(real[a], a) = Unsolicited(k, a, 1)
        BY DEF Announces
      <4> DEFINE e == Unsolicited(k, a, 1)
      <4>2. e \in Spoken /\ e.k \in {"rd", "rf"} /\ e.s = a
        <5>1. e \in Notices /\ e.k = k /\ e.s = a /\ e.n > 0
          BY <1>3 DEF Unsolicited, Notices
        <5>2. e \in {x \in Notices : x.k \in {"rd", "rf"} => x.n > 0}
          BY <5>1
        <5> HIDE DEF e
        <5> QED
          BY <5>1, <5>2 DEF Spoken
      <4>3. ln = Append(line, e)
        BY <1>5, <3>2, <4>1
      <4> HIDE DEF e, ln
      <4> QED
        BY <1>3, <3>1, <4>2, <4>3, Appended
    <3>3. CASE ~ (n > 0)
      <4>1. ln = line
        BY <1>5, <3>3
      <4> QED
        BY <1>3, <3>1, <3>3, <4>1
    <3> QED
      BY <3>2, <3>3
  <2> HIDE DEF ln
  <2> QED
    BY <1>3, <2>1, <2>2, ResultSent
<1> HIDE DEF a, q, left, ln
<1>10. \A s \in Sockets : ~Opens(s) /\ ~Opens(s)' /\ ~Closes(s) /\ ~Closes(s)' /\ ~Begins(s)'
  BY <1>6 DEF Opens, Closes, Begins
<1>11. Typed'
  BY <1>1, <1>2, <1>7, <1>8, <1>9 DEF Typed
<1>12. CallRight'
  BY <1>2, <1>3, <1>4, <1>6, NoSocket DEF CallRight
<1>13. EndsRight'
  <2> SUFFICES ASSUME NEW s \in Sockets
               PROVE  /\ ~real'[s].open => real'[s] = Shut
                      /\ real'[s].open => real'[s].gen <= opens /\ real'[s].proto \in {"UDP", "TCP"}
                      /\ real'[s].q > 0 => real'[s].conn \/ real'[s].listens
    BY <1>2 DEF EndsRight
  <2>1. CASE s = a
    <3>1. n > 0 => q > 0
      BY <1>4, <1>5
    <3>2. real[s].open /\ real[s].proto \in {"UDP", "TCP"}
      BY <1>3, <2>1 DEF SocketInv, EndsRight
    <3> QED
      BY <1>3, <1>4, <1>7, <2>1, <3>1, <3>2
  <2>2. CASE s # a
    BY <1>7, <2>2 DEF SocketInv, EndsRight
  <2> QED
    BY <2>1, <2>2
<1>14. LineRight'
  <2>1. opens' = opens
    BY <1>2
  <2> QED
    BY <1>1, <1>6, <1>7, <1>9, <2>1 DEF LineRight
<1>15. OpenRight'
  BY <1>6 DEF OpenRight
<1>16. HandlersRight'
  BY <1>3, <1>7, <1>8, <1>9, <1>10 DEF SocketInv, HandlersRight, Fresh
<1>17. FetchedRight'
  <2>1. ASSUME q - n > 0 PROVE Fresh(a, real[a].gen) \/ real[a].gen \in ComingIn(line, a)
    <3>1. q > 0
      BY <1>4, <1>5, <2>1
    <3> QED
      BY <1>3, <1>4, <1>10, <3>1 DEF SocketInv, HandlersRight
  <2>2. q - n > 0 => \/ status'[a].data \in {0, real[a].gen} /\ \A h \in ComingIn(line', a) : real[a].gen <= h
                     \/ real[a].gen \in ComingIn(line', a)
    BY <1>3, <1>8, <1>9, <2>1 DEF Fresh
  <2>3. "overtaken" \notin flaw' => ~mixed'
    BY <1>2 DEF SocketInv, FetchedRight
  <2> QED
    BY <1>6, <2>2, <2>3 DEF FetchedRight, Fresh
<1>18. LeakRight'
  BY <1>2, <1>7, <1>9, <1>10 DEF SocketInv, LeakRight
<1>19. NewsRight'
  BY <1>2, <1>7, <1>9 DEF SocketInv, NewsRight, Quiet
<1>20. UseRight'
  <2>1. ASSUME Quiet, NEW s \in owned
        PROVE  real'[s].open /\ ComingIn(line', s) = {} /\ ~Opens(s)' /\ ~Closes(s)'
    BY <1>1, <1>7, <1>9, <1>10, <2>1 DEF SocketInv, Typed, UseRight
  <2> QED
    BY <1>2, <1>6, <2>1 DEF UseRight, Quiet
<1>21. BeliefRight'
  BY <1>2, <1>3, <1>7, <1>8, <1>9, <1>10 DEF SocketInv, BeliefRight, Connects, Quiet, Agrees
<1>22. DatagramsRight'
  <2> SUFFICES ASSUME flaw \subseteq {"overtaken"}, NEW s \in Sockets, real[s].open, real[s].proto = "UDP"
               PROVE  /\ status[s].opened /\ status[s].proto = "UDP" /\ ComingIn(line, s) = {}
                      /\ real'[s].q > 0 => Due(s)'
    BY <1>2, <1>7, <1>8, <1>9, <1>10 DEF DatagramsRight
  <2>1. /\ status[s].opened /\ status[s].proto = "UDP" /\ ComingIn(line, s) = {}
        /\ real[s].q > 0 => Due(s)
    BY <1>3 DEF SocketInv, DatagramsRight
  <2>2. CASE s = a
    BY <1>7, <1>9, <2>1, <2>2 DEF Due
  <2>3. CASE s # a
    <3>1. Due(s) => Due(s)'
      BY <1>8, <1>9, <2>3 DEF Due, a
    <3> QED
      BY <1>7, <2>1, <2>3, <3>1
  <2> QED
    BY <2>2, <2>3
<1> QED
  BY <1>11, <1>12, <1>13, <1>14, <1>15, <1>16, <1>17, <1>18, <1>19, <1>20, <1>21, <1>22 DEF SocketInv

\* The modem executes a command.
LEMMA ExecuteStep ==
    ASSUME SocketInv, Mistaken = {}, Execute
    PROVE  SocketInv'
<1>1. Waits
  BY DEF Execute
<1>2. op.k \in {"open", "close", "fetch"}
  BY <1>1, Waiting
<1> QED
  BY <1>2, ExecuteOpeningStep, ExecuteCloseStep, ExecuteFetchStep

\* A line about data, or that a connection is there or gone.
LEMMA ReadNoticeStep ==
    ASSUME SocketInv, NEW i \in DOMAIN line, line[i].k \notin {"result", "late", "li"},
           \A j \in 1 .. i - 1 : line[j].k = "result",
           status' = ProcessURC(status, line[i]), line' = RemoveAt(line, i),
           UNCHANGED <<op, real, owned, opens, units, flaw, mixed, sky>>
    PROVE  SocketInv'
<1> DEFINE u == line[i]
<1>1. Typed /\ LineRight /\ CallRight
  BY DEF SocketInv
<1>2. UNCHANGED <<op, real, owned, opens, units, flaw, mixed, sky>>
  OBVIOUS
<1>3. /\ u \in Spoken /\ u.k \in {"rd", "rf", "co", "cl"} /\ u.s \in Sockets /\ u.n \in Nat
      /\ u.k \in {"rd", "rf"} => u.n > 0
  <2>1. line \in Seq(Spoken)
    BY <1>1 DEF Typed
  <2>2. u \in Spoken
    BY <2>1, LenProperties, ElementOfSeq
  <2> QED
    BY <2>2, SpokenParts
<1>4. /\ line' \in Seq(Spoken) /\ InOrder(line', op.gen) /\ OneResult(line')
      /\ \A s \in Sockets : ComingIn(line', s) = ComingIn(line, s)
      /\ VerdictIn(line') = VerdictIn(line)
      /\ \A s \in Sockets : AnnouncedIn(line, s) => AnnouncedIn(line', s) \/ (u.k \in {"rd", "rf"} /\ u.s = s)
      /\ PlainIn(line) => PlainIn(line') /\ u.k \in {"rd", "rf"}
  <2>1. line \in Seq(Spoken) /\ InOrder(line, op.gen) /\ OneResult(line)
    BY <1>1 DEF Typed, LineRight
  <2> QED
    BY <1>3, <2>1, FirstRead
<1>5. status \in [Sockets -> Beliefs] /\ status[u.s] \in Beliefs
  BY <1>1, <1>3 DEF Typed
<1>6. status' = ProcessURC(status, u)
  OBVIOUS
<1> HIDE DEF u
<1>7. /\ status' \in [Sockets -> Beliefs]
      /\ \A s \in Sockets :
           /\ status'[s].data = status[s].data /\ status'[s].opened = status[s].opened
           /\ status'[s].proto = status[s].proto
           /\ u.k \in {"rd", "rf"} => status'[s].connected = status[s].connected
           /\ status[s].rd > 0 => status'[s].rd > 0
           /\ status[s].rf > 0 => status'[s].rf > 0
           /\ u.k \in {"rd", "rf"} /\ u.s = s => status'[s].rd > 0 \/ status'[s].rf > 0
  <2>1. CASE u.k = "rd"
    <3>1. status' = [status EXCEPT ![u.s] = [status[u.s] EXCEPT !.rd = u.n]]
      BY <1>6, <2>1 DEF ProcessURC
    <3>2. [status[u.s] EXCEPT !.rd = u.n] \in Beliefs
      BY <1>3, <1>5 DEF Beliefs
    <3> QED
      BY <1>3, <1>5, <2>1, <3>1, <3>2 DEF Beliefs
  <2>2. CASE u.k = "rf"
    <3>1. status' = [status EXCEPT ![u.s] = [status[u.s] EXCEPT !.rf = u.n]]
      BY <1>6, <2>2 DEF ProcessURC
    <3>2. [status[u.s] EXCEPT !.rf = u.n] \in Beliefs
      BY <1>3, <1>5 DEF Beliefs
    <3> QED
      BY <1>3, <1>5, <2>2, <3>1, <3>2 DEF Beliefs
  <2>3. CASE u.k \in {"co", "cl"}
    <3>1. PICK c \in BOOLEAN : status' = [status EXCEPT ![u.s] = [status[u.s] EXCEPT !.connected = c]]
      BY <1>6, <2>3 DEF ProcessURC
    <3>2. [status[u.s] EXCEPT !.connected = c] \in Beliefs
      BY <1>5 DEF Beliefs
    <3> QED
      BY <1>3, <1>5, <2>3, <3>1, <3>2 DEF Beliefs
  <2> QED
    BY <1>3, <2>1, <2>2, <2>3
<1>8. Typed'
  BY <1>1, <1>2, <1>4, <1>7 DEF Typed
<1>9. CallRight' /\ EndsRight'
  BY <1>1, <1>2 DEF SocketInv, CallRight, EndsRight, Step
<1>10. LineRight'
  BY <1>1, <1>2, <1>4 DEF LineRight, Step
<1>11. OpenRight'
  BY <1>1, <1>2, <1>4, <1>7, Calls DEF SocketInv, OpenRight, Fresh, Step
<1>12. HandlersRight'
  BY <1>2, <1>4, <1>7 DEF SocketInv, HandlersRight, Fresh, Begins, Opens, Step
<1>13. FetchedRight'
  BY <1>1, <1>2, <1>4, <1>7, Calls DEF SocketInv, FetchedRight, Fresh
<1>14. LeakRight'
  BY <1>2, <1>4 DEF SocketInv, LeakRight, Opens, Closes
<1>15. NewsRight'
  BY <1>2, <1>4 DEF SocketInv, NewsRight, Quiet
<1>16. UseRight'
  BY <1>1, <1>2, <1>4, Calls DEF SocketInv, Typed, UseRight, Quiet, Opens, Closes
<1>17. BeliefRight'
  <2> SUFFICES ASSUME Quiet PROVE BeliefRight'
    BY <1>2 DEF BeliefRight, Connects, Quiet
  <2>1. \A s \in Sockets : status'[s].connected = status[s].connected
    BY <1>4, <1>7 DEF SocketInv, NewsRight
  <2> QED
    BY <1>2, <1>4, <1>7, <2>1 DEF SocketInv, BeliefRight, Connects, Opens, Closes, Begins, Agrees, Step
<1>18. DatagramsRight'
  <2>1. ASSUME NEW s \in Sockets, Due(s) PROVE Due(s)'
    BY <1>2, <1>4, <1>7, <2>1 DEF Due
  <2> QED
    BY <1>2, <1>4, <1>7, <2>1 DEF SocketInv, DatagramsRight, Opens, Closes, Begins, Step
<1> QED
  BY <1>8, <1>9, <1>10, <1>11, <1>12, <1>13, <1>14, <1>15, <1>16, <1>17, <1>18 DEF SocketInv

\* The news of a connection.
LEMMA ReadNewsStep ==
    ASSUME SocketInv, NEW i \in DOMAIN line, line[i].k = "li",
           \A j \in 1 .. i - 1 : line[j].k = "result",
           status' = ProcessURC(status, line[i]), line' = RemoveAt(line, i),
           owned' = IF Told(line[i]) THEN owned \cup {line[i].s} ELSE owned,
           flaw' = flaw \cup (IF Unheard(line[i]) THEN {"unheard"} ELSE {})
                        \cup (IF Overtakes(line[i]) THEN {"overtaken"} ELSE {}),
           UNCHANGED <<op, real, opens, units, mixed, sky>>
    PROVE  SocketInv'
<1> DEFINE u == line[i]
           c == u.s
<1>1. Typed /\ LineRight /\ CallRight
  BY DEF SocketInv
<1>2. UNCHANGED <<op, real, opens, units, mixed, sky>>
  OBVIOUS
<1>3. u \in Spoken /\ u.k = "li" /\ c \in Sockets /\ u.on \in Sockets /\ u.gen \in Nat
  <2>1. line \in Seq(Spoken)
    BY <1>1 DEF Typed
  <2>2. u \in Spoken
    BY <2>1, LenProperties, ElementOfSeq
  <2> QED
    BY <2>2, SpokenParts
<1>4. /\ line' \in Seq(Spoken) /\ InOrder(line', op.gen) /\ OneResult(line')
      /\ u.gen \in ComingIn(line, c) /\ ComingIn(line', c) = ComingIn(line, c) \ {u.gen}
      /\ \A s \in Sockets \ {c} : ComingIn(line', s) = ComingIn(line, s)
      /\ \A h \in ComingIn(line', c) : u.gen < h
      /\ VerdictIn(line') = VerdictIn(line)
      /\ \A s \in Sockets : AnnouncedIn(line, s) => AnnouncedIn(line', s)
      /\ PlainIn(line) => PlainIn(line')
  <2>1. line \in Seq(Spoken) /\ InOrder(line, op.gen) /\ OneResult(line)
    BY <1>1 DEF Typed, LineRight
  <2>2. u.k \notin {"rd", "rf"} /\ u.k # "result"
    BY <1>3
  <2> QED
    BY <1>3, <2>1, <2>2, FirstRead
<1>5. status \in [Sockets -> Beliefs] /\ status[c] \in Beliefs /\ status[u.on] \in Beliefs
  BY <1>1, <1>3 DEF Typed
<1>6. /\ status' \in [Sockets -> Beliefs]
      /\ \A s \in Sockets \ {c} : status'[s] = status[s]
      /\ status'[c].data \in {0, u.gen} /\ status'[c].opened = TRUE /\ status'[c].connected = TRUE
      /\ status'[c].proto = "TCP"
  <2> DEFINE d == IF status[u.on].data = 0 THEN 0 ELSE u.gen
             e == IF status[u.on].closed = 0 THEN 0 ELSE u.gen
             b == [SetOpened(status[c], "TCP") EXCEPT !.connected = TRUE, !.data = d, !.closed = e]
  <2>1. d \in {0, u.gen} /\ d \in Nat /\ e \in Nat
    BY <1>3
  <2>2. status' = [status EXCEPT ![c] = b]
    BY <1>3 DEF ProcessURC, Accepted
  <2> HIDE DEF d, e
  <2>3. b \in Beliefs /\ b.data = d /\ b.opened = TRUE /\ b.connected = TRUE /\ b.proto = "TCP"
    BY <2>1 DEF Beliefs, SetOpened, Unopened, Protocols
  <2> HIDE DEF b
  <2> QED
    BY <1>3, <1>5, <2>1, <2>2, <2>3
<1>7. /\ "overtaken" \notin flaw' => "overtaken" \notin flaw /\ ~Overtakes(u)
      /\ flaw' \subseteq {"overtaken"} => flaw \subseteq {"overtaken"} /\ Told(u)
      /\ Quiet' => Quiet /\ ~Overtakes(u) /\ Told(u)
      /\ Told(u) => owned' = owned \cup {c}
      /\ owned' \subseteq Sockets
  <2>1. Told(u) \/ Unheard(u)
    BY <1>3 DEF Told, Unheard
  <2>2. (Unheard(u) => "unheard" \in flaw') /\ (Overtakes(u) => "overtaken" \in flaw') /\ flaw \subseteq flaw'
    OBVIOUS
  <2>3. owned' = IF Told(u) THEN owned \cup {c} ELSE owned
    OBVIOUS
  <2>4. owned' \subseteq Sockets
    BY <1>1, <1>3, <2>3 DEF Typed
  <2> HIDE DEF c
  <2> QED
    BY <1>2, <2>1, <2>2, <2>3, <2>4 DEF Quiet
<1>8. Overtakes(u) <=> op # Nothing /\ 1 \in VerdictIn(line) /\ c = op.s /\ u.gen > op.gen
  <2>1. (\E j \in DOMAIN line : line[j] = Result(TRUE)) <=> 1 \in VerdictIn(line)
    <3>1. \A j \in DOMAIN line : line[j] \in Spoken
      BY <1>1, LenProperties, ElementOfSeq DEF Typed
    <3>2. \A j \in DOMAIN line : line[j] = Result(TRUE) <=> line[j].k = "result" /\ line[j].n = 1
      <4>1. Result(TRUE).k = "result" /\ Result(TRUE).n = 1
        BY DEF Result, Unsolicited
      <4> QED
        BY <3>1, <4>1, SpokenParts
    <3> QED
      BY <3>2 DEF VerdictIn
  <2> QED
    BY <1>3, <2>1 DEF Overtakes
<1>9. /\ u.gen <= opens
      /\ real[c].open => u.gen <= real[c].gen /\ real[c].gen \in Nat
      /\ op.gen \in Nat
  BY <1>1, <1>3, <1>4, Calls DEF LineRight, Typed, Ends
<1> HIDE DEF u, c
<1>10. \A g : Fresh(c, g) => g <= u.gen
  BY <1>4 DEF Fresh
<1>11. \A s \in Sockets : (Opens(s)' <=> Opens(s)) /\ (Closes(s)' <=> Closes(s)) /\ (Begins(s)' <=> Begins(s))
  BY <1>2 DEF Opens, Closes, Begins, Step
<1>12. Typed'
  BY <1>1, <1>2, <1>4, <1>6, <1>7 DEF Typed
<1>13. CallRight' /\ EndsRight'
  BY <1>1, <1>2 DEF SocketInv, CallRight, EndsRight, Step
<1>14. \A s \in Sockets : ComingIn(line', s) \subseteq ComingIn(line, s)
  BY <1>4
<1>15. LineRight'
  BY <1>1, <1>2, <1>4, <1>14 DEF LineRight, Step
<1>16. ASSUME NEW s \in Sockets, NEW g \in Nat, s = c => u.gen <= g,
              Fresh(s, g) \/ g \in ComingIn(line, s)
       PROVE  /\ Fresh(s, g) => status'[s].data \in {0, g} /\ \A h \in ComingIn(line', s) : g <= h
              /\ \/ status'[s].data \in {0, g} /\ \A h \in ComingIn(line', s) : g <= h
                 \/ g \in ComingIn(line', s)
  <2>1. CASE s # c
    BY <1>4, <1>6, <1>16, <2>1 DEF Fresh
  <2>2. CASE s = c /\ g = u.gen
    <3>1. \A h \in ComingIn(line', c) : h \in Nat /\ g <= h
      BY <1>1, <1>3, <1>4, <1>14, <2>2 DEF LineRight
    <3> QED
      BY <1>6, <2>2, <3>1
  <2>3. CASE s = c /\ g # u.gen
    <3>1. ~Fresh(s, g)
      BY <1>3, <1>10, <1>16, <2>3
    <3> QED
      BY <1>4, <1>16, <2>3, <3>1
  <2> QED
    BY <2>1, <2>2, <2>3
<1>17. OpenRight'
  <2> SUFFICES ASSUME op.k = "open", op.s # -1, ~(op.todo = <<"connect">> /\ op.sent)
               PROVE  OpenRight'
    BY <1>2 DEF OpenRight
  <2>1. /\ real[op.s].open /\ real[op.s].gen = op.gen
        /\ Step \in {"UDP", "TCP"} =>
             real[op.s].proto = Step /\ ~real[op.s].conn /\ ~real[op.s].listens
        /\ Step \notin {"UDP", "TCP"} =>
             /\ Fresh(op.s, op.gen)
             /\ real[op.s].conn => op.todo = <<"handler">> \/ (Step = "connect" /\ op.sent)
             /\ real[op.s].proto = "TCP" => op.todo \notin {<<"handler">>, <<"connect", "handler">>}
    BY DEF SocketInv, OpenRight
  <2>2. op.s \in Sockets /\ (op.s = c => u.gen <= op.gen)
    BY <1>1, <1>9, <2>1, Calls
  <2>3. Step \notin {"UDP", "TCP"} =>
          status'[op.s].data \in {0, op.gen} /\ \A h \in ComingIn(line', op.s) : op.gen <= h
    BY <1>9, <1>16, <2>1, <2>2
  <2>4. Step' = Step
    BY <1>2 DEF Step
  <2> QED
    BY <1>2, <2>1, <2>3, <2>4 DEF OpenRight, Fresh
<1>18. HandlersRight'
  <2> SUFFICES ASSUME NEW s \in Sockets, real[s].open, ~Begins(s),
                      ~(~real[s].conn /\ ~real[s].listens /\ ~Opens(s))
               PROVE  \/ status'[s].data \in {0, real[s].gen} /\ \A h \in ComingIn(line', s) : real[s].gen <= h
                      \/ real[s].gen \in ComingIn(line', s)
    BY <1>2, <1>11 DEF HandlersRight, Fresh
  <2>1. Fresh(s, real[s].gen) \/ real[s].gen \in ComingIn(line, s)
    BY DEF SocketInv, HandlersRight
  <2>2. real[s].gen \in Nat /\ (s = c => u.gen <= real[s].gen)
    BY <1>1, <1>9 DEF Typed, Ends
  <2> QED
    BY <1>16, <2>1, <2>2
<1>19. FetchedRight'
  <2> SUFFICES ASSUME "overtaken" \notin flaw'
               PROVE  /\ ~mixed
                      /\ op.got > 0 =>
                           \/ status'[op.s].data \in {0, op.gen} /\ \A h \in ComingIn(line', op.s) : op.gen <= h
                           \/ op.gen \in ComingIn(line', op.s)
    BY <1>2 DEF FetchedRight, Fresh
  <2>1. ~mixed /\ (op.got > 0 => Fresh(op.s, op.gen) \/ op.gen \in ComingIn(line, op.s))
    BY <1>7 DEF SocketInv, FetchedRight
  <2>2. ASSUME op.got > 0 PROVE op.s \in Sockets /\ (op.s = c => u.gen <= op.gen)
    <3>1. op.s \in Sockets /\ op # Nothing /\ VerdictIn(line) = {1}
      BY <1>1, <2>2, Calls DEF LineRight
    <3>2. op.s = c => ~(u.gen > op.gen)
      BY <1>7, <1>8, <3>1
    <3> QED
      BY <1>3, <1>9, <3>1, <3>2
  <2> QED
    BY <1>9, <1>16, <2>1, <2>2
<1>20. LeakRight'
  BY <1>2, <1>4, <1>7, <1>11 DEF SocketInv, LeakRight
<1>21. NewsRight'
  BY <1>2, <1>4, <1>7, <1>14 DEF SocketInv, NewsRight
<1>22. ASSUME Quiet'
       PROVE  /\ real[c].open /\ real[c].proto = "TCP" /\ real[c].conn
              /\ ComingIn(line', c) = {} /\ ~Opens(c) /\ ~Closes(c)
  <2>1. real[c].open /\ u.gen = real[c].gen /\ real[c].proto = "TCP" /\ real[c].conn
    BY <1>3, <1>4, <1>7, <1>22 DEF SocketInv, NewsRight
  <2>2. ComingIn(line', c) = {}
    <3> SUFFICES ASSUME NEW h \in ComingIn(line', c) PROVE FALSE
      OBVIOUS
    <3>1. h = real[c].gen /\ u.gen < h
      BY <1>3, <1>4, <1>7, <1>14, <1>22 DEF SocketInv, NewsRight
    <3> QED
      BY <1>3, <2>1, <3>1
  <2>3. ~Opens(c)
    BY <1>3, <1>4, <1>7, <1>22, NoSocket DEF SocketInv, UseRight, Opens
  <2>4. ~Closes(c)
    <3> SUFFICES ASSUME Closes(c) PROVE FALSE
      OBVIOUS
    <3>1. op.k = "close" /\ op.s = c /\ op # Nothing
      BY DEF Closes, Nothing
    <3>2. op.sent
      BY <1>4, <1>7, <1>22, <3>1 DEF SocketInv, UseRight
    <3>3. VerdictIn(line) = {1} /\ op.gen < u.gen
      BY <1>4, <1>7, <1>22, <3>1, <3>2 DEF SocketInv, UseRight
    <3> QED
      BY <1>3, <1>7, <1>8, <1>9, <1>22, <3>1, <3>3
  <2> QED
    BY <2>1, <2>2, <2>3, <2>4
<1>23. UseRight'
  <2> SUFFICES ASSUME Quiet' PROVE UseRight'
    BY DEF UseRight
  <2>1. ASSUME NEW s \in owned'
        PROVE  real[s].open /\ ComingIn(line', s) = {} /\ ~Opens(s) /\ ~Closes(s) /\ s \in Sockets
    <3>1. CASE s = c
      BY <1>3, <1>22, <3>1
    <3>2. CASE s # c
      <4>1. s \in owned /\ s \in Sockets
        BY <1>1, <1>7, <3>2 DEF Typed
      <4> QED
        BY <1>4, <1>7, <3>2, <4>1 DEF SocketInv, UseRight
    <3> QED
      BY <3>1, <3>2
  <2>2. op.k \in {"open", "close"} /\ op.s # -1 => op.s \in Sockets \ {c}
    BY <1>1, <1>22, Calls DEF Opens, Closes
  <2>3. op.k = "close" => op.s # -1
    BY <1>1, Calls, NoSocket
  <2> QED
    BY <1>2, <1>4, <1>7, <1>11, <2>1, <2>2, <2>3 DEF SocketInv, UseRight
<1>24. BeliefRight'
  <2> SUFFICES ASSUME Quiet' PROVE BeliefRight'
    BY DEF BeliefRight, Connects
  <2>1. ASSUME NEW s \in Sockets, s = c PROVE Agrees(s)'
    <3>1. real[s].open = TRUE /\ real[s].conn = TRUE /\ real[s].proto = "TCP"
      BY <1>1, <1>22, <2>1 DEF Typed, Ends
    <3> QED
      BY <1>2, <1>6, <2>1, <3>1 DEF Agrees
  <2>2. Step' = Step
    BY <1>2 DEF Step
  <2>3. ASSUME NEW s \in Sockets, s # c PROVE Agrees(s)' <=> Agrees(s)
    BY <1>2, <1>6, <2>3 DEF Agrees
  <2>4. \A s \in Sockets : s # c => status'[s] = status[s] /\ ComingIn(line', s) = ComingIn(line, s)
    BY <1>4, <1>6
  <2>5. \A s \in Sockets : (Connects(s)' <=> Connects(s)) /\ (Connects(s) => Opens(s))
    BY <1>2, <1>11, <2>2 DEF Connects
  <2> QED
    BY <1>2, <1>4, <1>7, <1>11, <1>22, <2>1, <2>2, <2>3, <2>4, <2>5 DEF SocketInv, BeliefRight
<1>25. DatagramsRight'
  <2>1. ASSUME NEW s \in Sockets \ {c}, Due(s) PROVE Due(s)'
    BY <1>2, <1>4, <1>6, <2>1 DEF Due
  <2> QED
    BY <1>2, <1>3, <1>4, <1>6, <1>7, <1>11, <2>1 DEF SocketInv, DatagramsRight
<1> QED
  BY <1>12, <1>13, <1>15, <1>17, <1>18, <1>19, <1>20, <1>21, <1>23, <1>24, <1>25 DEF SocketInv

\* A line is read, the first that is no result.
LEMMA ReadLineStep ==
    ASSUME SocketInv, LateRight, ReadLine
    PROVE  SocketInv'
<1>1. PICK i \in DOMAIN line \ Verdicts :
       /\ 1 .. i - 1 \subseteq Verdicts /\ (op = Nothing => i = 1)
       /\ status' = ProcessURC(status, line[i])
       /\ line' = LineWithout(i)
       /\ owned' = IF Told(line[i]) THEN owned \cup {line[i].s} ELSE owned
       /\ flaw' = flaw \cup (IF Unheard(line[i]) THEN {"unheard"} ELSE {})
                       \cup (IF Overtakes(line[i]) THEN {"overtaken"} ELSE {})
  BY DEF ReadLine
<1>2. UNCHANGED <<op, real, opens, units, mixed, sky>> /\ (op = Nothing \/ op.sent)
  BY DEF ReadLine
<1>3. i \in Nat \ {0} /\ i \in DOMAIN line /\ line[i].k \notin {"result", "late"}
  <2>1. DOMAIN line = 1 .. Len(line) /\ Len(line) \in Nat
    BY LenProperties DEF SocketInv, Typed
  <2> QED
    BY <2>1 DEF Verdicts
<1>4. \A j \in 1 .. i - 1 : line[j].k = "result"
  <2> SUFFICES ASSUME NEW j \in 1 .. i - 1 PROVE line[j].k = "result"
    OBVIOUS
  <2>1. op.sent
    BY <1>1, <1>2, <1>3
  <2>2. j \in DOMAIN line /\ line[j].k \in {"result", "late"}
    BY <1>1 DEF Verdicts
  <2> QED
    BY <2>1, <2>2 DEF LateRight
<1>5. i <= 2
  <2> SUFFICES ASSUME ~(i <= 2) PROVE FALSE
    OBVIOUS
  <2>1. 1 \in 1 .. i - 1 /\ 2 \in 1 .. i - 1
    BY <1>3
  <2>2. 1 \in DOMAIN line /\ 2 \in DOMAIN line /\ line[1].k = "result" /\ line[2].k = "result"
    BY <1>1, <1>4, <2>1 DEF Verdicts
  <2>3. OneResult(line)
    BY DEF SocketInv, LineRight
  <2>4. 1 = 2
    BY <2>2, <2>3 DEF OneResult
  <2> QED
    BY <2>4
<1>6. line' = RemoveAt(line, i)
  BY <1>1, <1>5 DEF LineWithout
<1>7. CASE line[i].k = "li"
  BY <1>1, <1>2, <1>3, <1>4, <1>6, <1>7, ReadNewsStep
<1>8. CASE line[i].k # "li"
  <2>1. owned' = owned /\ flaw' = flaw
    BY <1>1, <1>8 DEF Told, Unheard, Overtakes
  <2> QED
    BY <1>1, <1>2, <1>3, <1>4, <1>6, <1>8, <2>1, ReadNoticeStep
<1> QED
  BY <1>7, <1>8

\* An orphan is dropped.
LEMMA DropLateStep ==
    ASSUME SocketInv, DropLate
    PROVE  SocketInv'
<1>1. Typed /\ LineRight /\ CallRight
  BY DEF SocketInv
<1>2. UNCHANGED <<status, op, real, owned, opens, units, flaw, mixed, sky>>
  BY DEF DropLate
<1>3. /\ line \in Seq(Spoken) /\ line # <<>> /\ Head(line).k = "late" /\ line' = Tail(line)
      /\ InOrder(line, op.gen) /\ OneResult(line)
  BY <1>1 DEF DropLate, Typed, LineRight
<1>4. /\ line' \in Seq(Spoken) /\ InOrder(line', op.gen) /\ OneResult(line')
      /\ \A s \in Sockets : ComingIn(line', s) = ComingIn(line, s)
      /\ VerdictIn(line') = VerdictIn(line)
      /\ \A s \in Sockets : AnnouncedIn(line, s) => AnnouncedIn(line', s)
      /\ PlainIn(line) => PlainIn(line')
  BY <1>3, OrphanTaken
<1>5. Typed' /\ LineRight'
  BY <1>1, <1>2, <1>4 DEF Typed, LineRight, Step
<1>6. CallRight' /\ EndsRight'
  BY <1>1, <1>2 DEF SocketInv, CallRight, EndsRight, Step
<1>7. OpenRight' /\ HandlersRight' /\ FetchedRight'
  BY <1>1, <1>2, <1>4, Calls DEF SocketInv, OpenRight, HandlersRight, FetchedRight, Fresh, Begins, Opens, Step
<1>8. LeakRight' /\ NewsRight'
  BY <1>2, <1>4 DEF SocketInv, LeakRight, NewsRight, Opens, Closes, Quiet
<1>9. UseRight'
  BY <1>1, <1>2, <1>4, Calls DEF SocketInv, Typed, UseRight, Quiet, Opens, Closes
<1>10. BeliefRight'
  BY <1>2, <1>4 DEF SocketInv, BeliefRight, Connects, Quiet, Opens, Closes, Begins, Agrees, Step
<1>11. DatagramsRight'
  <2>1. ASSUME NEW s \in Sockets, Due(s) PROVE Due(s)'
    BY <1>2, <1>4, <2>1 DEF Due
  <2> QED
    BY <1>2, <1>4, <2>1 DEF SocketInv, DatagramsRight, Opens, Closes, Begins, Step
<1> QED
  BY <1>5, <1>6, <1>7, <1>8, <1>9, <1>10, <1>11 DEF SocketInv

\* What a late result says is a line of the modem.
LEMMA StrayLine ==
    ASSUME NEW ok \in BOOLEAN, NEW call, Head(call.todo) \in Requests,
           call.s \in Sockets \cup {-1}, call.gen \in Nat, call.got \in Nat,
           ok /\ Head(call.todo) \in {"UDP", "TCP"} => call.s \in Sockets
    PROVE  LateResult(ok, call) \in Spoken /\ LateResult(ok, call).k = "late"
<1> DEFINE e == LateResult(ok, call)
<1>1. e \in Strays /\ e.k = "late" /\ e.ok = ok /\ e.to = Head(call.todo) /\ e.s = call.s
  BY DEF LateResult, Strays
<1>2. e \in {u \in Strays : u.ok /\ u.to \in {"UDP", "TCP"} => u.s \in Sockets}
  BY <1>1
<1> HIDE DEF e
<1>3. e \in Spoken /\ e.k = "late"
  BY <1>1, <1>2 DEF Spoken
<1> QED
  BY <1>3 DEF e

\* A command times out: it was lost, or it is refused or executed too late.
LEMMA TimesOutStep ==
    ASSUME SocketInv, CommandTimesOut \/ AnsweredLate
    PROVE  SocketInv'
<1> DEFINE a == op.s
<1>1. Typed /\ LineRight /\ CallRight
  BY DEF SocketInv
<1>2. /\ Waits /\ UNCHANGED <<owned, units, mixed, sky>>
      /\ flaw' \in {flaw \cup {"lost"}, flaw \cup {"late"}}
      /\ status' = Unconnected(status) /\ op' = GiveUp
      /\ \/ line' = line /\ real' = real /\ opens' = opens
         \/ line' = Append(line, LateResult(FALSE, op)) /\ real' = real /\ opens' = opens
         \/ /\ a # -1 /\ real[a].open /\ real' = [real EXCEPT ![a] = After(a)] /\ opens' = opens
            /\ line' = Append(IF Step = "connect" /\ real[a].proto = "TCP"
                                THEN Append(line, Unsolicited("co", a, 0)) ELSE Reread(a), LateResult(TRUE, Served))
         \/ /\ Step \in {"UDP", "TCP"} /\ opens' = opens + 1
            /\ \E s \in Free : real' = OpenEnds(s) /\ line' = Append(line, LateResult(TRUE, OpenCall(s)))
  BY DEF CommandTimesOut, AnsweredLate, TimesOut, Says, Claims
<1>3. /\ ~op.sent /\ op.got = 0 /\ VerdictIn(line) = {} /\ \A g : InOrder(line, g)
      /\ \A s \in Sockets : ~Begins(s)
      /\ \/ op.k = "open" /\ a = -1 /\ Step \in {"UDP", "TCP"} /\ op.todo \in Agenda
         \/ /\ op.k = "open" /\ a \in Sockets /\ Step \in {"listen", "connect", "accept"}
            /\ op.todo \in Agenda
            /\ real[a].open /\ real[a].gen = op.gen /\ Fresh(a, op.gen) /\ ~real[a].conn
            /\ real[a].proto = "TCP" => op.todo \notin {<<"handler">>, <<"connect", "handler">>}
         \/ op.k = "close" /\ a \in Sockets /\ Step = "close"
         \/ op.k = "fetch" /\ a \in Sockets /\ Step \in {"rd", "rf"}
  BY <1>2, Waiting
<1>4. opens \in Nat /\ opens + 1 \in Nat /\ real \in [Sockets -> Ends]
  BY <1>1 DEF Typed
<1>5. /\ op' \in Call /\ ~op'.sent /\ op'.got = 0 /\ op'.gen = 0 /\ op'.k \in {"idle", "close"}
      /\ op' = Nothing \/ (op'.k = "close" /\ op'.s \in Sockets /\ op'.todo = <<"close">>)
  <2>1. op' = Nothing \/ (op' = Closing(a) /\ a \in Sockets)
    BY <1>2, <1>3 DEF GiveUp
  <2>2. CASE op' = Nothing
    BY <2>2 DEF Nothing, Call
  <2>3. CASE op' = Closing(a) /\ a \in Sockets
    BY <2>3 DEF Closing, Nothing, Call
  <2> QED
    BY <2>1, <2>2, <2>3
<1>6. status' \in [Sockets -> Beliefs] /\ \A s \in Sockets : status'[s].data = status[s].data
  BY <1>1, <1>2, <1>3, Marked
<1>7. /\ line' \in Seq(Spoken) /\ OneResult(line') /\ VerdictIn(line') = {}
      /\ \A s \in Sockets : ComingIn(line', s) = ComingIn(line, s)
      /\ InOrder(line', op'.gen)
  <2> DEFINE g == op'.gen
  <2>1. line \in Seq(Spoken) /\ OneResult(line) /\ InOrder(line, g)
    BY <1>1, <1>3 DEF Typed, LineRight
  <2>2. op.gen \in Nat /\ op.got \in Nat /\ op.s \in Sockets \cup {-1} /\ Head(op.todo) \in Requests
    <3>1. op.gen \in Nat /\ op.got \in Nat /\ op.s \in Sockets \cup {-1}
      BY <1>1, Calls
    <3>2. Step \in Requests
      BY <1>3 DEF Requests
    <3> QED
      BY <3>1, <3>2 DEF Step
  <2>3. ASSUME NEW ln \in Seq(Spoken), OneResult(ln), InOrder(ln, g), VerdictIn(ln) = {},
               \A s \in Sockets : ComingIn(ln, s) = ComingIn(line, s),
               NEW ok \in BOOLEAN, NEW call, LateResult(ok, call) \in Spoken, LateResult(ok, call).k = "late",
               line' = Append(ln, LateResult(ok, call))
        PROVE  /\ line' \in Seq(Spoken) /\ OneResult(line') /\ VerdictIn(line') = {}
               /\ \A s \in Sockets : ComingIn(line', s) = ComingIn(line, s)
               /\ InOrder(line', g)
    <3> DEFINE e == LateResult(ok, call)
    <3>1. e \in Spoken /\ e.k = "late" /\ line' = Append(ln, e)
      BY <2>3
    <3> HIDE DEF e, g
    <3>2. e.k # "li" /\ e.k # "result"
      BY <3>1
    <3> QED
      BY <2>3, <3>1, <3>2, Appended
  <2>4. CASE line' = line
    BY <1>3, <2>1, <2>4
  <2>5. CASE line' = Append(line, LateResult(FALSE, op))
    <3>1. LateResult(FALSE, op) \in Spoken /\ LateResult(FALSE, op).k = "late"
      BY <2>2, StrayLine
    <3> QED
      BY <1>3, <2>1, <2>3, <2>5, <3>1
  <2>6. CASE /\ a # -1 /\ real[a].open
             /\ line' = Append(IF Step = "connect" /\ real[a].proto = "TCP"
                                 THEN Append(line, Unsolicited("co", a, 0)) ELSE Reread(a), LateResult(TRUE, Served))
    <3> DEFINE ln == IF Step = "connect" /\ real[a].proto = "TCP"
                       THEN Append(line, Unsolicited("co", a, 0)) ELSE Reread(a)
    <3>1. a \in Sockets /\ real[a] \in Ends /\ real[a].gen \in Nat /\ real[a].q \in Nat
      BY <1>3, <1>4, <2>6 DEF Ends
    <3>2. /\ Head(Served.todo) = Step /\ Served.s = a /\ Served.gen \in Nat /\ Served.got \in Nat
      <4>1. op \in Call
        BY <1>1 DEF CallRight
      <4> DEFINE got == IF Reads THEN real[a].q - After(a).q ELSE 0
      <4>2. got \in Nat
        <5>1. CASE Step = "rf"
          <6>1. After(a).q = IF real[a].q > 0 THEN real[a].q - 1 ELSE 0
            BY <3>1, <5>1 DEF After, Ends
          <6> QED
            BY <3>1, <6>1
        <5>2. CASE Step = "rd"
          <6>1. After(a).q = IF real[a].q > 0 /\ real[a].proto = "UDP" THEN real[a].q - 1 ELSE 0
            BY <3>1, <5>2 DEF After, Ends
          <6> QED
            BY <3>1, <6>1
        <5>3. CASE Step \notin {"rd", "rf"}
          BY <5>3 DEF Reads
        <5> QED
          BY <5>1, <5>2, <5>3
      <4> HIDE DEF got
      <4>3. Served = [op EXCEPT !.got = got, !.gen = real[a].gen]
        BY DEF Served, got
      <4> QED
        BY <3>1, <4>1, <4>2, <4>3 DEF Call, Step
    <3>3. LateResult(TRUE, Served) \in Spoken /\ LateResult(TRUE, Served).k = "late"
      BY <2>2, <3>1, <3>2, StrayLine DEF Step
    <3>4. \/ ln = line
          \/ \E k \in {"rd", "rf", "co"} : \E n \in Nat :
               ln = Append(line, Unsolicited(k, a, n)) /\ (k \in {"rd", "rf"} => n > 0)
      BY DEF Reread, Announces
    <3>5. line' = Append(ln, LateResult(TRUE, Served))
      BY <2>6
    <3> HIDE DEF ln
    <3>6. CASE ln = line
      BY <1>3, <2>1, <2>3, <3>3, <3>5, <3>6
    <3>7. CASE \E k \in {"rd", "rf", "co"} : \E n \in Nat :
                 ln = Append(line, Unsolicited(k, a, n)) /\ (k \in {"rd", "rf"} => n > 0)
      <4>1. PICK k \in {"rd", "rf", "co"}, n \in Nat :
               ln = Append(line, Unsolicited(k, a, n)) /\ (k \in {"rd", "rf"} => n > 0)
        BY <3>7
      <4> DEFINE e == Unsolicited(k, a, n)
      <4>2. e \in Spoken /\ e.k # "li" /\ e.k # "result"
        <5>1. e \in Notices /\ e.k = k /\ e.n = n
          BY <3>1 DEF Unsolicited, Notices
        <5>2. e \in {x \in Notices : x.k \in {"rd", "rf"} => x.n > 0}
          BY <4>1, <5>1
        <5> HIDE DEF e
        <5> QED
          BY <5>1, <5>2 DEF Spoken
      <4>3. ln = Append(line, e)
        BY <4>1
      <4> HIDE DEF e, g
      <4>4. /\ ln \in Seq(Spoken) /\ OneResult(ln) /\ InOrder(ln, g) /\ VerdictIn(ln) = {}
            /\ \A s \in Sockets : ComingIn(ln, s) = ComingIn(line, s)
        BY <1>3, <2>1, <4>2, <4>3, Appended
      <4> QED
        BY <2>3, <3>3, <3>5, <4>4 DEF g
    <3> QED
      BY <3>4, <3>6, <3>7
  <2>7. CASE \E s \in Free : line' = Append(line, LateResult(TRUE, OpenCall(s)))
    <3>1. PICK c \in Sockets : line' = Append(line, LateResult(TRUE, OpenCall(c)))
      BY <2>7 DEF Free
    <3>2. /\ OpenCall(c).todo = op.todo /\ OpenCall(c).s = c /\ OpenCall(c).gen \in Nat /\ OpenCall(c).got = op.got
      BY <1>1, <1>4 DEF OpenCall, CallRight, Call
    <3>3. LateResult(TRUE, OpenCall(c)) \in Spoken /\ LateResult(TRUE, OpenCall(c)).k = "late"
      BY <2>2, <3>2, StrayLine
    <3> QED
      BY <1>3, <2>1, <2>3, <3>1, <3>3
  <2> QED
    BY <1>2, <2>4, <2>5, <2>6, <2>7
<1>8. /\ real' \in [Sockets -> Ends] /\ opens' \in Nat /\ opens <= opens'
      /\ \A s \in Sockets :
           \/ real'[s] = real[s]
           \/ real'[s] = Shut
           \/ /\ real'[s].open /\ real'[s].proto \in {"UDP", "TCP"} /\ real'[s].gen \in Nat
              /\ real'[s].q > 0 => real'[s].conn \/ real'[s].listens
              /\ \/ real'[s].gen = opens + 1 /\ opens' = opens + 1 /\ ~real'[s].conn /\ ~real'[s].listens
                 \/ /\ real[s].open /\ real'[s].gen = real[s].gen
                    /\ \/ Fresh(s, real[s].gen)
                       \/ /\ real'[s].conn = real[s].conn /\ real'[s].listens = real[s].listens
                          /\ op.k # "open"
  <2>1. CASE real' = real /\ opens' = opens
    BY <1>4, <2>1
  <2>2. CASE a # -1 /\ real[a].open /\ real' = [real EXCEPT ![a] = After(a)] /\ opens' = opens
    <3>1. a \in Sockets /\ real[a] \in Ends
      BY <1>3, <1>4, <2>2
    <3>2. CASE Step = "close"
      <4>1. After(a) = Shut /\ Shut \in Ends
        BY <3>2 DEF After, Ends, Shut, Protocols
      <4> QED
        BY <1>4, <2>2, <3>1, <4>1
    <3>3. CASE Step \in {"listen", "connect", "accept"}
      <4>1. /\ After(a) \in Ends /\ After(a).open /\ After(a).gen = real[a].gen /\ After(a).proto = real[a].proto
            /\ After(a).conn \/ After(a).listens
        BY <2>2, <3>1, <3>3 DEF After, Ends
      <4>2. Fresh(a, real[a].gen) /\ real[a].proto \in {"UDP", "TCP"} /\ real[a].gen \in Nat
        BY <1>3, <2>2, <3>1, <3>3 DEF SocketInv, EndsRight, Ends
      <4> QED
        BY <1>4, <2>2, <3>1, <4>1, <4>2
    <3>4. CASE Step \in {"rd", "rf"}
      <4>1. PICK n \in Nat : After(a) = [real[a] EXCEPT !.q = n] /\ (n > 0 => real[a].q > 0)
        <5>1. real[a].q \in Nat
          BY <3>1 DEF Ends
        <5> DEFINE m == IF real[a].q > 0 THEN real[a].q - 1 ELSE 0
                   o == IF real[a].q > 0 /\ real[a].proto = "UDP" THEN real[a].q - 1 ELSE 0
        <5>2. m \in Nat /\ (m > 0 => real[a].q > 0) /\ o \in Nat /\ (o > 0 => real[a].q > 0)
          BY <5>1
        <5>3. After(a) = [real[a] EXCEPT !.q = m] \/ After(a) = [real[a] EXCEPT !.q = o]
          BY <3>4 DEF After
        <5> QED
          BY <5>2, <5>3
      <4>2. /\ After(a) \in Ends /\ After(a).open /\ After(a).gen = real[a].gen /\ After(a).proto = real[a].proto
            /\ After(a).conn = real[a].conn /\ After(a).listens = real[a].listens /\ After(a).q = n
        BY <2>2, <3>1, <4>1 DEF Ends
      <4>3. /\ real[a].proto \in {"UDP", "TCP"} /\ op.k # "open" /\ real[a].gen \in Nat
            /\ real[a].q > 0 => real[a].conn \/ real[a].listens
        BY <1>3, <2>2, <3>1, <3>4 DEF SocketInv, EndsRight, Ends
      <4> QED
        BY <1>4, <2>2, <3>1, <4>1, <4>2, <4>3
    <3> QED
      BY <1>3, <2>2, <3>2, <3>3, <3>4
  <2>3. CASE /\ Step \in {"UDP", "TCP"} /\ opens' = opens + 1
             /\ \E s \in Free : real' = OpenEnds(s)
    <3>1. PICK c \in Sockets : real' = [real EXCEPT ![c] = [Shut EXCEPT !.open = TRUE, !.gen = opens + 1, !.proto = Step]]
      BY <2>3 DEF Free, OpenEnds
    <3> DEFINE e == [Shut EXCEPT !.open = TRUE, !.gen = opens + 1, !.proto = Step]
    <3>2. /\ e \in Ends /\ e.open /\ e.gen = opens + 1 /\ e.proto = Step /\ ~e.conn /\ ~e.listens /\ e.q = 0
      BY <1>4, <2>3 DEF Ends, Shut, Protocols
    <3>3. real' = [real EXCEPT ![c] = e]
      BY <3>1
    <3> HIDE DEF e
    <3>4. real' \in [Sockets -> Ends] /\ real'[c] = e /\ \A s \in Sockets \ {c} : real'[s] = real[s]
      BY <1>4, <3>2, <3>3
    <3>5. opens' \in Nat /\ opens <= opens'
      BY <1>4, <2>3
    <3>6. /\ e.open /\ e.proto \in {"UDP", "TCP"} /\ e.gen \in Nat /\ ~(e.q > 0)
          /\ e.gen = opens + 1 /\ ~e.conn /\ ~e.listens
      BY <1>4, <2>3, <3>2
    <3>7. opens' = opens + 1
      BY <2>3
    <3> QED
      BY <3>4, <3>5, <3>6, <3>7
  <2> QED
    BY <1>2, <2>1, <2>2, <2>3
<1> HIDE DEF a
<1>9. /\ ~Quiet' /\ ~(flaw' \subseteq {"overtaken"}) /\ ("overtaken" \in flaw' => "overtaken" \in flaw)
  BY <1>2 DEF Quiet
<1>10. \A s \in Sockets : ~Opens(s)' /\ ~Begins(s)'
  BY <1>5 DEF Opens, Begins
<1>11. Typed'
  BY <1>1, <1>2, <1>6, <1>7, <1>8 DEF Typed
<1>12. CallRight'
  BY <1>5, <1>8, NoSocket DEF CallRight
<1>13. EndsRight'
  <2> SUFFICES ASSUME NEW s \in Sockets
               PROVE  /\ ~real'[s].open => real'[s] = Shut
                      /\ real'[s].open => real'[s].gen <= opens' /\ real'[s].proto \in {"UDP", "TCP"}
                      /\ real'[s].q > 0 => real'[s].conn \/ real'[s].listens
    BY DEF EndsRight
  <2>1. /\ ~real[s].open => real[s] = Shut
        /\ real[s].open => real[s].gen <= opens /\ real[s].proto \in {"UDP", "TCP"}
        /\ real[s].q > 0 => real[s].conn \/ real[s].listens
        /\ real[s].gen \in Nat
    BY <1>4 DEF SocketInv, EndsRight, Ends
  <2>2. PICK o \in Nat : o = opens'
    BY <1>8
  <2>3. real[s].open => real[s].gen <= o
    BY <1>4, <1>8, <2>1, <2>2
  <2>4. CASE real'[s] = real[s]
    BY <2>1, <2>2, <2>3, <2>4
  <2>5. CASE real'[s] = Shut
    BY <2>5 DEF Shut
  <2>6. CASE /\ real'[s].open /\ real'[s].proto \in {"UDP", "TCP"}
             /\ real'[s].q > 0 => real'[s].conn \/ real'[s].listens
             /\ \/ real'[s].gen = opens + 1 /\ opens' = opens + 1
                \/ real[s].open /\ real'[s].gen = real[s].gen
    BY <1>4, <2>2, <2>3, <2>6
  <2> QED
    BY <1>8, <2>4, <2>5, <2>6
<1>14. LineRight'
  <2>1. ASSUME NEW s \in Sockets, NEW g \in ComingIn(line, s)
        PROVE  g \in Nat /\ g <= opens' /\ (real'[s].open => g <= real'[s].gen)
    <3>1. g \in Nat /\ g <= opens /\ (real[s].open => g <= real[s].gen)
      BY <1>1 DEF LineRight
    <3>2. PICK o \in Nat : o = opens'
      BY <1>8
    <3>3. g <= o /\ g <= opens + 1
      BY <1>4, <1>8, <3>1, <3>2
    <3>4. real'[s].open => g <= real'[s].gen
      <4>1. Shut.open = FALSE
        BY DEF Shut
      <4> QED
        BY <1>8, <3>1, <3>3, <4>1
    <3> QED
      BY <3>1, <3>2, <3>3, <3>4
  <2>2. op'.k # "open"
    BY <1>5
  <2> QED
    BY <1>5, <1>7, <2>1, <2>2 DEF LineRight
<1>15. OpenRight'
  BY <1>5 DEF OpenRight
<1>16. HandlersRight'
  <2> SUFFICES ASSUME NEW s \in Sockets, real'[s].open
               PROVE  \/ status'[s].data \in {0, real'[s].gen} /\ \A h \in ComingIn(line', s) : real'[s].gen <= h
                      \/ real'[s].gen \in ComingIn(line', s)
                      \/ ~real'[s].conn /\ ~real'[s].listens
    BY <1>10 DEF HandlersRight, Fresh
  <2>1. real[s].open => \/ Fresh(s, real[s].gen)
                        \/ real[s].gen \in ComingIn(line, s)
                        \/ ~real[s].conn /\ ~real[s].listens /\ ~Opens(s)
    BY <1>3 DEF SocketInv, HandlersRight
  <2>2. real'[s] # Shut
    BY DEF Shut
  <2>3. CASE real'[s] = real[s]
    BY <1>6, <1>7, <2>1, <2>3 DEF Fresh
  <2>4. CASE real'[s] # real[s] /\ ~(~real'[s].conn /\ ~real'[s].listens)
    <3>1. /\ real[s].open /\ real'[s].gen = real[s].gen
          /\ \/ Fresh(s, real[s].gen)
             \/ real'[s].conn = real[s].conn /\ real'[s].listens = real[s].listens
      BY <1>8, <2>2, <2>4
    <3> QED
      BY <1>6, <1>7, <2>1, <2>4, <3>1 DEF Fresh
  <2> QED
    BY <2>3, <2>4
<1>17. FetchedRight'
  BY <1>2, <1>5, <1>9 DEF SocketInv, FetchedRight
<1>18. LeakRight' /\ NewsRight' /\ UseRight' /\ BeliefRight' /\ DatagramsRight'
  BY <1>9 DEF LeakRight, NewsRight, UseRight, BeliefRight, Connects, DatagramsRight
<1> QED
  BY <1>11, <1>12, <1>13, <1>14, <1>15, <1>16, <1>17, <1>18 DEF SocketInv

\* A result is taken: what it changes whatever it says.
LEMMA Finishing ==
    ASSUME SocketInv, Finish
    PROVE  /\ Typed /\ LineRight /\ CallRight
           /\ op # Nothing /\ op.sent /\ UNCHANGED <<real, opens, units, flaw, sky>>
           /\ line' \in Seq(Spoken) /\ (\A g : InOrder(line', g)) /\ OneResult(line')
           /\ \A s \in Sockets : ComingIn(line', s) = ComingIn(line, s)
           /\ \A s \in Sockets : \A h \in ComingIn(line, s) : op.gen < h
           /\ VerdictIn(line) = {Head(line).n} /\ VerdictIn(line') = {} /\ Head(line).n \in {0, 1}
           /\ \A s \in Sockets : AnnouncedIn(line, s) => AnnouncedIn(line', s)
           /\ PlainIn(line) => PlainIn(line')
<1>1. Typed /\ LineRight /\ CallRight
  BY DEF SocketInv
<1>2. /\ op # Nothing /\ op.sent /\ UNCHANGED <<real, opens, units, flaw, sky>>
      /\ line # <<>> /\ Head(line).k = "result" /\ line' = Tail(line)
  BY DEF Finish, Succeed, Fail, Mixes
<1>3. line \in Seq(Spoken) /\ InOrder(line, op.gen) /\ OneResult(line)
  BY <1>1 DEF Typed, LineRight
<1> QED
  BY <1>1, <1>2, <1>3, ResultTaken

\* The command failed: a composite call closes what it opened.
LEMMA FinishFailedStep ==
    ASSUME SocketInv, Finish, Head(line).n # 1
    PROVE  SocketInv'
<1> DEFINE a == op.s
<1>1. /\ Typed /\ LineRight /\ CallRight
      /\ op # Nothing /\ op.sent /\ UNCHANGED <<real, opens, units, flaw, sky>>
      /\ line' \in Seq(Spoken) /\ (\A g : InOrder(line', g)) /\ OneResult(line')
      /\ \A s \in Sockets : ComingIn(line', s) = ComingIn(line, s)
      /\ VerdictIn(line) = {0} /\ VerdictIn(line') = {}
      /\ \A s \in Sockets : AnnouncedIn(line, s) => AnnouncedIn(line', s)
      /\ PlainIn(line) => PlainIn(line')
  BY Finishing
<1>2. op' = GiveUp /\ UNCHANGED <<status, mixed, owned>>
  BY DEF Finish, Succeed, Fail, Mixes
<1>3. VerdictIn(line) # {1} /\ op.got = 0
  <2>1. VerdictIn(line) # {1}
    BY <1>1
  <2>2. op.got \in Nat /\ ~(op.got > 0)
    <3>1. op.got > 0 => VerdictIn(line) = {1}
      BY <1>1 DEF LineRight
    <3> QED
      BY <1>1, <2>1, <3>1, Calls
  <2> QED
    BY <2>1, <2>2
<1>4. op.k = "open" /\ Step \in {"UDP", "TCP"} => a = -1
  BY <1>1, <1>3 DEF LineRight
<1>5. \A s \in Sockets : ~Begins(s)
  BY <1>4, NoSocket DEF Begins, Opens
<1>6. /\ op' \in Call /\ ~op'.sent /\ op'.got = 0 /\ op'.gen = 0 /\ op'.k \in {"idle", "close"}
      /\ \/ op' = Nothing /\ \A s \in Sockets : ~Opens(s)
         \/ op'.k = "close" /\ op'.s = a /\ op'.todo = <<"close">> /\ op.k = "open" /\ a \in Sockets
  <2>1. CASE op.k = "open" /\ a # -1 /\ Step \notin {"UDP", "TCP"}
    <3>1. op' = Closing(a) /\ a \in Sockets
      BY <1>1, <1>2, <2>1, Calls DEF GiveUp, Claims
    <3> QED
      BY <2>1, <3>1 DEF Closing, Nothing, Call
  <2>2. CASE ~(op.k = "open" /\ a # -1 /\ Step \notin {"UDP", "TCP"})
    <3>1. op' = Nothing
      BY <1>2, <2>2 DEF GiveUp, Claims
    <3>2. \A s \in Sockets : ~Opens(s)
      BY <1>4, <2>2, NoSocket DEF Opens
    <3> QED
      BY <3>1, <3>2 DEF Nothing, Call
  <2> QED
    BY <2>1, <2>2
<1>7. \A s \in Sockets : /\ ~Opens(s)' /\ ~Begins(s)' /\ ~Connects(s)'
                         /\ Opens(s) => Closes(s)'
                         /\ Closes(s)' => Opens(s)
  BY <1>6 DEF Opens, Closes, Begins, Connects, Nothing
<1> HIDE DEF a
<1>8. Typed'
  BY <1>1, <1>2 DEF Typed
<1>9. CallRight'
  BY <1>1, <1>6, NoSocket DEF CallRight, Typed
<1>10. EndsRight'
  BY <1>1 DEF SocketInv, EndsRight
<1>11. LineRight'
  BY <1>1, <1>6 DEF LineRight
<1>12. OpenRight' /\ FetchedRight'
  BY <1>1, <1>2, <1>6 DEF SocketInv, OpenRight, FetchedRight
<1>13. HandlersRight'
  BY <1>1, <1>2, <1>5, <1>7 DEF SocketInv, HandlersRight, Fresh
<1>14. LeakRight'
  BY <1>1, <1>2, <1>6, <1>7 DEF SocketInv, LeakRight
<1>15. NewsRight'
  BY <1>1 DEF SocketInv, NewsRight, Quiet
<1>16. UseRight'
  <2> SUFFICES ASSUME Quiet PROVE UseRight'
    BY <1>1 DEF UseRight, Quiet
  <2>1. /\ \A s \in owned : real[s].open /\ ComingIn(line, s) = {} /\ ~Opens(s) /\ s \in Sockets
        /\ op.k = "open" /\ a \in Sockets => real[a].open /\ ComingIn(line, a) = {}
    BY <1>1, NoSocket DEF SocketInv, UseRight, Typed, a
  <2> QED
    BY <1>1, <1>2, <1>6, <1>7, <2>1 DEF UseRight, Nothing
<1>17. BeliefRight'
  <2> SUFFICES ASSUME Quiet, NEW s \in Sockets, ComingIn(line, s) = {} PROVE Agrees(s)
    BY <1>1, <1>2, <1>7 DEF BeliefRight, Quiet, Agrees
  <2>1. ~(Closes(s) /\ op.sent)
    BY <1>3 DEF SocketInv, UseRight, Closes
  <2>2. CASE Connects(s)
    <3>1. /\ status[s].opened = real[s].open /\ status[s].proto = real[s].proto
          /\ ~real[s].conn /\ ~status[s].connected
      BY <1>3, <1>5, <2>1, <2>2 DEF SocketInv, BeliefRight
    <3>2. real[s].conn \in BOOLEAN /\ status[s].connected \in BOOLEAN
      BY <1>1 DEF Typed, Ends, Beliefs
    <3> QED
      BY <3>1, <3>2 DEF Agrees
  <2>3. CASE ~Connects(s)
    BY <1>5, <2>1, <2>3 DEF SocketInv, BeliefRight
  <2> QED
    BY <2>2, <2>3
<1>18. DatagramsRight'
  <2>1. ASSUME NEW s \in Sockets, Due(s) PROVE Due(s)'
    BY <1>1, <1>2, <2>1 DEF Due
  <2> QED
    BY <1>1, <1>2, <1>5, <1>6, <2>1 DEF SocketInv, DatagramsRight
<1> QED
  BY <1>8, <1>9, <1>10, <1>11, <1>12, <1>13, <1>14, <1>15, <1>16, <1>17, <1>18 DEF SocketInv

\* The modem said which socket it opened.
LEMMA FinishBegunStep ==
    ASSUME SocketInv, Finish, Head(line).n = 1, op.k = "open", Step \in {"UDP", "TCP"}
    PROVE  SocketInv'
<1> DEFINE a == op.s
<1>1. /\ Typed /\ LineRight /\ CallRight
      /\ op.sent /\ UNCHANGED <<real, opens, units, flaw, sky>>
      /\ line' \in Seq(Spoken) /\ (\A g : InOrder(line', g)) /\ OneResult(line')
      /\ \A s \in Sockets : ComingIn(line', s) = ComingIn(line, s)
      /\ \A s \in Sockets : \A h \in ComingIn(line, s) : op.gen < h
      /\ VerdictIn(line) = {1} /\ VerdictIn(line') = {}
      /\ \A s \in Sockets : AnnouncedIn(line, s) => AnnouncedIn(line', s)
      /\ PlainIn(line) => PlainIn(line')
  BY Finishing
<1>2. op.k = "open" /\ Step \in {"UDP", "TCP"}
  OBVIOUS
<1>3. /\ a \in Sockets /\ a # -1 /\ op.todo \in Agenda /\ op.got = 0
      /\ op \in Call /\ op.gen \in Nat /\ op.gen <= opens
  BY <1>1, <1>2, Calls DEF LineRight
<1>4. /\ real[a].open /\ real[a].gen = op.gen /\ real[a].proto = Step
      /\ ~real[a].conn /\ ~real[a].listens
  <2>1. op.todo # <<"connect">>
    BY <1>2 DEF Step
  <2> QED
    BY <1>2, <1>3, <2>1 DEF SocketInv, OpenRight
<1>5. /\ Tail(op.todo) # <<>> /\ Tail(op.todo) \in Agenda /\ Head(Tail(op.todo)) \notin {"UDP", "TCP"}
      /\ Step = "TCP" => Tail(op.todo) \notin {<<"handler">>, <<"connect", "handler">>}
  BY <1>2, <1>3, Tails DEF Step
<1>6. /\ op' \in Call /\ op'.k = "open" /\ op'.s = a /\ op'.gen = op.gen /\ op'.todo = Tail(op.todo)
      /\ op'.sent = FALSE /\ op'.got = 0 /\ Step' \notin {"UDP", "TCP"}
  <2>1. op' = [op EXCEPT !.todo = Tail(op.todo), !.sent = FALSE]
    BY <1>5 DEF Finish, Succeed, Fail, Mixes, Continue
  <2>2. op' \in Call
    BY <1>3, <1>5, <2>1 DEF Call
  <2>3. op'.todo = Tail(op.todo)
    BY <1>3, <2>1 DEF Call
  <2> QED
    BY <1>2, <1>3, <1>5, <2>1, <2>2, <2>3 DEF Call, Step
<1>7. owned' = owned
  BY <1>5 DEF Finish, Succeed, Fail, Mixes
<1>8. mixed' = mixed
  <2>1. mixed' = (mixed \/ (op.got > 0 /\ status[op.s].data \notin {0, op.gen}))
    BY DEF Finish, Succeed, Fail, Mixes
  <2>2. ~(op.got > 0)
    BY <1>3
  <2>3. mixed \in BOOLEAN
    BY <1>1 DEF Typed
  <2> QED
    BY <2>1, <2>2, <2>3, Zenon
<1>9. /\ status' \in [Sockets -> Beliefs]
      /\ \A s \in Sockets \ {a} : status'[s] = status[s]
      /\ status'[a].opened = TRUE /\ status'[a].connected = FALSE /\ status'[a].proto = Step
      /\ status'[a].data = 0
  <2> DEFINE b == SetOpened(status[a], Step)
  <2>1. status' = [status EXCEPT ![a] = b]
    BY <1>2 DEF Finish, Succeed, Fail, Mixes, Done
  <2>2. b \in Beliefs /\ b.opened = TRUE /\ b.connected = FALSE /\ b.proto = Step /\ b.data = 0
    BY <1>2 DEF SetOpened, Unopened, Beliefs, Protocols
  <2>3. status \in [Sockets -> Beliefs]
    BY <1>1 DEF Typed
  <2> HIDE DEF b
  <2> QED
    BY <1>3, <2>1, <2>2, <2>3
<1>10. \A s \in Sockets : /\ Opens(s) <=> s = a
                          /\ Opens(s)' <=> s = a
                          /\ Begins(s) => s = a
                          /\ ~Begins(s)' /\ ~Connects(s) /\ ~Connects(s)' /\ ~Closes(s) /\ ~Closes(s)'
  BY <1>2, <1>6 DEF Opens, Begins, Connects, Closes
<1> HIDE DEF a
<1>11. Typed'
  BY <1>1, <1>7, <1>8, <1>9 DEF Typed
<1>12. CallRight'
  BY <1>1, <1>3, <1>5, <1>6 DEF CallRight
<1>13. EndsRight'
  BY <1>1 DEF SocketInv, EndsRight
<1>14. LineRight'
  BY <1>1, <1>6 DEF LineRight
<1>15. \A h \in ComingIn(line, a) : h \in Nat /\ op.gen <= h
  BY <1>1, <1>3 DEF LineRight
<1>16. OpenRight'
  <2>1. status'[a].data \in {0, op.gen} /\ \A h \in ComingIn(line', a) : op.gen <= h
    BY <1>1, <1>3, <1>9, <1>15
  <2> QED
    BY <1>1, <1>4, <1>5, <1>6, <2>1 DEF OpenRight, Fresh
<1>17. HandlersRight'
  <2>1. status'[a].data \in {0, op.gen} /\ \A h \in ComingIn(line', a) : op.gen <= h
    BY <1>1, <1>3, <1>9, <1>15
  <2> QED
    BY <1>1, <1>4, <1>9, <1>10, <2>1 DEF SocketInv, HandlersRight, Fresh
<1>18. FetchedRight'
  BY <1>1, <1>6, <1>8 DEF SocketInv, FetchedRight
<1>19. LeakRight'
  BY <1>1, <1>7, <1>10 DEF SocketInv, LeakRight
<1>20. NewsRight'
  BY <1>1 DEF SocketInv, NewsRight, Quiet
<1>21. UseRight'
  <2> SUFFICES ASSUME Quiet PROVE UseRight'
    BY <1>1 DEF UseRight, Quiet
  <2>1. /\ \A s \in owned : real[s].open /\ ComingIn(line, s) = {} /\ ~Opens(s) /\ s \in Sockets
        /\ ComingIn(line, a) = {}
    BY <1>1, <1>2, <1>3 DEF SocketInv, UseRight, Typed, a
  <2> QED
    BY <1>1, <1>3, <1>4, <1>6, <1>7, <1>10, <2>1 DEF UseRight
<1>22. BeliefRight'
  <2> SUFFICES ASSUME Quiet, NEW s \in Sockets, ComingIn(line, s) = {}
               PROVE  /\ status'[s].opened = real[s].open /\ status'[s].proto = real[s].proto
                      /\ status'[s].connected = real[s].conn
    BY <1>1, <1>10 DEF BeliefRight, Quiet, Agrees
  <2>1. CASE s = a
    <3>1. real[a].open = TRUE /\ real[a].conn = FALSE
      BY <1>1, <1>3, <1>4 DEF Typed, Ends
    <3> QED
      BY <1>4, <1>9, <2>1, <3>1
  <2>2. CASE s # a
    BY <1>9, <1>10, <2>2 DEF SocketInv, BeliefRight, Agrees
  <2> QED
    BY <2>1, <2>2
<1>23. DatagramsRight'
  <2> SUFFICES ASSUME flaw \subseteq {"overtaken"}, NEW s \in Sockets, real[s].open, real[s].proto = "UDP"
               PROVE  /\ status'[s].opened /\ status'[s].proto = "UDP" /\ ComingIn(line, s) = {}
                      /\ real[s].q > 0 => Due(s)'
    BY <1>1, <1>10 DEF DatagramsRight
  <2>1. CASE s = a
    <3>1. ComingIn(line, a) = {}
      <4> SUFFICES ASSUME NEW h \in ComingIn(line, a) PROVE FALSE
        OBVIOUS
      <4>1. h \in Nat /\ h <= op.gen /\ op.gen < h
        BY <1>1, <1>3, <1>4 DEF LineRight
      <4> QED
        BY <1>3, <4>1
    <3>2. ~(real[a].q > 0)
      BY <1>3, <1>4 DEF SocketInv, EndsRight
    <3> QED
      BY <1>4, <1>9, <2>1, <3>1, <3>2
  <2>2. CASE s # a
    <3>1. /\ status[s].opened /\ status[s].proto = "UDP" /\ ComingIn(line, s) = {}
          /\ real[s].q > 0 => Due(s)
      BY <1>10, <2>2 DEF SocketInv, DatagramsRight
    <3>2. Due(s) => Due(s)'
      BY <1>1, <1>2, <1>9, <2>2 DEF Due
    <3> QED
      BY <1>9, <2>2, <3>1, <3>2
  <2> QED
    BY <2>1, <2>2
<1> QED
  BY <1>11, <1>12, <1>13, <1>14, <1>16, <1>17, <1>18, <1>19, <1>20, <1>21, <1>22, <1>23 DEF SocketInv

\* What the commands of a composite call write to the status of the socket.
LEMMA SetUp ==
    ASSUME Typed, CallRight, op.k = "open", op.s \in Sockets, Step \in {"listen", "connect", "accept"},
           status' = Done(status, op)
    PROVE  /\ status' \in [Sockets -> Beliefs]
           /\ \A s \in Sockets \ {op.s} : status'[s] = status[s]
           /\ \A s \in Sockets : /\ status'[s].opened = status[s].opened /\ status'[s].proto = status[s].proto
                                 /\ status'[s].rd = status[s].rd /\ status'[s].rf = status[s].rf
           /\ Step = "connect" => /\ status'[op.s].connected = TRUE
                                  /\ status'[op.s].data = status[op.s].data
           /\ Step # "connect" => /\ status'[op.s].connected = status[op.s].connected
                                  /\ status'[op.s].data = op.gen
<1> DEFINE a == op.s
           b == status[a]
<1>1. status \in [Sockets -> Beliefs] /\ b \in Beliefs /\ a \in Sockets /\ op.gen \in Nat
  BY Calls DEF Typed
<1> HIDE DEF a
<1>2. CASE Step = "connect"
  <2>1. PICK g \in Nat : status' = [status EXCEPT ![a] = [b EXCEPT !.connected = TRUE, !.closed = g]]
    <3>1. status' = [status EXCEPT ![a] = [b EXCEPT !.connected = TRUE,
                                                    !.closed = IF b.proto = "TCP" THEN op.gen ELSE 0]]
      BY <1>2 DEF Done, a
    <3> QED
      BY <1>1, <3>1
  <2>2. [b EXCEPT !.connected = TRUE, !.closed = g] \in Beliefs
    BY <1>1 DEF Beliefs
  <2> QED
    BY <1>1, <1>2, <2>1, <2>2 DEF Beliefs, a
<1>3. CASE Step = "listen"
  <2>1. status' = [status EXCEPT ![a] = [b EXCEPT !.data = op.gen]]
    BY <1>3 DEF Done, a
  <2>2. [b EXCEPT !.data = op.gen] \in Beliefs
    BY <1>1 DEF Beliefs
  <2> QED
    BY <1>1, <1>3, <2>1, <2>2 DEF Beliefs, a
<1>4. CASE Step = "accept"
  <2>1. status' = [status EXCEPT ![a] = [b EXCEPT !.data = op.gen, !.accept = op.gen, !.closed = op.gen]]
    BY <1>1, <1>4 DEF Done, a
  <2>2. [b EXCEPT !.data = op.gen, !.accept = op.gen, !.closed = op.gen] \in Beliefs
    BY <1>1 DEF Beliefs
  <2> QED
    BY <1>1, <1>4, <2>1, <2>2 DEF Beliefs, a
<1> QED
  BY <1>2, <1>3, <1>4

\* A composite call listened, connected or accepted.
LEMMA FinishSetUpStep ==
    ASSUME SocketInv, Finish, Head(line).n = 1, op.k = "open", Step \notin {"UDP", "TCP"}
    PROVE  SocketInv'
<1> DEFINE a == op.s
<1>1. /\ Typed /\ LineRight /\ CallRight
      /\ op # Nothing /\ op.sent /\ UNCHANGED <<real, opens, units, flaw, sky>>
      /\ line' \in Seq(Spoken) /\ (\A g : InOrder(line', g)) /\ OneResult(line')
      /\ \A s \in Sockets : ComingIn(line', s) = ComingIn(line, s)
      /\ \A s \in Sockets : \A h \in ComingIn(line, s) : op.gen < h
      /\ VerdictIn(line) = {1} /\ VerdictIn(line') = {}
      /\ \A s \in Sockets : AnnouncedIn(line, s) => AnnouncedIn(line', s)
      /\ PlainIn(line) => PlainIn(line')
  BY Finishing
<1>2. op.k = "open" /\ Step \notin {"UDP", "TCP"}
  OBVIOUS
<1>3. /\ a \in Sockets /\ a # -1 /\ op.todo \in Agenda /\ op.got = 0 /\ Step \in {"listen", "connect", "accept"}
      /\ op \in Call /\ op.gen \in Nat /\ op.gen <= opens
  <2>1. /\ op.todo \in Agenda /\ op.got = 0 /\ Step # "handler" /\ a # -1
    BY <1>1, <1>2 DEF CallRight
  <2>2. Step \in {"UDP", "TCP", "listen", "connect", "accept", "handler"}
    BY <2>1, Tails DEF Step
  <2> QED
    BY <1>1, <1>2, <2>1, <2>2, Calls
<1>4. \/ op.todo = <<"connect">>
      \/ /\ real[a].open /\ real[a].gen = op.gen /\ Fresh(a, op.gen)
         /\ real[a].conn => Step = "connect"
         /\ real[a].proto = "TCP" => op.todo # <<"connect", "handler">>
  <2>1. op.todo # <<"handler">>
    BY <1>3 DEF Step
  <2> QED
    BY <1>2, <1>3, <2>1 DEF SocketInv, OpenRight
<1>5. /\ status' \in [Sockets -> Beliefs]
      /\ \A s \in Sockets \ {a} : status'[s] = status[s]
      /\ \A s \in Sockets : /\ status'[s].opened = status[s].opened /\ status'[s].proto = status[s].proto
                            /\ status'[s].rd = status[s].rd /\ status'[s].rf = status[s].rf
      /\ Step = "connect" => status'[a].connected = TRUE /\ status'[a].data = status[a].data
      /\ Step # "connect" => status'[a].connected = status[a].connected /\ status'[a].data = op.gen
  <2>1. status' = Done(status, op)
    BY DEF Finish, Succeed, Fail, Mixes
  <2> QED
    BY <1>1, <1>2, <1>3, <2>1, SetUp
<1>6. mixed' = mixed
  <2>1. mixed' = (mixed \/ (op.got > 0 /\ status[op.s].data \notin {0, op.gen}))
    BY DEF Finish, Succeed, Fail, Mixes
  <2>2. ~(op.got > 0)
    BY <1>3
  <2>3. mixed \in BOOLEAN
    BY <1>1 DEF Typed
  <2> QED
    BY <2>1, <2>2, <2>3, Zenon
<1>7. owned' = IF Tail(op.todo) = <<>> THEN owned \cup {a} ELSE owned
  BY <1>2 DEF Finish, Succeed, Fail, Mixes
<1>8. Continue(op)
  BY DEF Finish, Succeed, Fail, Mixes
<1>9. \/ /\ Tail(op.todo) = <<>>
         /\ op' = Nothing /\ op'.k = "idle" /\ op'.s = -1 /\ ~op'.sent /\ op'.got = 0
         /\ owned' = owned \cup {a}
      \/ /\ op' \in Call /\ op'.k = "open" /\ op'.s = a /\ op'.gen = op.gen
         /\ ~op'.sent /\ op'.got = 0
         /\ op'.todo = <<"connect">> \/ (op'.todo = <<"handler">> /\ op.todo = <<"connect", "handler">>)
         /\ op'.todo = Tail(op.todo) /\ op.todo # <<"connect">> /\ owned' = owned
  <2>1. CASE Tail(op.todo) = <<>>
    BY <1>7, <1>8, <2>1 DEF Continue, Nothing
  <2>2. CASE Tail(op.todo) # <<>>
    <3>1. op' = [op EXCEPT !.todo = Tail(op.todo), !.sent = FALSE] /\ owned' = owned
      BY <1>7, <1>8, <2>2 DEF Continue
    <3>2. /\ op.todo # <<"connect">>
          /\ \/ Tail(op.todo) = <<"connect">>
             \/ Tail(op.todo) = <<"handler">> /\ op.todo = <<"connect", "handler">>
      <4>1. Tail(<<"connect">>) = <<>> /\ Tail(<<"connect", "handler">>) = <<"handler">>
        OBVIOUS
      <4>2. Step = "listen" => Tail(op.todo) = <<"connect">>
        BY <1>3, <2>2, Tails DEF Step
      <4>3. Step # "accept"
        BY <1>3, <2>2, Tails DEF Step
      <4>4. Step = "connect" => op.todo \in {<<"connect">>, <<"connect", "handler">>}
        BY <1>3, Tails DEF Step
      <4>5. op.todo # <<"connect">>
        BY <2>2, <4>1
      <4> QED
        BY <1>3, <4>1, <4>2, <4>3, <4>4, <4>5
    <3>3. Tail(op.todo) \in Agenda
      BY <3>2 DEF Agenda
    <3>4. op' \in Call
      BY <1>3, <3>1, <3>3 DEF Call
    <3>5. op'.todo = Tail(op.todo)
      BY <1>3, <3>1 DEF Call
    <3> QED
      BY <1>2, <1>3, <3>1, <3>2, <3>4, <3>5 DEF Call
  <2> QED
    BY <2>1, <2>2
<1>10. \A s \in Sockets : /\ Opens(s) <=> s = a
                          /\ Opens(s)' => s = a
                          /\ Connects(s) => s = a /\ Step = "connect"
                          /\ ~Begins(s) /\ ~Begins(s)' /\ ~Connects(s)' /\ ~Closes(s) /\ ~Closes(s)'
                          /\ Opens(s) => Opens(s)' \/ s \in owned'
  BY <1>2, <1>3, <1>9 DEF Opens, Begins, Connects, Closes
<1> HIDE DEF a
<1>11. Typed'
  <2>1. owned' \subseteq Sockets
    BY <1>1, <1>3, <1>9 DEF Typed
  <2> QED
    BY <1>1, <1>5, <1>6, <2>1 DEF Typed
<1>12. CallRight'
  <2>1. CASE op' = Nothing
    BY <1>1, <2>1 DEF CallRight, Typed, Nothing, Call
  <2>2. CASE op'.k = "open" /\ op' # Nothing
    <3>1. op'.todo \in Agenda /\ Step' \notin {"UDP", "TCP"}
      BY <1>9, <2>2 DEF Agenda, Step
    <3> QED
      BY <1>1, <1>3, <1>9, <2>2, <3>1 DEF CallRight
  <2> QED
    BY <1>9, <2>1, <2>2
<1>13. EndsRight'
  BY <1>1 DEF SocketInv, EndsRight
<1>14. LineRight'
  BY <1>1, <1>9 DEF LineRight
<1>15. OpenRight'
  <2> SUFFICES ASSUME op'.k = "open" PROVE OpenRight'
    BY DEF OpenRight
  <2>1. /\ op'.s = a /\ op'.gen = op.gen
        /\ op'.todo = <<"connect">> \/ (op'.todo = <<"handler">> /\ op.todo = <<"connect", "handler">>)
        /\ op'.todo = Tail(op.todo) /\ op.todo # <<"connect">>
    BY <1>9
  <2>2. /\ real[a].open /\ real[a].gen = op.gen /\ Fresh(a, op.gen)
        /\ real[a].conn => Step = "connect"
        /\ real[a].proto = "TCP" => op.todo # <<"connect", "handler">>
    BY <1>4, <2>1
  <2>3. status'[a].data \in {0, op.gen} /\ \A h \in ComingIn(line', a) : op.gen <= h
    BY <1>1, <1>3, <1>5, <2>2 DEF Fresh
  <2>4. Step' \notin {"UDP", "TCP"}
    <3>1. op'.todo = <<"connect">> \/ op'.todo = <<"handler">>
      BY <2>1
    <3> QED
      BY <3>1 DEF Step
  <2>5. real[a].conn => op'.todo = <<"handler">>
    <3>1. CASE op'.todo = <<"connect">>
      <4>1. Step # "connect"
        <5>1. Step = "connect" => op.todo = <<"connect", "handler">>
          BY <1>3, <2>1, Tails DEF Step
        <5>2. Tail(<<"connect", "handler">>) = <<"handler">>
          OBVIOUS
        <5>3. <<"handler">> # <<"connect">>
          OBVIOUS
        <5>4. Step = "connect" => op'.todo = <<"handler">>
          BY <2>1, <5>1, <5>2, Zenon
        <5> QED
          BY <3>1, <5>3, <5>4, Zenon
      <4> QED
        BY <2>2, <4>1
    <3> QED
      BY <2>1, <3>1
  <2>6. real[a].proto = "TCP" => op'.todo \notin {<<"handler">>, <<"connect", "handler">>}
    <3>1. <<"connect">> # <<"connect", "handler">> /\ <<"connect">> # <<"handler">>
      OBVIOUS
    <3> QED
      BY <2>1, <2>2, <3>1
  <2> QED
    BY <1>1, <2>1, <2>2, <2>3, <2>4, <2>5, <2>6 DEF OpenRight, Fresh
<1>16. HandlersRight'
  <2> SUFFICES ASSUME NEW s \in Sockets, real[s].open
               PROVE  \/ status'[s].data \in {0, real[s].gen} /\ \A h \in ComingIn(line, s) : real[s].gen <= h
                      \/ real[s].gen \in ComingIn(line, s)
                      \/ ~real[s].conn /\ ~real[s].listens /\ ~Opens(s)'
    BY <1>1, <1>10 DEF HandlersRight, Fresh
  <2>1. \/ status[s].data \in {0, real[s].gen} /\ \A h \in ComingIn(line, s) : real[s].gen <= h
        \/ real[s].gen \in ComingIn(line, s)
        \/ ~real[s].conn /\ ~real[s].listens /\ s # a
    BY <1>10 DEF SocketInv, HandlersRight, Fresh
  <2>2. CASE s # a
    BY <1>5, <1>10, <2>1, <2>2
  <2>3. CASE s = a /\ Step = "connect"
    BY <1>5, <2>1, <2>3
  <2>4. CASE s = a /\ Step # "connect"
    <3>1. op.todo # <<"connect">>
      BY <2>4 DEF Step
    <3>2. real[a].gen = op.gen
      BY <1>4, <3>1
    <3> QED
      BY <1>5, <2>1, <2>4, <3>2
  <2> QED
    BY <2>2, <2>3, <2>4
<1>17. FetchedRight'
  BY <1>1, <1>6, <1>9 DEF SocketInv, FetchedRight
<1>18. LeakRight'
  <2>1. owned \subseteq owned'
    BY <1>9
  <2> QED
    BY <1>1, <1>10, <2>1 DEF SocketInv, LeakRight
<1>19. NewsRight'
  BY <1>1 DEF SocketInv, NewsRight, Quiet
<1>20. UseRight'
  <2> SUFFICES ASSUME Quiet PROVE UseRight'
    BY <1>1 DEF UseRight, Quiet
  <2>1. /\ \A s \in owned : real[s].open /\ ComingIn(line, s) = {} /\ s # a /\ s \in Sockets
        /\ real[a].open /\ ComingIn(line, a) = {}
    BY <1>1, <1>2, <1>3, <1>10 DEF SocketInv, UseRight, Typed, a
  <2>2. ASSUME NEW s \in owned' PROVE real[s].open /\ ComingIn(line', s) = {} /\ ~Opens(s)' /\ ~Closes(s)'
    <3>1. CASE op' = Nothing
      BY <1>1, <1>3, <1>9, <2>1, <3>1 DEF Opens, Closes, Nothing
    <3>2. CASE op' # Nothing
      BY <1>1, <1>9, <1>10, <2>1, <3>2
    <3> QED
      BY <3>1, <3>2
  <2> QED
    BY <1>1, <1>3, <1>9, <2>1, <2>2 DEF UseRight
<1>21. BeliefRight'
  <2> SUFFICES ASSUME Quiet, NEW s \in Sockets, ComingIn(line, s) = {}
               PROVE  /\ status'[s].opened = real[s].open /\ status'[s].proto = real[s].proto
                      /\ status'[s].connected = real[s].conn
    BY <1>1, <1>10 DEF BeliefRight, Quiet, Agrees
  <2>1. CASE Connects(s)
    <3>1. /\ status[s].opened = real[s].open /\ status[s].proto = real[s].proto
          /\ real[s].conn /\ s = a /\ Step = "connect"
      BY <1>1, <1>10, <2>1 DEF SocketInv, BeliefRight
    <3>2. real[s].conn \in BOOLEAN
      BY <1>1 DEF Typed, Ends
    <3> QED
      BY <1>5, <3>1, <3>2
  <2>2. CASE ~Connects(s)
    <3>1. Agrees(s) /\ ~(s = a /\ Step = "connect")
      BY <1>1, <1>10, <2>2 DEF SocketInv, BeliefRight, Connects
    <3> QED
      BY <1>5, <3>1 DEF Agrees
  <2> QED
    BY <2>1, <2>2
<1>22. DatagramsRight'
  <2>1. ASSUME NEW s \in Sockets, Due(s) PROVE Due(s)'
    BY <1>1, <1>2, <1>5, <2>1 DEF Due
  <2> QED
    BY <1>1, <1>5, <1>10, <2>1 DEF SocketInv, DatagramsRight
<1> QED
  BY <1>11, <1>12, <1>13, <1>14, <1>15, <1>16, <1>17, <1>18, <1>19, <1>20, <1>21, <1>22 DEF SocketInv

\* A socket was closed.
LEMMA FinishCloseStep ==
    ASSUME SocketInv, Finish, Head(line).n = 1, op.k = "close"
    PROVE  SocketInv'
<1> DEFINE a == op.s
<1>1. /\ Typed /\ LineRight /\ CallRight
      /\ op # Nothing /\ op.sent /\ UNCHANGED <<real, opens, units, flaw, sky>>
      /\ line' \in Seq(Spoken) /\ (\A g : InOrder(line', g)) /\ OneResult(line')
      /\ \A s \in Sockets : ComingIn(line', s) = ComingIn(line, s)
      /\ VerdictIn(line) = {1} /\ VerdictIn(line') = {}
      /\ \A s \in Sockets : AnnouncedIn(line, s) => AnnouncedIn(line', s)
      /\ PlainIn(line) => PlainIn(line')
  BY Finishing
<1>2. op.k = "close" /\ a \in Sockets /\ op.todo = <<"close">> /\ Step = "close" /\ ~(op.got > 0)
  BY <1>1, Calls
<1>3. op' = Nothing /\ op'.k = "idle" /\ op'.s = -1 /\ ~op'.sent /\ op'.got = 0
  <2>1. Tail(op.todo) = <<>>
    BY <1>2
  <2> QED
    BY <2>1 DEF Finish, Succeed, Fail, Mixes, Continue, Nothing
<1>4. owned' = owned
  BY <1>2 DEF Finish, Succeed, Fail, Mixes
<1>5. mixed' = mixed
  <2>1. mixed' = (mixed \/ (op.got > 0 /\ status[op.s].data \notin {0, op.gen}))
    BY DEF Finish, Succeed, Fail, Mixes
  <2>2. mixed \in BOOLEAN
    BY <1>1 DEF Typed
  <2> QED
    BY <1>2, <2>1, <2>2, Zenon
<1>6. /\ status' \in [Sockets -> Beliefs]
      /\ \A s \in Sockets \ {a} : status'[s] = status[s]
      /\ status'[a].opened = FALSE /\ status'[a].connected = FALSE /\ status'[a].proto = "none"
      /\ status'[a].data = 0
  <2> DEFINE b == SetClosed(status[a])
  <2>1. status' = [status EXCEPT ![a] = b]
    BY <1>2 DEF Finish, Succeed, Fail, Mixes, Done
  <2>2. status \in [Sockets -> Beliefs] /\ status[a] \in Beliefs
    BY <1>1, <1>2 DEF Typed
  <2>3. b \in Beliefs /\ b.opened = FALSE /\ b.connected = FALSE /\ b.proto = "none" /\ b.data = 0
    BY <2>2 DEF SetClosed, Unopened, Beliefs, Protocols
  <2> HIDE DEF b
  <2> QED
    BY <1>2, <2>1, <2>2, <2>3
<1>7. \A s \in Sockets : /\ Closes(s) <=> s = a
                         /\ ~Opens(s) /\ ~Opens(s)' /\ ~Begins(s) /\ ~Begins(s)'
                         /\ ~Connects(s) /\ ~Connects(s)' /\ ~Closes(s)'
  BY <1>2, <1>3 DEF Opens, Begins, Connects, Closes
<1> HIDE DEF a
<1>8. Typed'
  BY <1>1, <1>4, <1>5, <1>6 DEF Typed
<1>9. CallRight'
  BY <1>1, <1>3 DEF CallRight, Typed, Nothing, Call
<1>10. EndsRight'
  BY <1>1 DEF SocketInv, EndsRight
<1>11. LineRight'
  BY <1>1, <1>3 DEF LineRight
<1>12. OpenRight' /\ FetchedRight'
  BY <1>1, <1>3, <1>5 DEF SocketInv, OpenRight, FetchedRight
<1>13. HandlersRight'
  <2>1. ASSUME NEW s \in Sockets, NEW g, Fresh(s, g)
        PROVE  status'[s].data \in {0, g} /\ \A h \in ComingIn(line', s) : g <= h
    <3>1. CASE s = a
      BY <1>1, <1>6, <2>1, <3>1 DEF Fresh
    <3>2. CASE s # a
      BY <1>1, <1>6, <2>1, <3>2 DEF Fresh
    <3> QED
      BY <3>1, <3>2
  <2>2. ASSUME NEW s \in Sockets, Fresh(s, real[s].gen) PROVE Fresh(s, real[s].gen)'
    BY <1>1, <2>1, <2>2 DEF Fresh
  <2> QED
    BY <1>1, <1>7, <2>2 DEF SocketInv, HandlersRight
<1>14. LeakRight'
  BY <1>1, <1>4, <1>7 DEF SocketInv, LeakRight
<1>15. NewsRight'
  BY <1>1 DEF SocketInv, NewsRight, Quiet
<1>16. UseRight'
  BY <1>1, <1>3, <1>4, <1>7 DEF SocketInv, UseRight, Typed, Quiet
<1>17. BeliefRight'
  <2> SUFFICES ASSUME Quiet, NEW s \in Sockets, ComingIn(line, s) = {}
               PROVE  /\ status'[s].opened = real[s].open /\ status'[s].proto = real[s].proto
                      /\ status'[s].connected = real[s].conn
    BY <1>1, <1>7 DEF BeliefRight, Quiet, Agrees
  <2>1. CASE s = a
    <3>1. real[a] = Shut
      BY <1>1, <1>2, <2>1 DEF SocketInv, UseRight, EndsRight, a
    <3>2. real[a].open = FALSE /\ real[a].conn = FALSE /\ real[a].proto = "none"
      BY <3>1 DEF Shut
    <3> QED
      BY <1>6, <2>1, <3>2
  <2>2. CASE s # a
    BY <1>6, <1>7, <2>2 DEF SocketInv, BeliefRight, Agrees
  <2> QED
    BY <2>1, <2>2
<1>18. DatagramsRight'
  <2> SUFFICES ASSUME flaw \subseteq {"overtaken"}, NEW s \in Sockets, real[s].open, real[s].proto = "UDP"
               PROVE  /\ status'[s].opened /\ status'[s].proto = "UDP" /\ ComingIn(line, s) = {}
                      /\ real[s].q > 0 => Due(s)'
    BY <1>1, <1>7 DEF DatagramsRight
  <2>1. /\ status[s].opened /\ status[s].proto = "UDP" /\ ComingIn(line, s) = {} /\ s # a
        /\ real[s].q > 0 => Due(s)
    BY <1>1, <1>7 DEF SocketInv, DatagramsRight
  <2>2. Due(s) => Due(s)'
    BY <1>1, <1>2, <1>6, <2>1 DEF Due
  <2> QED
    BY <1>6, <2>1, <2>2
<1> QED
  BY <1>8, <1>9, <1>10, <1>11, <1>12, <1>13, <1>14, <1>15, <1>16, <1>17, <1>18 DEF SocketInv

\* Data was fetched, and is given to the handlers of the socket.
LEMMA FinishFetchStep ==
    ASSUME SocketInv, Finish, Head(line).n = 1, op.k = "fetch"
    PROVE  SocketInv'
<1> DEFINE a == op.s
<1>1. /\ Typed /\ LineRight /\ CallRight
      /\ op # Nothing /\ op.sent /\ UNCHANGED <<real, opens, units, flaw, sky>>
      /\ line' \in Seq(Spoken) /\ (\A g : InOrder(line', g)) /\ OneResult(line')
      /\ \A s \in Sockets : ComingIn(line', s) = ComingIn(line, s)
      /\ \A s \in Sockets : \A h \in ComingIn(line, s) : op.gen < h
      /\ VerdictIn(line) = {1} /\ VerdictIn(line') = {}
      /\ \A s \in Sockets : AnnouncedIn(line, s) => AnnouncedIn(line', s)
      /\ PlainIn(line) => PlainIn(line')
  BY Finishing
<1>2. /\ op.k = "fetch" /\ a \in Sockets /\ op.todo \in {<<"rd">>, <<"rf">>} /\ Step \in {"rd", "rf"}
      /\ op.got \in Nat /\ op.gen \in Nat
  BY <1>1, Calls
<1>3. op' = Nothing /\ op'.k = "idle" /\ op'.s = -1 /\ ~op'.sent /\ op'.got = 0
  <2>1. Tail(op.todo) = <<>>
    <3>1. Tail(<<"rd">>) = <<>> /\ Tail(<<"rf">>) = <<>>
      OBVIOUS
    <3> QED
      BY <1>2, <3>1
  <2> QED
    BY <2>1 DEF Finish, Succeed, Fail, Mixes, Continue, Nothing
<1>4. owned' = owned
  BY <1>2 DEF Finish, Succeed, Fail, Mixes
<1>5. mixed' = (mixed \/ (op.got > 0 /\ status[a].data \notin {0, op.gen}))
  BY DEF Finish, Succeed, Fail, Mixes
<1>6. /\ status' \in [Sockets -> Beliefs]
      /\ \A s \in Sockets : /\ status'[s].opened = status[s].opened /\ status'[s].proto = status[s].proto
                            /\ status'[s].connected = status[s].connected /\ status'[s].data = status[s].data
                            /\ status[s].proto = "UDP" => status'[s] = status[s]
  <2>1. status \in [Sockets -> Beliefs] /\ status[a] \in Beliefs
    BY <1>1, <1>2 DEF Typed
  <2>2. CASE Step = "rd" /\ status[a].proto = "TCP"
    <3>1. Less(status[a].rd, op.got) \in Nat
      BY <1>2, <2>1 DEF Less, Beliefs
    <3>2. status' = [status EXCEPT ![a] = [status[a] EXCEPT !.rd = Less(status[a].rd, op.got)]]
      BY <2>2 DEF Finish, Succeed, Fail, Mixes, Done
    <3>3. [status[a] EXCEPT !.rd = Less(status[a].rd, op.got)] \in Beliefs
      BY <2>1, <3>1 DEF Beliefs
    <3> QED
      BY <1>2, <2>1, <2>2, <3>2, <3>3 DEF Beliefs
  <2>3. CASE ~(Step = "rd" /\ status[a].proto = "TCP")
    <3>1. status' = status
      BY <1>2, <2>3 DEF Finish, Succeed, Fail, Mixes, Done
    <3> QED
      BY <2>1, <3>1
  <2> QED
    BY <2>2, <2>3
<1>7. \A s \in Sockets : /\ ~Opens(s) /\ ~Opens(s)' /\ ~Begins(s) /\ ~Begins(s)'
                         /\ ~Connects(s) /\ ~Connects(s)' /\ ~Closes(s) /\ ~Closes(s)'
  BY <1>2, <1>3 DEF Opens, Begins, Connects, Closes
<1> HIDE DEF a
<1>8. Typed'
  <2>1. mixed' \in BOOLEAN
    BY <1>5
  <2> QED
    BY <1>1, <1>4, <1>6, <2>1 DEF Typed
<1>9. CallRight'
  BY <1>1, <1>3 DEF CallRight, Typed, Nothing, Call
<1>10. EndsRight'
  BY <1>1 DEF SocketInv, EndsRight
<1>11. LineRight'
  BY <1>1, <1>3 DEF LineRight
<1>12. OpenRight'
  BY <1>3 DEF OpenRight
<1>13. FetchedRight'
  <2> SUFFICES ASSUME "overtaken" \notin flaw PROVE ~mixed'
    BY <1>1, <1>3 DEF FetchedRight
  <2>1. ~mixed /\ (op.got > 0 => Fresh(a, op.gen) \/ op.gen \in ComingIn(line, a))
    BY DEF SocketInv, FetchedRight, a
  <2>2. op.gen \notin ComingIn(line, a)
    BY <1>1, <1>2 DEF a
  <2>3. op.got > 0 => status[a].data \in {0, op.gen}
    BY <2>1, <2>2 DEF Fresh
  <2> QED
    BY <1>5, <2>1, <2>3, Zenon
<1>14. HandlersRight'
  BY <1>1, <1>6, <1>7 DEF SocketInv, HandlersRight, Fresh
<1>15. LeakRight'
  BY <1>1, <1>4, <1>7 DEF SocketInv, LeakRight
<1>16. NewsRight'
  BY <1>1 DEF SocketInv, NewsRight, Quiet
<1>17. UseRight'
  BY <1>1, <1>3, <1>4, <1>7 DEF SocketInv, UseRight, Typed, Quiet
<1>18. BeliefRight'
  BY <1>1, <1>6, <1>7 DEF SocketInv, BeliefRight, Quiet, Agrees
<1>19. DatagramsRight'
  <2>1. ASSUME NEW s \in Sockets, status[s].proto = "UDP", Due(s) PROVE Due(s)'
    BY <1>1, <1>6, <2>1 DEF Due
  <2> QED
    BY <1>1, <1>6, <1>7, <2>1 DEF SocketInv, DatagramsRight
<1> QED
  BY <1>8, <1>9, <1>10, <1>11, <1>12, <1>13, <1>14, <1>15, <1>16, <1>17, <1>18, <1>19 DEF SocketInv

\* The result of a command is taken.
LEMMA FinishStep ==
    ASSUME SocketInv, Finish
    PROVE  SocketInv'
<1>1. op.k \in {"open", "close", "fetch"}
  BY Calls DEF SocketInv, Finish
<1> QED
  BY <1>1, FinishFailedStep, FinishBegunStep, FinishSetUpStep, FinishCloseStep, FinishFetchStep

-----------------------------------------------------------------------------
(* The types, also where the result of one command was taken for another's.  *)

\* What CallFormed says of each kind of call.
LEMMA FormedCalls ==
    ASSUME CallFormed
    PROVE  /\ op \in Call /\ op.gen \in Nat /\ op.sent \in BOOLEAN /\ op.got \in Nat
           /\ op.s \in Sockets \cup {-1}
           /\ op = Nothing => op.k = "idle" /\ op.s = -1 /\ ~op.sent
           /\ op # Nothing => /\ op.k \in {"open", "close", "fetch"}
                              /\ op.s = -1 => op.k = "open" /\ Step \in {"UDP", "TCP"}
                              /\ op.k = "open" => op.todo \in Agenda /\ op.got = 0
                              /\ op.k # "open" => Step \in {"close", "rd", "rf"} /\ Tail(op.todo) = <<>>
                              /\ Step \in Requests \cup {"handler"}
<1>1. op \in Call
  BY DEF CallFormed
<1>2. op.gen \in Nat /\ op.sent \in BOOLEAN /\ op.got \in Nat /\ op.s \in Sockets \cup {-1}
  BY <1>1 DEF Call
<1>3. CASE op = Nothing
  BY <1>1, <1>2, <1>3 DEF Nothing
<1>4. CASE op # Nothing /\ op.k = "open"
  <2>1. op.todo \in Agenda /\ op.got = 0 /\ (op.s = -1 => Step \in {"UDP", "TCP"})
    BY <1>4 DEF CallFormed
  <2>2. Step \in Requests \cup {"handler"}
    BY <2>1, Tails DEF Step, Requests
  <2> QED
    BY <1>1, <1>2, <1>4, <2>1, <2>2
<1>5. CASE op # Nothing /\ op.k # "open"
  <2>1. op.k \in {"close", "fetch"} /\ op.s # -1 /\ op.todo \in {<<"close">>, <<"rd">>, <<"rf">>}
    BY <1>5 DEF CallFormed
  <2>2. Tail(op.todo) = <<>> /\ Step \in {"close", "rd", "rf"}
    <3>1. CASE op.todo = <<"close">>
      BY <3>1 DEF Step
    <3>2. CASE op.todo = <<"rd">>
      BY <3>2 DEF Step
    <3>3. CASE op.todo = <<"rf">>
      BY <3>3 DEF Step
    <3> QED
      BY <2>1, <3>1, <3>2, <3>3
  <2> QED
    BY <1>1, <1>2, <1>5, <2>1, <2>2 DEF Requests
<1> QED
  BY <1>3, <1>4, <1>5

\* Lines taken from another keep what it has of results.
LEMMA Selected ==
    ASSUME NEW ln, NEW t, OneResult(ln), NEW up,
           \A j \in DOMAIN t : up[j] \in DOMAIN ln /\ t[j] = ln[up[j]],
           \A j, k \in DOMAIN t : up[j] = up[k] => j = k
    PROVE  OneResult(t) /\ VerdictIn(t) \subseteq VerdictIn(ln)
<1>1. OneResult(t)
  <2> SUFFICES ASSUME NEW j \in DOMAIN t, NEW k \in DOMAIN t, t[j].k = "result", t[k].k = "result"
               PROVE  j = k
    BY DEF OneResult
  <2>1. up[j] \in DOMAIN ln /\ up[k] \in DOMAIN ln /\ t[j] = ln[up[j]] /\ t[k] = ln[up[k]]
    OBVIOUS
  <2>2. up[j] = up[k]
    BY <2>1 DEF OneResult
  <2> QED
    BY <2>2
<1>2. VerdictIn(t) \subseteq VerdictIn(ln)
  BY DEF VerdictIn
<1> QED
  BY <1>1, <1>2

\* The line without its first,
LEMMA RestFormed ==
    ASSUME NEW ln \in Seq(Spoken), ln # <<>>, OneResult(ln)
    PROVE  /\ Head(ln) \in Spoken /\ Tail(ln) \in Seq(Spoken) /\ OneResult(Tail(ln))
           /\ VerdictIn(Tail(ln)) \subseteq VerdictIn(ln)
           /\ Head(ln).k = "result" => Head(ln).n \in VerdictIn(ln) /\ VerdictIn(Tail(ln)) = {}
<1> DEFINE t == Tail(ln)
           n == Len(ln)
           up == [j \in 1 .. n - 1 |-> j + 1]
<1>1. n \in Nat \ {0} /\ DOMAIN ln = 1 .. n /\ ln[1] = Head(ln) /\ Head(ln) \in Spoken
  BY LenProperties, EmptySeq, HeadTailProperties
<1>2. t \in Seq(Spoken) /\ Len(t) = n - 1 /\ \A i \in 1 .. Len(t) : t[i] = ln[i + 1]
  BY HeadTailProperties
<1>3. DOMAIN t = 1 .. n - 1
  BY <1>2, LenProperties
<1> HIDE DEF t, n
<1>4. /\ \A j \in DOMAIN t : up[j] \in DOMAIN ln /\ up[j] # 1 /\ t[j] = ln[up[j]]
      /\ \A j, k \in DOMAIN t : up[j] = up[k] => j = k
      /\ 1 \in DOMAIN ln
  BY <1>1, <1>2, <1>3
<1> HIDE DEF up
<1>5. OneResult(t) /\ VerdictIn(t) \subseteq VerdictIn(ln)
  BY <1>4, Selected
<1>6. ASSUME Head(ln).k = "result" PROVE Head(ln).n \in VerdictIn(ln) /\ VerdictIn(t) = {}
  <2>1. \A j \in DOMAIN t : t[j].k # "result"
    BY <1>1, <1>4, <1>6 DEF OneResult
  <2> QED
    BY <1>1, <1>4, <1>6, <2>1 DEF VerdictIn
<1> QED
  BY <1>1, <1>2, <1>5, <1>6 DEF t

\* or without some at its head,
LEMMA SuffixFormed ==
    ASSUME NEW ln \in Seq(Spoken), NEW i \in DOMAIN ln
    PROVE  LET t == SubSeq(ln, i + 1, Len(ln)) IN
           /\ t \in Seq(Spoken) /\ Len(t) = Len(ln) - i /\ \A j \in 1 .. Len(ln) - i : t[j] = ln[i + j]
           /\ \A j \in DOMAIN t : t[j] \in Spoken /\ \E x \in DOMAIN ln : t[j] = ln[x]
<1> DEFINE n == Len(ln)
           t == SubSeq(ln, i + 1, n)
<1>1. n \in Nat /\ DOMAIN ln = 1 .. n /\ i \in 1 .. n /\ \A j \in 1 .. n : ln[j] \in Spoken
  BY LenProperties, ElementOfSeq
<1>2. t \in Seq(Spoken) /\ Len(t) = n - i /\ \A j \in 1 .. n - i : t[j] = ln[i + j]
  BY <1>1, SubSeqProperties
<1>3. DOMAIN t = 1 .. n - i
  BY <1>2, LenProperties
<1> HIDE DEF t, n
<1>4. \A j \in 1 .. n - i : i + j \in 1 .. n
  BY <1>1
<1> QED
  BY <1>1, <1>2, <1>3, <1>4 DEF t, n

\* or without the one that is read,
LEMMA ReadFormed ==
    ASSUME line \in Seq(Spoken), OneResult(line), NEW i \in DOMAIN line
    PROVE  /\ line[i] \in Spoken /\ LineWithout(i) \in Seq(Spoken) /\ OneResult(LineWithout(i))
           /\ VerdictIn(LineWithout(i)) \subseteq VerdictIn(line)
           /\ \A j \in DOMAIN LineWithout(i) : \E k \in DOMAIN line : LineWithout(i)[j] = line[k]
<1> DEFINE n == Len(line)
<1>1. n \in Nat /\ DOMAIN line = 1 .. n /\ i \in 1 .. n /\ \A j \in 1 .. n : line[j] \in Spoken
  BY LenProperties, ElementOfSeq
<1>2. CASE i <= 2
  <2> DEFINE t == RemoveAt(line, i)
             up == [j \in DOMAIN t |-> IF j < i THEN j ELSE j + 1]
  <2>1. t \in Seq(Spoken) /\ \A j \in DOMAIN t : up[j] \in DOMAIN line /\ t[j] = line[up[j]]
    BY <1>1, Dropped
  <2>2. DOMAIN t \subseteq Nat
    <3>1. DOMAIN t = 1 .. Len(t)
      BY <2>1, LenProperties
    <3> QED
      BY <3>1
  <2>3. \A j, k \in DOMAIN t : up[j] = up[k] => j = k
    BY <1>1, <2>2
  <2>4. LineWithout(i) = t
    BY <1>2 DEF LineWithout
  <2> HIDE DEF t, up
  <2>5. OneResult(t) /\ VerdictIn(t) \subseteq VerdictIn(line)
    BY <2>1, <2>3, Selected
  <2>6. \A j \in DOMAIN t : \E k \in DOMAIN line : t[j] = line[k]
    BY <2>1
  <2>7. line[i] \in Spoken
    BY <1>1
  <2> QED
    BY <2>1, <2>4, <2>5, <2>6, <2>7
<1>3. CASE ~(i <= 2)
  <2> DEFINE a == <<Head(line)>>
             b == SubSeq(line, i + 1, n)
             t == a \o b
             up == [j \in 1 .. 1 + (n - i) |-> IF j = 1 THEN 1 ELSE i + j - 1]
  <2>1. Head(line) = line[1] /\ 1 \in 1 .. n
    BY <1>1, <1>3
  <2>2. a \in Seq(Spoken) /\ Len(a) = 1 /\ a[1] = line[1]
    BY <1>1, <2>1
  <2>3. b \in Seq(Spoken) /\ Len(b) = n - i /\ \A j \in 1 .. n - i : b[j] = line[i + j]
    BY SuffixFormed
  <2>4. LineWithout(i) = t
    BY <1>3 DEF LineWithout
  <2> HIDE DEF a, b, n
  <2>5. /\ t \in Seq(Spoken) /\ Len(t) = Len(a) + Len(b)
        /\ \A j \in 1 .. Len(a) + Len(b) : t[j] = IF j <= Len(a) THEN a[j] ELSE b[j - Len(a)]
    BY <2>2, <2>3, ConcatProperties
  <2>6. DOMAIN t = 1 .. 1 + (n - i)
    BY <2>2, <2>3, <2>5, LenProperties
  <2> HIDE DEF t
  <2>7. ASSUME NEW j \in DOMAIN t PROVE up[j] \in DOMAIN line /\ t[j] = line[up[j]]
    <3>1. CASE j = 1
      BY <1>1, <2>1, <2>2, <2>3, <2>5, <2>6, <3>1
    <3>2. CASE j # 1
      <4>1. j - 1 \in 1 .. n - i /\ ~(j <= 1) /\ j \in 1 .. 1 + (n - i)
        BY <1>1, <2>6, <3>2
      <4>2. t[j] = b[j - 1]
        BY <2>2, <2>3, <2>5, <4>1
      <4>3. t[j] = line[i + (j - 1)] /\ i + (j - 1) = i + j - 1 /\ i + j - 1 \in 1 .. n
        BY <1>1, <2>3, <4>1, <4>2
      <4> QED
        BY <1>1, <3>2, <4>1, <4>3
    <3> QED
      BY <3>1, <3>2
  <2>8. \A j, k \in DOMAIN t : up[j] = up[k] => j = k
    BY <1>1, <1>3, <2>6
  <2> HIDE DEF up
  <2>9. OneResult(t) /\ VerdictIn(t) \subseteq VerdictIn(line)
    BY <2>7, <2>8, Selected
  <2>10. \A j \in DOMAIN t : \E k \in DOMAIN line : t[j] = line[k]
    BY <2>7
  <2>11. line[i] \in Spoken
    BY <1>1
  <2> QED
    BY <2>4, <2>5, <2>9, <2>10, <2>11
<1> QED
  BY <1>2, <1>3

\* with another at its end,
LEMMA MoreFormed ==
    ASSUME NEW ln \in Seq(Spoken), NEW e \in Spoken, OneResult(ln), e.k = "result" => VerdictIn(ln) = {}
    PROVE  LET t == Append(ln, e) IN
           /\ t \in Seq(Spoken) /\ OneResult(t)
           /\ e.k # "result" => VerdictIn(t) = VerdictIn(ln)
           /\ e.k = "result" => VerdictIn(t) = {e.n}
<1> DEFINE t == Append(ln, e)
           n == Len(ln)
<1>1. n \in Nat /\ DOMAIN ln = 1 .. n
  BY LenProperties
<1>2. /\ t \in Seq(Spoken) /\ DOMAIN t = 1 .. (n + 1)
      /\ t[n + 1] = e /\ \A i \in 1 .. n : t[i] = ln[i]
  BY <1>1, AppendProperties, LenProperties
<1> HIDE DEF t, n
<1>3. \A i \in 1 .. (n + 1) : i \in 1 .. n \/ i = n + 1
  BY <1>1
<1>4. n + 1 \in 1 .. (n + 1) /\ \A i \in 1 .. n : i \in 1 .. (n + 1) /\ i # n + 1
  BY <1>1
<1>5. /\ e.k # "result" => VerdictIn(t) = VerdictIn(ln)
      /\ e.k = "result" => VerdictIn(t) = {e.n}
  BY <1>1, <1>2, <1>3, <1>4 DEF VerdictIn
<1>6. OneResult(t)
  <2>1. ASSUME NEW i \in 1 .. n, ln[i].k = "result" PROVE e.k # "result"
    BY <1>1, <2>1 DEF VerdictIn
  <2> SUFFICES ASSUME NEW i \in 1 .. (n + 1), NEW j \in 1 .. (n + 1), t[i].k = "result", t[j].k = "result"
               PROVE  i = j
    BY <1>2 DEF OneResult
  <2> QED
    BY <1>1, <1>2, <1>3, <2>1 DEF OneResult
<1> QED
  BY <1>2, <1>5, <1>6 DEF t

\* a notice or the result of a command.
LEMMA NoticeFormed ==
    ASSUME NEW ln \in Seq(Spoken), OneResult(ln), NEW k \in {"rd", "rf", "co", "cl"},
           NEW s \in Sockets, NEW n \in Nat, k \in {"rd", "rf"} => n > 0
    PROVE  LET t == Append(ln, Unsolicited(k, s, n)) IN
           t \in Seq(Spoken) /\ OneResult(t) /\ VerdictIn(t) = VerdictIn(ln)
<1> DEFINE e == Unsolicited(k, s, n)
<1>1. e \in Notices /\ e.k = k /\ e.n = n
  BY DEF Unsolicited, Notices
<1>2. e \in {x \in Notices : x.k \in {"rd", "rf"} => x.n > 0} /\ e.k # "result"
  BY <1>1
<1> HIDE DEF e
<1>3. e \in Spoken
  BY <1>2 DEF Spoken
<1> QED
  BY <1>2, <1>3, MoreFormed DEF e

LEMMA VerdictFormed ==
    ASSUME NEW ln \in Seq(Spoken), OneResult(ln), VerdictIn(ln) = {}, NEW ok \in BOOLEAN
    PROVE  LET t == Append(ln, Result(ok)) IN
           t \in Seq(Spoken) /\ OneResult(t) /\ (~ok => 1 \notin VerdictIn(t))
<1>1. /\ Result(ok) \in Spoken /\ Result(ok).k = "result" /\ Result(ok).n = IF ok THEN 1 ELSE 0
  BY DEF Spoken, Result, Unsolicited
<1> QED
  BY <1>1, MoreFormed

\* What the modem does on the socket of the call, or for it, and its answer.
LEMMA ServedFormed ==
    ASSUME Typed, op \in Call, op.s \in Sockets, Step \in {"listen", "connect", "accept", "close", "rd", "rf"}
    PROVE  /\ After(op.s) \in Ends /\ Served \in Call
           /\ Served.k = op.k /\ Served.s = op.s /\ Served.todo = op.todo /\ (~Reads => Served.got = 0)
<1> DEFINE a == op.s
           e == real[a]
<1>1. e \in Ends /\ e.q \in Nat /\ e.gen \in Nat
  BY DEF Typed, Ends
<1> HIDE DEF e
<1>2. CASE Step \in {"rd", "rf"}
  <2> DEFINE m == IF e.q > 0 THEN e.q - 1 ELSE 0
             o == IF e.q > 0 /\ e.proto = "UDP" THEN e.q - 1 ELSE 0
  <2>1. m \in Nat /\ e.q - m \in Nat /\ o \in Nat /\ e.q - o \in Nat
    BY <1>1
  <2>2. After(a) = [e EXCEPT !.q = m] \/ After(a) = [e EXCEPT !.q = o]
    BY <1>2 DEF After, e
  <2> HIDE DEF m, o
  <2>3. After(a) \in Ends /\ e.q - After(a).q \in Nat
    BY <1>1, <2>1, <2>2 DEF Ends
  <2>4. Served = [op EXCEPT !.got = e.q - After(a).q, !.gen = e.gen] /\ Reads
    BY <1>2 DEF Served, Reads, e
  <2> HIDE DEF a
  <2>5. Served \in Call /\ Served.k = op.k /\ Served.s = op.s /\ Served.todo = op.todo
    BY <1>1, <2>3, <2>4 DEF Call
  <2> QED
    BY <2>3, <2>4, <2>5 DEF a
<1>3. CASE Step \in {"listen", "connect", "accept", "close"}
  <2>1. Served = [op EXCEPT !.got = 0, !.gen = e.gen]
    BY <1>3 DEF Served, Reads, e
  <2>2. Served \in Call /\ Served.k = op.k /\ Served.s = op.s /\ Served.todo = op.todo /\ Served.got = 0
    BY <1>1, <2>1 DEF Call
  <2>3. Shut \in Ends
    BY DEF Ends, Shut, Protocols
  <2>4. After(a) \in Ends
    BY <1>1, <1>3, <2>3 DEF After, Ends, e
  <2> QED
    BY <2>2, <2>4 DEF a
<1> QED
  BY <1>2, <1>3

LEMMA OpenFormed ==
    ASSUME Typed, op \in Call, NEW c \in Sockets, Claims
    PROVE  /\ OpenEnds(c) \in [Sockets -> Ends] /\ OpenCall(c) \in Call /\ opens + 1 \in Nat
           /\ OpenCall(c).k = op.k /\ OpenCall(c).s = c /\ OpenCall(c).todo = op.todo
           /\ OpenCall(c).got = op.got
<1>1. opens \in Nat /\ opens + 1 \in Nat /\ real \in [Sockets -> Ends]
  BY DEF Typed
<1>2. [Shut EXCEPT !.open = TRUE, !.gen = opens + 1, !.proto = Step] \in Ends
  BY <1>1 DEF Ends, Shut, Protocols, Claims
<1>3. OpenEnds(c) \in [Sockets -> Ends]
  BY <1>1, <1>2 DEF OpenEnds
<1>4. OpenCall(c) \in Call
  BY <1>1 DEF OpenCall, Call
<1> QED
  BY <1>1, <1>3, <1>4 DEF OpenCall, Call

LEMMA RereadFormed ==
    ASSUME line \in Seq(Spoken), OneResult(line), NEW s \in Sockets
    PROVE  /\ Reread(s) \in Seq(Spoken) /\ OneResult(Reread(s)) /\ VerdictIn(Reread(s)) = VerdictIn(line)
<1>1. CASE Reread(s) = line
  BY <1>1
<1>2. CASE Reread(s) # line
  <2>1. PICK k \in {"rd", "rf"} : Reread(s) = Append(line, Unsolicited(k, s, 1))
    BY <1>2 DEF Reread, Announces
  <2> QED
    BY <2>1, NoticeFormed
<1> QED
  BY <1>1, <1>2

\* A command is sent, and executed or refused.
LEMMA SendingFormed ==
    ASSUME Formed, ExecuteOpen \/ Execute \/ Refuse
    PROVE  Formed'
<1>1. /\ Waits /\ UNCHANGED <<owned, units, mixed>>
      /\ op # Nothing /\ ~op.sent /\ Step # "handler"
  BY DEF ExecuteOpen, Execute, Refuse, Waits
<1>2. /\ Typed /\ CallFormed /\ line \in Seq(Spoken) /\ OneResult(line) /\ VerdictIn(line) = {}
      /\ status \in [Sockets -> Beliefs] /\ real \in [Sockets -> Ends] /\ opens \in Nat
  BY <1>1 DEF Formed, LineFormed, Typed
<1>3. /\ op \in Call /\ op.s \in Sockets \cup {-1} /\ op.k \in {"open", "close", "fetch"}
      /\ op.s = -1 => op.k = "open" /\ Step \in {"UDP", "TCP"}
      /\ op.k = "open" => op.got = 0 /\ op.todo \in Agenda
      /\ op.s # -1 => Step \in {"listen", "connect", "accept", "close", "rd", "rf"}
      /\ op.k # "open" => Step \in {"close", "rd", "rf"}
  <2>1. Step \in Requests
    BY <1>1, <1>2, FormedCalls
  <2>2. op.s # -1 /\ op.k = "open" => Step \notin {"UDP", "TCP"}
    BY <1>1, <1>2 DEF CallFormed
  <2> QED
    BY <1>1, <1>2, <2>1, <2>2, FormedCalls DEF Requests
<1>4. ASSUME NEW o \in Call, o.k = op.k, o.todo = op.todo, o.k = "open" => o.got = 0,
             o.k = "close" => o.got = 0, o.s \in Sockets \cup {-1},
             o.s = -1 => op.s = -1, op' = [o EXCEPT !.sent = TRUE]
      PROVE  CallFormed' /\ op'.sent /\ op'.s = o.s
  <2>1. /\ op' \in Call /\ op'.k = o.k /\ op'.todo = o.todo /\ op'.sent /\ op'.s = o.s /\ op'.got = o.got
    BY <1>4 DEF Call
  <2>2. Step' = Step
    BY <1>4, <2>1 DEF Step
  <2>3. /\ op.k = "close" => op.todo = <<"close">> /\ op.s # -1
        /\ op.k = "fetch" => op.todo \in {<<"rd">>, <<"rf">>} /\ op.s # -1
    BY <1>1, <1>2 DEF CallFormed
  <2> QED
    BY <1>1, <1>3, <1>4, <2>1, <2>2, <2>3 DEF CallFormed
<1>5. Unconnected(status) \in [Sockets -> Beliefs]
  <2>1. Step = "connect" => op.s \in Sockets
    BY <1>3
  <2> QED
    BY <1>2, <2>1, Marked
<1>6. CASE ExecuteOpen
  <2>1. PICK c \in Sockets : real' = OpenEnds(c) /\ op' = [OpenCall(c) EXCEPT !.sent = TRUE]
    BY <1>6 DEF ExecuteOpen, Sends, Free
  <2>2. Claims /\ opens' = opens + 1 /\ line' = Append(line, Result(TRUE)) /\ status' = status
    BY <1>6 DEF ExecuteOpen
  <2>3. /\ OpenEnds(c) \in [Sockets -> Ends] /\ OpenCall(c) \in Call /\ opens + 1 \in Nat
        /\ OpenCall(c).k = op.k /\ OpenCall(c).s = c /\ OpenCall(c).todo = op.todo
        /\ OpenCall(c).got = op.got
    BY <1>2, <1>3, <2>2, OpenFormed
  <2>4. line' \in Seq(Spoken) /\ OneResult(line')
    BY <1>2, <2>2, VerdictFormed
  <2>5. op.k = "open" /\ c # -1
    BY <1>3, <2>2, NoSocket DEF Claims
  <2>6. CallFormed' /\ op'.sent /\ op'.s = c
    BY <1>3, <1>4, <2>1, <2>3, <2>5
  <2>7. Typed'
    BY <1>1, <1>2, <2>1, <2>2, <2>3, <2>4 DEF Typed
  <2> QED
    BY <2>4, <2>5, <2>6, <2>7 DEF Formed, LineFormed
<1>7. CASE Execute
  <2>1. /\ op.s \in Sockets /\ status' = Unconnected(status) /\ real' = [real EXCEPT ![op.s] = After(op.s)]
        /\ op' = [Served EXCEPT !.sent = TRUE] /\ line' = Append(Reread(op.s), Result(TRUE)) /\ opens' = opens
    BY <1>3, <1>7 DEF Execute, Sends
  <2>2. /\ After(op.s) \in Ends /\ Served \in Call
        /\ Served.k = op.k /\ Served.s = op.s /\ Served.todo = op.todo /\ (~Reads => Served.got = 0)
    BY <1>2, <1>3, <2>1, NoSocket, ServedFormed
  <2>3. line' \in Seq(Spoken) /\ OneResult(line')
    <3>1. Reread(op.s) \in Seq(Spoken) /\ OneResult(Reread(op.s)) /\ VerdictIn(Reread(op.s)) = {}
      BY <1>2, <2>1, RereadFormed
    <3> QED
      BY <2>1, <3>1, VerdictFormed
  <2>4. op.k \in {"open", "close"} => ~Reads
    <3>1. op.k = "open" => Step \in {"UDP", "TCP", "listen", "connect", "accept", "handler"}
      BY <1>3, Tails DEF Step
    <3>2. op.k = "close" => Step = "close"
      BY <1>1, <1>2 DEF CallFormed, Step
    <3> QED
      BY <3>1, <3>2 DEF Reads
  <2>5. CallFormed' /\ op'.sent /\ op'.s = op.s
    BY <1>3, <1>4, <2>1, <2>2, <2>4
  <2>6. Typed'
    BY <1>1, <1>2, <1>5, <2>1, <2>2, <2>3 DEF Typed
  <2> QED
    BY <2>1, <2>3, <2>5, <2>6, NoSocket DEF Formed, LineFormed
<1>8. CASE Refuse
  <2>1. /\ status' = Unconnected(status) /\ real' = real /\ op' = [op EXCEPT !.sent = TRUE]
        /\ line' = Append(line, Result(FALSE)) /\ opens' = opens
    BY <1>8 DEF Refuse, Sends
  <2>2. line' \in Seq(Spoken) /\ OneResult(line') /\ 1 \notin VerdictIn(line')
    BY <1>2, <2>1, VerdictFormed
  <2>3. op.k = "close" => op.got = 0
    BY <1>1, <1>2 DEF CallFormed
  <2>4. CallFormed' /\ op'.sent
    BY <1>3, <1>4, <2>1, <2>3
  <2>5. Typed'
    BY <1>1, <1>2, <1>5, <2>1, <2>2 DEF Typed
  <2> QED
    BY <2>2, <2>4, <2>5 DEF Formed, LineFormed
<1> QED
  BY <1>6, <1>7, <1>8

\* What a call writes to the status of its socket.
LEMMA DoneFormed ==
    ASSUME Typed, NEW o \in Call, o.s \in Sockets, Step \in Requests
    PROVE  Done(status, o) \in [Sockets -> Beliefs]
<1> DEFINE a == o.s
           b == status[a]
           t == Done(status, o)
<1>1. status \in [Sockets -> Beliefs] /\ b \in Beliefs /\ o.gen \in Nat /\ o.got \in Nat /\ a \in Sockets
  BY DEF Typed, Call
<1>2. \A c \in Beliefs : [status EXCEPT ![a] = c] \in [Sockets -> Beliefs]
  BY <1>1
<1> HIDE DEF a
<1>3. CASE Step \in {"UDP", "TCP"}
  <2>1. SetOpened(b, Step) \in Beliefs
    BY <1>3 DEF SetOpened, Unopened, Beliefs, Protocols
  <2>2. t = [status EXCEPT ![a] = SetOpened(b, Step)]
    BY <1>3 DEF Done, a
  <2> QED
    BY <1>2, <2>1, <2>2
<1>4. CASE Step = "connect"
  <2> DEFINE g == IF b.proto = "TCP" THEN o.gen ELSE 0
  <2>1. [b EXCEPT !.connected = TRUE, !.closed = g] \in Beliefs
    BY <1>1 DEF Beliefs
  <2>2. t = [status EXCEPT ![a] = [b EXCEPT !.connected = TRUE, !.closed = g]]
    BY <1>1, <1>4 DEF Done, a
  <2> QED
    BY <1>2, <2>1, <2>2
<1>5. CASE Step = "listen"
  <2>1. [b EXCEPT !.data = o.gen] \in Beliefs
    BY <1>1 DEF Beliefs
  <2>2. t = [status EXCEPT ![a] = [b EXCEPT !.data = o.gen]]
    BY <1>5 DEF Done, a
  <2> QED
    BY <1>2, <2>1, <2>2
<1>6. CASE Step = "accept"
  <2>1. [b EXCEPT !.data = o.gen, !.accept = o.gen, !.closed = o.gen] \in Beliefs
    BY <1>1 DEF Beliefs
  <2>2. t = [status EXCEPT ![a] = [b EXCEPT !.data = o.gen, !.accept = o.gen, !.closed = o.gen]]
    BY <1>1, <1>6 DEF Done, a
  <2> QED
    BY <1>2, <2>1, <2>2
<1>7. CASE Step = "close"
  <2>1. SetClosed(b) \in Beliefs
    BY <1>1 DEF SetClosed, Unopened, Beliefs, Protocols
  <2>2. t = [status EXCEPT ![a] = SetClosed(b)]
    BY <1>7 DEF Done, a
  <2> QED
    BY <1>2, <2>1, <2>2
<1>8. CASE Step = "rf"
  BY <1>1, <1>8 DEF Done
<1>9. CASE Step = "rd"
  <2>1. Less(b.rd, o.got) \in Nat
    BY <1>1 DEF Less, Beliefs
  <2>2. [b EXCEPT !.rd = Less(b.rd, o.got)] \in Beliefs
    BY <1>1, <2>1 DEF Beliefs
  <2>3. t = [status EXCEPT ![a] = [b EXCEPT !.rd = Less(b.rd, o.got)]] \/ t = status
    BY <1>9 DEF Done, a
  <2> QED
    BY <1>1, <1>2, <2>2, <2>3
<1> QED
  BY <1>3, <1>4, <1>5, <1>6, <1>7, <1>8, <1>9 DEF Requests

\* A call goes on, or closes what it opened.
LEMMA ContinueFormed ==
    ASSUME CallFormed, op # Nothing, NEW o \in Call, o.k = op.k, o.todo = op.todo, o.s \in Sockets,
           o.k = "open" => o.got = 0, Continue(o)
    PROVE  CallFormed' /\ ~op'.sent
<1>1. CASE Tail(o.todo) = <<>>
  <2>1. op' = Nothing
    BY <1>1 DEF Continue
  <2> QED
    BY <2>1 DEF CallFormed, Nothing, Call
<1>2. CASE Tail(o.todo) # <<>>
  <2>1. op' = [o EXCEPT !.todo = Tail(o.todo), !.sent = FALSE]
    BY <1>2 DEF Continue
  <2>2. op.k = "open" /\ op.todo \in Agenda
    BY <1>2, FormedCalls
  <2>3. Tail(op.todo) \in Agenda /\ Head(Tail(op.todo)) \notin {"UDP", "TCP"}
    BY <1>2, <2>2, Tails
  <2>4. /\ op' \in Call /\ op'.k = "open" /\ op'.s = o.s /\ op'.todo = Tail(op.todo) /\ ~op'.sent
        /\ op'.got = 0
    <3> DEFINE t == Tail(op.todo)
    <3>1. t \in Agenda /\ op' = [o EXCEPT !.todo = t, !.sent = FALSE] /\ o.k = "open" /\ o.got = 0
      BY <2>1, <2>2, <2>3
    <3> HIDE DEF t
    <3>2. op' \in Call
      BY <3>1 DEF Call
    <3>3. op'.k = "open" /\ op'.s = o.s /\ op'.todo = t /\ ~op'.sent /\ op'.got = 0
      BY <3>1 DEF Call
    <3> QED
      BY <3>2, <3>3 DEF t
  <2>5. Step' \notin {"UDP", "TCP"}
    BY <2>3, <2>4 DEF Step
  <2> QED
    BY <2>3, <2>4, <2>5, NoSocket DEF CallFormed
<1> QED
  BY <1>1, <1>2

LEMMA GivenUpFormed ==
    ASSUME CallFormed, op' = GiveUp
    PROVE  CallFormed' /\ ~op'.sent
<1>1. CASE op' = Nothing
  BY <1>1 DEF CallFormed, Nothing, Call
<1>2. CASE op' # Nothing
  <2>1. op' = Closing(op.s) /\ op.s # -1 /\ op.s \in Sockets \cup {-1}
    BY <1>2, FormedCalls DEF GiveUp
  <2>2. /\ op' \in Call /\ op'.k = "close" /\ op'.todo = <<"close">> /\ op'.s # -1 /\ op'.got = 0 /\ ~op'.sent
    <3>1. PICK s \in Sockets \cup {-1} : s = op.s /\ s # -1
      BY <2>1
    <3>2. op' = [k |-> "close", s |-> s, gen |-> 0, todo |-> <<"close">>, sent |-> FALSE, got |-> 0]
      BY <2>1, <3>1 DEF Closing, Nothing
    <3> QED
      BY <3>1, <3>2 DEF Call
  <2> QED
    BY <2>2 DEF CallFormed
<1> QED
  BY <1>1, <1>2

\* A command succeeded, or was said to.
LEMMA SucceedFormed ==
    ASSUME Formed, op.sent, NEW o \in Call, o.k = op.k, o.todo = op.todo, o.s \in Sockets,
           o.k = "open" => o.got = 0, Succeed(o), mixed' \in BOOLEAN,
           line' \in Seq(Spoken), OneResult(line'), VerdictIn(line') = {},
           UNCHANGED <<real, opens, units>>
    PROVE  Formed'
<1>1. Typed /\ CallFormed
  BY DEF Formed
<1>2. op # Nothing /\ Step \in Requests
  <2>1. op # Nothing
    BY DEF Nothing
  <2>2. Step # "handler"
    BY <1>1, <2>1 DEF CallFormed, Step
  <2> QED
    BY <1>1, <2>1, <2>2, FormedCalls
<1>3. status' \in [Sockets -> Beliefs]
  BY <1>1, <1>2, DoneFormed DEF Succeed
<1>4. owned' \subseteq Sockets
  BY <1>1 DEF Typed, Succeed
<1>5. CallFormed' /\ ~op'.sent
  BY <1>1, <1>2, ContinueFormed DEF Succeed
<1> QED
  BY <1>1, <1>3, <1>4, <1>5 DEF Formed, Typed, LineFormed

LEMMA FailFormed ==
    ASSUME Formed, Fail, line' \in Seq(Spoken), OneResult(line'), VerdictIn(line') = {},
           UNCHANGED <<real, opens, units>>
    PROVE  Formed'
<1>1. CallFormed' /\ ~op'.sent
  BY GivenUpFormed DEF Formed, Fail
<1> QED
  BY <1>1 DEF Formed, Typed, LineFormed, Fail

\* A result is read.
LEMMA FinishFormed ==
    ASSUME Formed, Finish
    PROVE  Formed'
<1>1. /\ Typed /\ CallFormed /\ LineFormed /\ op # Nothing /\ op.sent /\ line # <<>> /\ Head(line).k = "result"
      /\ line' = Tail(line) /\ UNCHANGED <<real, opens, units>>
  BY DEF Formed, Finish
<1>2. /\ line' \in Seq(Spoken) /\ OneResult(line') /\ VerdictIn(line') = {} /\ Head(line).n \in VerdictIn(line)
  BY <1>1, RestFormed DEF Typed, LineFormed
<1>3. CASE Head(line).n = 1
  <2>1. Succeed(op) /\ mixed' = (mixed \/ Mixes(op, op.gen))
    BY <1>3 DEF Finish
  <2>2. op.s # -1
    BY <1>1, <1>2, <1>3 DEF LineFormed
  <2>3. op \in Call /\ op.s \in Sockets /\ (op.k = "open" => op.got = 0)
    BY <1>1, <2>2, FormedCalls
  <2>4. mixed' \in BOOLEAN
    BY <1>1, <2>1 DEF Typed, Mixes
  <2> QED
    BY <1>1, <1>2, <2>1, <2>3, <2>4, SucceedFormed
<1>4. CASE Head(line).n # 1
  <2>1. Fail
    BY <1>4 DEF Finish
  <2> QED
    BY <1>1, <1>2, <2>1, FailFormed
<1> QED
  BY <1>3, <1>4

\* The result of another command is taken for that of the call's.
LEMMA MistakeFormed ==
    ASSUME Formed, Mistake
    PROVE  Formed'
<1> DEFINE u == Head(line)
           o == AsAnswered(u)
<1>1. /\ Typed /\ CallFormed /\ LineFormed /\ op.sent /\ line # <<>> /\ u.k = "late"
      /\ UNCHANGED <<real, opens, units>>
      /\ IF u.ok THEN Succeed(o) /\ mixed' = (mixed \/ Mixes(o, u.gen)) ELSE Fail
  BY DEF Formed, Mistake
<1>2. PICK i \in Verdicts : line' = Orphaned(SubSeq(line, i + 1, Len(line)))
  BY DEF Mistake
<1>3. op # Nothing /\ Step \in Requests
  <2>1. op # Nothing
    BY <1>1 DEF Nothing
  <2>2. Step # "handler"
    BY <1>1, <2>1 DEF CallFormed, Step
  <2> QED
    BY <1>1, <2>1, <2>2, FormedCalls
<1>4. line' \in Seq(Spoken) /\ OneResult(line') /\ VerdictIn(line') = {}
  <2> DEFINE ln == SubSeq(line, i + 1, Len(line))
  <2>1. ln \in Seq(Spoken) /\ \A j \in DOMAIN ln : ln[j] \in Spoken /\ \E x \in DOMAIN line : ln[j] = line[x]
    BY <1>1, SuffixFormed DEF Typed, Verdicts
  <2> HIDE DEF ln
  <2>2. \A j \in DOMAIN ln : ln[j].k = "result" => (ln[j].n = 1 => op.s \in Sockets)
    <3>1. ASSUME NEW x \in DOMAIN line, line[x].k = "result", line[x].n = 1 PROVE op.s \in Sockets
      BY <1>1, <3>1, FormedCalls DEF LineFormed, VerdictIn
    <3> QED
      BY <2>1, <3>1
  <2>3. \A j \in DOMAIN ln : Orphaned(ln)[j] \in Spoken /\ Orphaned(ln)[j].k # "result"
    <3> SUFFICES ASSUME NEW j \in DOMAIN ln
                 PROVE  Orphaned(ln)[j] \in Spoken /\ Orphaned(ln)[j].k # "result"
      OBVIOUS
    <3>1. Orphaned(ln)[j] = IF ln[j].k = "result" THEN LateResult(ln[j].n = 1, op) ELSE ln[j]
      BY DEF Orphaned
    <3>2. CASE ln[j].k = "result"
      <4> DEFINE ok == ln[j].n = 1
      <4>1. ok \in BOOLEAN /\ (ok => op.s \in Sockets)
        BY <2>2, <3>2
      <4> HIDE DEF ok
      <4>2. Head(op.todo) \in Requests
        BY <1>3 DEF Step
      <4>3. LateResult(ok, op) \in Spoken /\ LateResult(ok, op).k = "late"
        BY <1>1, <4>1, <4>2, FormedCalls, StrayLine
      <4> QED
        BY <3>1, <3>2, <4>3 DEF ok
    <3>3. CASE ln[j].k # "result"
      BY <2>1, <3>1, <3>3
    <3> QED
      BY <3>2, <3>3
  <2>4. line' = Orphaned(ln) /\ DOMAIN line' = DOMAIN ln
    BY <1>2 DEF Orphaned, ln
  <2>5. line' \in Seq(Spoken)
    <3>1. Len(ln) \in Nat /\ DOMAIN ln = 1 .. Len(ln)
      BY <2>1, LenProperties
    <3>2. line' \in [1 .. Len(ln) -> Spoken]
      BY <2>3, <2>4, <3>1 DEF Orphaned
    <3> QED
      BY <3>1, <3>2
  <2> QED
    BY <2>3, <2>4, <2>5 DEF OneResult, VerdictIn
<1>5. CASE u.ok
  <2>1. u \in Spoken /\ u.gen \in Nat /\ u.got \in Nat /\ (u.to \in {"UDP", "TCP"} => u.s \in Sockets)
    <3>1. u \in Spoken
      BY <1>1, HeadTailProperties DEF Typed
    <3> QED
      BY <1>1, <1>5, <3>1, SpokenParts
  <2> HIDE DEF u
  <2> DEFINE s == IF ~Claims THEN op.s ELSE IF u.to \in {"UDP", "TCP"} THEN u.s ELSE 0
             g == IF Claims /\ u.to \in {"UDP", "TCP"} THEN u.gen ELSE op.gen
             n == IF Reads /\ u.to = Step THEN u.got ELSE 0
  <2>2. op \in Call /\ o = [op EXCEPT !.s = s, !.gen = g, !.got = n]
    BY <1>1, FormedCalls DEF AsAnswered
  <2>3. s \in Sockets
    <3>1. ~Claims => op.s \in Sockets
      BY <1>1, <1>3, FormedCalls DEF Claims
    <3> QED
      BY <2>1, <3>1, SocketAssumption
  <2>4. g \in Nat /\ n \in Nat
    BY <1>1, <2>1, FormedCalls
  <2>5. op.k = "open" => n = 0
    <3>1. op.k = "open" => Step \in {"UDP", "TCP", "listen", "connect", "accept", "handler"}
      BY <1>1, <1>3, FormedCalls, Tails DEF Step
    <3> QED
      BY <3>1 DEF Reads
  <2> HIDE DEF s, g, n, o
  <2>6. /\ o \in Call /\ o.k = op.k /\ o.todo = op.todo /\ o.s = s /\ o.got = n
    BY <2>2, <2>3, <2>4 DEF Call
  <2>7. Succeed(o) /\ mixed' \in BOOLEAN
    BY <1>1, <1>5 DEF Typed, Mixes
  <2> QED
    BY <1>1, <1>4, <2>3, <2>5, <2>6, <2>7, SucceedFormed
<1>6. CASE ~u.ok
  BY <1>1, <1>4, <1>6, FailFormed
<1> QED
  BY <1>5, <1>6

\* The lines and the calls of the application, and those of the modem.
LEMMA ReadingFormed ==
    ASSUME Formed, ReadLine \/ DropLate
    PROVE  Formed'
<1>1. /\ Typed /\ CallFormed /\ LineFormed /\ line \in Seq(Spoken) /\ OneResult(line)
      /\ status \in [Sockets -> Beliefs]
  BY DEF Formed, Typed, LineFormed
<1>2. UNCHANGED <<op, real, opens, units, mixed>>
  BY DEF ReadLine, DropLate
<1>3. CallFormed'
  BY <1>1, <1>2 DEF CallFormed, Step
<1>4. CASE DropLate
  <2>1. line' = Tail(line) /\ line # <<>> /\ status' = status /\ owned' = owned
    BY <1>4 DEF DropLate
  <2>2. line' \in Seq(Spoken) /\ OneResult(line') /\ VerdictIn(line') \subseteq VerdictIn(line)
    BY <1>1, <2>1, RestFormed
  <2> QED
    BY <1>1, <1>2, <1>3, <2>1, <2>2 DEF Formed, Typed, LineFormed
<1>5. CASE ReadLine
  <2>1. PICK i \in DOMAIN line \ Verdicts :
         /\ status' = ProcessURC(status, line[i]) /\ line' = LineWithout(i)
         /\ owned' = IF Told(line[i]) THEN owned \cup {line[i].s} ELSE owned
    BY <1>5 DEF ReadLine
  <2> DEFINE u == line[i]
  <2>2. /\ u \in Spoken /\ line' \in Seq(Spoken) /\ OneResult(line') /\ VerdictIn(line') \subseteq VerdictIn(line)
        /\ u.k \notin {"result", "late"}
    BY <1>1, <2>1, ReadFormed DEF Verdicts
  <2>3. status' = ProcessURC(status, u) /\ owned' = IF Told(u) THEN owned \cup {u.s} ELSE owned
    BY <2>1
  <2> HIDE DEF u
  <2>4. /\ u.k \in {"rd", "rf", "li", "co", "cl"} /\ u.s \in Sockets /\ u.on \in Sockets
        /\ u.n \in Nat /\ u.gen \in Nat
    BY <2>2, SpokenParts
  <2> DEFINE b == status[u.s]
  <2>5. b \in Beliefs /\ \A c \in Beliefs : [status EXCEPT ![u.s] = c] \in [Sockets -> Beliefs]
    BY <1>1, <2>4
  <2>6. status' \in [Sockets -> Beliefs]
    <3>1. CASE u.k = "rd"
      <4>1. [b EXCEPT !.rd = u.n] \in Beliefs /\ status' = [status EXCEPT ![u.s] = [b EXCEPT !.rd = u.n]]
        BY <2>3, <2>4, <2>5, <3>1 DEF ProcessURC, Beliefs
      <4> QED
        BY <2>5, <4>1
    <3>2. CASE u.k = "rf"
      <4>1. [b EXCEPT !.rf = u.n] \in Beliefs /\ status' = [status EXCEPT ![u.s] = [b EXCEPT !.rf = u.n]]
        BY <2>3, <2>4, <2>5, <3>2 DEF ProcessURC, Beliefs
      <4> QED
        BY <2>5, <4>1
    <3>3. CASE u.k \in {"co", "cl"}
      <4>1. PICK c \in BOOLEAN : status' = [status EXCEPT ![u.s] = [b EXCEPT !.connected = c]]
        BY <2>3, <3>3 DEF ProcessURC
      <4>2. [b EXCEPT !.connected = c] \in Beliefs
        BY <2>5 DEF Beliefs
      <4> QED
        BY <2>5, <4>1, <4>2
    <3>4. CASE u.k = "li"
      <4> DEFINE d == IF status[u.on].data = 0 THEN 0 ELSE u.gen
                 e == IF status[u.on].closed = 0 THEN 0 ELSE u.gen
                 c == [SetOpened(b, "TCP") EXCEPT !.connected = TRUE, !.data = d, !.closed = e]
      <4>1. d \in Nat /\ e \in Nat
        BY <2>4
      <4>2. status' = [status EXCEPT ![u.s] = c]
        BY <2>3, <3>4 DEF ProcessURC, Accepted
      <4> HIDE DEF d, e
      <4>3. c \in Beliefs
        BY <4>1 DEF Beliefs, SetOpened, Unopened, Protocols
      <4> QED
        BY <2>5, <4>2, <4>3
    <3> QED
      BY <2>4, <3>1, <3>2, <3>3, <3>4
  <2>7. owned' \subseteq Sockets
    BY <1>1, <2>3, <2>4 DEF Typed
  <2> QED
    BY <1>1, <1>2, <1>3, <2>2, <2>6, <2>7 DEF Formed, Typed, LineFormed
<1> QED
  BY <1>4, <1>5

\* The application begins something.
LEMMA BeginningFormed ==
    ASSUME Formed, Open \/ \E s \in Sockets : Close(s) \/ HandleWaitingData(s)
    PROVE  Formed'
<1>1. /\ Typed /\ LineFormed /\ op = Nothing /\ ~op.sent /\ VerdictIn(line) = {} /\ OneResult(line)
      /\ UNCHANGED <<real, line, opens, units, mixed>> /\ owned' \subseteq Sockets
      /\ status \in [Sockets -> Beliefs]
  BY DEF Formed, Typed, LineFormed, Open, Close, HandleWaitingData, Nothing
<1>2. CASE Open
  <2>1. PICK p \in Plans : op' = Opening(p)
    BY <1>2 DEF Open
  <2>2. op'.k = "open" /\ op'.s = -1 /\ op'.todo = Steps(p) /\ ~op'.sent /\ op'.got = 0 /\ op'.sent \in BOOLEAN
    BY <2>1 DEF Opening, Nothing
  <2>3. op'.todo \in Agenda /\ Step' \in {"UDP", "TCP"} /\ op' \in Call
    BY <2>1, <2>2, Plan DEF Step, Call, Opening, Nothing
  <2>4. status' = status
    BY <1>2 DEF Open
  <2> QED
    BY <1>1, <2>2, <2>3, <2>4 DEF Formed, CallFormed, LineFormed, Typed
<1>3. CASE \E s \in Sockets : Close(s)
  <2>1. PICK a \in Sockets : Close(a)
    BY <1>3
  <2>2. status' = status /\ op' = Closing(a)
    BY <2>1 DEF Close
  <2>3. /\ op'.k = "close" /\ op'.s = a /\ op'.todo = <<"close">> /\ ~op'.sent /\ op'.got = 0 /\ op' \in Call
    BY <2>2 DEF Closing, Nothing, Call
  <2>4. CallFormed'
    BY <2>3, NoSocket DEF CallFormed
  <2> QED
    BY <1>1, <2>2, <2>3, <2>4 DEF Formed, LineFormed, Typed
<1>4. CASE \E s \in Sockets : HandleWaitingData(s)
  <2>1. PICK a \in Sockets : HandleWaitingData(a)
    BY <1>4
  <2>2. PICK how \in {"rd", "rf"} :
          status' = [status EXCEPT ![a][how] = 0] /\ (op' = Fetching(a, how) \/ op' = op)
    BY <2>1 DEF HandleWaitingData
  <2>3. status' \in [Sockets -> Beliefs]
    <3>1. status[a] \in Beliefs
      BY <1>1
    <3>2. CASE how = "rd"
      <4>1. status' = [status EXCEPT ![a] = [@ EXCEPT !.rd = 0]]
        BY <2>2, <3>2
      <4> QED
        BY <1>1, <3>1, <4>1 DEF Beliefs
    <3>3. CASE how = "rf"
      <4>1. status' = [status EXCEPT ![a] = [@ EXCEPT !.rf = 0]]
        BY <2>2, <3>3
      <4> QED
        BY <1>1, <3>1, <4>1 DEF Beliefs
    <3> QED
      BY <3>2, <3>3
  <2>4. CallFormed' /\ ~op'.sent
    <3>1. CASE op' = Nothing
      BY <3>1 DEF CallFormed, Nothing, Call
    <3>2. CASE op' = Fetching(a, how)
      <4>1. /\ op'.k = "fetch" /\ op'.s = a /\ ~op'.sent
            /\ op' = [k |-> "fetch", s |-> a, gen |-> 0, todo |-> <<how>>, sent |-> FALSE, got |-> 0]
        BY <3>2 DEF Fetching, Nothing
      <4>2. op'.todo \in {<<"rd">>, <<"rf">>}
        BY <4>1
      <4>3. op' \in Call
        BY <4>1, <4>2 DEF Call
      <4> QED
        BY <4>1, <4>2, <4>3, NoSocket DEF CallFormed
    <3> QED
      BY <1>1, <2>2, <3>1, <3>2
  <2> QED
    BY <1>1, <2>3, <2>4 DEF Formed, LineFormed, Typed
<1> QED
  BY <1>2, <1>3, <1>4

LEMMA SettingFormed ==
    ASSUME Formed, SetHandler
    PROVE  Formed'
<1>1. /\ Typed /\ CallFormed /\ LineFormed /\ op # Nothing /\ ~op.sent /\ Step = "handler"
      /\ UNCHANGED <<real, line, opens, units, mixed>>
      /\ status' = [status EXCEPT ![op.s].data = op.gen]
      /\ owned' = IF Tail(op.todo) = <<>> THEN owned \cup {op.s} ELSE owned
      /\ Continue(op)
  BY DEF Formed, SetHandler
<1>2. op.s \in Sockets /\ op \in Call /\ op.gen \in Nat /\ (op.k = "open" => op.got = 0)
  BY <1>1, FormedCalls
<1>3. CallFormed' /\ ~op'.sent
  BY <1>1, <1>2, ContinueFormed
<1>4. status' \in [Sockets -> Beliefs]
  <2>1. status \in [Sockets -> Beliefs] /\ status[op.s] \in Beliefs
    BY <1>1, <1>2 DEF Typed
  <2>2. [status[op.s] EXCEPT !.data = op.gen] \in Beliefs
    BY <1>2, <2>1 DEF Beliefs
  <2> QED
    BY <1>1, <1>2, <2>1, <2>2
<1> QED
  BY <1>1, <1>2, <1>3, <1>4 DEF Formed, LineFormed, Typed

\* A command times out.
LEMMA TimingFormed ==
    ASSUME Formed, CommandTimesOut \/ AnsweredLate
    PROVE  Formed'
<1>1. /\ Typed /\ CallFormed /\ LineFormed /\ op # Nothing /\ ~op.sent /\ Step # "handler"
      /\ UNCHANGED <<owned, units, mixed>> /\ status' = Unconnected(status) /\ op' = GiveUp
      /\ real \in [Sockets -> Ends]
  BY DEF Formed, Typed, CommandTimesOut, AnsweredLate, TimesOut, Waits
<1>2. /\ line \in Seq(Spoken) /\ OneResult(line) /\ VerdictIn(line) = {}
      /\ op \in Call /\ op.s \in Sockets \cup {-1} /\ op.gen \in Nat /\ op.got \in Nat
      /\ op.s # -1 => Step \in {"listen", "connect", "accept", "close", "rd", "rf"}
      /\ Step \in Requests /\ (op.s = -1 => Step \in {"UDP", "TCP"})
  <2>1. op.s # -1 => Step \notin {"UDP", "TCP"}
    <3>1. op.k = "open" => (op.s # -1 => Step \notin {"UDP", "TCP"})
      BY <1>1 DEF CallFormed
    <3>2. op.k # "open" => Step \in {"close", "rd", "rf"}
      BY <1>1, FormedCalls
    <3> QED
      BY <3>1, <3>2
  <2>2. Step \in Requests
    BY <1>1, FormedCalls
  <2> QED
    BY <1>1, <2>1, <2>2, FormedCalls DEF Typed, LineFormed, Requests
<1>3. status' \in [Sockets -> Beliefs]
  <2>1. Step = "connect" => op.s \in Sockets
    BY <1>2
  <2> QED
    BY <1>1, <2>1, Marked
<1>4. CallFormed' /\ ~op'.sent
  BY <1>1, GivenUpFormed
<1>5. \A ok \in BOOLEAN, c \in Call, ln \in Seq(Spoken) :
        (/\ c.todo = op.todo /\ OneResult(ln) /\ VerdictIn(ln) = {} /\ line' = Append(ln, LateResult(ok, c))
         /\ ok /\ Claims => c.s \in Sockets)
          => line' \in Seq(Spoken) /\ OneResult(line') /\ VerdictIn(line') = {}
  <2> SUFFICES ASSUME NEW ok \in BOOLEAN, NEW c \in Call, NEW ln \in Seq(Spoken), c.todo = op.todo,
                      OneResult(ln), VerdictIn(ln) = {}, line' = Append(ln, LateResult(ok, c)),
                      ok /\ Claims => c.s \in Sockets
               PROVE  line' \in Seq(Spoken) /\ OneResult(line') /\ VerdictIn(line') = {}
    OBVIOUS
  <2>1. /\ Head(c.todo) \in Requests /\ c.s \in Sockets \cup {-1} /\ c.gen \in Nat /\ c.got \in Nat
        /\ ok /\ Head(c.todo) \in {"UDP", "TCP"} => c.s \in Sockets
    BY <1>2 DEF Step, Call, Claims
  <2>2. LateResult(ok, c) \in Spoken /\ LateResult(ok, c).k = "late"
    BY <2>1, StrayLine
  <2>3. LateResult(ok, c).k # "result"
    BY <2>2
  <2> QED
    BY <2>2, <2>3, MoreFormed
<1>6. /\ real' \in [Sockets -> Ends] /\ opens' \in Nat
      /\ line' \in Seq(Spoken) /\ OneResult(line') /\ VerdictIn(line') = {}
  <2>1. CASE CommandTimesOut
    BY <1>1, <1>2, <2>1 DEF CommandTimesOut, Typed
  <2>2. CASE AnsweredLate
    <3>1. CASE Says(FALSE, op, line) /\ UNCHANGED <<real, opens>>
      BY <1>1, <1>2, <1>5, <3>1 DEF Says, Typed
    <3>2. CASE /\ op.s # -1 /\ real' = [real EXCEPT ![op.s] = After(op.s)] /\ opens' = opens
               /\ Says(TRUE, Served, IF Step = "connect" /\ real[op.s].proto = "TCP"
                                       THEN Append(line, Unsolicited("co", op.s, 0)) ELSE Reread(op.s))
      <4> DEFINE ln == IF Step = "connect" /\ real[op.s].proto = "TCP"
                         THEN Append(line, Unsolicited("co", op.s, 0)) ELSE Reread(op.s)
      <4>1. op.s \in Sockets
        BY <1>2, <3>2
      <4>2. After(op.s) \in Ends /\ Served \in Call /\ Served.s = op.s /\ Served.todo = op.todo
        BY <1>1, <1>2, <3>2, <4>1, ServedFormed
      <4>3. ln \in Seq(Spoken) /\ OneResult(ln) /\ VerdictIn(ln) = {}
        <5>1. CASE Step = "connect" /\ real[op.s].proto = "TCP"
          BY <1>2, <4>1, <5>1, NoticeFormed
        <5>2. CASE ~(Step = "connect" /\ real[op.s].proto = "TCP")
          BY <1>2, <4>1, <5>2, RereadFormed
        <5> QED
          BY <5>1, <5>2
      <4>4. line' = Append(ln, LateResult(TRUE, Served))
        BY <3>2 DEF Says
      <4> HIDE DEF ln
      <4>5. line' \in Seq(Spoken) /\ OneResult(line') /\ VerdictIn(line') = {}
        BY <1>5, <4>1, <4>2, <4>3, <4>4
      <4> QED
        BY <1>1, <3>2, <4>2, <4>5 DEF Typed
    <3>3. CASE /\ Claims /\ opens' = opens + 1
               /\ \E s \in Free : real' = OpenEnds(s) /\ Says(TRUE, OpenCall(s), line)
      <4>1. PICK c \in Sockets : real' = OpenEnds(c) /\ Says(TRUE, OpenCall(c), line)
        BY <3>3 DEF Free
      <4>2. /\ OpenEnds(c) \in [Sockets -> Ends] /\ OpenCall(c) \in Call /\ opens + 1 \in Nat
            /\ OpenCall(c).s = c /\ OpenCall(c).todo = op.todo
        BY <1>1, <1>2, <3>3, OpenFormed
      <4>3. line' \in Seq(Spoken) /\ OneResult(line') /\ VerdictIn(line') = {}
        BY <1>2, <1>5, <4>1, <4>2 DEF Says
      <4> QED
        BY <3>3, <4>1, <4>2, <4>3
    <3> QED
      BY <2>2, <3>1, <3>2, <3>3 DEF AnsweredLate
  <2> QED
    BY <2>1, <2>2
<1> QED
  BY <1>1, <1>3, <1>4, <1>6 DEF Formed, LineFormed, Typed

\* Data arrives, a connection comes in, or ends.
LEMMA OutsideFormed ==
    ASSUME Formed, NEW a \in Sockets, Arrive(a) \/ Incoming(a) \/ Hangup(a)
    PROVE  Formed'
<1>1. /\ Typed /\ CallFormed /\ LineFormed /\ UNCHANGED <<status, op, owned, mixed>>
      /\ line \in Seq(Spoken) /\ OneResult(line) /\ real \in [Sockets -> Ends] /\ opens \in Nat /\ units \in Nat
  BY DEF Formed, Typed, LineFormed, Arrive, Incoming, Hangup
<1>2. CallFormed'
  BY <1>1 DEF CallFormed, Step
<1>3. \A e \in Spoken : (e.k # "result" /\ line' = Append(line, e)) =>
        line' \in Seq(Spoken) /\ OneResult(line') /\ VerdictIn(line') = VerdictIn(line)
  BY <1>1, MoreFormed
<1>4. CASE Arrive(a)
  <2>1. /\ real' = [real EXCEPT ![a].q = @ + 1] /\ units' = units + 1 /\ opens' = opens
    BY <1>4 DEF Arrive
  <2>2. PICK n \in {1, 2} :
        line' = CASE real[a].proto = "TCP" -> Append(line, Unsolicited("rd", a, real[a].q + 1))
                  [] real[a].proto = "UDP" /\ real[a].q = 0 -> Append(line, [Announces(real[a], a) EXCEPT !.n = n])
                  [] OTHER -> line
    BY <1>4 DEF Arrive
  <2>3. real[a] \in Ends /\ real[a].q \in Nat
    BY <1>1 DEF Ends
  <2>4. real' \in [Sockets -> Ends]
    <3>1. [real[a] EXCEPT !.q = @ + 1] \in Ends
      BY <2>3 DEF Ends
    <3> QED
      BY <1>1, <2>1, <3>1
  <2>5. line' \in Seq(Spoken) /\ OneResult(line') /\ VerdictIn(line') = VerdictIn(line)
    <3>1. CASE line' = line
      BY <1>1, <3>1
    <3>2. CASE line' = Append(line, Unsolicited("rd", a, real[a].q + 1))
      <4>1. real[a].q + 1 \in Nat /\ real[a].q + 1 > 0
        BY <2>3
      <4> QED
        BY <1>1, <3>2, <4>1, NoticeFormed
    <3>3. CASE line' = Append(line, [Announces(real[a], a) EXCEPT !.n = n])
      <4>1. PICK k \in {"rd", "rf"} : [Announces(real[a], a) EXCEPT !.n = n] = Unsolicited(k, a, n)
        BY DEF Announces, Unsolicited
      <4>2. line' = Append(line, Unsolicited(k, a, n)) /\ n \in Nat /\ n > 0
        BY <3>3, <4>1
      <4> QED
        BY <1>1, <4>2, NoticeFormed
    <3> QED
      BY <2>2, <3>1, <3>2, <3>3
  <2>6. units' \in Nat
    BY <1>1, <2>1
  <2> QED
    BY <1>1, <1>2, <2>1, <2>4, <2>5, <2>6 DEF Formed, LineFormed, Typed
<1>5. CASE Incoming(a)
  <2>1. PICK c \in Sockets :
        /\ real' = [real EXCEPT ![c] = [Shut EXCEPT !.open = TRUE, !.gen = opens + 1, !.proto = "TCP", !.conn = TRUE]]
        /\ line' = Append(line, [k |-> "li", s |-> c, n |-> 0, on |-> a, gen |-> opens + 1])
        /\ opens' = opens + 1 /\ units' = units
    BY <1>5 DEF Incoming, Free
  <2>2. opens + 1 \in Nat
    BY <1>1
  <2>3. [Shut EXCEPT !.open = TRUE, !.gen = opens + 1, !.proto = "TCP", !.conn = TRUE] \in Ends
    BY <2>2 DEF Ends, Shut, Protocols
  <2>4. real' \in [Sockets -> Ends]
    BY <1>1, <2>1, <2>3
  <2> DEFINE e == [k |-> "li", s |-> c, n |-> 0, on |-> a, gen |-> opens + 1]
  <2>5. e \in Spoken /\ e.k # "result" /\ line' = Append(line, e)
    BY <2>1, <2>2 DEF Spoken, Notices
  <2> HIDE DEF e
  <2>6. line' \in Seq(Spoken) /\ OneResult(line') /\ VerdictIn(line') = VerdictIn(line)
    BY <1>3, <2>5
  <2> QED
    BY <1>1, <1>2, <2>1, <2>2, <2>4, <2>6 DEF Formed, LineFormed, Typed
<1>6. CASE Hangup(a)
  <2>1. real' = [real EXCEPT ![a] = Shut] /\ line' = Append(line, Unsolicited("cl", a, 0))
        /\ opens' = opens /\ units' = units
    BY <1>6 DEF Hangup
  <2>2. Shut \in Ends
    BY DEF Ends, Shut, Protocols
  <2>3. line' \in Seq(Spoken) /\ OneResult(line') /\ VerdictIn(line') = VerdictIn(line)
    BY <1>1, <2>1, NoticeFormed
  <2>4. real' \in [Sockets -> Ends]
    BY <1>1, <2>1, <2>2
  <2> QED
    BY <1>1, <1>2, <2>1, <2>3, <2>4 DEF Formed, LineFormed, Typed
<1> QED
  BY <1>4, <1>5, <1>6

LEMMA FormedKept == Formed /\ [SocketNext]_socketVars => Formed'
<1> SUFFICES ASSUME Formed, [SocketNext]_socketVars PROVE Formed'
  OBVIOUS
<1>1. CASE Runs
  BY <1>1, ReadingFormed, SendingFormed, FinishFormed, MistakeFormed, SettingFormed, BeginningFormed DEF Runs
<1>2. CASE Open \/ CommandTimesOut \/ AnsweredLate
  BY <1>2, BeginningFormed, TimingFormed
<1>3. CASE \E s \in Sockets : Close(s) \/ Arrive(s) \/ Incoming(s) \/ Hangup(s)
  BY <1>3, BeginningFormed, OutsideFormed
<1>4. CASE UNCHANGED socketVars
  BY <1>4 DEF socketVars, Formed, Typed, CallFormed, LineFormed, Step
<1> QED
  BY <1>1, <1>2, <1>3, <1>4 DEF SocketNext

-----------------------------------------------------------------------------
(* The theorems. *)

LEMMA InitInv == SocketInit => SocketInv
<1> SUFFICES ASSUME SocketInit PROVE SocketInv
  OBVIOUS
<1>1. /\ status = [s \in Sockets |-> Unopened] /\ real = [s \in Sockets |-> Shut]
      /\ op = Nothing /\ line = <<>> /\ owned = {} /\ opens = 0 /\ units = 0
      /\ flaw = {} /\ mixed = FALSE
  BY DEF SocketInit
<1>2. /\ line \in Seq(Spoken) /\ DOMAIN line = {}
      /\ \A s \in Sockets : ComingIn(line, s) = {}
      /\ VerdictIn(line) = {} /\ PlainIn(line) /\ OneResult(line) /\ \A g : InOrder(line, g)
  <2>1. line \in Seq(Spoken) /\ DOMAIN line = {}
    BY <1>1
  <2> QED
    BY <2>1 DEF ComingIn, VerdictIn, PlainIn, OneResult, InOrder
<1>3. op.k = "idle" /\ op.s = -1 /\ ~op.sent /\ op.got = 0 /\ op.gen = 0 /\ op \in Call
  BY <1>1 DEF Nothing, Call
<1>4. \A s \in Sockets : ~Opens(s) /\ ~Begins(s) /\ ~Connects(s) /\ ~Closes(s)
  BY <1>3 DEF Opens, Begins, Connects, Closes
<1>5. /\ Shut \in Ends /\ Unopened \in Beliefs
      /\ \A s \in Sockets : real[s] = Shut /\ status[s] = Unopened
  BY <1>1 DEF Shut, Unopened, Ends, Beliefs, Protocols
<1>6. /\ Shut.open = FALSE /\ Shut.q = 0 /\ Shut.conn = FALSE /\ Shut.proto = "none"
      /\ Unopened.opened = FALSE /\ Unopened.connected = FALSE /\ Unopened.proto = "none"
  BY DEF Shut, Unopened
<1>7. Typed
  BY <1>1, <1>2, <1>5 DEF Typed
<1>8. CallRight /\ EndsRight
  BY <1>1, <1>3, <1>5, <1>6 DEF CallRight, EndsRight
<1>9. LineRight /\ OpenRight /\ FetchedRight
  BY <1>1, <1>2, <1>3 DEF LineRight, OpenRight, FetchedRight
<1>10. HandlersRight /\ LeakRight /\ NewsRight /\ DatagramsRight
  BY <1>2, <1>5, <1>6 DEF HandlersRight, LeakRight, NewsRight, DatagramsRight
<1>11. UseRight
  BY <1>1, <1>3 DEF UseRight
<1>12. BeliefRight
  BY <1>4, <1>5, <1>6 DEF BeliefRight, Agrees
<1> QED
  BY <1>7, <1>8, <1>9, <1>10, <1>11, <1>12 DEF SocketInv

LEMMA Unchanged == SocketInv /\ UNCHANGED socketVars => SocketInv'
<1> SUFFICES ASSUME SocketInv, UNCHANGED socketVars PROVE SocketInv'
  OBVIOUS
<1>1. UNCHANGED <<status, op, real, line, owned, opens, units, flaw, mixed, sky>>
  BY DEF socketVars
<1>2. \A s \in Sockets : /\ (Opens(s)' <=> Opens(s)) /\ (Begins(s)' <=> Begins(s)) /\ (Due(s)' <=> Due(s))
                         /\ (Connects(s)' <=> Connects(s)) /\ (Closes(s)' <=> Closes(s))
                         /\ (Agrees(s)' <=> Agrees(s))
  BY <1>1 DEF Opens, Begins, Connects, Closes, Due, Agrees, Step
<1>3. Typed' /\ CallRight' /\ EndsRight' /\ LineRight'
  BY <1>1 DEF SocketInv, Typed, CallRight, EndsRight, LineRight, Step
<1>4. OpenRight' /\ HandlersRight' /\ FetchedRight' /\ LeakRight'
  BY <1>1, <1>2 DEF SocketInv, OpenRight, HandlersRight, FetchedRight, LeakRight, Fresh, Step
<1>5. NewsRight' /\ UseRight'
  BY <1>1, <1>2, <1>3 DEF SocketInv, Typed, NewsRight, UseRight, Quiet, Opens, Closes
<1>6. BeliefRight' /\ DatagramsRight'
  BY <1>1, <1>2 DEF SocketInv, BeliefRight, DatagramsRight, Quiet
<1> QED
  BY <1>3, <1>4, <1>5, <1>6 DEF SocketInv

\* A line without the answer to another command, with one more.
LEMMA StillRight ==
    ASSUME NEW ln \in Seq(Spoken), NEW e, e.k # "late", \A i \in DOMAIN ln : ln[i].k # "late"
    PROVE  \A i \in DOMAIN Append(ln, e) : Append(ln, e)[i].k # "late"
<1> DEFINE n == Len(ln)
           t == Append(ln, e)
<1>1. /\ n \in Nat /\ DOMAIN ln = 1 .. n
      /\ DOMAIN t = 1 .. n + 1 /\ t[n + 1] = e /\ \A i \in 1 .. n : t[i] = ln[i]
  BY LenProperties
<1> HIDE DEF n, t
<1>2. \A i \in 1 .. n + 1 : i \in 1 .. n \/ i = n + 1
  BY <1>1
<1> QED
  BY <1>1, <1>2 DEF t

\* No command is sent while such an answer is on the line, unless it is mistaken.
LEMMA LateKept ==
    ASSUME Formed, SocketInv, LateRight, [SocketNext]_socketVars, "mistaken" \notin flaw'
    PROVE  LateRight'
<1>1. Typed /\ CallFormed /\ line \in Seq(Spoken) /\ OneResult(line)
  BY DEF Formed, Typed, LineFormed
<1>2. CASE ExecuteOpen \/ Execute \/ Refuse
  <2>1. /\ Waits /\ \A i \in DOMAIN line : line[i].k # "late"
    <3>1. Mistaken = {} /\ Waits
      BY <1>2 DEF ExecuteOpen, Execute, Refuse, Mistaken
    <3> QED
      BY <3>1 DEF Mistaken, Verdicts
  <2>2. Result(TRUE).k # "late" /\ Result(FALSE).k # "late"
    BY DEF Result, Unsolicited
  <2>3. CASE ExecuteOpen \/ Refuse
    <3>1. line' = Append(line, Result(TRUE)) \/ line' = Append(line, Result(FALSE))
      BY <2>3 DEF ExecuteOpen, Refuse
    <3>2. \A ok \in BOOLEAN : \A i \in DOMAIN Append(line, Result(ok)) : Append(line, Result(ok))[i].k # "late"
      BY <1>1, <2>1, <2>2, StillRight
    <3>3. \A i \in DOMAIN line' : line'[i].k # "late"
      BY <3>1, <3>2
    <3> QED
      BY <3>3 DEF LateRight
  <2>4. CASE Execute
    <3> DEFINE ln == Reread(op.s)
    <3>1. op.s \in Sockets /\ line' = Append(ln, Result(TRUE))
      BY <1>1, <2>4, FormedCalls DEF Execute
    <3>2. ln = line \/ \E k \in {"rd", "rf"} : ln = Append(line, Unsolicited(k, op.s, 1))
      BY DEF Reread, Announces
    <3>3. ln \in Seq(Spoken)
      BY <1>1, <3>1, RereadFormed
    <3> HIDE DEF ln
    <3>4. \A i \in DOMAIN ln : ln[i].k # "late"
      <4>1. CASE ln = line
        BY <2>1, <4>1
      <4>2. CASE \E k \in {"rd", "rf"} : ln = Append(line, Unsolicited(k, op.s, 1))
        <5>1. PICK k \in {"rd", "rf"} : ln = Append(line, Unsolicited(k, op.s, 1))
          BY <4>2
        <5>2. Unsolicited(k, op.s, 1).k # "late"
          BY DEF Unsolicited
        <5> QED
          BY <1>1, <2>1, <5>1, <5>2, StillRight
      <4> QED
        BY <3>2, <4>1, <4>2
    <3> QED
      BY <2>2, <3>1, <3>3, <3>4, StillRight DEF LateRight
  <2> QED
    BY <1>2, <2>3, <2>4
<1>3. CASE ReadLine
  <2>1. op' = op
    BY <1>3 DEF ReadLine
  <2>2. PICK i \in DOMAIN line : line' = LineWithout(i)
    BY <1>3 DEF ReadLine
  <2>3. \A j \in DOMAIN line' : \E k \in DOMAIN line : line'[j] = line[k]
    BY <1>1, <2>2, ReadFormed
  <2> QED
    BY <2>1, <2>3 DEF LateRight
<1>4. CASE Mistake
  <2>1. op.sent /\ line # <<>> /\ Head(line).k = "late"
    BY <1>4 DEF Mistake
  <2>2. 1 \in DOMAIN line /\ Head(line) = line[1]
    BY <1>1, <2>1
  <2> QED
    BY <2>1, <2>2 DEF LateRight
<1>5. CASE Finish \/ SetHandler \/ CommandTimesOut \/ AnsweredLate
  <2>1. op' = GiveUp => ~op'.sent
    BY <1>1, GivenUpFormed
  <2>2. Continue(op) => ~op'.sent
    <3> SUFFICES ASSUME op \in Call, Continue(op) PROVE ~op'.sent
      BY <1>1, FormedCalls
    <3>1. op' = Nothing \/ op' = [op EXCEPT !.todo = Tail(op.todo), !.sent = FALSE]
      BY DEF Continue
    <3>2. ~Nothing.sent
      BY DEF Nothing
    <3>3. ~[op EXCEPT !.todo = Tail(op.todo), !.sent = FALSE].sent
      BY DEF Call
    <3> QED
      BY <3>1, <3>2, <3>3
  <2>3. op' = GiveUp \/ Continue(op)
    BY <1>5 DEF Finish, SetHandler, CommandTimesOut, AnsweredLate, TimesOut, Succeed, Fail
  <2> QED
    BY <2>1, <2>2, <2>3 DEF LateRight
<1>6. CASE DropLate \/ Open \/ \E s \in Sockets : Close(s) \/ HandleWaitingData(s)
  <2>1. \/ op' = Nothing \/ \E p \in Plans : op' = Opening(p)
        \/ \E s \in Sockets : op' = Closing(s) \/ \E how \in {"rd", "rf"} : op' = Fetching(s, how)
    BY <1>6 DEF DropLate, Open, Close, HandleWaitingData
  <2>2. ~Nothing.sent /\ \A p : ~Opening(p).sent
    BY DEF Opening, Nothing
  <2>3. \A s, how : ~Closing(s).sent /\ ~Fetching(s, how).sent
    BY DEF Closing, Fetching, Nothing
  <2>4. ~op'.sent
    BY <2>1, <2>2, <2>3
  <2> QED
    BY <2>4 DEF LateRight
<1>7. CASE \E s \in Sockets : Arrive(s) \/ Incoming(s) \/ Hangup(s)
  <2>1. op' = op /\ (line' = line \/ \E e : e.k # "late" /\ line' = Append(line, e))
    <3>1. PICK s \in Sockets : Arrive(s) \/ Incoming(s) \/ Hangup(s)
      BY <1>7
    <3>2. CASE Arrive(s)
      <4>1. PICK n \in {1, 2} :
              \/ line' = Append(line, Unsolicited("rd", s, real[s].q + 1))
              \/ line' = Append(line, [Announces(real[s], s) EXCEPT !.n = n])
              \/ line' = line
        BY <3>2 DEF Arrive
      <4>2. Unsolicited("rd", s, real[s].q + 1).k # "late" /\ [Announces(real[s], s) EXCEPT !.n = n].k # "late"
        BY DEF Announces, Unsolicited
      <4> QED
        BY <3>2, <4>1, <4>2 DEF Arrive
    <3>3. CASE Incoming(s)
      <4>1. PICK c \in Sockets : line' = Append(line, [k |-> "li", s |-> c, n |-> 0, on |-> s, gen |-> opens + 1])
        BY <3>3 DEF Incoming, Free
      <4>2. [k |-> "li", s |-> c, n |-> 0, on |-> s, gen |-> opens + 1].k # "late"
        OBVIOUS
      <4> QED
        BY <3>3, <4>1, <4>2 DEF Incoming
    <3>4. CASE Hangup(s)
      <4>1. Unsolicited("cl", s, 0).k # "late"
        BY DEF Unsolicited
      <4> QED
        BY <3>4, <4>1 DEF Hangup
    <3> QED
      BY <3>1, <3>2, <3>3, <3>4
  <2> QED
    BY <1>1, <2>1, StillRight DEF LateRight
<1>8. CASE UNCHANGED socketVars
  BY <1>8 DEF socketVars, LateRight
<1> QED
  BY <1>2, <1>3, <1>4, <1>5, <1>6, <1>7, <1>8 DEF SocketNext, Runs

\* Unless a result is taken for another's, every step keeps the sockets together.
LEMMA SocketKept ==
    ASSUME SocketInv, LateRight, [SocketNext]_socketVars, "mistaken" \notin flaw'
    PROVE  SocketInv'
<1>1. CASE ExecuteOpen \/ Execute \/ Refuse
  <2>1. Mistaken = {}
    BY <1>1 DEF ExecuteOpen, Execute, Refuse, Mistaken
  <2> QED
    BY <1>1, <2>1, ExecuteOpenStep, ExecuteStep, RefuseStep
<1>2. ~Mistake
  <2> SUFFICES ASSUME Mistake PROVE FALSE
    OBVIOUS
  <2>1. op.sent /\ line # <<>> /\ Head(line).k = "late" /\ line \in Seq(Spoken)
    BY DEF Mistake, SocketInv, Typed
  <2>2. 1 \in DOMAIN line /\ Head(line) = line[1]
    BY <2>1
  <2> QED
    BY <2>1, <2>2 DEF LateRight
<1>3. CASE ReadLine \/ DropLate \/ Finish \/ SetHandler \/ \E s \in Sockets : HandleWaitingData(s)
  BY <1>3, ReadLineStep, DropLateStep, FinishStep, SetHandlerStep, HandleWaitingDataStep
<1>4. CASE Open \/ CommandTimesOut \/ AnsweredLate
  BY <1>4, OpenStep, TimesOutStep
<1>5. CASE \E s \in Sockets : Close(s) \/ Arrive(s) \/ Incoming(s) \/ Hangup(s)
  BY <1>5, CloseStep, ArriveStep, IncomingStep, HangupStep
<1>6. CASE UNCHANGED socketVars
  BY <1>6, Unchanged
<1> QED
  BY <1>1, <1>2, <1>3, <1>4, <1>5, <1>6 DEF SocketNext, Runs

\* What a command failed to do is not forgotten.
LEMMA FlawsStay == [SocketNext]_socketVars => flaw \subseteq flaw'
<1> SUFFICES ASSUME [SocketNext]_socketVars PROVE flaw \subseteq flaw'
  OBVIOUS
<1>1. CASE Runs
  BY <1>1 DEF Runs, ReadLine, DropLate, ExecuteOpen, Execute, Refuse, Finish, Mistake, SetHandler, HandleWaitingData
<1>2. CASE Open \/ CommandTimesOut \/ AnsweredLate
  BY <1>2 DEF Open, CommandTimesOut, AnsweredLate, TimesOut
<1>3. CASE \E s \in Sockets : Close(s) \/ Arrive(s) \/ Incoming(s) \/ Hangup(s)
  BY <1>3 DEF Close, Arrive, Incoming, Hangup
<1>4. CASE UNCHANGED socketVars
  BY <1>4 DEF socketVars
<1> QED
  BY <1>1, <1>2, <1>3, <1>4 DEF SocketNext

\* The types hold whatever happens, the rest until a result is taken for another's.
SocketsInv == Formed /\ ("mistaken" \notin flaw => SocketInv /\ LateRight)

LEMMA NextInv == SocketsInv /\ [SocketNext]_socketVars => SocketsInv'
<1> SUFFICES ASSUME SocketsInv, [SocketNext]_socketVars PROVE SocketsInv'
  OBVIOUS
<1>1. Formed'
  BY FormedKept DEF SocketsInv
<1>2. ASSUME "mistaken" \notin flaw' PROVE SocketInv' /\ LateRight'
  <2>1. "mistaken" \notin flaw
    BY <1>2, FlawsStay
  <2> QED
    BY <1>2, <2>1, SocketKept, LateKept DEF SocketsInv
<1> QED
  BY <1>1, <1>2 DEF SocketsInv

LEMMA StartInv == SocketInit => SocketsInv
<1> SUFFICES ASSUME SocketInit PROVE SocketsInv
  OBVIOUS
<1>1. SocketInv
  BY InitInv
<1>2. ~op.sent
  BY DEF SocketInit, Nothing
<1>3. CallFormed
  BY <1>1 DEF SocketInv, CallRight, CallFormed
<1>4. LineFormed
  BY <1>1, <1>2 DEF SocketInit, SocketInv, LineRight, LineFormed, VerdictIn
<1> QED
  BY <1>1, <1>2, <1>3, <1>4 DEF SocketsInv, Formed, SocketInv, LateRight

(***************************************************************************)
(* The invariant that holds the sockets together: the handlers a socket    *)
(* has, the news on the line and the call in progress belong to the same   *)
(* opening of the socket, until a command takes the late result of another *)
(* for its own; the types of the call and of the line hold also then.      *)
(* Every method of OwlModemSocket.                                         *)
(***************************************************************************)
THEOREM SocketInvariant == SocketSpec => []SocketsInv
<1> QED
  BY StartInv, NextInv, PTL DEF SocketSpec

(***************************************************************************)
(* The statuses, the counters of announced data and the call in progress   *)
(* have their types, also where the result and the answer of another       *)
(* command are taken for those of the one that waits: a counter that is    *)
(* reduced by what was read stays natural.  receiveTCP, handleWaitingData. *)
(***************************************************************************)
THEOREM SocketTypes == SocketSpec => []SocketTypeOK
<1>1. SocketsInv => SocketTypeOK
  <2> SUFFICES ASSUME Formed PROVE SocketTypeOK
    BY DEF SocketsInv
  <2>1. owned \subseteq Sockets /\ \A s \in Sockets : status[s] \in Beliefs
    BY DEF Formed, Typed
  <2>2. op.k \in {"idle", "open", "close", "fetch"}
    BY FormedCalls DEF Formed
  <2> QED
    BY <2>1, <2>2 DEF SocketTypeOK, Beliefs, Protocols
<1> QED
  BY <1>1, SocketInvariant, PTL

(***************************************************************************)
(* However many sockets there are and whatever calls are made: no socket   *)
(* is left open in the modem without an owner and the status of each is    *)
(* right when nothing is under way, where no command was lost or late; and *)
(* data does not reach the handlers of an earlier use whatever commands    *)
(* fail or time out, until one takes the late result of another for its    *)
(* own.  openSocket and the composite calls, setOpened, setClosed,         *)
(* processURCConnected.                                                    *)
(***************************************************************************)
THEOREM SocketsAreConsistent == SocketSpec => []SocketsConsistent
<1>1. SocketsInv => NoLeak /\ StatusAgrees /\ NotMixed
  <2> SUFFICES ASSUME SocketsInv, "mistaken" \notin flaw PROVE NoLeak /\ StatusAgrees /\ NotMixed
    BY DEF NoLeak, StatusAgrees, NotMixed
  <2> SUFFICES ASSUME SocketInv PROVE NoLeak /\ StatusAgrees /\ NotMixed
    BY DEF SocketsInv
  <2>1. DOMAIN line = 1 .. Len(line)
    BY LenProperties DEF SocketInv, Typed
  <2>2. NoLeak
    <3> SUFFICES ASSUME flaw \subseteq {"overtaken"}, NEW s \in Sockets, real[s].open
                 PROVE  s \in owned \/ op.s = s \/ \E i \in 1 .. Len(line) : line[i].k = "li" /\ line[i].s = s
      BY DEF NoLeak
    <3>1. s \in owned \/ ComingIn(line, s) # {} \/ Opens(s) \/ Closes(s)
      BY DEF SocketInv, LeakRight
    <3>2. ComingIn(line, s) # {} => \E i \in DOMAIN line : line[i].k = "li" /\ line[i].s = s
      BY DEF ComingIn
    <3> QED
      BY <2>1, <3>1, <3>2 DEF Opens, Closes
  <2>3. StatusAgrees
    <3> SUFFICES ASSUME flaw = {}, op = Nothing, line = <<>>, ~Can("hangup"), NEW s \in Sockets
                 PROVE  Agrees(s)
      BY DEF StatusAgrees
    <3>1. Quiet
      BY DEF Quiet, Can
    <3>2. DOMAIN line = {}
      OBVIOUS
    <3>3. ComingIn(line, s) = {}
      BY <3>2 DEF ComingIn
    <3>4. ~Opens(s) /\ ~Closes(s) /\ ~Begins(s)
      BY Idle
    <3> QED
      BY <3>1, <3>3, <3>4 DEF SocketInv, BeliefRight, Connects
  <2>4. NotMixed
    BY DEF SocketInv, FetchedRight, NotMixed
  <2> QED
    BY <2>2, <2>3, <2>4
<1> QED
  BY <1>1, SocketInvariant, SocketTypes, PTL DEF SocketsConsistent

(***************************************************************************)
(* A datagram that waits in the modem is announced, about to be, or being  *)
(* fetched: no counter is reset after an announcement it does not stand    *)
(* for.  handleWaitingData, setOpened, processURCReceive.                  *)
(***************************************************************************)
THEOREM DatagramsAreNotForgotten == SocketSpec => []NoDataForgotten
<1>1. SocketsInv => NoDataForgotten
  <2> SUFFICES ASSUME SocketInv, flaw \subseteq {"overtaken"}, NEW s \in Sockets,
                      real[s].q > 0, real[s].proto = "UDP"
               PROVE  Awaited(s)
    BY DEF NoDataForgotten, SocketsInv
  <2>1. DOMAIN line = 1 .. Len(line)
    BY LenProperties DEF SocketInv, Typed
  <2>2. real[s].open
    BY DEF SocketInv, EndsRight, Shut
  <2>3. CASE Begins(s)
    BY <2>3 DEF Begins, Opens, Awaited
  <2>4. CASE ~Begins(s)
    <3>1. Due(s)
      BY <2>2, <2>4 DEF SocketInv, DatagramsRight
    <3> QED
      BY <2>1, <3>1 DEF Due, Awaited, AnnouncedIn
  <2> QED
    BY <2>3, <2>4
<1> QED
  BY <1>1, SocketInvariant, PTL

=============================================================================
