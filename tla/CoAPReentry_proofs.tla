------------------------ MODULE CoAPReentry_proofs -------------------------
(***************************************************************************)
(* Proofs about CoAPReentry.                                               *)
(*                                                                         *)
(* ListConsistent speaks of the list and its slots only, but what keeps it *)
(* are the pointers that the frames of the call stack hold: a frame goes   *)
(* on where a nested one may have changed the list.  ReentryInv says what  *)
(* each of them may point to, and Calm what is left of that as long as no  *)
(* callback used the SDK.                                                  *)
(***************************************************************************)
EXTENDS CoAPReentry, FiniteSetTheorems, SequenceTheorems, TLAPS

\* OnList, of a given list.
Listed(l, n) == \E i \in DOMAIN l : l[i] = n

\* The nodes whose callback tells of their timeout, according to a given stack.
Telling(s) == {n \in Nodes : \E i \in DOMAIN s : s[i].op = "Timeout" /\ s[i].t = n}

\* A pointer p saved in the i-th frame of s is null, to a node on the list, to one
\* that was freed meanwhile, or to one of whose timeout a frame nested in it tells.
Saved(l, h, s, i, p) ==
    \/ p = Null
    \/ Listed(l, p)
    \/ p \in Nodes /\ h[p] = "freed"
    \/ \E j \in DOMAIN s : j < i /\ s[j].op = "Timeout" /\ s[j].t = p

\* A loop that is not inside a callback looks at two different nodes of the list,
\* or at null.
Looks(l, f) ==
    /\ f.t = Null \/ Listed(l, f.t)
    /\ f.nt = Null \/ Listed(l, f.nt)
    /\ f.t # Null => f.nt # f.t

\* Only the innermost frame is such a loop.
ScanRight(l, s, i) == s[i].op = "scan" => i = 1 /\ Looks(l, s[i])

\* A transaction that is timing out is off the list and not freed.
TimeoutRight(l, h, s, i) ==
    s[i].op = "Timeout" =>
      /\ s[i].t \in Nodes /\ ~ Listed(l, s[i].t) /\ h[s[i].t] = "allocated"
      /\ Saved(l, h, s, i, s[i].nt)
      /\ \A j \in DOMAIN s : s[j].op = "Timeout" /\ s[j].t = s[i].t => j = i

AckRight(l, h, s, i) ==
    s[i].op = "ACK" => s[i].t \in Nodes /\ Saved(l, h, s, i, s[i].t)

\* A transaction that is being sent is not on the list yet.
PutRight(h, s, i) ==
    s[i].op = "put" =>
      /\ s[i].t \in Nodes /\ h[s[i].t] = "unused"
      /\ \A j \in DOMAIN s : s[j].op = "put" /\ s[j].t = s[i].t => j = i

Frames(l, h, s) == \A i \in DOMAIN s :
    /\ ScanRight(l, s, i)
    /\ TimeoutRight(l, h, s, i)
    /\ AckRight(l, h, s, i)
    /\ PutRight(h, s, i)
    /\ s[i].op = "get" => s[i].t \in Nodes

\* The inductive invariant of ListConsistent.
ReentryInv ==
    /\ ListConsistent
    /\ IsFiniteSet(Telling(stack))
    /\ Frames(list, heap, stack)

\* While no callback used the SDK, a loop is inside at most one call, ...
Shallow(s) ==
    /\ \A i \in DOMAIN s : i < Len(s) => s[i].op \in {"scan", "Timeout"}
    /\ \A i \in DOMAIN s : i > 1 => s[i].op \in {"get", "put"}

\* ... a saved pointer to the list still is one, ...
Current(l, s) == \A i \in DOMAIN s :
    /\ s[i].op = "Timeout" => s[i].nt = Null \/ Listed(l, s[i].nt)
    /\ s[i].op = "ACK" => Listed(l, s[i].t)

\* ... and a node of the list was called back only if that callback is running.
CalledRight(l, h, s, c) == \A n \in Nodes :
    /\ c[n] \in {0, 1}
    /\ h[n] = "unused" => c[n] = 0
    /\ Listed(l, n) /\ c[n] # 0 => \E i \in DOMAIN s : s[i].op = "ACK" /\ s[i].t = n

Calm == ~ reentered =>
    ~ fault /\ Shallow(stack) /\ Current(list, stack) /\ CalledRight(list, heap, stack, called)

-----------------------------------------------------------------------------
\* The call stack

LEMMA Indexed ==
    ASSUME NEW S, NEW s \in Seq(S)
    PROVE  Len(s) \in Nat /\ DOMAIN s = 1 .. Len(s) /\ \A i \in 1 .. Len(s) : s[i] \in S
  BY LenProperties, ElementOfSeq

LEMMA Pushed ==
    ASSUME NEW S, NEW s \in Seq(S), NEW f \in S
    PROVE  /\ <<f>> \o s \in Seq(S)
           /\ Len(<<f>> \o s) = Len(s) + 1
           /\ (<<f>> \o s)[1] = f
           /\ \A i \in 2 .. Len(s) + 1 : (<<f>> \o s)[i] = s[i - 1]
<1>1. <<f>> \in Seq(S) /\ Len(<<f>>) = 1 /\ <<f>>[1] = f
  OBVIOUS
<1>2. Len(s) \in Nat
  BY LenProperties
<1> QED
  BY <1>1, <1>2, ConcatProperties

LEMMA Single == ASSUME NEW S, NEW f \in S PROVE <<f>> \in Seq(S)
  OBVIOUS

LEMMA Pair ==
    ASSUME NEW S, NEW f \in S, NEW g \in S
    PROVE  <<f>> \o <<g>> = <<f, g>>
<1>1. /\ <<f>> \in Seq(S) /\ <<g>> \in Seq(S) /\ Len(<<f>>) = 1 /\ Len(<<g>>) = 1
      /\ <<f, g>> \in Seq(S) /\ Len(<<f, g>>) = 2
      /\ <<f>>[1] = f /\ <<g>>[1] = g /\ <<f, g>>[1] = f /\ <<f, g>>[2] = g
  OBVIOUS
<1>2. /\ <<f>> \o <<g>> \in Seq(S) /\ Len(<<f>> \o <<g>>) = 2
      /\ (<<f>> \o <<g>>)[1] = f /\ (<<f>> \o <<g>>)[2] = g
  BY <1>1, ConcatProperties
<1>3. \A i \in 1 .. 2 : (<<f>> \o <<g>>)[i] = <<f, g>>[i]
  BY <1>1, <1>2
<1> QED
  BY <1>1, <1>2, <1>3, SeqEqual

LEMMA Popped ==
    ASSUME NEW S, NEW s \in Seq(S), s # <<>>
    PROVE  /\ Head(s) = s[1] /\ Head(s) \in S
           /\ Tail(s) \in Seq(S)
           /\ Len(Tail(s)) = Len(s) - 1
           /\ \A i \in 1 .. Len(s) - 1 : Tail(s)[i] = s[i + 1]
           /\ Len(s) \in Nat \ {0}
  BY HeadTailProperties, EmptySeq, LenProperties

LEMMA Replaced ==
    ASSUME NEW S, NEW s \in Seq(S), s # <<>>, NEW f \in S
    PROVE  /\ <<f>> \o Tail(s) \in Seq(S)
           /\ Len(<<f>> \o Tail(s)) = Len(s)
           /\ (<<f>> \o Tail(s))[1] = f
           /\ \A i \in 2 .. Len(s) : (<<f>> \o Tail(s))[i] = s[i]
<1> DEFINE t == Tail(s)
<1>1. /\ t \in Seq(S) /\ Len(t) = Len(s) - 1 /\ Len(s) \in Nat \ {0}
      /\ \A i \in 1 .. Len(s) - 1 : t[i] = s[i + 1]
  BY Popped
<1> HIDE DEF t
<1>2. /\ <<f>> \o t \in Seq(S) /\ Len(<<f>> \o t) = Len(t) + 1 /\ (<<f>> \o t)[1] = f
      /\ \A i \in 2 .. Len(t) + 1 : (<<f>> \o t)[i] = t[i - 1]
  BY <1>1, Pushed
<1>3. \A i \in 2 .. Len(s) : (<<f>> \o t)[i] = s[i]
  BY <1>1, <1>2
<1> QED
  BY <1>1, <1>2, <1>3 DEF t

-----------------------------------------------------------------------------
\* The list

LEMMA Place ==
    ASSUME NEW n, OnList(n)
    PROVE  Position(n) \in DOMAIN list /\ list[Position(n)] = n
  BY DEF OnList, Position

\* The successor of a node is another node of the list.
LEMMA NextRight ==
    ASSUME ReentryTypeOK, ListIntact, NEW n, OnList(n)
    PROVE  NextOf(n) = Null \/ (OnList(NextOf(n)) /\ NextOf(n) # n)
<1>1. Position(n) \in DOMAIN list /\ list[Position(n)] = n
  BY Place
<1>2. DOMAIN list = 1 .. Len(list) /\ Len(list) \in Nat
  BY Indexed DEF ReentryTypeOK
<1>3. CASE Position(n) < Len(list)
  <2> DEFINE k == Position(n) + 1
  <2>1. k \in DOMAIN list /\ k # Position(n)
    BY <1>1, <1>2, <1>3
  <2>2. NextOf(n) = list[k]
    BY <1>3 DEF NextOf
  <2>3. list[k] # list[Position(n)]
    BY <1>1, <2>1 DEF ListIntact
  <2> QED
    BY <1>1, <2>1, <2>2, <2>3 DEF OnList
<1> QED
  BY <1>3 DEF NextOf

\* WL_DELETE takes one node off the list.
LEMMA WithoutRight ==
    ASSUME ReentryTypeOK, ListIntact, NEW n, OnList(n)
    PROVE  /\ Without(n) \in Seq(Nodes)
           /\ Len(Without(n)) = Len(list) - 1
           /\ Len(list) \in Nat \ {0}
           /\ \A i \in DOMAIN Without(n) : OnList(Without(n)[i]) /\ Without(n)[i] # n
           /\ \A m : OnList(m) /\ m # n => \E i \in DOMAIN Without(n) : Without(n)[i] = m
           /\ \A i, j \in DOMAIN Without(n) : Without(n)[i] = Without(n)[j] => i = j
<1> DEFINE k == Position(n)
           a == SubSeq(list, 1, k - 1)
           b == SubSeq(list, k + 1, Len(list))
           w == a \o b
<1>1. k \in DOMAIN list /\ list[k] = n
  BY Place
<1>2. /\ DOMAIN list = 1 .. Len(list) /\ Len(list) \in Nat /\ list \in Seq(Nodes)
      /\ \A i \in 1 .. Len(list) : list[i] \in Nodes
  BY Indexed DEF ReentryTypeOK
<1>3. Without(n) = w
  BY DEF Without
<1> HIDE DEF k
<1>4. /\ a \in Seq(Nodes) /\ Len(a) = k - 1
      /\ \A i \in 1 .. k - 1 : a[i] = list[i]
  BY <1>1, <1>2, SubSeqProperties
<1>5. /\ b \in Seq(Nodes) /\ Len(b) = Len(list) - k
      /\ \A i \in 1 .. Len(list) - k : b[i] = list[k + i]
  BY <1>1, <1>2, SubSeqProperties
<1> HIDE DEF a, b
<1>6. /\ w \in Seq(Nodes) /\ Len(w) = Len(a) + Len(b)
      /\ \A i \in 1 .. Len(a) + Len(b) : w[i] = IF i <= Len(a) THEN a[i] ELSE b[i - Len(a)]
  BY <1>4, <1>5, ConcatProperties
<1> HIDE DEF w
<1>7. Len(w) = Len(list) - 1 /\ DOMAIN w = 1 .. Len(list) - 1
  <2>1. DOMAIN w = 1 .. Len(w)
    BY <1>6, LenProperties
  <2> QED
    BY <1>1, <1>2, <1>4, <1>5, <1>6, <2>1
<1>8. \A i \in DOMAIN w : i < k => w[i] = list[i] /\ i \in 1 .. Len(list)
  BY <1>1, <1>2, <1>4, <1>5, <1>6, <1>7
<1>9. \A i \in DOMAIN w : i >= k => w[i] = list[i + 1] /\ i + 1 \in 1 .. Len(list)
  <2>1. SUFFICES ASSUME NEW i \in DOMAIN w, i >= k
                 PROVE  w[i] = list[i + 1] /\ i + 1 \in 1 .. Len(list)
    OBVIOUS
  <2>2. i - (k - 1) \in 1 .. Len(list) - k /\ i \in 1 .. Len(a) + Len(b) /\ ~ (i <= Len(a))
    BY <1>1, <1>2, <1>4, <1>5, <1>7, <2>1
  <2>3. w[i] = b[i - (k - 1)]
    BY <1>4, <1>6, <2>2
  <2>4. b[i - (k - 1)] = list[k + (i - (k - 1))]
    BY <1>5, <2>2
  <2>5. k + (i - (k - 1)) = i + 1 /\ i + 1 \in 1 .. Len(list)
    BY <1>1, <1>2, <1>7, <2>1
  <2> QED
    BY <2>3, <2>4, <2>5
<1>10. \A i, j \in 1 .. Len(list) : list[i] = list[j] => i = j
  BY <1>2 DEF ListIntact
<1>11. \A i \in DOMAIN w : OnList(w[i]) /\ w[i] # n
  <2>1. SUFFICES ASSUME NEW i \in DOMAIN w
                 PROVE  OnList(w[i]) /\ w[i] # n
    OBVIOUS
  <2>2. CASE i < k
    <3>1. w[i] = list[i] /\ i \in 1 .. Len(list) /\ i # k
      BY <1>1, <1>2, <1>8, <2>2
    <3> QED
      BY <1>1, <1>2, <1>10, <3>1 DEF OnList
  <2>3. CASE i >= k
    <3>1. w[i] = list[i + 1] /\ i + 1 \in 1 .. Len(list) /\ i + 1 # k
      BY <1>1, <1>2, <1>9, <2>3
    <3> QED
      BY <1>1, <1>2, <1>10, <3>1 DEF OnList
  <2> QED
    BY <1>1, <1>2, <1>7, <2>2, <2>3
<1>12. ASSUME NEW m, OnList(m), m # n
       PROVE  \E i \in DOMAIN w : w[i] = m
  <2>1. PICK j \in 1 .. Len(list) : list[j] = m
    BY <1>2, <1>12 DEF OnList
  <2>2. CASE j < k
    <3>1. j \in DOMAIN w
      BY <1>1, <1>2, <1>7, <2>2
    <3> QED
      BY <1>8, <2>1, <2>2, <3>1
  <2>3. CASE j > k
    <3>1. j - 1 \in DOMAIN w /\ j - 1 >= k /\ (j - 1) + 1 = j
      BY <1>1, <1>2, <1>7, <2>3
    <3> QED
      BY <1>9, <2>1, <3>1
  <2>4. j # k
    BY <1>1, <1>12, <2>1
  <2> QED
    BY <1>1, <1>2, <2>2, <2>3, <2>4
<1>13. ASSUME NEW i \in DOMAIN w, NEW j \in DOMAIN w, w[i] = w[j]
       PROVE  i = j
  <2>1. i \in Int /\ j \in Int /\ k \in Int
    BY <1>1, <1>2, <1>7
  <2>2. PICK p \in 1 .. Len(list) : w[i] = list[p] /\ (IF i < k THEN p = i ELSE p = i + 1)
    BY <1>8, <1>9, <2>1
  <2>3. PICK q \in 1 .. Len(list) : w[j] = list[q] /\ (IF j < k THEN q = j ELSE q = j + 1)
    BY <1>8, <1>9, <2>1
  <2>4. p = q
    BY <1>10, <1>13, <2>2, <2>3
  <2> QED
    BY <2>1, <2>2, <2>3, <2>4
<1>14. Len(list) \in Nat \ {0}
  BY <1>1, <1>2
<1> QED
  BY <1>3, <1>6, <1>7, <1>11, <1>12, <1>13, <1>14

-----------------------------------------------------------------------------
\* What pushing and popping a frame does to Frames

\* What is asked of a frame that is pushed.
Fits(l, h, s, f) ==
    /\ f.op # "Timeout"
    /\ f.op = "scan" => Looks(l, f)
    /\ f.op \in {"ACK", "get", "put"} => f.t \in Nodes
    /\ f.op = "ACK" => Listed(l, f.t)
    /\ f.op = "put" =>
          h[f.t] = "unused" /\ \A j \in DOMAIN s : s[j].op = "put" => s[j].t # f.t

NoScan(s) == \A i \in DOMAIN s : s[i].op # "scan"

LEMMA PushKeeps ==
    ASSUME NEW l, NEW h, NEW s \in Seq(Frame), NEW f \in Frame,
           Frames(l, h, s), NoScan(s), Fits(l, h, s, f)
    PROVE  /\ Frames(l, h, <<f>> \o s)
           /\ Telling(<<f>> \o s) = Telling(s)
<1> DEFINE t == <<f>> \o s
<1>1. /\ t \in Seq(Frame) /\ Len(t) = Len(s) + 1 /\ t[1] = f
      /\ \A i \in 2 .. Len(s) + 1 : t[i] = s[i - 1]
  BY Pushed
<1> HIDE DEF t
<1>2. Len(s) \in Nat /\ DOMAIN s = 1 .. Len(s) /\ DOMAIN t = 1 .. Len(s) + 1
  <2>1. DOMAIN t = 1 .. Len(t)
    BY <1>1, Indexed
  <2> QED
    BY <1>1, <2>1, Indexed
<1>3. \A j \in DOMAIN s : j + 1 \in DOMAIN t /\ t[j + 1] = s[j]
  BY <1>1, <1>2
<1>4. \A i \in DOMAIN t : i # 1 => i - 1 \in DOMAIN s /\ t[i] = s[i - 1]
  BY <1>1, <1>2
<1>5. ASSUME NEW i \in DOMAIN t, NEW p, i # 1, Saved(l, h, s, i - 1, p)
      PROVE  Saved(l, h, t, i, p)
  <2>1. ASSUME NEW j \in DOMAIN s, j < i - 1, s[j].op = "Timeout", s[j].t = p
        PROVE  Saved(l, h, t, i, p)
    <3>1. j + 1 \in DOMAIN t /\ t[j + 1] = s[j] /\ j + 1 < i
      BY <1>2, <1>3, <2>1
    <3> QED
      BY <2>1, <3>1 DEF Saved
  <2> QED
    BY <1>5, <2>1 DEF Saved
<1>6. ASSUME NEW i \in DOMAIN t
      PROVE  ScanRight(l, t, i) /\ (t[i].op = "get" => t[i].t \in Nodes)
  <2>1. CASE i = 1
    BY <1>1, <2>1 DEF Fits, ScanRight
  <2>2. CASE i # 1
    BY <1>4, <2>2 DEF NoScan, ScanRight, Frames
  <2> QED
    BY <2>1, <2>2
<1>7. ASSUME NEW i \in DOMAIN t
      PROVE  TimeoutRight(l, h, t, i) /\ AckRight(l, h, t, i)
  <2>1. CASE i = 1
    BY <1>1, <2>1 DEF Fits, TimeoutRight, AckRight, Saved
  <2>2. CASE i # 1
    <3>1. i - 1 \in DOMAIN s /\ t[i] = s[i - 1]
      BY <1>4, <2>2
    <3>2. TimeoutRight(l, h, s, i - 1) /\ AckRight(l, h, s, i - 1)
      BY <3>1 DEF Frames
    <3>3. ASSUME NEW j \in DOMAIN t, t[i].op = "Timeout", t[j].op = "Timeout", t[j].t = t[i].t
          PROVE  j = i
      <4>1. j # 1
        BY <1>1, <3>3 DEF Fits
      <4>2. j - 1 \in DOMAIN s /\ t[j] = s[j - 1]
        BY <1>4, <4>1
      <4>3. j - 1 = i - 1
        BY <3>1, <3>2, <3>3, <4>2 DEF TimeoutRight
      <4> QED
        BY <1>2, <4>3
    <3>4. TimeoutRight(l, h, t, i)
      BY <1>5, <2>2, <3>1, <3>2, <3>3 DEF TimeoutRight
    <3> QED
      BY <1>5, <2>2, <3>1, <3>2, <3>4 DEF AckRight
  <2> QED
    BY <2>1, <2>2
<1>8. ASSUME NEW i \in DOMAIN t
      PROVE  PutRight(h, t, i)
  <2>1. CASE i = 1
    <3>1. \A j \in DOMAIN t : t[j].op = "put" /\ t[j].t = f.t /\ f.op = "put" => j = 1
      BY <1>4 DEF Fits
    <3> QED
      BY <1>1, <2>1, <3>1 DEF Fits, PutRight
  <2>2. CASE i # 1
    <3>1. i - 1 \in DOMAIN s /\ t[i] = s[i - 1] /\ PutRight(h, s, i - 1)
      BY <1>4, <2>2 DEF Frames
    <3>2. ASSUME NEW j \in DOMAIN t, t[i].op = "put", t[j].op = "put", t[j].t = t[i].t
          PROVE  j = i
      <4>1. j # 1
        BY <1>1, <3>1, <3>2 DEF Fits
      <4>2. j - 1 \in DOMAIN s /\ t[j] = s[j - 1]
        BY <1>4, <4>1
      <4>3. j - 1 = i - 1
        BY <3>1, <3>2, <4>2 DEF PutRight
      <4> QED
        BY <1>2, <4>3
    <3> QED
      BY <3>1, <3>2 DEF PutRight
  <2> QED
    BY <2>1, <2>2
<1>9. Frames(l, h, t)
  BY <1>6, <1>7, <1>8 DEF Frames
<1>10. Telling(t) = Telling(s)
  <2>1. ASSUME NEW n \in Nodes, NEW i \in DOMAIN t, t[i].op = "Timeout", t[i].t = n
        PROVE  n \in Telling(s)
    BY <1>1, <1>4, <2>1 DEF Fits, Telling
  <2>2. ASSUME NEW n \in Nodes, NEW j \in DOMAIN s, s[j].op = "Timeout", s[j].t = n
        PROVE  n \in Telling(t)
    BY <1>3, <2>2 DEF Telling
  <2> QED
    BY <2>1, <2>2 DEF Telling
<1> QED
  BY <1>9, <1>10 DEF t

LEMMA PopKeeps ==
    ASSUME NEW l, NEW h, NEW s \in Seq(Frame), s # <<>>,
           Frames(l, h, s), s[1].op # "Timeout"
    PROVE  /\ Frames(l, h, Tail(s))
           /\ Telling(Tail(s)) = Telling(s)
           /\ NoScan(Tail(s))
<1> DEFINE t == Tail(s)
<1>1. /\ t \in Seq(Frame) /\ Len(t) = Len(s) - 1 /\ Len(s) \in Nat \ {0}
      /\ \A i \in 1 .. Len(s) - 1 : t[i] = s[i + 1]
  BY Popped
<1> HIDE DEF t
<1>2. DOMAIN s = 1 .. Len(s) /\ DOMAIN t = 1 .. Len(s) - 1
  <2>1. DOMAIN t = 1 .. Len(t)
    BY <1>1, Indexed
  <2> QED
    BY <1>1, <2>1, Indexed
<1>3. \A i \in DOMAIN t : i + 1 \in DOMAIN s /\ t[i] = s[i + 1] /\ i + 1 # 1
  BY <1>1, <1>2
<1>4. \A j \in DOMAIN s : j # 1 => j - 1 \in DOMAIN t /\ t[j - 1] = s[j]
  BY <1>1, <1>2
<1>5. ASSUME NEW i \in DOMAIN t, NEW p, Saved(l, h, s, i + 1, p)
      PROVE  Saved(l, h, t, i, p)
  <2>1. ASSUME NEW j \in DOMAIN s, j < i + 1, s[j].op = "Timeout", s[j].t = p
        PROVE  Saved(l, h, t, i, p)
    <3>1. j - 1 \in DOMAIN t /\ t[j - 1] = s[j] /\ j - 1 < i
      BY <1>2, <1>4, <2>1
    <3> QED
      BY <2>1, <3>1 DEF Saved
  <2> QED
    BY <1>5, <2>1 DEF Saved
<1>6. ASSUME NEW i \in DOMAIN t
      PROVE  /\ t[i].op # "scan" /\ (t[i].op = "get" => t[i].t \in Nodes)
             /\ TimeoutRight(l, h, t, i) /\ AckRight(l, h, t, i) /\ PutRight(h, t, i)
  <2>1. /\ i + 1 \in DOMAIN s /\ t[i] = s[i + 1] /\ i + 1 # 1
        /\ ScanRight(l, s, i + 1) /\ TimeoutRight(l, h, s, i + 1) /\ AckRight(l, h, s, i + 1)
        /\ PutRight(h, s, i + 1) /\ (s[i + 1].op = "get" => s[i + 1].t \in Nodes)
    BY <1>3 DEF Frames
  <2>2. ASSUME NEW j \in DOMAIN t, t[i].op = t[j].op, t[i].op \in {"Timeout", "put"},
               t[j].t = t[i].t
        PROVE  j = i
    <3>1. j + 1 \in DOMAIN s /\ t[j] = s[j + 1]
      BY <1>3
    <3>2. j + 1 = i + 1
      BY <2>1, <2>2, <3>1 DEF TimeoutRight, PutRight
    <3> QED
      BY <1>2, <3>2
  <2>3. TimeoutRight(l, h, t, i)
    BY <1>5, <2>1, <2>2 DEF TimeoutRight
  <2>4. PutRight(h, t, i)
    BY <2>1, <2>2 DEF PutRight
  <2>5. AckRight(l, h, t, i)
    BY <1>5, <2>1 DEF AckRight
  <2> QED
    BY <2>1, <2>3, <2>4, <2>5 DEF ScanRight
<1>7. Telling(t) = Telling(s)
  <2>1. ASSUME NEW n \in Nodes, NEW i \in DOMAIN t, t[i].op = "Timeout", t[i].t = n
        PROVE  n \in Telling(s)
    BY <1>3, <2>1 DEF Telling
  <2>2. ASSUME NEW n \in Nodes, NEW j \in DOMAIN s, s[j].op = "Timeout", s[j].t = n
        PROVE  n \in Telling(t)
    BY <1>4, <2>2 DEF Telling
  <2> QED
    BY <2>1, <2>2 DEF Telling
<1> QED
  BY <1>6, <1>7 DEF Frames, ScanRight, NoScan, t

\* The frames below that of a transaction that is being sent send others.
LEMMA OthersSend ==
    ASSUME NEW l, NEW h, NEW s \in Seq(Frame), s # <<>>, Frames(l, h, s), s[1].op = "put"
    PROVE  \A j \in DOMAIN Tail(s) : Tail(s)[j].op = "put" => Tail(s)[j].t # s[1].t
<1>1. /\ Tail(s) \in Seq(Frame) /\ Len(Tail(s)) = Len(s) - 1 /\ Len(s) \in Nat \ {0}
      /\ \A i \in 1 .. Len(s) - 1 : Tail(s)[i] = s[i + 1]
  BY Popped
<1>2. DOMAIN s = 1 .. Len(s) /\ DOMAIN Tail(s) = 1 .. Len(s) - 1
  BY <1>1, Indexed
<1>3. ASSUME NEW j \in DOMAIN Tail(s), Tail(s)[j].op = "put", Tail(s)[j].t = s[1].t
      PROVE  FALSE
  <2>1. j + 1 \in DOMAIN s /\ Tail(s)[j] = s[j + 1] /\ j + 1 # 1 /\ 1 \in DOMAIN s
    BY <1>1, <1>2
  <2>2. PutRight(h, s, 1)
    BY <2>1 DEF Frames
  <2> QED
    BY <1>3, <2>1, <2>2 DEF PutRight
<1> QED
  BY <1>3

\* The callback of a timeout returns, and its node is freed.
LEMMA PopFreesKeeps ==
    ASSUME NEW l, NEW h, NEW s \in Seq(Frame), s # <<>>,
           DOMAIN h = Nodes, Frames(l, h, s), s[1].op = "Timeout"
    PROVE  /\ s[1].t \in Telling(s) /\ ~ Listed(l, s[1].t)
           /\ Frames(l, [h EXCEPT ![s[1].t] = "freed"], Tail(s))
           /\ Telling(Tail(s)) = Telling(s) \ {s[1].t}
           /\ NoScan(Tail(s))
<1> DEFINE t == Tail(s)
           x == s[1].t
           g == [h EXCEPT ![x] = "freed"]
<1>1. /\ t \in Seq(Frame) /\ Len(t) = Len(s) - 1 /\ Len(s) \in Nat \ {0}
      /\ \A i \in 1 .. Len(s) - 1 : t[i] = s[i + 1]
  BY Popped
<1> HIDE DEF t
<1>2. DOMAIN s = 1 .. Len(s) /\ DOMAIN t = 1 .. Len(s) - 1
  <2>1. DOMAIN t = 1 .. Len(t)
    BY <1>1, Indexed
  <2> QED
    BY <1>1, <2>1, Indexed
<1>3. \A i \in DOMAIN t : i + 1 \in DOMAIN s /\ t[i] = s[i + 1] /\ i + 1 # 1
  BY <1>1, <1>2
<1>4. \A j \in DOMAIN s : j # 1 => j - 1 \in DOMAIN t /\ t[j - 1] = s[j]
  BY <1>1, <1>2
<1>5. /\ 1 \in DOMAIN s /\ x \in Nodes /\ ~ Listed(l, x) /\ h[x] = "allocated"
      /\ \A j \in DOMAIN s : s[j].op = "Timeout" /\ s[j].t = x => j = 1
  <2>1. 1 \in DOMAIN s
    BY <1>1, <1>2
  <2> QED
    BY <2>1 DEF Frames, TimeoutRight
<1>6. g[x] = "freed" /\ \A m \in Nodes : m # x => g[m] = h[m]
  BY <1>5
<1> HIDE DEF g
<1>7. ASSUME NEW i \in DOMAIN t, NEW p, Saved(l, h, s, i + 1, p)
      PROVE  Saved(l, g, t, i, p)
  <2>1. ASSUME NEW j \in DOMAIN s, j < i + 1, s[j].op = "Timeout", s[j].t = p
        PROVE  Saved(l, g, t, i, p)
    <3>1. CASE j = 1
      BY <1>5, <1>6, <2>1, <3>1 DEF Saved
    <3>2. CASE j # 1
      <4>1. j - 1 \in DOMAIN t /\ t[j - 1] = s[j] /\ j - 1 < i
        BY <1>2, <1>4, <2>1, <3>2
      <4> QED
        BY <2>1, <4>1 DEF Saved
    <3> QED
      BY <3>1, <3>2
  <2>2. CASE p \in Nodes /\ h[p] = "freed"
    BY <1>6, <2>2 DEF Saved
  <2> QED
    BY <1>7, <2>1, <2>2 DEF Saved
<1>8. ASSUME NEW i \in DOMAIN t
      PROVE  /\ t[i].op # "scan" /\ (t[i].op = "get" => t[i].t \in Nodes)
             /\ TimeoutRight(l, g, t, i) /\ AckRight(l, g, t, i) /\ PutRight(g, t, i)
  <2>1. /\ i + 1 \in DOMAIN s /\ t[i] = s[i + 1] /\ i + 1 # 1
        /\ ScanRight(l, s, i + 1) /\ TimeoutRight(l, h, s, i + 1) /\ AckRight(l, h, s, i + 1)
        /\ PutRight(h, s, i + 1) /\ (s[i + 1].op = "get" => s[i + 1].t \in Nodes)
    BY <1>3 DEF Frames
  <2>2. ASSUME NEW j \in DOMAIN t, t[i].op = t[j].op, t[i].op \in {"Timeout", "put"},
               t[j].t = t[i].t
        PROVE  j = i
    <3>1. j + 1 \in DOMAIN s /\ t[j] = s[j + 1]
      BY <1>3
    <3>2. j + 1 = i + 1
      BY <2>1, <2>2, <3>1 DEF TimeoutRight, PutRight
    <3> QED
      BY <1>2, <3>2
  <2>3. t[i].op = "Timeout" => t[i].t # x
    BY <1>5, <2>1
  <2>4. t[i].op = "put" => t[i].t # x
    BY <1>5, <2>1 DEF PutRight
  <2>5. TimeoutRight(l, g, t, i)
    BY <1>6, <1>7, <2>1, <2>2, <2>3 DEF TimeoutRight
  <2>6. PutRight(g, t, i)
    BY <1>6, <2>1, <2>2, <2>4 DEF PutRight
  <2>7. AckRight(l, g, t, i)
    BY <1>7, <2>1 DEF AckRight
  <2> QED
    BY <2>1, <2>5, <2>6, <2>7 DEF ScanRight
<1>9. x \in Telling(s)
  BY <1>5 DEF Telling
<1>10. Telling(t) = Telling(s) \ {x}
  <2>1. ASSUME NEW n \in Nodes, NEW i \in DOMAIN t, t[i].op = "Timeout", t[i].t = n
        PROVE  n \in Telling(s) /\ n # x
    BY <1>3, <1>5, <2>1 DEF Telling
  <2>2. ASSUME NEW n \in Nodes, NEW j \in DOMAIN s, s[j].op = "Timeout", s[j].t = n, n # x
        PROVE  n \in Telling(t)
    BY <1>4, <2>2 DEF Telling
  <2> QED
    BY <2>1, <2>2 DEF Telling
<1> QED
  BY <1>5, <1>8, <1>9, <1>10 DEF Frames, ScanRight, NoScan, t, g

\* A node is taken off the list, and its callback is called.
LEMMA PushTimeoutKeeps ==
    ASSUME NEW l, NEW k, NEW h, NEW s \in Seq(Frame), NEW f \in Frame,
           Frames(l, h, s), NoScan(s),
           f.op = "Timeout", f.t \in Nodes, Listed(l, f.t), h[f.t] = "allocated",
           f.nt = Null \/ (Listed(l, f.nt) /\ f.nt # f.t),
           \A m : Listed(k, m) <=> Listed(l, m) /\ m # f.t
    PROVE  /\ Frames(k, h, <<f>> \o s)
           /\ Telling(<<f>> \o s) = Telling(s) \cup {f.t}
           /\ f.t \notin Telling(s)
<1> DEFINE t == <<f>> \o s
<1>1. /\ t \in Seq(Frame) /\ Len(t) = Len(s) + 1 /\ t[1] = f
      /\ \A i \in 2 .. Len(s) + 1 : t[i] = s[i - 1]
  BY Pushed
<1> HIDE DEF t
<1>2. Len(s) \in Nat /\ DOMAIN s = 1 .. Len(s) /\ DOMAIN t = 1 .. Len(s) + 1
  <2>1. DOMAIN t = 1 .. Len(t)
    BY <1>1, Indexed
  <2> QED
    BY <1>1, <2>1, Indexed
<1>3. \A j \in DOMAIN s : j + 1 \in DOMAIN t /\ t[j + 1] = s[j]
  BY <1>1, <1>2
<1>4. \A i \in DOMAIN t : i # 1 => i - 1 \in DOMAIN s /\ t[i] = s[i - 1]
  BY <1>1, <1>2
<1>5. 1 \in DOMAIN t /\ \A i \in DOMAIN t : i # 1 => 1 < i
  BY <1>2
<1>6. ASSUME NEW i \in DOMAIN t, NEW p, i # 1, Saved(l, h, s, i - 1, p)
      PROVE  Saved(k, h, t, i, p)
  <2>1. ASSUME NEW j \in DOMAIN s, j < i - 1, s[j].op = "Timeout", s[j].t = p
        PROVE  Saved(k, h, t, i, p)
    <3>1. j + 1 \in DOMAIN t /\ t[j + 1] = s[j] /\ j + 1 < i
      BY <1>2, <1>3, <2>1
    <3> QED
      BY <2>1, <3>1 DEF Saved
  <2>2. CASE p = f.t
    BY <1>1, <1>5, <1>6, <2>2 DEF Saved
  <2> QED
    BY <1>6, <2>1, <2>2 DEF Saved
<1>7. \A j \in DOMAIN s : s[j].op = "Timeout" => s[j].t # f.t
  BY DEF Frames, TimeoutRight
<1>8. ASSUME NEW i \in DOMAIN t
      PROVE  TimeoutRight(k, h, t, i)
  <2>1. CASE i = 1
    <3>1. \A j \in DOMAIN t : t[j].op = "Timeout" /\ t[j].t = f.t => j = 1
      BY <1>4, <1>7
    <3> QED
      BY <1>1, <2>1, <3>1 DEF TimeoutRight, Saved
  <2>2. CASE i # 1
    <3>1. i - 1 \in DOMAIN s /\ t[i] = s[i - 1] /\ TimeoutRight(l, h, s, i - 1)
      BY <1>4, <2>2 DEF Frames
    <3>2. ASSUME NEW j \in DOMAIN t, t[i].op = "Timeout", t[j].op = "Timeout", t[j].t = t[i].t
          PROVE  j = i
      <4>1. j # 1
        BY <1>1, <1>7, <3>1, <3>2
      <4>2. j - 1 \in DOMAIN s /\ t[j] = s[j - 1]
        BY <1>4, <4>1
      <4>3. j - 1 = i - 1
        BY <3>1, <3>2, <4>2 DEF TimeoutRight
      <4> QED
        BY <1>2, <4>3
    <3> QED
      BY <1>6, <2>2, <3>1, <3>2 DEF TimeoutRight
  <2> QED
    BY <2>1, <2>2
<1>9. ASSUME NEW i \in DOMAIN t
      PROVE  /\ AckRight(k, h, t, i) /\ PutRight(h, t, i) /\ ScanRight(k, t, i)
             /\ t[i].op = "get" => t[i].t \in Nodes
  <2>1. CASE i = 1
    BY <1>1, <2>1 DEF AckRight, PutRight, ScanRight
  <2>2. CASE i # 1
    <3>1. /\ i - 1 \in DOMAIN s /\ t[i] = s[i - 1] /\ AckRight(l, h, s, i - 1)
          /\ PutRight(h, s, i - 1) /\ (s[i - 1].op = "get" => s[i - 1].t \in Nodes)
          /\ s[i - 1].op # "scan"
      BY <1>4, <2>2 DEF Frames, NoScan
    <3>2. ASSUME NEW j \in DOMAIN t, t[i].op = "put", t[j].op = "put", t[j].t = t[i].t
          PROVE  j = i
      <4>1. j # 1
        BY <1>1, <3>2
      <4>2. j - 1 \in DOMAIN s /\ t[j] = s[j - 1]
        BY <1>4, <4>1
      <4>3. j - 1 = i - 1
        BY <3>1, <3>2, <4>2 DEF PutRight
      <4> QED
        BY <1>2, <4>3
    <3>3. PutRight(h, t, i)
      BY <3>1, <3>2 DEF PutRight
    <3>4. AckRight(k, h, t, i)
      BY <1>6, <2>2, <3>1 DEF AckRight
    <3> QED
      BY <3>1, <3>3, <3>4 DEF ScanRight
  <2> QED
    BY <2>1, <2>2
<1>10. Telling(t) = Telling(s) \cup {f.t}
  <2>1. ASSUME NEW n \in Nodes, NEW i \in DOMAIN t, t[i].op = "Timeout", t[i].t = n
        PROVE  n \in Telling(s) \cup {f.t}
    BY <1>1, <1>4, <2>1 DEF Telling
  <2>2. ASSUME NEW n \in Nodes, NEW j \in DOMAIN s, s[j].op = "Timeout", s[j].t = n
        PROVE  n \in Telling(t)
    BY <1>3, <2>2 DEF Telling
  <2>3. f.t \in Telling(t)
    BY <1>1, <1>5 DEF Telling
  <2> QED
    BY <2>1, <2>2, <2>3 DEF Telling
<1>11. f.t \notin Telling(s)
  BY <1>7 DEF Telling
<1> QED
  BY <1>8, <1>9, <1>10, <1>11 DEF Frames, t

\* The list and the heap change under frames that are no loops.
LEMMA ChangeKeeps ==
    ASSUME NEW l, NEW k, NEW h, NEW g, NEW s, Frames(l, h, s), NoScan(s),
           \A m : Listed(l, m) => Listed(k, m) \/ (m \in Nodes /\ g[m] = "freed"),
           \A m \in Nodes : h[m] = "freed" => g[m] = "freed",
           \A j \in DOMAIN s : s[j].op = "Timeout" =>
                                  ~ Listed(k, s[j].t) /\ g[s[j].t] = h[s[j].t],
           \A j \in DOMAIN s : s[j].op = "put" => g[s[j].t] = h[s[j].t]
    PROVE  Frames(k, g, s)
<1>1. ASSUME NEW i \in DOMAIN s, NEW p, Saved(l, h, s, i, p)
      PROVE  Saved(k, g, s, i, p)
  BY <1>1 DEF Saved
<1>2. ASSUME NEW i \in DOMAIN s
      PROVE  /\ ScanRight(k, s, i) /\ TimeoutRight(k, g, s, i) /\ AckRight(k, g, s, i)
             /\ PutRight(g, s, i) /\ (s[i].op = "get" => s[i].t \in Nodes)
  <2>1. /\ s[i].op # "scan" /\ TimeoutRight(l, h, s, i) /\ AckRight(l, h, s, i)
        /\ PutRight(h, s, i) /\ (s[i].op = "get" => s[i].t \in Nodes)
    BY DEF Frames, NoScan
  <2>2. TimeoutRight(k, g, s, i)
    BY <1>1, <2>1 DEF TimeoutRight
  <2>3. AckRight(k, g, s, i)
    BY <1>1, <2>1 DEF AckRight
  <2>4. PutRight(g, s, i)
    BY <2>1 DEF PutRight
  <2> QED
    BY <2>1, <2>2, <2>3, <2>4 DEF ScanRight
<1> QED
  BY <1>2 DEF Frames

-----------------------------------------------------------------------------
\* The steps

LEMMA Calm0 == Init => ReentryInv /\ Calm
<1>1. SUFFICES ASSUME Init
               PROVE  ReentryInv /\ Calm
  OBVIOUS
<1>2. list = <<>> /\ stack = <<>> /\ DOMAIN list = {} /\ DOMAIN stack = {}
  BY <1>1 DEF Init
<1>3. TimingOut = {} /\ Telling(stack) = {}
  BY <1>2 DEF TimingOut, Telling
<1>4. IsFiniteSet({}) /\ Cardinality({}) = 0
  BY FS_EmptySet
<1>5. ReentryTypeOK
  <2>1. list \in Seq(Nodes) /\ stack \in Seq(Frame)
    BY <1>2, EmptySeq
  <2>2. space_left \in 0 .. NSTART /\ now \in 0 .. MaxTime
    BY <1>1, ReentryConstants DEF Init
  <2>3. heap \in [Nodes -> {"unused", "allocated", "freed"}]
    BY <1>1 DEF Init
  <2>4. expires \in [Nodes -> Nat] /\ called \in [Nodes -> 0 .. 2]
    BY <1>1 DEF Init
  <2>5. {reentered, fault} \subseteq BOOLEAN
    BY <1>1 DEF Init
  <2> QED
    BY <2>1, <2>2, <2>3, <2>4, <2>5 DEF ReentryTypeOK
<1>6. SlotsBalanced /\ ListIntact
  BY <1>1, <1>2, <1>3, <1>4, ReentryConstants DEF Init, SlotsBalanced, ListIntact
<1>7. Frames(list, heap, stack)
  BY <1>2 DEF Frames
<1>8. Calm
  BY <1>1, <1>2 DEF Init, Calm, Shallow, Current, CalledRight, Listed
<1> QED
  BY <1>3, <1>4, <1>5, <1>6, <1>7, <1>8 DEF ReentryInv, ListConsistent

LEMMA Sets == TimingOut = Telling(stack) /\ TimingOut' = Telling(stack')
  BY DEF TimingOut, Telling

LEMMA TopRight ==
    ASSUME ReentryInv, stack # <<>>
    PROVE  /\ Top = stack[1] /\ Top \in Frame /\ 1 \in DOMAIN stack
           /\ stack \in Seq(Frame) /\ Tail(stack) \in Seq(Frame)
<1>1. stack \in Seq(Frame)
  BY DEF ReentryInv, ListConsistent, ReentryTypeOK
<1>2. Head(stack) = stack[1] /\ Head(stack) \in Frame /\ Tail(stack) \in Seq(Frame)
      /\ Len(stack) \in Nat \ {0} /\ DOMAIN stack = 1 .. Len(stack)
  BY <1>1, Popped, Indexed
<1> QED
  BY <1>1, <1>2 DEF Top

LEMMA OnListed == \A n : OnList(n) <=> Listed(list, n)
  BY DEF OnList, Listed

\* A step that changes neither the list nor what became of the nodes.
LEMMA Still ==
    ASSUME ReentryInv, UNCHANGED <<list, space_left, heap, expires>>,
           now' \in 0 .. MaxTime, stack' \in Seq(Frame),
           called' \in [Nodes -> 0 .. 2], reentered' \in BOOLEAN, fault' \in BOOLEAN,
           Telling(stack') = Telling(stack), Frames(list, heap, stack')
    PROVE  ReentryInv'
<1>1. ReentryTypeOK'
  BY DEF ReentryInv, ListConsistent, ReentryTypeOK
<1>2. SlotsBalanced'
  BY Sets DEF ReentryInv, ListConsistent, SlotsBalanced
<1>3. ListIntact'
  BY DEF ReentryInv, ListConsistent, ListIntact
<1>4. IsFiniteSet(Telling(stack')) /\ Frames(list', heap', stack')
  BY DEF ReentryInv
<1> QED
  BY <1>1, <1>2, <1>3, <1>4 DEF ReentryInv, ListConsistent

LEMMA ScanFrameRight ==
    ASSUME ReentryInv
    PROVE  /\ ScanFrame \in Frame /\ ScanFrame.op = "scan"
           /\ Looks(list, ScanFrame)
<1>1. list \in Seq(Nodes) /\ now \in Nat
  BY DEF ReentryInv, ListConsistent, ReentryTypeOK
<1>2. /\ Len(list) \in Nat /\ DOMAIN list = 1 .. Len(list)
      /\ \A i \in 1 .. Len(list) : list[i] \in Nodes
      /\ list # <<>> => Len(list) # 0
  BY <1>1, Indexed, EmptySeq
<1>3. ScanFrame.t \in Nodes \cup {Null} /\ ScanFrame.nt \in Nodes \cup {Null}
  BY <1>2 DEF ScanFrame
<1>4. ScanFrame \in Frame
  BY <1>1, <1>3 DEF ScanFrame, Frame
<1>5. ScanFrame.t = Null \/ Listed(list, ScanFrame.t)
  BY <1>2 DEF ScanFrame, Listed
<1>6. ScanFrame.nt = Null \/ Listed(list, ScanFrame.nt)
  BY <1>2 DEF ScanFrame, Listed
<1>7. ScanFrame.t # Null => ScanFrame.nt # ScanFrame.t
  <2>1. CASE Len(list) < 2
    BY <2>1 DEF ScanFrame
  <2>2. CASE Len(list) >= 2
    <3>1. list[1] # list[2] /\ list # <<>>
      BY <1>2, <2>2 DEF ReentryInv, ListConsistent, ListIntact
    <3> QED
      BY <1>2, <2>2, <3>1 DEF ScanFrame
  <2> QED
    BY <1>2, <2>1, <2>2
<1> QED
  BY <1>4, <1>5, <1>6, <1>7 DEF Looks, ScanFrame

\* Whoever may call, is no loop.
LEMMA CallerRight ==
    ASSUME ReentryInv, MayCall
    PROVE  NoScan(stack)
<1>1. CASE stack = <<>>
  BY <1>1 DEF NoScan
<1>2. CASE stack # <<>>
  <2>1. Top = stack[1] /\ Top.op # "scan"
    BY <1>2, TopRight, ReentryConstants DEF MayCall
  <2> QED
    BY <2>1 DEF NoScan, ReentryInv, Frames, ScanRight
<1> QED
  BY <1>1, <1>2

LEMMA TriggerStep == ReentryInv /\ CallTrigger => ReentryInv'
<1>1. SUFFICES ASSUME ReentryInv, CallTrigger
               PROVE  ReentryInv'
  OBVIOUS
<1>2. /\ stack \in Seq(Frame) /\ Frames(list, heap, stack) /\ NoScan(stack)
      /\ stack' = <<ScanFrame>> \o stack
  BY <1>1, CallerRight DEF CallTrigger, ReentryInv, ListConsistent, ReentryTypeOK
<1>3. ScanFrame \in Frame /\ Fits(list, heap, stack, ScanFrame)
  BY <1>1, ScanFrameRight DEF Fits
<1>4. /\ stack' \in Seq(Frame) /\ Frames(list, heap, stack')
      /\ Telling(stack') = Telling(stack)
  BY <1>2, <1>3, PushKeeps, Pushed
<1>5. /\ UNCHANGED <<list, space_left, heap, expires>>
      /\ now' \in 0 .. MaxTime /\ called' \in [Nodes -> 0 .. 2]
      /\ reentered' \in BOOLEAN /\ fault' \in BOOLEAN
  BY <1>1 DEF CallTrigger, ReentryInv, ListConsistent, ReentryTypeOK
<1> QED
  BY <1>1, <1>4, <1>5, Still

LEMMA CallStep ==
    ASSUME ReentryInv, NEW n \in Nodes, CallSend(n) \/ CallReceive(n)
    PROVE  ReentryInv'
<1> DEFINE g == [op |-> IF CallSend(n) THEN "put" ELSE "get", t |-> n, nt |-> Null, now |-> now]
           s == <<g>> \o stack
<1>1. /\ stack \in Seq(Frame) /\ Frames(list, heap, stack) /\ NoScan(stack) /\ now \in Nat
  BY CallerRight DEF CallSend, CallReceive, CallThenScan, ReentryInv, ListConsistent, ReentryTypeOK
<1>2. g \in Frame
  BY <1>1 DEF Frame
<1>3. Fits(list, heap, stack, g)
  <2>1. CASE CallSend(n)
    <3>1. \A j \in DOMAIN stack : stack[j].op = "put" => stack[j].t # n
      BY <2>1 DEF CallSend
    <3> QED
      BY <2>1, <3>1 DEF Fits, CallSend
  <2>2. CASE ~ CallSend(n)
    BY <2>2 DEF Fits
  <2> QED
    BY <2>1, <2>2
<1>4. g.op \in {"get", "put"}
  OBVIOUS
<1>5. stack' = <<ScanFrame, g>> \o stack
  BY DEF CallSend, CallReceive, CallThenScan
<1>6. ScanFrame \in Frame /\ ScanFrame.op = "scan" /\ Looks(list, ScanFrame)
  BY ScanFrameRight
<1> HIDE DEF g
<1>7. /\ s \in Seq(Frame) /\ Frames(list, heap, s) /\ Telling(s) = Telling(stack)
  BY <1>1, <1>2, <1>3, PushKeeps, Pushed
<1>8. NoScan(s)
  <2>1. /\ s[1] = g /\ Len(s) = Len(stack) + 1 /\ DOMAIN s = 1 .. Len(s)
        /\ DOMAIN stack = 1 .. Len(stack) /\ Len(stack) \in Nat
        /\ \A i \in 2 .. Len(stack) + 1 : s[i] = stack[i - 1]
    BY <1>1, <1>2, <1>7, Pushed, Indexed
  <2>2. \A i \in DOMAIN s : i = 1 \/ (i - 1 \in DOMAIN stack /\ s[i] = stack[i - 1])
    BY <2>1
  <2> QED
    BY <1>1, <1>4, <2>1, <2>2 DEF NoScan
<1>9. stack' = <<ScanFrame>> \o s
  <2>1. <<ScanFrame>> \in Seq(Frame) /\ <<g>> \in Seq(Frame)
    BY <1>2, <1>6, Single
  <2>2. <<ScanFrame>> \o <<g>> = <<ScanFrame, g>>
    BY <1>2, <1>6, Pair
  <2>3. (<<ScanFrame>> \o <<g>>) \o stack = <<ScanFrame>> \o (<<g>> \o stack)
    BY <1>1, <2>1, ConcatAssociative
  <2> QED
    BY <1>5, <2>2, <2>3
<1> HIDE DEF s
<1>10. Fits(list, heap, s, ScanFrame)
  BY <1>6 DEF Fits
<1>11. /\ stack' \in Seq(Frame) /\ Frames(list, heap, stack')
       /\ Telling(stack') = Telling(stack)
  BY <1>6, <1>7, <1>8, <1>9, <1>10, PushKeeps, Pushed
<1>12. /\ UNCHANGED <<list, space_left, heap, expires>>
       /\ now' \in 0 .. MaxTime /\ called' \in [Nodes -> 0 .. 2]
       /\ reentered' \in BOOLEAN /\ fault' \in BOOLEAN
  BY DEF CallSend, CallReceive, CallThenScan, ReentryInv, ListConsistent, ReentryTypeOK
<1> QED
  BY <1>11, <1>12, Still

\* A frame that is left, and its node not called back or freed.
LEMMA LeaveStep ==
    ASSUME ReentryInv, stack # <<>>, ScanEnd \/ GetMisses \/ PutRefused
    PROVE  ReentryInv'
<1>1. /\ Top = stack[1] /\ stack \in Seq(Frame) /\ Tail(stack) \in Seq(Frame)
      /\ Frames(list, heap, stack)
  BY TopRight DEF ReentryInv
<1>2. stack' = Tail(stack) /\ Top.op # "Timeout"
  BY DEF ScanEnd, GetMisses, PutRefused
<1>3. /\ stack' \in Seq(Frame) /\ Frames(list, heap, stack')
      /\ Telling(stack') = Telling(stack)
  BY <1>1, <1>2, PopKeeps
<1>4. /\ UNCHANGED <<list, space_left, heap, expires>>
      /\ now' \in 0 .. MaxTime /\ called' \in [Nodes -> 0 .. 2]
      /\ reentered' \in BOOLEAN /\ fault' \in BOOLEAN
  BY DEF ScanEnd, GetMisses, PutRefused, ReentryInv, ListConsistent, ReentryTypeOK
<1> QED
  BY <1>3, <1>4, Still

\* The saved successor of a loop that goes on is on the list, and so is its own.
LEMMA AdvancedRight ==
    ASSUME ReentryInv, NEW f \in Frame, f.nt = Null \/ Listed(list, f.nt)
    PROVE  /\ Advanced(f) \in Frame /\ Advanced(f).op = "scan"
           /\ Looks(list, Advanced(f))
<1> DEFINE k == IF f.nt = Null THEN Null ELSE NextOf(f.nt)
<1>1. k = Null \/ (Listed(list, k) /\ k # f.nt)
  BY NextRight, OnListed DEF ReentryInv, ListConsistent
<1>2. k \in Nodes \cup {Null}
  BY <1>1, Indexed DEF Listed, ReentryInv, ListConsistent, ReentryTypeOK
<1>3. Advanced(f) = [f EXCEPT !.op = "scan", !.t = f.nt, !.nt = k]
  BY DEF Advanced
<1> HIDE DEF k
<1>4. /\ Advanced(f) \in Frame
      /\ Advanced(f).op = "scan" /\ Advanced(f).t = f.nt /\ Advanced(f).nt = k
  BY <1>2, <1>3 DEF Frame
<1>5. f.nt # Null => k # f.nt
  BY <1>1
<1> QED
  BY <1>1, <1>4, <1>5 DEF Looks

LEMMA KeepStep ==
    ASSUME ReentryInv, stack # <<>>, ScanKeep
    PROVE  ReentryInv'
<1>1. /\ Top = stack[1] /\ Top \in Frame /\ 1 \in DOMAIN stack
      /\ stack \in Seq(Frame) /\ Tail(stack) \in Seq(Frame)
      /\ Frames(list, heap, stack)
  BY TopRight DEF ReentryInv
<1>2. stack' = <<Advanced(Top)>> \o Tail(stack) /\ Top.op = "scan"
  BY DEF ScanKeep
<1>3. Top.nt = Null \/ Listed(list, Top.nt)
  BY <1>1, <1>2 DEF Frames, ScanRight, Looks
<1>4. Advanced(Top) \in Frame /\ Advanced(Top).op = "scan" /\ Looks(list, Advanced(Top))
  BY <1>1, <1>3, AdvancedRight
<1>5. /\ Frames(list, heap, Tail(stack)) /\ NoScan(Tail(stack))
      /\ Telling(Tail(stack)) = Telling(stack)
  BY <1>1, <1>2, PopKeeps
<1>6. Fits(list, heap, Tail(stack), Advanced(Top))
  BY <1>4 DEF Fits
<1>7. /\ stack' \in Seq(Frame) /\ Frames(list, heap, stack')
      /\ Telling(stack') = Telling(stack)
  BY <1>1, <1>2, <1>4, <1>5, <1>6, PushKeeps, Pushed
<1>8. /\ UNCHANGED <<list, space_left, heap, expires>>
      /\ now' \in 0 .. MaxTime /\ called' \in [Nodes -> 0 .. 2]
      /\ reentered' \in BOOLEAN /\ fault' \in BOOLEAN
  BY DEF ScanKeep, ReentryInv, ListConsistent, ReentryTypeOK
<1> QED
  BY <1>7, <1>8, Still

LEMMA CalledType ==
    ASSUME ReentryInv, NEW n \in Nodes
    PROVE  /\ CalledAgain(n) \in [Nodes -> 0 .. 2]
           /\ \A m \in Nodes : m # n => CalledAgain(n)[m] = called[m]
           /\ called[n] = 0 => CalledAgain(n)[n] = 1
  BY DEF CalledAgain, ReentryInv, ListConsistent, ReentryTypeOK

LEMMA FindStep ==
    ASSUME ReentryInv, stack # <<>>, GetFinds
    PROVE  ReentryInv'
<1> DEFINE f == [Top EXCEPT !.op = "ACK"]
<1>1. /\ Top = stack[1] /\ Top \in Frame /\ 1 \in DOMAIN stack
      /\ stack \in Seq(Frame) /\ Tail(stack) \in Seq(Frame)
      /\ Frames(list, heap, stack)
  BY TopRight DEF ReentryInv
<1>2. stack' = <<f>> \o Tail(stack) /\ Top.op = "get" /\ Listed(list, Top.t)
  BY OnListed DEF GetFinds
<1>3. Top.t \in Nodes
  BY <1>1, <1>2 DEF Frames
<1>4. f \in Frame /\ f.op = "ACK" /\ f.t = Top.t
  BY <1>1 DEF Frame
<1> HIDE DEF f
<1>5. /\ Frames(list, heap, Tail(stack)) /\ NoScan(Tail(stack))
      /\ Telling(Tail(stack)) = Telling(stack)
  BY <1>1, <1>2, PopKeeps
<1>6. Fits(list, heap, Tail(stack), f)
  BY <1>2, <1>3, <1>4 DEF Fits
<1>7. /\ stack' \in Seq(Frame) /\ Frames(list, heap, stack')
      /\ Telling(stack') = Telling(stack)
  BY <1>1, <1>2, <1>4, <1>5, <1>6, PushKeeps, Pushed
<1>8. /\ UNCHANGED <<list, space_left, heap, expires>>
      /\ now' \in 0 .. MaxTime /\ called' \in [Nodes -> 0 .. 2]
      /\ reentered' \in BOOLEAN /\ fault' \in BOOLEAN
  BY <1>3, CalledType DEF GetFinds, ReentryInv, ListConsistent, ReentryTypeOK
<1> QED
  BY <1>7, <1>8, Still

\* A step that moves a node: the slots still have to add up.
LEMMA Moved ==
    ASSUME ReentryInv,
           list' \in Seq(Nodes), heap' \in [Nodes -> {"unused", "allocated", "freed"}],
           expires' \in [Nodes -> Nat], UNCHANGED <<now, reentered, fault>>,
           stack' \in Seq(Frame), called' \in [Nodes -> 0 .. 2],
           ListIntact', Frames(list', heap', stack'), IsFiniteSet(Telling(stack')),
           NEW p \in Nat, p = space_left', NEW m \in Nat, m = Len(list'),
           NEW c \in Nat, c = Cardinality(Telling(stack')), p + m + c = NSTART
    PROVE  ReentryInv'
<1>1. space_left' \in 0 .. NSTART
  BY ReentryConstants
<1>2. ReentryTypeOK'
  BY <1>1 DEF ReentryInv, ListConsistent, ReentryTypeOK
<1>3. SlotsBalanced'
  BY Sets DEF SlotsBalanced
<1> QED
  BY <1>2, <1>3 DEF ReentryInv, ListConsistent

\* The numbers that SlotsBalanced adds up.
LEMMA Numbers ==
    ASSUME ReentryInv
    PROVE  /\ space_left \in Nat /\ Len(list) \in Nat
           /\ IsFiniteSet(Telling(stack)) /\ Cardinality(Telling(stack)) \in Nat
           /\ space_left + Len(list) + Cardinality(Telling(stack)) = NSTART
<1>1. space_left \in Nat /\ list \in Seq(Nodes)
  BY ReentryConstants DEF ReentryInv, ListConsistent, ReentryTypeOK
<1>2. IsFiniteSet(Telling(stack)) /\ Cardinality(Telling(stack)) \in Nat
  BY FS_CardinalityType DEF ReentryInv
<1>3. space_left + Len(list) + Cardinality(Telling(stack)) = NSTART
  BY Sets DEF ReentryInv, ListConsistent, SlotsBalanced
<1> QED
  BY <1>1, <1>2, <1>3, LenProperties

LEMMA UseStep ==
    ASSUME ReentryInv, UseAfterFree
    PROVE  ReentryInv'
<1>1. /\ UNCHANGED <<list, space_left, heap, expires>>
      /\ now' \in 0 .. MaxTime /\ stack' \in Seq(Frame)
      /\ called' \in [Nodes -> 0 .. 2] /\ reentered' \in BOOLEAN /\ fault' \in BOOLEAN
  BY DEF UseAfterFree, ReentryInv, ListConsistent, ReentryTypeOK
<1>2. Telling(stack') = Telling(stack) /\ Frames(list, heap, stack')
  BY DEF UseAfterFree, ReentryInv
<1> QED
  BY <1>1, <1>2, Still

LEMMA ListedNode ==
    ASSUME ReentryInv, NEW n, Listed(list, n)
    PROVE  n \in Nodes /\ n # Null /\ heap[n] = "allocated"
  BY Indexed, ReentryConstants DEF Listed, ReentryInv, ListConsistent, ReentryTypeOK, ListIntact

\* What is left of the list.
LEMMA RestRight ==
    ASSUME ReentryInv, NEW n, Listed(list, n)
    PROVE  /\ Without(n) \in Seq(Nodes)
           /\ Len(Without(n)) = Len(list) - 1 /\ Len(list) \in Nat \ {0}
           /\ \A m : Listed(Without(n), m) <=> Listed(list, m) /\ m # n
           /\ \A i, j \in DOMAIN Without(n) : Without(n)[i] = Without(n)[j] => i = j
<1>1. OnList(n)
  BY OnListed
<1>2. /\ Without(n) \in Seq(Nodes)
      /\ Len(Without(n)) = Len(list) - 1 /\ Len(list) \in Nat \ {0}
      /\ \A i \in DOMAIN Without(n) : OnList(Without(n)[i]) /\ Without(n)[i] # n
      /\ \A m : OnList(m) /\ m # n => \E i \in DOMAIN Without(n) : Without(n)[i] = m
      /\ \A i, j \in DOMAIN Without(n) : Without(n)[i] = Without(n)[j] => i = j
  BY <1>1, WithoutRight DEF ReentryInv, ListConsistent
<1> QED
  BY <1>2, OnListed DEF Listed

LEMMA TimeoutStep ==
    ASSUME ReentryInv, stack # <<>>, ScanTimeout
    PROVE  ReentryInv'
<1> DEFINE f == [Top EXCEPT !.op = "Timeout"]
           n == Top.t
<1>1. /\ Top = stack[1] /\ Top \in Frame /\ 1 \in DOMAIN stack
      /\ stack \in Seq(Frame) /\ Tail(stack) \in Seq(Frame)
      /\ Frames(list, heap, stack)
  BY TopRight DEF ReentryInv
<1>2. /\ stack' = <<f>> \o Tail(stack) /\ Top.op = "scan" /\ n # Null
      /\ list' = Without(n) /\ called' = CalledAgain(n)
      /\ UNCHANGED <<space_left, heap, expires, now, reentered, fault>>
  BY DEF ScanTimeout
<1>3. Looks(list, Top)
  BY <1>1, <1>2 DEF Frames, ScanRight
<1>4. Listed(list, n) /\ n \in Nodes /\ heap[n] = "allocated"
  BY <1>2, <1>3, ListedNode DEF Looks
<1>5. f \in Frame /\ f.op = "Timeout" /\ f.t = n /\ f.nt = Top.nt
  BY <1>1 DEF Frame
<1>6. f.nt = Null \/ (Listed(list, f.nt) /\ f.nt # f.t)
  BY <1>2, <1>3, <1>5 DEF Looks
<1> HIDE DEF f, n
<1>7. /\ list' \in Seq(Nodes)
      /\ Len(list') = Len(list) - 1 /\ Len(list) \in Nat \ {0}
      /\ \A m : Listed(list', m) <=> Listed(list, m) /\ m # n
      /\ \A i, j \in DOMAIN list' : list'[i] = list'[j] => i = j
  BY <1>2, <1>4, RestRight
<1>8. /\ Frames(list, heap, Tail(stack)) /\ NoScan(Tail(stack))
      /\ Telling(Tail(stack)) = Telling(stack)
  BY <1>1, <1>2, PopKeeps
<1>9. /\ Frames(list', heap, <<f>> \o Tail(stack))
      /\ Telling(<<f>> \o Tail(stack)) = Telling(stack) \cup {n}
      /\ n \notin Telling(stack)
  <2> DEFINE k == list'
  <2>1. \A m : Listed(k, m) <=> Listed(list, m) /\ m # f.t
    BY <1>5, <1>7
  <2> HIDE DEF k
  <2>2. /\ Frames(k, heap, <<f>> \o Tail(stack))
        /\ Telling(<<f>> \o Tail(stack)) = Telling(Tail(stack)) \cup {f.t}
        /\ f.t \notin Telling(Tail(stack))
    BY <1>1, <1>4, <1>5, <1>6, <1>8, <2>1, PushTimeoutKeeps
  <2> QED
    BY <1>5, <1>8, <2>2 DEF k
<1>10. Frames(list', heap', stack') /\ Telling(stack') = Telling(stack) \cup {n}
  BY <1>2, <1>9
<1>11. stack' \in Seq(Frame)
  BY <1>1, <1>2, <1>5, Pushed
<1>12. ListIntact'
  <2>1. \A i \in DOMAIN list' : heap'[list'[i]] = "allocated"
    BY <1>2, <1>7, ListedNode DEF Listed
  <2> QED
    BY <1>7, <2>1 DEF ListIntact
<1>13. /\ IsFiniteSet(Telling(stack'))
       /\ Cardinality(Telling(stack')) = Cardinality(Telling(stack)) + 1
  BY <1>9, <1>10, Numbers, FS_AddElement
<1>14. /\ heap' \in [Nodes -> {"unused", "allocated", "freed"}] /\ expires' \in [Nodes -> Nat]
       /\ called' \in [Nodes -> 0 .. 2]
  BY <1>2, <1>4, CalledType DEF ReentryInv, ListConsistent, ReentryTypeOK
<1>15. PICK p \in Nat, m \in Nat, c \in Nat :
         p = space_left' /\ m = Len(list') /\ c = Cardinality(Telling(stack'))
  BY <1>2, <1>7, <1>13, Numbers
<1>16. p + m + c = NSTART
  BY <1>2, <1>7, <1>13, <1>15, Numbers
<1> QED
  BY <1>2, <1>7, <1>10, <1>11, <1>12, <1>13, <1>14, <1>15, <1>16, Moved

LEMMA ReturnStep ==
    ASSUME ReentryInv, stack # <<>>, TimeoutReturns
    PROVE  ReentryInv'
<1> DEFINE n == Top.t
           f == Advanced(Top)
           g == [heap EXCEPT ![n] = "freed"]
<1>1. /\ Top = stack[1] /\ Top \in Frame /\ 1 \in DOMAIN stack
      /\ stack \in Seq(Frame) /\ Tail(stack) \in Seq(Frame)
      /\ Frames(list, heap, stack) /\ Top.op = "Timeout"
  BY TopRight DEF ReentryInv, TimeoutReturns
<1>2. CASE Dangling(Top)
  BY <1>2, UseStep DEF TimeoutReturns
<1>3. CASE ~ Dangling(Top)
  <2>1. /\ heap' = g /\ space_left' = space_left + 1 /\ stack' = <<f>> \o Tail(stack)
        /\ UNCHANGED <<list, expires, now, called, reentered, fault>>
    BY <1>3 DEF TimeoutReturns
  <2>2. n \in Nodes /\ Saved(list, heap, stack, 1, Top.nt)
    BY <1>1 DEF Frames, TimeoutRight
  <2>3. DOMAIN stack = 1 .. Len(stack)
    BY <1>1, Indexed
  <2>4. Top.nt = Null \/ Listed(list, Top.nt)
    BY <1>3, <2>2, <2>3 DEF Saved, Dangling
  <2>5. f \in Frame /\ f.op = "scan" /\ Looks(list, f)
    BY <1>1, <2>4, AdvancedRight
  <2>6. /\ n \in Telling(stack) /\ ~ Listed(list, n)
        /\ Frames(list, g, Tail(stack))
        /\ Telling(Tail(stack)) = Telling(stack) \ {n}
        /\ NoScan(Tail(stack))
    <3>1. DOMAIN heap = Nodes
      BY DEF ReentryInv, ListConsistent, ReentryTypeOK
    <3> QED
      BY <1>1, <3>1, PopFreesKeeps
  <2>7. /\ g \in [Nodes -> {"unused", "allocated", "freed"}]
        /\ \A m \in Nodes : m # n => g[m] = heap[m]
    BY <2>2 DEF ReentryInv, ListConsistent, ReentryTypeOK
  <2> HIDE DEF f, g, n
  <2>8. Fits(list, g, Tail(stack), f)
    BY <2>5 DEF Fits
  <2>9. /\ stack' \in Seq(Frame) /\ Frames(list, g, stack')
        /\ Telling(stack') = Telling(stack) \ {n}
    <3>1. <<f>> \o Tail(stack) \in Seq(Frame)
      BY <1>1, <2>5, Pushed
    <3>2. /\ Frames(list, g, <<f>> \o Tail(stack))
          /\ Telling(<<f>> \o Tail(stack)) = Telling(Tail(stack))
      <4>1. /\ Tail(stack) \in Seq(Frame) /\ f \in Frame
            /\ Frames(list, g, Tail(stack)) /\ NoScan(Tail(stack))
        BY <1>1, <2>5, <2>6
      <4> QED
        BY <2>8, <4>1, PushKeeps
    <3>3. stack' = <<f>> \o Tail(stack)
      BY <2>1
    <3>4. Telling(<<f>> \o Tail(stack)) = Telling(stack) \ {n}
      BY <2>6, <3>2
    <3> QED
      BY <3>1, <3>2, <3>3, <3>4
  <2>10. ListIntact'
    <3>1. \A i \in DOMAIN list : heap[list[i]] = "allocated" /\ list[i] \in Nodes /\ list[i] # n
      BY <2>6, ListedNode DEF Listed
    <3>2. \A i \in DOMAIN list : g[list[i]] = "allocated"
      BY <2>7, <3>1
    <3> QED
      BY <2>1, <3>2 DEF ListIntact, ReentryInv, ListConsistent
  <2>11. /\ IsFiniteSet(Telling(stack'))
         /\ Cardinality(Telling(stack')) = Cardinality(Telling(stack)) - 1
    BY <2>6, <2>9, Numbers, FS_RemoveElement
  <2>12. Cardinality(Telling(stack')) \in Nat
    BY <2>11, FS_CardinalityType
  <2>13. PICK p \in Nat, m \in Nat, c \in Nat :
           p = space_left' /\ m = Len(list') /\ c = Cardinality(Telling(stack'))
    BY <2>1, <2>12, Numbers
  <2>14. p + m + c = NSTART
    <3>1. p = space_left + 1 /\ m = Len(list) /\ c = Cardinality(Telling(stack)) - 1
      BY <2>1, <2>11, <2>13
    <3> QED
      BY <3>1, Numbers
  <2>15. /\ list' \in Seq(Nodes) /\ expires' \in [Nodes -> Nat] /\ called' \in [Nodes -> 0 .. 2]
    BY <2>1 DEF ReentryInv, ListConsistent, ReentryTypeOK
  <2> QED
    BY <2>1, <2>7, <2>9, <2>10, <2>11, <2>13, <2>14, <2>15, Moved
<1> QED
  BY <1>2, <1>3

LEMMA AckStep ==
    ASSUME ReentryInv, stack # <<>>, AckReturns
    PROVE  ReentryInv'
<1> DEFINE n == Top.t
           g == [heap EXCEPT ![n] = "freed"]
<1>1. /\ Top = stack[1] /\ Top \in Frame /\ 1 \in DOMAIN stack
      /\ stack \in Seq(Frame) /\ Tail(stack) \in Seq(Frame)
      /\ Frames(list, heap, stack) /\ Top.op = "ACK"
  BY TopRight DEF ReentryInv, AckReturns
<1>2. CASE heap[n] = "freed"
  BY <1>2, UseStep DEF AckReturns
<1>3. CASE heap[n] # "freed"
  <2>1. /\ heap' = g /\ space_left' = space_left + 1 /\ stack' = Tail(stack)
        /\ list' = Without(n)
        /\ UNCHANGED <<expires, now, called, reentered, fault>>
    BY <1>3 DEF AckReturns
  <2>2. n \in Nodes /\ Saved(list, heap, stack, 1, n)
    BY <1>1 DEF Frames, AckRight
  <2>3. DOMAIN stack = 1 .. Len(stack)
    BY <1>1, Indexed
  <2>4. Listed(list, n)
    BY <1>3, <2>2, <2>3, ReentryConstants DEF Saved
  <2>5. heap[n] = "allocated"
    BY <2>4, ListedNode
  <2>6. /\ g \in [Nodes -> {"unused", "allocated", "freed"}]
        /\ g[n] = "freed" /\ \A m \in Nodes : m # n => g[m] = heap[m]
    BY <2>2 DEF ReentryInv, ListConsistent, ReentryTypeOK
  <2> HIDE DEF g, n
  <2>7. /\ list' \in Seq(Nodes)
        /\ Len(list') = Len(list) - 1 /\ Len(list) \in Nat \ {0}
        /\ \A m : Listed(list', m) <=> Listed(list, m) /\ m # n
        /\ \A i, j \in DOMAIN list' : list'[i] = list'[j] => i = j
    BY <2>1, <2>4, RestRight
  <2>8. /\ Frames(list, heap, Tail(stack)) /\ NoScan(Tail(stack))
        /\ Telling(Tail(stack)) = Telling(stack)
    BY <1>1, PopKeeps
  <2>9. Frames(list', g, Tail(stack))
    <3> DEFINE k == list'
               s == Tail(stack)
    <3>1. \A m : Listed(list, m) => Listed(k, m) \/ (m \in Nodes /\ g[m] = "freed")
      BY <2>2, <2>6, <2>7
    <3>2. \A m \in Nodes : heap[m] = "freed" => g[m] = "freed"
      BY <2>6
    <3>3. \A j \in DOMAIN s : s[j].op = "Timeout" =>
                                 ~ Listed(k, s[j].t) /\ g[s[j].t] = heap[s[j].t]
      BY <2>4, <2>6, <2>7, <2>8 DEF Frames, TimeoutRight
    <3>4. \A j \in DOMAIN s : s[j].op = "put" => g[s[j].t] = heap[s[j].t]
      BY <2>5, <2>6, <2>8 DEF Frames, PutRight
    <3> HIDE DEF k, s
    <3>5. Frames(list, heap, s) /\ NoScan(s)
      BY <2>8 DEF s
    <3>6. Frames(k, g, s)
      BY <3>1, <3>2, <3>3, <3>4, <3>5, ChangeKeeps
    <3> QED
      BY <3>6 DEF k, s
  <2>10. ListIntact'
    <3>1. \A i \in DOMAIN list' : Listed(list, list'[i]) /\ list'[i] # n
      BY <2>7 DEF Listed
    <3>2. \A i \in DOMAIN list' : g[list'[i]] = "allocated"
      BY <2>6, <3>1, ListedNode
    <3> QED
      BY <2>1, <2>7, <3>2 DEF ListIntact
  <2>11. PICK p \in Nat, m \in Nat, c \in Nat :
           p = space_left' /\ m = Len(list') /\ c = Cardinality(Telling(stack'))
    BY <2>1, <2>7, <2>8, Numbers
  <2>12. p + m + c = NSTART
    BY <2>1, <2>7, <2>8, <2>11, Numbers
  <2>13. expires' \in [Nodes -> Nat] /\ called' \in [Nodes -> 0 .. 2]
    BY <2>1 DEF ReentryInv, ListConsistent, ReentryTypeOK
  <2>14. /\ IsFiniteSet(Telling(stack')) /\ Frames(list', heap', stack')
         /\ stack' \in Seq(Frame) /\ heap' \in [Nodes -> {"unused", "allocated", "freed"}]
    BY <1>1, <2>1, <2>6, <2>8, <2>9, Numbers
  <2> QED
    BY <2>1, <2>7, <2>10, <2>11, <2>12, <2>13, <2>14, Moved
<1> QED
  BY <1>2, <1>3

\* A node is added at the end of the list.
LEMMA AppendedRight ==
    ASSUME NEW l \in Seq(Nodes), NEW n \in Nodes
    PROVE  /\ Append(l, n) \in Seq(Nodes) /\ Len(Append(l, n)) = Len(l) + 1
           /\ \A m : Listed(Append(l, n), m) <=> Listed(l, m) \/ m = n
           /\ (\A i, j \in DOMAIN l : l[i] = l[j] => i = j) /\ ~ Listed(l, n) =>
                \A i, j \in DOMAIN Append(l, n) : Append(l, n)[i] = Append(l, n)[j] => i = j
<1> DEFINE k == Append(l, n)
<1>1. /\ k \in Seq(Nodes) /\ Len(k) = Len(l) + 1 /\ Len(l) \in Nat
      /\ \A i \in 1 .. Len(l) : k[i] = l[i]
      /\ k[Len(l) + 1] = n
  BY AppendProperties, LenProperties
<1> HIDE DEF k
<1>2. DOMAIN l = 1 .. Len(l) /\ DOMAIN k = 1 .. Len(l) + 1
  BY <1>1, Indexed
<1>3. \A m : Listed(k, m) <=> Listed(l, m) \/ m = n
  <2>1. \A i \in DOMAIN k : (i \in DOMAIN l /\ k[i] = l[i]) \/ (i = Len(l) + 1 /\ k[i] = n)
    BY <1>1, <1>2
  <2>2. \A i \in DOMAIN l : i \in DOMAIN k /\ k[i] = l[i]
    BY <1>1, <1>2
  <2>3. Len(l) + 1 \in DOMAIN k
    BY <1>1, <1>2
  <2> QED
    BY <1>1, <2>1, <2>2, <2>3 DEF Listed
<1>4. ASSUME \A i, j \in DOMAIN l : l[i] = l[j] => i = j, ~ Listed(l, n),
             NEW i \in DOMAIN k, NEW j \in DOMAIN k, k[i] = k[j]
      PROVE  i = j
  <2>1. \A x \in DOMAIN k : (x \in DOMAIN l /\ k[x] = l[x]) \/ (x = Len(l) + 1 /\ k[x] = n)
    BY <1>1, <1>2
  <2> QED
    BY <1>4, <2>1 DEF Listed
<1> QED
  BY <1>1, <1>3, <1>4 DEF k

LEMMA SaveStep ==
    ASSUME ReentryInv, stack # <<>>, NEW life \in Life, PutSaves(life)
    PROVE  ReentryInv'
<1> DEFINE n == Top.t
           g == [heap EXCEPT ![n] = "allocated"]
<1>1. /\ Top = stack[1] /\ Top \in Frame /\ 1 \in DOMAIN stack
      /\ stack \in Seq(Frame) /\ Tail(stack) \in Seq(Frame)
      /\ Frames(list, heap, stack) /\ Top.op = "put"
  BY TopRight DEF ReentryInv, PutSaves
<1>2. /\ heap' = g /\ space_left # 0 /\ space_left' = space_left - 1 /\ stack' = Tail(stack)
      /\ list' = Append(list, n) /\ expires' = [expires EXCEPT ![n] = now + life]
      /\ UNCHANGED <<now, called, reentered, fault>>
  BY DEF PutSaves
<1>3. n \in Nodes /\ heap[n] = "unused"
  BY <1>1 DEF Frames, PutRight
<1>4. ~ Listed(list, n)
  BY <1>3, ListedNode
<1>5. /\ g \in [Nodes -> {"unused", "allocated", "freed"}]
      /\ g[n] = "allocated" /\ \A m \in Nodes : m # n => g[m] = heap[m]
  BY <1>3 DEF ReentryInv, ListConsistent, ReentryTypeOK
<1>6. \A j \in DOMAIN Tail(stack) : Tail(stack)[j].op = "put" => Tail(stack)[j].t # n
  BY <1>1, OthersSend
<1> HIDE DEF g, n
<1>7. /\ list' \in Seq(Nodes) /\ Len(list') = Len(list) + 1
      /\ \A m : Listed(list', m) <=> Listed(list, m) \/ m = n
      /\ \A i, j \in DOMAIN list' : list'[i] = list'[j] => i = j
  BY <1>2, <1>3, <1>4, AppendedRight DEF ReentryInv, ListConsistent, ReentryTypeOK, ListIntact
<1>8. /\ Frames(list, heap, Tail(stack)) /\ NoScan(Tail(stack))
      /\ Telling(Tail(stack)) = Telling(stack)
  BY <1>1, PopKeeps
<1>9. Frames(list', g, Tail(stack))
  <2> DEFINE k == list'
             s == Tail(stack)
  <2>1. \A m : Listed(list, m) => Listed(k, m) \/ (m \in Nodes /\ g[m] = "freed")
    BY <1>7
  <2>2. \A m \in Nodes : heap[m] = "freed" => g[m] = "freed"
    BY <1>3, <1>5
  <2>3. \A j \in DOMAIN s : s[j].op = "Timeout" =>
                               ~ Listed(k, s[j].t) /\ g[s[j].t] = heap[s[j].t]
    BY <1>3, <1>5, <1>7, <1>8 DEF Frames, TimeoutRight
  <2>4. \A j \in DOMAIN s : s[j].op = "put" => g[s[j].t] = heap[s[j].t]
    BY <1>5, <1>6, <1>8 DEF Frames, PutRight
  <2> HIDE DEF k, s
  <2>5. Frames(list, heap, s) /\ NoScan(s)
    BY <1>8 DEF s
  <2>6. Frames(k, g, s)
    BY <2>1, <2>2, <2>3, <2>4, <2>5, ChangeKeeps
  <2> QED
    BY <2>6 DEF k, s
<1>10. ListIntact'
  <2>1. \A i \in DOMAIN list' : g[list'[i]] = "allocated"
    BY <1>5, <1>7, ListedNode DEF Listed
  <2> QED
    BY <1>2, <1>7, <2>1 DEF ListIntact
<1>11. PICK p \in Nat, m \in Nat, c \in Nat :
         p = space_left' /\ m = Len(list') /\ c = Cardinality(Telling(stack'))
  BY <1>2, <1>7, <1>8, Numbers
<1>12. p + m + c = NSTART
  BY <1>2, <1>7, <1>8, <1>11, Numbers
<1>13. expires' \in [Nodes -> Nat] /\ called' \in [Nodes -> 0 .. 2]
  <2>1. now \in Nat /\ life \in Nat
    BY ReentryConstants DEF ReentryInv, ListConsistent, ReentryTypeOK
  <2>2. now + life \in Nat
    BY <2>1
  <2> QED
    BY <1>2, <2>2 DEF ReentryInv, ListConsistent, ReentryTypeOK
<1>14. /\ IsFiniteSet(Telling(stack')) /\ Frames(list', heap', stack')
       /\ stack' \in Seq(Frame) /\ heap' \in [Nodes -> {"unused", "allocated", "freed"}]
  BY <1>1, <1>2, <1>5, <1>8, <1>9, Numbers
<1> QED
  BY <1>2, <1>7, <1>10, <1>11, <1>12, <1>13, <1>14, Moved

LEMMA TickStep ==
    ASSUME ReentryInv, Tick \/ UNCHANGED vars
    PROVE  ReentryInv'
<1>1. /\ UNCHANGED <<list, space_left, heap, expires>> /\ stack' \in Seq(Frame)
      /\ called' \in [Nodes -> 0 .. 2] /\ reentered' \in BOOLEAN /\ fault' \in BOOLEAN
      /\ stack' = stack
  BY DEF Tick, vars, ReentryInv, ListConsistent, ReentryTypeOK
<1>2. now' \in 0 .. MaxTime
  BY ReentryConstants DEF Tick, vars, ReentryInv, ListConsistent, ReentryTypeOK
<1>3. Telling(stack') = Telling(stack) /\ Frames(list, heap, stack')
  BY <1>1 DEF ReentryInv
<1> QED
  BY <1>1, <1>2, <1>3, Still

LEMMA NextKeeps == ReentryInv /\ [Next]_vars => ReentryInv'
<1>1. SUFFICES ASSUME ReentryInv, [Next]_vars
               PROVE  ReentryInv'
  OBVIOUS
<1>2. CASE Call
  BY <1>1, <1>2, TriggerStep, CallStep DEF Call
<1>3. CASE Return
  BY <1>1, <1>3, LeaveStep, KeepStep, TimeoutStep, ReturnStep, FindStep, AckStep, SaveStep DEF Return
<1>4. CASE Tick \/ UNCHANGED vars
  BY <1>1, <1>4, TickStep
<1> QED
  BY <1>1, <1>2, <1>3, <1>4 DEF Next

-----------------------------------------------------------------------------
\* While no callback uses the SDK

\* The call stack is short: a call, or a loop, or a loop inside a call.
LEMMA ShortStack ==
    ASSUME NEW s \in Seq(Frame), s # <<>>, Shallow(s)
    PROVE  /\ Len(s) \in {1, 2} /\ DOMAIN s = 1 .. Len(s)
           /\ Len(s) = 2 => s[1].op \in {"scan", "Timeout"} /\ s[2].op \in {"get", "put"}
<1>1. Len(s) \in Nat \ {0} /\ DOMAIN s = 1 .. Len(s)
  BY EmptySeq, Indexed
<1>2. ASSUME Len(s) > 2
      PROVE  FALSE
  <2>1. 2 \in DOMAIN s /\ 2 < Len(s)
    BY <1>1, <1>2
  <2>2. s[2].op \in {"scan", "Timeout"} /\ s[2].op \in {"get", "put"}
    BY <2>1 DEF Shallow
  <2> QED
    BY <2>2
<1>3. Len(s) \in {1, 2}
  BY <1>1, <1>2
<1>4. ASSUME Len(s) = 2
      PROVE  s[1].op \in {"scan", "Timeout"} /\ s[2].op \in {"get", "put"}
  <2>1. 1 \in DOMAIN s /\ 2 \in DOMAIN s /\ 1 < Len(s)
    BY <1>1, <1>4
  <2> QED
    BY <2>1 DEF Shallow
<1> QED
  BY <1>1, <1>3, <1>4

\* Unless the innermost frame is that of an ACK, nothing on the list was called.
LEMMA Uncalled ==
    ASSUME ReentryInv, Shallow(stack), CalledRight(list, heap, stack, called),
           stack # <<>> => stack[1].op # "ACK"
    PROVE  /\ \A i \in DOMAIN stack : stack[i].op # "ACK"
           /\ \A n \in Nodes : Listed(list, n) => called[n] = 0
<1>1. stack \in Seq(Frame)
  BY DEF ReentryInv, ListConsistent, ReentryTypeOK
<1>2. \A i \in DOMAIN stack : stack[i].op # "ACK"
  <2>1. CASE stack = <<>>
    BY <2>1
  <2>2. CASE stack # <<>>
    <3>1. \A i \in DOMAIN stack : i = 1 \/ i > 1
      BY <1>1, Indexed
    <3> QED
      BY <2>2, <3>1 DEF Shallow
  <2> QED
    BY <2>1, <2>2
<1> QED
  BY <1>2 DEF CalledRight

\* What Calm says before a step that is no call back into the SDK.
LEMMA Before ==
    ASSUME Calm, ~ reentered
    PROVE  /\ ~ fault /\ Shallow(stack) /\ Current(list, stack)
           /\ CalledRight(list, heap, stack, called)
  BY DEF Calm

LEMMA CalmCall ==
    ASSUME ReentryInv, Calm, Call
    PROVE  Calm'
<1>1. SUFFICES ASSUME ~ reentered'
               PROVE  Calm'
  BY DEF Calm
<1>2. /\ ~ reentered /\ stack = <<>> /\ UNCHANGED <<list, heap, called, fault>>
      /\ \/ stack' = <<ScanFrame>> \o stack
         \/ \E n \in Nodes, op \in {"get", "put"} :
               stack' = <<ScanFrame, [op |-> op, t |-> n, nt |-> Null, now |-> now]>> \o stack
  BY <1>1 DEF Call, CallTrigger, CallSend, CallReceive, CallThenScan
<1>3. ScanFrame.op = "scan"
  BY DEF ScanFrame
<1>4. CASE stack' = <<ScanFrame>> \o stack
  <2>1. stack' = <<ScanFrame>>
    BY <1>2, <1>4
  <2>2. Len(stack') = 1 /\ DOMAIN stack' = {1} /\ stack'[1].op = "scan"
    BY <1>3, <2>1
  <2>3. Shallow(stack') /\ Current(list', stack')
    BY <2>2 DEF Shallow, Current
  <2>4. CalledRight(list', heap', stack', called')
    BY <1>2, Before DEF CalledRight
  <2> QED
    BY <1>2, <2>3, <2>4, Before DEF Calm
<1>5. ASSUME NEW n \in Nodes, NEW op \in {"get", "put"},
             stack' = <<ScanFrame, [op |-> op, t |-> n, nt |-> Null, now |-> now]>> \o stack
      PROVE  Calm'
  <2>1. stack' = <<ScanFrame, [op |-> op, t |-> n, nt |-> Null, now |-> now]>>
    BY <1>2, <1>5
  <2>2. /\ Len(stack') = 2 /\ DOMAIN stack' = {1, 2}
        /\ stack'[1].op = "scan" /\ stack'[2].op \in {"get", "put"}
    BY <1>3, <2>1
  <2>3. Shallow(stack') /\ Current(list', stack')
    BY <2>2 DEF Shallow, Current
  <2>4. CalledRight(list', heap', stack', called')
    BY <1>2, Before DEF CalledRight
  <2> QED
    BY <1>2, <2>3, <2>4, Before DEF Calm
<1> QED
  BY <1>2, <1>4, <1>5

\* The frame that was innermost is left.
LEMMA ShorterStack ==
    ASSUME ReentryInv, stack # <<>>, Shallow(stack)
    PROVE  /\ Shallow(Tail(stack))
           /\ \A i \in DOMAIN Tail(stack) : Tail(stack)[i].op \in {"get", "put"}
           /\ \A k : Current(k, Tail(stack))
<1>1. stack \in Seq(Frame)
  BY DEF ReentryInv, ListConsistent, ReentryTypeOK
<1>2. /\ Len(stack) \in {1, 2}
      /\ Len(stack) = 2 => stack[2].op \in {"get", "put"}
  BY <1>1, ShortStack
<1>3. /\ Len(Tail(stack)) = Len(stack) - 1 /\ Tail(stack) \in Seq(Frame)
      /\ \A i \in 1 .. Len(stack) - 1 : Tail(stack)[i] = stack[i + 1]
  BY <1>1, Popped
<1>4. DOMAIN Tail(stack) = 1 .. Len(stack) - 1
  BY <1>3, Indexed
<1>5. \A i \in DOMAIN Tail(stack) : i = 1 /\ Len(stack) = 2 /\ Tail(stack)[1] = stack[2]
  <2>1. ASSUME NEW i \in DOMAIN Tail(stack)
        PROVE  i = 1 /\ Len(stack) = 2
    <3>1. PICK k \in {1, 2} : k = Len(stack) /\ i \in 1 .. k - 1
      BY <1>2, <1>4
    <3>2. i = 1 /\ k = 2
      BY <3>1
    <3> QED
      BY <3>1, <3>2
  <2>2. Len(stack) = 2 => Tail(stack)[1] = stack[2]
    <3>1. Len(stack) = 2 => Tail(stack)[1] = stack[1 + 1]
      BY <1>3
    <3> QED
      BY <3>1
  <2> QED
    BY <2>1, <2>2
<1>6. \A i \in DOMAIN Tail(stack) : Tail(stack)[i].op \in {"get", "put"}
  BY <1>2, <1>5
<1>7. \A i \in DOMAIN Tail(stack) : ~ (i < Len(Tail(stack))) /\ ~ (i > 1)
  BY <1>3, <1>5
<1> QED
  BY <1>6, <1>7 DEF Shallow, Current

\* The frame that was innermost becomes another one.
LEMMA SameStack ==
    ASSUME ReentryInv, stack # <<>>, Shallow(stack), NEW f \in Frame,
           f.op \in {"scan", "Timeout"} \/ Len(stack) = 1
    PROVE  LET s == <<f>> \o Tail(stack) IN
           /\ Shallow(s) /\ s[1] = f /\ 1 \in DOMAIN s
           /\ \A i \in DOMAIN s : i = 1 \/ s[i].op \in {"get", "put"}
<1> DEFINE s == <<f>> \o Tail(stack)
<1>1. stack \in Seq(Frame)
  BY DEF ReentryInv, ListConsistent, ReentryTypeOK
<1>2. /\ Len(stack) \in {1, 2}
      /\ Len(stack) = 2 => stack[2].op \in {"get", "put"}
  BY <1>1, ShortStack
<1>3. /\ s \in Seq(Frame) /\ Len(s) = Len(stack) /\ s[1] = f
      /\ \A i \in 2 .. Len(stack) : s[i] = stack[i]
  BY <1>1, Replaced
<1> HIDE DEF s
<1>4. DOMAIN s = 1 .. Len(stack)
  BY <1>3, Indexed
<1>5. \A i \in DOMAIN s : i = 1 \/ (i = 2 /\ Len(stack) = 2 /\ s[i] = stack[2])
  BY <1>2, <1>3, <1>4
<1>6. \A i \in DOMAIN s : i = 1 \/ s[i].op \in {"get", "put"}
  BY <1>2, <1>5
<1>7. \A i \in DOMAIN s : i < Len(s) => i = 1 /\ Len(stack) # 1
  BY <1>2, <1>3, <1>5
<1>8. Shallow(s)
  <2>1. \A i \in DOMAIN s : i > 1 => s[i].op \in {"get", "put"}
    BY <1>6
  <2>2. \A i \in DOMAIN s : i < Len(s) => s[i].op \in {"scan", "Timeout"}
    BY <1>3, <1>7
  <2> QED
    BY <2>1, <2>2 DEF Shallow
<1>9. 1 \in DOMAIN s
  BY <1>2, <1>4
<1> QED
  BY <1>3, <1>6, <1>8, <1>9 DEF s

LEMMA CalmLeave ==
    ASSUME ReentryInv, Calm, stack # <<>>, ScanEnd \/ GetMisses \/ PutRefused
    PROVE  Calm'
<1>1. SUFFICES ASSUME ~ reentered'
               PROVE  Calm'
  BY DEF Calm
<1>2. /\ stack' = Tail(stack) /\ Top.op # "ACK"
      /\ UNCHANGED <<list, heap, called, reentered, fault>>
  BY DEF ScanEnd, GetMisses, PutRefused
<1>3. Top = stack[1]
  BY TopRight
<1>4. \A n \in Nodes : Listed(list, n) => called[n] = 0
  BY <1>1, <1>2, <1>3, Uncalled, Before
<1>5. Shallow(stack') /\ Current(list', stack')
  BY <1>1, <1>2, ShorterStack, Before
<1>6. CalledRight(list', heap', stack', called')
  BY <1>1, <1>2, <1>4, Before DEF CalledRight
<1> QED
  BY <1>1, <1>2, <1>5, <1>6, Before DEF Calm

LEMMA CalmKeep ==
    ASSUME ReentryInv, Calm, stack # <<>>, ScanKeep
    PROVE  Calm'
<1>1. SUFFICES ASSUME ~ reentered'
               PROVE  Calm'
  BY DEF Calm
<1>2. /\ stack' = <<Advanced(Top)>> \o Tail(stack) /\ Top.op = "scan"
      /\ UNCHANGED <<list, heap, called, reentered, fault>>
  BY DEF ScanKeep
<1>3. Top = stack[1] /\ Top \in Frame /\ 1 \in DOMAIN stack
  BY TopRight
<1>4. Top.nt = Null \/ Listed(list, Top.nt)
  BY <1>2, <1>3 DEF ReentryInv, Frames, ScanRight, Looks
<1>5. Advanced(Top) \in Frame /\ Advanced(Top).op = "scan"
  BY <1>3, <1>4, AdvancedRight
<1>6. \A n \in Nodes : Listed(list, n) => called[n] = 0
  BY <1>1, <1>2, <1>3, Uncalled, Before
<1>7. /\ Shallow(stack') /\ stack'[1] = Advanced(Top)
      /\ \A i \in DOMAIN stack' : i = 1 \/ stack'[i].op \in {"get", "put"}
  BY <1>1, <1>2, <1>5, SameStack, Before
<1>8. Current(list', stack')
  BY <1>5, <1>7 DEF Current
<1>9. CalledRight(list', heap', stack', called')
  BY <1>1, <1>2, <1>6, Before DEF CalledRight
<1> QED
  BY <1>1, <1>2, <1>7, <1>8, <1>9, Before DEF Calm

LEMMA CalmTimeout ==
    ASSUME ReentryInv, Calm, stack # <<>>, ScanTimeout
    PROVE  Calm'
<1> DEFINE f == [Top EXCEPT !.op = "Timeout"]
           n == Top.t
<1>1. SUFFICES ASSUME ~ reentered'
               PROVE  Calm'
  BY DEF Calm
<1>2. /\ stack' = <<f>> \o Tail(stack) /\ Top.op = "scan" /\ n # Null
      /\ list' = Without(n) /\ called' = CalledAgain(n)
      /\ UNCHANGED <<heap, reentered, fault>>
  BY DEF ScanTimeout
<1>3. Top = stack[1] /\ Top \in Frame /\ 1 \in DOMAIN stack
  BY TopRight
<1>4. Looks(list, Top)
  BY <1>2, <1>3 DEF ReentryInv, Frames, ScanRight
<1>5. Listed(list, n) /\ n \in Nodes /\ heap[n] = "allocated"
  BY <1>2, <1>4, ListedNode DEF Looks
<1>6. f \in Frame /\ f.op = "Timeout" /\ f.nt = Top.nt
  BY <1>3 DEF Frame
<1>7. f.nt = Null \/ (Listed(list, f.nt) /\ f.nt # n)
  BY <1>2, <1>4, <1>6 DEF Looks
<1> HIDE DEF f, n
<1>8. \A m : Listed(list', m) <=> Listed(list, m) /\ m # n
  BY <1>2, <1>5, RestRight
<1>9. \A m \in Nodes : Listed(list, m) => called[m] = 0
  BY <1>1, <1>2, <1>3, Uncalled, Before
<1>10. /\ Shallow(stack') /\ stack'[1] = f
       /\ \A i \in DOMAIN stack' : i = 1 \/ stack'[i].op \in {"get", "put"}
  BY <1>1, <1>2, <1>6, SameStack, Before
<1>11. Current(list', stack')
  BY <1>6, <1>7, <1>8, <1>10 DEF Current
<1>12. called'[n] = 1 /\ \A m \in Nodes : m # n => called'[m] = called[m]
  BY <1>2, <1>5, <1>9, CalledType
<1>13. CalledRight(list', heap', stack', called')
  <2>1. CalledRight(list, heap, stack, called)
    BY <1>1, <1>2, Before
  <2>2. ASSUME NEW m \in Nodes, m # n
        PROVE  /\ called'[m] \in {0, 1} /\ (heap'[m] = "unused" => called'[m] = 0)
               /\ Listed(list', m) => called'[m] = 0
    BY <1>2, <1>8, <1>9, <1>12, <2>1, <2>2 DEF CalledRight
  <2>3. /\ called'[n] \in {0, 1} /\ heap'[n] # "unused" /\ ~ Listed(list', n)
    BY <1>2, <1>5, <1>8, <1>12
  <2> QED
    BY <2>2, <2>3 DEF CalledRight
<1> QED
  BY <1>1, <1>2, <1>10, <1>11, <1>13, Before DEF Calm

LEMMA CalmReturn ==
    ASSUME ReentryInv, Calm, stack # <<>>, TimeoutReturns
    PROVE  Calm'
<1> DEFINE n == Top.t
<1>1. SUFFICES ASSUME ~ reentered'
               PROVE  Calm'
  BY DEF Calm
<1>2. ~ reentered
  BY <1>1 DEF TimeoutReturns, UseAfterFree
<1>3. Top = stack[1] /\ Top \in Frame /\ 1 \in DOMAIN stack /\ Top.op = "Timeout"
  BY TopRight DEF TimeoutReturns
<1>4. Top.nt = Null \/ Listed(list, Top.nt)
  BY <1>2, <1>3, Before DEF Current
<1>5. ~ Dangling(Top)
  BY <1>4, ListedNode DEF Dangling
<1>6. /\ heap' = [heap EXCEPT ![n] = "freed"] /\ stack' = <<Advanced(Top)>> \o Tail(stack)
      /\ UNCHANGED <<list, called, fault>>
  BY <1>5 DEF TimeoutReturns
<1>7. Advanced(Top) \in Frame /\ Advanced(Top).op = "scan"
  BY <1>3, <1>4, AdvancedRight
<1>8. \A m \in Nodes : Listed(list, m) => called[m] = 0
  BY <1>2, <1>3, Uncalled, Before
<1>9. /\ Shallow(stack') /\ stack'[1] = Advanced(Top)
      /\ \A i \in DOMAIN stack' : i = 1 \/ stack'[i].op \in {"get", "put"}
  BY <1>2, <1>6, <1>7, SameStack, Before
<1>10. Current(list', stack')
  BY <1>7, <1>9 DEF Current
<1>11. \A m \in Nodes : heap'[m] = "unused" => heap[m] = "unused"
  BY <1>6 DEF ReentryInv, ListConsistent, ReentryTypeOK
<1>12. CalledRight(list', heap', stack', called')
  BY <1>2, <1>6, <1>8, <1>11, Before DEF CalledRight
<1> QED
  BY <1>2, <1>6, <1>9, <1>10, <1>12, Before DEF Calm

LEMMA CalmFind ==
    ASSUME ReentryInv, Calm, stack # <<>>, GetFinds
    PROVE  Calm'
<1> DEFINE f == [Top EXCEPT !.op = "ACK"]
           n == Top.t
<1>1. SUFFICES ASSUME ~ reentered'
               PROVE  Calm'
  BY DEF Calm
<1>2. /\ stack' = <<f>> \o Tail(stack) /\ Top.op = "get" /\ Listed(list, n)
      /\ called' = CalledAgain(n) /\ UNCHANGED <<list, heap, reentered, fault>>
  BY OnListed DEF GetFinds
<1>3. Top = stack[1] /\ Top \in Frame /\ 1 \in DOMAIN stack /\ stack \in Seq(Frame)
  BY TopRight
<1>4. n \in Nodes /\ heap[n] = "allocated"
  BY <1>2, ListedNode
<1>5. f \in Frame /\ f.op = "ACK" /\ f.t = n
  BY <1>3 DEF Frame
<1> HIDE DEF f, n
<1>6. Len(stack) = 1
  BY <1>1, <1>2, <1>3, ShortStack, Before
<1>7. \A m \in Nodes : Listed(list, m) => called[m] = 0
  BY <1>1, <1>2, <1>3, Uncalled, Before
<1>8. /\ Shallow(stack') /\ stack'[1] = f /\ 1 \in DOMAIN stack'
      /\ \A i \in DOMAIN stack' : i = 1 \/ stack'[i].op \in {"get", "put"}
  BY <1>1, <1>2, <1>5, <1>6, SameStack, Before
<1>9. Current(list', stack')
  BY <1>2, <1>5, <1>8 DEF Current
<1>10. called'[n] = 1 /\ \A m \in Nodes : m # n => called'[m] = called[m]
  BY <1>2, <1>4, <1>7, CalledType
<1>11. CalledRight(list', heap', stack', called')
  <2>1. CalledRight(list, heap, stack, called)
    BY <1>1, <1>2, Before
  <2>2. ASSUME NEW m \in Nodes, m # n
        PROVE  /\ called'[m] \in {0, 1} /\ (heap'[m] = "unused" => called'[m] = 0)
               /\ Listed(list', m) => called'[m] = 0
    BY <1>2, <1>7, <1>10, <2>1, <2>2 DEF CalledRight
  <2>3. /\ called'[n] \in {0, 1} /\ heap'[n] # "unused"
        /\ \E i \in DOMAIN stack' : stack'[i].op = "ACK" /\ stack'[i].t = n
    BY <1>2, <1>4, <1>5, <1>8, <1>10
  <2> QED
    BY <2>2, <2>3 DEF CalledRight
<1> QED
  BY <1>1, <1>2, <1>8, <1>9, <1>11, Before DEF Calm

LEMMA CalmAck ==
    ASSUME ReentryInv, Calm, stack # <<>>, AckReturns
    PROVE  Calm'
<1> DEFINE n == Top.t
<1>1. SUFFICES ASSUME ~ reentered'
               PROVE  Calm'
  BY DEF Calm
<1>2. ~ reentered
  BY <1>1 DEF AckReturns, UseAfterFree
<1>3. /\ Top = stack[1] /\ Top \in Frame /\ 1 \in DOMAIN stack /\ stack \in Seq(Frame)
      /\ Top.op = "ACK"
  BY TopRight DEF AckReturns
<1>4. Listed(list, n)
  BY <1>2, <1>3, Before DEF Current
<1>5. heap[n] = "allocated"
  BY <1>4, ListedNode
<1>6. /\ list' = Without(n) /\ heap' = [heap EXCEPT ![n] = "freed"] /\ stack' = Tail(stack)
      /\ UNCHANGED <<called, fault>>
  BY <1>5 DEF AckReturns
<1> HIDE DEF n
<1>7. \A m : Listed(list', m) <=> Listed(list, m) /\ m # n
  BY <1>4, <1>6, RestRight
<1>8. Shallow(stack') /\ Current(list', stack')
  BY <1>2, <1>6, ShorterStack, Before
<1>9. \A m \in Nodes : heap'[m] = "unused" => heap[m] = "unused"
  BY <1>6 DEF ReentryInv, ListConsistent, ReentryTypeOK
<1>10. \A i \in DOMAIN stack : stack[i].op = "ACK" => stack[i].t = n
  <2>1. \A i \in DOMAIN stack : i = 1 \/ i > 1
    BY <1>3, Indexed
  <2> QED
    BY <1>2, <1>3, <2>1, Before DEF Shallow, n
<1>11. CalledRight(list', heap', stack', called')
  BY <1>2, <1>6, <1>7, <1>9, <1>10, Before DEF CalledRight
<1> QED
  BY <1>2, <1>6, <1>8, <1>11, Before DEF Calm

LEMMA CalmSave ==
    ASSUME ReentryInv, Calm, stack # <<>>, NEW life \in Life, PutSaves(life)
    PROVE  Calm'
<1> DEFINE n == Top.t
<1>1. SUFFICES ASSUME ~ reentered'
               PROVE  Calm'
  BY DEF Calm
<1>2. /\ stack' = Tail(stack) /\ Top.op = "put" /\ list' = Append(list, n)
      /\ heap' = [heap EXCEPT ![n] = "allocated"]
      /\ UNCHANGED <<called, reentered, fault>>
  BY DEF PutSaves
<1>3. Top = stack[1] /\ 1 \in DOMAIN stack
  BY TopRight
<1>4. n \in Nodes /\ heap[n] = "unused"
  BY <1>2, <1>3 DEF ReentryInv, Frames, PutRight
<1> HIDE DEF n
<1>5. \A m : Listed(list', m) <=> Listed(list, m) \/ m = n
  BY <1>2, <1>4, AppendedRight DEF ReentryInv, ListConsistent, ReentryTypeOK
<1>6. \A m \in Nodes : Listed(list, m) => called[m] = 0
  BY <1>1, <1>2, <1>3, Uncalled, Before
<1>7. Shallow(stack') /\ Current(list', stack')
  BY <1>1, <1>2, ShorterStack, Before
<1>8. \A m \in Nodes : heap'[m] = "unused" => heap[m] = "unused"
  BY <1>2 DEF ReentryInv, ListConsistent, ReentryTypeOK
<1>9. CalledRight(list', heap', stack', called')
  BY <1>1, <1>2, <1>4, <1>5, <1>6, <1>8, Before DEF CalledRight
<1> QED
  BY <1>1, <1>2, <1>7, <1>9, Before DEF Calm

LEMMA CalmKept == ReentryInv /\ Calm /\ [Next]_vars => Calm'
<1>1. SUFFICES ASSUME ReentryInv, Calm, [Next]_vars
               PROVE  Calm'
  OBVIOUS
<1>2. CASE Call
  BY <1>1, <1>2, CalmCall
<1>3. CASE Return
  BY <1>1, <1>3, CalmLeave, CalmKeep, CalmTimeout, CalmReturn, CalmFind, CalmAck, CalmSave
     DEF Return
<1>4. CASE Tick \/ UNCHANGED vars
  <2>1. UNCHANGED <<list, heap, stack, called, reentered, fault>>
    BY <1>4 DEF Tick, vars
  <2> QED
    BY <1>1, <2>1 DEF Calm
<1> QED
  BY <1>1, <1>2, <1>3, <1>4 DEF Next

-----------------------------------------------------------------------------
\* The theorems

\* The inductive invariant: what each frame of the call stack may still point to.
THEOREM ReentryInvariant == Spec => [](ReentryInv /\ Calm)
<1>1. Init => ReentryInv /\ Calm
  BY Calm0
<1>2. ReentryInv /\ Calm /\ [Next]_vars => ReentryInv' /\ Calm'
  BY NextKeeps, CalmKept
<1> QED
  BY <1>1, <1>2, PTL DEF Spec

\* Whatever callbacks do with the SDK, for every number of slots, transactions and
\* nested calls: the list links allocated transactions only, each of them once, and
\* the slots that are free, taken, or about to be given back by a callback of
\* dropExpiredClientTransactions are NSTART.
THEOREM ListStaysConsistent == Spec => []ListConsistent
<1>1. ReentryInv => ListConsistent
  BY DEF ReentryInv
<1> QED
  BY <1>1, ReentryInvariant, PTL

\* As long as no callback of dropExpiredClientTransactions or handleRx uses the SDK,
\* neither goes on with a freed transaction, and each is called back at most once.
THEOREM CallbacksSafe == Spec => []SafeUnlessReentered
<1>1. Calm => SafeUnlessReentered
  BY DEF Calm, CalledRight, SafeUnlessReentered
<1> QED
  BY <1>1, ReentryInvariant, PTL
=============================================================================
