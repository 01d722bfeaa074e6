----------------------------- MODULE ListProofs -----------------------------
(***************************************************************************)
(* The lists of clients, as the server keeps them: linked lists to which   *)
(* an element is appended, and from which any one is taken out.  What      *)
(* these proofs need of numbers and of sequences put together comes with   *)
(* them.                                                                   *)
(***************************************************************************)
EXTENDS Integers, SequencesExt, FiniteSetTheorems, SequenceTheorems,
        WellFoundedInduction, TLAPS

-----------------------------------------------------------------------------
(* Numbers *)

\* A search stops at the first place that fits, if there is one.
LEMMA FirstPlace ==
  ASSUME NEW I \in SUBSET Nat, I # {}
  PROVE  Min(I) \in I /\ \A k \in I : Min(I) <= k
<1> DEFINE R == OpToRel(<, Nat)
<1>1. IsWellFoundedOn(R, Nat)
  BY NatLessThanWellFounded
<1>2. ASSUME NEW a \in Nat, NEW b \in Nat, a < b PROVE <<a, b>> \in R
  BY <1>2 DEF OpToRel
<1> HIDE DEF R
<1>3. PICK x \in I : \A y \in I : <<y, x>> \notin R
  <2>1. I \subseteq Nat
    OBVIOUS
  <2> QED
    BY <1>1, <2>1, WFMin
<1>4. ASSUME NEW y \in I PROVE x <= y
  <2>1. x \in Nat /\ y \in Nat
    OBVIOUS
  <2>2. ~(y < x)
    BY <1>2, <1>3, <2>1
  <2> QED
    BY <2>1, <2>2
<1> QED
  BY <1>4 DEF Min

\* What no number is the first to lack, all numbers have.
LEMMA ByStep ==
  ASSUME NEW Bad \in SUBSET Nat, 0 \notin Bad,
         \A n \in Nat : n + 1 \in Bad => n \in Bad
  PROVE  Bad = {}
<1> SUFFICES ASSUME Bad # {} PROVE FALSE
  OBVIOUS
<1>1. PICK m \in Bad : \A k \in Bad : m <= k
  BY FirstPlace
<1>2. m # 0 /\ m - 1 \in Nat /\ (m - 1) + 1 = m
  BY <1>1
<1>3. m - 1 \in Bad
  BY <1>2
<1> QED
  BY <1>1, <1>3

LEMMA DivMod ==
  ASSUME NEW x \in Nat, NEW y \in Nat \ {0}
  PROVE  /\ x \div y \in Nat /\ x % y \in 0 .. y - 1
         /\ x = y * (x \div y) + (x % y)
OBVIOUS

LEMMA TimesGrows ==
  ASSUME NEW a \in Nat, NEW b \in Nat, NEW c \in Nat, b <= c PROVE a * b <= a * c
OBVIOUS

\* There is one quotient.
LEMMA DivIs ==
  ASSUME NEW x \in Nat, NEW y \in Nat \ {0}, NEW q \in Nat, NEW r \in 0 .. y - 1,
         x = y * q + r
  PROVE  x \div y = q
<1> DEFINE d == x \div y
           m == x % y
<1>1. d \in Nat /\ m \in 0 .. y - 1 /\ x = y * d + m
  BY DivMod
<1> HIDE DEF d, m
<1>2. CASE d < q
  <2>1. y * (d + 1) <= y * q
    BY <1>1, <1>2
  <2>2. y * (d + 1) = y * d + y
    BY <1>1
  <2> QED
    BY <1>1, <2>1, <2>2
<1>3. CASE q < d
  <2>1. y * (q + 1) <= y * d
    BY <1>1, <1>3
  <2>2. y * (q + 1) = y * q + y
    OBVIOUS
  <2> QED
    BY <1>1, <2>1, <2>2
<1> QED
  BY <1>1, <1>2, <1>3 DEF d

\* ... and one remainder.
LEMMA ModIs ==
  ASSUME NEW x \in Nat, NEW y \in Nat \ {0}, NEW q \in Nat, NEW r \in 0 .. y - 1,
         x = y * q + r
  PROVE  x % y = r
<1>1. x \div y = q
  BY DivIs
<1>2. x = y * (x \div y) + (x % y) /\ x % y \in 0 .. y - 1
  BY DivMod
<1>3. x = y * q + (x % y)
  BY <1>1, <1>2
<1> QED
  BY <1>2, <1>3

-----------------------------------------------------------------------------
(* Lists *)

LEMMA RemoveAtType ==
  ASSUME NEW S, NEW s \in Seq(S), NEW i \in DOMAIN s
  PROVE  RemoveAt(s, i) \in Seq(S)
<1>1. i \in 1 .. Len(s)
  BY LenProperties
<1>2. SubSeq(s, 1, i - 1) \in Seq(S) /\ SubSeq(s, i + 1, Len(s)) \in Seq(S)
  BY <1>1, SubSeqProperties
<1> QED
  BY <1>2, ConcatProperties DEF RemoveAt

\* What is before the element taken out keeps its place, what is behind it
\* comes one place nearer.
LEMMA RemoveAtShape ==
  ASSUME NEW S, NEW s \in Seq(S), NEW i \in DOMAIN s
  PROVE  LET t == RemoveAt(s, i)
             n == Len(s)
         IN  /\ t \in Seq(S) /\ n \in Nat /\ i \in 1 .. n
             /\ DOMAIN s = 1 .. n /\ DOMAIN t = 1 .. n - 1 /\ Len(t) = n - 1
             /\ \A j \in 1 .. i - 1 : t[j] = s[j]
             /\ \A j \in i .. n - 1 : t[j] = s[j + 1]
<1> DEFINE a == SubSeq(s, 1, i - 1)
           b == SubSeq(s, i + 1, Len(s))
           t == RemoveAt(s, i)
           n == Len(s)
<1>1. DOMAIN s = 1 .. n /\ n \in Nat /\ i \in 1 .. n
  BY LenProperties
<1>2. a \in Seq(S) /\ Len(a) = i - 1 /\ \A j \in 1 .. i - 1 : a[j] = s[j]
  BY <1>1, SubSeqProperties
<1>3. b \in Seq(S) /\ Len(b) = n - i /\ \A j \in 1 .. n - i : b[j] = s[i + j]
  <2>1. \A j \in 1 .. n - i : (i + 1) + j - 1 = i + j
    BY <1>1
  <2> QED
    BY SMTT(30), <1>1, <2>1, SubSeqProperties
<1>4. t = a \o b
  BY DEF RemoveAt
<1> HIDE DEF a, b, t, n
<1>5. t \in Seq(S) /\ Len(t) = n - 1 /\ DOMAIN t = 1 .. n - 1
  <2>1. t \in Seq(S) /\ Len(t) = Len(a) + Len(b)
    BY <1>2, <1>3, <1>4, ConcatProperties
  <2>2. Len(t) = n - 1
    BY <1>1, <1>2, <1>3, <2>1
  <2> QED
    BY <2>1, <2>2, LenProperties
<1>6. ASSUME NEW j \in 1 .. i - 1 PROVE t[j] = s[j]
  <2>1. j \in 1 .. Len(a) + Len(b) /\ j <= Len(a)
    BY <1>1, <1>2, <1>3
  <2> QED
    BY <1>2, <1>3, <1>4, <2>1, ConcatProperties
<1>7. ASSUME NEW j \in i .. n - 1 PROVE t[j] = s[j + 1]
  <2>1. j \in 1 .. Len(a) + Len(b) /\ ~(j <= Len(a))
    BY <1>1, <1>2, <1>3
  <2>2. t[j] = b[j - Len(a)]
    BY <1>2, <1>3, <1>4, <2>1, ConcatProperties
  <2>3. j - (i - 1) \in 1 .. n - i /\ i + (j - (i - 1)) = j + 1
    BY <1>1
  <2> QED
    BY <1>2, <1>3, <2>2, <2>3
<1> QED
  BY <1>1, <1>5, <1>6, <1>7 DEF t, n

\* What is left of a sequence without repetitions when one element is taken
\* out: everything else, still without repetitions.
LEMMA RemoveAtInjective ==
  ASSUME NEW S, NEW s \in Seq(S), IsInjective(s), NEW i \in DOMAIN s
  PROVE  LET t == RemoveAt(s, i)
         IN  /\ IsInjective(t)
             /\ Len(t) = Len(s) - 1
             /\ s[i] \notin ToSet(t)
             /\ \A x : x \in ToSet(s) /\ x # s[i] => x \in ToSet(t)
<1> DEFINE t == RemoveAt(s, i)
           n == Len(s)
<1>1. DOMAIN s = 1 .. n /\ n \in Nat /\ i \in 1 .. n
  BY RemoveAtShape
<1>2. /\ t \in Seq(S) /\ Len(t) = n - 1
      /\ DOMAIN t = 1 .. n - 1
      /\ \A j \in 1 .. i - 1 : t[j] = s[j]
      /\ \A j \in i .. n - 1 : t[j] = s[j + 1]
  BY RemoveAtShape
<1> HIDE DEF t, n
<1>3. IsInjective(t)
  <2> SUFFICES ASSUME NEW j \in 1 .. n - 1, NEW k \in 1 .. n - 1, t[j] = t[k]
               PROVE  j = k
    BY <1>2 DEF IsInjective
  <2>1. PICK p \in 1 .. n : t[j] = s[p] /\ (IF j < i THEN p = j ELSE p = j + 1)
    BY SMTT(30), <1>1, <1>2
  <2>2. PICK q \in 1 .. n : t[k] = s[q] /\ (IF k < i THEN q = k ELSE q = k + 1)
    BY <1>1, <1>2
  <2>3. p = q
    BY <1>1, <2>1, <2>2 DEF IsInjective
  <2> QED
    BY <1>1, <2>1, <2>2, <2>3
<1>4. s[i] \notin ToSet(t)
  <2> SUFFICES ASSUME NEW j \in 1 .. n - 1, t[j] = s[i] PROVE FALSE
    BY <1>2 DEF ToSet
  <2>1. PICK p \in 1 .. n : t[j] = s[p] /\ p # i
    BY <1>1, <1>2
  <2> QED
    BY <1>1, <2>1 DEF IsInjective
<1>5. ASSUME NEW x, x \in ToSet(s), x # s[i] PROVE x \in ToSet(t)
  <2>1. PICK p \in 1 .. n : s[p] = x
    BY <1>1, <1>5 DEF ToSet
  <2>2. CASE p < i
    <3>1. p \in 1 .. i - 1 /\ p \in 1 .. n - 1
      BY <1>1, <2>2
    <3> QED
      BY <1>2, <2>1, <3>1 DEF ToSet
  <2>3. CASE p > i
    <3>1. p - 1 \in i .. n - 1 /\ p - 1 \in 1 .. n - 1 /\ (p - 1) + 1 = p
      BY <1>1, <2>3
    <3>2. t[p - 1] = x
      BY <1>2, <2>1, <3>1
    <3> QED
      BY <1>2, <3>1, <3>2 DEF ToSet
  <2> QED
    BY <1>1, <1>5, <2>1, <2>2, <2>3
<1> QED
  BY <1>2, <1>3, <1>4, <1>5 DEF t, n

\* Nothing else is in what is left.
LEMMA RemoveAtSubset ==
  ASSUME NEW S, NEW s \in Seq(S), NEW i \in DOMAIN s
  PROVE  ToSet(RemoveAt(s, i)) \subseteq ToSet(s)
<1> DEFINE t == RemoveAt(s, i)
           n == Len(s)
<1>1. /\ n \in Nat /\ i \in 1 .. n /\ DOMAIN s = 1 .. n /\ DOMAIN t = 1 .. n - 1
      /\ \A j \in 1 .. i - 1 : t[j] = s[j]
      /\ \A j \in i .. n - 1 : t[j] = s[j + 1]
  BY RemoveAtShape
<1> HIDE DEF t, n
<1>2. \A j \in 1 .. n - 1 : \E p \in 1 .. n : t[j] = s[p]
  BY <1>1
<1> QED
  BY SMTT(30), <1>1, <1>2 DEF ToSet, t

\* One element more at the end.
LEMMA AppendFresh ==
  ASSUME NEW S, NEW s \in Seq(S), IsInjective(s), NEW x \in S, x \notin ToSet(s),
         NEW t, t = Append(s, x)
  PROVE  IsInjective(t) /\ Len(t) = Len(s) + 1 /\ ToSet(t) = ToSet(s) \cup {x}
<1>1. PICK n : n = Len(s)
  OBVIOUS
<1>2. n \in Nat /\ DOMAIN s = 1 .. n
  BY <1>1, LenProperties
<1>3. Len(t) = n + 1 /\ DOMAIN t = 1 .. n + 1
  BY <1>1, <1>2, LenProperties, AppendProperties
<1>4. (\A j \in 1 .. n : t[j] = s[j]) /\ t[n + 1] = x
  BY <1>1, AppendProperties
<1>5. IsInjective(t)
  BY <1>2, <1>3, <1>4 DEF IsInjective, ToSet
<1>6. ToSet(t) = ToSet(s) \cup {x}
  BY <1>2, <1>3, <1>4 DEF ToSet
<1> HIDE DEF IsInjective, ToSet
<1> QED
  BY <1>1, <1>3, <1>5, <1>6

\* An element put before all others.
LEMMA PrependShape ==
  ASSUME NEW S, NEW s \in Seq(S), NEW e \in S
  PROVE  LET t == <<e>> \o s
             n == Len(s)
         IN  /\ t \in Seq(S) /\ n \in Nat /\ DOMAIN s = 1 .. n /\ DOMAIN t = 1 .. n + 1
             /\ t[1] = e
             /\ \A j \in 1 .. n : t[j + 1] = s[j]
<1> DEFINE t == <<e>> \o s
           n == Len(s)
<1>1. <<e>> \in Seq(S) /\ Len(<<e>>) = 1 /\ <<e>>[1] = e
  OBVIOUS
<1>2. n \in Nat /\ DOMAIN s = 1 .. n
  BY LenProperties
<1>3. t \in Seq(S) /\ Len(t) = n + 1 /\ DOMAIN t = 1 .. n + 1
  <2>1. t \in Seq(S) /\ Len(t) = Len(<<e>>) + n
    BY <1>1, ConcatProperties
  <2>2. Len(t) = n + 1
    BY <1>1, <1>2, <2>1
  <2> QED
    BY <2>1, <2>2, LenProperties
<1>4. t[1] = e
  <2>1. 1 \in 1 .. Len(<<e>>) + n /\ 1 <= Len(<<e>>)
    BY <1>1, <1>2
  <2> QED
    BY <1>1, <2>1, ConcatProperties
<1>5. ASSUME NEW j \in 1 .. n PROVE t[j + 1] = s[j]
  <2>1. j + 1 \in 1 .. Len(<<e>>) + n /\ ~(j + 1 <= Len(<<e>>)) /\ (j + 1) - Len(<<e>>) = j
    BY <1>1, <1>2
  <2>2. t[j + 1] = s[(j + 1) - Len(<<e>>)]
    BY <1>1, <2>1, ConcatProperties
  <2> QED
    BY <2>1, <2>2
<1> QED
  BY <1>2, <1>3, <1>4, <1>5

\* An element put before place i.
LEMMA InsertAtShape ==
  ASSUME NEW S, NEW s \in Seq(S), NEW i \in DOMAIN s, NEW e \in S
  PROVE  LET t == InsertAt(s, i, e)
             n == Len(s)
         IN  /\ t \in Seq(S) /\ n \in Nat /\ i \in 1 .. n
             /\ DOMAIN s = 1 .. n /\ DOMAIN t = 1 .. n + 1
             /\ t[i] = e
             /\ \A j \in 1 .. i - 1 : t[j] = s[j]
             /\ \A j \in i .. n : t[j + 1] = s[j]
<1> DEFINE a == SubSeq(s, 1, i - 1)
           b == SubSeq(s, i, Len(s))
           c == a \o <<e>>
           t == InsertAt(s, i, e)
           n == Len(s)
<1>1. DOMAIN s = 1 .. n /\ n \in Nat /\ i \in 1 .. n
  BY LenProperties
<1>2. a \in Seq(S) /\ Len(a) = i - 1 /\ \A j \in 1 .. i - 1 : a[j] = s[j]
  BY <1>1, SubSeqProperties
<1>3. b \in Seq(S) /\ Len(b) = n - i + 1 /\ \A j \in 1 .. n - i + 1 : b[j] = s[i + j - 1]
  BY <1>1, SubSeqProperties
<1>4. t = c \o b
  BY DEF InsertAt
<1>5. <<e>> \in Seq(S) /\ Len(<<e>>) = 1 /\ <<e>>[1] = e
  OBVIOUS
<1> HIDE DEF a, b, t, n
<1>6. c \in Seq(S) /\ Len(c) = i /\ c[i] = e /\ \A j \in 1 .. i - 1 : c[j] = s[j]
  <2>1. c \in Seq(S) /\ Len(c) = Len(a) + 1
    BY <1>2, <1>5, ConcatProperties
  <2>2. Len(c) = i
    BY <1>1, <1>2, <2>1
  <2>3. c[i] = e
    <3>1. i \in 1 .. Len(a) + Len(<<e>>) /\ ~(i <= Len(a)) /\ i - Len(a) = 1
      BY <1>1, <1>2, <1>5
    <3>2. c[i] = <<e>>[i - Len(a)]
      BY <1>2, <1>5, <3>1, ConcatProperties
    <3> QED
      BY <1>5, <3>1, <3>2
  <2>4. ASSUME NEW j \in 1 .. i - 1 PROVE c[j] = s[j]
    <3>1. j \in 1 .. Len(a) + Len(<<e>>) /\ j <= Len(a)
      BY <1>1, <1>2, <1>5
    <3> QED
      BY <1>2, <1>5, <3>1, ConcatProperties
  <2> QED
    BY <2>1, <2>2, <2>3, <2>4
<1> HIDE DEF c
<1>7. t \in Seq(S) /\ DOMAIN t = 1 .. n + 1
  <2>1. t \in Seq(S) /\ Len(t) = Len(c) + Len(b)
    BY <1>3, <1>4, <1>6, ConcatProperties
  <2>2. Len(t) = n + 1
    BY <1>1, <1>3, <1>6, <2>1
  <2> QED
    BY <2>1, <2>2, LenProperties
<1>8. ASSUME NEW j \in 1 .. i PROVE t[j] = c[j]
  <2>1. j \in 1 .. Len(c) + Len(b) /\ j <= Len(c)
    BY <1>1, <1>3, <1>6
  <2> QED
    BY <1>3, <1>4, <1>6, <2>1, ConcatProperties
<1>9. ASSUME NEW j \in i .. n PROVE t[j + 1] = s[j]
  <2>1. j + 1 \in 1 .. Len(c) + Len(b) /\ ~(j + 1 <= Len(c))
    BY <1>1, <1>3, <1>6
  <2>2. t[j + 1] = b[(j + 1) - Len(c)]
    BY <1>3, <1>4, <1>6, <2>1, ConcatProperties
  <2>3. (j + 1) - i \in 1 .. n - i + 1 /\ i + ((j + 1) - i) - 1 = j
    BY <1>1
  <2> QED
    BY <1>3, <1>6, <2>2, <2>3
<1>10. t[i] = e /\ \A j \in 1 .. i - 1 : t[j] = s[j]
  BY <1>1, <1>6, <1>8
<1> QED
  BY <1>1, <1>7, <1>9, <1>10 DEF t, n

\* The first element of a list, and what is left behind it.
LEMMA HeadTail ==
  ASSUME NEW S, NEW s \in Seq(S), s # <<>>
  PROVE  /\ Head(s) \in ToSet(s) /\ Head(s) \in S
         /\ Tail(s) \in Seq(S)
         /\ ToSet(Tail(s)) \subseteq ToSet(s)
         /\ IsInjective(s) => IsInjective(Tail(s)) /\ Head(s) \notin ToSet(Tail(s))
<1>1. PICK n : n = Len(s)
  OBVIOUS
<1>2. n \in Nat /\ DOMAIN s = 1 .. n /\ n >= 1
  BY <1>1, LenProperties, EmptySeq
<1>3. /\ Head(s) = s[1] /\ Tail(s) \in Seq(S)
      /\ Len(Tail(s)) = n - 1
      /\ \A i \in 1 .. n - 1 : Tail(s)[i] = s[i + 1]
  BY <1>1, <1>2, HeadTailProperties
<1> DEFINE t == Tail(s)
<1>4. /\ DOMAIN t = 1 .. n - 1 /\ \A i \in 1 .. n - 1 : t[i] = s[i + 1]
      /\ t \in Seq(S)
  BY <1>2, <1>3, LenProperties
<1> HIDE DEF t
<1>5. Head(s) \in ToSet(s) /\ Head(s) \in S
  BY <1>2, <1>3, ElementOfSeq DEF ToSet
<1>6. \A i \in 1 .. n - 1 : i + 1 \in 1 .. n
  BY <1>2
<1>7. ToSet(t) \subseteq ToSet(s)
  BY <1>2, <1>4, <1>6 DEF ToSet
<1>8. ASSUME IsInjective(s) PROVE IsInjective(t) /\ Head(s) \notin ToSet(t)
  <2>1. \A i, j \in 1 .. n : s[i] = s[j] => i = j
    BY <1>2, <1>8 DEF IsInjective
  <2>2. IsInjective(t)
    BY <1>2, <1>4, <1>6, <2>1 DEF IsInjective
  <2>3. Head(s) \notin ToSet(t)
    BY <1>2, <1>3, <1>4, <1>6, <2>1 DEF ToSet
  <2> QED
    BY <2>2, <2>3
<1> QED
  BY <1>4, <1>5, <1>7, <1>8 DEF t

-----------------------------------------------------------------------------
(* Sequences put together *)

\* The sequences that FlattenSeq() puts together, one after the other.
Flattens(f, ss) ==
  f = [i \in 1 .. Len(ss) |-> IF i = 1 THEN ss[i] ELSE f[i - 1] \o ss[i]]

LEMMA FlattenExists ==
  ASSUME NEW T, NEW ss \in Seq(T) PROVE \E f : Flattens(f, ss)
<1> DEFINE To(n, g) == g = [i \in 1 .. n |-> IF i = 1 THEN ss[i] ELSE g[i - 1] \o ss[i]]
           Bad == {n \in Nat : ~\E g : To(n, g)}
<1>1. 0 \notin Bad
  <2> DEFINE g == [i \in 1 .. 0 |-> <<>>]
  <2>1. To(0, g)
    OBVIOUS
  <2> QED
    BY <2>1
<1>2. ASSUME NEW n \in Nat, n + 1 \in Bad PROVE n \in Bad
  <2> SUFFICES ASSUME NEW g, To(n, g) PROVE FALSE
    BY <1>2
  <2> DEFINE h == [i \in 1 .. n + 1 |-> IF i = 1 THEN ss[i] ELSE g[i - 1] \o ss[i]]
  <2>1. \A i \in 1 .. n : g[i] = IF i = 1 THEN ss[i] ELSE g[i - 1] \o ss[i]
    OBVIOUS
  <2>2. \A i \in 1 .. n : h[i] = g[i]
    <3> HIDE DEF To
    <3> QED
      BY <2>1
  <2>3. \A i \in 1 .. n + 1 : i # 1 => i - 1 \in 1 .. n
    OBVIOUS
  <2>4. \A i \in 1 .. n + 1 : h[i] = IF i = 1 THEN ss[i] ELSE h[i - 1] \o ss[i]
    <3> HIDE DEF To
    <3> QED
      BY <2>2, <2>3
  <2>5. h = [i \in 1 .. n + 1 |-> h[i]]
    OBVIOUS
  <2> HIDE DEF h
  <2>6. To(n + 1, h)
    BY <2>4, <2>5
  <2> QED
    BY <1>2, <2>6
<1>3. Bad = {}
  BY <1>1, <1>2, ByStep
<1>4. Len(ss) \in Nat
  BY LenProperties
<1> QED
  BY <1>3, <1>4 DEF Flattens

LEMMA FlattenIs ==
  ASSUME NEW T, NEW ss \in Seq(T), Len(ss) # 0
  PROVE  \E f : Flattens(f, ss) /\ FlattenSeq(ss) = f[Len(ss)]
<1> DEFINE flatten[i \in 1 .. Len(ss)] ==
             IF i = 1 THEN ss[i] ELSE flatten[i - 1] \o ss[i]
<1>1. flatten = [i \in 1 .. Len(ss) |-> IF i = 1 THEN ss[i] ELSE flatten[i - 1] \o ss[i]]
  BY FlattenExists DEF Flattens
<1>2. FlattenSeq(ss) = flatten[Len(ss)]
  BY DEF FlattenSeq
<1> HIDE DEF flatten
<1> QED
  BY <1>1, <1>2 DEF Flattens

\* f does so for the first n of them.
FlattensTo(f, ss, n) ==
  \A i \in 1 .. n : f[i] = IF i = 1 THEN ss[i] ELSE f[i - 1] \o ss[i]

SameTo(f, g, n) == \A i \in 1 .. n : f[i] = g[i]

LEMMA FlattensAgree ==
  ASSUME NEW n \in Nat, NEW ss, NEW tt, NEW f, NEW g,
         FlattensTo(f, ss, n), FlattensTo(g, tt, n), SameTo(ss, tt, n)
  PROVE  SameTo(f, g, n)
<1> DEFINE Off == {i \in Nat : i \in 1 .. n /\ f[i] # g[i]}
<1>1. 0 \notin Off
  OBVIOUS
<1>2. ASSUME NEW i \in Nat, i + 1 \in Off PROVE i \in Off
  <2>1. i + 1 \in 1 .. n /\ (i + 1) - 1 = i /\ f[i + 1] # g[i + 1] /\ ss[i + 1] = tt[i + 1]
    BY <1>2 DEF SameTo
  <2>2. CASE i = 0
    <3>1. 1 \in 1 .. n /\ f[1] # g[1]
      BY <2>1, <2>2
    <3>2. f[1] = ss[1] /\ g[1] = tt[1] /\ ss[1] = tt[1]
      BY <3>1 DEF FlattensTo, SameTo
    <3> QED
      BY <3>1, <3>2
  <2>3. CASE i # 0
    <3>1. i \in 1 .. n /\ i + 1 # 1
      BY <2>1, <2>3
    <3>2. f[i + 1] = f[i] \o ss[i + 1] /\ g[i + 1] = g[i] \o tt[i + 1]
      BY <2>1, <3>1 DEF FlattensTo
    <3> QED
      BY <2>1, <3>1, <3>2
  <2> QED
    BY <2>2, <2>3
<1>3. Off = {}
  BY <1>1, <1>2, ByStep
<1> QED
  BY <1>3 DEF SameTo

LEMMA FlattenNone == FlattenSeq(<<>>) = <<>>
BY DEF FlattenSeq

\* One sequence more is put at the end.
LEMMA FlattenMore ==
  ASSUME NEW S, NEW ss \in Seq(Seq(S)), NEW t \in Seq(S)
  PROVE  FlattenSeq(Append(ss, t)) = FlattenSeq(ss) \o t
<1> DEFINE n == Len(ss)
           tt == Append(ss, t)
<1>1. /\ n \in Nat /\ tt \in Seq(Seq(S)) /\ Len(tt) = n + 1 /\ tt[n + 1] = t
      /\ \A i \in 1 .. n : tt[i] = ss[i]
  BY AppendProperties
<1>a. n = 0 => ss = <<>>
  OBVIOUS
<1> HIDE DEF n, tt
<1>2. PICK f : Flattens(f, tt) /\ FlattenSeq(tt) = f[n + 1]
  <2>1. Len(tt) # 0
    BY <1>1
  <2> QED
    BY <1>1, <2>1, FlattenIs
<1>3. \A i \in 1 .. n + 1 : f[i] = IF i = 1 THEN tt[i] ELSE f[i - 1] \o tt[i]
  BY <1>1, <1>2 DEF Flattens
<1>4. CASE n = 0
  <2>1. ss = <<>> /\ f[1] = t
    BY <1>a, <1>1, <1>3, <1>4
  <2>2. FlattenSeq(ss) = <<>>
    BY <2>1, FlattenNone, EmptySeq
  <2> QED
    BY <1>2, <1>4, <2>1, <2>2 DEF tt
<1>5. CASE n # 0
  <2>1. PICK g : Flattens(g, ss) /\ FlattenSeq(ss) = g[n]
    BY <1>5, FlattenIs DEF n
  <2>2. FlattensTo(g, ss, n)
    BY <2>1 DEF Flattens, FlattensTo, n
  <2>3. FlattensTo(f, tt, n)
    <3> SUFFICES ASSUME NEW i \in 1 .. n
                 PROVE  f[i] = IF i = 1 THEN tt[i] ELSE f[i - 1] \o tt[i]
      BY DEF FlattensTo
    <3>1. i \in 1 .. n + 1
      BY <1>1
    <3> QED
      BY <1>3, <3>1
  <2>4. \A i \in 1 .. n : f[i] = g[i]
    <3>1. n \in Nat
      BY <1>1
    <3>2. SameTo(tt, ss, n)
      BY <1>1 DEF SameTo
    <3>3. SameTo(f, g, n)
      BY <3>1, <3>2, <2>2, <2>3, FlattensAgree
    <3> QED
      BY <3>3 DEF SameTo
  <2>5. n \in 1 .. n /\ n + 1 \in 1 .. n + 1 /\ n + 1 # 1 /\ (n + 1) - 1 = n
    BY <1>1, <1>5
  <2>6. f[n + 1] = f[n] \o t
    BY <1>1, <1>3, <2>5
  <2> QED
    BY <1>2, <2>1, <2>4, <2>5, <2>6 DEF tt
<1> QED
  BY <1>4, <1>5

LEMMA FlattenType ==
  ASSUME NEW S, NEW ss \in Seq(Seq(S)) PROVE FlattenSeq(ss) \in Seq(S)
<1>1. CASE Len(ss) = 0
  <2>1. ss = <<>>
    BY <1>1
  <2> QED
    BY <2>1, FlattenNone, EmptySeq
<1>2. CASE Len(ss) # 0
  <2> DEFINE n == Len(ss)
  <2>1. n \in Nat /\ \A i \in 1 .. n : ss[i] \in Seq(S)
    OBVIOUS
  <2>2. PICK f : Flattens(f, ss) /\ FlattenSeq(ss) = f[n]
    BY <1>2, FlattenIs
  <2>3. \A i \in 1 .. n : f[i] = IF i = 1 THEN ss[i] ELSE f[i - 1] \o ss[i]
    BY <2>2 DEF Flattens
  <2> HIDE DEF n
  <2> DEFINE Bad == {i \in Nat : i \in 1 .. n /\ f[i] \notin Seq(S)}
  <2>4. 0 \notin Bad
    OBVIOUS
  <2>5. ASSUME NEW i \in Nat, i + 1 \in Bad PROVE i \in Bad
    <3>1. i + 1 \in 1 .. n /\ (i + 1) - 1 = i /\ f[i + 1] \notin Seq(S) /\ ss[i + 1] \in Seq(S)
      BY <2>1, <2>5
    <3>2. CASE i = 0
      BY <2>3, <3>1, <3>2
    <3>3. CASE i # 0
      <4>0. i \in 1 .. n /\ i + 1 # 1
        BY <2>1, <3>1, <3>3
      <4>1. f[i + 1] = f[i] \o ss[i + 1]
        BY <2>3, <3>1, <4>0
      <4>2. f[i] \notin Seq(S)
        BY <3>1, <4>1, ConcatProperties
      <4> QED
        BY <4>0, <4>2
    <3> QED
      BY <3>2, <3>3
  <2>6. Bad = {}
    BY <2>4, <2>5, ByStep
  <2> QED
    BY <1>2, <2>1, <2>2, <2>6 DEF n
<1> QED
  BY <1>1, <1>2

\* ... when each of them is known by its place.
LEMMA FlattenStep ==
  ASSUME NEW S, NEW n \in Nat, NEW tt \in Seq(Seq(S)), Len(tt) = n + 1,
         NEW ss, ss = [i \in 1 .. n |-> tt[i]]
  PROVE  /\ ss \in Seq(Seq(S)) /\ FlattenSeq(ss) \in Seq(S)
         /\ FlattenSeq(tt) = FlattenSeq(ss) \o tt[n + 1]
<1>1. \A i \in 1 .. n + 1 : tt[i] \in Seq(S)
  BY ElementOfSeq
<1>2. ss \in Seq(Seq(S)) /\ Len(ss) = n
  BY <1>1
<1>3. tt = Append(ss, tt[n + 1])
  <2>1. tt[n + 1] \in Seq(S)
    BY <1>1
  <2>2. /\ Append(ss, tt[n + 1]) \in Seq(Seq(S)) /\ Len(Append(ss, tt[n + 1])) = n + 1
        /\ Append(ss, tt[n + 1])[n + 1] = tt[n + 1]
        /\ \A i \in 1 .. n : Append(ss, tt[n + 1])[i] = ss[i]
    BY <1>2, <2>1, AppendProperties
  <2>3. \A i \in 1 .. n + 1 : tt[i] = Append(ss, tt[n + 1])[i]
    <3> SUFFICES ASSUME NEW i \in 1 .. n + 1 PROVE tt[i] = Append(ss, tt[n + 1])[i]
      OBVIOUS
    <3>1. i = n + 1 \/ i \in 1 .. n
      OBVIOUS
    <3> QED
      BY <2>2, <3>1
  <2> QED
    BY <2>2, <2>3, SeqEqual
<1>4. tt[n + 1] \in Seq(S)
  BY <1>1
<1> QED
  BY <1>2, <1>3, <1>4, FlattenMore, FlattenType

=============================================================================
