--------------------------- MODULE MessagesProofs ---------------------------
(***************************************************************************)
(* Proofs about Messages, for all clients, names and addresses: strings    *)
(* have one owner, and a message is spoilt only if it names a client whose *)
(* nick was freed; names are unique, and numbers have the length that was  *)
(* promised.                                                               *)
(*                                                                         *)
(* A handler writes a string only where none is allocated, and what is     *)
(* allocated is what the clients' nicks point to; so a block that points   *)
(* to a client's nick stays intact until that nick is freed, and then the  *)
(* client is in freed until the buffers are written.                       *)
(*                                                                         *)
(* The digits of a number add up to it, so different numbers have          *)
(* different digits; hence of more numbers than there are names in use one *)
(* makes a vacant name.                                                    *)
(***************************************************************************)
EXTENDS Messages, ListProofs

USE MessagesAssumption

-----------------------------------------------------------------------------
(* Powers *)

\* The powers up to the n-th.
PowersTo(n) ==
  {g \in [0 .. n -> Nat] :
     \A i \in 0 .. n : g[i] = IF i = 0 THEN 1 ELSE Base * g[i - 1]}

LEMMA PowersToExist == \A n \in Nat : PowersTo(n) # {}
<1> DEFINE Bad == {n \in Nat : PowersTo(n) = {}}
<1>1. 0 \notin Bad
  <2> DEFINE g == [i \in 0 .. 0 |-> 1]
  <2>1. g \in PowersTo(0)
    BY DEF PowersTo
  <2> QED
    BY <2>1
<1>2. ASSUME NEW n \in Nat, n + 1 \in Bad PROVE n \in Bad
  <2> SUFFICES ASSUME NEW g \in PowersTo(n) PROVE FALSE
    OBVIOUS
  <2> DEFINE h == [i \in 0 .. n + 1 |-> IF i = 0 THEN 1 ELSE Base * g[i - 1]]
  <2>1. \A i \in 0 .. n + 1 : i # 0 => i - 1 \in 0 .. n
    OBVIOUS
  <2>2. g \in [0 .. n -> Nat] /\ \A i \in 0 .. n : g[i] = IF i = 0 THEN 1 ELSE Base * g[i - 1]
    BY DEF PowersTo
  <2>3. \A i \in 0 .. n + 1 : i # 0 => Base * g[i - 1] \in Nat
    BY <2>1, <2>2
  <2>4. h \in [0 .. n + 1 -> Nat]
    BY <2>3
  <2>5. \A i \in 0 .. n : h[i] = g[i]
    BY <2>2
  <2>6. \A i \in 0 .. n + 1 : h[i] = IF i = 0 THEN 1 ELSE Base * h[i - 1]
    BY <2>1, <2>5
  <2>7. h \in PowersTo(n + 1)
    BY <2>4, <2>6 DEF PowersTo
  <2> QED
    BY <1>2, <2>7
<1>3. Bad = {}
  BY <1>1, <1>2, ByStep
<1> QED
  BY <1>3

LEMMA PowersToAgree ==
  ASSUME NEW n \in Nat, NEW m \in Nat, NEW g \in PowersTo(n), NEW h \in PowersTo(m)
  PROVE  \A i \in Nat : i <= n /\ i <= m => g[i] = h[i]
<1> DEFINE Off == {i \in Nat : i <= n /\ i <= m /\ g[i] # h[i]}
<1>1. 0 \notin Off
  BY DEF PowersTo
<1>2. ASSUME NEW i \in Nat, i + 1 \in Off PROVE i \in Off
  <2>1. /\ i + 1 \in 0 .. n /\ i + 1 \in 0 .. m
        /\ (i + 1) - 1 = i /\ i + 1 # 0 /\ g[i + 1] # h[i + 1]
    BY <1>2
  <2>2. g[i + 1] = Base * g[i] /\ h[i + 1] = Base * h[i]
    BY <2>1 DEF PowersTo
  <2> QED
    BY <2>1, <2>2
<1>3. Off = {}
  BY <1>1, <1>2, ByStep
<1> QED
  BY <1>3

\* The powers of the base, as the loops compute them.
LEMMA PowerSteps ==
  /\ Power[0] = 1
  /\ \A n \in Nat : Power[n] \in Nat /\ Power[n + 1] = Base * Power[n]
<1> DEFINE some[n \in Nat] == CHOOSE g : g \in PowersTo(n)
           f == [n \in Nat |-> some[n][n]]
<1>1. \A n \in Nat : some[n] \in PowersTo(n)
  BY PowersToExist
<1> HIDE DEF some
<1>2. f[0] = 1
  BY <1>1 DEF PowersTo
<1>3. ASSUME NEW n \in Nat PROVE f[n] \in Nat /\ f[n + 1] = Base * f[n]
  <2>1. some[n] \in PowersTo(n) /\ some[n + 1] \in PowersTo(n + 1) /\ n + 1 \in Nat
    BY <1>1
  <2>2. some[n][n] \in Nat
    BY <2>1 DEF PowersTo
  <2>3. some[n + 1][n] = some[n][n]
    BY <2>1, PowersToAgree
  <2>4. n + 1 \in 0 .. n + 1 /\ (n + 1) - 1 = n /\ n + 1 # 0
    OBVIOUS
  <2>5. some[n + 1][n + 1] = Base * some[n + 1][n]
    BY <2>1, <2>4 DEF PowersTo
  <2> QED
    BY <2>2, <2>3, <2>5
<1>4. f = [n \in Nat |-> IF n = 0 THEN 1 ELSE Base * f[n - 1]]
  <2>1. ASSUME NEW n \in Nat PROVE f[n] = IF n = 0 THEN 1 ELSE Base * f[n - 1]
    <3>1. CASE n = 0
      BY <3>1, <1>2
    <3>2. CASE n # 0
      <4>1. n - 1 \in Nat /\ (n - 1) + 1 = n
        BY <3>2
      <4> HIDE DEF f
      <4> QED
        BY <3>2, <4>1, <1>3
    <3> QED
      BY <3>1, <3>2
  <2>2. f = [n \in Nat |-> f[n]]
    OBVIOUS
  <2> HIDE DEF f
  <2> QED
    BY <2>1, <2>2
<1> HIDE DEF f
<1>5. Power = [n \in Nat |-> IF n = 0 THEN 1 ELSE Base * Power[n - 1]]
  BY <1>4 DEF Power
<1>6. Power[0] = 1 /\ \A n \in Nat : n # 0 => Power[n] = Base * Power[n - 1]
  BY <1>5
<1>7. \A n \in Nat : Power[n + 1] = Base * Power[n]
  BY <1>6
<1> DEFINE Bad == {n \in Nat : Power[n] \notin Nat}
<1>8. 0 \notin Bad
  BY <1>6
<1>9. ASSUME NEW n \in Nat, n + 1 \in Bad PROVE n \in Bad
  BY <1>7, <1>9
<1>10. Bad = {}
  BY <1>8, <1>9, ByStep
<1> QED
  BY <1>6, <1>7, <1>10

\* The powers grow faster than their number.
LEMMA PowerGrows == \A n \in Nat : Power[n] \in Nat /\ Power[n] > n
<1> DEFINE Bad == {n \in Nat : ~(Power[n] > n)}
<1>1. 0 \notin Bad
  BY PowerSteps
<1>2. ASSUME NEW n \in Nat, n + 1 \in Bad PROVE n \in Bad
  <2> SUFFICES ASSUME Power[n] > n PROVE FALSE
    OBVIOUS
  <2>1. Power[n + 1] = Base * Power[n] /\ Power[n] \in Nat
    BY PowerSteps
  <2>2. Base * Power[n] >= 2 * Power[n]
    BY <2>1
  <2> QED
    BY <1>2, <2>1, <2>2
<1>3. Bad = {}
  BY <1>1, <1>2, ByStep
<1> QED
  BY <1>3, PowerSteps

-----------------------------------------------------------------------------
(* Digits *)

\* One power more: the last digit is cut off.
LEMMA DivTwice ==
  ASSUME NEW x \in Nat, NEW y \in Nat \ {0}
  PROVE  x \div (Base * y) = (x \div y) \div Base
<1> DEFINE q == x \div y
           r == x % y
           s == q \div Base
           t == q % Base
<1>1. q \in Nat /\ r \in 0 .. y - 1 /\ x = y * q + r
  BY DivMod
<1>2. s \in Nat /\ t \in 0 .. Base - 1 /\ q = Base * s + t
  BY <1>1, DivMod
<1> HIDE DEF q, r, s, t
<1>3. y * q = (Base * y) * s + y * t
  BY <1>1, <1>2
<1>4. y * t <= y * (Base - 1) /\ y * t \in Nat
  BY <1>2
<1>5. y * (Base - 1) = Base * y - y /\ Base * y \in Nat \ {0}
  OBVIOUS
<1>6. y * t + r \in 0 .. Base * y - 1
  BY <1>1, <1>4, <1>5
<1>7. x = (Base * y) * s + (y * t + r)
  BY <1>1, <1>3, <1>4, <1>5, <1>2
<1>8. x \div (Base * y) = s
  BY <1>2, <1>5, <1>6, <1>7, DivIs
<1> QED
  BY <1>8 DEF q, s

\* Both loops stop at the first power the number without its last digit is
\* less than.
LEMMA LogStops ==
  ASSUME NEW n \in Nat
  PROVE  /\ Log(n) \in 0 .. n /\ n \div Base < Power[Log(n)]
         /\ \A j \in 0 .. Log(n) - 1 : n \div Base >= Power[j]
         /\ Divisor(n) = Log(n)
<1> DEFINE x == n \div Base
           I == {i \in 0 .. n : x < Power[i]}
<1>1. x \in Nat /\ x <= n
  <2>1. x \in Nat /\ n % Base \in Nat /\ n = Base * x + (n % Base)
    BY DivMod
  <2> HIDE DEF x
  <2>2. Base * x >= x
    BY <2>1
  <2> QED
    BY <2>1, <2>2
<1> HIDE DEF x
<1>2. n \in I
  BY <1>1, PowerGrows
<1>3. PICK i \in I : \A k \in I : i <= k
  <2>1. I \in SUBSET Nat
    OBVIOUS
  <2> HIDE DEF I
  <2> QED
    BY <1>2, <2>1, FirstPlace
<1>4. i \in 0 .. n /\ x < Power[i] /\ \A j \in 0 .. i - 1 : x >= Power[j]
  <2> SUFFICES ASSUME NEW j \in 0 .. i - 1, ~(x >= Power[j]) PROVE FALSE
    BY <1>3
  <2>1. j \in I
    BY <1>1, <1>3, PowerGrows
  <2> QED
    BY <1>3, <2>1
<1>5. \E k \in 0 .. n : x < Power[k] /\ \A j \in 0 .. k - 1 : x >= Power[j]
  BY <1>4
<1>6. Divisor(n) = Log(n)
  BY DEF Divisor, Log
<1> QED
  BY <1>5, <1>6 DEF Log, x

\* What the first digits of a number stand for
Prefix(n) == [i \in 0 .. Log(n) + 1 |-> n \div Power[Log(n) + 1 - i]]

LEMMA StrShape ==
  ASSUME NEW n \in Nat
  PROVE  /\ Log(n) \in Nat
         /\ NumberToStr(n) = [i \in 1 .. Log(n) + 1 |-> (n \div Power[Log(n) + 1 - i]) % Base]
         /\ NumberToStr(n) \in Seq(Nat) /\ Len(NumberToStr(n)) = Log(n) + 1
<1>1. Log(n) \in Nat /\ Divisor(n) = Log(n)
  BY LogStops
<1>2. NumberToStr(n) = [i \in 1 .. Log(n) + 1 |-> (n \div Power[Log(n) + 1 - i]) % Base]
  BY <1>1 DEF NumberToStr
<1>3. ASSUME NEW i \in 1 .. Log(n) + 1 PROVE (n \div Power[Log(n) + 1 - i]) % Base \in Nat
  <2>1. Power[Log(n) + 1 - i] \in Nat \ {0}
    BY <1>1, PowerGrows
  <2>2. n \div Power[Log(n) + 1 - i] \in Nat
    BY <2>1, DivMod
  <2> QED
    BY <2>2, DivMod
<1>4. NumberToStr(n) \in [1 .. Log(n) + 1 -> Nat]
  BY <1>2, <1>3
<1>5. NumberToStr(n) \in Seq(Nat)
  BY <1>1, <1>4, SeqDef
<1>6. Len(NumberToStr(n)) = Log(n) + 1
  BY <1>1, <1>4, <1>5, LenProperties
<1> QED
  BY <1>1, <1>2, <1>5, <1>6

\* The digits add up to the number.
LEMMA PrefixSteps ==
  ASSUME NEW n \in Nat
  PROVE  /\ Prefix(n)[0] = 0 /\ Prefix(n)[Log(n) + 1] = n
         /\ \A i \in 1 .. Log(n) + 1 :
              Prefix(n)[i] = Prefix(n)[i - 1] * Base + NumberToStr(n)[i]
         /\ \A i \in 0 .. Log(n) + 1 : Prefix(n)[i] \in Nat
<1> DEFINE k == Log(n)
<1>1. k \in Nat /\ n \div Base < Power[k]
  BY LogStops
<1> HIDE DEF k
<1>2. \A i \in Nat : Power[i] \in Nat \ {0} /\ Power[i + 1] = Base * Power[i]
  BY PowerGrows, PowerSteps
<1>3. Prefix(n) = [i \in 0 .. k + 1 |-> n \div Power[k + 1 - i]]
  BY DEF Prefix, k
<1>4. \A i \in 0 .. k + 1 : Prefix(n)[i] \in Nat
  <2> SUFFICES ASSUME NEW i \in 0 .. k + 1 PROVE n \div Power[k + 1 - i] \in Nat
    BY <1>3
  <2>1. k + 1 - i \in Nat
    BY <1>1
  <2> QED
    BY <1>2, <2>1, DivMod
<1>5. n \div Power[k + 1] = 0
  <2>1. /\ n \div Base \in Nat /\ n % Base \in 0 .. Base - 1
        /\ n = Base * (n \div Base) + (n % Base)
    BY DivMod
  <2>2. PICK x \in Nat : x = n \div Base
    BY <2>1
  <2>3. x + 1 <= Power[k] /\ n < Base * x + Base
    BY <1>1, <1>2, <2>1, <2>2
  <2>4. Base * (x + 1) <= Base * Power[k]
    <3>1. Power[k] \in Nat
      BY <1>1, <1>2
    <3> QED
      BY <2>3, <3>1, TimesGrows
  <2>5. Base * (x + 1) = Base * x + Base
    OBVIOUS
  <2>6. Power[k + 1] \in Nat \ {0} /\ n < Power[k + 1]
    BY <1>1, <1>2, <2>3, <2>4, <2>5
  <2>7. n = Power[k + 1] * 0 + n
    BY <2>6
  <2> QED
    BY <2>6, <2>7, DivIs
<1>6. n \div Power[0] = n
  <2>1. Power[0] = 1
    BY PowerSteps
  <2>2. n = 1 * n + 0
    OBVIOUS
  <2> QED
    BY <2>1, <2>2, DivIs
<1>7. Prefix(n)[0] = 0 /\ Prefix(n)[k + 1] = n
  <2>1. 0 \in 0 .. k + 1 /\ k + 1 \in 0 .. k + 1 /\ k + 1 - 0 = k + 1 /\ k + 1 - (k + 1) = 0
    BY <1>1
  <2> QED
    BY <1>3, <1>5, <1>6, <2>1
<1>8. ASSUME NEW i \in 1 .. k + 1
      PROVE  Prefix(n)[i] = Prefix(n)[i - 1] * Base + NumberToStr(n)[i]
  <2>1. PICK j \in Nat : j = k + 1 - i /\ k + 1 - (i - 1) = j + 1
    BY <1>1
  <2>2. i \in 0 .. k + 1 /\ i - 1 \in 0 .. k + 1
    BY <1>1
  <2>3. Prefix(n)[i] = n \div Power[j] /\ Prefix(n)[i - 1] = n \div (Base * Power[j])
    BY <1>2, <1>3, <2>1, <2>2
  <2>4. NumberToStr(n)[i] = (n \div Power[j]) % Base
    BY <2>1, StrShape DEF k
  <2>5. PICK x \in Nat : x = n \div Power[j]
    BY <1>2, DivMod
  <2>6. n \div (Base * Power[j]) = x \div Base
    BY <1>2, <2>5, DivTwice
  <2>7. x = Base * (x \div Base) + (x % Base) /\ x \div Base \in Nat
    BY DivMod
  <2>8. Base * (x \div Base) = (x \div Base) * Base
    BY <2>7
  <2> QED
    BY <2>3, <2>4, <2>5, <2>6, <2>7, <2>8
<1> QED
  BY <1>4, <1>7, <1>8 DEF k

\* What adds up the same digits is the same number.
LEMMA SameSum ==
  ASSUME NEW m \in Nat, NEW digits, NEW g, NEW h, g[0] = h[0],
         \A i \in 1 .. m : g[i] = g[i - 1] * Base + digits[i],
         \A i \in 1 .. m : h[i] = h[i - 1] * Base + digits[i]
  PROVE  \A i \in 0 .. m : g[i] = h[i]
<1> DEFINE Off == {i \in Nat : i <= m /\ g[i] # h[i]}
<1>1. 0 \notin Off
  OBVIOUS
<1>2. ASSUME NEW i \in Nat, i + 1 \in Off PROVE i \in Off
  <2>1. i + 1 \in 1 .. m /\ (i + 1) - 1 = i /\ g[i + 1] # h[i + 1]
    BY <1>2
  <2>2. g[i + 1] = g[i] * Base + digits[i + 1] /\ h[i + 1] = h[i] * Base + digits[i + 1]
    BY <2>1
  <2> QED
    BY <2>1, <2>2
<1>3. Off = {}
  BY <1>1, <1>2, ByStep
<1> QED
  BY <1>3

LEMMA StrInjective ==
  ASSUME NEW n \in Nat, NEW m \in Nat, NumberToStr(n) = NumberToStr(m)
  PROVE  n = m
<1>1. Log(n) = Log(m) /\ Log(n) \in Nat
  BY SMTT(30), StrShape
<1> DEFINE k == Log(n) + 1
           g == Prefix(n)
           h == Prefix(m)
           digits == NumberToStr(n)
<1>2. /\ k \in Nat /\ g[0] = h[0] /\ g[k] = n /\ h[k] = m
      /\ \A i \in 1 .. k : g[i] = g[i - 1] * Base + digits[i]
      /\ \A i \in 1 .. k : h[i] = h[i - 1] * Base + digits[i]
  BY <1>1, PrefixSteps
<1> HIDE DEF k, g, h, digits
<1>3. \A i \in 0 .. k : g[i] = h[i]
  BY <1>2, SameSum
<1> QED
  BY <1>2, <1>3

-----------------------------------------------------------------------------
(* Names *)

\* Different numbers make different names.
LEMMA NameInjective ==
  ASSUME NEW n \in Nat, NEW m \in Nat, NameOf(n) = NameOf(m)
  PROVE  n = m
<1> DEFINE s == NumberToStr(n)
           t == NumberToStr(m)
<1>1. s \in Seq(Nat) /\ t \in Seq(Nat) /\ <<p>> \o s = <<p>> \o t
  BY StrShape DEF NameOf
<1> HIDE DEF s, t
<1>2. /\ Len(<<p>> \o s) = Len(s) + 1 /\ Len(<<p>> \o t) = Len(t) + 1
      /\ \A i \in 1 .. Len(s) : (<<p>> \o s)[i + 1] = s[i]
      /\ \A i \in 1 .. Len(t) : (<<p>> \o t)[i + 1] = t[i]
  BY <1>1
<1>3. Len(s) = Len(t) /\ Len(s) \in Nat
  BY <1>1, <1>2
<1>4. \A i \in 1 .. Len(s) : s[i] = t[i]
  BY <1>1, <1>2, <1>3
<1>5. s = t
  BY <1>1, <1>3, <1>4, SeqEqual
<1> QED
  BY <1>5, StrInjective DEF s, t

\* Of the numbers up to how many names are in use, one makes a name that is
\* not: first_vacant_nick() ends, and with a vacant name.
LEMMA VacantIsVacant ==
  ASSUME NEW taken, IsFiniteSet(taken) PROVE FirstVacantNick(taken) \notin taken
<1>1. PICK k \in Nat : k = Cardinality(taken)
  BY FS_CardinalityType
<1>2. \E n \in 0 .. k : NameOf(n) \notin taken
  <2> SUFFICES ASSUME \A n \in 0 .. k : NameOf(n) \in taken PROVE FALSE
    OBVIOUS
  <2> DEFINE f == [n \in 0 .. k |-> NameOf(n)]
  <2>1. f \in [0 .. k -> taken]
    OBVIOUS
  <2>2. IsFiniteSet(0 .. k) /\ Cardinality(0 .. k) = k + 1
    BY FS_Interval
  <2> HIDE DEF f
  <2>3. \E n, m \in 0 .. k : n # m /\ f[n] = f[m]
    BY <1>1, <2>1, <2>2, FS_PigeonHole
  <2> QED
    BY <2>3, NameInjective DEF f
<1> DEFINE I == {n \in 0 .. k : NameOf(n) \notin taken}
<1>3. I \in SUBSET Nat /\ I # {}
  BY <1>2
<1> HIDE DEF I
<1>4. PICK n \in I : \A m \in I : n <= m
  BY <1>3, FirstPlace
<1>5. /\ n \in 0 .. k /\ NameOf(n) \notin taken
      /\ \A m \in 0 .. n - 1 : NameOf(m) \in taken
  BY <1>4 DEF I
<1>6. \E number \in 0 .. Cardinality(taken) :
        /\ NameOf(number) \notin taken
        /\ \A m \in 0 .. number - 1 : NameOf(m) \in taken
  BY <1>1, <1>5
<1> QED
  BY <1>6 DEF FirstVacantNick

LEMMA TakenFinite == IsFiniteSet(Taken)
<1>1. IsFiniteSet(Connected)
  BY FS_Subset DEF Connected
<1> QED
  <2> DEFINE f == [c \in Connected |-> string[nick[c]]]
  <2>1. f \in Surjection(Connected, Taken)
    BY DEF Surjection, Taken
  <2> QED
    BY <1>1, <2>1, FS_Surjection

-----------------------------------------------------------------------------
(* Lengths *)

\* The first digit is not 0.
LEMMA FirstDigit ==
  ASSUME NEW n \in Nat, n > 0 PROVE NumberToStr(n)[1] # 0
<1> DEFINE k == Log(n)
<1>1. k \in Nat /\ \A j \in 0 .. k - 1 : n \div Base >= Power[j]
  BY LogStops
<1> HIDE DEF k
<1>2. Power[k] \in Nat \ {0} /\ n >= Power[k]
  <2>1. CASE k = 0
    BY <2>1, PowerSteps
  <2>2. CASE k # 0
    <3>1. PICK j \in Nat : j = k - 1 /\ j + 1 = k
      BY <1>1, <2>2
    <3>2. Power[j] \in Nat /\ Power[k] = Base * Power[j] /\ Power[k] \in Nat /\ Power[k] > k
      BY <1>1, <3>1, PowerSteps, PowerGrows
    <3>3. PICK x \in Nat : x = n \div Base
      BY DivMod
    <3>4. n % Base \in Nat /\ n = Base * x + (n % Base)
      BY <3>3, DivMod
    <3>5. Power[j] <= x
      BY <1>1, <3>1, <3>3
    <3>6. Base * Power[j] <= Base * x
      BY <3>2, <3>5, TimesGrows
    <3> QED
      BY <1>1, <3>2, <3>4, <3>6
  <2> QED
    BY <2>1, <2>2, <1>1
<1>3. n \div Power[k] # 0
  <2>1. n % Power[k] \in 0 .. Power[k] - 1
        /\ n = Power[k] * (n \div Power[k]) + (n % Power[k])
    BY <1>2, DivMod
  <2>2. PICK y \in Nat : y = Power[k]
    BY <1>2
  <2> SUFFICES ASSUME n \div y = 0 PROVE FALSE
    BY <2>2
  <2>3. n = y * 0 + (n % y) /\ n % y < y /\ n % y \in Nat
    BY <1>2, <2>1, <2>2
  <2> QED
    BY <1>2, <2>2, <2>3
<1>4. Prefix(n)[1] = n \div Power[k]
  <2>1. 1 \in 0 .. k + 1 /\ k + 1 - 1 = k
    BY <1>1
  <2> QED
    BY <2>1 DEF Prefix, k
<1>5. 1 \in 1 .. k + 1 /\ 1 - 1 = 0
  BY <1>1
<1>6. Prefix(n)[1] = Prefix(n)[0] * Base + NumberToStr(n)[1] /\ Prefix(n)[0] = 0
  BY <1>5, PrefixSteps DEF k
<1>7. NumberToStr(n)[1] \in Nat
  <2>1. NumberToStr(n) \in Seq(Nat) /\ Len(NumberToStr(n)) = k + 1
    BY StrShape DEF k
  <2> QED
    BY <1>5, <2>1, ElementOfSeq
<1> QED
  BY <1>3, <1>4, <1>6, <1>7

\* The digits are as many as promised, and add up to the number.
AddsUp(digits, number, length) ==
  LET Value[i \in 0 .. Len(digits)] ==
        IF i = 0 THEN 0 ELSE Value[i - 1] * Base + digits[i]
  IN  /\ length = Len(digits)
      /\ Value[Len(digits)] = number
      /\ number > 0 => digits[1] # 0

\* What a block of a number promises is what is written of it.
LEMMA LengthExact ==
  ASSUME NEW n \in Nat PROVE AddsUp(NumberToStr(n), n, Log(n) + 1)
<1> DEFINE digits == NumberToStr(n)
           Value[i \in 0 .. Len(digits)] ==
             IF i = 0 THEN 0 ELSE Value[i - 1] * Base + digits[i]
           g == Prefix(n)
<1>1. Len(digits) = Log(n) + 1 /\ Log(n) \in Nat
  BY StrShape
<1>2. /\ g[0] = 0 /\ g[Len(digits)] = n
      /\ \A i \in 1 .. Len(digits) : g[i] = g[i - 1] * Base + digits[i]
      /\ g = [i \in 0 .. Len(digits) |-> g[i]]
  BY ZenonT(60), <1>1, PrefixSteps DEF Prefix
<1> HIDE DEF digits, g
<1>3. g = [i \in 0 .. Len(digits) |-> IF i = 0 THEN 0 ELSE g[i - 1] * Base + digits[i]]
  <2>1. ASSUME NEW i \in 0 .. Len(digits)
        PROVE  g[i] = IF i = 0 THEN 0 ELSE g[i - 1] * Base + digits[i]
    <3>1. CASE i = 0
      BY <1>2, <3>1
    <3>2. CASE i # 0
      <4>1. i \in 1 .. Len(digits)
        BY <1>1, <3>2
      <4> QED
        BY <1>2, <3>2, <4>1
    <3> QED
      BY <3>1, <3>2
  <2> QED
    BY <1>2, <2>1
<1>4. Value = [i \in 0 .. Len(digits) |-> IF i = 0 THEN 0 ELSE Value[i - 1] * Base + digits[i]]
  BY <1>3
<1> HIDE DEF Value
<1>5. Value[0] = 0 /\ \A i \in 1 .. Len(digits) : Value[i] = Value[i - 1] * Base + digits[i]
  BY <1>1, <1>4
<1>6. Value[Len(digits)] = n
  <2>1. PICK m \in Nat : m = Len(digits)
    BY <1>1
  <2>2. /\ g[0] = Value[0]
        /\ \A i \in 1 .. m : g[i] = g[i - 1] * Base + digits[i]
        /\ \A i \in 1 .. m : Value[i] = Value[i - 1] * Base + digits[i]
    BY <1>2, <1>5, <2>1
  <2>3. \A i \in 0 .. m : g[i] = Value[i]
    BY <2>2, SameSum
  <2> QED
    BY <1>2, <2>1, <2>3
<1>7. n > 0 => digits[1] # 0
  BY FirstDigit DEF digits
<1> QED
  BY <1>1, <1>6, <1>7 DEF digits, Value, AddsUp

-----------------------------------------------------------------------------
(* Strings and blocks *)

\* A block that names nobody who is gone: a number, a copy, or a pointer to
\* the nick of a client in the list.
Fresh(b) ==
  \/ b.kind = "number"
  \/ b.kind = "copy" /\ b.str = b.meant
  \/ /\ b.kind = "pointer" /\ b.of \in Connected
     /\ b.str = nick[b.of] /\ string[b.str] = b.meant

BlocksOK == \A b \in Blocks : Fresh(b) \/ (b.kind = "pointer" /\ b.of \in freed)

\* The inductive invariant.
MInv == TypeOK /\ StringsOwned /\ BlocksOK

LEMMA NickIsAllocated ==
  ASSUME MInv, NEW c \in Client, nick[c] # NULL
  PROVE  nick[c] \in allocated /\ nick[c] \in Address
BY DEF MInv, TypeOK, StringsOwned, Connected

\* What is fresh is written as it was meant.
LEMMA FreshIsIntact == ASSUME StringsOwned, NEW b, Fresh(b) PROVE Intact(b)
BY DEF Fresh, StringsOwned, Intact, Written

\* What the handlers add that no change of a nick can spoil
LEMMA CopyFresh == \A name : Fresh(Copy(name)) /\ Fresh(Copy(name))'
BY DEF Fresh, Copy

LEMMA NumberFresh == \A n : Fresh(Number(n)) /\ Fresh(Number(n))'
BY DEF Fresh, Number

\* A pointer to the nick a client has.
LEMMA PointerFresh ==
  ASSUME NEW c \in Client, NEW address, NEW name,
         nick'[c] = address, address # NULL, string'[address] = name
  PROVE  Fresh(Pointer(c, address, name))'
BY DEF Fresh, Pointer, Connected

\* Who has been freed, or keeps its nick and the string it points to
NicksKept ==
  \A c \in Connected :
    \/ c \in freed'
    \/ nick'[c] = nick[c] /\ string'[nick[c]] = string[nick[c]]

LEMMA StaysFresh ==
  ASSUME NicksKept, NEW b, Fresh(b)
  PROVE  Fresh(b)' \/ (b.kind = "pointer" /\ b.of \in freed')
<1>1. CASE b.kind = "pointer" /\ b.of \in Connected
           /\ b.str = nick[b.of] /\ string[b.str] = b.meant
  <2>1. CASE b.of \in freed'
    BY <1>1, <2>1
  <2>2. CASE nick'[b.of] = nick[b.of] /\ string'[nick[b.of]] = string[nick[b.of]]
    BY <1>1, <2>2 DEF Fresh, Connected
  <2> QED
    BY <1>1, <2>1, <2>2 DEF NicksKept
<1>2. CASE b.kind = "number" \/ (b.kind = "copy" /\ b.str = b.meant)
  BY <1>2 DEF Fresh
<1> QED
  BY <1>1, <1>2 DEF Fresh

\* Which blocks a handler adds to a buffer, and that they are in order.
AddsFresh == \A c \in Client : \A b \in write_buf'[c] \ write_buf[c] : Fresh(b)'
AddsIntact ==
  \A c \in Client : \A b \in write_buf'[c] \ write_buf[c] :
    \/ Intact(b)'
    \/ \E r \in orphans : b.of = r.client /\ b.meant = r.name

\* A step that keeps nicks, or counts them as freed, keeps the invariant when
\* what it adds is fresh or names one that was freed.
LEMMA BlocksStay ==
  ASSUME MInv, NicksKept, freed \subseteq freed',
         \A c \in Client : \A b \in write_buf'[c] \ write_buf[c] :
           Fresh(b)' \/ (b.kind = "pointer" /\ b.of \in freed')
  PROVE  BlocksOK'
<1> SUFFICES ASSUME NEW b \in Blocks'
             PROVE  Fresh(b)' \/ (b.kind = "pointer" /\ b.of \in freed')
  BY DEF BlocksOK
<1>1. PICK c \in Client : b \in write_buf'[c]
  BY DEF Blocks
<1>2. CASE b \in write_buf[c]
  <2>1. Fresh(b) \/ (b.kind = "pointer" /\ b.of \in freed)
    BY <1>2 DEF MInv, BlocksOK, Blocks
  <2> QED
    BY <2>1, StaysFresh
<1>3. CASE b \notin write_buf[c]
  BY <1>1, <1>3
<1> QED
  BY <1>2, <1>3

\* The handlers that announce no request of one who has left.
LEMMA FreshStep ==
  ASSUME MInv, TypeOK', StringsOwned', NicksKept, freed \subseteq freed', AddsFresh
  PROVE  MInv' /\ AddsIntact
<1>1. BlocksOK'
  BY BlocksStay DEF AddsFresh
<1>2. ASSUME NEW b, Fresh(b)' PROVE Intact(b)'
  BY <1>2, FreshIsIntact DEF Fresh, StringsOwned, Intact, Written
<1>3. AddsIntact
  BY <1>2 DEF AddsFresh, AddsIntact
<1> QED
  BY <1>1, <1>3 DEF MInv

-----------------------------------------------------------------------------
LEMMA InitMessages == Init => MInv
BY DEF Init, MInv, TypeOK, StringsOwned, BlocksOK, Connected, Blocks

LEMMA ConnectMessages ==
  ASSUME MInv, NEW c \in Client, Connect(c) PROVE MInv' /\ AddsIntact
<1>1. PICK address \in Address \ allocated, told \in SUBSET Connected :
        /\ nick' = [nick EXCEPT ![c] = address]
        /\ allocated' = allocated \cup {address}
        /\ string' = [string EXCEPT ![address] = FirstVacantNick(Taken)]
        /\ write_buf' = [d \in Client |->
             CASE d = c       -> {Pointer(c, address, FirstVacantNick(Taken))}
               [] d \in told  -> write_buf[d] \cup
                                   {Pointer(c, address, FirstVacantNick(Taken)),
                                    Number(Cardinality(Connected) + 1)}
               [] OTHER       -> write_buf[d]]
  BY DEF Connect
<1>2. nick[c] = NULL /\ UNCHANGED <<orphans, freed>> /\ handlers' \in 0 .. MaxHandlers
  BY DEF Connect, Handler, MInv, TypeOK
<1>3. PICK name, number : name = FirstVacantNick(Taken) /\ number = Cardinality(Connected) + 1
  OBVIOUS
<1>4. \A d \in Client : \A b \in write_buf'[d] \ write_buf[d] :
        b = Pointer(c, address, name) \/ b = Number(number)
  BY <1>1, <1>3
<1>5. /\ string'[address] = name /\ nick'[c] = address /\ address # NULL
      /\ \A other \in allocated : string'[other] = string[other]
  BY <1>1, <1>3 DEF MInv, TypeOK
<1>6. TypeOK'
  BY <1>1, <1>2 DEF MInv, TypeOK
<1>7. StringsOwned'
  BY <1>1, <1>2 DEF MInv, TypeOK, StringsOwned, Connected
<1>8. NicksKept
  BY <1>1, <1>2, <1>5, NickIsAllocated DEF NicksKept, Connected, MInv, TypeOK
<1>9. AddsFresh
  <2>1. ASSUME NEW b, b = Pointer(c, address, name) \/ b = Number(number) PROVE Fresh(b)'
    BY <1>5, <2>1, PointerFresh, NumberFresh
  <2> QED
    BY <1>4, <2>1 DEF AddsFresh
<1> QED
  BY <1>2, <1>6, <1>7, <1>8, <1>9, FreshStep

\* Handlers that only mention clients, and perhaps a string that is not kept.
LEMMA MentionMessages ==
  ASSUME MInv, NEW c \in Client, nick[c] # NULL, handlers' \in 0 .. MaxHandlers,
         UNCHANGED <<nick, allocated, orphans, freed>>,
         string' = [address \in Address |-> string'[address]],
         \A address \in allocated : string'[address] = string[address],
         write_buf' = [d \in Client |-> write_buf'[d]],
         \A d \in Client : \A b \in write_buf'[d] \ write_buf[d] :
           \/ \E e \in Connected : b = Mention(e)
           \/ \E number : b = Number(number)
  PROVE  MInv' /\ AddsIntact
<1>1. TypeOK'
  BY DEF MInv, TypeOK
<1>2. StringsOwned'
  BY DEF MInv, StringsOwned, Connected
<1>3. \A e \in Connected : string'[nick[e]] = string[nick[e]]
  BY NickIsAllocated DEF Connected
<1>4. NicksKept
  BY <1>3 DEF NicksKept
<1>5. AddsFresh
  <2> SUFFICES ASSUME NEW d \in Client, NEW b \in write_buf'[d] \ write_buf[d]
               PROVE  Fresh(b)'
    BY DEF AddsFresh
  <2>1. ASSUME NEW e \in Connected, b = Mention(e) PROVE Fresh(b)'
    BY <1>3, <2>1 DEF Mention, Pointer, Fresh, Connected
  <2> QED
    BY <2>1, NumberFresh
<1> QED
  BY <1>1, <1>2, <1>4, <1>5, FreshStep

LEMMA AnswerMessages ==
  ASSUME MInv, NEW c \in Client,
         \/ PrintNick(c)
         \/ \E number \in ShownNumber : ShowNumber(c, number)
         \/ \E named, told \in SUBSET Connected : NameClients(c, named, told)
  PROVE  MInv' /\ AddsIntact
<1>1. /\ nick[c] # NULL /\ handlers' \in 0 .. MaxHandlers
      /\ UNCHANGED <<nick, allocated, string, orphans, freed>>
  BY DEF PrintNick, ShowNumber, NameClients, Handler, MInv, TypeOK
<1>2. string' = [address \in Address |-> string'[address]]
  BY <1>1 DEF MInv, TypeOK
<1>3. c \in Connected
  BY <1>1 DEF Connected
<1> DEFINE Mentions ==
             /\ write_buf' = [d \in Client |-> write_buf'[d]]
             /\ \A d \in Client : \A b \in write_buf'[d] \ write_buf[d] :
                  \/ \E e \in Connected : b = Mention(e)
                  \/ \E number : b = Number(number)
<1>4. Mentions
  <2>1. CASE PrintNick(c)
    BY <1>3, <2>1 DEF PrintNick, MInv, TypeOK
  <2>2. ASSUME NEW number \in ShownNumber, ShowNumber(c, number) PROVE Mentions
    BY <1>3, <2>2 DEF ShowNumber, MInv, TypeOK
  <2>3. ASSUME NEW named \in SUBSET Connected, NEW told \in SUBSET Connected,
               NameClients(c, named, told)
        PROVE  Mentions
    BY <1>3, <2>3 DEF NameClients, MInv, TypeOK
  <2> QED
    BY <2>1, <2>2, <2>3
<1> QED
  BY <1>1, <1>2, <1>4, MentionMessages

LEMMA RefuseMessages ==
  ASSUME MInv, NEW c \in Client, NEW name \in AskedName, RefuseNick(c, name)
  PROVE  MInv' /\ AddsIntact
<1>1. PICK address \in Address \ allocated : string' = [string EXCEPT ![address] = name]
  BY DEF RefuseNick
<1>2. /\ nick[c] # NULL /\ handlers' \in 0 .. MaxHandlers
      /\ UNCHANGED <<nick, allocated, orphans, freed>>
      /\ write_buf' = [write_buf EXCEPT ![c] = @ \cup {Mention(c)}]
  BY DEF RefuseNick, Handler, MInv, TypeOK
<1>3. /\ string' = [a \in Address |-> string'[a]]
      /\ \A a \in allocated : string'[a] = string[a]
  BY <1>1 DEF MInv, TypeOK
<1>4. /\ write_buf' = [d \in Client |-> write_buf'[d]]
      /\ \A d \in Client : \A b \in write_buf'[d] \ write_buf[d] :
           \/ \E e \in Connected : b = Mention(e)
           \/ \E number : b = Number(number)
  BY <1>2 DEF MInv, TypeOK, Connected
<1> QED
  BY <1>2, <1>3, <1>4, MentionMessages

LEMMA ChangeMessages ==
  ASSUME MInv, NEW c \in Client, NEW name \in AskedName, ChangeNick(c, name)
  PROVE  MInv' /\ AddsIntact
<1>1. PICK address \in Address \ allocated :
        /\ nick' = [nick EXCEPT ![c] = address]
        /\ allocated' = (allocated \ {nick[c]}) \cup {address}
        /\ string' = [string EXCEPT ![address] = name]
        /\ write_buf' = [d \in Client |->
             CASE d = c                 -> write_buf[d] \cup {Pointer(c, address, name)}
               [] d \in Connected \ {c} -> write_buf[d] \cup
                                             {Copy(string[nick[c]]), Pointer(c, address, name)}
               [] OTHER                 -> write_buf[d]]
  BY DEF ChangeNick
<1>2. /\ nick[c] # NULL /\ freed' = freed \cup {c} /\ orphans' = orphans
      /\ handlers' \in 0 .. MaxHandlers
  BY DEF ChangeNick, Handler, MInv, TypeOK
<1>3. /\ string'[address] = name /\ nick'[c] = address /\ address # NULL
      /\ \A other \in allocated : string'[other] = string[other]
  BY <1>1 DEF MInv, TypeOK
<1>4. TypeOK'
  BY <1>1, <1>2 DEF MInv, TypeOK
<1>5. StringsOwned'
  BY <1>1, <1>2 DEF MInv, TypeOK, StringsOwned, Connected
<1>6. NicksKept
  BY <1>1, <1>2, <1>3, NickIsAllocated DEF NicksKept, Connected, MInv, TypeOK
<1>7. AddsFresh
  <2> SUFFICES ASSUME NEW d \in Client, NEW b \in write_buf'[d] \ write_buf[d]
               PROVE  Fresh(b)'
    BY DEF AddsFresh
  <2>1. b \in {Pointer(c, address, name), Copy(string[nick[c]])}
    BY <1>1, <1>3
  <2>2. Fresh(Pointer(c, address, name))'
    BY <1>3, PointerFresh
  <2> QED
    BY <2>1, <2>2, CopyFresh
<1> QED
  BY <1>2, <1>4, <1>5, <1>6, <1>7, FreshStep

LEMMA DisconnectMessages ==
  ASSUME MInv, NEW c \in Client, Disconnect(c) PROVE MInv' /\ AddsIntact
<1>1. /\ nick[c] # NULL /\ freed' = freed \cup {c} /\ handlers' \in 0 .. MaxHandlers
      /\ nick' = [nick EXCEPT ![c] = NULL] /\ string' = string
      /\ allocated' = allocated \ {nick[c]}
      /\ write_buf' = [d \in Client |->
           CASE d = c          -> {}
             [] d \in Connected \ {c} -> write_buf[d] \cup {Copy(string[nick[c]])}
             [] OTHER          -> write_buf[d]]
  BY DEF Disconnect, Farewell, Handler, MInv, TypeOK
<1>2. \A r \in orphans' : r.client \in Client
  BY DEF Disconnect, LeaveRequests, MInv, TypeOK
<1>3. TypeOK'
  BY <1>1, <1>2 DEF MInv, TypeOK
<1>4. StringsOwned'
  BY <1>1 DEF MInv, TypeOK, StringsOwned, Connected
<1>5. NicksKept
  BY <1>1 DEF NicksKept, Connected, MInv, TypeOK
<1>6. AddsFresh
  <2> SUFFICES ASSUME NEW d \in Client, NEW b \in write_buf'[d] \ write_buf[d]
               PROVE  Fresh(b)'
    BY DEF AddsFresh
  <2>1. b = Copy(string[nick[c]])
    BY <1>1
  <2> QED
    BY <2>1, CopyFresh
<1> QED
  BY <1>1, <1>3, <1>4, <1>5, <1>6, FreshStep

\* The month's end announces requests whose clients have left: these are the
\* only blocks that may not be intact, and they name who was freed.
LEMMA EndMonthMessages ==
  ASSUME MInv, NEW c \in Client, NEW named \in SUBSET Connected,
         NEW served \in SUBSET orphans, EndMonth(c, named, served)
  PROVE  MInv' /\ AddsIntact
<1>1. PICK at \in [served -> Address] :
        write_buf' = [d \in Client |->
          IF d \in Connected
            THEN write_buf[d] \cup {Mention(e) : e \in named \cup {c}}
                   \cup {Announcement(r, at[r]) : r \in {q \in served : q.client # d}}
            ELSE write_buf[d]]
  BY DEF EndMonth
<1>2. /\ nick[c] # NULL /\ handlers' \in 0 .. MaxHandlers /\ orphans' = {}
      /\ freed' = freed \cup {r.client : r \in served}
      /\ UNCHANGED <<nick, allocated, string>>
  BY DEF EndMonth, Handler, MInv, TypeOK
<1>3. TypeOK'
  BY <1>1, <1>2 DEF MInv, TypeOK
<1>4. StringsOwned'
  BY <1>2 DEF MInv, StringsOwned, Connected
<1>5. NicksKept
  BY <1>2 DEF NicksKept
<1>6. ASSUME NEW d \in Client, NEW b \in write_buf'[d] \ write_buf[d]
      PROVE  \/ \E e \in Connected : b = Mention(e)
             \/ \E r \in served : b = Announcement(r, at[r])
  <2>1. c \in Connected
    BY <1>2 DEF Connected
  <2> QED
    BY <1>1, <1>6, <2>1
<1>8. ASSUME NEW e \in Connected, NEW b, b = Mention(e) PROVE Fresh(b)' /\ Intact(b)'
  <2>1. Fresh(b)'
    BY <1>2, <1>8 DEF Mention, Pointer, Fresh, Connected
  <2> QED
    BY <1>4, <2>1 DEF Fresh, StringsOwned, Intact, Written
<1>9. ASSUME NEW r \in served, NEW b, b = Announcement(r, at[r])
      PROVE  /\ b.kind = "pointer" /\ b.of \in freed'
             /\ r \in orphans /\ b.of = r.client /\ b.meant = r.name
  BY <1>2, <1>9 DEF Announcement
<1>10. BlocksOK'
  <2>1. freed \subseteq freed'
    BY <1>2
  <2>2. \A d \in Client : \A b \in write_buf'[d] \ write_buf[d] :
          Fresh(b)' \/ (b.kind = "pointer" /\ b.of \in freed')
    BY <1>6, <1>8, <1>9
  <2> QED
    BY <1>5, <2>1, <2>2, BlocksStay
<1>11. AddsIntact
  BY <1>6, <1>8, <1>9 DEF AddsIntact
<1> QED
  BY <1>3, <1>4, <1>10, <1>11 DEF MInv

\* A new round adds nothing, nor do the writes, which leave nothing.
LEMMA OtherMessages ==
  ASSUME MInv, NewRound \/ WriteBuffers \/ UNCHANGED vars
  PROVE  MInv' /\ (NewRound \/ WriteBuffers => AddsIntact)
<1>1. CASE WriteBuffers
  <2>1. TypeOK' /\ StringsOwned' /\ AddsIntact
    BY <1>1 DEF WriteBuffers, MInv, TypeOK, StringsOwned, Connected, AddsIntact
  <2>2. Blocks' = {}
    BY <1>1 DEF WriteBuffers, Blocks
  <2> QED
    BY <2>1, <2>2 DEF MInv, BlocksOK
<1>2. CASE NewRound
  <2>1. /\ UNCHANGED <<nick, allocated, string, write_buf, freed>>
        /\ orphans' = {} /\ handlers' \in 0 .. MaxHandlers
    BY <1>2 DEF NewRound, Handler, MInv, TypeOK
  <2>2. TypeOK' /\ StringsOwned' /\ AddsIntact
    BY <2>1 DEF MInv, TypeOK, StringsOwned, Connected, AddsIntact
  <2>3. BlocksOK'
    BY <2>1 DEF MInv, BlocksOK, Blocks, Fresh, Connected
  <2> QED
    BY <2>2, <2>3 DEF MInv
<1>3. CASE UNCHANGED vars /\ ~NewRound /\ ~WriteBuffers
  BY <1>3 DEF vars, MInv, TypeOK, StringsOwned, BlocksOK, Connected, Blocks, Fresh
<1> QED
  BY <1>1, <1>2, <1>3

LEMMA StepMessages == MInv /\ [Next]_vars => MInv' /\ [AddsIntact]_vars
BY ConnectMessages, AnswerMessages, RefuseMessages, ChangeMessages, DisconnectMessages,
   EndMonthMessages, OtherMessages
   DEF Next

-----------------------------------------------------------------------------
(* Names in use, and numbers in buffers *)

\* A name nobody has is written where no string is: it is the client's only.
LEMMA NewNameUnique ==
  ASSUME MInv, NicksUnique, NEW c \in Client, NEW name, name \notin Taken,
         NEW address \in Address \ allocated,
         nick' = [nick EXCEPT ![c] = address], string' = [string EXCEPT ![address] = name]
  PROVE  NicksUnique'
<1>1. /\ nick'[c] = address /\ string'[address] = name
      /\ \A d \in Client : d # c => nick'[d] = nick[d]
  BY DEF MInv, TypeOK
<1>2. ASSUME NEW d \in Client, d # c, nick'[d] # NULL
      PROVE  /\ d \in Connected /\ string'[nick'[d]] = string[nick[d]]
             /\ string[nick[d]] # name
  <2>1. d \in Connected /\ nick'[d] = nick[d]
    BY <1>1, <1>2 DEF Connected
  <2>2. nick[d] \in allocated /\ nick[d] \in Address
    BY <1>1, <1>2, NickIsAllocated
  <2>3. string'[nick[d]] = string[nick[d]]
    BY <2>2 DEF MInv, TypeOK
  <2> QED
    BY <2>1, <2>3 DEF Taken
<1>3. ASSUME NEW d \in Connected', NEW e \in Connected',
             string'[nick'[d]] = string'[nick'[e]]
      PROVE  d = e
  <2>1. d \in Client /\ e \in Client /\ nick'[d] # NULL /\ nick'[e] # NULL
    BY DEF Connected
  <2>2. CASE d # c /\ e # c
    BY <1>2, <1>3, <2>1, <2>2 DEF NicksUnique
  <2>3. CASE d = c \/ e = c
    BY <1>1, <1>2, <1>3, <2>1, <2>3
  <2> QED
    BY <2>2, <2>3
<1> QED
  BY <1>3 DEF NicksUnique

\* Who keeps its nick keeps its name.
LEMMA OldNamesUnique ==
  ASSUME MInv, NicksUnique, \A d \in Client : nick'[d] \in {nick[d], NULL},
         \A address \in allocated : string'[address] = string[address]
  PROVE  NicksUnique'
<1>1. ASSUME NEW d \in Connected'
      PROVE  d \in Connected /\ string'[nick'[d]] = string[nick[d]]
  <2>1. d \in Connected /\ d \in Client /\ nick[d] # NULL /\ nick'[d] = nick[d]
    BY DEF Connected
  <2> QED
    BY <2>1, NickIsAllocated
<1> QED
  BY <1>1 DEF NicksUnique

LEMMA NicksStep == MInv /\ NicksUnique /\ [Next]_vars => NicksUnique'
<1> SUFFICES ASSUME MInv, NicksUnique, [Next]_vars PROVE NicksUnique'
  OBVIOUS
<1>1. ASSUME NEW c \in Client, Connect(c) PROVE NicksUnique'
  BY <1>1, NewNameUnique, VacantIsVacant, TakenFinite DEF Connect
<1>2. ASSUME NEW c \in Client, NEW name \in AskedName, ChangeNick(c, name)
      PROVE  NicksUnique'
  BY <1>2, NewNameUnique DEF ChangeNick
<1>3. ASSUME NEW c \in Client, NEW name \in AskedName, RefuseNick(c, name)
      PROVE  NicksUnique'
  BY <1>3, OldNamesUnique DEF RefuseNick, MInv, TypeOK
<1>4. ASSUME NEW c \in Client, Disconnect(c) PROVE NicksUnique'
  BY <1>4, OldNamesUnique DEF Disconnect, MInv, TypeOK
<1>5. ASSUME UNCHANGED <<nick, string>> PROVE NicksUnique'
  BY <1>5, OldNamesUnique
<1> QED
  BY <1>1, <1>2, <1>3, <1>4, <1>5
     DEF Next, PrintNick, ShowNumber, NameClients, EndMonth, NewRound, WriteBuffers, vars

\* The blocks that hold a number were made of one.
NumbersShown ==
  \A b \in Blocks : b.kind = "number" => \E n \in Nat : b = Number(n)

LEMMA NumbersStay ==
  ASSUME NumbersShown,
         \A c \in Client : \A b \in write_buf'[c] \ write_buf[c] :
           b.kind = "number" => \E n \in Nat : b = Number(n)
  PROVE  NumbersShown'
<1> SUFFICES ASSUME NEW b \in Blocks', b.kind = "number"
             PROVE  \E n \in Nat : b = Number(n)
  BY DEF NumbersShown
<1>1. PICK c \in Client : b \in write_buf'[c]
  BY DEF Blocks
<1>2. CASE b \in write_buf[c]
  BY <1>2 DEF NumbersShown, Blocks
<1> QED
  BY <1>1, <1>2

\* Blocks that hold a name
LEMMA NamesAreNoNumbers ==
  /\ \A c, address, name : Pointer(c, address, name).kind # "number"
  /\ \A c : Mention(c).kind # "number"
  /\ \A name : Copy(name).kind # "number"
  /\ \A c : Farewell(c).kind # "number"
  /\ \A r, address : Announcement(r, address).kind # "number"
BY DEF Pointer, Mention, Copy, Farewell, Announcement

LEMMA NumbersStep == MInv /\ NumbersShown /\ [Next]_vars => NumbersShown'
<1> SUFFICES ASSUME MInv, NumbersShown, [Next]_vars PROVE NumbersShown'
  OBVIOUS
<1>1. ASSUME NEW c \in Client, Connect(c) PROVE NumbersShown'
  <2> DEFINE name == FirstVacantNick(Taken)
  <2>1. PICK address \in Address \ allocated, told \in SUBSET Connected :
          write_buf' = [d \in Client |->
             CASE d = c       -> {Pointer(c, address, name)}
               [] d \in told  -> write_buf[d] \cup
                                   {Pointer(c, address, name),
                                    Number(Cardinality(Connected) + 1)}
               [] OTHER       -> write_buf[d]]
    BY <1>1 DEF Connect
  <2>2. Cardinality(Connected) + 1 \in Nat
    BY FS_Subset, FS_CardinalityType DEF Connected
  <2> HIDE DEF name
  <2>3. \A d \in Client : \A b \in write_buf'[d] \ write_buf[d] :
          b \in {Pointer(c, address, name), Number(Cardinality(Connected) + 1)}
    BY <2>1
  <2> QED
    BY <2>2, <2>3, NumbersStay, NamesAreNoNumbers
<1>2. ASSUME NEW c \in Client, NEW number \in ShownNumber, ShowNumber(c, number)
      PROVE  NumbersShown'
  <2>1. \A d \in Client : \A b \in write_buf'[d] \ write_buf[d] :
          b \in {Number(number), Mention(c)}
    BY <1>2 DEF ShowNumber, MInv, TypeOK
  <2> QED
    BY <2>1, NumbersStay, NamesAreNoNumbers
<1>3. ASSUME NEW c \in Client, NEW name \in AskedName, ChangeNick(c, name)
      PROVE  NumbersShown'
  <2>1. PICK address \in Address :
          write_buf' = [d \in Client |->
             CASE d = c                 -> write_buf[d] \cup {Pointer(c, address, name)}
               [] d \in Connected \ {c} -> write_buf[d] \cup
                                             {Copy(string[nick[c]]), Pointer(c, address, name)}
               [] OTHER                 -> write_buf[d]]
    BY <1>3 DEF ChangeNick
  <2>2. \A d \in Client : \A b \in write_buf'[d] \ write_buf[d] :
          b \in {Pointer(c, address, name), Copy(string[nick[c]])}
    BY <2>1
  <2> QED
    BY <2>2, NumbersStay, NamesAreNoNumbers
<1>4. ASSUME NEW c \in Client,
             \/ PrintNick(c)
             \/ \E name \in AskedName : RefuseNick(c, name)
             \/ \E named, told \in SUBSET Connected : NameClients(c, named, told)
      PROVE  NumbersShown'
  <2>1. \A d \in Client : \A b \in write_buf'[d] \ write_buf[d] : \E e : b = Mention(e)
    BY <1>4 DEF PrintNick, RefuseNick, NameClients, MInv, TypeOK
  <2> QED
    BY <2>1, NumbersStay, NamesAreNoNumbers
<1>5. ASSUME NEW c \in Client, Disconnect(c) PROVE NumbersShown'
  <2>1. \A d \in Client : \A b \in write_buf'[d] \ write_buf[d] : b = Farewell(c)
    BY <1>5 DEF Disconnect
  <2> QED
    BY <2>1, NumbersStay, NamesAreNoNumbers
<1>6. ASSUME NewRound \/ WriteBuffers \/ UNCHANGED vars PROVE NumbersShown'
  <2>1. \A d \in Client : write_buf'[d] \ write_buf[d] = {}
    BY <1>6 DEF NewRound, WriteBuffers, vars
  <2> QED
    BY <2>1, NumbersStay
<1>7. ASSUME NEW c \in Client, NEW named \in SUBSET Connected,
             NEW served \in SUBSET orphans, EndMonth(c, named, served)
      PROVE  NumbersShown'
  <2>1. \A d \in Client : \A b \in write_buf'[d] \ write_buf[d] :
          (\E e : b = Mention(e)) \/ \E r, address : b = Announcement(r, address)
    BY <1>7 DEF EndMonth
  <2> QED
    BY <2>1, NumbersStay, NamesAreNoNumbers
<1> QED
  BY <1>1, <1>2, <1>3, <1>4, <1>5, <1>6, <1>7 DEF Next

\* What is known of a number's block is what the run checks of it.
LEMMA NumberLength ==
  ASSUME NumbersShown, NEW b \in Blocks, b.kind = "number"
  PROVE  AddsUp(Written(b), b.meant, b.length)
<1>1. PICK n \in Nat : b = Number(n)
  BY DEF NumbersShown
<1>2. Written(b) = NumberToStr(n) /\ b.length = Log(n) + 1 /\ b.meant = n
  BY <1>1 DEF Written, Number
<1> QED
  BY <1>2, LengthExact

-----------------------------------------------------------------------------
(* The theorems *)

THEOREM MessagesInductive == Spec => []MInv
BY InitMessages, StepMessages, PTL DEF Spec

\* Types, of the names, their strings and the buffers.
THEOREM MessagesTypes == Spec => []TypeOK
<1>1. MInv => TypeOK
  BY DEF MInv
<1> QED
  BY <1>1, MessagesInductive, PTL

\* Each string has one owner, through every change of name, refused or not.
THEOREM StringsAreOwned == Spec => []StringsOwned
<1>1. MInv => StringsOwned
  BY DEF MInv
<1> QED
  BY <1>1, MessagesInductive, PTL

\* Only messages that name a client whose nick was freed are spoilt.
THEOREM OnlyTheFreedAreSpoilt == Spec => []SpoiltOnlyIfFreed
<1>1. MInv => SpoiltOnlyIfFreed
  BY FreshIsIntact DEF MInv, BlocksOK, SpoiltOnlyIfFreed
<1> QED
  BY <1>1, MessagesInductive, PTL

\* No handler spoils a message of its own, but for the announcement of a
\* request that was left behind.
THEOREM OwnMessagesStay == Spec => OwnMessagesIntact
<1>1. MInv /\ [Next]_vars =>
        [\A c \in Client : \A b \in write_buf'[c] \ write_buf[c] :
           \/ Intact(b)'
           \/ \E r \in orphans : b.of = r.client /\ b.meant = r.name]_vars
  BY StepMessages DEF AddsIntact
<1> QED
  BY <1>1, MessagesInductive, PTL DEF Spec, OwnMessagesIntact

\* No two clients have one name: the search for a vacant one ends, whatever
\* names were asked for, because different numbers are written differently.
THEOREM NicksStayUnique == Spec => []NicksUnique
<1>1. Init => NicksUnique
  BY DEF Init, NicksUnique, Connected
<1> QED
  BY <1>1, NicksStep, MessagesInductive, PTL DEF Spec

\* The length a block of a number promises is that of its digits, and they
\* add up to it, for every base and number.
THEOREM NumbersAreExact == Spec => []LengthsExact
<1>1. Init => NumbersShown
  BY DEF Init, NumbersShown, Blocks
<1>2. NumbersShown => LengthsExact
  BY NumberLength DEF LengthsExact, AddsUp
<1> QED
  BY <1>1, <1>2, NumbersStep, MessagesInductive, PTL DEF Spec

=============================================================================
