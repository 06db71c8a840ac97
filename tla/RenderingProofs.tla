--------------------------- MODULE RenderingProofs ---------------------------
(* What FormatCount prints, for every whole number.  DigitsOf and FlattenSeq   *)
(* are recursive functions: each is shown to be what its definition says, by   *)
(* induction over sets of numbers, and then what it computes.                  *)
EXTENDS MessageProps, WellFoundedInduction, SequenceTheorems, TLAPS

\* A set of numbers has a least one.
LEMMA LeastNumber ==
  ASSUME NEW T, T \subseteq Nat, T # {}
  PROVE  \E n \in T : \A m \in T : ~(m < n)
<1> DEFINE R == {p \in Nat \X Nat : p[1] < p[2]}
<1>1. IsWellFoundedOn(R, Nat)
  BY NatLessThanWellFounded DEF OpToRel
<1>2. \E n \in T : \A m \in T : ~(<<m, n>> \in R)
  <2> HIDE DEF R
  <2> QED BY <1>1, WFMin
<1> QED BY <1>2

\* The ten names are different, and none is a sign.
LEMMA Names ==
  ASSUME NEW d \in 0..9
  PROVE  /\ DigitNames[d + 1] \notin {"-", ","}
         /\ \A c \in 0..9 : DigitNames[c + 1] = DigitNames[d + 1] => c = d
<1>1. \A c \in 0..9 : c \in {0,1,2,3,4,5,6,7,8,9}
  OBVIOUS
<1>2. /\ DigitNames[1] = "0" /\ DigitNames[2] = "1" /\ DigitNames[3] = "2"
      /\ DigitNames[4] = "3" /\ DigitNames[5] = "4" /\ DigitNames[6] = "5"
      /\ DigitNames[7] = "6" /\ DigitNames[8] = "7" /\ DigitNames[9] = "8"
      /\ DigitNames[10] = "9"
  BY DEF DigitNames
<1>3. DigitNames[d + 1] \in {"0", "1", "2", "3", "4", "5", "6", "7", "8", "9"}
  <2>1. d = 0 \/ d = 1 \/ d = 2 \/ d = 3 \/ d = 4 \/ d = 5 \/ d = 6 \/ d = 7 \/ d = 8 \/ d = 9
    OBVIOUS
  <2> QED BY <1>2, <2>1
<1>4. DigitNames[d + 1] \notin {"-", ","}
  BY <1>3
<1>5. ASSUME NEW c \in 0..9, DigitNames[c + 1] = DigitNames[d + 1] PROVE c = d
  BY <1>1, <1>2, <1>5
<1> QED BY <1>4, <1>5

LEMMA DivMod ==
  ASSUME NEW n \in Nat
  PROVE  /\ n \div 10 \in Nat /\ n % 10 \in 0..9
         /\ n = 10 * (n \div 10) + (n % 10)
         /\ n >= 10 => n \div 10 < n
  OBVIOUS

\* Induction, for the set of the numbers that have the property.
LEMMA NumbersInduct ==
  ASSUME NEW Holds, 0 \in Holds, \A n \in Nat : n \in Holds => n + 1 \in Holds
  PROVE  \A n \in Nat : n \in Holds
<1> SUFFICES ASSUME NEW k \in Nat, k \notin Holds PROVE FALSE
  OBVIOUS
<1> DEFINE T == {n \in Nat : n \notin Holds}
<1>1. PICK n \in T : \A m \in T : ~(m < n)
  <2>1. T \subseteq Nat /\ T # {}
    OBVIOUS
  <2> HIDE DEF T
  <2> QED BY <2>1, LeastNumber
<1>2. n - 1 \in Nat /\ n - 1 \notin T
  BY <1>1
<1> QED BY <1>2

\* DigitsOf is what its definition says: there is a function that satisfies it.
LEMMA DigitsUnfold ==
  ASSUME NEW n \in Nat
  PROVE  DigitsOf[n] = IF n < 10 THEN <<DigitNames[n + 1]>>
                       ELSE Append(DigitsOf[n \div 10], DigitNames[(n % 10) + 1])
<1> DEFINE Body(f, k) == IF k < 10 THEN <<DigitNames[k + 1]>>
                         ELSE Append(f[k \div 10], DigitNames[(k % 10) + 1])
           Upto(f, m) == \A k \in 0..m : f[k] = Body(f, k)
<1>1. ASSUME NEW l \in Nat, NEW m \in Nat, NEW f, NEW g, Upto(f, l), Upto(g, m),
             NEW j \in Nat, j <= l, j <= m, f[j] # g[j]
      PROVE  FALSE
  <2> DEFINE T == {k \in Nat : k <= l /\ k <= m /\ f[k] # g[k]}
  <2>1. PICK k \in T : \A i \in T : ~(i < k)
    <3>1. T \subseteq Nat /\ T # {}
      BY <1>1
    <3> HIDE DEF T
    <3> QED BY <3>1, LeastNumber
  <2>2. f[k] = Body(f, k) /\ g[k] = Body(g, k)
    <3> HIDE DEF Body
    <3> QED BY <1>1
  <2>3. k >= 10 => f[k \div 10] = g[k \div 10]
    <3>1. k >= 10 => k \div 10 \in Nat /\ k \div 10 < k
      BY DivMod
    <3> QED BY <2>1, <3>1
  <2> QED BY <2>2, <2>3
<1>2. \A m \in Nat : \E f : Upto(f, m)
  <2> DEFINE Holds == {m \in Nat : \E f : Upto(f, m)}
  <2>1. 0 \in Holds
    <3>1. Upto([k \in 0..0 |-> <<DigitNames[k + 1]>>], 0)
      OBVIOUS
    <3> QED BY <3>1
  <2>2. ASSUME NEW m \in Nat, m \in Holds PROVE m + 1 \in Holds
    <3>1. PICK f : Upto(f, m)
      BY <2>2
    <3> DEFINE g == [k \in 0..(m + 1) |-> IF k <= m THEN f[k] ELSE Body(f, k)]
    <3>2. ASSUME NEW k \in 0..(m + 1) PROVE g[k] = Body(g, k)
      <4>1. g[k] = Body(f, k)
        <5> HIDE DEF Body
        <5> QED BY <3>1
      <4>2. k >= 10 => g[k \div 10] = f[k \div 10]
        BY DivMod
      <4> HIDE DEF g
      <4> QED BY <4>1, <4>2
    <3>3. Upto(g, m + 1)
      BY <3>2
    <3> HIDE DEF g, Upto
    <3> QED BY <3>3
  <2> HIDE DEF Holds
  <2>3. \A m \in Nat : m \in Holds
    BY <2>1, <2>2, NumbersInduct
  <2> QED BY <2>3 DEF Holds
<1> DEFINE part == [m \in Nat |-> CHOOSE f : Upto(f, m)]
           whole == [m \in Nat |-> part[m][m]]
<1>3. \A m \in Nat : Upto(part[m], m)
  <2> HIDE DEF Upto
  <2> QED BY <1>2
<1>4. ASSUME NEW m \in Nat PROVE whole[m] = Body(whole, m)
  <2>1. whole[m] = Body(part[m], m)
    <3> HIDE DEF Body, part
    <3> QED BY <1>3
  <2>2. m >= 10 => part[m][m \div 10] = whole[m \div 10]
    <3> SUFFICES ASSUME m >= 10 PROVE part[m][m \div 10] = whole[m \div 10]
      OBVIOUS
    <3>1. m \div 10 \in Nat /\ m \div 10 <= m /\ m \div 10 <= m \div 10
      BY DivMod
    <3>2. Upto(part[m], m) /\ Upto(part[m \div 10], m \div 10)
      BY <1>3, <3>1
    <3>3. part[m][m \div 10] = part[m \div 10][m \div 10]
      <4> HIDE DEF part, Upto
      <4> QED BY <1>1, <3>1, <3>2
    <3>4. whole[m \div 10] = part[m \div 10][m \div 10]
      <4> HIDE DEF part
      <4> QED BY <3>1
    <3> HIDE DEF part, whole
    <3> QED BY <3>3, <3>4
  <2> HIDE DEF whole, part
  <2> QED BY <2>1, <2>2
<1>5. whole = [m \in Nat |-> Body(whole, m)]
  <2>1. whole = [m \in Nat |-> whole[m]]
    OBVIOUS
  <2> HIDE DEF whole, Body
  <2> QED BY <1>4, <2>1
<1>6. DigitsOf = [m \in Nat |-> Body(DigitsOf, m)]
  <2>1. DigitsOf = CHOOSE f : f = [m \in Nat |-> Body(f, m)]
    BY DEF DigitsOf
  <2> HIDE DEF whole, Body
  <2> QED BY <1>5, <2>1
<1>7. DigitsOf[n] = Body(DigitsOf, n)
  <2> HIDE DEF Body
  <2> QED BY <1>6
<1> QED BY <1>7

-----------------------------------------------------------------------------
(* The digits of a number are read as that number.                            *)

Digits == {DigitNames[d + 1] : d \in 0..9}
Characters == Digits \union {"-", ","}

LEMMA DigitIs ==
  ASSUME NEW d \in 0..9
  PROVE  /\ DigitNames[d + 1] \in Digits
         /\ DigitOf(DigitNames[d + 1]) = d
         /\ \A value : ReadOn(value, DigitNames[d + 1]) = 10 * value + d
<1>1. DigitNames[d + 1] \in Digits
  BY DEF Digits
<1>2. DigitOf(DigitNames[d + 1]) = d
  BY Names DEF DigitOf
<1>3. ASSUME NEW value PROVE ReadOn(value, DigitNames[d + 1]) = 10 * value + d
  BY <1>2, Names DEF ReadOn
<1> QED BY <1>1, <1>2, <1>3

\* v is what has been read of s, character by character.
Reading(s, v) ==
  /\ v \in [0..Len(s) -> Nat]
  /\ v[0] = 0
  /\ \A i \in 1..Len(s) : v[i] = ReadOn(v[i - 1], s[i])

\* The digits of n are digits, and they are read as n.
DigitsReadBack(n) ==
  /\ DigitsOf[n] \in Seq(Digits) /\ Len(DigitsOf[n]) > 0
  /\ \E v : Reading(DigitsOf[n], v) /\ v[Len(DigitsOf[n])] = n

LEMMA DigitsRead ==
  ASSUME NEW n \in Nat
  PROVE  DigitsReadBack(n)
<1>1. ASSUME NEW m \in Nat, m < 10 PROVE DigitsReadBack(m)
  <2>1. m \in 0..9 /\ DigitsOf[m] = <<DigitNames[m + 1]>>
    <3>1. DigitsOf[m] = IF m < 10 THEN <<DigitNames[m + 1]>>
                        ELSE Append(DigitsOf[m \div 10], DigitNames[(m % 10) + 1])
      BY DigitsUnfold
    <3> QED BY <1>1, <3>1
  <2>2. DigitsOf[m] \in Seq(Digits) /\ Len(DigitsOf[m]) = 1
    BY <2>1, DigitIs
  <2> DEFINE v == [i \in 0..1 |-> IF i = 0 THEN 0 ELSE m]
  <2>3. v[1] = ReadOn(v[0], DigitsOf[m][1])
    BY <2>1, DigitIs
  <2>4. Reading(DigitsOf[m], v) /\ v[1] = m
    BY <2>2, <2>3 DEF Reading
  <2> HIDE DEF v
  <2> QED BY <2>2, <2>4 DEF DigitsReadBack
<1>2. ASSUME NEW m \in Nat, m >= 10, DigitsReadBack(m \div 10) PROVE DigitsReadBack(m)
  <2> DEFINE d == m \div 10
             s == DigitsOf[d]
             c == DigitNames[(m % 10) + 1]
             l == Len(s)
  <2>1. d \in Nat /\ m % 10 \in 0..9 /\ m = 10 * d + (m % 10)
    BY DivMod
  <2>2. DigitsOf[m] = Append(s, c)
    <3>1. DigitsOf[m] = IF m < 10 THEN <<DigitNames[m + 1]>>
                        ELSE Append(DigitsOf[m \div 10], DigitNames[(m % 10) + 1])
      BY DigitsUnfold
    <3>2. ~(m < 10)
      BY <1>2
    <3> QED BY <3>1, <3>2
  <2>3. PICK u : Reading(s, u) /\ u[l] = d
    BY <1>2 DEF DigitsReadBack
  <2>4. s \in Seq(Digits) /\ l \in Nat \ {0} /\ c \in Digits
    BY <1>2, <2>1, DigitIs DEF DigitsReadBack
  <2>5. /\ Append(s, c) \in Seq(Digits) /\ Len(Append(s, c)) = l + 1
        /\ \A i \in 1..l : Append(s, c)[i] = s[i]
        /\ Append(s, c)[l + 1] = c
    <3> HIDE DEF s, c
    <3> QED BY <2>4, AppendProperties
  <2> DEFINE v == [i \in 0..(l + 1) |-> IF i <= l THEN u[i] ELSE m]
  <2>6. v \in [0..(l + 1) -> Nat] /\ v[0] = 0 /\ v[l + 1] = m /\ v[l] = d
    <3> HIDE DEF s
    <3> QED BY <2>3, <2>4 DEF Reading
  <2>7. ReadOn(d, c) = m
    BY <2>1, DigitIs
  <2>8. ASSUME NEW i \in 1..(l + 1) PROVE v[i] = ReadOn(v[i - 1], Append(s, c)[i])
    <3>1. CASE i = l + 1
      <4> HIDE DEF s, c, v
      <4> QED BY <2>4, <2>5, <2>6, <2>7, <3>1
    <3>2. CASE i <= l
      <4>1. u[i] = ReadOn(u[i - 1], s[i])
        BY <2>3, <2>4, <3>2 DEF Reading
      <4>2. v[i] = u[i] /\ v[i - 1] = u[i - 1]
        BY <2>4, <3>2
      <4> HIDE DEF s, c, v
      <4> QED BY <2>5, <3>2, <4>1, <4>2
    <3> QED BY <2>4, <3>1, <3>2
  <2>9. Reading(Append(s, c), v)
    <3> HIDE DEF s, c, v
    <3> QED BY <2>5, <2>6, <2>8 DEF Reading
  <2> HIDE DEF s, c, v
  <2> QED BY <2>2, <2>4, <2>5, <2>6, <2>9 DEF DigitsReadBack
<1> DEFINE T == {m \in Nat : ~DigitsReadBack(m)}
<1>3. T = {}
  <2> SUFFICES ASSUME T # {} PROVE FALSE
    OBVIOUS
  <2>1. PICK m \in T : \A k \in T : ~(k < m)
    <3>1. T \subseteq Nat
      OBVIOUS
    <3> HIDE DEF T
    <3> QED BY <3>1, LeastNumber
  <2>2. m >= 10 => DigitsReadBack(m \div 10)
    BY <2>1, DivMod
  <2> QED BY <1>1, <1>2, <2>2
<1> QED BY <1>3

\* ValueOf is the last of what is read.
LEMMA ReadingIsValue ==
  ASSUME NEW s \in Seq(Characters), NEW v, Reading(s, v)
  PROVE  ValueOf(s) = v[Len(s)]
<1> DEFINE Body(f, i) == IF i = 0 THEN 0 ELSE ReadOn(f[i - 1], s[i])
           value == CHOOSE f : f = [i \in 0..Len(s) |-> Body(f, i)]
<1>1. ValueOf(s) = value[Len(s)]
  BY DEF ValueOf
<1>2. v = [i \in 0..Len(s) |-> Body(v, i)]
  <2>1. \A i \in 0..Len(s) : v[i] = Body(v, i)
    BY DEF Reading
  <2>2. v = [i \in 0..Len(s) |-> v[i]]
    BY DEF Reading
  <2> HIDE DEF Body
  <2> QED BY <2>1, <2>2
<1>3. value = [i \in 0..Len(s) |-> Body(value, i)]
  <2> HIDE DEF Body
  <2> QED BY <1>2
<1>4. \A i \in 0..Len(s) : value[i] = Body(value, i)
  <2> HIDE DEF Body, value
  <2> QED BY <1>3
<1> DEFINE Holds == {i \in Nat : i <= Len(s) => value[i] = v[i]}
<1>5. 0 \in Holds
  <2> HIDE DEF value
  <2> QED BY <1>4 DEF Reading
<1>6. ASSUME NEW i \in Nat, i \in Holds PROVE i + 1 \in Holds
  <2> HIDE DEF value
  <2> QED BY <1>4, <1>6 DEF Reading
<1>7. Len(s) \in Holds
  <2> HIDE DEF Holds
  <2> QED BY <1>5, <1>6, NumbersInduct
<1> HIDE DEF value
<1> QED BY <1>1, <1>7

-----------------------------------------------------------------------------
(* Grouped digits: Grouped(x) has a closed form, in which every fourth place   *)
(* from the end is a comma.                                                    *)

LEMMA Longer ==
  ASSUME NEW C, NEW g \in Seq(C), NEW n \in Nat
  PROVE  /\ n + 1 <= Len(g) => SubSeq(g, 1, n + 1) = SubSeq(g, 1, n) \o <<g[n + 1]>>
         /\ n + 2 <= Len(g) => SubSeq(g, 1, n + 2) = SubSeq(g, 1, n) \o <<g[n + 1], g[n + 2]>>
<1>1. ASSUME n + 1 <= Len(g)
      PROVE  SubSeq(g, 1, n + 1) = SubSeq(g, 1, n) \o <<g[n + 1]>>
  <2>1. 1 \in 1..Len(g) /\ n + 1 \in 1..Len(g) /\ (n + 1) - 1 = n
    BY <1>1
  <2>2. SubSeq(g, 1, n + 1) = SubSeq(g, 1, (n + 1) - 1) \o <<g[n + 1]>>
    BY <2>1, SubSeqRecursiveSecond
  <2> QED BY <2>1, <2>2
<1>2. ASSUME n + 2 <= Len(g)
      PROVE  SubSeq(g, 1, n + 2) = SubSeq(g, 1, n) \o <<g[n + 1], g[n + 2]>>
  <2> DEFINE t == SubSeq(g, n + 1, n + 2)
  <2>1. SubSeq(g, 1, n) \o t = SubSeq(g, 1, n + 2)
    <3>1. 1 \in 1..(Len(g) + 1) /\ n \in (1 - 1)..Len(g) /\ n + 2 \in n..Len(g)
      BY <1>2
    <3> QED BY <3>1, ConcatAdjacentSubSeq
  <2>2. t \in Seq(C) /\ Len(t) = 2 /\ t[1] = g[n + 1] /\ t[2] = g[n + 2]
    <3>1. \A i \in (n + 1)..(n + 2) : g[i] \in C
      BY <1>2
    <3>2. /\ t \in Seq(C)
          /\ Len(t) = IF n + 1 <= n + 2 THEN (n + 2) - (n + 1) + 1 ELSE 0
          /\ \A i \in 1..((n + 2) - (n + 1) + 1) : t[i] = g[(n + 1) + i - 1]
      BY <3>1, SubSeqProperties
    <3>3. (n + 2) - (n + 1) + 1 = 2 /\ (n + 1) + 1 - 1 = n + 1 /\ (n + 1) + 2 - 1 = n + 2
      OBVIOUS
    <3> HIDE DEF t
    <3>4. Len(t) = 2 /\ t[1] = g[(n + 1) + 1 - 1] /\ t[2] = g[(n + 1) + 2 - 1]
      BY <3>2, <3>3
    <3> QED BY <3>2, <3>3, <3>4
  <2>3. t = <<g[n + 1], g[n + 2]>>
    <3> HIDE DEF t
    <3> QED BY <2>2
  <2> QED BY <2>1, <2>3
<1> QED BY <1>1, <1>2

\* Pieces that make up g one after the other are flattened to g.
LEMMA Flattened ==
  ASSUME NEW C, NEW g \in Seq(C), NEW pieces, NEW l \in Nat \ {0}, Len(pieces) = l,
         NEW upto, upto[l] = Len(g), SubSeq(g, 1, upto[1]) = pieces[1],
         \A i \in 2..l : SubSeq(g, 1, upto[i]) = SubSeq(g, 1, upto[i - 1]) \o pieces[i]
  PROVE  FlattenSeq(pieces) = g
<1> DEFINE Body(f, i) == IF i = 1 THEN pieces[i] ELSE f[i - 1] \o pieces[i]
           flat == CHOOSE f : f = [i \in 1..l |-> Body(f, i)]
           part == [i \in 1..l |-> SubSeq(g, 1, upto[i])]
<1>1. FlattenSeq(pieces) = flat[l]
  BY DEF FlattenSeq
<1>2. ASSUME NEW i \in 1..l PROVE part[i] = Body(part, i)
  <2>1. CASE i = 1
    BY <2>1
  <2>2. CASE i # 1
    <3>1. i \in 2..l /\ i - 1 \in 1..l
      BY <2>2
    <3>2. part[i - 1] = SubSeq(g, 1, upto[i - 1])
      BY <3>1
    <3> QED BY <2>2, <3>1, <3>2
  <2> QED BY <2>1, <2>2
<1>3. part = [i \in 1..l |-> Body(part, i)]
  <2>1. part = [i \in 1..l |-> part[i]]
    OBVIOUS
  <2> HIDE DEF part, Body
  <2> QED BY <1>2, <2>1
<1>4. flat = [i \in 1..l |-> Body(flat, i)]
  <2> HIDE DEF part, Body
  <2> QED BY <1>3
<1>5. \A i \in 1..l : flat[i] = Body(flat, i)
  <2> HIDE DEF flat, Body
  <2> QED BY <1>4
<1> DEFINE Holds == {i \in Nat : i + 1 \in 1..l => flat[i + 1] = part[i + 1]}
<1>6. 0 \in Holds
  <2>1. 1 \in 1..l
    OBVIOUS
  <2>2. part[1] = Body(part, 1) /\ flat[1] = Body(flat, 1)
    <3> HIDE DEF flat, part, Body
    <3> QED BY <1>2, <1>5, <2>1
  <2>3. flat[1] = part[1]
    <3> HIDE DEF flat, part
    <3> QED BY <2>2
  <2> HIDE DEF flat, part
  <2> QED BY <2>3
<1>7. ASSUME NEW i \in Nat, i \in Holds PROVE i + 1 \in Holds
  <2> DEFINE k == i + 2
  <2>1. ASSUME k \in 1..l PROVE flat[k] = part[k]
    <3>1. i + 1 \in 1..l /\ k - 1 = i + 1 /\ k # 1
      BY <2>1
    <3>2. part[k] = Body(part, k) /\ flat[k] = Body(flat, k)
      <4> HIDE DEF part, flat, Body, k
      <4> QED BY <1>2, <1>5, <2>1
    <3>3. flat[k - 1] = part[k - 1]
      <4> HIDE DEF part, flat
      <4> QED BY <1>7, <3>1
    <3> HIDE DEF part, flat, k
    <3> QED BY <3>1, <3>2, <3>3
  <2>2. (i + 1) + 1 = k
    OBVIOUS
  <2> HIDE DEF part, flat, k
  <2> QED BY <2>1, <2>2
<1>8. flat[l] = part[l]
  <2>1. \A i \in Nat : i \in Holds
    <3> HIDE DEF Holds
    <3> QED BY <1>6, <1>7, NumbersInduct
  <2>2. l - 1 \in Nat /\ (l - 1) + 1 = l /\ l \in 1..l
    OBVIOUS
  <2>3. l - 1 \in Holds
    BY <2>1, <2>2
  <2> HIDE DEF flat, part
  <2> QED BY <2>2, <2>3
<1>9. part[l] = g
  BY SubSeqFull
<1> QED BY <1>1, <1>8, <1>9

\* The place of a digit that r others follow, counted from the end of a grouped
\* number, and of the comma before it.
LEMMA Places ==
  ASSUME NEW r \in Nat, NEW p, p = r + (r \div 3) + 1
  PROVE  /\ p % 4 # 0 /\ p - (p \div 4) = r + 1
         /\ (r + 1) % 3 = 0 => (p + 1) % 4 = 0 /\ (r + 1) \div 3 = (r \div 3) + 1
         /\ (r + 1) % 3 # 0 => (r + 1) \div 3 = r \div 3
<1>1. p \in Nat
  OBVIOUS
<1>2. /\ p \div 4 = r \div 3 /\ p % 4 # 0
  BY <1>1
<1>3. (r + 1) % 3 = 0 => (p + 1) % 4 = 0 /\ (r + 1) \div 3 = (r \div 3) + 1
  BY <1>1
<1>4. (r + 1) % 3 # 0 => (r + 1) \div 3 = r \div 3
  OBVIOUS
<1> QED BY <1>1, <1>2, <1>3, <1>4

LEMMA Fours ==
  ASSUME NEW m \in Nat
  PROVE  /\ m \div 4 \in Nat /\ m \div 4 <= m
         /\ (m + 1) % 4 = 0 => (m + 1) \div 4 = (m \div 4) + 1
         /\ (m + 1) % 4 # 0 => (m + 1) \div 4 = m \div 4
OBVIOUS

\* How long l characters are once grouped, how many of them are among the last
\* p places, and what is at place q.
GroupedLen(l) == l + ((l - 1) \div 3)
FromEnd(p) == p - (p \div 4)
GroupedAt(x, q) ==
  LET p == GroupedLen(Len(x)) + 1 - q
  IN  IF p % 4 = 0 THEN "," ELSE x[Len(x) + 1 - FromEnd(p)]

LEMMA FromEndIs ==
  ASSUME NEW l \in Nat \ {0}
  PROVE  /\ GroupedLen(l) \in Nat \ {0} /\ FromEnd(GroupedLen(l)) = l
         /\ \A p \in 1..GroupedLen(l) : p % 4 # 0 => FromEnd(p) \in 1..l
<1>1. GroupedLen(l) \in Nat \ {0} /\ FromEnd(GroupedLen(l)) = l
  <2>1. l - 1 \in Nat /\ GroupedLen(l) = (l - 1) + ((l - 1) \div 3) + 1
    BY DEF GroupedLen
  <2> QED BY <2>1, Places DEF FromEnd
<1>2. ASSUME NEW p \in 1..GroupedLen(l), p % 4 # 0 PROVE FromEnd(p) \in 1..l
  <2>1. FromEnd(p) <= FromEnd(GroupedLen(l))
    BY <1>1 DEF FromEnd
  <2>2. FromEnd(p) \in Nat \ {0}
    BY <1>1, <1>2 DEF FromEnd
  <2> QED BY <1>1, <2>1, <2>2
<1> QED BY <1>1, <1>2

LEMMA GroupedForm ==
  ASSUME NEW x \in Seq(Characters), Len(x) > 0
  PROVE  /\ Grouped(x) \in Seq(Characters) /\ Len(Grouped(x)) = GroupedLen(Len(x))
         /\ \A q \in 1..GroupedLen(Len(x)) : Grouped(x)[q] = GroupedAt(x, q)
<1> DEFINE l == Len(x)
           z == GroupedLen(l)
           piece(i) == IF i > 1 /\ (l - (i - 1)) % 3 = 0 THEN <<",", x[i]>> ELSE <<x[i]>>
           pieces == [i \in DOMAIN x |-> piece(i)]
           upto(i) == i + ((l - 1) \div 3) - ((l - i) \div 3)
           g == [q \in 1..z |-> GroupedAt(x, q)]
<1>1. l \in Nat \ {0} /\ z \in Nat \ {0}
  BY FromEndIs
<1>2. DOMAIN x = 1..l
  OBVIOUS
<1>3. pieces \in [1..l -> {piece(i) : i \in 1..l}] /\ \A i \in 1..l : pieces[i] = piece(i)
  <2> HIDE DEF piece, l
  <2> QED BY <1>2
<1>4. Len(pieces) = l
  <2>1. pieces \in Seq({piece(i) : i \in 1..l})
    <3> HIDE DEF pieces, l, piece
    <3> QED BY <1>1, <1>3
  <2> HIDE DEF pieces, l, piece
  <2> QED BY <1>1, <1>3, <2>1
<1>5. g \in Seq(Characters) /\ Len(g) = z /\ \A q \in 1..z : g[q] = GroupedAt(x, q)
  <2>1. ASSUME NEW q \in 1..z PROVE GroupedAt(x, q) \in Characters
    <3> DEFINE p == z + 1 - q
               k == l + 1 - FromEnd(p)
    <3>1. p \in 1..z
      <4> HIDE DEF z
      <4> QED BY <1>1
    <3>2. p % 4 # 0 => FromEnd(p) \in 1..l
      <4> HIDE DEF p, l
      <4> QED BY <1>1, <3>1, FromEndIs DEF z
    <3>3. p % 4 # 0 => x[k] \in Characters
      <4>1. p % 4 # 0 => k \in 1..l
        <5> HIDE DEF p, l
        <5> QED BY <1>1, <3>2
      <4> HIDE DEF k, p
      <4> QED BY <1>2, <4>1
    <3>4. "," \in Characters
      BY DEF Characters
    <3>5. GroupedAt(x, q) = IF p % 4 = 0 THEN "," ELSE x[k]
      BY DEF GroupedAt
    <3> HIDE DEF p, k
    <3> QED BY <3>3, <3>4, <3>5
  <2>2. g \in [1..z -> Characters]
    <3> HIDE DEF z
    <3> QED BY <2>1
  <2>3. \A q \in 1..z : g[q] = GroupedAt(x, q)
    OBVIOUS
  <2> HIDE DEF z, g
  <2> QED BY <1>1, <2>2, <2>3
<1>6. ASSUME NEW i \in 1..l
      PROVE  /\ upto(i) \in 1..z /\ g[upto(i)] = x[i]
             /\ i = 1 => upto(i) = 1
             /\ i > 1 /\ (l - (i - 1)) % 3 = 0 =>
                  upto(i) = upto(i - 1) + 2 /\ g[upto(i) - 1] = ","
             /\ i > 1 /\ (l - (i - 1)) % 3 # 0 => upto(i) = upto(i - 1) + 1
  <2> DEFINE r == l - i
             p == r + (r \div 3) + 1
  <2>1. r \in Nat /\ z + 1 - upto(i) = p
    BY <1>1 DEF GroupedLen
  <2>2. /\ p % 4 # 0 /\ p - (p \div 4) = r + 1
        /\ (r + 1) % 3 = 0 => (p + 1) % 4 = 0 /\ (r + 1) \div 3 = (r \div 3) + 1
        /\ (r + 1) % 3 # 0 => (r + 1) \div 3 = r \div 3
    BY <2>1, Places
  <2>3. upto(i) \in 1..z
    <3>1. upto(i) \in Int /\ upto(i) >= 1
      BY <1>1
    <3>2. p \in Nat /\ p >= 1 /\ upto(i) = z + 1 - p
      BY <1>1, <2>1 DEF GroupedLen
    <3> HIDE DEF upto, p, z
    <3> QED BY <1>1, <3>1, <3>2
  <2>4. GroupedAt(x, upto(i)) = x[i]
    <3>1. GroupedAt(x, upto(i)) = x[l + 1 - FromEnd(p)]
      BY <2>1, <2>2 DEF GroupedAt
    <3>2. l + 1 - FromEnd(p) = i
      BY <1>1, <2>2 DEF FromEnd
    <3> QED BY <3>1, <3>2
  <2>5. l - (i - 1) = r + 1
    BY <1>1
  <2>6. i = 1 => upto(i) = 1
    BY <1>1
  <2>7. ASSUME i > 1, (r + 1) % 3 = 0
        PROVE  upto(i) = upto(i - 1) + 2 /\ GroupedAt(x, upto(i) - 1) = ","
    <3>1. upto(i) = upto(i - 1) + 2
      BY <1>1, <2>2, <2>5, <2>7
    <3>2. z + 1 - (upto(i) - 1) = p + 1
      BY <1>1, <2>1, <2>3 DEF GroupedLen
    <3>3. (p + 1) % 4 = 0
      BY <2>2, <2>7
    <3> QED BY <3>1, <3>2, <3>3 DEF GroupedAt
  <2>8. i > 1 /\ (r + 1) % 3 # 0 => upto(i) = upto(i - 1) + 1
    BY <1>1, <2>2, <2>5
  <2>9. ASSUME i > 1, (r + 1) % 3 = 0 PROVE upto(i) - 1 \in 1..z
    <3>1. upto(i) = upto(i - 1) + 2
      BY <2>7, <2>9
    <3>2. upto(i - 1) \in Nat
      <4> HIDE DEF l
      <4> QED BY <1>1, <2>9
    <3> HIDE DEF upto, z
    <3> QED BY <1>1, <2>3, <3>1, <3>2
  <2> HIDE DEF upto, z, g, r
  <2> QED BY <1>5, <2>3, <2>4, <2>5, <2>6, <2>7, <2>8, <2>9
<1>7. upto(l) = z
  BY <1>1 DEF GroupedLen
<1> DEFINE lengths == [i \in 1..l |-> upto(i)]
<1>8. \A i \in 1..l : lengths[i] = upto(i)
  OBVIOUS
<1>9. SubSeq(g, 1, lengths[1]) = pieces[1]
  <2>1. 1 \in 1..l
    BY <1>1
  <2>2. lengths[1] = 1 /\ g[1] = x[1] /\ pieces[1] = <<x[1]>>
    <3>1. upto(1) = 1 /\ g[upto(1)] = x[1]
      <4> HIDE DEF upto, g, l, z
      <4> QED BY <1>6, <2>1
    <3>2. pieces[1] = piece(1) /\ piece(1) = <<x[1]>>
      <4>1. piece(1) = <<x[1]>>
        OBVIOUS
      <4> HIDE DEF pieces, piece, l
      <4> QED BY <1>3, <2>1, <4>1
    <3>3. lengths[1] = upto(1)
      BY <2>1
    <3> HIDE DEF upto, g, lengths, pieces, piece
    <3> QED BY <3>1, <3>2, <3>3
  <2>3. SubSeq(g, 1, 1) = SubSeq(g, 1, 0) \o <<g[1]>>
    <3> HIDE DEF g, z
    <3> QED BY <1>1, <1>5, Longer
  <2>4. SubSeq(g, 1, 0) = <<>>
    BY SubSeqEmpty
  <2>5. <<>> \o <<x[1]>> = <<x[1]>>
    OBVIOUS
  <2> HIDE DEF g, lengths, pieces
  <2> QED BY <2>2, <2>3, <2>4, <2>5
<1>10. ASSUME NEW i \in 2..l
       PROVE  SubSeq(g, 1, lengths[i]) = SubSeq(g, 1, lengths[i - 1]) \o pieces[i]
  <2>1. i \in 1..l /\ i - 1 \in 1..l /\ i > 1
    BY <1>1
  <2> DEFINE n == lengths[i - 1]
  <2>2. n = upto(i - 1) /\ lengths[i] = upto(i) /\ n \in Nat /\ upto(i) <= z
    <3>1. upto(i - 1) \in 1..z /\ upto(i) \in 1..z
      BY <1>6, <2>1
    <3> HIDE DEF upto, z
    <3> QED BY <1>8, <2>1, <3>1
  <2>3. CASE (l - (i - 1)) % 3 = 0
    <3>1. lengths[i] = n + 2 /\ g[n + 1] = "," /\ g[n + 2] = x[i]
      <4>1. upto(i) = upto(i - 1) + 2 /\ g[upto(i) - 1] = "," /\ g[upto(i)] = x[i]
        BY <1>6, <2>1, <2>3
      <4>2. upto(i) = n + 2 /\ upto(i) - 1 = n + 1
        <5>1. upto(i) = upto(i - 1) + 2 /\ n = upto(i - 1) /\ n \in Nat
          BY <2>2, <4>1
        <5>2. upto(i) = n + 2
          BY <5>1
        <5> HIDE DEF upto, n
        <5> QED BY <5>1, <5>2
      <4> HIDE DEF upto, g, n, lengths
      <4> QED BY <2>2, <4>1, <4>2
    <3>2. pieces[i] = <<",", x[i]>>
      BY <1>3, <2>1, <2>3
    <3> HIDE DEF g, n, lengths, pieces, upto, z
    <3> QED BY <1>5, <2>2, <3>1, <3>2, Longer DEF n
  <2>4. CASE (l - (i - 1)) % 3 # 0
    <3>1. lengths[i] = n + 1 /\ g[n + 1] = x[i]
      <4>1. upto(i) = upto(i - 1) + 1 /\ g[upto(i)] = x[i]
        BY <1>6, <2>1, <2>4
      <4> HIDE DEF upto, g, lengths
      <4> QED BY <2>2, <4>1
    <3>2. pieces[i] = <<x[i]>>
      BY <1>3, <2>1, <2>4
    <3> HIDE DEF g, n, lengths, pieces, upto, z
    <3> QED BY <1>5, <2>2, <3>1, <3>2, Longer DEF n
  <2> QED BY <2>3, <2>4
<1>11. FlattenSeq(pieces) = g
  <2>1. lengths[l] = Len(g)
    <3>1. l \in 1..l
      BY <1>1
    <3> HIDE DEF upto, g, z, lengths
    <3> QED BY <1>5, <1>7, <1>8, <3>1
  <2> HIDE DEF pieces, g, lengths, l
  <2> QED BY <1>1, <1>4, <1>5, <1>9, <1>10, <2>1, Flattened
<1>12. Grouped(x) = g
  BY <1>11 DEF Grouped
<1> HIDE DEF g
<1> QED BY <1>5, <1>12

\* A reader of a grouped number has read what it has read of the number itself.
LEMMA GroupedReads ==
  ASSUME NEW x \in Seq(Characters), Len(x) > 0, NEW v, Reading(x, v)
  PROVE  \E u : Reading(Grouped(x), u) /\ u[Len(Grouped(x))] = v[Len(x)]
<1> DEFINE l == Len(x)
           z == GroupedLen(l)
           at(q) == l - FromEnd(z - q)
           u == [q \in 0..z |-> v[at(q)]]
<1>1. l \in Nat \ {0} /\ z \in Nat \ {0} /\ FromEnd(z) = l /\ FromEnd(0) = 0
  <2>1. FromEnd(0) = 0
    BY DEF FromEnd
  <2> QED BY <2>1, FromEndIs
<1>2. ASSUME NEW q \in 0..z PROVE at(q) \in 0..l
  <2>1. z - q \in Nat /\ z - q <= z
    BY <1>1
  <2>2. FromEnd(z - q) \in Nat /\ FromEnd(z - q) <= FromEnd(z)
    <3> HIDE DEF z, l
    <3> QED BY <1>1, <2>1 DEF FromEnd
  <2> HIDE DEF z, l
  <2> QED BY <1>1, <2>2
<1>3. u \in [0..z -> Nat] /\ u[0] = 0 /\ u[z] = v[l]
  <2>1. \A k \in 0..l : v[k] \in Nat
    BY DEF Reading
  <2>2. v[0] = 0
    BY DEF Reading
  <2>3. at(0) = 0 /\ at(z) = l /\ 0 \in 0..z /\ z \in 0..z
    <3> HIDE DEF z, l
    <3> QED BY <1>1
  <2> HIDE DEF z, l, at
  <2> QED BY <1>2, <2>1, <2>2, <2>3
<1>4. ASSUME NEW q \in 1..z PROVE u[q] = ReadOn(u[q - 1], GroupedAt(x, q))
  <2> DEFINE m == z - q
  <2>1. m \in Nat /\ z - (q - 1) = m + 1 /\ z + 1 - q = m + 1 /\ q \in 0..z /\ q - 1 \in 0..z
    <3> HIDE DEF z
    <3> QED BY <1>1
  <2>2. u[q] = v[l - FromEnd(m)] /\ u[q - 1] = v[l - FromEnd(m + 1)]
    <3> HIDE DEF z
    <3> QED BY <2>1
  <2>3. CASE (m + 1) % 4 = 0
    <3>1. FromEnd(m + 1) = FromEnd(m)
      <4> HIDE DEF m
      <4> QED BY <2>1, <2>3, Fours DEF FromEnd
    <3>2. GroupedAt(x, q) = ","
      BY <2>1, <2>3 DEF GroupedAt
    <3> HIDE DEF u, m
    <3> QED BY <2>2, <3>1, <3>2 DEF ReadOn
  <2>4. CASE (m + 1) % 4 # 0
    <3>1. FromEnd(m + 1) = FromEnd(m) + 1 /\ FromEnd(m) \in Nat
      <4> HIDE DEF m
      <4> QED BY <2>1, <2>4, Fours DEF FromEnd
    <3> DEFINE k == l - FromEnd(m)
    <3>2. k \in 1..l /\ l - FromEnd(m + 1) = k - 1 /\ l + 1 - FromEnd(m + 1) = k
      <4>1. at(q - 1) \in 0..l /\ at(q - 1) = l - FromEnd(m + 1)
        <5> HIDE DEF z, l
        <5> QED BY <1>2, <2>1
      <4> HIDE DEF l, m
      <4> QED BY <1>1, <3>1, <4>1
    <3>3. GroupedAt(x, q) = x[k]
      <4>1. GroupedAt(x, q) = x[l + 1 - FromEnd(m + 1)]
        BY <2>1, <2>4 DEF GroupedAt
      <4> QED BY <3>2, <4>1
    <3>4. v[k] = ReadOn(v[k - 1], x[k])
      <4> HIDE DEF k
      <4> QED BY <3>2 DEF Reading
    <3> HIDE DEF u, m, k
    <3> QED BY <2>2, <3>2, <3>3, <3>4 DEF k
  <2> QED BY <2>3, <2>4
<1>5. Len(Grouped(x)) = z /\ \A q \in 1..z : Grouped(x)[q] = GroupedAt(x, q)
  BY GroupedForm
<1>6. Reading(Grouped(x), u)
  <2> HIDE DEF u, z
  <2> QED BY <1>3, <1>4, <1>5 DEF Reading
<1> HIDE DEF u, z
<1> QED BY <1>3, <1>5, <1>6

\* A minus sign in front is passed over.
LEMMA SignReads ==
  ASSUME NEW x \in Seq(Characters), NEW v, Reading(x, v)
  PROVE  /\ <<"-">> \o x \in Seq(Characters) /\ Len(<<"-">> \o x) = Len(x) + 1
         /\ (<<"-">> \o x)[1] = "-" /\ \A i \in 1..Len(x) : (<<"-">> \o x)[i + 1] = x[i]
         /\ \E u : Reading(<<"-">> \o x, u) /\ u[Len(x) + 1] = v[Len(x)]
<1> DEFINE sign == <<"-">>
           l == Len(x)
           s == sign \o x
           u == [i \in 0..(l + 1) |-> IF i = 0 THEN 0 ELSE v[i - 1]]
<1>1. sign \in Seq(Characters) /\ Len(sign) = 1 /\ sign[1] = "-"
  <2>1. "-" \in Characters
    BY DEF Characters
  <2> QED BY <2>1
<1>2. s \in Seq(Characters) /\ Len(s) = 1 + l
      /\ \A i \in 1..(1 + l) : s[i] = IF i <= 1 THEN sign[i] ELSE x[i - 1]
  <2>1. /\ sign \o x \in Seq(Characters)
        /\ Len(sign \o x) = Len(sign) + Len(x)
        /\ \A i \in 1..(Len(sign) + Len(x)) :
             (sign \o x)[i] = IF i <= Len(sign) THEN sign[i] ELSE x[i - Len(sign)]
    <3> HIDE DEF sign
    <3> QED BY <1>1, ConcatProperties
  <2> HIDE DEF sign
  <2> QED BY <1>1, <2>1
<1>3. l \in Nat
  OBVIOUS
<1>4. s[1] = "-" /\ \A i \in 1..l : s[i + 1] = x[i]
  <2> HIDE DEF sign, s, l
  <2> QED BY <1>1, <1>2, <1>3
<1>5. u \in [0..(l + 1) -> Nat] /\ u[0] = 0 /\ u[l + 1] = v[l]
  BY <1>3 DEF Reading
<1>6. ASSUME NEW i \in 1..(l + 1) PROVE u[i] = ReadOn(u[i - 1], s[i])
  <2>1. CASE i = 1
    <3>1. u[1] = 0 /\ u[0] = 0
      BY <1>3 DEF Reading
    <3>2. \A value : ReadOn(value, "-") = value
      BY DEF ReadOn
    <3>3. i - 1 = 0
      BY <2>1
    <3> HIDE DEF u, s
    <3> QED BY <1>4, <2>1, <3>1, <3>2, <3>3
  <2>2. CASE i # 1
    <3> DEFINE k == i - 1
    <3>1. k \in 1..l /\ u[i] = v[k] /\ u[k] = v[k - 1] /\ i = k + 1
      BY <1>3, <2>2
    <3>2. v[k] = ReadOn(v[k - 1], x[k]) /\ s[k + 1] = x[k]
      <4> HIDE DEF k, s
      <4> QED BY <1>4, <3>1 DEF Reading
    <3> HIDE DEF k, s, u
    <3> QED BY <3>1, <3>2 DEF k
  <2> QED BY <2>1, <2>2
<1>7. Reading(s, u)
  <2> HIDE DEF s, u
  <2> QED BY <1>2, <1>3, <1>5, <1>6 DEF Reading
<1> HIDE DEF s, u
<1> QED BY <1>2, <1>4, <1>5, <1>7 DEF s

\* No comma, and no sign but in front.
Ungrouped(x) ==
  \A k \in 1..Len(x) : x[k] # "," /\ (k # 1 => x[k] # "-")

\* Where the signs and the commas of a grouped number are: a sign in front
\* stays there, and the commas are at every fourth place from the end.
LEMMA GroupedSigns ==
  ASSUME NEW x \in Seq(Characters), Len(x) > 0, Ungrouped(x)
  PROVE  LET grouped == Grouped(x)
             size == GroupedLen(Len(x))
         IN  /\ grouped[1] = x[1] /\ size % 4 # 0
             /\ \A q \in 2..size : grouped[q] # "-"
             /\ \A q \in 1..size : grouped[q] = "," <=> (size + 1 - q) % 4 = 0
<1> DEFINE l == Len(x)
           z == GroupedLen(l)
           place(p) == l + 1 - FromEnd(p)
<1>1. l \in Nat \ {0} /\ z \in Nat \ {0} /\ FromEnd(z) = l
  BY FromEndIs
<1>2. z % 4 # 0
  <2>1. l - 1 \in Nat /\ z = (l - 1) + ((l - 1) \div 3) + 1
    BY <1>1 DEF GroupedLen
  <2> HIDE DEF z
  <2> QED BY <2>1, Places
<1>3. ASSUME NEW q \in 1..z
      PROVE  /\ z + 1 - q \in 1..z
             /\ (z + 1 - q) % 4 = 0 => Grouped(x)[q] = ","
             /\ (z + 1 - q) % 4 # 0 => Grouped(x)[q] = x[place(z + 1 - q)]
  <2>1. z + 1 - q \in 1..z
    <3> HIDE DEF z
    <3> QED BY <1>1
  <2>2. Grouped(x)[q] = GroupedAt(x, q)
    BY GroupedForm
  <2> QED BY <2>1, <2>2 DEF GroupedAt
<1>4. ASSUME NEW p \in 1..z, p % 4 # 0
      PROVE  place(p) \in 1..l /\ (p < z => place(p) # 1)
  <2>1. FromEnd(p) \in 1..l
    <3> HIDE DEF l
    <3> QED BY <1>1, <1>4, FromEndIs DEF z
  <2>2. place(p) \in 1..l
    <3> HIDE DEF l
    <3> QED BY <1>1, <2>1
  <2>3. ASSUME p < z PROVE FromEnd(p) < l
    <3>1. p \in Nat /\ z - 1 \in Nat /\ p <= z - 1 /\ (z - 1) + 1 = z
      <4> HIDE DEF z
      <4> QED BY <1>1, <2>3
    <3>2. (z - 1) \div 4 = z \div 4
      <4> HIDE DEF z
      <4> QED BY <1>2, <3>1, Fours
    <3>3. FromEnd(z - 1) = l - 1
      <4> HIDE DEF z, l
      <4> QED BY <1>1, <3>2 DEF FromEnd
    <3>4. FromEnd(p) <= FromEnd(z - 1)
      <4> DEFINE w == z - 1
      <4> HIDE DEF z, w
      <4> QED BY <3>1 DEF FromEnd, w
    <3> HIDE DEF l, z
    <3> QED BY <1>1, <2>1, <3>3, <3>4
  <2>4. p < z => place(p) # 1
    <3> HIDE DEF l, z
    <3> QED BY <1>1, <2>1, <2>3
  <2> QED BY <2>2, <2>4
<1>5. Grouped(x)[1] = x[1]
  <2>1. 1 \in 1..z /\ z + 1 - 1 = z
    <3> HIDE DEF z
    <3> QED BY <1>1
  <2>2. Grouped(x)[1] = x[place(z)]
    <3> HIDE DEF z, place
    <3> QED BY <1>2, <1>3, <2>1
  <2>3. place(z) = 1
    <3> HIDE DEF z, l
    <3> QED BY <1>1
  <2> QED BY <2>2, <2>3
<1>6. ASSUME NEW q \in 2..z PROVE Grouped(x)[q] # "-"
  <2>1. q \in 1..z /\ z + 1 - q < z
    <3> HIDE DEF z
    <3> QED BY <1>1
  <2>2. CASE (z + 1 - q) % 4 = 0
    <3>1. Grouped(x)[q] = ","
      BY <1>3, <2>1, <2>2
    <3> QED BY <3>1
  <2>3. CASE (z + 1 - q) % 4 # 0
    <3> DEFINE p == z + 1 - q
    <3>1. Grouped(x)[q] = x[place(p)] /\ p \in 1..z
      BY <1>3, <2>1, <2>3
    <3>2. place(p) \in 1..l /\ place(p) # 1
      <4> HIDE DEF place, z, l
      <4> QED BY <1>4, <2>1, <2>3, <3>1
    <3>3. \A i \in 1..Len(x) : i # 1 => x[i] # "-"
      BY DEF Ungrouped
    <3> HIDE DEF place, p
    <3> QED BY <3>1, <3>2, <3>3
  <2> QED BY <2>2, <2>3
<1>7. ASSUME NEW q \in 1..z PROVE Grouped(x)[q] = "," <=> (z + 1 - q) % 4 = 0
  <2>1. CASE (z + 1 - q) % 4 = 0
    BY <1>3, <2>1
  <2>2. CASE (z + 1 - q) % 4 # 0
    <3> DEFINE p == z + 1 - q
    <3>1. Grouped(x)[q] = x[place(p)] /\ p \in 1..z
      BY <1>3, <2>2
    <3>2. place(p) \in 1..l
      <4> HIDE DEF place, z, l
      <4> QED BY <1>4, <2>2, <3>1
    <3>3. \A i \in 1..Len(x) : x[i] # ","
      BY DEF Ungrouped
    <3> HIDE DEF place, p
    <3> QED BY <2>2, <3>1, <3>2, <3>3 DEF p
  <2> QED BY <2>1, <2>2
<1> QED BY <1>2, <1>5, <1>6, <1>7

-----------------------------------------------------------------------------
(* Counts                                                                     *)

\* s is read as m.
ReadAs(s, m) == \E v : Reading(s, v) /\ v[Len(s)] = m

\* Signs in front, and a comma at every fourth place from the end.
Marked(s, signs) ==
  /\ s \in Seq(Characters) /\ signs \in 0..Len(s)
  /\ \A i \in 1..Len(s) : s[i] = "-" <=> i <= signs
  /\ \A i \in 1..Len(s) : s[i] = "," <=> i > signs /\ (Len(s) + 1 - i) % 4 = 0

LEMMA MarkedIsRight ==
  ASSUME NEW n \in Int, NEW shown,
         ReadAs(shown, IF n < 0 THEN -n ELSE n),
         Marked(shown, IF n >= 0 THEN 0 ELSE IF n = Smallest THEN 2 ELSE 1)
  PROVE  ShownRight(n, shown)
<1> DEFINE signs == IF n >= 0 THEN 0 ELSE IF n = Smallest THEN 2 ELSE 1
           size == Len(shown)
<1>1. shown \in Seq(Characters) /\ size \in Nat /\ signs \in 0..size
  <2>1. shown \in Seq(Characters) /\ signs \in 0..size
    BY Zenon DEF Marked
  <2> QED BY <2>1
<1>2. ValueOf(shown) = (IF n < 0 THEN -n ELSE n)
  BY <1>1, ReadingIsValue DEF ReadAs
<1>3. \A i \in 1..size : shown[i] = "-" <=> i <= signs
  BY DEF Marked
<1>4. \A i \in 1..size : shown[i] = "," <=> i > signs /\ (size + 1 - i) % 4 = 0
  BY Zenon DEF Marked
<1> HIDE DEF signs, size
<1>5. {i \in 1..size : shown[i] = "-"} = 1..signs
  BY <1>1, <1>3
<1>6. {i \in 1..size : shown[i] = ","} = {i \in (signs + 1)..size : (size + 1 - i) % 4 = 0}
  <2>1. \A i \in 1..size : i > signs <=> i \in (signs + 1)..size
    BY <1>1
  <2>2. \A i \in (signs + 1)..size : i \in 1..size
    BY <1>1
  <2> QED BY <1>4, <2>1, <2>2
<1> QED BY <1>2, <1>5, <1>6 DEF ShownRight, signs, size

\* Digits are read as their number, and have neither sign nor comma.
LEMMA DigitsAre ==
  ASSUME NEW n \in Nat
  PROVE  /\ DigitsOf[n] \in Seq(Characters) /\ Len(DigitsOf[n]) > 0
         /\ ReadAs(DigitsOf[n], n)
         /\ \A i \in 1..Len(DigitsOf[n]) : DigitsOf[n][i] \notin {"-", ","}
<1> DEFINE s == DigitsOf[n]
<1>1. s \in Seq(Digits) /\ Len(s) > 0 /\ ReadAs(s, n)
  BY DigitsRead DEF DigitsReadBack, ReadAs
<1>2. \A c \in Digits : c \in Characters /\ c \notin {"-", ","}
  BY Names DEF Digits, Characters
<1> HIDE DEF s
<1>3. \A i \in 1..Len(s) : s[i] \in Digits
  BY <1>1, ElementOfSeq
<1>4. s \in Seq(Characters)
  <2>1. Len(s) \in Nat /\ s = [i \in 1..Len(s) |-> s[i]]
    BY <1>1
  <2>2. \A i \in 1..Len(s) : s[i] \in Characters
    BY <1>2, <1>3
  <2> QED BY <2>1, <2>2
<1>5. \A i \in 1..Len(s) : s[i] \notin {"-", ","}
  BY <1>2, <1>3
<1> QED BY <1>1, <1>4, <1>5 DEF s

\* Grouping changes nothing of what is read.
LEMMA GroupedMarked ==
  ASSUME NEW x \in Seq(Characters), Len(x) > 0, Ungrouped(x), NEW m, ReadAs(x, m)
  PROVE  /\ ReadAs(Grouped(x), m)
         /\ Marked(Grouped(x), IF x[1] = "-" THEN 1 ELSE 0)
<1> DEFINE s == Grouped(x)
           size == Len(s)
           signs == IF x[1] = "-" THEN 1 ELSE 0
<1>1. s \in Seq(Characters) /\ size = GroupedLen(Len(x)) /\ size \in Nat \ {0}
  BY GroupedForm, FromEndIs
<1>2. ReadAs(s, m)
  BY GroupedReads DEF ReadAs
<1>3. /\ s[1] = x[1] /\ size % 4 # 0
      /\ \A q \in 2..size : s[q] # "-"
      /\ \A q \in 1..size : s[q] = "," <=> (size + 1 - q) % 4 = 0
  BY <1>1, GroupedSigns
<1> HIDE DEF s
<1>4. ASSUME NEW i \in 1..size
      PROVE  s[i] = "-" <=> i <= signs
  <2>1. CASE i = 1
    <3>1. s[1] = "-" <=> 1 <= signs
      <4>1. s[1] = x[1]
        BY <1>3
      <4> QED BY <4>1
    <3> QED BY <2>1, <3>1
  <2>2. CASE i # 1
    <3>1. i \in 2..size /\ ~(i <= signs)
      <4>1. signs \in 0..1
        OBVIOUS
      <4> HIDE DEF signs
      <4> QED BY <1>1, <2>2, <4>1
    <3> QED BY <1>3, <3>1
  <2> QED BY <2>1, <2>2
<1>5. ASSUME NEW i \in 1..size
      PROVE  s[i] = "," <=> i > signs /\ (size + 1 - i) % 4 = 0
  <2>1. CASE i = 1
    <3>1. size + 1 - i = size
      BY <1>1, <2>1
    <3> QED BY <1>3, <3>1
  <2>2. CASE i # 1
    <3>1. i > signs
      BY <1>1, <2>2
    <3> QED BY <1>3, <3>1
  <2> QED BY <2>1, <2>2
<1>6. signs \in 0..size
  BY <1>1
<1> HIDE DEF signs
<1>7. Marked(s, signs)
  BY <1>1, <1>4, <1>5, <1>6 DEF Marked
<1> QED BY <1>2, <1>7 DEF s, signs

\* One more sign in front.
LEMMA SignMarked ==
  ASSUME NEW s, NEW signs, NEW m, Marked(s, signs), ReadAs(s, m)
  PROVE  Marked(<<"-">> \o s, signs + 1) /\ ReadAs(<<"-">> \o s, m)
<1> DEFINE shown == <<"-">> \o s
           size == Len(s)
<1>1. s \in Seq(Characters) /\ size \in Nat /\ signs \in 0..size
  <2>1. s \in Seq(Characters) /\ signs \in 0..size
    BY Zenon DEF Marked
  <2> QED BY <2>1
<1>2. PICK v : Reading(s, v) /\ v[size] = m
  BY DEF ReadAs
<1>3. PICK w : /\ shown \in Seq(Characters) /\ Len(shown) = size + 1
               /\ shown[1] = "-" /\ \A i \in 1..size : shown[i + 1] = s[i]
               /\ Reading(shown, w) /\ w[size + 1] = v[size]
  BY <1>1, <1>2, SignReads
<1>4. \A i \in 1..size : s[i] = "-" <=> i <= signs
  BY DEF Marked
<1>5. \A i \in 1..size : s[i] = "," <=> i > signs /\ (size + 1 - i) % 4 = 0
  BY Zenon DEF Marked
<1> HIDE DEF shown, size
<1>6. ReadAs(shown, m)
  BY <1>2, <1>3 DEF ReadAs
<1>7. ASSUME NEW i \in 1..(size + 1)
      PROVE  /\ shown[i] = "-" <=> i <= signs + 1
             /\ shown[i] = "," <=> i > signs + 1 /\ (size + 1 + 1 - i) % 4 = 0
  <2>1. CASE i = 1
    <3>1. shown[i] = "-" /\ shown[i] # ","
      BY <1>3, <2>1
    <3>2. i <= signs + 1 /\ ~(i > signs + 1)
      BY <1>1, <2>1
    <3> QED BY <3>1, <3>2
  <2>2. CASE i # 1
    <3> DEFINE k == i - 1
    <3>1. k \in 1..size /\ k + 1 = i
      BY <1>1, <2>2
    <3>2. shown[i] = s[k]
      BY <1>3, <3>1
    <3>3. /\ k <= signs <=> i <= signs + 1
          /\ k > signs <=> i > signs + 1
          /\ size + 1 - k = size + 1 + 1 - i
      BY <1>1
    <3> HIDE DEF k
    <3> QED BY <1>4, <1>5, <3>1, <3>2, <3>3
  <2> QED BY <2>1, <2>2
<1>8. signs + 1 \in 0..(size + 1)
  BY <1>1
<1>9. Marked(shown, signs + 1)
  BY <1>3, <1>7, <1>8 DEF Marked
<1> QED BY <1>6, <1>9 DEF shown

\* formatCount: whatever the whole number, the smallest int64 included, what is
\* printed can be read back.
THEOREM CountShown ==
  ASSUME NEW value, value.is = "whole", value.n \in Int
  PROVE  ShownRight(value.n, FormatCount(value))
<1> DEFINE n == value.n
           size == IF n < 0 THEN -n ELSE n
           s == DigitsOf[size]
<1>1. FormatCount(value) = IF n < 0 THEN <<"-">> \o Grouped(FormatInt(Negated(n)))
                           ELSE Grouped(FormatInt(n))
  BY DEF FormatCount
<1>2. n \in Int /\ size \in Nat
  OBVIOUS
<1> HIDE DEF n
<1>3. s \in Seq(Characters) /\ Len(s) > 0 /\ ReadAs(s, size)
  <2> HIDE DEF size
  <2> QED BY <1>2, DigitsAre
<1>4. \A i \in 1..Len(s) : s[i] \notin {"-", ","}
  <2> HIDE DEF size
  <2> QED BY <1>2, DigitsAre
<1>5. Ungrouped(s) /\ s[1] # "-"
  <2> HIDE DEF s
  <2>1. Ungrouped(s)
    BY <1>4, Zenon DEF Ungrouped
  <2>2. 1 \in 1..Len(s)
    BY <1>3
  <2>3. s[1] # "-"
    BY <1>4, <2>2, Zenon
  <2> QED BY <2>1, <2>3
<1>6. ReadAs(Grouped(s), size) /\ Marked(Grouped(s), 0)
  <2> HIDE DEF s, size
  <2> QED BY <1>3, <1>5, GroupedMarked
<1>7. CASE n >= 0
  <2>1. FormatCount(value) = Grouped(s)
    BY <1>1, <1>2, <1>7 DEF FormatInt
  <2> QED BY <1>2, <1>6, <1>7, <2>1, MarkedIsRight DEF n
<1>8. CASE n < 0 /\ n # Smallest
  <2>1. Negated(n) = -n /\ ~(-n < 0)
    BY <1>2, <1>8 DEF Negated
  <2>2. FormatCount(value) = <<"-">> \o Grouped(s)
    BY <1>1, <1>8, <2>1 DEF FormatInt
  <2>3. ReadAs(<<"-">> \o Grouped(s), size) /\ Marked(<<"-">> \o Grouped(s), 1)
    <3>1. 0 + 1 = 1
      OBVIOUS
    <3> HIDE DEF s, size
    <3> QED BY <1>6, <3>1, SignMarked
  <2>4. ~(n >= 0)
    BY <1>2, <1>8
  <2> HIDE DEF s
  <2> QED BY <1>2, <1>8, <2>2, <2>3, <2>4, MarkedIsRight DEF n
<1>9. CASE n < 0 /\ n = Smallest
  <2> DEFINE x == <<"-">> \o s
  <2>1. Negated(n) = n
    BY <1>9 DEF Negated
  <2>2. FormatCount(value) = <<"-">> \o Grouped(x)
    BY <1>1, <1>9, <2>1 DEF FormatInt
  <2>3. /\ x \in Seq(Characters) /\ Len(x) = Len(s) + 1 /\ x[1] = "-"
        /\ \A i \in 1..Len(s) : x[i + 1] = s[i]
        /\ ReadAs(x, size)
    <3>1. PICK v : Reading(s, v) /\ v[Len(s)] = size
      BY <1>3 DEF ReadAs
    <3> HIDE DEF s, size
    <3>2. PICK u : /\ x \in Seq(Characters) /\ Len(x) = Len(s) + 1 /\ x[1] = "-"
                   /\ \A i \in 1..Len(s) : x[i + 1] = s[i]
                   /\ Reading(x, u) /\ u[Len(s) + 1] = v[Len(s)]
      BY <1>3, <3>1, SignReads
    <3> HIDE DEF x
    <3> QED BY <3>1, <3>2 DEF ReadAs
  <2>4. Ungrouped(x)
    <3> HIDE DEF s, x
    <3> SUFFICES ASSUME NEW k \in 1..Len(x) PROVE x[k] # "," /\ (k # 1 => x[k] # "-")
      BY DEF Ungrouped
    <3>1. CASE k = 1
      <4>1. x[1] = "-"
        BY <2>3
      <4> QED BY <3>1, <4>1
    <3>2. CASE k # 1
      <4>1. Len(s) \in Nat /\ Len(x) = Len(s) + 1
        BY <1>3, <2>3
      <4>2. k - 1 \in 1..Len(s) /\ (k - 1) + 1 = k
        BY <3>2, <4>1
      <4>3. s[k - 1] \notin {"-", ","}
        BY <1>4, <4>2, Zenon
      <4>4. x[(k - 1) + 1] = s[k - 1]
        BY <2>3, <4>2, Zenon
      <4> QED BY <4>2, <4>3, <4>4
    <3> QED BY <3>1, <3>2
  <2>5. Len(x) > 0
    <3> HIDE DEF s, x
    <3> QED BY <1>3, <2>3
  <2> HIDE DEF s, x, size
  <2>6. ReadAs(Grouped(x), size) /\ Marked(Grouped(x), 1)
    BY <2>3, <2>4, <2>5, GroupedMarked
  <2>7. ReadAs(<<"-">> \o Grouped(x), size) /\ Marked(<<"-">> \o Grouped(x), 2)
    <3>1. 1 + 1 = 2
      OBVIOUS
    <3> QED BY <2>6, <3>1, SignMarked
  <2>8. ~(n >= 0)
    BY <1>2, <1>9
  <2> QED BY <1>2, <1>9, <2>2, <2>7, <2>8, MarkedIsRight DEF n, size
<1> QED BY <1>2, <1>7, <1>8, <1>9
=============================================================================
