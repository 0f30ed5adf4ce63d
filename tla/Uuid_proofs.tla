---------------------------- MODULE Uuid_proofs ----------------------------
(***************************************************************************)
(* Proofs about Uuid, for any number of objects, any clock and any draws.   *)
(*                                                                         *)
(* The loops over the digits of 64-bit numbers are recursive functions;     *)
(* each is shown to satisfy its recursion once, and from then on a number   *)
(* is the sum (Value) of its eight digits and the arithmetic is linear.     *)
(* Then the forms of a UUID, each with its inverse; what an action makes of *)
(* an object; the inductive invariant; and the theorems.                    *)
(***************************************************************************)
EXTENDS Uuid, SequenceTheorems, FiniteSetTheorems, WellFoundedInduction, TLAPS

-----------------------------------------------------------------------------

LEMMA SetInduction ==
  ASSUME NEW S, 0 \in S, \A n \in Nat : n \in S => n + 1 \in S
  PROVE  Nat \subseteq S
<1> SUFFICES ASSUME NEW m \in Nat, m \notin S PROVE FALSE
  OBVIOUS
<1> DEFINE T == {n \in Nat : n \notin S}
           R == OpToRel(<, Nat)
<1>1. IsWellFoundedOn(R, Nat)
  BY NatLessThanWellFounded DEF OpToRel
<1>2. T \subseteq Nat /\ T # {}
  OBVIOUS
<1> HIDE DEF R
<1>3. PICK x \in T : \A y \in T : ~ (<<y, x>> \in R)
  BY <1>1, <1>2, WFMin
<1>4. x # 0
  BY <1>3
<1>5. x - 1 \in Nat /\ x - 1 < x
  BY <1>4
<1>6. <<x - 1, x>> \in R
  BY <1>5, <1>3 DEF R, OpToRel
<1> QED BY <1>3, <1>5, <1>6

\* The values that `step' gives one after the other, from b.
Steps(n, X) == [(1..n) \X X -> X]
Iterates(f, n, X, b, step) ==
  f \in [0..n -> X] /\ f[0] = b /\ \A m \in 1..n : f[m] = step[<<m, f[m - 1]>>]

LEMMA Iteration ==
  ASSUME NEW n \in Nat, NEW X, NEW b \in X, NEW step \in Steps(n, X)
  PROVE  \E f : Iterates(f, n, X, b, step)
<1> USE DEF Steps
<1> DEFINE Good(k, f) == f[0] = b /\ \A m \in 1..k : f[m] = step[<<m, f[m - 1]>>]
           D == {k \in Nat : k <= n => \E f \in [0..k -> X] : Good(k, f)}
<1>1. 0 \in D
  <2>1. [i \in 0..0 |-> b] \in [0..0 -> X] /\ Good(0, [i \in 0..0 |-> b])
    OBVIOUS
  <2> QED BY <2>1
<1>2. ASSUME NEW k \in Nat, k \in D PROVE k + 1 \in D
  <2> SUFFICES ASSUME k + 1 <= n PROVE \E f \in [0..k + 1 -> X] : Good(k + 1, f)
    OBVIOUS
  <2>1. PICK f \in [0..k -> X] : Good(k, f)
    BY <1>2
  <2> DEFINE g == [i \in 0..k + 1 |-> IF i = k + 1 THEN step[<<k + 1, f[k]>>] ELSE f[i]]
  <2>2. f[k] \in X /\ k + 1 \in 1..n
    BY <2>1
  <2>3. step[<<k + 1, f[k]>>] \in X
    BY <2>2
  <2>4. g \in [0..k + 1 -> X]
    BY <2>3, <2>1
  <2>5. Good(k + 1, g)
    <3>1. g[0] = b
      BY <2>1
    <3>2. ASSUME NEW m \in 1..k + 1 PROVE g[m] = step[<<m, g[m - 1]>>]
      <4>1. CASE m = k + 1
        <5>1. g[m - 1] = f[k] /\ g[k + 1] = step[<<k + 1, f[k]>>]
          BY <4>1
        <5> HIDE DEF g
        <5> QED BY <5>1, <4>1
      <4>2. CASE m # k + 1
        <5>1. m \in 1..k /\ g[m] = f[m] /\ g[m - 1] = f[m - 1]
          BY <4>2
        <5> QED BY <5>1, <2>1
      <4> QED BY <4>1, <4>2
    <3> QED BY <3>1, <3>2
  <2> QED BY <2>4, <2>5
<1> HIDE DEF D
<1>3. n \in D
  BY <1>1, <1>2, SetInduction
<1> QED BY <1>3 DEF D, Iterates

\* What starts in a set and does not leave it in one step is in it.
LEMMA StaysIn ==
  ASSUME NEW N \in Nat, NEW h, NEW X, h[0] \in X, \A m \in 1..N : h[m - 1] \in X => h[m] \in X
  PROVE  \A m \in 0..N : h[m] \in X
<1> DEFINE D == {n \in Nat : n <= N => h[n] \in X}
<1>1. 0 \in D
  OBVIOUS
<1>2. ASSUME NEW n \in Nat, n \in D PROVE n + 1 \in D
  <2> SUFFICES ASSUME n + 1 <= N PROVE h[n + 1] \in X
    OBVIOUS
  <2>1. n + 1 \in 1..N /\ (n + 1) - 1 = n /\ h[n] \in X
    BY <1>2
  <2> QED BY <2>1
<1> HIDE DEF D
<1>3. \A n \in 0..N : n \in D
  BY <1>1, <1>2, SetInduction
<1> QED BY <1>3 DEF D

\* A function over 1..n is a sequence of that length.
LEMMA FunctionIsSeq ==
  ASSUME NEW n \in Nat, NEW S, NEW s \in [1..n -> S]
  PROVE  s \in Seq(S) /\ Len(s) = n
BY SeqDef, LenProperties
-----------------------------------------------------------------------------
\* A part of a function on the first numbers is a function on the first numbers.
LEMMA Cut ==
  ASSUME NEW S, NEW s, NEW m \in Nat, NEW n \in Nat, \A i \in m..m + n - 1 : s[i] \in S
  PROVE  SubSeq(s, m, m + n - 1) = [i \in 1..n |-> s[m + i - 1]]
<1> DEFINE t == [i \in 1..n |-> s[m + i - 1]]
<1>1. t \in [1..n -> S]
  OBVIOUS
<1>2. t \in Seq(S) /\ Len(t) = n
  BY <1>1, FunctionIsSeq
<1>3. PICK k \in Int : k = m + n - 1
  OBVIOUS
<1>4. SubSeq(s, m, k) \in Seq(S) /\ Len(SubSeq(s, m, k)) = n
      /\ \A i \in 1..n : SubSeq(s, m, k)[i] = s[m + i - 1]
  <2>1. (IF m <= k THEN k - m + 1 ELSE 0) = n /\ k - m + 1 = n
    BY <1>3
  <2>2. \A i \in m..k : s[i] \in S
    BY <1>3
  <2> QED BY <2>1, <2>2, SubSeqProperties
<1>5. \A i \in 1..n : SubSeq(s, m, k)[i] = t[i]
  BY <1>4
<1> HIDE DEF t
<1>6. SubSeq(s, m, k) = t
  BY <1>2, <1>4, <1>5, SeqEqual
<1> QED BY <1>3, <1>6 DEF t

\* The tuples of two and of four bytes are functions on the first numbers.
LEMMA Two ==
  ASSUME NEW S, NEW f \in [1..2 -> S]
  PROVE  f = <<f[1], f[2]>>
<1>1. PICK a \in S, b \in S : a = f[1] /\ b = f[2]
  OBVIOUS
<1>2. <<a, b>> \in Seq(S) /\ Len(<<a, b>>) = 2 /\ <<a, b>>[1] = a /\ <<a, b>>[2] = b
  OBVIOUS
<1>3. f \in Seq(S) /\ Len(f) = 2
  BY FunctionIsSeq
<1>4. \A i \in 1..2 : f[i] = <<a, b>>[i]
  BY <1>1, <1>2
<1>5. f = <<a, b>>
  BY <1>2, <1>3, <1>4, SeqEqual
<1> QED BY <1>1, <1>5

LEMMA Four ==
  ASSUME NEW S, NEW f \in [1..4 -> S]
  PROVE  f = <<f[1], f[2], f[3], f[4]>>
<1>1. PICK a \in S, b \in S, c \in S, d \in S : a = f[1] /\ b = f[2] /\ c = f[3] /\ d = f[4]
  OBVIOUS
<1>2. <<a, b, c, d>> \in Seq(S) /\ Len(<<a, b, c, d>>) = 4
      /\ <<a, b, c, d>>[1] = a /\ <<a, b, c, d>>[2] = b /\ <<a, b, c, d>>[3] = c /\ <<a, b, c, d>>[4] = d
  OBVIOUS
<1>3. f \in Seq(S) /\ Len(f) = 4
  BY FunctionIsSeq
<1>4. \A i \in 1..4 : f[i] = <<a, b, c, d>>[i]
  BY <1>1, <1>2
<1>5. f = <<a, b, c, d>>
  BY <1>2, <1>3, <1>4, SeqEqual
<1> QED BY <1>1, <1>5

\* What Reverse returns, and that it undoes itself.
LEMMA FlipIs ==
  ASSUME NEW n \in Nat, NEW S, NEW s \in [1..n -> S]
  PROVE  /\ Reverse(s) \in [1..n -> S]
         /\ \A i \in 1..n : Reverse(s)[i] = s[n - i + 1]
         /\ Reverse(Reverse(s)) = s
<1>1. s \in Seq(S) /\ Len(s) = n
  BY FunctionIsSeq
<1>2. Reverse(s) = [i \in 1..n |-> s[n - i + 1]]
  <2>1. Reverse(s) = [i \in 1..Len(s) |-> s[(Len(s) - i) + 1]]
    BY DEF Reverse
  <2> QED BY <2>1, <1>1
<1>3. Reverse(s) \in [1..n -> S]
  BY <1>2
<1>4. Reverse(s) \in Seq(S) /\ Len(Reverse(s)) = n
  BY <1>3, FunctionIsSeq
<1>5. PICK r \in [1..n -> S] : r = Reverse(s)
  BY <1>3
<1>6. Reverse(r) = [i \in 1..n |-> r[n - i + 1]]
  <2>1. Reverse(r) = [i \in 1..Len(r) |-> r[(Len(r) - i) + 1]]
    BY DEF Reverse
  <2> QED BY <2>1, <1>4, <1>5
<1>7. \A i \in 1..n : r[n - i + 1] = s[i]
  <2> SUFFICES ASSUME NEW i \in 1..n PROVE r[n - i + 1] = s[i]
    OBVIOUS
  <2>1. n - i + 1 \in 1..n /\ n - (n - i + 1) + 1 = i
    OBVIOUS
  <2> QED BY <2>1, <1>2, <1>5
<1>8. Reverse(r) = s
  BY <1>6, <1>7
<1> QED BY <1>2, <1>3, <1>5, <1>8


-----------------------------------------------------------------------------
\* What the loop of ui64_add does with a sum and the carry so far.
Add1(d, below) ==
  LET sum == below.ov + d
  IN  [x |-> Append(below.x, sum % UI64_BASE), ov |-> sum \div UI64_BASE]

CarriedOf(s, z) ==
  z = [i \in 0..Len(s) |-> IF i = 0 THEN [x |-> <<>>, ov |-> 0] ELSE Add1(s[i], z[i - 1])]

\* A digit, and what is carried from it to the next (ui64_add).
LEMMA Split ==
  ASSUME NEW a \in Int
  PROVE  /\ a % UI64_BASE \in Byte /\ a \div UI64_BASE \in Int
         /\ a = (UI64_BASE * (a \div UI64_BASE)) + (a % UI64_BASE)
BY DEF UI64_BASE, Byte

\* The digits of Carried are those of the sums, and c is what is carried.
LEMMA CarriedUnfolds ==
  ASSUME NEW n \in Nat, NEW s \in [1..n -> Int]
  PROVE  \E c \in [0..n -> Int] :
           /\ c[0] = 0 /\ Carried(s).ov = c[n]
           /\ Carried(s).x \in [1..n -> Byte] /\ Carried(s) \in [x : Seq(Byte), ov : Int]
           /\ \A i \in 1..n : /\ Carried(s).x[i] = (c[i - 1] + s[i]) % UI64_BASE
                              /\ c[i] = (c[i - 1] + s[i]) \div UI64_BASE
<1> DEFINE X == [x : Seq(Byte), ov : Int]
           b == [x |-> <<>>, ov |-> 0]
           step == [y \in (1..n) \X X |-> Add1(s[y[1]], y[2])]
           h == CHOOSE z : CarriedOf(s, z)
<1>1. Len(s) = n
  BY FunctionIsSeq
<1>2. Carried(s) = h[n]
  BY <1>1 DEF Carried, CarriedOf, Add1
<1>3. ASSUME NEW d \in Int, NEW a \in X
      PROVE  /\ Add1(d, a) \in X /\ Add1(d, a).ov = (a.ov + d) \div UI64_BASE
             /\ Add1(d, a).x = Append(a.x, (a.ov + d) % UI64_BASE)
             /\ (a.ov + d) % UI64_BASE \in Byte
  <2>1. a.ov + d \in Int /\ a.x \in Seq(Byte)
    BY <1>3
  <2>2. (a.ov + d) % UI64_BASE \in Byte /\ (a.ov + d) \div UI64_BASE \in Int
    BY <2>1, Split
  <2>3. Append(a.x, (a.ov + d) % UI64_BASE) \in Seq(Byte)
    BY <2>1, <2>2, AppendProperties
  <2> QED BY <2>2, <2>3 DEF Add1
<1>4. b \in X
  OBVIOUS
<1>5. step \in Steps(n, X)
  BY <1>3 DEF Steps
<1> HIDE DEF b, X
<1>6. PICK f : Iterates(f, n, X, b, step)
  <2> HIDE DEF step
  <2> QED BY <1>4, <1>5, Iteration
<1>7. CarriedOf(s, f)
  <2>1. f = [i \in 0..n |-> f[i]] /\ f[0] = b /\ f \in [0..n -> X]
    BY <1>6 DEF Iterates
  <2>2. ASSUME NEW i \in 1..n PROVE f[i] = Add1(s[i], f[i - 1])
    <3> HIDE DEF step
    <3>1. f[i] = step[<<i, f[i - 1]>>] /\ i - 1 \in 0..n
      BY <1>6 DEF Iterates
    <3>2. <<i, f[i - 1]>> \in (1..n) \X X
      BY <2>1, <3>1
    <3> QED BY <3>1, <3>2 DEF step
  <2> HIDE DEF step, h
  <2>3. ASSUME NEW i \in 0..n PROVE f[i] = IF i = 0 THEN b ELSE Add1(s[i], f[i - 1])
    <3>1. CASE i = 0
      BY <3>1, <2>1
    <3>2. CASE i # 0
      <4>1. i \in 1..n
        BY <3>2
      <4> QED BY <4>1, <2>2
    <3> QED BY <3>1, <3>2
  <2>4. f = [i \in 0..n |-> IF i = 0 THEN b ELSE Add1(s[i], f[i - 1])]
    BY <2>1, <2>3
  <2> QED BY <2>4, <1>1 DEF CarriedOf, b
<1>8. CarriedOf(s, h)
  BY <1>7
<1>9. h[0] = b /\ \A m \in 1..n : h[m] = Add1(s[m], h[m - 1])
  <2> HIDE DEF h
  <2>1. h = [i \in 0..n |-> IF i = 0 THEN b ELSE Add1(s[i], h[i - 1])]
    BY <1>1, <1>8 DEF CarriedOf, b
  <2> QED BY <2>1
<1> HIDE DEF h, step
<1>10. \A m \in 0..n : h[m] \in X
  <2>1. \A m \in 1..n : h[m - 1] \in X => h[m] \in X
    <3> SUFFICES ASSUME NEW m \in 1..n, h[m - 1] \in X PROVE h[m] \in X
      OBVIOUS
    <3>1. h[m] = Add1(s[m], h[m - 1]) /\ s[m] \in Int
      BY <1>9
    <3> QED BY <3>1, <1>3
  <2>2. h[0] \in X
    BY <1>4, <1>9
  <2> QED BY <2>1, <2>2, StaysIn
<1> DEFINE c == [i \in 0..n |-> h[i].ov]
           digit(i) == (c[i - 1] + s[i]) % UI64_BASE
<1>11. c \in [0..n -> Int] /\ c[0] = 0
  BY <1>9, <1>10 DEF X, b
<1>12. ASSUME NEW m \in 1..n
       PROVE  /\ c[m] = (c[m - 1] + s[m]) \div UI64_BASE
              /\ h[m].x = Append(h[m - 1].x, digit(m))
              /\ digit(m) \in Byte
  <2>1. s[m] \in Int /\ m - 1 \in 0..n /\ m \in 0..n
    OBVIOUS
  <2>2. h[m - 1] \in X /\ h[m] = Add1(s[m], h[m - 1]) /\ c[m - 1] = h[m - 1].ov /\ c[m] = h[m].ov
    BY <2>1, <1>9, <1>10
  <2> HIDE DEF c
  <2> QED BY <1>3, <2>1, <2>2
<1> HIDE DEF c
<1> DEFINE Done == {k \in 0..n : h[k].x = [i \in 1..k |-> digit(i)]}
           where == [k \in 0..n |-> k]
<1>13. 0 \in Done
  BY <1>9 DEF b
<1>14. ASSUME NEW m \in 1..n, m - 1 \in Done PROVE m \in Done
  <2> DEFINE q == [i \in 1..m - 1 |-> digit(i)]
  <2>1. q \in [1..m - 1 -> Byte] /\ m - 1 \in Nat
    <3> HIDE DEF digit
    <3> QED BY <1>12
  <2>2. q \in Seq(Byte) /\ Len(q) = m - 1
    <3> HIDE DEF q
    <3> QED BY <2>1, FunctionIsSeq
  <2>3. h[m].x = Append(q, digit(m))
    BY <1>12, <1>14
  <2>4. Append(q, digit(m)) = [i \in 1..m |-> digit(i)]
    <3>1. digit(m) \in Byte
      BY <1>12
    <3> HIDE DEF digit
    <3>2. Append(q, digit(m)) \in Seq(Byte) /\ Len(Append(q, digit(m))) = m
          /\ \A i \in 1..m : Append(q, digit(m))[i] = IF i = m THEN digit(m) ELSE q[i]
      <4> HIDE DEF q
      <4> QED BY <2>1, <2>2, <3>1, AppendProperties
    <3>3. \A i \in 1..m : Append(q, digit(m))[i] = digit(i)
      BY <3>2
    <3>4. Append(q, digit(m)) = [i \in 1..m |-> Append(q, digit(m))[i]]
      <4> HIDE DEF q
      <4> QED BY <3>2, LenProperties
    <3> QED BY <3>3, <3>4
  <2> HIDE DEF digit
  <2>5. m \in 0..n /\ h[m].x = [i \in 1..m |-> digit(i)]
    BY <2>3, <2>4
  <2> QED BY <2>5
<1>15. n \in Done
  <2> HIDE DEF Done
  <2>1. where[0] \in Done /\ \A m \in 1..n : where[m - 1] \in Done => where[m] \in Done
    BY <1>13, <1>14
  <2>2. \A m \in 0..n : where[m] \in Done
    <3> HIDE DEF where
    <3> QED BY <2>1, StaysIn
  <2> QED BY <2>2
<1>16. Carried(s).x = [i \in 1..n |-> digit(i)]
  BY <1>2, <1>15
<1>17. Carried(s).ov = c[n]
  BY <1>2 DEF c
<1>18. [i \in 1..n |-> digit(i)] \in [1..n -> Byte]
  <2> HIDE DEF digit
  <2> QED BY <1>12
<1>19. Carried(s) \in [x : Seq(Byte), ov : Int]
  BY <1>2, <1>10 DEF X
<1> QED BY <1>11, <1>12, <1>16, <1>17, <1>18, <1>19

-----------------------------------------------------------------------------
\* A 64-bit number, what it stands for, and how many there are (ui64_t).
Number == [1..8 -> Byte]
Sum(a, b, c, d, e, f, g, h) ==
  a + 256 * b + 65536 * c + 16777216 * d + 4294967296 * e
    + 1099511627776 * f + 281474976710656 * g + 72057594037927936 * h
Value(x) == Sum(x[1], x[2], x[3], x[4], x[5], x[6], x[7], x[8])
Top == 18446744073709551616

\* The eight digits by names of their own.
LEMMA Digits ==
  ASSUME NEW S, NEW x \in [1..8 -> S]
  PROVE  \E a \in S, b \in S, c \in S, d \in S, e \in S, f \in S, g \in S, h \in S :
           /\ x[1] = a /\ x[2] = b /\ x[3] = c /\ x[4] = d
           /\ x[5] = e /\ x[6] = f /\ x[7] = g /\ x[8] = h
<1>1. /\ x[1] \in S /\ x[2] \in S /\ x[3] \in S /\ x[4] \in S
      /\ x[5] \in S /\ x[6] \in S /\ x[7] \in S /\ x[8] \in S
  OBVIOUS
<1> QED BY <1>1

\* A byte has eight bits.
LEMMA ByteIs == Byte = 0..255
BY DEF Byte, UI64_BASE

\* A number is below 2^64.
LEMMA ValueRange ==
  ASSUME NEW x \in Number
  PROVE  Value(x) \in 0..Top - 1
<1>1. PICK a \in Byte, b \in Byte, c \in Byte, d \in Byte,
           e \in Byte, f \in Byte, g \in Byte, h \in Byte :
           /\ x[1] = a /\ x[2] = b /\ x[3] = c /\ x[4] = d
           /\ x[5] = e /\ x[6] = f /\ x[7] = g /\ x[8] = h
  BY Digits DEF Number
<1>2. Value(x) = Sum(a, b, c, d, e, f, g, h)
  BY <1>1 DEF Value
<1>3. Sum(a, b, c, d, e, f, g, h) \in 0..Top - 1
  BY ByteIs DEF Sum, Top
<1> QED BY <1>2, <1>3

\* What is carried is not lost: the digits and the carry have the value of the sums.
LEMMA CarriedValue ==
  ASSUME NEW s \in [1..8 -> Int]
  PROVE  /\ Carried(s) \in [x : Number, ov : Int]
         /\ Carried(s).x \in Number /\ Carried(s).ov \in Int
         /\ Value(s) = Value(Carried(s).x) + Top * Carried(s).ov
<1>1. PICK c \in [0..8 -> Int] :
           /\ c[0] = 0 /\ Carried(s).ov = c[8]
           /\ Carried(s).x \in [1..8 -> Byte] /\ Carried(s) \in [x : Seq(Byte), ov : Int]
           /\ \A i \in 1..8 : /\ Carried(s).x[i] = (c[i - 1] + s[i]) % UI64_BASE
                              /\ c[i] = (c[i - 1] + s[i]) \div UI64_BASE
  <2>1. 8 \in Nat
    OBVIOUS
  <2> QED BY <2>1, CarriedUnfolds
<1>2. PICK x \in Number : x = Carried(s).x
  BY <1>1 DEF Number
<1>3. ASSUME NEW i \in 1..8 PROVE c[i - 1] + s[i] = x[i] + 256 * c[i]
  <2>1. c[i - 1] \in Int /\ s[i] \in Int
    OBVIOUS
  <2>2. PICK a \in Int : a = c[i - 1] + s[i]
    BY <2>1
  <2>3. x[i] = a % 256 /\ c[i] = a \div 256
    BY <1>1, <1>2, <2>2 DEF UI64_BASE
  <2>4. a = (256 * (a \div 256)) + (a % 256)
    OBVIOUS
  <2> QED BY <2>2, <2>3, <2>4
<1>4. PICK s1 \in Int, s2 \in Int, s3 \in Int, s4 \in Int,
           s5 \in Int, s6 \in Int, s7 \in Int, s8 \in Int :
           /\ s[1] = s1 /\ s[2] = s2 /\ s[3] = s3 /\ s[4] = s4
           /\ s[5] = s5 /\ s[6] = s6 /\ s[7] = s7 /\ s[8] = s8
  BY Digits
<1>5. PICK x1 \in Byte, x2 \in Byte, x3 \in Byte, x4 \in Byte,
           x5 \in Byte, x6 \in Byte, x7 \in Byte, x8 \in Byte :
           /\ x[1] = x1 /\ x[2] = x2 /\ x[3] = x3 /\ x[4] = x4
           /\ x[5] = x5 /\ x[6] = x6 /\ x[7] = x7 /\ x[8] = x8
  BY Digits DEF Number
<1>6. PICK c1 \in Int, c2 \in Int, c3 \in Int, c4 \in Int,
           c5 \in Int, c6 \in Int, c7 \in Int, c8 \in Int :
           /\ c[1] = c1 /\ c[2] = c2 /\ c[3] = c3 /\ c[4] = c4
           /\ c[5] = c5 /\ c[6] = c6 /\ c[7] = c7 /\ c[8] = c8
  <2>1. \A i \in 1..8 : c[i] \in Int
    OBVIOUS
  <2>2. c[1] \in Int /\ c[2] \in Int /\ c[3] \in Int /\ c[4] \in Int
        /\ c[5] \in Int /\ c[6] \in Int /\ c[7] \in Int /\ c[8] \in Int
    BY <2>1
  <2> QED BY <2>2
<1>7. x1 \in Int /\ x2 \in Int /\ x3 \in Int /\ x4 \in Int /\ x5 \in Int /\ x6 \in Int /\ x7 \in Int /\ x8 \in Int
  BY ByteIs
<1>8. /\ s1 = x1 + 256 * c1 /\ c1 + s2 = x2 + 256 * c2
      /\ c2 + s3 = x3 + 256 * c3 /\ c3 + s4 = x4 + 256 * c4
      /\ c4 + s5 = x5 + 256 * c5 /\ c5 + s6 = x6 + 256 * c6
      /\ c6 + s7 = x7 + 256 * c7 /\ c7 + s8 = x8 + 256 * c8
  <2>1. c[0] + s1 = x1 + 256 * c1
    BY <1>3, <1>4, <1>5, <1>6
  <2>2. c1 + s2 = x2 + 256 * c2
    BY <1>3, <1>4, <1>5, <1>6
  <2>3. c2 + s3 = x3 + 256 * c3
    BY <1>3, <1>4, <1>5, <1>6
  <2>4. c3 + s4 = x4 + 256 * c4
    BY <1>3, <1>4, <1>5, <1>6
  <2>5. c4 + s5 = x5 + 256 * c5
    BY <1>3, <1>4, <1>5, <1>6
  <2>6. c5 + s6 = x6 + 256 * c6
    BY <1>3, <1>4, <1>5, <1>6
  <2>7. c6 + s7 = x7 + 256 * c7
    BY <1>3, <1>4, <1>5, <1>6
  <2>8. c7 + s8 = x8 + 256 * c8
    BY <1>3, <1>4, <1>5, <1>6
  <2>9. s1 = x1 + 256 * c1
    BY <2>1, <1>1
  <2> QED BY <2>2, <2>3, <2>4, <2>5, <2>6, <2>7, <2>8, <2>9
<1>9. Sum(s1, s2, s3, s4, s5, s6, s7, s8) = Sum(x1, x2, x3, x4, x5, x6, x7, x8) + Top * c8
  BY <1>7, <1>8 DEF Sum, Top
<1>10. Value(s) = Sum(s1, s2, s3, s4, s5, s6, s7, s8) /\ Value(x) = Sum(x1, x2, x3, x4, x5, x6, x7, x8)
  BY <1>4, <1>5 DEF Value
<1>11. Carried(s) \in [x : Number, ov : Int]
  BY <1>1 DEF Number
<1> QED BY <1>1, <1>2, <1>6, <1>9, <1>10, <1>11

\* Sums that together stand for a number are that number when they are carried.
LEMMA CarriedIs ==
  ASSUME NEW s \in [1..8 -> Int], Value(s) \in 0..Top - 1
  PROVE  Carried(s).x \in Number /\ Carried(s).ov = 0 /\ Value(Carried(s).x) = Value(s)
<1>1. PICK v \in 0..Top - 1 : v = Value(Carried(s).x)
  BY CarriedValue, ValueRange
<1>2. PICK k \in Int : k = Carried(s).ov
  BY CarriedValue
<1>3. PICK w \in 0..Top - 1 : w = Value(s)
  OBVIOUS
<1>4. w = v + Top * k
  BY CarriedValue, <1>1, <1>2, <1>3
<1>5. k = 0 /\ v = w
  BY <1>4 DEF Top
<1> QED BY <1>1, <1>2, <1>3, <1>5, CarriedValue

\* The lowest digit is the number modulo 256.
LEMMA LowestDigit ==
  ASSUME NEW a \in Byte, NEW b \in Byte, NEW m \in Int, NEW n \in Int,
         a + 256 * m = b + 256 * n
  PROVE  a = b /\ m = n
BY ByteIs

\* Two numbers with one value are one number.
LEMMA ValueUnique ==
  ASSUME NEW x \in Number, NEW y \in Number, Value(x) = Value(y)
  PROVE  x = y
<1>1. PICK x1 \in Byte, x2 \in Byte, x3 \in Byte, x4 \in Byte,
           x5 \in Byte, x6 \in Byte, x7 \in Byte, x8 \in Byte :
           /\ x[1] = x1 /\ x[2] = x2 /\ x[3] = x3 /\ x[4] = x4
           /\ x[5] = x5 /\ x[6] = x6 /\ x[7] = x7 /\ x[8] = x8
  BY Digits DEF Number
<1>2. PICK y1 \in Byte, y2 \in Byte, y3 \in Byte, y4 \in Byte,
           y5 \in Byte, y6 \in Byte, y7 \in Byte, y8 \in Byte :
           /\ y[1] = y1 /\ y[2] = y2 /\ y[3] = y3 /\ y[4] = y4
           /\ y[5] = y5 /\ y[6] = y6 /\ y[7] = y7 /\ y[8] = y8
  BY Digits DEF Number
<1>3. x1 \in Int /\ x2 \in Int /\ x3 \in Int /\ x4 \in Int /\ x5 \in Int /\ x6 \in Int /\ x7 \in Int /\ x8 \in Int
  BY ByteIs
<1>4. y1 \in Int /\ y2 \in Int /\ y3 \in Int /\ y4 \in Int /\ y5 \in Int /\ y6 \in Int /\ y7 \in Int /\ y8 \in Int
  BY ByteIs
<1>5. PICK xr7 \in Int : xr7 = x7 + 256 * x8
  BY <1>3
<1>6. PICK xr6 \in Int : xr6 = x6 + 256 * xr7
  BY <1>3
<1>7. PICK xr5 \in Int : xr5 = x5 + 256 * xr6
  BY <1>3
<1>8. PICK xr4 \in Int : xr4 = x4 + 256 * xr5
  BY <1>3
<1>9. PICK xr3 \in Int : xr3 = x3 + 256 * xr4
  BY <1>3
<1>10. PICK xr2 \in Int : xr2 = x2 + 256 * xr3
  BY <1>3
<1>11. PICK yr7 \in Int : yr7 = y7 + 256 * y8
  BY <1>4
<1>12. PICK yr6 \in Int : yr6 = y6 + 256 * yr7
  BY <1>4
<1>13. PICK yr5 \in Int : yr5 = y5 + 256 * yr6
  BY <1>4
<1>14. PICK yr4 \in Int : yr4 = y4 + 256 * yr5
  BY <1>4
<1>15. PICK yr3 \in Int : yr3 = y3 + 256 * yr4
  BY <1>4
<1>16. PICK yr2 \in Int : yr2 = y2 + 256 * yr3
  BY <1>4
<1>17. Sum(x1, x2, x3, x4, x5, x6, x7, x8) = Sum(y1, y2, y3, y4, y5, y6, y7, y8)
  BY <1>1, <1>2 DEF Value
<1>18. x1 + 256 * xr2 = y1 + 256 * yr2
  BY <1>3, <1>4, <1>5, <1>6, <1>7, <1>8, <1>9, <1>10, <1>11, <1>12, <1>13, <1>14, <1>15, <1>16,
     <1>17 DEF Sum
<1>19. x1 = y1 /\ xr2 = yr2
  BY <1>18, LowestDigit
<1>20. x2 = y2 /\ xr3 = yr3
  BY <1>10, <1>16, <1>19, LowestDigit
<1>21. x3 = y3 /\ xr4 = yr4
  BY <1>9, <1>15, <1>20, LowestDigit
<1>22. x4 = y4 /\ xr5 = yr5
  BY <1>8, <1>14, <1>21, LowestDigit
<1>23. x5 = y5 /\ xr6 = yr6
  BY <1>7, <1>13, <1>22, LowestDigit
<1>24. x6 = y6 /\ xr7 = yr7
  BY <1>6, <1>12, <1>23, LowestDigit
<1>25. x7 = y7 /\ x8 = y8
  BY <1>3, <1>4, <1>5, <1>11, <1>24, LowestDigit
<1>26. \A i \in 1..8 : x[i] = y[i]
  BY <1>1, <1>2, <1>19, <1>20, <1>21, <1>22, <1>23, <1>24, <1>25
<1> QED BY <1>26 DEF Number

\* The value of n2i is the number, as long as it has 64 bits (ui64_n2i).
LEMMA Ui64N2i ==
  ASSUME NEW n \in Nat, n < Top
  PROVE  ui64_n2i(n) \in Number /\ Value(ui64_n2i(n)) = n
<1> DEFINE s == [ui64_zero EXCEPT ![1] = n]
<1>1. n \in Int /\ n \in 0..Top - 1
  BY DEF Top
<1>2. s \in [1..8 -> Int]
  BY <1>1 DEF ui64_zero, UI64_DIGITS
<1>3. s[1] = n /\ \A i \in 2..8 : s[i] = 0
  BY DEF ui64_zero, UI64_DIGITS
<1>4. ui64_n2i(n) = Carried(s).x
  BY DEF ui64_n2i
<1> HIDE DEF s
<1>5. Value(s) = Sum(n, 0, 0, 0, 0, 0, 0, 0)
  BY <1>3 DEF Value
<1>6. Sum(n, 0, 0, 0, 0, 0, 0, 0) = n
  BY <1>1 DEF Sum
<1> QED BY <1>1, <1>2, <1>4, <1>5, <1>6, CarriedIs

\* A sum that has 64 bits is the sum (ui64_add).
LEMMA Ui64Add ==
  ASSUME NEW x \in Number, NEW y \in Number, Value(x) + Value(y) < Top
  PROVE  ui64_add(x, y) \in Number /\ Value(ui64_add(x, y)) = Value(x) + Value(y)
<1> DEFINE s == [i \in 1..8 |-> x[i] + y[i]]
<1>1. PICK x1 \in Byte, x2 \in Byte, x3 \in Byte, x4 \in Byte,
           x5 \in Byte, x6 \in Byte, x7 \in Byte, x8 \in Byte :
           /\ x[1] = x1 /\ x[2] = x2 /\ x[3] = x3 /\ x[4] = x4
           /\ x[5] = x5 /\ x[6] = x6 /\ x[7] = x7 /\ x[8] = x8
  BY Digits DEF Number
<1>2. PICK y1 \in Byte, y2 \in Byte, y3 \in Byte, y4 \in Byte,
           y5 \in Byte, y6 \in Byte, y7 \in Byte, y8 \in Byte :
           /\ y[1] = y1 /\ y[2] = y2 /\ y[3] = y3 /\ y[4] = y4
           /\ y[5] = y5 /\ y[6] = y6 /\ y[7] = y7 /\ y[8] = y8
  BY Digits DEF Number
<1>3. x1 \in Int /\ x2 \in Int /\ x3 \in Int /\ x4 \in Int /\ x5 \in Int /\ x6 \in Int /\ x7 \in Int /\ x8 \in Int
  BY ByteIs
<1>4. y1 \in Int /\ y2 \in Int /\ y3 \in Int /\ y4 \in Int /\ y5 \in Int /\ y6 \in Int /\ y7 \in Int /\ y8 \in Int
  BY ByteIs
<1>5. \A i \in 1..8 : x[i] \in Int /\ y[i] \in Int
  BY ByteIs DEF Number
<1>6. s \in [1..8 -> Int]
  BY <1>5
<1>7. ui64_add(x, y) = Carried(s).x
  BY DEF ui64_add, UI64_DIGITS
<1>8. Value(s) = Sum(x1 + y1, x2 + y2, x3 + y3, x4 + y4,
                     x5 + y5, x6 + y6, x7 + y7, x8 + y8)
  BY <1>1, <1>2 DEF Value
<1> HIDE DEF s
<1>9. Value(s) = Sum(x1, x2, x3, x4, x5, x6, x7, x8) + Sum(y1, y2, y3, y4, y5, y6, y7, y8)
  BY <1>3, <1>4, <1>8 DEF Sum
<1>10. PICK v \in 0..Top - 1 : v = Value(x)
  BY ValueRange
<1>11. PICK w \in 0..Top - 1 : w = Value(y)
  BY ValueRange
<1>12. Value(s) = v + w
  BY <1>1, <1>2, <1>9, <1>10, <1>11 DEF Value
<1>13. v + w \in 0..Top - 1
  BY <1>10, <1>11 DEF Top
<1> QED BY <1>6, <1>7, <1>10, <1>11, <1>12, <1>13, CarriedIs

\* A difference that is not negative is the difference (ui64_sub).
LEMMA Ui64Sub ==
  ASSUME NEW x \in Number, NEW y \in Number, Value(y) <= Value(x)
  PROVE  ui64_sub(x, y) \in Number /\ Value(ui64_sub(x, y)) = Value(x) - Value(y)
<1> DEFINE s == [i \in 1..8 |-> x[i] - y[i]]
<1>1. PICK x1 \in Byte, x2 \in Byte, x3 \in Byte, x4 \in Byte,
           x5 \in Byte, x6 \in Byte, x7 \in Byte, x8 \in Byte :
           /\ x[1] = x1 /\ x[2] = x2 /\ x[3] = x3 /\ x[4] = x4
           /\ x[5] = x5 /\ x[6] = x6 /\ x[7] = x7 /\ x[8] = x8
  BY Digits DEF Number
<1>2. PICK y1 \in Byte, y2 \in Byte, y3 \in Byte, y4 \in Byte,
           y5 \in Byte, y6 \in Byte, y7 \in Byte, y8 \in Byte :
           /\ y[1] = y1 /\ y[2] = y2 /\ y[3] = y3 /\ y[4] = y4
           /\ y[5] = y5 /\ y[6] = y6 /\ y[7] = y7 /\ y[8] = y8
  BY Digits DEF Number
<1>3. x1 \in Int /\ x2 \in Int /\ x3 \in Int /\ x4 \in Int /\ x5 \in Int /\ x6 \in Int /\ x7 \in Int /\ x8 \in Int
  BY ByteIs
<1>4. y1 \in Int /\ y2 \in Int /\ y3 \in Int /\ y4 \in Int /\ y5 \in Int /\ y6 \in Int /\ y7 \in Int /\ y8 \in Int
  BY ByteIs
<1>5. \A i \in 1..8 : x[i] \in Int /\ y[i] \in Int
  BY ByteIs, SMTT(30) DEF Number
<1>6. s \in [1..8 -> Int]
  BY <1>5
<1>7. ui64_sub(x, y) = Carried(s).x
  BY DEF ui64_sub, UI64_DIGITS
<1>8. Value(s) = Sum(x1 - y1, x2 - y2, x3 - y3, x4 - y4,
                     x5 - y5, x6 - y6, x7 - y7, x8 - y8)
  BY <1>1, <1>2 DEF Value
<1> HIDE DEF s
<1>9. Value(s) = Sum(x1, x2, x3, x4, x5, x6, x7, x8) - Sum(y1, y2, y3, y4, y5, y6, y7, y8)
  BY <1>3, <1>4, <1>8 DEF Sum
<1>10. PICK v \in 0..Top - 1 : v = Value(x)
  BY ValueRange
<1>11. PICK w \in 0..Top - 1 : w = Value(y)
  BY ValueRange
<1>12. Value(s) = v - w
  BY <1>1, <1>2, <1>9, <1>10, <1>11 DEF Value
<1>13. v - w \in 0..Top - 1
  BY <1>10, <1>11 DEF Top
<1> QED BY <1>6, <1>7, <1>10, <1>11, <1>12, <1>13, CarriedIs

\* A number is added as another number is (ui64_addn).
LEMMA Ui64Addn ==
  ASSUME NEW x \in Number, NEW n \in Nat, Value(x) + n < Top
  PROVE  ui64_addn(x, n) \in Number /\ Value(ui64_addn(x, n)) = Value(x) + n
         /\ Carried([x EXCEPT ![1] = @ + n]).ov = 0
<1> DEFINE s == [x EXCEPT ![1] = @ + n]
<1>1. PICK x1 \in Byte, x2 \in Byte, x3 \in Byte, x4 \in Byte,
           x5 \in Byte, x6 \in Byte, x7 \in Byte, x8 \in Byte :
           /\ x[1] = x1 /\ x[2] = x2 /\ x[3] = x3 /\ x[4] = x4
           /\ x[5] = x5 /\ x[6] = x6 /\ x[7] = x7 /\ x[8] = x8
  BY Digits DEF Number
<1>2. x1 \in Int /\ x2 \in Int /\ x3 \in Int /\ x4 \in Int /\ x5 \in Int /\ x6 \in Int /\ x7 \in Int /\ x8 \in Int
  BY ByteIs
<1>3. \A i \in 1..8 : x[i] \in Int
  BY ByteIs DEF Number
<1>4. s \in [1..8 -> Int]
  BY <1>3 DEF Number
<1>5. ui64_addn(x, n) = Carried(s).x
  BY DEF ui64_addn
<1>6. s[1] = x1 + n /\ \A i \in 2..8 : s[i] = x[i]
  BY <1>1 DEF Number
<1> HIDE DEF s
<1>7. Value(s) = Sum(x1 + n, x2, x3, x4, x5, x6, x7, x8)
  BY <1>1, <1>6 DEF Value
<1>8. Value(s) = Sum(x1, x2, x3, x4, x5, x6, x7, x8) + n
  BY <1>2, <1>7 DEF Sum
<1>9. PICK v \in 0..Top - 1 : v = Value(x)
  BY ValueRange
<1>10. Value(s) = v + n
  BY <1>1, <1>8, <1>9 DEF Value
<1>11. v + n \in 0..Top - 1
  BY <1>9 DEF Top
<1>12. Carried(s).ov = 0 /\ Carried(s).x \in Number /\ Value(Carried(s).x) = v + n
  BY <1>4, <1>10, <1>11, CarriedIs
<1> QED BY <1>5, <1>9, <1>12 DEF s

\* A product that has 64 bits is the product (ui64_muln).
LEMMA Ui64Muln ==
  ASSUME NEW x \in Number, NEW n \in Nat, Value(x) * n < Top
  PROVE  ui64_muln(x, n) \in Number /\ Value(ui64_muln(x, n)) = Value(x) * n
         /\ Carried([i \in 1..UI64_DIGITS |-> x[i] * n]).ov = 0
<1> DEFINE s == [i \in 1..8 |-> x[i] * n]
<1>1. PICK x1 \in Byte, x2 \in Byte, x3 \in Byte, x4 \in Byte,
           x5 \in Byte, x6 \in Byte, x7 \in Byte, x8 \in Byte :
           /\ x[1] = x1 /\ x[2] = x2 /\ x[3] = x3 /\ x[4] = x4
           /\ x[5] = x5 /\ x[6] = x6 /\ x[7] = x7 /\ x[8] = x8
  BY Digits DEF Number
<1>2. x1 \in Int /\ x2 \in Int /\ x3 \in Int /\ x4 \in Int /\ x5 \in Int /\ x6 \in Int /\ x7 \in Int /\ x8 \in Int
  BY ByteIs
<1>3. \A i \in 1..8 : x[i] * n \in Int
  <2> SUFFICES ASSUME NEW i \in 1..8 PROVE x[i] * n \in Int
    OBVIOUS
  <2>1. PICK d \in Int : d = x[i]
    BY ByteIs DEF Number
  <2>2. d * n \in Int
    OBVIOUS
  <2> QED BY <2>1, <2>2
<1>4. s \in [1..8 -> Int]
  BY <1>3
<1>5. ui64_muln(x, n) = Carried(s).x
  BY DEF ui64_muln, UI64_DIGITS
<1>6. Value(s) = Sum(x1 * n, x2 * n, x3 * n, x4 * n, x5 * n, x6 * n, x7 * n, x8 * n)
  BY <1>1 DEF Value
<1> HIDE DEF s
<1>7. Value(s) = Sum(x1, x2, x3, x4, x5, x6, x7, x8) * n
  BY <1>2, <1>6 DEF Sum
<1>8. PICK v \in 0..Top - 1 : v = Value(x)
  BY ValueRange
<1>9. Value(s) = v * n
  BY <1>1, <1>7, <1>8 DEF Value
<1>10. v * n \in Int /\ v * n >= 0
  BY <1>8 DEF Top
<1>11. v * n \in 0..Top - 1
  BY <1>8, <1>10 DEF Top
<1>12. Carried(s).ov = 0 /\ Carried(s).x \in Number /\ Value(Carried(s).x) = v * n
  BY <1>4, <1>9, <1>11, CarriedIs
<1>13. s = [i \in 1..UI64_DIGITS |-> x[i] * n]
  BY DEF s, UI64_DIGITS
<1> QED BY <1>5, <1>8, <1>12, <1>13

\* What an element in front of a sequence makes of it.
LEMMA Prepend ==
  ASSUME NEW S, NEW s \in Seq(S), NEW e \in S
  PROVE  /\ <<e>> \o s \in Seq(S) /\ Len(<<e>> \o s) = Len(s) + 1
         /\ (<<e>> \o s)[1] = e /\ \A i \in 1..Len(s) : (<<e>> \o s)[i + 1] = s[i]
<1>1. <<e>> \in Seq(S) /\ Len(<<e>>) = 1 /\ <<e>>[1] = e
  OBVIOUS
<1>2. PICK one \in Seq(S) : one = <<e>>
  BY <1>1
<1>3. PICK n \in Nat : n = Len(s)
  BY LenProperties
<1>4. one \o s \in Seq(S) /\ Len(one \o s) = Len(one) + Len(s)
      /\ \A i \in 1..Len(one) + Len(s) :
           (one \o s)[i] = IF i <= Len(one) THEN one[i] ELSE s[i - Len(one)]
  BY ConcatProperties
<1>5. \A i \in 1..n : (one \o s)[i + 1] = s[i]
  <2> SUFFICES ASSUME NEW i \in 1..n PROVE (one \o s)[i + 1] = s[i]
    OBVIOUS
  <2>1. i + 1 \in 1..1 + n /\ ~ (i + 1 <= 1) /\ (i + 1) - 1 = i
    OBVIOUS
  <2> QED BY <1>1, <1>2, <1>3, <1>4, <2>1
<1> QED BY <1>1, <1>2, <1>3, <1>4, <1>5

\* Quotient and remainder, of which there are no others.
LEMMA Divided ==
  ASSUME NEW a \in Int, NEW n \in Nat \ {0}
  PROVE  /\ a \div n \in Int /\ a % n \in 0..n - 1
         /\ a = (n * (a \div n)) + (a % n)
  OBVIOUS

LEMMA DividedOnce ==
  ASSUME NEW n \in Nat \ {0}, NEW q \in Int, NEW r \in 0..n - 1,
         NEW p \in Int, NEW t \in 0..n - 1, n * q + r = n * p + t
  PROVE  q = p /\ r = t
<1>1. ~ (q > p)
  <2> SUFFICES ASSUME q > p PROVE FALSE
    OBVIOUS
  <2>1. PICK d \in Nat \ {0} : q = p + d
    OBVIOUS
  <2>2. n * d >= n
    OBVIOUS
  <2>3. n * q = n * p + n * d
    BY <2>1
  <2> QED BY <2>2, <2>3
<1>2. ~ (q < p)
  <2> SUFFICES ASSUME q < p PROVE FALSE
    OBVIOUS
  <2>1. PICK d \in Nat \ {0} : p = q + d
    OBVIOUS
  <2>2. n * d >= n
    OBVIOUS
  <2>3. n * p = n * q + n * d
    BY <2>1
  <2> QED BY <2>2, <2>3
<1>3. q = p
  BY <1>1, <1>2
<1> QED BY <1>3

\* What the loop of ui64_divn does with a digit and the remainder so far.
DivideDigit(d, above, n) ==
  LET rest == above.ov * UI64_BASE + d
  IN  [x |-> <<rest \div n>> \o above.x, ov |-> rest % n]

DividedOf(x, n, z) ==
  z = [i \in 0..UI64_DIGITS |-> IF i = 0 THEN [x |-> <<>>, ov |-> 0]
                                ELSE DivideDigit(x[UI64_DIGITS + 1 - i], z[i - 1], n)]

\* A digit of a quotient is a digit: the remainder above it is below n.
LEMMA QuotientDigit ==
  ASSUME NEW n \in Nat \ {0}, NEW r \in 0..n - 1, NEW d \in Byte
  PROVE  /\ (r * UI64_BASE + d) \div n \in Byte /\ (r * UI64_BASE + d) % n \in 0..n - 1
         /\ r * UI64_BASE + d = n * ((r * UI64_BASE + d) \div n) + ((r * UI64_BASE + d) % n)
<1>1. PICK a \in Nat : a = r * UI64_BASE + d
  BY ByteIs DEF UI64_BASE
<1>2. a < n * 256
  BY <1>1, ByteIs DEF UI64_BASE
<1>3. PICK q \in Int : q = a \div n
  BY Divided
<1>4. PICK t \in 0..n - 1 : t = a % n
  BY Divided
<1>5. a = n * q + t
  BY <1>3, <1>4, Divided
<1>6. q < 256
  <2> SUFFICES ASSUME q >= 256 PROVE FALSE
    OBVIOUS
  <2>1. PICK d2 \in Nat : q = 256 + d2
    OBVIOUS
  <2>2. n * q = n * 256 + n * d2 /\ n * d2 >= 0
    BY <2>1
  <2> QED BY <2>2, <1>2, <1>5
<1>7. q >= 0
  <2> SUFFICES ASSUME q < 0 PROVE FALSE
    OBVIOUS
  <2>1. PICK d2 \in Nat \ {0} : q = -d2
    OBVIOUS
  <2>2. n * q = -(n * d2) /\ n * d2 >= n
    BY <2>1
  <2> QED BY <2>2, <1>5
<1>8. q \in Byte
  BY <1>6, <1>7, ByteIs
<1>9. a \div n \in Byte /\ a % n \in 0..n - 1 /\ a = n * (a \div n) + (a % n)
  BY <1>3, <1>4, <1>5, <1>8
<1> QED BY <1>1, <1>9

\* The digits of a quotient, from the highest down, and c is what remains above
\* each (ui64_divn).
LEMMA DivnUnfolds ==
  ASSUME NEW x \in Number, NEW n \in Nat \ {0}
  PROVE  \E c \in [0..8 -> 0..n - 1] :
           /\ c[0] = 0 /\ ui64_divn(x, n).ov = c[8]
           /\ ui64_divn(x, n).x \in Number
           /\ \A i \in 1..8 : c[i - 1] * UI64_BASE + x[9 - i]
                                = n * ui64_divn(x, n).x[9 - i] + c[i]
<1> DEFINE X == [x : Seq(Byte), ov : 0..n - 1]
           b == [x |-> <<>>, ov |-> 0]
           step == [y \in (1..8) \X X |-> DivideDigit(x[9 - y[1]], y[2], n)]
           h == CHOOSE z : DividedOf(x, n, z)
<1>1. ui64_divn(x, n) = h[8]
  BY DEF ui64_divn, DividedOf, DivideDigit, UI64_DIGITS
<1>2. ASSUME NEW d \in Byte, NEW a \in X
      PROVE  LET rest == a.ov * UI64_BASE + d
             IN  /\ DivideDigit(d, a, n) \in X /\ DivideDigit(d, a, n).ov = rest % n
                 /\ DivideDigit(d, a, n).x = <<rest \div n>> \o a.x
                 /\ rest \div n \in Byte /\ rest = n * (rest \div n) + (rest % n)
  <2>1. PICK r \in 0..n - 1 : r = a.ov
    BY <1>2
  <2>2. PICK s \in Seq(Byte) : s = a.x
    BY <1>2
  <2>3. PICK q \in Byte : q = (r * UI64_BASE + d) \div n
    BY QuotientDigit
  <2>4. PICK t \in 0..n - 1 : t = (r * UI64_BASE + d) % n
    BY QuotientDigit
  <2>5. <<q>> \o s \in Seq(Byte)
    BY Prepend
  <2>6. DivideDigit(d, a, n) = [x |-> <<q>> \o s, ov |-> t]
    BY <2>1, <2>2, <2>3, <2>4 DEF DivideDigit
  <2>7. r * UI64_BASE + d = n * q + t
    BY <2>3, <2>4, QuotientDigit
  <2>8. DivideDigit(d, a, n) \in X /\ DivideDigit(d, a, n).ov = t
        /\ DivideDigit(d, a, n).x = <<q>> \o s
    BY <2>5, <2>6
  <2> QED BY <2>1, <2>2, <2>3, <2>4, <2>7, <2>8
<1>3. b \in X
  OBVIOUS
<1>4. \A i \in 1..8 : x[9 - i] \in Byte
  BY DEF Number
<1>5. step \in Steps(8, X)
  BY <1>2, <1>4 DEF Steps
<1> HIDE DEF b, X
<1>6. PICK f : Iterates(f, 8, X, b, step)
  <2> HIDE DEF step
  <2>1. 8 \in Nat
    OBVIOUS
  <2> QED BY <2>1, <1>3, <1>5, Iteration
<1>7. DividedOf(x, n, f)
  <2>1. f = [i \in 0..8 |-> f[i]] /\ f[0] = b /\ f \in [0..8 -> X]
    BY <1>6 DEF Iterates
  <2>2. ASSUME NEW i \in 1..8 PROVE f[i] = DivideDigit(x[9 - i], f[i - 1], n)
    <3> HIDE DEF step
    <3>1. f[i] = step[<<i, f[i - 1]>>] /\ i - 1 \in 0..8
      BY <1>6 DEF Iterates
    <3>2. <<i, f[i - 1]>> \in (1..8) \X X
      BY <2>1, <3>1
    <3> QED BY <3>1, <3>2 DEF step
  <2> HIDE DEF step, h
  <2>3. ASSUME NEW i \in 0..8
        PROVE  f[i] = IF i = 0 THEN b ELSE DivideDigit(x[9 - i], f[i - 1], n)
    <3>1. CASE i = 0
      BY <3>1, <2>1
    <3>2. CASE i # 0
      <4>1. i \in 1..8
        BY <3>2
      <4> QED BY <4>1, <3>2, <2>2
    <3> QED BY <3>1, <3>2
  <2>4. f = [i \in 0..8 |-> IF i = 0 THEN b ELSE DivideDigit(x[9 - i], f[i - 1], n)]
    BY <2>1, <2>3
  <2> QED BY <2>4 DEF DividedOf, b, UI64_DIGITS
<1>8. DividedOf(x, n, h)
  BY <1>7
<1>9. h[0] = b /\ \A m \in 1..8 : h[m] = DivideDigit(x[9 - m], h[m - 1], n)
  <2> HIDE DEF h
  <2>1. h = [i \in 0..8 |-> IF i = 0 THEN b ELSE DivideDigit(x[9 - i], h[i - 1], n)]
    BY <1>8 DEF DividedOf, b, UI64_DIGITS
  <2> QED BY <2>1
<1> HIDE DEF h, step
<1>10. \A m \in 0..8 : h[m] \in X
  <2>1. ASSUME NEW m \in 1..8, h[m - 1] \in X PROVE h[m] \in X
    BY <2>1, <1>2, <1>4, <1>9
  <2>2. h[0] \in X /\ 8 \in Nat
    BY <1>3, <1>9
  <2> QED BY <2>1, <2>2, StaysIn
<1> DEFINE c == [i \in 0..8 |-> h[i].ov]
           rest(i) == c[i - 1] * UI64_BASE + x[9 - i]
           digit(i) == rest(i) \div n
<1>11. c \in [0..8 -> 0..n - 1] /\ c[0] = 0
  <2>1. ASSUME NEW i \in 0..8 PROVE h[i].ov \in 0..n - 1
    BY <1>10 DEF X
  <2> QED BY <2>1, <1>9 DEF b
<1>12. ASSUME NEW m \in 1..8
       PROVE  /\ c[m] = rest(m) % n /\ digit(m) \in Byte
              /\ h[m].x = <<digit(m)>> \o h[m - 1].x
              /\ rest(m) = n * digit(m) + c[m]
              /\ h[m - 1].x \in Seq(Byte)
  <2>1. x[9 - m] \in Byte /\ m - 1 \in 0..8 /\ m \in 0..8
    BY <1>4
  <2>2. h[m - 1] \in X /\ h[m] = DivideDigit(x[9 - m], h[m - 1], n)
        /\ c[m - 1] = h[m - 1].ov /\ c[m] = h[m].ov
    BY <2>1, <1>9, <1>10
  <2>3. h[m - 1].x \in Seq(Byte)
    BY <2>2 DEF X
  <2> HIDE DEF c
  <2> QED BY <1>2, <2>1, <2>2, <2>3
<1> HIDE DEF c, digit, rest
<1> DEFINE Done == {k \in 0..8 : Len(h[k].x) = k /\ \A i \in 1..k : h[k].x[i] = digit(k + 1 - i)}
           where == [k \in 0..8 |-> k]
<1>13. 0 \in Done
  BY <1>9 DEF b
<1>14. ASSUME NEW m \in 1..8, m - 1 \in Done PROVE m \in Done
  <2>1. PICK s \in Seq(Byte) : s = h[m - 1].x
    BY <1>12
  <2>2. Len(s) = m - 1 /\ \A i \in 1..m - 1 : s[i] = digit(m - i)
    <3>1. \A i \in 1..m - 1 : (m - 1) + 1 - i = m - i
      OBVIOUS
    <3> QED BY <1>14, <2>1, <3>1
  <2>3. PICK e \in Byte : e = digit(m)
    BY <1>12
  <2>4. h[m].x = <<e>> \o s
    BY <1>12, <2>1, <2>3
  <2>5. Len(h[m].x) = m /\ h[m].x[1] = e /\ \A i \in 1..m - 1 : h[m].x[i + 1] = s[i]
    <3>1. /\ Len(<<e>> \o s) = Len(s) + 1
          /\ (<<e>> \o s)[1] = e /\ \A i \in 1..Len(s) : (<<e>> \o s)[i + 1] = s[i]
      BY Prepend
    <3>2. (m - 1) + 1 = m
      OBVIOUS
    <3> QED BY <3>1, <3>2, <2>2, <2>4
  <2>6. ASSUME NEW i \in 1..m PROVE h[m].x[i] = digit(m + 1 - i)
    <3>1. CASE i = 1
      <4>1. m + 1 - i = m
        BY <3>1
      <4> QED BY <3>1, <4>1, <2>3, <2>5
    <3>2. CASE i # 1
      <4>1. i - 1 \in 1..m - 1 /\ (i - 1) + 1 = i /\ m - (i - 1) = m + 1 - i
        BY <3>2
      <4>2. h[m].x[(i - 1) + 1] = s[i - 1] /\ s[i - 1] = digit(m - (i - 1))
        BY <4>1, <2>2, <2>5
      <4> QED BY <4>1, <4>2
    <3> QED BY <3>1, <3>2
  <2>7. m \in 0..8
    OBVIOUS
  <2> QED BY <2>5, <2>6, <2>7
<1>15. 8 \in Done
  <2> HIDE DEF Done
  <2>1. where[0] \in Done /\ \A m \in 1..8 : where[m - 1] \in Done => where[m] \in Done
    BY <1>13, <1>14
  <2>2. 8 \in Nat /\ \A m \in 0..8 : where[m] \in Done
    <3> HIDE DEF where
    <3>1. 8 \in Nat
      OBVIOUS
    <3> QED BY <2>1, <3>1, StaysIn
  <2> QED BY <2>2
<1>16. PICK q : q = ui64_divn(x, n).x
  OBVIOUS
<1>17. q = h[8].x /\ h[8] \in X
  BY <1>1, <1>10, <1>16
<1>18. q \in Number
  <2>1. q \in Seq(Byte) /\ Len(q) = 8
    BY <1>15, <1>17 DEF X
  <2> QED BY <2>1, LenProperties DEF Number
<1>19. ASSUME NEW i \in 1..8 PROVE c[i - 1] * UI64_BASE + x[9 - i] = n * q[9 - i] + c[i]
  <2>1. 9 - i \in 1..8 /\ (8 + 1) - (9 - i) = i
    OBVIOUS
  <2>2. q[9 - i] = digit(i)
    BY <2>1, <1>15, <1>17
  <2> QED BY <2>2, <1>12 DEF rest
<1>20. ui64_divn(x, n).ov = c[8]
  BY <1>1 DEF c
<1> QED BY <1>11, <1>16, <1>18, <1>19, <1>20

\* Quotient and remainder of numbers are those of what they stand for (ui64_divn).
LEMMA Ui64Divn ==
  ASSUME NEW x \in Number, NEW n \in Nat \ {0}
  PROVE  LET q == ui64_divn(x, n)
         IN  q.x \in Number /\ q.ov \in 0..n - 1 /\ Value(x) = n * Value(q.x) + q.ov
<1>1. PICK c \in [0..8 -> 0..n - 1] :
           /\ c[0] = 0 /\ ui64_divn(x, n).ov = c[8]
           /\ ui64_divn(x, n).x \in Number
           /\ \A i \in 1..8 : c[i - 1] * UI64_BASE + x[9 - i]
                                = n * ui64_divn(x, n).x[9 - i] + c[i]
  BY DivnUnfolds
<1>2. PICK q \in Number : q = ui64_divn(x, n).x
  BY <1>1
<1>3. PICK x1 \in Byte, x2 \in Byte, x3 \in Byte, x4 \in Byte,
           x5 \in Byte, x6 \in Byte, x7 \in Byte, x8 \in Byte :
           /\ x[1] = x1 /\ x[2] = x2 /\ x[3] = x3 /\ x[4] = x4
           /\ x[5] = x5 /\ x[6] = x6 /\ x[7] = x7 /\ x[8] = x8
  BY Digits DEF Number
<1>4. PICK q1 \in Byte, q2 \in Byte, q3 \in Byte, q4 \in Byte,
           q5 \in Byte, q6 \in Byte, q7 \in Byte, q8 \in Byte :
           /\ q[1] = q1 /\ q[2] = q2 /\ q[3] = q3 /\ q[4] = q4
           /\ q[5] = q5 /\ q[6] = q6 /\ q[7] = q7 /\ q[8] = q8
  BY Digits DEF Number
<1>5. x1 \in Int /\ x2 \in Int /\ x3 \in Int /\ x4 \in Int /\ x5 \in Int /\ x6 \in Int /\ x7 \in Int /\ x8 \in Int
  BY ByteIs
<1>6. q1 \in Int /\ q2 \in Int /\ q3 \in Int /\ q4 \in Int /\ q5 \in Int /\ q6 \in Int /\ q7 \in Int /\ q8 \in Int
  BY ByteIs
<1>7. PICK c1 \in Int, c2 \in Int, c3 \in Int, c4 \in Int,
           c5 \in Int, c6 \in Int, c7 \in Int, c8 \in Int :
           /\ c[1] = c1 /\ c[2] = c2 /\ c[3] = c3 /\ c[4] = c4
           /\ c[5] = c5 /\ c[6] = c6 /\ c[7] = c7 /\ c[8] = c8
  <2>1. \A i \in 0..8 : c[i] \in Int
    OBVIOUS
  <2>2. c[1] \in Int /\ c[2] \in Int /\ c[3] \in Int /\ c[4] \in Int
        /\ c[5] \in Int /\ c[6] \in Int /\ c[7] \in Int /\ c[8] \in Int
    BY <2>1
  <2> QED BY <2>2
<1>8. \A i \in 1..8 : c[i - 1] * 256 + x[9 - i] = n * q[9 - i] + c[i]
  BY <1>1, <1>2 DEF UI64_BASE
<1>9. PICK p1 \in Int, p2 \in Int, p3 \in Int, p4 \in Int,
           p5 \in Int, p6 \in Int, p7 \in Int, p8 \in Int :
           /\ p1 = n * q1 /\ p2 = n * q2 /\ p3 = n * q3 /\ p4 = n * q4
           /\ p5 = n * q5 /\ p6 = n * q6 /\ p7 = n * q7 /\ p8 = n * q8
  <2>1. n * q1 \in Int /\ n * q2 \in Int /\ n * q3 \in Int /\ n * q4 \in Int
        /\ n * q5 \in Int /\ n * q6 \in Int /\ n * q7 \in Int /\ n * q8 \in Int
    BY <1>6
  <2> QED BY <2>1
<1>10. /\ c1 * 256 + x7 = p7 + c2 /\ c2 * 256 + x6 = p6 + c3
       /\ c3 * 256 + x5 = p5 + c4 /\ c4 * 256 + x4 = p4 + c5
       /\ c5 * 256 + x3 = p3 + c6 /\ c6 * 256 + x2 = p2 + c7
       /\ c7 * 256 + x1 = p1 + c8
  <2>1. c1 * 256 + x7 = p7 + c2
    <3>1. c[2 - 1] * 256 + x[9 - 2] = n * q[9 - 2] + c[2]
      BY <1>8
    <3>2. 2 - 1 = 1 /\ 9 - 2 = 7
      OBVIOUS
    <3> QED BY <3>1, <3>2, <1>3, <1>4, <1>7, <1>9
  <2>2. c2 * 256 + x6 = p6 + c3
    <3>1. c[3 - 1] * 256 + x[9 - 3] = n * q[9 - 3] + c[3]
      BY <1>8
    <3>2. 3 - 1 = 2 /\ 9 - 3 = 6
      OBVIOUS
    <3> QED BY <3>1, <3>2, <1>3, <1>4, <1>7, <1>9
  <2>3. c3 * 256 + x5 = p5 + c4
    <3>1. c[4 - 1] * 256 + x[9 - 4] = n * q[9 - 4] + c[4]
      BY <1>8
    <3>2. 4 - 1 = 3 /\ 9 - 4 = 5
      OBVIOUS
    <3> QED BY <3>1, <3>2, <1>3, <1>4, <1>7, <1>9
  <2>4. c4 * 256 + x4 = p4 + c5
    <3>1. c[5 - 1] * 256 + x[9 - 5] = n * q[9 - 5] + c[5]
      BY <1>8
    <3>2. 5 - 1 = 4 /\ 9 - 5 = 4
      OBVIOUS
    <3> QED BY <3>1, <3>2, <1>3, <1>4, <1>7, <1>9
  <2>5. c5 * 256 + x3 = p3 + c6
    <3>1. c[6 - 1] * 256 + x[9 - 6] = n * q[9 - 6] + c[6]
      BY <1>8
    <3>2. 6 - 1 = 5 /\ 9 - 6 = 3
      OBVIOUS
    <3> QED BY <3>1, <3>2, <1>3, <1>4, <1>7, <1>9
  <2>6. c6 * 256 + x2 = p2 + c7
    <3>1. c[7 - 1] * 256 + x[9 - 7] = n * q[9 - 7] + c[7]
      BY <1>8
    <3>2. 7 - 1 = 6 /\ 9 - 7 = 2
      OBVIOUS
    <3> QED BY <3>1, <3>2, <1>3, <1>4, <1>7, <1>9
  <2>7. c7 * 256 + x1 = p1 + c8
    <3>1. c[8 - 1] * 256 + x[9 - 8] = n * q[9 - 8] + c[8]
      BY <1>8
    <3>2. 8 - 1 = 7 /\ 9 - 8 = 1
      OBVIOUS
    <3> QED BY <3>1, <3>2, <1>3, <1>4, <1>7, <1>9
  <2> QED BY <2>1, <2>2, <2>3, <2>4, <2>5, <2>6, <2>7
<1>11. x8 = p8 + c1
  <2>1. c[1 - 1] * 256 + x[9 - 1] = n * q[9 - 1] + c[1]
    BY <1>8
  <2>2. 1 - 1 = 0 /\ 9 - 1 = 8 /\ c[0] = 0
    BY <1>1
  <2>3. c[0] * 256 + x[8] = n * q[8] + c[1]
    BY <2>1, <2>2
  <2>4. 0 * 256 + x8 = p8 + c1
    BY <2>3, <2>2, <1>3, <1>4, <1>7, <1>9
  <2> QED BY <2>4, <1>5
<1>12. Sum(x1, x2, x3, x4, x5, x6, x7, x8) = Sum(p1, p2, p3, p4, p5, p6, p7, p8) + c8
  BY <1>5, <1>10, <1>11 DEF Sum
<1>13. Sum(p1, p2, p3, p4, p5, p6, p7, p8) = n * Sum(q1, q2, q3, q4, q5, q6, q7, q8)
  BY <1>6, <1>9 DEF Sum
<1>14. Value(x) = n * Value(q) + c8
  BY <1>3, <1>4, <1>12, <1>13 DEF Value
<1>15. c[8] \in 0..n - 1
  OBVIOUS
<1> QED BY <1>1, <1>2, <1>7, <1>14, <1>15

-----------------------------------------------------------------------------
\* Bytes carry nothing.
LEMMA CarriedBytes ==
  ASSUME NEW n \in Nat, NEW s \in [1..n -> Byte]
  PROVE  Carried(s).x = s
<1>1. s \in [1..n -> Int]
  <2>1. Byte \subseteq Int
    BY ByteIs
  <2>2. \A i \in 1..n : s[i] \in Byte
    OBVIOUS
  <2> QED BY <2>1, <2>2
<1>2. PICK c \in [0..n -> Int] :
           /\ c[0] = 0 /\ Carried(s).ov = c[n]
           /\ Carried(s).x \in [1..n -> Byte]
           /\ \A i \in 1..n : /\ Carried(s).x[i] = (c[i - 1] + s[i]) % UI64_BASE
                              /\ c[i] = (c[i - 1] + s[i]) \div UI64_BASE
  BY <1>1, CarriedUnfolds
<1>3. ASSUME NEW d \in Byte PROVE (0 + d) % 256 = d /\ (0 + d) \div 256 = 0
  BY ByteIs
<1>4. \A m \in 0..n : c[m] \in {0}
  <2>1. ASSUME NEW m \in 1..n, c[m - 1] \in {0} PROVE c[m] \in {0}
    <3>1. s[m] \in Byte /\ c[m - 1] = 0
      BY <2>1
    <3>2. c[m] = (0 + s[m]) \div 256
      BY <1>2, <3>1 DEF UI64_BASE
    <3> QED BY <1>3, <3>1, <3>2
  <2> QED BY <2>1, <1>2, StaysIn
<1>5. ASSUME NEW i \in 1..n PROVE Carried(s).x[i] = s[i]
  <2>1. s[i] \in Byte /\ i - 1 \in 0..n
    OBVIOUS
  <2>2. c[i - 1] = 0
    BY <1>4, <2>1
  <2>3. Carried(s).x[i] = (0 + s[i]) % 256
    BY <1>2, <2>2 DEF UI64_BASE
  <2> QED BY <1>3, <2>1, <2>3
<1> QED BY <1>2, <1>5

\* A shift by whole bytes moves them; those that fall out are the lowest of ov
\* (ui64_rol).
Moved(x, n) == [i \in 1..8 |-> IF i > n THEN x[i - n] ELSE 0]
FallenOut(x, n) == [i \in 1..8 |-> IF i <= n THEN x[8 - n + i] ELSE 0]

LEMMA Ui64Rol ==
  ASSUME NEW x \in Number, NEW n \in {2, 4, 6}
  PROVE  /\ ui64_rol(x, 8 * n) = [x |-> Moved(x, n), ov |-> FallenOut(x, n)]
         /\ Moved(x, n) \in Number
<1> DEFINE zx == [i \in 1..16 |-> IF i - n \in 1..8 THEN x[i - n] ELSE 0]
           zy == [i \in 1..2 * UI64_DIGITS |->
                   IF i - (8 * n) \div 8 \in 1..UI64_DIGITS
                   THEN x[i - (8 * n) \div 8] * 2^((8 * n) % 8) ELSE 0]
<1>1. (8 * n) \div 8 = n /\ (8 * n) % 8 = 0
  <2>1. (8 * 2) \div 8 = 2 /\ (8 * 2) % 8 = 0
    OBVIOUS
  <2>2. (8 * 4) \div 8 = 4 /\ (8 * 4) % 8 = 0
    OBVIOUS
  <2>3. (8 * 6) \div 8 = 6 /\ (8 * 6) % 8 = 0
    OBVIOUS
  <2> QED BY <2>1, <2>2, <2>3
<1>2. 2^0 = 1
  OBVIOUS
<1>3. \A i \in 1..8 : x[i] \in Byte /\ x[i] * 1 = x[i]
  BY ByteIs DEF Number
<1>4. zy = zx
  <2>1. ASSUME NEW i \in 1..16 PROVE zy[i] = zx[i]
    <3>1. 2 * UI64_DIGITS = 16 /\ UI64_DIGITS = 8
      BY DEF UI64_DIGITS
    <3>2. zy[i] = IF i - n \in 1..8 THEN x[i - n] * 2^0 ELSE 0
      BY <1>1, <3>1
    <3> HIDE DEF zy
    <3>3. CASE i - n \in 1..8
      <4>1. x[i - n] * 1 = x[i - n]
        BY <1>3, <3>3
      <4> QED BY <4>1, <3>2, <3>3, <1>2
    <3>4. CASE i - n \notin 1..8
      BY <3>2, <3>4
    <3> QED BY <3>3, <3>4
  <2>2. 1..2 * UI64_DIGITS = 1..16
    BY DEF UI64_DIGITS
  <2> QED BY <2>1, <2>2
<1>5. zx \in [1..16 -> Byte]
  <2>1. 0 \in Byte
    BY ByteIs
  <2> QED BY <2>1, <1>3
<1>6. PICK z : z = zx
  OBVIOUS
<1>7. Carried(zy).x = z
  <2> HIDE DEF zx, zy
  <2>1. 16 \in Nat
    OBVIOUS
  <2> QED BY <2>1, <1>4, <1>5, <1>6, CarriedBytes
<1>8. z \in Seq(Byte) /\ Len(z) = 16
  <2> HIDE DEF zx, zy
  <2>1. 16 \in Nat
    OBVIOUS
  <2> QED BY <2>1, <1>5, <1>6, FunctionIsSeq
<1>9. ui64_rol(x, 8 * n) = [x |-> SubSeq(z, 1, 8), ov |-> SubSeq(z, 9, 16)]
  <2>1. ui64_rol(x, 8 * n) = [x  |-> SubSeq(Carried(zy).x, 1, UI64_DIGITS),
                              ov |-> SubSeq(Carried(zy).x, UI64_DIGITS + 1, 2 * UI64_DIGITS)]
    BY DEF ui64_rol
  <2>2. UI64_DIGITS = 8 /\ UI64_DIGITS + 1 = 9 /\ 2 * UI64_DIGITS = 16
    BY DEF UI64_DIGITS
  <2> HIDE DEF zy
  <2> QED BY <2>1, <2>2, <1>7
<1>10. SubSeq(z, 1, 8) = Moved(x, n)
  <2>1. SubSeq(z, 1, 8) = [i \in 1..8 |-> z[i]]
    BY <1>8
  <2>2. ASSUME NEW i \in 1..8 PROVE z[i] = IF i > n THEN x[i - n] ELSE 0
    BY <1>6
  <2> QED BY <2>1, <2>2 DEF Moved
<1>11. SubSeq(z, 9, 16) = FallenOut(x, n)
  <2>1. SubSeq(z, 9, 16) = [i \in 1..8 |-> z[8 + i]]
    BY <1>8
  <2>2. ASSUME NEW i \in 1..8 PROVE z[8 + i] = IF i <= n THEN x[8 - n + i] ELSE 0
    <3>1. 8 + i - n \in 1..8 <=> i <= n
      OBVIOUS
    <3>2. 8 + i - n = 8 - n + i /\ 8 + i \in 1..16
      OBVIOUS
    <3>3. z[8 + i] = IF 8 + i - n \in 1..8 THEN x[8 + i - n] ELSE 0
      BY <1>6, <3>2
    <3> QED BY <3>1, <3>2, <3>3
  <2> QED BY <2>1, <2>2 DEF FallenOut
<1>12. Moved(x, n) \in Number
  <2>1. 0 \in Byte /\ \A i \in 1..8 : i > n => i - n \in 1..8
    BY ByteIs
  <2> QED BY <2>1, <1>3 DEF Moved, Number
<1> QED BY <1>9, <1>10, <1>11, <1>12

-----------------------------------------------------------------------------
\* One numeral more (ui64_s2i), of the base 16.
ReadDigit(a, d) ==
  LET m == Carried([i \in 1..UI64_DIGITS |-> a.x[i] * 16])
  IN  IF a.ov # 0 THEN a ELSE IF m.ov # 0 THEN m ELSE Carried([m.x EXCEPT ![1] = @ + d])

ReadOf(str, z) ==
  z = [k \in 0..Len(str) |-> IF k = 0 THEN [x |-> ui64_zero, ov |-> 0]
                             ELSE ReadDigit(z[k - 1], str[k])]

\* As long as nothing overflows, a numeral more is sixteen times as much and the digit.
LEMMA ReadDigitIs ==
  ASSUME NEW a \in [x : Number, ov : Int], NEW d \in 0..15
  PROVE  /\ ReadDigit(a, d) \in [x : Number, ov : Int]
         /\ a.ov = 0 /\ 16 * Value(a.x) + 15 < Top =>
              ReadDigit(a, d).ov = 0 /\ Value(ReadDigit(a, d).x) = 16 * Value(a.x) + d
<1> DEFINE s == [i \in 1..UI64_DIGITS |-> a.x[i] * 16]
<1>1. PICK x \in Number : x = a.x
  OBVIOUS
<1>2. s \in [1..8 -> Int]
  BY <1>1, ByteIs, SMTT(30) DEF Number, UI64_DIGITS
<1>3. PICK m : m = Carried(s)
  OBVIOUS
<1>4. Carried(s).x = ui64_muln(x, 16)
  BY <1>1 DEF ui64_muln
<1> HIDE DEF s
<1>5. m.x \in Number /\ m.ov \in Int
  BY <1>2, <1>3, CarriedValue
<1> DEFINE t == [m.x EXCEPT ![1] = @ + d]
<1>6. t \in [1..8 -> Int]
  BY <1>5, ByteIs, SMTT(30) DEF Number
<1>7. Carried(t).x = ui64_addn(m.x, d)
  BY DEF ui64_addn
<1> HIDE DEF t
<1>8. Carried(t).x \in Number /\ Carried(t).ov \in Int
  BY <1>6, CarriedValue
<1>9. ReadDigit(a, d) = IF a.ov # 0 THEN a ELSE IF m.ov # 0 THEN m ELSE Carried(t)
  BY <1>3 DEF ReadDigit, s, t
<1>10. PICK r : r = Carried(t)
  OBVIOUS
<1>11. r \in [x : Number, ov : Int] /\ m \in [x : Number, ov : Int]
  BY <1>2, <1>3, <1>6, <1>10, CarriedValue
<1>12. ReadDigit(a, d) \in [x : Number, ov : Int]
  BY <1>9, <1>10, <1>11
<1>13. ASSUME a.ov = 0, 16 * Value(a.x) + 15 < Top
       PROVE  ReadDigit(a, d).ov = 0 /\ Value(ReadDigit(a, d).x) = 16 * Value(a.x) + d
  <2>1. PICK v \in 0..Top - 1 : v = Value(x)
    BY ValueRange
  <2>2. v \in Nat /\ 16 * v + 15 < Top /\ v * 16 = 16 * v
    BY <1>1, <1>13, <2>1 DEF Top
  <2>3. Value(x) * 16 < Top /\ 16 \in Nat
    BY <2>1, <2>2 DEF Top
  <2>4. Value(m.x) = v * 16 /\ m.ov = 0
    <3>1. s = [i \in 1..UI64_DIGITS |-> x[i] * 16]
      BY <1>1 DEF s
    <3> QED BY <1>3, <1>4, <2>1, <2>3, <3>1, Ui64Muln
  <2>5. Value(m.x) + d < Top /\ d \in Nat
    BY <2>2, <2>4 DEF Top
  <2>6. Value(r.x) = v * 16 + d /\ r.ov = 0
    BY <1>5, <1>7, <1>10, <2>4, <2>5, Ui64Addn DEF t
  <2>7. ReadDigit(a, d) = r
    BY <1>9, <1>10, <1>13, <2>4
  <2> QED BY <1>1, <2>1, <2>2, <2>6, <2>7
<1> QED BY <1>12, <1>13

\* UUID_TIMEOFFSET is a number, and well below 2^57: what it counts are the
\* 100 ns from 1582 to 1970.
LEMMA OffsetIs ==
  TimeOffset \in Number /\ Value(TimeOffset) = 122192928000000000
<1> DEFINE str == <<0, 1, 11, 2, 1, 13, 13, 2, 1, 3, 8, 1, 4, 0, 0, 0>>
           X == [x : Number, ov : Int]
           b == [x |-> ui64_zero, ov |-> 0]
           step == [y \in (1..16) \X X |-> ReadDigit(y[2], str[y[1]])]
           h == CHOOSE z : ReadOf(str, z)
<1>1. str \in [1..16 -> 0..15] /\ Len(str) = 16
  OBVIOUS
<1>2. TimeOffset = h[16].x
  BY DEF TimeOffset, ui64_s2i, ReadOf, ReadDigit
<1>3. b \in X /\ ui64_zero \in Number /\ Value(ui64_zero) = 0
  <2>1. ui64_zero \in Number /\ \A i \in 1..8 : ui64_zero[i] = 0
    BY ByteIs DEF ui64_zero, UI64_DIGITS, Number
  <2>2. Value(ui64_zero) = Sum(0, 0, 0, 0, 0, 0, 0, 0)
    BY <2>1 DEF Value
  <2>3. Sum(0, 0, 0, 0, 0, 0, 0, 0) = 0
    BY DEF Sum
  <2> QED BY <2>1, <2>2, <2>3
<1>4. ASSUME NEW i \in 1..16, NEW a \in X PROVE ReadDigit(a, str[i]) \in X
  <2>1. str[i] \in 0..15
    BY <1>1
  <2> HIDE DEF str
  <2> QED BY <2>1, ReadDigitIs
<1>5. step \in Steps(16, X)
  <2> HIDE DEF str, X
  <2> QED BY <1>4 DEF Steps
<1>6. /\ str[1] = 0 /\ str[2] = 1 /\ str[3] = 11 /\ str[4] = 2
      /\ str[5] = 1 /\ str[6] = 13 /\ str[7] = 13 /\ str[8] = 2
      /\ str[9] = 1 /\ str[10] = 3 /\ str[11] = 8 /\ str[12] = 1
      /\ str[13] = 4 /\ str[14] = 0 /\ str[15] = 0 /\ str[16] = 0
  OBVIOUS
<1> HIDE DEF str, X, b
<1>7. PICK f : Iterates(f, 16, X, b, step)
  <2> HIDE DEF step
  <2>1. 16 \in Nat
    OBVIOUS
  <2> QED BY <2>1, <1>3, <1>5, Iteration
<1>8. ReadOf(str, f)
  <2>1. f = [i \in 0..16 |-> f[i]] /\ f[0] = b /\ f \in [0..16 -> X]
    BY <1>7 DEF Iterates
  <2>2. ASSUME NEW i \in 1..16 PROVE f[i] = ReadDigit(f[i - 1], str[i])
    <3> HIDE DEF step
    <3>1. f[i] = step[<<i, f[i - 1]>>] /\ i - 1 \in 0..16
      BY <1>7 DEF Iterates
    <3>2. <<i, f[i - 1]>> \in (1..16) \X X
      BY <2>1, <3>1
    <3> QED BY <3>1, <3>2 DEF step
  <2> HIDE DEF step, h
  <2>3. ASSUME NEW i \in 0..16
        PROVE  f[i] = IF i = 0 THEN b ELSE ReadDigit(f[i - 1], str[i])
    <3>1. CASE i = 0
      BY <3>1, <2>1
    <3>2. CASE i # 0
      <4>1. i \in 1..16
        BY <3>2
      <4> QED BY <4>1, <3>2, <2>2
    <3> QED BY <3>1, <3>2
  <2>4. f = [i \in 0..16 |-> IF i = 0 THEN b ELSE ReadDigit(f[i - 1], str[i])]
    BY <2>1, <2>3
  <2> QED BY <2>4, <1>1 DEF ReadOf, b
<1>9. ReadOf(str, h)
  BY <1>8
<1>10. h[0] = b /\ \A m \in 1..16 : h[m] = ReadDigit(h[m - 1], str[m])
  <2> HIDE DEF h
  <2>1. h = [i \in 0..16 |-> IF i = 0 THEN b ELSE ReadDigit(h[i - 1], str[i])]
    BY <1>1, <1>9 DEF ReadOf, b
  <2> QED BY <2>1
<1> HIDE DEF h, step
<1> DEFINE Is(k, v) == h[k] \in X /\ h[k].ov = 0 /\ Value(h[k].x) = v
<1>11. Is(0, 0)
  BY <1>3, <1>10 DEF b
<1>12. ASSUME NEW m \in 1..16, NEW v \in Nat, Is(m - 1, v), 16 * v + 15 < Top
       PROVE  Is(m, 16 * v + str[m])
  <2>1. h[m] = ReadDigit(h[m - 1], str[m]) /\ str[m] \in 0..15
    BY <1>1, <1>10
  <2> QED BY <2>1, <1>12, ReadDigitIs DEF X
<1>13. Is(1, 0)
  <2>1. Is(1 - 1, 0) /\ 1 \in 1..16 /\ 0 \in Nat
    BY <1>11
  <2>2. 16 * 0 + 15 < Top /\ 16 * 0 + 0 = 0
    BY DEF Top
  <2> HIDE DEF Is
  <2>3. Is(1, 16 * 0 + str[1])
    BY <1>12, <2>1, <2>2
  <2> QED BY <2>2, <2>3, <1>6
<1>14. Is(2, 1)
  <2>1. Is(2 - 1, 0) /\ 2 \in 1..16 /\ 0 \in Nat
    BY <1>13
  <2>2. 16 * 0 + 15 < Top /\ 16 * 0 + 1 = 1
    BY DEF Top
  <2> HIDE DEF Is
  <2>3. Is(2, 16 * 0 + str[2])
    BY <1>12, <2>1, <2>2
  <2> QED BY <2>2, <2>3, <1>6
<1>15. Is(3, 27)
  <2>1. Is(3 - 1, 1) /\ 3 \in 1..16 /\ 1 \in Nat
    BY <1>14
  <2>2. 16 * 1 + 15 < Top /\ 16 * 1 + 11 = 27
    BY DEF Top
  <2> HIDE DEF Is
  <2>3. Is(3, 16 * 1 + str[3])
    BY <1>12, <2>1, <2>2
  <2> QED BY <2>2, <2>3, <1>6
<1>16. Is(4, 434)
  <2>1. Is(4 - 1, 27) /\ 4 \in 1..16 /\ 27 \in Nat
    BY <1>15
  <2>2. 16 * 27 + 15 < Top /\ 16 * 27 + 2 = 434
    BY DEF Top
  <2> HIDE DEF Is
  <2>3. Is(4, 16 * 27 + str[4])
    BY <1>12, <2>1, <2>2
  <2> QED BY <2>2, <2>3, <1>6
<1>17. Is(5, 6945)
  <2>1. Is(5 - 1, 434) /\ 5 \in 1..16 /\ 434 \in Nat
    BY <1>16
  <2>2. 16 * 434 + 15 < Top /\ 16 * 434 + 1 = 6945
    BY DEF Top
  <2> HIDE DEF Is
  <2>3. Is(5, 16 * 434 + str[5])
    BY <1>12, <2>1, <2>2
  <2> QED BY <2>2, <2>3, <1>6
<1>18. Is(6, 111133)
  <2>1. Is(6 - 1, 6945) /\ 6 \in 1..16 /\ 6945 \in Nat
    BY <1>17
  <2>2. 16 * 6945 + 15 < Top /\ 16 * 6945 + 13 = 111133
    BY DEF Top
  <2> HIDE DEF Is
  <2>3. Is(6, 16 * 6945 + str[6])
    BY <1>12, <2>1, <2>2
  <2> QED BY <2>2, <2>3, <1>6
<1>19. Is(7, 1778141)
  <2>1. Is(7 - 1, 111133) /\ 7 \in 1..16 /\ 111133 \in Nat
    BY <1>18
  <2>2. 16 * 111133 + 15 < Top /\ 16 * 111133 + 13 = 1778141
    BY DEF Top
  <2> HIDE DEF Is
  <2>3. Is(7, 16 * 111133 + str[7])
    BY <1>12, <2>1, <2>2
  <2> QED BY <2>2, <2>3, <1>6
<1>20. Is(8, 28450258)
  <2>1. Is(8 - 1, 1778141) /\ 8 \in 1..16 /\ 1778141 \in Nat
    BY <1>19
  <2>2. 16 * 1778141 + 15 < Top /\ 16 * 1778141 + 2 = 28450258
    BY DEF Top
  <2> HIDE DEF Is
  <2>3. Is(8, 16 * 1778141 + str[8])
    BY <1>12, <2>1, <2>2
  <2> QED BY <2>2, <2>3, <1>6
<1>21. Is(9, 455204129)
  <2>1. Is(9 - 1, 28450258) /\ 9 \in 1..16 /\ 28450258 \in Nat
    BY <1>20
  <2>2. 16 * 28450258 + 15 < Top /\ 16 * 28450258 + 1 = 455204129
    BY DEF Top
  <2> HIDE DEF Is
  <2>3. Is(9, 16 * 28450258 + str[9])
    BY <1>12, <2>1, <2>2
  <2> QED BY <2>2, <2>3, <1>6
<1>22. Is(10, 7283266067)
  <2>1. Is(10 - 1, 455204129) /\ 10 \in 1..16 /\ 455204129 \in Nat
    BY <1>21
  <2>2. 16 * 455204129 + 15 < Top /\ 16 * 455204129 + 3 = 7283266067
    BY DEF Top
  <2> HIDE DEF Is
  <2>3. Is(10, 16 * 455204129 + str[10])
    BY <1>12, <2>1, <2>2
  <2> QED BY <2>2, <2>3, <1>6
<1>23. Is(11, 116532257080)
  <2>1. Is(11 - 1, 7283266067) /\ 11 \in 1..16 /\ 7283266067 \in Nat
    BY <1>22
  <2>2. 16 * 7283266067 + 15 < Top /\ 16 * 7283266067 + 8 = 116532257080
    BY DEF Top
  <2> HIDE DEF Is
  <2>3. Is(11, 16 * 7283266067 + str[11])
    BY <1>12, <2>1, <2>2
  <2> QED BY <2>2, <2>3, <1>6
<1>24. Is(12, 1864516113281)
  <2>1. Is(12 - 1, 116532257080) /\ 12 \in 1..16 /\ 116532257080 \in Nat
    BY <1>23
  <2>2. 16 * 116532257080 + 15 < Top /\ 16 * 116532257080 + 1 = 1864516113281
    BY DEF Top
  <2> HIDE DEF Is
  <2>3. Is(12, 16 * 116532257080 + str[12])
    BY <1>12, <2>1, <2>2
  <2> QED BY <2>2, <2>3, <1>6
<1>25. Is(13, 29832257812500)
  <2>1. Is(13 - 1, 1864516113281) /\ 13 \in 1..16 /\ 1864516113281 \in Nat
    BY <1>24
  <2>2. 16 * 1864516113281 + 15 < Top /\ 16 * 1864516113281 + 4 = 29832257812500
    BY DEF Top
  <2> HIDE DEF Is
  <2>3. Is(13, 16 * 1864516113281 + str[13])
    BY <1>12, <2>1, <2>2
  <2> QED BY <2>2, <2>3, <1>6
<1>26. Is(14, 477316125000000)
  <2>1. Is(14 - 1, 29832257812500) /\ 14 \in 1..16 /\ 29832257812500 \in Nat
    BY <1>25
  <2>2. 16 * 29832257812500 + 15 < Top /\ 16 * 29832257812500 + 0 = 477316125000000
    BY DEF Top
  <2> HIDE DEF Is
  <2>3. Is(14, 16 * 29832257812500 + str[14])
    BY <1>12, <2>1, <2>2
  <2> QED BY <2>2, <2>3, <1>6
<1>27. Is(15, 7637058000000000)
  <2>1. Is(15 - 1, 477316125000000) /\ 15 \in 1..16 /\ 477316125000000 \in Nat
    BY <1>26
  <2>2. 16 * 477316125000000 + 15 < Top /\ 16 * 477316125000000 + 0 = 7637058000000000
    BY DEF Top
  <2> HIDE DEF Is
  <2>3. Is(15, 16 * 477316125000000 + str[15])
    BY <1>12, <2>1, <2>2
  <2> QED BY <2>2, <2>3, <1>6
<1>28. Is(16, 122192928000000000)
  <2>1. Is(16 - 1, 7637058000000000) /\ 16 \in 1..16 /\ 7637058000000000 \in Nat
    BY <1>27
  <2>2. 16 * 7637058000000000 + 15 < Top /\ 16 * 7637058000000000 + 0 = 122192928000000000
    BY DEF Top
  <2> HIDE DEF Is
  <2>3. Is(16, 16 * 7637058000000000 + str[16])
    BY <1>12, <2>1, <2>2
  <2> QED BY <2>2, <2>3, <1>6
<1> QED BY <1>2, <1>28 DEF X

-----------------------------------------------------------------------------
\* The 100 ns from 1582 to 1970, and the end of 60 bits.
Offset == 122192928000000000
Sixty == 1152921504606846976

LEMMA BelowIs ==
  ASSUME NEW n \in Nat, NEW k \in Below(n)
  PROVE  k \in Nat /\ k < n
BY DEF Below

\* The microseconds of an instant.
Micros(at) == at[1] * 1000000 + at[2]

\* The time of a UUID is that of its instant and number, and fits into 60 bits
\* (uuid_make_v1).
LEMMA TimeOfIs ==
  ASSUME NEW at \in Instant, NEW seq \in 0..Ticks
  PROVE  /\ TimeOf(at, seq) \in Number
         /\ Value(TimeOf(at, seq)) = Micros(at) * Ticks + Offset + seq
         /\ Value(TimeOf(at, seq)) < Sixty
<1>1. PICK sec \in Nat : sec = at[1] /\ sec < 2147483647
  BY SMT, BelowIs DEF Instant
<1>2. PICK usec \in Nat : usec = at[2] /\ usec < 1000000
  BY SMT, BelowIs DEF Instant
<1>3. PICK a \in Number : a = ui64_n2i(sec) /\ Value(a) = sec
  <2>1. sec < Top
    BY SMT, <1>1 DEF Top
  <2> QED BY <2>1, Ui64N2i
<1>4. PICK b \in Number : b = ui64_muln(a, 1000000) /\ Value(b) = sec * 1000000
  <2>1. sec * 1000000 < Top /\ 1000000 \in Nat
    BY SMT, <1>1 DEF Top
  <2>2. PICK million \in Nat : million = 1000000
    BY SMT, <2>1
  <2>3. Value(a) * million < Top
    BY SMT, <2>1, <2>2, <1>3
  <2>4. ui64_muln(a, million) \in Number /\ Value(ui64_muln(a, million)) = Value(a) * million
    BY <2>3, Ui64Muln
  <2> QED BY SMT, <2>2, <2>4, <1>3
<1>5. PICK c \in Number : c = ui64_addn(b, usec) /\ Value(c) = sec * 1000000 + usec
  <2>1. sec * 1000000 + usec < Top
    BY SMT, <1>1, <1>2 DEF Top
  <2>2. Value(b) + usec < Top
    BY SMT, <2>1, <1>4
  <2>3. ui64_addn(b, usec) \in Number /\ Value(ui64_addn(b, usec)) = Value(b) + usec
    BY <2>2, Ui64Addn
  <2> QED BY SMT, <2>3, <1>4
<1>6. PICK n \in Nat : n = sec * 1000000 + usec /\ n < 2147483648000000
  BY SMT, <1>1, <1>2
<1>7. Ticks \in Nat /\ n * Ticks \in Nat /\ n * Ticks <= 21474836480000000 /\ seq \in Nat /\ seq <= 10
  <2>1. \A k \in 1..10 : n * k \in Nat /\ n * k <= 21474836480000000
    BY SMT, <1>6
  <2> QED BY SMT, <2>1, TicksAssumption
<1>8. PICK m \in Nat : m = n * Ticks /\ m <= 21474836480000000
  BY SMT, <1>7
<1>9. PICK d \in Number : d = ui64_muln(c, Ticks) /\ Value(d) = m
  <2>1. Value(c) * Ticks = m /\ m < Top
    BY SMT, <1>5, <1>6, <1>8 DEF Top
  <2>2. Ticks \in Nat /\ Value(c) * Ticks < Top
    BY SMT, <2>1, <1>7
  <2>3. ui64_muln(c, Ticks) \in Number /\ Value(ui64_muln(c, Ticks)) = Value(c) * Ticks
    BY <2>2, Ui64Muln
  <2> QED BY SMT, <2>1, <2>3
<1>10. PICK o \in Number : o = TimeOffset /\ Value(o) = Offset
  BY SMT, OffsetIs DEF Offset
<1>11. PICK e \in Number : e = ui64_add(d, o) /\ Value(e) = m + Offset
  <2>1. m + Offset < Top
    BY SMT, <1>8 DEF Top, Offset
  <2> QED BY SMT, <2>1, <1>9, <1>10, Ui64Add
<1>12. PICK f \in Number : f = ui64_addn(e, seq) /\ Value(f) = m + Offset + seq
  <2>1. m + Offset + seq < Top
    BY SMT, <1>7, <1>8 DEF Top, Offset
  <2>2. seq \in Nat /\ Value(e) + seq < Top
    BY SMT, <2>1, <1>7, <1>11
  <2>3. Value(ui64_addn(e, seq)) = Value(e) + seq /\ ui64_addn(e, seq) \in Number
    BY <2>2, Ui64Addn
  <2> QED BY <2>3, <1>11
<1>13. f = TimeOf(at, seq)
  BY <1>1, <1>2, <1>3, <1>4, <1>5, <1>9, <1>10, <1>11, <1>12 DEF TimeOf
<1>14. m + Offset + seq < Sixty
  BY SMT, <1>7, <1>8 DEF Offset, Sixty
<1>15. m = Micros(at) * Ticks
  BY SMT, <1>1, <1>2, <1>6, <1>8 DEF Micros
<1> QED BY <1>12, <1>13, <1>14, <1>15

\* The first bytes of a number.
LEMMA Beginning ==
  ASSUME NEW m \in {2, 4}, NEW s \in Number
  PROVE  SubSeq(s, 1, m) \in [1..m -> Byte] /\ \A i \in 1..m : SubSeq(s, 1, m)[i] = s[i]
<1>1. m \in Nat /\ 1 + m - 1 = m /\ \A i \in 1..m : s[i] \in Byte /\ 1 + i - 1 = i
  BY DEF Number
<1>2. \A i \in 1..1 + m - 1 : s[i] \in Byte
  BY <1>1
<1>3. SubSeq(s, 1, 1 + m - 1) = [i \in 1..m |-> s[1 + i - 1]]
  BY <1>1, <1>2, Cut
<1>4. SubSeq(s, 1, m) = [i \in 1..m |-> s[i]]
  BY <1>1, <1>3
<1> QED BY <1>1, <1>4

\* The three fields of the time are its bytes, and 60 bits of them (uuid_make_v1).
LEMMA TimeFieldsAre ==
  ASSUME NEW t \in Number
  PROVE  TimeFields(t) = [hi |-> <<t[7], t[8] % 16>>, mid |-> <<t[5], t[6]>>,
                          low |-> <<t[1], t[2], t[3], t[4]>>]
<1>1. 8 * 2 = 16 /\ 8 * 4 = 32
  OBVIOUS
<1>2. PICK a \in Number : a = Moved(t, 2)
  BY Ui64Rol
<1>3. ui64_rol(t, 16) = [x |-> a, ov |-> FallenOut(t, 2)]
  BY <1>1, <1>2, Ui64Rol
<1>4. PICK b \in Number : b = Moved(a, 2)
  BY Ui64Rol
<1>5. ui64_rol(a, 16) = [x |-> b, ov |-> FallenOut(a, 2)]
  BY <1>1, <1>4, Ui64Rol
<1>6. ui64_rol(b, 32).ov = FallenOut(b, 4)
  BY <1>1, Ui64Rol
<1>7. FallenOut(t, 2)[1] = t[7] /\ FallenOut(t, 2)[2] = t[8]
  BY DEF FallenOut
<1>8. \A i \in 3..8 : a[i] = t[i - 2]
  BY <1>2 DEF Moved
<1>9. \A i \in 3..8 : b[i] = a[i - 2]
  BY <1>4 DEF Moved
<1>10. SubSeq(FallenOut(a, 2), 1, 2) = <<t[5], t[6]>>
  <2>0. FallenOut(a, 2) \in [1..8 -> Byte]
    BY ByteIs DEF FallenOut, Number
  <2>1. PICK o \in Number : o = FallenOut(a, 2)
    BY <2>0 DEF Number
  <2>2. o[1] = a[7] /\ o[2] = a[8]
    BY <2>1 DEF FallenOut
  <2>3. a[7] = t[5] /\ a[8] = t[6]
    BY <1>8
  <2>7. 1 \in 1..2 /\ 2 \in 1..2
    OBVIOUS
  <2>8. SubSeq(o, 1, 2) \in [1..2 -> Byte] /\ \A i \in 1..2 : SubSeq(o, 1, 2)[i] = o[i]
    BY Beginning
  <2>5. PICK f \in [1..2 -> Byte] : f = SubSeq(o, 1, 2) /\ f[1] = o[1] /\ f[2] = o[2]
    BY <2>7, <2>8
  <2> QED BY <2>1, <2>2, <2>3, <2>5, Two
<1>11. SubSeq(FallenOut(b, 4), 1, 4) = <<t[1], t[2], t[3], t[4]>>
  <2>0. FallenOut(b, 4) \in [1..8 -> Byte]
    BY ByteIs DEF FallenOut, Number
  <2>1. PICK o \in Number : o = FallenOut(b, 4)
    BY <2>0 DEF Number
  <2>2. o[1] = b[5] /\ o[2] = b[6] /\ o[3] = b[7] /\ o[4] = b[8]
    BY <2>1 DEF FallenOut
  <2>3. b[5] = a[3] /\ b[6] = a[4] /\ b[7] = a[5] /\ b[8] = a[6]
    BY <1>9
  <2>4. a[3] = t[1] /\ a[4] = t[2] /\ a[5] = t[3] /\ a[6] = t[4]
    BY <1>8
  <2>7. 1 \in 1..4 /\ 2 \in 1..4 /\ 3 \in 1..4 /\ 4 \in 1..4
    OBVIOUS
  <2>8. SubSeq(o, 1, 4) \in [1..4 -> Byte] /\ \A i \in 1..4 : SubSeq(o, 1, 4)[i] = o[i]
    BY Beginning
  <2>6. PICK f \in [1..4 -> Byte] :
            f = SubSeq(o, 1, 4) /\ f[1] = o[1] /\ f[2] = o[2] /\ f[3] = o[3] /\ f[4] = o[4]
    BY <2>7, <2>8
  <2>9. f = <<f[1], f[2], f[3], f[4]>>
    BY Four
  <2> QED BY <2>1, <2>2, <2>3, <2>4, <2>6, <2>9
<1>12. TimeFields(t) = [hi |-> <<FallenOut(t, 2)[1], FallenOut(t, 2)[2] % 16>>,
                        mid |-> SubSeq(FallenOut(a, 2), 1, 2), low |-> SubSeq(FallenOut(b, 4), 1, 4)]
  BY <1>3, <1>5, <1>6 DEF TimeFields
<1> QED BY <1>7, <1>10, <1>11, <1>12

-----------------------------------------------------------------------------
\* What a uuid_obj_t can hold.
Words(n) == [1..n -> Byte]
Objs == [time_low : Words(4), time_mid : Words(2), time_hi_and_version : Words(2),
         clock_seq_hi_and_reserved : Byte, clock_seq_low : Byte, node : Words(6)]

\* The fields of the time in a UUID made at an instant, as number seq of its tick.
CarriesTime(u, at, seq) ==
  LET t == TimeOf(at, seq)
  IN  /\ u.time_low = <<t[1], t[2], t[3], t[4]>> /\ u.time_mid = <<t[5], t[6]>>
      /\ u.time_hi_and_version[1] = t[7] /\ u.time_hi_and_version[2] % 16 = t[8] % 16

\* A short word is a number when it is padded (the casts in uuid_export_txt).
LEMMA Padded ==
  ASSUME NEW n \in {2, 4}, NEW w \in Words(n)
  PROVE  /\ Pad(w) \in Number
         /\ \A i \in 1..8 : Pad(w)[i] = IF i <= n THEN w[i] ELSE 0
<1>1. w \in Seq(Byte) /\ Len(w) = n
  BY FunctionIsSeq DEF Words
<1>2. ui64_zero \in Seq(Byte) /\ Len(ui64_zero) = 8 /\ \A i \in 1..8 : ui64_zero[i] = 0
  <2>1. ui64_zero \in [1..8 -> Byte] /\ \A i \in 1..8 : ui64_zero[i] = 0
    BY ByteIs DEF ui64_zero, UI64_DIGITS
  <2>2. 8 \in Nat
    OBVIOUS
  <2> QED BY <2>1, <2>2, FunctionIsSeq
<1>3. PICK z : z = SubSeq(ui64_zero, n + 1, 8)
  OBVIOUS
<1>4. z \in Seq(Byte) /\ Len(z) = 8 - n /\ \A i \in 1..8 - n : z[i] = 0
  BY <1>2, <1>3
<1>5. w \o z \in Seq(Byte) /\ Len(w \o z) = 8
      /\ \A i \in 1..8 : (w \o z)[i] = IF i <= n THEN w[i] ELSE z[i - n]
  BY <1>1, <1>4, ConcatProperties
<1>6. Pad(w) = w \o z
  BY <1>1, <1>3 DEF Pad, UI64_DIGITS
<1>7. \A i \in 1..8 : i > n => z[i - n] = 0
  BY <1>4
<1>8. Pad(w) \in Number
  BY <1>5, <1>6, LenProperties DEF Number
<1>9. \A i \in 1..8 : (w \o z)[i] = IF i <= n THEN w[i] ELSE 0
  <2> SUFFICES ASSUME NEW i \in 1..8 PROVE (w \o z)[i] = IF i <= n THEN w[i] ELSE 0
    OBVIOUS
  <2>1. CASE i <= n
    BY <2>1, <1>5
  <2>2. CASE ~ (i <= n)
    <3>1. (w \o z)[i] = z[i - n]
      BY <2>2, <1>5
    <3>2. i > n
      BY <2>2
    <3> QED BY <2>2, <3>1, <3>2, <1>7
  <2> QED BY <2>1, <2>2
<1> QED BY <1>6, <1>8, <1>9

\* The time that is put together from the fields is the time they were taken from
\* (uuid_export_txt).
LEMMA TimeComesBack ==
  ASSUME NEW u \in Objs, NEW t \in Number, Value(t) < Sixty,
         u.time_low = <<t[1], t[2], t[3], t[4]>>, u.time_mid = <<t[5], t[6]>>,
         u.time_hi_and_version[1] = t[7], u.time_hi_and_version[2] % 16 = t[8] % 16
  PROVE  LET hi == <<u.time_hi_and_version[1], u.time_hi_and_version[2] % 16>>
         IN  ui64_or(ui64_or(ui64_rol(Pad(hi), 48).x, ui64_rol(Pad(u.time_mid), 32).x),
                     Pad(u.time_low)) = t
<1>1. t[8] % 16 = t[8]
  <2>1. PICK x1 \in Byte, x2 \in Byte, x3 \in Byte, x4 \in Byte,
           x5 \in Byte, x6 \in Byte, x7 \in Byte, x8 \in Byte :
           /\ t[1] = x1 /\ t[2] = x2 /\ t[3] = x3 /\ t[4] = x4
           /\ t[5] = x5 /\ t[6] = x6 /\ t[7] = x7 /\ t[8] = x8
    BY Digits DEF Number
  <2>2. x1 \in Int /\ x2 \in Int /\ x3 \in Int /\ x4 \in Int /\ x5 \in Int /\ x6 \in Int /\ x7 \in Int /\ x8 \in Int
        /\ x1 >= 0 /\ x2 >= 0 /\ x3 >= 0 /\ x4 >= 0 /\ x5 >= 0 /\ x6 >= 0 /\ x7 >= 0 /\ x8 >= 0
    BY ByteIs, SMTT(30)
  <2>3. Sum(x1, x2, x3, x4, x5, x6, x7, x8) < Sixty
    BY SMT, <2>1 DEF Value
  <2>4. x8 \in 0..15
    BY SMT, <2>2, <2>3 DEF Sum, Sixty
  <2> QED BY <2>1, <2>4
<1>2. PICK hi \in Words(2) : hi = <<t[7], t[8]>>
  <2>1. PICK a \in Byte, b \in Byte : a = t[7] /\ b = t[8]
    BY DEF Number
  <2>2. <<a, b>> \in Seq(Byte) /\ Len(<<a, b>>) = 2
    OBVIOUS
  <2> QED BY <2>1, <2>2, LenProperties DEF Words
<1>3. PICK mid \in Words(2) : mid = <<t[5], t[6]>>
  <2>1. PICK a \in Byte, b \in Byte : a = t[5] /\ b = t[6]
    BY DEF Number
  <2>2. <<a, b>> \in Seq(Byte) /\ Len(<<a, b>>) = 2
    OBVIOUS
  <2> QED BY <2>1, <2>2, LenProperties DEF Words
<1>4. PICK low \in Words(4) : low = <<t[1], t[2], t[3], t[4]>>
  <2>1. PICK a \in Byte, b \in Byte, c \in Byte, d \in Byte :
            a = t[1] /\ b = t[2] /\ c = t[3] /\ d = t[4]
    BY DEF Number
  <2>2. <<a, b, c, d>> \in Seq(Byte) /\ Len(<<a, b, c, d>>) = 4
    OBVIOUS
  <2> QED BY <2>1, <2>2, LenProperties DEF Words
<1>5. 8 * 6 = 48 /\ 8 * 4 = 32
  OBVIOUS
<1>6. PICK a \in Number : a = Pad(hi) /\ a[1] = t[7] /\ a[2] = t[8]
  BY <1>2, Padded
<1>7. PICK b \in Number : b = Pad(mid) /\ b[1] = t[5] /\ b[2] = t[6] /\ b[3] = 0 /\ b[4] = 0
  BY <1>3, Padded
<1>8. PICK c \in Number : c = Pad(low) /\ c[1] = t[1] /\ c[2] = t[2] /\ c[3] = t[3] /\ c[4] = t[4]
                          /\ c[5] = 0 /\ c[6] = 0 /\ c[7] = 0 /\ c[8] = 0
  BY <1>4, Padded
<1>9. ui64_rol(a, 48).x = Moved(a, 6) /\ ui64_rol(b, 32).x = Moved(b, 4)
  BY <1>5, Ui64Rol
<1>10. PICK r : r = ui64_or(ui64_or(Moved(a, 6), Moved(b, 4)), c)
  OBVIOUS
<1>11. r = [i \in 1..8 |-> ((IF i > 6 THEN a[i - 6] ELSE 0) + (IF i > 4 THEN b[i - 4] ELSE 0)) + c[i]]
  BY <1>10 DEF ui64_or, Moved, UI64_DIGITS
<1>12. t[1] \in Int /\ t[2] \in Int /\ t[3] \in Int /\ t[4] \in Int
       /\ t[5] \in Int /\ t[6] \in Int /\ t[7] \in Int /\ t[8] \in Int
  BY ByteIs, SMTT(30) DEF Number
<1>13. /\ r[1] = t[1] /\ r[2] = t[2] /\ r[3] = t[3] /\ r[4] = t[4]
       /\ r[5] = t[5] /\ r[6] = t[6] /\ r[7] = t[7] /\ r[8] = t[8]
  <2>1. r[1] = (0 + 0) + c[1] /\ r[2] = (0 + 0) + c[2] /\ r[3] = (0 + 0) + c[3] /\ r[4] = (0 + 0) + c[4]
    BY <1>11
  <2>2. r[5] = (0 + b[1]) + c[5] /\ r[6] = (0 + b[2]) + c[6]
    BY <1>11
  <2>3. r[7] = (a[1] + b[3]) + c[7] /\ r[8] = (a[2] + b[4]) + c[8]
    BY <1>11
  <2> QED BY <1>6, <1>7, <1>8, <1>12, <2>1, <2>2, <2>3
<1>14. r = t
  <2>1. \A i \in 1..8 : r[i] = t[i]
    BY <1>13
  <2>2. r = [i \in 1..8 |-> r[i]]
    BY <1>11
  <2> QED BY <2>1, <2>2 DEF Number
<1> QED BY <1>1, <1>2, <1>3, <1>4, <1>6, <1>7, <1>8, <1>9, <1>10, <1>14

\* The time shown of a UUID is the time it was made at (uuid_export_txt).
LEMMA TimeShownIs ==
  ASSUME NEW u \in Objs, NEW at \in Instant, NEW seq \in 0..Ticks, CarriesTime(u, at, seq)
  PROVE  LET usec == at[2] + seq \div Ticks
         IN  TimeShown(u)
               = <<ui64_n2i(at[1] + usec \div 1000000), usec % 1000000, seq % Ticks>>
<1>1. PICK t \in Number : t = TimeOf(at, seq) /\ Value(t) = Micros(at) * Ticks + Offset + seq
                          /\ Value(t) < Sixty
  BY TimeOfIs
<1>2. PICK sec \in Nat : sec = at[1] /\ sec < 2147483647
  BY SMT, BelowIs DEF Instant
<1>3. PICK us \in Nat : us = at[2] /\ us < 1000000
  BY SMT, BelowIs DEF Instant
<1>4. PICK n \in Nat : n = sec * 1000000 + us
  BY SMT
<1>5. Ticks \in Nat \ {0} /\ seq \in Nat /\ seq \in Int
  BY TicksAssumption
<1>6. PICK m \in Nat : m = n * Ticks
  BY <1>5
<1>7. Value(t) = m + Offset + seq
  BY SMT, <1>1, <1>2, <1>3, <1>4, <1>6 DEF Micros
<1>8. PICK d \in Number : d = ui64_sub(t, TimeOffset) /\ Value(d) = m + seq
  <2>1. PICK o \in Number : o = TimeOffset /\ Value(o) = Offset
    BY SMT, OffsetIs DEF Offset
  <2>2. Offset <= m + Offset + seq /\ (m + Offset + seq) - Offset = m + seq
    BY SMT, <1>5 DEF Offset
  <2>3. Value(o) <= Value(t)
    BY <2>1, <2>2, <1>7
  <2>4. ui64_sub(t, o) \in Number /\ Value(ui64_sub(t, o)) = Value(t) - Value(o)
    BY <2>3, Ui64Sub
  <2> QED BY <2>1, <2>2, <2>4, <1>7
<1>9. PICK over \in Int : over = seq \div Ticks
  BY <1>5, Divided
<1>10. PICK rest \in 0..Ticks - 1 : rest = seq % Ticks
  BY <1>5, Divided
<1>11. seq = Ticks * over + rest /\ over >= 0 /\ over <= 1
  <2>1. seq = Ticks * over + rest
    BY <1>5, <1>9, <1>10, Divided
  <2>2. \A k \in 1..10, r \in Int, v \in Int, s \in Int :
          s >= 0 /\ s <= k /\ r >= 0 /\ r < k /\ s = k * v + r => v >= 0 /\ v <= 1
    <3> SUFFICES ASSUME NEW k \in 1..10, NEW r \in Int, NEW v \in Int, NEW s \in Int,
                        s >= 0, s <= k, r >= 0, r < k, s = k * v + r
                 PROVE  v >= 0 /\ v <= 1
      OBVIOUS
    <3>1. k \in {1, 2, 3, 4, 5, 6, 7, 8, 9, 10}
      OBVIOUS
    <3> QED BY <3>1
  <2>3. rest \in Int /\ rest >= 0 /\ rest < Ticks /\ seq >= 0 /\ seq <= Ticks
    BY <1>5
  <2> QED BY <2>1, <2>2, <2>3, <1>5, TicksAssumption
<1>12. PICK x \in Number, ov \in 0..Ticks - 1 :
            x = ui64_divn(d, Ticks).x /\ ov = ui64_divn(d, Ticks).ov
            /\ Value(d) = Ticks * Value(x) + ov
  <2>1. LET q == ui64_divn(d, Ticks)
        IN  q.x \in Number /\ q.ov \in 0..Ticks - 1 /\ Value(d) = Ticks * Value(q.x) + q.ov
    BY <1>5, Ui64Divn
  <2> QED BY <2>1
<1>13. PICK v \in Nat : v = Value(x) /\ v < Top
  BY SMT, ValueRange DEF Top
<1>14. v = n + over /\ ov = rest
  <2>1. Ticks * v + ov = m + seq
    BY <1>8, <1>12, <1>13
  <2>2. Ticks * (n + over) = n * Ticks + Ticks * over
    BY <1>5
  <2>3. Ticks * v + ov = Ticks * (n + over) + rest
    BY <2>1, <2>2, <1>5, <1>6, <1>10, <1>11
  <2>4. n + over \in Int /\ v \in Int
    OBVIOUS
  <2> QED BY <2>3, <2>4, <1>5, <1>10, DividedOnce
<1>15. PICK usec \in Nat : usec = us + over
  BY <1>11
<1>16. PICK million \in Nat \ {0} : million = 1000000
  BY SMT
<1>17. PICK e \in Int, f \in Int : e = usec \div million /\ f = usec % million
                               /\ f >= 0 /\ f < million /\ usec = million * e + f
  BY <1>16, Divided
<1>18. e >= 0 /\ e <= 1
  BY SMT, <1>3, <1>11, <1>15, <1>16, <1>17
<1>19. PICK y \in Number, left \in Int :
            y = ui64_divn(x, million).x /\ left = ui64_divn(x, million).ov
            /\ v = million * Value(y) + left /\ left >= 0 /\ left < million
  <2>1. LET q == ui64_divn(x, million)
        IN  q.x \in Number /\ q.ov \in 0..million - 1 /\ v = million * Value(q.x) + q.ov
    BY <1>13, Ui64Divn
  <2> QED BY <2>1
<1>20. PICK w \in Nat : w = Value(y) /\ w < Top
  BY SMT, ValueRange DEF Top
<1>21. w = sec + e /\ left = f
  <2>0. v = million * w + left
    BY <1>19, <1>20
  <2>1. million * w + left = sec * million + usec
    BY SMT, <2>0, <1>4, <1>14, <1>15, <1>16
  <2> QED BY SMT, <2>1, <1>16, <1>17, <1>19
<1>22. y = ui64_n2i(sec + e)
  <2>1. sec + e \in Nat /\ sec + e < Top
    BY SMT, <1>2, <1>18 DEF Top
  <2>2. ui64_n2i(sec + e) \in Number /\ Value(ui64_n2i(sec + e)) = Value(y)
    BY <2>1, <1>20, <1>21, Ui64N2i
  <2> QED BY <2>2, ValueUnique
<1>23. TimeShown(u) = <<y, left, ov>>
  <2>1. LET hi == <<u.time_hi_and_version[1], u.time_hi_and_version[2] % 16>>
        IN  ui64_or(ui64_or(ui64_rol(Pad(hi), 48).x, ui64_rol(Pad(u.time_mid), 32).x),
                    Pad(u.time_low)) = t
    <3>1. /\ u.time_low = <<t[1], t[2], t[3], t[4]>> /\ u.time_mid = <<t[5], t[6]>>
          /\ u.time_hi_and_version[1] = t[7] /\ u.time_hi_and_version[2] % 16 = t[8] % 16
      BY <1>1 DEF CarriesTime
    <3>2. Value(t) < Sixty
      BY <1>1
    <3> QED BY <3>1, <3>2, TimeComesBack
  <2>2. TimeShown(u) = LET ticks == ui64_divn(ui64_sub(t, TimeOffset), Ticks)
                           usecs == ui64_divn(ticks.x, million)
                       IN  <<usecs.x, usecs.ov, ticks.ov>>
    BY <2>1, <1>16 DEF TimeShown
  <2> QED BY <2>2, <1>8, <1>12, <1>19
<1>24. usec = at[2] + seq \div Ticks
  BY <1>3, <1>9, <1>15
<1> QED BY <1>2, <1>9, <1>10, <1>14, <1>16, <1>17, <1>21, <1>22, <1>23, <1>24
-----------------------------------------------------------------------------
\* A tuple of six is a function on the first numbers; what joining returns.
LEMMA Six ==
  ASSUME NEW S, NEW f \in [1..6 -> S]
  PROVE  f = <<f[1], f[2], f[3], f[4], f[5], f[6]>>
<1>1. PICK a \in S, b \in S, c \in S, d \in S, e \in S, g \in S :
          a = f[1] /\ b = f[2] /\ c = f[3] /\ d = f[4] /\ e = f[5] /\ g = f[6]
  OBVIOUS
<1> DEFINE t == <<a, b, c, d, e, g>>
<1>2. t \in Seq(S) /\ Len(t) = 6
      /\ t[1] = a /\ t[2] = b /\ t[3] = c /\ t[4] = d /\ t[5] = e /\ t[6] = g
  OBVIOUS
<1>3. f \in Seq(S) /\ Len(f) = 6
  BY FunctionIsSeq
<1> HIDE DEF t
<1>4. \A i \in 1..6 : f[i] = t[i]
  BY <1>1, <1>2
<1>5. f = t
  BY <1>2, <1>3, <1>4, SeqEqual
<1> QED BY <1>1, <1>5 DEF t

LEMMA Joined ==
  ASSUME NEW S, NEW a \in Seq(S), NEW b \in Seq(S)
  PROVE  /\ a \o b \in Seq(S) /\ Len(a \o b) = Len(a) + Len(b)
         /\ \A i \in 1..Len(a) : (a \o b)[i] = a[i]
         /\ \A i \in 1..Len(b) : (a \o b)[Len(a) + i] = b[i]
<1>1. Len(a) \in Nat /\ Len(b) \in Nat
  BY LenProperties
<1>2. ASSUME NEW i \in 1..Len(b)
      PROVE  (a \o b)[Len(a) + i] = b[i]
  <2>1. Len(a) + i \in 1..Len(a) + Len(b) /\ ~ (Len(a) + i <= Len(a)) /\ Len(a) + i - Len(a) = i
    BY <1>1
  <2> QED BY <2>1, ConcatProperties
<1>3. \A i \in 1..Len(a) : i \in 1..Len(a) + Len(b) /\ i <= Len(a)
  BY <1>1
<1> QED BY <1>2, <1>3, ConcatProperties

LEMMA Reversed ==
  ASSUME NEW n \in {2, 4}, NEW w \in Words(n)
  PROVE  /\ Reverse(w) \in Seq(Byte) /\ Len(Reverse(w)) = n
         /\ \A i \in 1..n : Reverse(w)[i] = w[n - i + 1]
<1>1. n \in Nat /\ w \in [1..n -> Byte]
  BY DEF Words
<1>2. Reverse(w) \in [1..n -> Byte] /\ \A i \in 1..n : Reverse(w)[i] = w[n - i + 1]
  BY <1>1, FlipIs
<1> QED BY <1>1, <1>2, FunctionIsSeq

\* The sixteen bytes of a UUID, one by one (uuid_export_bin).
Bytes == [1..16 -> Byte]

LEMMA ExportBinIs ==
  ASSUME NEW u \in Objs
  PROVE  LET b == ExportBin(u)
         IN  /\ b \in Bytes
             /\ b[1] = u.time_low[4] /\ b[2] = u.time_low[3] /\ b[3] = u.time_low[2]
             /\ b[4] = u.time_low[1] /\ b[5] = u.time_mid[2] /\ b[6] = u.time_mid[1]
             /\ b[7] = u.time_hi_and_version[2] /\ b[8] = u.time_hi_and_version[1] /\ b[9] = u.clock_seq_hi_and_reserved
             /\ b[10] = u.clock_seq_low /\ b[11] = u.node[1] /\ b[12] = u.node[2]
             /\ b[13] = u.node[3] /\ b[14] = u.node[4] /\ b[15] = u.node[5]
             /\ b[16] = u.node[6]
<1>1. PICK r \in Seq(Byte) : r = Reverse(u.time_low) /\ Len(r) = 4
        /\ r[1] = u.time_low[4] /\ r[2] = u.time_low[3] /\ r[3] = u.time_low[2] /\ r[4] = u.time_low[1]
  <2>1. 4 \in {2, 4} /\ u.time_low \in Words(4)
    BY DEF Objs
  <2> QED BY <2>1, Reversed
<1>2. PICK s \in Seq(Byte) : s = Reverse(u.time_mid) /\ Len(s) = 2
        /\ s[1] = u.time_mid[2] /\ s[2] = u.time_mid[1]
  <2>1. 2 \in {2, 4} /\ u.time_mid \in Words(2)
    BY DEF Objs
  <2> QED BY <2>1, Reversed
<1>3. PICK t \in Seq(Byte) : t = Reverse(u.time_hi_and_version) /\ Len(t) = 2
        /\ t[1] = u.time_hi_and_version[2] /\ t[2] = u.time_hi_and_version[1]
  <2>1. 2 \in {2, 4} /\ u.time_hi_and_version \in Words(2)
    BY DEF Objs
  <2> QED BY <2>1, Reversed
<1>4. PICK p \in Seq(Byte) : p = <<u.clock_seq_hi_and_reserved, u.clock_seq_low>> /\ Len(p) = 2
        /\ p[1] = u.clock_seq_hi_and_reserved /\ p[2] = u.clock_seq_low
  <2>1. PICK x \in Byte, y \in Byte : x = u.clock_seq_hi_and_reserved /\ y = u.clock_seq_low
    BY DEF Objs
  <2>2. <<x, y>> \in Seq(Byte) /\ Len(<<x, y>>) = 2 /\ <<x, y>>[1] = x /\ <<x, y>>[2] = y
    OBVIOUS
  <2> QED BY <2>1, <2>2
<1>5. PICK n \in Seq(Byte) : n = u.node /\ Len(n) = 6
  <2>1. 6 \in Nat /\ u.node \in [1..6 -> Byte]
    BY DEF Objs, Words
  <2> QED BY <2>1, FunctionIsSeq
<1> DEFINE c == r \o s
<1>6. /\ c \in Seq(Byte) /\ Len(c) = 6
      /\ c[1] = r[1] /\ c[2] = r[2] /\ c[3] = r[3] /\ c[4] = r[4] /\ c[5] = s[1]
      /\ c[6] = s[2]
  <2>1. /\ c \in Seq(Byte) /\ Len(c) = Len(r) + Len(s)
        /\ \A i \in 1..Len(r) : c[i] = r[i]
        /\ \A i \in 1..Len(s) : c[Len(r) + i] = s[i]
    BY Joined
  <2> HIDE DEF c
  <2>0. Len(r) = 4 /\ Len(s) = 2
    BY <1>1, <1>2
  <2>2. Len(c) = 6 /\ \A i \in 1..4 : c[i] = r[i]
    BY <2>0, <2>1
  <2>3. \A i \in 1..2 : c[4 + i] = s[i]
    BY <2>0, <2>1
  <2>4. c[1] = r[1] /\ c[2] = r[2] /\ c[3] = r[3] /\ c[4] = r[4]
    BY <2>2
  <2>5. c[4 + 1] = s[1] /\ c[4 + 2] = s[2]
    BY <2>3
  <2>6. c[5] = s[1] /\ c[6] = s[2]
    BY <2>5
  <2> QED BY <2>1, <2>2, <2>4, <2>6
<1> HIDE DEF c
<1> DEFINE d == c \o t
<1>7. /\ d \in Seq(Byte) /\ Len(d) = 8
      /\ d[1] = c[1] /\ d[2] = c[2] /\ d[3] = c[3] /\ d[4] = c[4] /\ d[5] = c[5]
      /\ d[6] = c[6] /\ d[7] = t[1] /\ d[8] = t[2]
  <2>7. c \in Seq(Byte)
    BY <1>6
  <2>1. /\ d \in Seq(Byte) /\ Len(d) = Len(c) + Len(t)
        /\ \A i \in 1..Len(c) : d[i] = c[i]
        /\ \A i \in 1..Len(t) : d[Len(c) + i] = t[i]
    BY <2>7, Joined
  <2> HIDE DEF d
  <2>0. Len(c) = 6 /\ Len(t) = 2
    BY <1>3, <1>6
  <2>2. Len(d) = 8 /\ \A i \in 1..6 : d[i] = c[i]
    BY <2>0, <2>1
  <2>3. \A i \in 1..2 : d[6 + i] = t[i]
    BY <2>0, <2>1
  <2>4. d[1] = c[1] /\ d[2] = c[2] /\ d[3] = c[3] /\ d[4] = c[4] /\ d[5] = c[5] /\ d[6] = c[6]
    BY <2>2
  <2>5. d[6 + 1] = t[1] /\ d[6 + 2] = t[2]
    BY <2>3
  <2>6. d[7] = t[1] /\ d[8] = t[2]
    BY <2>5
  <2> QED BY <2>1, <2>2, <2>4, <2>6
<1> HIDE DEF d
<1> DEFINE e == d \o p
<1>8. /\ e \in Seq(Byte) /\ Len(e) = 10
      /\ e[1] = d[1] /\ e[2] = d[2] /\ e[3] = d[3] /\ e[4] = d[4] /\ e[5] = d[5]
      /\ e[6] = d[6] /\ e[7] = d[7] /\ e[8] = d[8] /\ e[9] = p[1] /\ e[10] = p[2]
  <2>7. d \in Seq(Byte)
    BY <1>7
  <2>1. /\ e \in Seq(Byte) /\ Len(e) = Len(d) + Len(p)
        /\ \A i \in 1..Len(d) : e[i] = d[i]
        /\ \A i \in 1..Len(p) : e[Len(d) + i] = p[i]
    BY <2>7, Joined
  <2> HIDE DEF e
  <2>0. Len(d) = 8 /\ Len(p) = 2
    BY <1>4, <1>7
  <2>2. Len(e) = 10 /\ \A i \in 1..8 : e[i] = d[i]
    BY <2>0, <2>1
  <2>3. \A i \in 1..2 : e[8 + i] = p[i]
    BY <2>0, <2>1
  <2>4. e[1] = d[1] /\ e[2] = d[2] /\ e[3] = d[3] /\ e[4] = d[4] /\ e[5] = d[5] /\ e[6] = d[6] /\ e[7] = d[7] /\ e[8] = d[8]
    BY <2>2
  <2>5. e[8 + 1] = p[1] /\ e[8 + 2] = p[2]
    BY <2>3
  <2>6. e[9] = p[1] /\ e[10] = p[2]
    BY <2>5
  <2> QED BY <2>1, <2>2, <2>4, <2>6
<1> HIDE DEF e
<1> DEFINE b == e \o n
<1>9. /\ b \in Seq(Byte) /\ Len(b) = 16
      /\ b[1] = e[1] /\ b[2] = e[2] /\ b[3] = e[3] /\ b[4] = e[4] /\ b[5] = e[5]
      /\ b[6] = e[6] /\ b[7] = e[7] /\ b[8] = e[8] /\ b[9] = e[9] /\ b[10] = e[10]
      /\ b[11] = n[1] /\ b[12] = n[2] /\ b[13] = n[3] /\ b[14] = n[4] /\ b[15] = n[5]
      /\ b[16] = n[6]
  <2>7. e \in Seq(Byte)
    BY <1>8
  <2>1. /\ b \in Seq(Byte) /\ Len(b) = Len(e) + Len(n)
        /\ \A i \in 1..Len(e) : b[i] = e[i]
        /\ \A i \in 1..Len(n) : b[Len(e) + i] = n[i]
    BY <2>7, Joined
  <2> HIDE DEF b
  <2>0. Len(e) = 10 /\ Len(n) = 6
    BY <1>5, <1>8
  <2>2. Len(b) = 16 /\ \A i \in 1..10 : b[i] = e[i]
    BY <2>0, <2>1
  <2>3. \A i \in 1..6 : b[10 + i] = n[i]
    BY <2>0, <2>1
  <2>4. b[1] = e[1] /\ b[2] = e[2] /\ b[3] = e[3] /\ b[4] = e[4] /\ b[5] = e[5] /\ b[6] = e[6] /\ b[7] = e[7] /\ b[8] = e[8] /\ b[9] = e[9] /\ b[10] = e[10]
    BY <2>2
  <2>5. b[10 + 1] = n[1] /\ b[10 + 2] = n[2] /\ b[10 + 3] = n[3] /\ b[10 + 4] = n[4] /\ b[10 + 5] = n[5] /\ b[10 + 6] = n[6]
    BY <2>3
  <2>6. b[11] = n[1] /\ b[12] = n[2] /\ b[13] = n[3] /\ b[14] = n[4] /\ b[15] = n[5] /\ b[16] = n[6]
    BY <2>5
  <2> QED BY <2>1, <2>2, <2>4, <2>6
<1> HIDE DEF b
<1>10. b = ExportBin(u)
  BY <1>1, <1>2, <1>3, <1>4, <1>5 DEF ExportBin, b, c, d, e
<1>11. b \in Bytes
  BY <1>9, LenProperties DEF Bytes
<1> QED BY <1>1, <1>2, <1>3, <1>4, <1>5, <1>6, <1>7, <1>8, <1>9, <1>10, <1>11
-----------------------------------------------------------------------------
\* A part of the sixteen bytes.
LEMMA Part ==
  ASSUME NEW b \in Bytes, NEW m \in 1..16, NEW n \in 1..16, m <= n
  PROVE  /\ SubSeq(b, m, n) \in [1..n - m + 1 -> Byte]
         /\ \A i \in 1..n - m + 1 : SubSeq(b, m, n)[i] = b[m + i - 1]
<1>1. PICK k \in Nat : k = n - m + 1
  OBVIOUS
<1>2. n = m + k - 1 /\ m \in Nat
  BY <1>1
<1>3. \A i \in m..m + k - 1 : b[i] \in Byte
  BY <1>2 DEF Bytes
<1>4. SubSeq(b, m, m + k - 1) = [i \in 1..k |-> b[m + i - 1]]
  BY <1>2, <1>3, Cut
<1>5. \A i \in 1..k : b[m + i - 1] \in Byte
  BY <1>2 DEF Bytes
<1>6. SubSeq(b, m, n) \in [1..k -> Byte] /\ \A i \in 1..k : SubSeq(b, m, n)[i] = b[m + i - 1]
  BY <1>2, <1>4, <1>5
<1> QED BY <1>1, <1>6

\* A UUID is read back from its sixteen bytes (uuid_import_bin).
LEMMA BytesComeBack ==
  ASSUME NEW u \in Objs
  PROVE  ImportBin(ExportBin(u)) = u
<1> DEFINE b == ExportBin(u)
<1>1. b \in Bytes
  BY ExportBinIs
<1>2. /\ b[1] = u.time_low[4] /\ b[2] = u.time_low[3] /\ b[3] = u.time_low[2] /\ b[4] = u.time_low[1]
      /\ b[5] = u.time_mid[2] /\ b[6] = u.time_mid[1] /\ b[7] = u.time_hi_and_version[2] /\ b[8] = u.time_hi_and_version[1]
      /\ b[9] = u.clock_seq_hi_and_reserved /\ b[10] = u.clock_seq_low /\ b[11] = u.node[1] /\ b[12] = u.node[2]
      /\ b[13] = u.node[3] /\ b[14] = u.node[4] /\ b[15] = u.node[5] /\ b[16] = u.node[6]
  BY ExportBinIs
<1> HIDE DEF b
<1>3. Reverse(SubSeq(b, 1, 4)) = u.time_low
  <2>1. PICK w \in [1..4 -> Byte] : w = SubSeq(b, 1, 4) /\ w[1] = b[1] /\ w[2] = b[2] /\ w[3] = b[3] /\ w[4] = b[4]
    <3>1. /\ SubSeq(b, 1, 4) \in [1..4 - 1 + 1 -> Byte]
          /\ \A i \in 1..4 - 1 + 1 : SubSeq(b, 1, 4)[i] = b[1 + i - 1]
      BY <1>1, Part
    <3>2. PICK w : w = SubSeq(b, 1, 4)
      OBVIOUS
    <3>3. w \in [1..4 -> Byte] /\ \A i \in 1..4 : w[i] = b[1 + i - 1]
      BY <3>1, <3>2
    <3>4. w[1] = b[1] /\ w[2] = b[2] /\ w[3] = b[3] /\ w[4] = b[4]
      BY <3>3
    <3> QED BY <3>2, <3>3, <3>4
  <2>2. PICK v \in [1..4 -> Byte] : v = u.time_low
    BY DEF Objs, Words
  <2>3. PICK r \in [1..4 -> Byte] : r = Reverse(w) /\ \A i \in 1..4 : r[i] = w[4 - i + 1]
    <3>1. 4 \in Nat
      OBVIOUS
    <3>2. Reverse(w) \in [1..4 -> Byte] /\ \A i \in 1..4 : Reverse(w)[i] = w[4 - i + 1]
      BY <3>1, FlipIs
    <3> QED BY <3>2
  <2>4. r[1] = w[4] /\ r[2] = w[3] /\ r[3] = w[2] /\ r[4] = w[1]
    BY <2>3
  <2>5. r[1] = v[1] /\ r[2] = v[2] /\ r[3] = v[3] /\ r[4] = v[4]
    BY <1>2, <2>1, <2>2, <2>4
  <2>6. \A i \in 1..4 : r[i] = v[i]
    BY <2>5
  <2>7. r = v
    BY <2>6
  <2> QED BY <2>1, <2>2, <2>3, <2>7
<1>4. Reverse(SubSeq(b, 5, 6)) = u.time_mid
  <2>1. PICK w \in [1..2 -> Byte] : w = SubSeq(b, 5, 6) /\ w[1] = b[5] /\ w[2] = b[6]
    <3>1. /\ SubSeq(b, 5, 6) \in [1..6 - 5 + 1 -> Byte]
          /\ \A i \in 1..6 - 5 + 1 : SubSeq(b, 5, 6)[i] = b[5 + i - 1]
      BY <1>1, Part
    <3>2. PICK w : w = SubSeq(b, 5, 6)
      OBVIOUS
    <3>3. w \in [1..2 -> Byte] /\ \A i \in 1..2 : w[i] = b[5 + i - 1]
      BY <3>1, <3>2
    <3>4. w[1] = b[5] /\ w[2] = b[6]
      BY <3>3
    <3> QED BY <3>2, <3>3, <3>4
  <2>2. PICK v \in [1..2 -> Byte] : v = u.time_mid
    BY DEF Objs, Words
  <2>3. PICK r \in [1..2 -> Byte] : r = Reverse(w) /\ \A i \in 1..2 : r[i] = w[2 - i + 1]
    <3>1. 2 \in Nat
      OBVIOUS
    <3>2. Reverse(w) \in [1..2 -> Byte] /\ \A i \in 1..2 : Reverse(w)[i] = w[2 - i + 1]
      BY <3>1, FlipIs
    <3> QED BY <3>2
  <2>4. r[1] = w[2] /\ r[2] = w[1]
    BY <2>3
  <2>5. r[1] = v[1] /\ r[2] = v[2]
    BY <1>2, <2>1, <2>2, <2>4
  <2>6. \A i \in 1..2 : r[i] = v[i]
    BY <2>5
  <2>7. r = v
    BY <2>6
  <2> QED BY <2>1, <2>2, <2>3, <2>7
<1>5. Reverse(SubSeq(b, 7, 8)) = u.time_hi_and_version
  <2>1. PICK w \in [1..2 -> Byte] : w = SubSeq(b, 7, 8) /\ w[1] = b[7] /\ w[2] = b[8]
    <3>1. /\ SubSeq(b, 7, 8) \in [1..8 - 7 + 1 -> Byte]
          /\ \A i \in 1..8 - 7 + 1 : SubSeq(b, 7, 8)[i] = b[7 + i - 1]
      BY <1>1, Part
    <3>2. PICK w : w = SubSeq(b, 7, 8)
      OBVIOUS
    <3>3. w \in [1..2 -> Byte] /\ \A i \in 1..2 : w[i] = b[7 + i - 1]
      BY <3>1, <3>2
    <3>4. w[1] = b[7] /\ w[2] = b[8]
      BY <3>3
    <3> QED BY <3>2, <3>3, <3>4
  <2>2. PICK v \in [1..2 -> Byte] : v = u.time_hi_and_version
    BY DEF Objs, Words
  <2>3. PICK r \in [1..2 -> Byte] : r = Reverse(w) /\ \A i \in 1..2 : r[i] = w[2 - i + 1]
    <3>1. 2 \in Nat
      OBVIOUS
    <3>2. Reverse(w) \in [1..2 -> Byte] /\ \A i \in 1..2 : Reverse(w)[i] = w[2 - i + 1]
      BY <3>1, FlipIs
    <3> QED BY <3>2
  <2>4. r[1] = w[2] /\ r[2] = w[1]
    BY <2>3
  <2>5. r[1] = v[1] /\ r[2] = v[2]
    BY <1>2, <2>1, <2>2, <2>4
  <2>6. \A i \in 1..2 : r[i] = v[i]
    BY <2>5
  <2>7. r = v
    BY <2>6
  <2> QED BY <2>1, <2>2, <2>3, <2>7
<1>6. SubSeq(b, 11, 16) = u.node
  <2>1. /\ SubSeq(b, 11, 16) \in [1..16 - 11 + 1 -> Byte]
        /\ \A i \in 1..16 - 11 + 1 : SubSeq(b, 11, 16)[i] = b[11 + i - 1]
    BY <1>1, Part
  <2>2. PICK w : w = SubSeq(b, 11, 16)
    OBVIOUS
  <2>3. w \in [1..6 -> Byte] /\ \A i \in 1..6 : w[i] = b[11 + i - 1]
    BY <2>1, <2>2
  <2>4. w[1] = b[11] /\ w[2] = b[12] /\ w[3] = b[13] /\ w[4] = b[14] /\ w[5] = b[15] /\ w[6] = b[16]
    BY <2>3
  <2>5. PICK v \in [1..6 -> Byte] : v = u.node
    BY DEF Objs, Words
  <2>6. w[1] = v[1] /\ w[2] = v[2] /\ w[3] = v[3] /\ w[4] = v[4] /\ w[5] = v[5] /\ w[6] = v[6]
    BY <1>2, <2>4, <2>5
  <2>7. \A i \in 1..6 : w[i] = v[i]
    BY <2>6
  <2>8. w = v
    BY <2>3, <2>7
  <2> QED BY <2>2, <2>5, <2>8
<1>7. ImportBin(b) = [time_low |-> u.time_low, time_mid |-> u.time_mid,
                      time_hi_and_version |-> u.time_hi_and_version,
                      clock_seq_hi_and_reserved |-> u.clock_seq_hi_and_reserved,
                      clock_seq_low |-> u.clock_seq_low, node |-> u.node]
  BY <1>2, <1>3, <1>4, <1>5, <1>6 DEF ImportBin
<1>8. ImportBin(b) = u
  BY <1>7 DEF Objs
<1> QED BY <1>8 DEF b

-----------------------------------------------------------------------------
\* Only the UUID of zeros is nil (uuid_isnil).
LEMMA NilIs ==
  /\ Nil \in Objs
  /\ \A u \in Objs : IsNil(u) <=> u = Nil
<1>1. 0 \in Byte
  BY ByteIs
<1>2. Nil \in Objs
  <2>1. <<0, 0>> \in Seq(Byte) /\ Len(<<0, 0>>) = 2
    BY <1>1
  <2>2. <<0, 0, 0, 0>> \in Seq(Byte) /\ Len(<<0, 0, 0, 0>>) = 4
    BY <1>1
  <2>3. <<0, 0, 0, 0, 0, 0>> \in Seq(Byte) /\ Len(<<0, 0, 0, 0, 0, 0>>) = 6
    BY <1>1
  <2>4. <<0, 0>> \in Words(2) /\ <<0, 0, 0, 0>> \in Words(4) /\ <<0, 0, 0, 0, 0, 0>> \in Words(6)
    BY <2>1, <2>2, <2>3, LenProperties DEF Words
  <2> QED BY <1>1, <2>4 DEF Nil, Objs
<1>3. ASSUME NEW u \in Objs, IsNil(u)
      PROVE  u = Nil
  <2> DEFINE b == ExportBin(u)
  <2>1. \A k \in 1..16 : b[k] = 0
    BY <1>3 DEF IsNil
  <2>2. /\ b[1] = u.time_low[4] /\ b[2] = u.time_low[3] /\ b[3] = u.time_low[2] /\ b[4] = u.time_low[1]
        /\ b[5] = u.time_mid[2] /\ b[6] = u.time_mid[1]
        /\ b[7] = u.time_hi_and_version[2] /\ b[8] = u.time_hi_and_version[1]
        /\ b[9] = u.clock_seq_hi_and_reserved /\ b[10] = u.clock_seq_low
        /\ b[11] = u.node[1] /\ b[12] = u.node[2] /\ b[13] = u.node[3]
        /\ b[14] = u.node[4] /\ b[15] = u.node[5] /\ b[16] = u.node[6]
    BY ExportBinIs
  <2> HIDE DEF b
  <2>3. u.time_low = <<0, 0, 0, 0>>
    <3>1. PICK w \in [1..4 -> Byte] : w = u.time_low
      BY DEF Objs, Words
    <3>2. w[1] = 0 /\ w[2] = 0 /\ w[3] = 0 /\ w[4] = 0
      BY <2>1, <2>2, <3>1
    <3>3. w = <<w[1], w[2], w[3], w[4]>>
      BY Four
    <3> QED BY <3>1, <3>2, <3>3
  <2>4. u.time_mid = <<0, 0>>
    <3>1. PICK w \in [1..2 -> Byte] : w = u.time_mid
      BY DEF Objs, Words
    <3>2. w[1] = 0 /\ w[2] = 0
      BY <2>1, <2>2, <3>1
    <3>3. w = <<w[1], w[2]>>
      BY Two
    <3> QED BY <3>1, <3>2, <3>3
  <2>5. u.time_hi_and_version = <<0, 0>>
    <3>1. PICK w \in [1..2 -> Byte] : w = u.time_hi_and_version
      BY DEF Objs, Words
    <3>2. w[1] = 0 /\ w[2] = 0
      BY <2>1, <2>2, <3>1
    <3>3. w = <<w[1], w[2]>>
      BY Two
    <3> QED BY <3>1, <3>2, <3>3
  <2>6. u.node = <<0, 0, 0, 0, 0, 0>>
    <3>1. PICK w \in [1..6 -> Byte] : w = u.node
      BY DEF Objs, Words
    <3>2. w[1] = 0 /\ w[2] = 0 /\ w[3] = 0 /\ w[4] = 0 /\ w[5] = 0 /\ w[6] = 0
      BY <2>1, <2>2, <3>1
    <3>3. w = <<w[1], w[2], w[3], w[4], w[5], w[6]>>
      BY Six
    <3> QED BY <3>1, <3>2, <3>3
  <2>7. u.clock_seq_hi_and_reserved = 0 /\ u.clock_seq_low = 0
    BY <2>1, <2>2
  <2> QED BY <2>3, <2>4, <2>5, <2>6, <2>7 DEF Nil, Objs
<1>4. IsNil(Nil)
  <2> DEFINE b == ExportBin(Nil)
  <2>1. /\ b[1] = Nil.time_low[4] /\ b[2] = Nil.time_low[3]
        /\ b[3] = Nil.time_low[2] /\ b[4] = Nil.time_low[1]
        /\ b[5] = Nil.time_mid[2] /\ b[6] = Nil.time_mid[1]
        /\ b[7] = Nil.time_hi_and_version[2] /\ b[8] = Nil.time_hi_and_version[1]
        /\ b[9] = Nil.clock_seq_hi_and_reserved /\ b[10] = Nil.clock_seq_low
        /\ b[11] = Nil.node[1] /\ b[12] = Nil.node[2] /\ b[13] = Nil.node[3]
        /\ b[14] = Nil.node[4] /\ b[15] = Nil.node[5] /\ b[16] = Nil.node[6]
    BY <1>2, ExportBinIs
  <2> HIDE DEF b
  <2>2. /\ b[1] = 0 /\ b[2] = 0 /\ b[3] = 0 /\ b[4] = 0 /\ b[5] = 0 /\ b[6] = 0
        /\ b[7] = 0 /\ b[8] = 0 /\ b[9] = 0 /\ b[10] = 0 /\ b[11] = 0 /\ b[12] = 0
        /\ b[13] = 0 /\ b[14] = 0 /\ b[15] = 0 /\ b[16] = 0
    BY <2>1 DEF Nil
  <2>3. \A k \in 1..16 : b[k] = 0
    BY <2>2
  <2> QED BY <2>3 DEF IsNil, b
<1> QED BY <1>2, <1>3, <1>4

\* The least of a set of numbers.
LEMMA Least ==
  ASSUME NEW T \in SUBSET Nat, T # {}
  PROVE  Min(T) \in T
<1> DEFINE R == OpToRel(<, Nat)
<1>1. IsWellFoundedOn(R, Nat)
  BY NatLessThanWellFounded DEF OpToRel
<1> HIDE DEF R
<1>2. PICK x \in T : \A y \in T : ~ (<<y, x>> \in R)
  BY <1>1, WFMin
<1>3. \A y \in T : x =< y
  <2> SUFFICES ASSUME NEW y \in T, ~ (x =< y) PROVE FALSE
    OBVIOUS
  <2>1. y < x
    OBVIOUS
  <2>2. <<y, x>> \in R
    BY <2>1 DEF R, OpToRel
  <2> QED BY <1>2, <2>2
<1> QED BY <1>3 DEF Min

\* The first byte that differs tells which is the greater; none does in equals
\* (uuid_compare).
LEMMA FirstIs ==
  ASSUME NEW a \in Bytes, NEW b \in Bytes
  PROVE  /\ First(a, b) = 0 <=> a = b
         /\ First(a, b) = -First(b, a)
<1> DEFINE differ == {k \in 1..16 : a[k] # b[k]}
<1>1. DOMAIN a = 1..16 /\ DOMAIN b = 1..16
  BY DEF Bytes
<1>2. differ = {k \in 1..16 : b[k] # a[k]}
  OBVIOUS
<1>3. First(a, b) = IF differ = {} THEN 0 ELSE Sign(a[Min(differ)] - b[Min(differ)])
  BY <1>1 DEF First
<1>4. First(b, a) = IF differ = {} THEN 0 ELSE Sign(b[Min(differ)] - a[Min(differ)])
  BY <1>1, <1>2 DEF First
<1>5. differ = {} <=> a = b
  <2>1. ASSUME differ = {} PROVE a = b
    <3>1. \A k \in 1..16 : a[k] = b[k]
      BY <2>1
    <3> QED BY <3>1 DEF Bytes
  <2> QED BY <2>1
<1>6. differ \in SUBSET Nat
  OBVIOUS
<1>7. differ # {} => Min(differ) \in differ
  BY <1>6, Least
<1>8. \A k \in differ : a[k] \in Int /\ b[k] \in Int /\ a[k] # b[k]
  BY ByteIs, SMTT(30) DEF Bytes
<1> HIDE DEF differ
<1>9. CASE differ = {}
  <2>1. First(a, b) = 0 /\ First(b, a) = 0
    BY <1>3, <1>4, <1>9
  <2>2. -First(b, a) = 0 - First(b, a)
    <3>1. First(b, a) \in Int
      BY <2>1
    <3> QED BY <3>1
  <2>3. First(a, b) = -First(b, a)
    <3>1. 0 - First(b, a) = 0
      BY <2>1
    <3> QED BY Zenon, <2>1, <2>2, <3>1
  <2> QED BY <1>5, <1>9, <2>1, <2>3
<1>10. CASE differ # {}
  <2>1. PICK x \in Int, y \in Int : x = a[Min(differ)] /\ y = b[Min(differ)] /\ x # y
    BY <1>7, <1>8, <1>10
  <2>2. First(a, b) = Sign(x - y) /\ First(b, a) = Sign(y - x)
    BY <1>3, <1>4, <1>10, <2>1
  <2>3. Sign(x - y) # 0 /\ Sign(x - y) = -Sign(y - x)
    BY <2>1 DEF Sign
  <2> QED BY <1>5, <1>10, <2>2, <2>3
<1> QED BY <1>9, <1>10

LEMMA CompareIs ==
  ASSUME NEW u \in Objs, NEW v \in Objs
  PROVE  /\ Compare(u, v) = 0 <=> u = v
         /\ Compare(u, v) = -Compare(v, u)
<1>1. ExportBin(u) \in Bytes /\ ExportBin(v) \in Bytes
  BY ExportBinIs
<1>2. Compare(u, v) = First(ExportBin(u), ExportBin(v))
      /\ Compare(v, u) = First(ExportBin(v), ExportBin(u))
  BY DEF Compare, ExportBin
<1>3. ExportBin(u) = ExportBin(v) => u = v
  BY BytesComeBack
<1> QED BY <1>1, <1>2, <1>3, FirstIs

-----------------------------------------------------------------------------
\* The hexadecimal digits of a byte, and what a written UUID consists of.
Letters == Dash..15

LEMMA HalvesIs ==
  ASSUME NEW x \in Byte
  PROVE  x \div 16 \in 0..15 /\ x % 16 \in 0..15 /\ (16 * (x \div 16)) + (x % 16) = x
<1>1. x \in 0..255
  BY ByteIs
<1> QED BY <1>1

\* The thirty-two digits of sixteen bytes (the formats of uuid_export_str).
HexOf(b) == [k \in 1..32 |-> IF k % 2 = 1 THEN b[(k + 1) \div 2] \div 16
                             ELSE b[(k + 1) \div 2] % 16]

LEMMA HexIs ==
  ASSUME NEW b \in Bytes
  PROVE  /\ HexOf(b) \in [1..32 -> 0..15]
         /\ \A n \in 1..16 : (16 * HexOf(b)[(2 * n) - 1]) + HexOf(b)[2 * n] = b[n]
<1>1. \A n \in 1..16 : b[n] \in Byte
  BY DEF Bytes
<1>2. ASSUME NEW k \in 1..32
      PROVE  HexOf(b)[k] \in 0..15
  <2>1. (k + 1) \div 2 \in 1..16
    OBVIOUS
  <2>2. b[(k + 1) \div 2] \div 16 \in 0..15 /\ b[(k + 1) \div 2] % 16 \in 0..15
    BY <1>1, <2>1, HalvesIs
  <2> QED BY <2>2 DEF HexOf
<1>3. ASSUME NEW n \in 1..16
      PROVE  (16 * HexOf(b)[(2 * n) - 1]) + HexOf(b)[2 * n] = b[n]
  <2>1. /\ (2 * n) - 1 \in 1..32 /\ ((2 * n) - 1) % 2 = 1 /\ (((2 * n) - 1) + 1) \div 2 = n
        /\ 2 * n \in 1..32 /\ (2 * n) % 2 = 0 /\ ((2 * n) + 1) \div 2 = n
    OBVIOUS
  <2>2. HexOf(b)[(2 * n) - 1] = b[n] \div 16 /\ HexOf(b)[2 * n] = b[n] % 16
    BY <2>1 DEF HexOf
  <2> QED BY <2>2, <1>1, HalvesIs
<1>4. HexOf(b) \in [1..32 -> 0..15]
  <2>1. DOMAIN HexOf(b) = 1..32 /\ HexOf(b) = [k \in 1..32 |-> HexOf(b)[k]]
    BY DEF HexOf
  <2> QED BY <1>2, <2>1
<1> QED BY <1>3, <1>4

LEMMA HexPart ==
  ASSUME NEW h \in [1..32 -> 0..15], NEW m \in 1..32, NEW n \in 1..32, m <= n
  PROVE  /\ SubSeq(h, m, n) \in Seq(Letters) /\ Len(SubSeq(h, m, n)) = n - m + 1
         /\ \A i \in 1..n - m + 1 : SubSeq(h, m, n)[i] = h[m + i - 1]
<1>1. \A i \in m..n : h[i] \in Letters
  BY DEF Letters, Dash
<1>2. SubSeq(h, m, n) \in Seq(Letters)
      /\ Len(SubSeq(h, m, n)) = (IF m <= n THEN n - m + 1 ELSE 0)
      /\ \A i \in 1..n - m + 1 : SubSeq(h, m, n)[i] = h[m + i - 1]
  BY <1>1, SubSeqProperties
<1> QED BY <1>2

LEMMA DashIs ==
  <<Dash>> \in Seq(Letters) /\ Len(<<Dash>>) = 1 /\ <<Dash>>[1] = Dash
<1>1. Dash \in Letters
  BY DEF Letters, Dash
<1> QED BY <1>1

\* The characters of a written UUID, one by one (uuid_export_str).
LEMMA ExportStrIs ==
  ASSUME NEW u \in Objs
  PROVE  LET s == ExportStr(u)
             h == HexOf(ExportBin(u))
         IN  /\ s \in Seq(Letters) /\ Len(s) = 36
             /\ s[1] = h[1] /\ s[2] = h[2] /\ s[3] = h[3] /\ s[4] = h[4] /\ s[5] = h[5] /\ s[6] = h[6]
             /\ s[7] = h[7] /\ s[8] = h[8] /\ s[9] = Dash /\ s[10] = h[9] /\ s[11] = h[10] /\ s[12] = h[11]
             /\ s[13] = h[12] /\ s[14] = Dash /\ s[15] = h[13] /\ s[16] = h[14] /\ s[17] = h[15] /\ s[18] = h[16]
             /\ s[19] = Dash /\ s[20] = h[17] /\ s[21] = h[18] /\ s[22] = h[19] /\ s[23] = h[20] /\ s[24] = Dash
             /\ s[25] = h[21] /\ s[26] = h[22] /\ s[27] = h[23] /\ s[28] = h[24] /\ s[29] = h[25] /\ s[30] = h[26]
             /\ s[31] = h[27] /\ s[32] = h[28] /\ s[33] = h[29] /\ s[34] = h[30] /\ s[35] = h[31] /\ s[36] = h[32]
<1> DEFINE h == HexOf(ExportBin(u))
<1>1. h \in [1..32 -> 0..15]
  BY ExportBinIs, HexIs
<1> DEFINE c1 == SubSeq(h, 1, 8)
           s == ExportStr(u)
<1>2. s = c1 \o <<Dash>> \o SubSeq(h, 9, 12) \o <<Dash>> \o SubSeq(h, 13, 16) \o <<Dash>>
            \o SubSeq(h, 17, 20) \o <<Dash>> \o SubSeq(h, 21, 32)
  BY DEF ExportStr, HexOf
<1> HIDE DEF h, s
<1>3. /\ c1 \in Seq(Letters) /\ Len(c1) = 8
      /\ c1[1] = h[1] /\ c1[2] = h[2] /\ c1[3] = h[3] /\ c1[4] = h[4] /\ c1[5] = h[5] /\ c1[6] = h[6]
      /\ c1[7] = h[7] /\ c1[8] = h[8]
  <2>12. 1 \in 1..32 /\ 8 \in 1..32 /\ 1 <= 8
    OBVIOUS
  <2>1. c1 \in Seq(Letters) /\ Len(c1) = 8 - 1 + 1 /\ \A i \in 1..8 - 1 + 1 : c1[i] = h[1 + i - 1]
    BY <1>1, <2>12, HexPart
  <2> HIDE DEF c1
  <2>2. \A i \in 1..8 : c1[i] = h[i]
    BY <2>1
  <2> QED BY <2>1, <2>2
<1> HIDE DEF c1
<1> DEFINE q1 == <<Dash>>
           c2 == c1 \o q1
<1>4. /\ c2 \in Seq(Letters) /\ Len(c2) = 9
      /\ c2[1] = h[1] /\ c2[2] = h[2] /\ c2[3] = h[3] /\ c2[4] = h[4] /\ c2[5] = h[5] /\ c2[6] = h[6]
      /\ c2[7] = h[7] /\ c2[8] = h[8] /\ c2[9] = Dash
  <2>1. q1 \in Seq(Letters) /\ Len(q1) = 1 /\ q1[1] = Dash
    BY DashIs
  <2> HIDE DEF q1
  <2>2. c1 \in Seq(Letters) /\ Len(c1) = 8 /\ Len(q1) = 1
    BY <1>3, <2>1
  <2>11. c1 \in Seq(Letters) /\ q1 \in Seq(Letters)
    BY <2>1, <2>2
  <2>3. /\ c2 \in Seq(Letters) /\ Len(c2) = Len(c1) + Len(q1)
        /\ \A i \in 1..Len(c1) : c2[i] = c1[i]
        /\ \A i \in 1..Len(q1) : c2[Len(c1) + i] = q1[i]
    BY <2>11, Joined
  <2> HIDE DEF c2
  <2>4. c2 \in Seq(Letters) /\ Len(c2) = 9 /\ \A i \in 1..8 : c2[i] = c1[i]
    BY <2>2, <2>3
  <2>5. \A i \in 1..1 : c2[8 + i] = q1[i]
    BY <2>2, <2>3
  <2>6. c2[8 + 1] = q1[1]
    BY <2>5
  <2>10. c2[1] = c1[1] /\ c2[2] = c1[2] /\ c2[3] = c1[3] /\ c2[4] = c1[4] /\ c2[5] = c1[5] /\ c2[6] = c1[6] /\ c2[7] = c1[7] /\ c2[8] = c1[8]
    BY <2>4
  <2> QED BY <1>3, <2>1, <2>4, <2>6, <2>10
<1> HIDE DEF c2
<1> DEFINE q2 == SubSeq(h, 9, 12)
           c3 == c2 \o q2
<1>5. /\ c3 \in Seq(Letters) /\ Len(c3) = 13
      /\ c3[1] = h[1] /\ c3[2] = h[2] /\ c3[3] = h[3] /\ c3[4] = h[4] /\ c3[5] = h[5] /\ c3[6] = h[6]
      /\ c3[7] = h[7] /\ c3[8] = h[8] /\ c3[9] = Dash /\ c3[10] = h[9] /\ c3[11] = h[10] /\ c3[12] = h[11]
      /\ c3[13] = h[12]
  <2>12. 9 \in 1..32 /\ 12 \in 1..32 /\ 9 <= 12 /\ 12 - 9 + 1 = 4
    OBVIOUS
  <2>9. /\ q2 \in Seq(Letters) /\ Len(q2) = 12 - 9 + 1
        /\ \A i \in 1..12 - 9 + 1 : q2[i] = h[9 + i - 1]
    BY <1>1, <2>12, HexPart
  <2> HIDE DEF q2
  <2>8. \A i \in 1..4 : q2[i] = h[8 + i]
    BY <2>9, <2>12
  <2>7. q2[1] = h[8 + 1] /\ q2[2] = h[8 + 2] /\ q2[3] = h[8 + 3] /\ q2[4] = h[8 + 4]
    BY <2>8
  <2>1. /\ q2 \in Seq(Letters) /\ Len(q2) = 4
        /\ q2[1] = h[9] /\ q2[2] = h[10] /\ q2[3] = h[11] /\ q2[4] = h[12]
    BY <2>7, <2>9
  <2> HIDE DEF q2
  <2>2. c2 \in Seq(Letters) /\ Len(c2) = 9 /\ Len(q2) = 4
    BY <1>4, <2>1
  <2>11. c2 \in Seq(Letters) /\ q2 \in Seq(Letters)
    BY <2>1, <2>2
  <2>3. /\ c3 \in Seq(Letters) /\ Len(c3) = Len(c2) + Len(q2)
        /\ \A i \in 1..Len(c2) : c3[i] = c2[i]
        /\ \A i \in 1..Len(q2) : c3[Len(c2) + i] = q2[i]
    BY <2>11, Joined
  <2> HIDE DEF c3
  <2>4. c3 \in Seq(Letters) /\ Len(c3) = 13 /\ \A i \in 1..9 : c3[i] = c2[i]
    BY <2>2, <2>3
  <2>5. \A i \in 1..4 : c3[9 + i] = q2[i]
    BY <2>2, <2>3
  <2>6. c3[9 + 1] = q2[1] /\ c3[9 + 2] = q2[2] /\ c3[9 + 3] = q2[3] /\ c3[9 + 4] = q2[4]
    BY <2>5
  <2>10. c3[1] = c2[1] /\ c3[2] = c2[2] /\ c3[3] = c2[3] /\ c3[4] = c2[4] /\ c3[5] = c2[5] /\ c3[6] = c2[6] /\ c3[7] = c2[7] /\ c3[8] = c2[8] /\ c3[9] = c2[9]
    BY <2>4
  <2> QED BY <1>4, <2>1, <2>4, <2>6, <2>10
<1> HIDE DEF c3
<1> DEFINE q3 == <<Dash>>
           c4 == c3 \o q3
<1>6. /\ c4 \in Seq(Letters) /\ Len(c4) = 14
      /\ c4[1] = h[1] /\ c4[2] = h[2] /\ c4[3] = h[3] /\ c4[4] = h[4] /\ c4[5] = h[5] /\ c4[6] = h[6]
      /\ c4[7] = h[7] /\ c4[8] = h[8] /\ c4[9] = Dash /\ c4[10] = h[9] /\ c4[11] = h[10] /\ c4[12] = h[11]
      /\ c4[13] = h[12] /\ c4[14] = Dash
  <2>1. q3 \in Seq(Letters) /\ Len(q3) = 1 /\ q3[1] = Dash
    BY DashIs
  <2> HIDE DEF q3
  <2>2. c3 \in Seq(Letters) /\ Len(c3) = 13 /\ Len(q3) = 1
    BY <1>5, <2>1
  <2>11. c3 \in Seq(Letters) /\ q3 \in Seq(Letters)
    BY <2>1, <2>2
  <2>3. /\ c4 \in Seq(Letters) /\ Len(c4) = Len(c3) + Len(q3)
        /\ \A i \in 1..Len(c3) : c4[i] = c3[i]
        /\ \A i \in 1..Len(q3) : c4[Len(c3) + i] = q3[i]
    BY <2>11, Joined
  <2> HIDE DEF c4
  <2>4. c4 \in Seq(Letters) /\ Len(c4) = 14 /\ \A i \in 1..13 : c4[i] = c3[i]
    BY <2>2, <2>3
  <2>5. \A i \in 1..1 : c4[13 + i] = q3[i]
    BY <2>2, <2>3
  <2>6. c4[13 + 1] = q3[1]
    BY <2>5
  <2>10. c4[1] = c3[1] /\ c4[2] = c3[2] /\ c4[3] = c3[3] /\ c4[4] = c3[4] /\ c4[5] = c3[5] /\ c4[6] = c3[6] /\ c4[7] = c3[7] /\ c4[8] = c3[8] /\ c4[9] = c3[9] /\ c4[10] = c3[10] /\ c4[11] = c3[11] /\ c4[12] = c3[12] /\ c4[13] = c3[13]
    BY <2>4
  <2> QED BY <1>5, <2>1, <2>4, <2>6, <2>10
<1> HIDE DEF c4
<1> DEFINE q4 == SubSeq(h, 13, 16)
           c5 == c4 \o q4
<1>7. /\ c5 \in Seq(Letters) /\ Len(c5) = 18
      /\ c5[1] = h[1] /\ c5[2] = h[2] /\ c5[3] = h[3] /\ c5[4] = h[4] /\ c5[5] = h[5] /\ c5[6] = h[6]
      /\ c5[7] = h[7] /\ c5[8] = h[8] /\ c5[9] = Dash /\ c5[10] = h[9] /\ c5[11] = h[10] /\ c5[12] = h[11]
      /\ c5[13] = h[12] /\ c5[14] = Dash /\ c5[15] = h[13] /\ c5[16] = h[14] /\ c5[17] = h[15] /\ c5[18] = h[16]
  <2>12. 13 \in 1..32 /\ 16 \in 1..32 /\ 13 <= 16 /\ 16 - 13 + 1 = 4
    OBVIOUS
  <2>9. /\ q4 \in Seq(Letters) /\ Len(q4) = 16 - 13 + 1
        /\ \A i \in 1..16 - 13 + 1 : q4[i] = h[13 + i - 1]
    BY <1>1, <2>12, HexPart
  <2> HIDE DEF q4
  <2>8. \A i \in 1..4 : q4[i] = h[12 + i]
    BY <2>9, <2>12
  <2>7. q4[1] = h[12 + 1] /\ q4[2] = h[12 + 2] /\ q4[3] = h[12 + 3] /\ q4[4] = h[12 + 4]
    BY <2>8
  <2>1. /\ q4 \in Seq(Letters) /\ Len(q4) = 4
        /\ q4[1] = h[13] /\ q4[2] = h[14] /\ q4[3] = h[15] /\ q4[4] = h[16]
    BY <2>7, <2>9
  <2> HIDE DEF q4
  <2>2. c4 \in Seq(Letters) /\ Len(c4) = 14 /\ Len(q4) = 4
    BY <1>6, <2>1
  <2>11. c4 \in Seq(Letters) /\ q4 \in Seq(Letters)
    BY <2>1, <2>2
  <2>3. /\ c5 \in Seq(Letters) /\ Len(c5) = Len(c4) + Len(q4)
        /\ \A i \in 1..Len(c4) : c5[i] = c4[i]
        /\ \A i \in 1..Len(q4) : c5[Len(c4) + i] = q4[i]
    BY <2>11, Joined
  <2> HIDE DEF c5
  <2>4. c5 \in Seq(Letters) /\ Len(c5) = 18 /\ \A i \in 1..14 : c5[i] = c4[i]
    BY <2>2, <2>3
  <2>5. \A i \in 1..4 : c5[14 + i] = q4[i]
    BY <2>2, <2>3
  <2>6. c5[14 + 1] = q4[1] /\ c5[14 + 2] = q4[2] /\ c5[14 + 3] = q4[3] /\ c5[14 + 4] = q4[4]
    BY <2>5
  <2>10. c5[1] = c4[1] /\ c5[2] = c4[2] /\ c5[3] = c4[3] /\ c5[4] = c4[4] /\ c5[5] = c4[5] /\ c5[6] = c4[6] /\ c5[7] = c4[7] /\ c5[8] = c4[8] /\ c5[9] = c4[9] /\ c5[10] = c4[10] /\ c5[11] = c4[11] /\ c5[12] = c4[12] /\ c5[13] = c4[13] /\ c5[14] = c4[14]
    BY <2>4
  <2> QED BY <1>6, <2>1, <2>4, <2>6, <2>10
<1> HIDE DEF c5
<1> DEFINE q5 == <<Dash>>
           c6 == c5 \o q5
<1>8. /\ c6 \in Seq(Letters) /\ Len(c6) = 19
      /\ c6[1] = h[1] /\ c6[2] = h[2] /\ c6[3] = h[3] /\ c6[4] = h[4] /\ c6[5] = h[5] /\ c6[6] = h[6]
      /\ c6[7] = h[7] /\ c6[8] = h[8] /\ c6[9] = Dash /\ c6[10] = h[9] /\ c6[11] = h[10] /\ c6[12] = h[11]
      /\ c6[13] = h[12] /\ c6[14] = Dash /\ c6[15] = h[13] /\ c6[16] = h[14] /\ c6[17] = h[15] /\ c6[18] = h[16]
      /\ c6[19] = Dash
  <2>1. q5 \in Seq(Letters) /\ Len(q5) = 1 /\ q5[1] = Dash
    BY DashIs
  <2> HIDE DEF q5
  <2>2. c5 \in Seq(Letters) /\ Len(c5) = 18 /\ Len(q5) = 1
    BY <1>7, <2>1
  <2>11. c5 \in Seq(Letters) /\ q5 \in Seq(Letters)
    BY <2>1, <2>2
  <2>3. /\ c6 \in Seq(Letters) /\ Len(c6) = Len(c5) + Len(q5)
        /\ \A i \in 1..Len(c5) : c6[i] = c5[i]
        /\ \A i \in 1..Len(q5) : c6[Len(c5) + i] = q5[i]
    BY <2>11, Joined
  <2> HIDE DEF c6
  <2>4. c6 \in Seq(Letters) /\ Len(c6) = 19 /\ \A i \in 1..18 : c6[i] = c5[i]
    BY <2>2, <2>3
  <2>5. \A i \in 1..1 : c6[18 + i] = q5[i]
    BY <2>2, <2>3
  <2>6. c6[18 + 1] = q5[1]
    BY <2>5
  <2>10. c6[1] = c5[1] /\ c6[2] = c5[2] /\ c6[3] = c5[3] /\ c6[4] = c5[4] /\ c6[5] = c5[5] /\ c6[6] = c5[6] /\ c6[7] = c5[7] /\ c6[8] = c5[8] /\ c6[9] = c5[9] /\ c6[10] = c5[10] /\ c6[11] = c5[11] /\ c6[12] = c5[12] /\ c6[13] = c5[13] /\ c6[14] = c5[14] /\ c6[15] = c5[15] /\ c6[16] = c5[16] /\ c6[17] = c5[17] /\ c6[18] = c5[18]
    BY <2>4
  <2> QED BY <1>7, <2>1, <2>4, <2>6, <2>10
<1> HIDE DEF c6
<1> DEFINE q6 == SubSeq(h, 17, 20)
           c7 == c6 \o q6
<1>9. /\ c7 \in Seq(Letters) /\ Len(c7) = 23
      /\ c7[1] = h[1] /\ c7[2] = h[2] /\ c7[3] = h[3] /\ c7[4] = h[4] /\ c7[5] = h[5] /\ c7[6] = h[6]
      /\ c7[7] = h[7] /\ c7[8] = h[8] /\ c7[9] = Dash /\ c7[10] = h[9] /\ c7[11] = h[10] /\ c7[12] = h[11]
      /\ c7[13] = h[12] /\ c7[14] = Dash /\ c7[15] = h[13] /\ c7[16] = h[14] /\ c7[17] = h[15] /\ c7[18] = h[16]
      /\ c7[19] = Dash /\ c7[20] = h[17] /\ c7[21] = h[18] /\ c7[22] = h[19] /\ c7[23] = h[20]
  <2>12. 17 \in 1..32 /\ 20 \in 1..32 /\ 17 <= 20 /\ 20 - 17 + 1 = 4
    OBVIOUS
  <2>9. /\ q6 \in Seq(Letters) /\ Len(q6) = 20 - 17 + 1
        /\ \A i \in 1..20 - 17 + 1 : q6[i] = h[17 + i - 1]
    BY <1>1, <2>12, HexPart
  <2> HIDE DEF q6
  <2>8. \A i \in 1..4 : q6[i] = h[16 + i]
    BY <2>9, <2>12
  <2>7. q6[1] = h[16 + 1] /\ q6[2] = h[16 + 2] /\ q6[3] = h[16 + 3] /\ q6[4] = h[16 + 4]
    BY <2>8
  <2>1. /\ q6 \in Seq(Letters) /\ Len(q6) = 4
        /\ q6[1] = h[17] /\ q6[2] = h[18] /\ q6[3] = h[19] /\ q6[4] = h[20]
    BY <2>7, <2>9
  <2> HIDE DEF q6
  <2>2. c6 \in Seq(Letters) /\ Len(c6) = 19 /\ Len(q6) = 4
    BY <1>8, <2>1
  <2>11. c6 \in Seq(Letters) /\ q6 \in Seq(Letters)
    BY <2>1, <2>2
  <2>3. /\ c7 \in Seq(Letters) /\ Len(c7) = Len(c6) + Len(q6)
        /\ \A i \in 1..Len(c6) : c7[i] = c6[i]
        /\ \A i \in 1..Len(q6) : c7[Len(c6) + i] = q6[i]
    BY <2>11, Joined
  <2> HIDE DEF c7
  <2>4. c7 \in Seq(Letters) /\ Len(c7) = 23 /\ \A i \in 1..19 : c7[i] = c6[i]
    BY <2>2, <2>3
  <2>5. \A i \in 1..4 : c7[19 + i] = q6[i]
    BY <2>2, <2>3
  <2>6. c7[19 + 1] = q6[1] /\ c7[19 + 2] = q6[2] /\ c7[19 + 3] = q6[3] /\ c7[19 + 4] = q6[4]
    BY <2>5
  <2>10. c7[1] = c6[1] /\ c7[2] = c6[2] /\ c7[3] = c6[3] /\ c7[4] = c6[4] /\ c7[5] = c6[5] /\ c7[6] = c6[6] /\ c7[7] = c6[7] /\ c7[8] = c6[8] /\ c7[9] = c6[9] /\ c7[10] = c6[10] /\ c7[11] = c6[11] /\ c7[12] = c6[12] /\ c7[13] = c6[13] /\ c7[14] = c6[14] /\ c7[15] = c6[15] /\ c7[16] = c6[16] /\ c7[17] = c6[17] /\ c7[18] = c6[18] /\ c7[19] = c6[19]
    BY <2>4
  <2> QED BY <1>8, <2>1, <2>4, <2>6, <2>10
<1> HIDE DEF c7
<1> DEFINE q7 == <<Dash>>
           c8 == c7 \o q7
<1>10. /\ c8 \in Seq(Letters) /\ Len(c8) = 24
      /\ c8[1] = h[1] /\ c8[2] = h[2] /\ c8[3] = h[3] /\ c8[4] = h[4] /\ c8[5] = h[5] /\ c8[6] = h[6]
      /\ c8[7] = h[7] /\ c8[8] = h[8] /\ c8[9] = Dash /\ c8[10] = h[9] /\ c8[11] = h[10] /\ c8[12] = h[11]
      /\ c8[13] = h[12] /\ c8[14] = Dash /\ c8[15] = h[13] /\ c8[16] = h[14] /\ c8[17] = h[15] /\ c8[18] = h[16]
      /\ c8[19] = Dash /\ c8[20] = h[17] /\ c8[21] = h[18] /\ c8[22] = h[19] /\ c8[23] = h[20] /\ c8[24] = Dash
  <2>1. q7 \in Seq(Letters) /\ Len(q7) = 1 /\ q7[1] = Dash
    BY DashIs
  <2> HIDE DEF q7
  <2>2. c7 \in Seq(Letters) /\ Len(c7) = 23 /\ Len(q7) = 1
    BY <1>9, <2>1
  <2>11. c7 \in Seq(Letters) /\ q7 \in Seq(Letters)
    BY <2>1, <2>2
  <2>3. /\ c8 \in Seq(Letters) /\ Len(c8) = Len(c7) + Len(q7)
        /\ \A i \in 1..Len(c7) : c8[i] = c7[i]
        /\ \A i \in 1..Len(q7) : c8[Len(c7) + i] = q7[i]
    BY <2>11, Joined
  <2> HIDE DEF c8
  <2>4. c8 \in Seq(Letters) /\ Len(c8) = 24 /\ \A i \in 1..23 : c8[i] = c7[i]
    BY <2>2, <2>3
  <2>5. \A i \in 1..1 : c8[23 + i] = q7[i]
    BY <2>2, <2>3
  <2>6. c8[23 + 1] = q7[1]
    BY <2>5
  <2>10. c8[1] = c7[1] /\ c8[2] = c7[2] /\ c8[3] = c7[3] /\ c8[4] = c7[4] /\ c8[5] = c7[5] /\ c8[6] = c7[6] /\ c8[7] = c7[7] /\ c8[8] = c7[8] /\ c8[9] = c7[9] /\ c8[10] = c7[10] /\ c8[11] = c7[11] /\ c8[12] = c7[12] /\ c8[13] = c7[13] /\ c8[14] = c7[14] /\ c8[15] = c7[15] /\ c8[16] = c7[16] /\ c8[17] = c7[17] /\ c8[18] = c7[18] /\ c8[19] = c7[19] /\ c8[20] = c7[20] /\ c8[21] = c7[21] /\ c8[22] = c7[22] /\ c8[23] = c7[23]
    BY <2>4
  <2> QED BY <1>9, <2>1, <2>4, <2>6, <2>10
<1> HIDE DEF c8
<1> DEFINE q8 == SubSeq(h, 21, 32)
           c9 == c8 \o q8
<1>11. /\ c9 \in Seq(Letters) /\ Len(c9) = 36
      /\ c9[1] = h[1] /\ c9[2] = h[2] /\ c9[3] = h[3] /\ c9[4] = h[4] /\ c9[5] = h[5] /\ c9[6] = h[6]
      /\ c9[7] = h[7] /\ c9[8] = h[8] /\ c9[9] = Dash /\ c9[10] = h[9] /\ c9[11] = h[10] /\ c9[12] = h[11]
      /\ c9[13] = h[12] /\ c9[14] = Dash /\ c9[15] = h[13] /\ c9[16] = h[14] /\ c9[17] = h[15] /\ c9[18] = h[16]
      /\ c9[19] = Dash /\ c9[20] = h[17] /\ c9[21] = h[18] /\ c9[22] = h[19] /\ c9[23] = h[20] /\ c9[24] = Dash
      /\ c9[25] = h[21] /\ c9[26] = h[22] /\ c9[27] = h[23] /\ c9[28] = h[24] /\ c9[29] = h[25] /\ c9[30] = h[26]
      /\ c9[31] = h[27] /\ c9[32] = h[28] /\ c9[33] = h[29] /\ c9[34] = h[30] /\ c9[35] = h[31] /\ c9[36] = h[32]
  <2>12. 21 \in 1..32 /\ 32 \in 1..32 /\ 21 <= 32 /\ 32 - 21 + 1 = 12
    OBVIOUS
  <2>9. /\ q8 \in Seq(Letters) /\ Len(q8) = 32 - 21 + 1
        /\ \A i \in 1..32 - 21 + 1 : q8[i] = h[21 + i - 1]
    BY <1>1, <2>12, HexPart
  <2> HIDE DEF q8
  <2>8. \A i \in 1..12 : q8[i] = h[20 + i]
    BY <2>9, <2>12
  <2>7. q8[1] = h[20 + 1] /\ q8[2] = h[20 + 2] /\ q8[3] = h[20 + 3] /\ q8[4] = h[20 + 4] /\ q8[5] = h[20 + 5] /\ q8[6] = h[20 + 6] /\ q8[7] = h[20 + 7] /\ q8[8] = h[20 + 8] /\ q8[9] = h[20 + 9] /\ q8[10] = h[20 + 10] /\ q8[11] = h[20 + 11] /\ q8[12] = h[20 + 12]
    BY <2>8
  <2>1. /\ q8 \in Seq(Letters) /\ Len(q8) = 12
        /\ q8[1] = h[21] /\ q8[2] = h[22] /\ q8[3] = h[23] /\ q8[4] = h[24] /\ q8[5] = h[25] /\ q8[6] = h[26]
        /\ q8[7] = h[27] /\ q8[8] = h[28] /\ q8[9] = h[29] /\ q8[10] = h[30] /\ q8[11] = h[31] /\ q8[12] = h[32]
    BY <2>7, <2>9
  <2> HIDE DEF q8
  <2>2. c8 \in Seq(Letters) /\ Len(c8) = 24 /\ Len(q8) = 12
    BY <1>10, <2>1
  <2>11. c8 \in Seq(Letters) /\ q8 \in Seq(Letters)
    BY <2>1, <2>2
  <2>3. /\ c9 \in Seq(Letters) /\ Len(c9) = Len(c8) + Len(q8)
        /\ \A i \in 1..Len(c8) : c9[i] = c8[i]
        /\ \A i \in 1..Len(q8) : c9[Len(c8) + i] = q8[i]
    BY <2>11, Joined
  <2> HIDE DEF c9
  <2>4. c9 \in Seq(Letters) /\ Len(c9) = 36 /\ \A i \in 1..24 : c9[i] = c8[i]
    BY <2>2, <2>3
  <2>5. \A i \in 1..12 : c9[24 + i] = q8[i]
    BY <2>2, <2>3
  <2>6. c9[24 + 1] = q8[1] /\ c9[24 + 2] = q8[2] /\ c9[24 + 3] = q8[3] /\ c9[24 + 4] = q8[4] /\ c9[24 + 5] = q8[5] /\ c9[24 + 6] = q8[6] /\ c9[24 + 7] = q8[7] /\ c9[24 + 8] = q8[8] /\ c9[24 + 9] = q8[9] /\ c9[24 + 10] = q8[10] /\ c9[24 + 11] = q8[11] /\ c9[24 + 12] = q8[12]
    BY <2>5
  <2>10. c9[1] = c8[1] /\ c9[2] = c8[2] /\ c9[3] = c8[3] /\ c9[4] = c8[4] /\ c9[5] = c8[5] /\ c9[6] = c8[6] /\ c9[7] = c8[7] /\ c9[8] = c8[8] /\ c9[9] = c8[9] /\ c9[10] = c8[10] /\ c9[11] = c8[11] /\ c9[12] = c8[12] /\ c9[13] = c8[13] /\ c9[14] = c8[14] /\ c9[15] = c8[15] /\ c9[16] = c8[16] /\ c9[17] = c8[17] /\ c9[18] = c8[18] /\ c9[19] = c8[19] /\ c9[20] = c8[20] /\ c9[21] = c8[21] /\ c9[22] = c8[22] /\ c9[23] = c8[23] /\ c9[24] = c8[24]
    BY <2>4
  <2> QED BY <1>10, <2>1, <2>4, <2>6, <2>10
<1> HIDE DEF c9
<1>12. s = c9
  BY <1>2 DEF c9, c8, c7, c6, c5, c4, c3, c2, q1, q2, q3, q4, q5, q6, q7, q8
<1> QED BY <1>11, <1>12 DEF s, h

\* A UUID is read back from what is written of it (uuid_isstr, uuid_import_str).
LEMMA StringComesBack ==
  ASSUME NEW u \in Objs
  PROVE  IsStr(ExportStr(u)) /\ ImportStr(ExportStr(u)) = u
<1> DEFINE s == ExportStr(u)
           b == ExportBin(u)
           h == HexOf(b)
<1>1. b \in Bytes
  BY ExportBinIs
<1>2. /\ b[1] = u.time_low[4] /\ b[2] = u.time_low[3] /\ b[3] = u.time_low[2]
      /\ b[4] = u.time_low[1] /\ b[5] = u.time_mid[2] /\ b[6] = u.time_mid[1]
      /\ b[7] = u.time_hi_and_version[2] /\ b[8] = u.time_hi_and_version[1] /\ b[9] = u.clock_seq_hi_and_reserved
      /\ b[10] = u.clock_seq_low /\ b[11] = u.node[1] /\ b[12] = u.node[2]
      /\ b[13] = u.node[3] /\ b[14] = u.node[4] /\ b[15] = u.node[5]
      /\ b[16] = u.node[6]
  BY ExportBinIs
<1>3. Len(s) = 36 /\ s \in Seq(Letters)
  BY ExportStrIs
<1>4. /\ s[1] = h[1] /\ s[2] = h[2] /\ s[3] = h[3] /\ s[4] = h[4] /\ s[5] = h[5] /\ s[6] = h[6]
      /\ s[7] = h[7] /\ s[8] = h[8] /\ s[9] = Dash /\ s[10] = h[9] /\ s[11] = h[10] /\ s[12] = h[11]
      /\ s[13] = h[12] /\ s[14] = Dash /\ s[15] = h[13] /\ s[16] = h[14] /\ s[17] = h[15] /\ s[18] = h[16]
      /\ s[19] = Dash /\ s[20] = h[17] /\ s[21] = h[18] /\ s[22] = h[19] /\ s[23] = h[20] /\ s[24] = Dash
      /\ s[25] = h[21] /\ s[26] = h[22] /\ s[27] = h[23] /\ s[28] = h[24] /\ s[29] = h[25] /\ s[30] = h[26]
      /\ s[31] = h[27] /\ s[32] = h[28] /\ s[33] = h[29] /\ s[34] = h[30] /\ s[35] = h[31] /\ s[36] = h[32]
  BY ExportStrIs
<1> HIDE DEF b, s
<1>5. /\ h \in [1..32 -> 0..15]
      /\ \A n \in 1..16 : (16 * h[(2 * n) - 1]) + h[2 * n] = b[n]
  BY <1>1, HexIs
<1> HIDE DEF h
<1>6. IsStr(s)
  <2>1. \A i \in 1..32 : h[i] # Dash
    BY <1>5 DEF Dash
  <2>2. /\ s[9] = Dash /\ s[14] = Dash /\ s[19] = Dash /\ s[24] = Dash
    BY <1>4
  <2>3. /\ s[1] # Dash /\ s[2] # Dash /\ s[3] # Dash /\ s[4] # Dash /\ s[5] # Dash /\ s[6] # Dash
        /\ s[7] # Dash /\ s[8] # Dash /\ s[10] # Dash /\ s[11] # Dash /\ s[12] # Dash /\ s[13] # Dash
        /\ s[15] # Dash /\ s[16] # Dash /\ s[17] # Dash /\ s[18] # Dash /\ s[20] # Dash /\ s[21] # Dash
        /\ s[22] # Dash /\ s[23] # Dash /\ s[25] # Dash /\ s[26] # Dash /\ s[27] # Dash /\ s[28] # Dash
        /\ s[29] # Dash /\ s[30] # Dash /\ s[31] # Dash /\ s[32] # Dash /\ s[33] # Dash /\ s[34] # Dash
        /\ s[35] # Dash /\ s[36] # Dash
    BY <1>4, <2>1
  <2>4. \A j \in 1..36 : (s[j] = Dash) <=> j \in {9, 14, 19, 24}
    BY <2>2, <2>3
  <2>5. \A i \in 0..35 : i + 1 \in 1..36 /\ (i + 1 \in {9, 14, 19, 24} <=> i \in {8, 13, 18, 23})
    OBVIOUS
  <2>6. \A i \in 0..35 : (s[i + 1] = Dash) <=> i \in {8, 13, 18, 23}
    BY <2>4, <2>5
  <2> QED BY <1>3, <2>6 DEF IsStr
<1>7. /\ (16 * s[1]) + s[2] = b[1] /\ (16 * s[3]) + s[4] = b[2] /\ (16 * s[5]) + s[6] = b[3]
      /\ (16 * s[7]) + s[8] = b[4] /\ (16 * s[10]) + s[11] = b[5] /\ (16 * s[12]) + s[13] = b[6]
      /\ (16 * s[15]) + s[16] = b[7] /\ (16 * s[17]) + s[18] = b[8] /\ (16 * s[20]) + s[21] = b[9]
      /\ (16 * s[22]) + s[23] = b[10] /\ (16 * s[25]) + s[26] = b[11] /\ (16 * s[27]) + s[28] = b[12]
      /\ (16 * s[29]) + s[30] = b[13] /\ (16 * s[31]) + s[32] = b[14] /\ (16 * s[33]) + s[34] = b[15]
      /\ (16 * s[35]) + s[36] = b[16]
  <2>1. /\ (16 * h[1]) + h[2] = b[1] /\ (16 * h[3]) + h[4] = b[2] /\ (16 * h[5]) + h[6] = b[3]
        /\ (16 * h[7]) + h[8] = b[4] /\ (16 * h[9]) + h[10] = b[5] /\ (16 * h[11]) + h[12] = b[6]
        /\ (16 * h[13]) + h[14] = b[7] /\ (16 * h[15]) + h[16] = b[8] /\ (16 * h[17]) + h[18] = b[9]
        /\ (16 * h[19]) + h[20] = b[10] /\ (16 * h[21]) + h[22] = b[11] /\ (16 * h[23]) + h[24] = b[12]
        /\ (16 * h[25]) + h[26] = b[13] /\ (16 * h[27]) + h[28] = b[14] /\ (16 * h[29]) + h[30] = b[15]
        /\ (16 * h[31]) + h[32] = b[16]
    <3>1. /\ (16 * h[(2 * 1) - 1]) + h[2 * 1] = b[1] /\ (16 * h[(2 * 2) - 1]) + h[2 * 2] = b[2] /\ (16 * h[(2 * 3) - 1]) + h[2 * 3] = b[3]
          /\ (16 * h[(2 * 4) - 1]) + h[2 * 4] = b[4] /\ (16 * h[(2 * 5) - 1]) + h[2 * 5] = b[5] /\ (16 * h[(2 * 6) - 1]) + h[2 * 6] = b[6]
          /\ (16 * h[(2 * 7) - 1]) + h[2 * 7] = b[7] /\ (16 * h[(2 * 8) - 1]) + h[2 * 8] = b[8] /\ (16 * h[(2 * 9) - 1]) + h[2 * 9] = b[9]
          /\ (16 * h[(2 * 10) - 1]) + h[2 * 10] = b[10] /\ (16 * h[(2 * 11) - 1]) + h[2 * 11] = b[11] /\ (16 * h[(2 * 12) - 1]) + h[2 * 12] = b[12]
          /\ (16 * h[(2 * 13) - 1]) + h[2 * 13] = b[13] /\ (16 * h[(2 * 14) - 1]) + h[2 * 14] = b[14] /\ (16 * h[(2 * 15) - 1]) + h[2 * 15] = b[15]
          /\ (16 * h[(2 * 16) - 1]) + h[2 * 16] = b[16]
      BY <1>5
    <3> QED BY <3>1
  <2> QED BY <1>4, <2>1
<1>8. ImportStr(s) = [time_low |-> <<(16 * s[7]) + s[8], (16 * s[5]) + s[6], (16 * s[3]) + s[4], (16 * s[1]) + s[2]>>,
                      time_mid |-> <<(16 * s[12]) + s[13], (16 * s[10]) + s[11]>>,
                      time_hi_and_version |-> <<(16 * s[17]) + s[18], (16 * s[15]) + s[16]>>,
                      clock_seq_hi_and_reserved |-> (16 * s[20]) + s[21],
                      clock_seq_low |-> (16 * s[22]) + s[23],
                      node |-> [k \in 1..6 |-> (16 * s[(22 + (2 * k)) + 1]) + s[(22 + (2 * k)) + 2]]]
  BY DEF ImportStr
<1>9. [k \in 1..6 |-> (16 * s[(22 + (2 * k)) + 1]) + s[(22 + (2 * k)) + 2]] = u.node
  <2>1. PICK w \in [1..6 -> Byte] : w = u.node
    BY DEF Objs, Words
  <2> DEFINE t == [k \in 1..6 |-> (16 * s[(22 + (2 * k)) + 1]) + s[(22 + (2 * k)) + 2]]
  <2>2. /\ t[1] = (16 * s[25]) + s[26] /\ t[2] = (16 * s[27]) + s[28] /\ t[3] = (16 * s[29]) + s[30]
        /\ t[4] = (16 * s[31]) + s[32] /\ t[5] = (16 * s[33]) + s[34] /\ t[6] = (16 * s[35]) + s[36]
    OBVIOUS
  <2>3. t = [k \in 1..6 |-> t[k]]
    OBVIOUS
  <2> HIDE DEF t
  <2>4. t[1] = w[1] /\ t[2] = w[2] /\ t[3] = w[3] /\ t[4] = w[4] /\ t[5] = w[5] /\ t[6] = w[6]
    BY <1>2, <1>7, <2>1, <2>2
  <2>5. \A k \in 1..6 : t[k] = w[k]
    BY <2>4
  <2>6. t = w
    BY <2>3, <2>5
  <2> QED BY <2>1, <2>6 DEF t
<1>10. u.time_low = <<b[4], b[3], b[2], b[1]>>
  <2>1. PICK w \in [1..4 -> Byte] : w = u.time_low
    BY DEF Objs, Words
  <2>2. w = <<w[1], w[2], w[3], w[4]>>
    BY Four
  <2> QED BY <1>2, <2>1, <2>2
<1>11. u.time_mid = <<b[6], b[5]>> /\ u.time_hi_and_version = <<b[8], b[7]>>
  <2>1. PICK w \in [1..2 -> Byte] : w = u.time_mid
    BY DEF Objs, Words
  <2>2. PICK v \in [1..2 -> Byte] : v = u.time_hi_and_version
    BY DEF Objs, Words
  <2>3. w = <<w[1], w[2]>> /\ v = <<v[1], v[2]>>
    BY Two
  <2> QED BY <1>2, <2>1, <2>2, <2>3
<1>12. ImportStr(s) = [time_low |-> u.time_low, time_mid |-> u.time_mid,
                       time_hi_and_version |-> u.time_hi_and_version,
                       clock_seq_hi_and_reserved |-> u.clock_seq_hi_and_reserved,
                       clock_seq_low |-> u.clock_seq_low, node |-> u.node]
  <2>1. ImportStr(s) = [time_low |-> <<b[4], b[3], b[2], b[1]>>, time_mid |-> <<b[6], b[5]>>,
                        time_hi_and_version |-> <<b[8], b[7]>>,
                        clock_seq_hi_and_reserved |-> b[9], clock_seq_low |-> b[10],
                        node |-> u.node]
    BY <1>7, <1>8, <1>9
  <2> QED BY <1>2, <1>10, <1>11, <2>1
<1>13. ImportStr(s) = u
  BY <1>12 DEF Objs
<1> QED BY <1>6, <1>13 DEF s

-----------------------------------------------------------------------------
\* The end of 14 bits.
ClockEnd == 16384

\* The clock sequence of a UUID has 14 bits, and those it is given are read back
\* (uuid_make_v1, uuid_brand).
LEMMA ClockIs ==
  ASSUME NEW u \in Objs
  PROVE  Clock(u) \in Nat /\ Clock(u) < ClockEnd
<1>1. PICK h \in 0..255 : h = u.clock_seq_hi_and_reserved
  BY ByteIs DEF Objs
<1>2. PICK l \in 0..255 : l = u.clock_seq_low
  BY ByteIs DEF Objs
<1>3. ((h % 64) * 256) + l \in Nat /\ ((h % 64) * 256) + l < ClockEnd
  <2>1. h % 64 \in 0..63
    OBVIOUS
  <2> QED BY SMT, <2>1 DEF ClockEnd
<1> QED BY <1>1, <1>2, <1>3 DEF Clock

\* A UUID with another clock sequence is a UUID.
Clocked(x, g, e) == [x EXCEPT !.clock_seq_hi_and_reserved = g, !.clock_seq_low = e]

LEMMA ClockedIs ==
  ASSUME NEW x \in Objs, NEW g \in Byte, NEW e \in Byte
  PROVE  LET y == Clocked(x, g, e)
         IN  y \in Objs /\ y.clock_seq_hi_and_reserved = g /\ y.clock_seq_low = e
BY DEF Objs, Clocked

\* The clock sequence, the time and node, and the brand are set one after the other.
LEMMA WithClockIs ==
  ASSUME NEW x \in Objs, NEW c \in Nat, c < ClockEnd
  PROVE  /\ WithClock(x, c) \in Objs
         /\ WithClock(x, c).clock_seq_hi_and_reserved % 64 = c \div 256
         /\ WithClock(x, c).clock_seq_low = c % 256
<1>1. PICK h \in Byte : h = x.clock_seq_hi_and_reserved
  BY DEF Objs
<1>2. PICK g \in Byte : g = ((h \div 64) * 64) + (c \div 256) /\ g % 64 = c \div 256
  <2>1. PICK q \in Int : q = c \div 256 /\ q >= 0 /\ q < 64
    BY SMT DEF ClockEnd
  <2>2. PICK p \in Int : p = h \div 64 /\ p >= 0 /\ p < 4
    BY ByteIs
  <2>3. \A i, j \in Int : i >= 0 /\ i < 4 /\ j >= 0 /\ j < 64 =>
          (i * 64) + j \in 0..255 /\ ((i * 64) + j) % 64 = j
    BY SMT
  <2>4. (p * 64) + q \in Byte /\ ((p * 64) + q) % 64 = q
    BY <2>1, <2>2, <2>3, ByteIs
  <2> QED BY <2>1, <2>2, <2>4
<1>3. PICK e \in Byte : e = c % 256
  BY ByteIs
<1>4. WithClock(x, c) = Clocked(x, g, e)
  BY <1>1, <1>2, <1>3 DEF WithClock, Clocked, Objs
<1>5. LET y == Clocked(x, g, e)
      IN  y \in Objs /\ y.clock_seq_hi_and_reserved = g /\ y.clock_seq_low = e
  BY ClockedIs
<1>6. PICK y : y = Clocked(x, g, e)
  OBVIOUS
<1>7. y \in Objs /\ y.clock_seq_hi_and_reserved = g /\ y.clock_seq_low = e
  BY <1>5, <1>6
<1>8. y = WithClock(x, c)
  BY <1>4, <1>6
<1> QED BY <1>2, <1>3, <1>7, <1>8

Timed(y, f, node) ==
  [y EXCEPT !.time_low = f.low, !.time_mid = f.mid, !.time_hi_and_version = f.hi, !.node = node]

LEMMA TimedIs ==
  ASSUME NEW y \in Objs, NEW f, f.low \in Words(4), f.mid \in Words(2), f.hi \in Words(2),
         NEW node \in Words(6)
  PROVE  LET w == Timed(y, f, node)
         IN  /\ w \in Objs
             /\ w.time_low = f.low /\ w.time_mid = f.mid /\ w.time_hi_and_version = f.hi
             /\ w.clock_seq_hi_and_reserved = y.clock_seq_hi_and_reserved
             /\ w.clock_seq_low = y.clock_seq_low
<1> DEFINE v == [y EXCEPT !.time_low = f.low, !.time_mid = f.mid]
           w == [v EXCEPT !.time_hi_and_version = f.hi, !.node = node]
<1>1. v \in Objs /\ v.time_low = f.low /\ v.time_mid = f.mid
      /\ v.clock_seq_hi_and_reserved = y.clock_seq_hi_and_reserved
      /\ v.clock_seq_low = y.clock_seq_low
  BY DEF Objs
<1> HIDE DEF v
<1>2. /\ w \in Objs
      /\ w.time_low = f.low /\ w.time_mid = f.mid /\ w.time_hi_and_version = f.hi
      /\ w.clock_seq_hi_and_reserved = y.clock_seq_hi_and_reserved
      /\ w.clock_seq_low = y.clock_seq_low
  BY <1>1 DEF Objs
<1> QED BY <1>2 DEF v, Timed

Branded(w, k, m) == [w EXCEPT !.time_hi_and_version = k, !.clock_seq_hi_and_reserved = m]

LEMMA BrandedIs ==
  ASSUME NEW w \in Objs, NEW k \in Words(2), NEW m \in Byte
  PROVE  LET u == Branded(w, k, m)
         IN  /\ u \in Objs /\ u.time_hi_and_version = k /\ u.clock_seq_hi_and_reserved = m
             /\ u.time_low = w.time_low /\ u.time_mid = w.time_mid
             /\ u.clock_seq_low = w.clock_seq_low
BY DEF Objs, Branded

LEMMA BrandIs ==
  ASSUME NEW w \in Objs
  PROVE  LET u == Brand(w, 1)
         IN  /\ u \in Objs
             /\ u.time_low = w.time_low /\ u.time_mid = w.time_mid
             /\ u.time_hi_and_version[1] = w.time_hi_and_version[1]
             /\ u.time_hi_and_version[2] % 16 = w.time_hi_and_version[2] % 16
             /\ u.clock_seq_hi_and_reserved % 64 = w.clock_seq_hi_and_reserved % 64
             /\ u.clock_seq_low = w.clock_seq_low
<1>1. PICK hi \in Words(2) : hi = w.time_hi_and_version
  BY DEF Objs
<1>2. PICK v \in Byte : v = hi[2]
  BY DEF Words
<1>3. PICK g \in Byte : g = w.clock_seq_hi_and_reserved
  BY DEF Objs
<1>4. PICK n \in Byte : n = (v % 16) + 16 * 1 /\ n % 16 = v % 16
  <2>1. (v % 16) + 16 * 1 \in 0..255 /\ ((v % 16) + 16 * 1) % 16 = v % 16
    BY ByteIs
  <2> QED BY <2>1, ByteIs
<1>5. PICK m \in Byte : m = (g % 64) + 128 /\ m % 64 = g % 64
  <2>1. (g % 64) + 128 \in 0..255 /\ ((g % 64) + 128) % 64 = g % 64
    BY ByteIs
  <2> QED BY <2>1, ByteIs
<1>6. PICK k \in Words(2) : k = [hi EXCEPT ![2] = n] /\ k[1] = hi[1] /\ k[2] = n
  <2>1. /\ [hi EXCEPT ![2] = n] \in Words(2)
        /\ [hi EXCEPT ![2] = n][1] = hi[1] /\ [hi EXCEPT ![2] = n][2] = n
    BY DEF Words
  <2> QED BY <2>1
<1>7. Brand(w, 1) = Branded(w, k, m)
  BY <1>1, <1>2, <1>3, <1>4, <1>5, <1>6 DEF Brand, Branded, Objs
<1>8. PICK u : u = Branded(w, k, m)
  OBVIOUS
<1>9. /\ u \in Objs /\ u.time_hi_and_version = k /\ u.clock_seq_hi_and_reserved = m
      /\ u.time_low = w.time_low /\ u.time_mid = w.time_mid
      /\ u.clock_seq_low = w.clock_seq_low
  <2>1. LET v1 == Branded(w, k, m)
        IN  /\ v1 \in Objs /\ v1.time_hi_and_version = k /\ v1.clock_seq_hi_and_reserved = m
            /\ v1.time_low = w.time_low /\ v1.time_mid = w.time_mid
            /\ v1.clock_seq_low = w.clock_seq_low
    BY BrandedIs
  <2> QED BY <2>1, <1>8
<1>10. u.time_hi_and_version[1] = w.time_hi_and_version[1]
  BY <1>1, <1>6, <1>9
<1>11. u.time_hi_and_version[2] % 16 = w.time_hi_and_version[2] % 16
  BY <1>1, <1>2, <1>4, <1>6, <1>9
<1>12. u.clock_seq_hi_and_reserved % 64 = w.clock_seq_hi_and_reserved % 64
  BY <1>3, <1>5, <1>9
<1>13. u = Brand(w, 1)
  BY <1>7, <1>8
<1> QED BY <1>9, <1>10, <1>11, <1>12, <1>13

\* What uuid_make_v1 makes: a UUID of the time and of the clock sequence it has.
MadeOf(x, c, f, node) ==
  Brand([WithClock(x, c) EXCEPT !.time_low = f.low, !.time_mid = f.mid,
                                !.time_hi_and_version = f.hi, !.node = node], 1)

LEMMA MakesAUuid ==
  ASSUME NEW x \in Objs, NEW at \in Instant, NEW seq \in 0..Ticks, NEW c \in Nat, c < ClockEnd,
         NEW node \in Words(6)
  PROVE  LET u == MadeOf(x, c, TimeFields(TimeOf(at, seq)), node)
         IN  u \in Objs /\ Clock(u) = c /\ CarriesTime(u, at, seq)
<1> DEFINE t == TimeOf(at, seq)
           f == TimeFields(t)
           y == WithClock(x, c)
           w == Timed(y, f, node)
           u == Brand(w, 1)
<1>1. t \in Number
  BY TimeOfIs
<1>2. f.hi = <<t[7], t[8] % 16>> /\ f.mid = <<t[5], t[6]>> /\ f.low = <<t[1], t[2], t[3], t[4]>>
  BY <1>1, TimeFieldsAre
<1>3. /\ y \in Objs
      /\ y.clock_seq_hi_and_reserved % 64 = c \div 256 /\ y.clock_seq_low = c % 256
  BY WithClockIs
<1> HIDE DEF t, f, y
<1>4. PICK t1 \in Byte, t2 \in Byte, t3 \in Byte, t4 \in Byte,
           t5 \in Byte, t6 \in Byte, t7 \in Byte, t8 \in Byte :
           /\ t[1] = t1 /\ t[2] = t2 /\ t[3] = t3 /\ t[4] = t4
           /\ t[5] = t5 /\ t[6] = t6 /\ t[7] = t7 /\ t[8] = t8
  BY <1>1 DEF Number
<1>5. PICK v \in Byte : v = t8 % 16 /\ v % 16 = t8 % 16
  BY ByteIs
<1>6. f.low \in Words(4)
  <2>1. <<t1, t2, t3, t4>> \in Seq(Byte) /\ Len(<<t1, t2, t3, t4>>) = 4
    OBVIOUS
  <2>2. <<t1, t2, t3, t4>> \in Words(4)
    BY <2>1, LenProperties DEF Words
  <2> QED BY <1>2, <1>4, <2>2
<1>7. f.mid \in Words(2)
  <2>1. <<t5, t6>> \in Seq(Byte) /\ Len(<<t5, t6>>) = 2
    OBVIOUS
  <2>2. <<t5, t6>> \in Words(2)
    BY <2>1, LenProperties DEF Words
  <2> QED BY <1>2, <1>4, <2>2
<1>8. f.hi \in Words(2) /\ f.hi[1] = t[7] /\ f.hi[2] % 16 = t[8] % 16
  <2>1. <<t7, v>> \in Seq(Byte) /\ Len(<<t7, v>>) = 2 /\ <<t7, v>>[1] = t7 /\ <<t7, v>>[2] = v
    OBVIOUS
  <2>2. <<t7, v>> \in Words(2)
    BY <2>1, LenProperties DEF Words
  <2>3. f.hi = <<t7, v>>
    BY <1>2, <1>4, <1>5
  <2> QED BY <1>4, <1>5, <2>1, <2>2, <2>3
<1>9. /\ w \in Objs
      /\ w.time_low = f.low /\ w.time_mid = f.mid /\ w.time_hi_and_version = f.hi
      /\ w.clock_seq_hi_and_reserved = y.clock_seq_hi_and_reserved
      /\ w.clock_seq_low = y.clock_seq_low
  BY <1>3, <1>6, <1>7, <1>8, TimedIs
<1> HIDE DEF w
<1>10. /\ u \in Objs
       /\ u.time_low = w.time_low /\ u.time_mid = w.time_mid
       /\ u.time_hi_and_version[1] = w.time_hi_and_version[1]
       /\ u.time_hi_and_version[2] % 16 = w.time_hi_and_version[2] % 16
       /\ u.clock_seq_hi_and_reserved % 64 = w.clock_seq_hi_and_reserved % 64
       /\ u.clock_seq_low = w.clock_seq_low
  BY <1>9, BrandIs
<1> HIDE DEF u
<1>11. Clock(u) = c
  <2>1. Clock(u) = ((c \div 256) * 256) + (c % 256)
    BY <1>3, <1>9, <1>10 DEF Clock
  <2>2. c = (256 * (c \div 256)) + (c % 256)
    BY SMT
  <2>3. c \div 256 \in Int
    BY SMT
  <2> QED BY SMT, <2>1, <2>2, <2>3
<1>12. CarriesTime(u, at, seq)
  BY <1>2, <1>8, <1>9, <1>10 DEF CarriesTime, t
<1> QED BY <1>10, <1>11, <1>12 DEF u, w, y, f, t, Timed, MadeOf

\* The node of a UUID is six bytes (uuid_make_v1).
LEMMA NodeIs ==
  ASSUME NEW x, x.mac \in Words(6), NEW drawn \in Nodes
  PROVE  NodeOf(x, drawn) \in Words(6)
<1>1. drawn \in Words(6)
  BY RandomAssumption DEF Words
<1>2. PICK d \in 0..255 : d = drawn[1]
  BY <1>1, ByteIs DEF Words
<1>3. (d \div 4) * 4 + 3 \in Byte
  <2>1. (d \div 4) * 4 + 3 \in 0..255
    OBVIOUS
  <2> QED BY <2>1, ByteIs
<1>4. [drawn EXCEPT ![1] = (drawn[1] \div 4) * 4 + 3] \in Words(6)
  BY <1>1, <1>2, <1>3 DEF Words
<1> QED BY <1>4 DEF NodeOf

\* The next clock sequence has 14 bits, and follows the last where it is not drawn.
LEMMA NextClockIs ==
  ASSUME NEW x, x.obj \in Objs, NEW draw \in Draws
  PROVE  /\ NextClock(x, draw) \in Nat /\ NextClock(x, draw) < ClockEnd
         /\ ~ Redraws(x) => /\ Clock(x.obj) # 0
                            /\ \/ NextClock(x, draw) = Clock(x.obj) + 1
                               \/ NextClock(x, draw) = 0
<1>1. PICK d \in Nat : d = draw
  <2>1. draw \in Below(65536)
    BY RandomAssumption
  <2>2. 65536 \in Nat
    BY SMT
  <2> QED BY SMT, <2>1, <2>2, BelowIs
<1>2. PICK c \in Nat : c = Clock(x.obj) /\ c < ClockEnd
  BY ClockIs
<1>3. /\ d % ClockEnd \in Nat /\ d % ClockEnd < ClockEnd
      /\ (c + 1) % ClockEnd \in Nat /\ (c + 1) % ClockEnd < ClockEnd
      /\ ((c + 1) % ClockEnd = c + 1 \/ (c + 1) % ClockEnd = 0)
  BY SMT, <1>2 DEF ClockEnd
<1>4. CASE Redraws(x)
  BY SMT, <1>1, <1>3, <1>4 DEF NextClock, ClockEnd
<1>5. CASE ~ Redraws(x)
  BY SMT, <1>2, <1>3, <1>5 DEF NextClock, Redraws, ClockEnd
<1> QED BY <1>4, <1>5

-----------------------------------------------------------------------------
\* What an object remembers, and the types of the variables.
Object == [obj : Objs, dev : BOOLEAN, mac : Words(6), last : 0..Len(Instants), seq : 0..Ticks]
Stamp == ((1..Len(Instants)) \X (0..Ticks)) \cup {<<>>}

TypeInv ==
  /\ objs \in [Objects -> Object \cup {NoObject}]
  /\ now \in 1..Len(Instants)
  /\ files \in Nat
  /\ made \in [Objects -> Seq(Objs)]
  /\ stamp \in [Objects -> Stamp]

\* An object carries the time it is stamped with.
Stamped(x, s) == x # NoObject /\ s # <<>> => CarriesTime(x.obj, Instants[s[1]], s[2])

\* The clock sequences of what an object made ascend, and only the last may be zero
\* again; the object still holds the last it made.
Ascend(m) ==
  \A i, j \in 1..Len(m) : i < j =>
    Clock(m[i]) # 0 /\ (Clock(m[i]) < Clock(m[j]) \/ Clock(m[j]) = 0)
HoldsLast(x, m) == m # <<>> => x # NoObject /\ x.obj = m[Len(m)]

TimeKept == \A o \in Objects : Stamped(objs[o], stamp[o])
ClocksAscend == \A o \in Objects : Ascend(made[o]) /\ HoldsLast(objs[o], made[o])

\* Every file is free or held by an object.
Holding == {o \in Objects : objs[o] # NoObject /\ objs[o].dev}
FilesCounted == files + Cardinality(Holding) = MaxFiles

Inv == TypeInv /\ TimeKept /\ ClocksAscend /\ FilesCounted

-----------------------------------------------------------------------------
LEMMA ObjectIs ==
  ASSUME NEW x \in Object
  PROVE  x # NoObject
BY DEF Object, NoObject

\* An object as uuid_create makes it (uuid_create, prng_create, mac_address).
LEMMA NewObjectIs ==
  ASSUME NEW dev \in BOOLEAN, NEW left, NEW mac \in MacsFound(left)
  PROVE  NewObject(dev, mac) \in Object
<1>1. Fallback \in Words(6)
  <2>1. 128 \in Byte /\ 0 \in Byte
    BY ByteIs
  <2>2. Fallback \in Seq(Byte) /\ Len(Fallback) = 6
    BY <2>1 DEF Fallback
  <2> QED BY <2>2, LenProperties DEF Words
<1>2. Nodes \subseteq Words(6)
  BY RandomAssumption DEF Words
<1>3. mac \in Words(6)
  BY <1>1, <1>2 DEF MacsFound
<1>4. 0 \in 0..Len(Instants) /\ 0 \in 0..Ticks
  BY TicksAssumption, InstantsAssumption
<1>5. Nil \in Objs
  BY NilIs
<1> QED BY <1>3, <1>4, <1>5 DEF NewObject, Object

\* An object whose value is overwritten, and one that has made its next.
Overwritten(x, u) == [x EXCEPT !.obj = u]
Remade(x, u, n, seq) == [x EXCEPT !.obj = u, !.last = n, !.seq = seq]

LEMMA OverwrittenIs ==
  ASSUME NEW x \in Object, NEW u \in Objs
  PROVE  /\ Overwritten(x, u) \in Object
         /\ Overwritten(x, u).obj = u /\ Overwritten(x, u).dev = x.dev
BY DEF Object, Overwritten

LEMMA RemadeIs ==
  ASSUME NEW x \in Object, NEW u \in Objs, NEW n \in 0..Len(Instants), NEW seq \in 0..Ticks
  PROVE  /\ Remade(x, u, n, seq) \in Object
         /\ Remade(x, u, n, seq).obj = u /\ Remade(x, u, n, seq).dev = x.dev
<1> DEFINE y == [x EXCEPT !.obj = u, !.last = n]
<1>1. y \in Object /\ y.obj = u /\ y.dev = x.dev
  BY DEF Object
<1> HIDE DEF y
<1>2. LET z == [y EXCEPT !.seq = seq]
      IN  z \in Object /\ z.obj = y.obj /\ z.dev = y.dev
  BY <1>1 DEF Object
<1> QED BY <1>1, <1>2 DEF y, Remade

\* What an object makes next follows what it made (uuid_make_v1).
LEMMA AppendAscends ==
  ASSUME NEW m \in Seq(Objs), Ascend(m), NEW u \in Objs,
         m # <<>> => /\ Clock(m[Len(m)]) # 0
                     /\ Clock(u) = Clock(m[Len(m)]) + 1 \/ Clock(u) = 0
  PROVE  Ascend(Append(m, u))
<1> DEFINE n == Append(m, u)
<1>1. n \in Seq(Objs) /\ Len(n) = Len(m) + 1 /\ n[Len(m) + 1] = u
      /\ \A i \in 1..Len(m) : n[i] = m[i]
  BY AppendProperties
<1>2. \A i \in 1..Len(m) : m[i] \in Objs
  OBVIOUS
<1>3. \A v \in Objs : Clock(v) \in Nat
  BY ClockIs
<1> HIDE DEF n
<1> SUFFICES ASSUME NEW i \in 1..Len(n), NEW j \in 1..Len(n), i < j
             PROVE  Clock(n[i]) # 0 /\ (Clock(n[i]) < Clock(n[j]) \/ Clock(n[j]) = 0)
  BY DEF Ascend, n
<1>4. Len(m) \in Nat
  OBVIOUS
<1>5. i \in 1..Len(m) /\ n[i] = m[i]
  BY <1>1, <1>4
<1>6. CASE j \in 1..Len(m)
  BY <1>1, <1>5, <1>6 DEF Ascend
<1>7. CASE j = Len(m) + 1
  <2>1. Len(m) \in 1..Len(m) /\ m # <<>>
    BY <1>4, <1>5
  <2>2. i = Len(m) \/ Clock(m[i]) < Clock(m[Len(m)])
    BY <1>4, <1>5, <2>1 DEF Ascend
  <2>3. PICK a \in Nat, b \in Nat, c \in Nat :
             a = Clock(m[i]) /\ b = Clock(m[Len(m)]) /\ c = Clock(u)
    BY <1>2, <1>3, <1>5, <2>1
  <2>4. i = Len(m) \/ Clock(m[i]) # 0
    BY <1>5, <2>1, <1>4 DEF Ascend
  <2> QED BY <1>1, <1>5, <1>7, <2>1, <2>2, <2>3, <2>4
<1> QED BY <1>1, <1>4, <1>6, <1>7

-----------------------------------------------------------------------------
LEMMA InitInv == Init => Inv
<1> SUFFICES ASSUME Init PROVE Inv
  OBVIOUS
<1>1. TypeInv
  <2>1. <<>> \in Seq(Objs)
    OBVIOUS
  <2> QED BY <2>1, InstantsAssumption, BoundsAssumption DEF Init, TypeInv, Stamp
<1>2. TimeKept
  BY DEF Init, TimeKept, Stamped
<1>3. ClocksAscend
  <2>1. Ascend(<<>>)
    BY DEF Ascend
  <2> QED BY <2>1 DEF Init, ClocksAscend, HoldsLast
<1>4. FilesCounted
  <2>1. Holding = {}
    BY DEF Init, Holding
  <2> QED BY <2>1, FS_EmptySet, BoundsAssumption DEF Init, FilesCounted
<1> QED BY <1>1, <1>2, <1>3, <1>4 DEF Inv

\* The clock changes nothing an object remembers.
LEMMA ClockKeepsInv ==
  ASSUME Inv, now' \in 1..Len(Instants), UNCHANGED <<objs, files, made, stamp>>
  PROVE  Inv'
<1>1. TypeInv'
  BY DEF Inv, TypeInv
<1>2. TimeKept'
  BY DEF Inv, TimeKept, Stamped
<1>3. ClocksAscend'
  BY DEF Inv, ClocksAscend
<1>4. Holding' = Holding
  BY DEF Holding
<1>5. FilesCounted'
  BY <1>4 DEF Inv, FilesCounted
<1> QED BY <1>1, <1>2, <1>3, <1>5 DEF Inv

\* A step at one object keeps what holds of it if the object has it afterwards.
LEMMA OneObject ==
  ASSUME TypeInv, TimeKept, ClocksAscend, NEW o \in Objects,
         NEW x \in Object \cup {NoObject}, NEW m \in Seq(Objs), NEW s \in Stamp,
         objs' = [objs EXCEPT ![o] = x], made' = [made EXCEPT ![o] = m],
         stamp' = [stamp EXCEPT ![o] = s], now' = now, files' \in Nat,
         Stamped(x, s), Ascend(m), HoldsLast(x, m)
  PROVE  TypeInv' /\ TimeKept' /\ ClocksAscend'
<1>1. TypeInv'
  BY DEF TypeInv
<1>2. \A p \in Objects : IF p = o THEN objs'[p] = x /\ made'[p] = m /\ stamp'[p] = s
                         ELSE objs'[p] = objs[p] /\ made'[p] = made[p] /\ stamp'[p] = stamp[p]
  BY DEF TypeInv
<1>3. TimeKept'
  <2> SUFFICES ASSUME NEW p \in Objects PROVE Stamped(objs'[p], stamp'[p])
    BY DEF TimeKept, Stamped, CarriesTime
  <2> QED BY <1>2 DEF TimeKept
<1>4. ClocksAscend'
  <2> SUFFICES ASSUME NEW p \in Objects PROVE Ascend(made'[p]) /\ HoldsLast(objs'[p], made'[p])
    BY DEF ClocksAscend, Ascend, HoldsLast
  <2> QED BY <1>2 DEF ClocksAscend
<1> QED BY <1>1, <1>3, <1>4

\* An object that keeps its file leaves the count as it is.
LEMMA HoldingKept ==
  ASSUME TypeInv, FilesCounted, NEW o \in Objects, NEW x \in Object,
         objs[o] \in Object, x.dev = objs[o].dev,
         objs' = [objs EXCEPT ![o] = x], files' = files
  PROVE  FilesCounted'
<1>1. objs[o] # NoObject /\ x # NoObject
  BY ObjectIs
<1>2. \A p \in Objects : objs'[p] = IF p = o THEN x ELSE objs[p]
  BY DEF TypeInv
<1>3. Holding' = Holding
  BY <1>1, <1>2 DEF Holding
<1> QED BY <1>3 DEF FilesCounted

LEMMA CreateInv ==
  ASSUME Inv, NEW o \in Objects, Create(o)
  PROVE  Inv'
<1> DEFINE left == IF DeviceOpened THEN files - 1 ELSE files
<1>1. TypeInv /\ TimeKept /\ ClocksAscend /\ FilesCounted /\ objs[o] = NoObject
  BY DEF Inv, Create
<1>2. PICK mac \in MacsFound(left) : objs' = [objs EXCEPT ![o] = NewObject(DeviceOpened, mac)]
  BY DEF Create
<1>3. DeviceOpened \in BOOLEAN
  BY DEF DeviceOpened
<1>4. NewObject(DeviceOpened, mac) \in Object
  BY <1>3, NewObjectIs
<1>5. PICK x \in Object : x = NewObject(DeviceOpened, mac) /\ x.dev = DeviceOpened
  BY <1>4 DEF NewObject
<1>6. files' = left /\ left \in Nat
  BY <1>1 DEF Create, DeviceOpened, TypeInv
<1>7. Ascend(<<>>) /\ HoldsLast(x, <<>>) /\ Stamped(x, <<>>) /\ <<>> \in Stamp /\ <<>> \in Seq(Objs)
  BY DEF Ascend, HoldsLast, Stamped, Stamp
<1>8. TypeInv' /\ TimeKept' /\ ClocksAscend'
  <2>1. objs' = [objs EXCEPT ![o] = x] /\ made' = [made EXCEPT ![o] = <<>>]
        /\ stamp' = [stamp EXCEPT ![o] = <<>>] /\ now' = now /\ files' \in Nat
    BY <1>2, <1>5, <1>6 DEF Create
  <2> QED BY <2>1, <1>1, <1>7, OneObject
<1>9. FilesCounted'
  <2>1. \A p \in Objects : objs'[p] = IF p = o THEN x ELSE objs[p]
    BY <1>1, <1>2, <1>5 DEF TypeInv
  <2>2. x # NoObject
    BY ObjectIs
  <2>3. IsFiniteSet(Holding) /\ o \notin Holding
    BY <1>1, FS_Subset, BoundsAssumption DEF Holding
  <2>4. CASE DeviceOpened
    <3>1. Holding' = Holding \cup {o}
      BY <2>1, <2>2, <2>4, <1>1, <1>5 DEF Holding
    <3>2. Cardinality(Holding') = Cardinality(Holding) + 1
      BY <3>1, <2>3, FS_AddElement
    <3>3. Cardinality(Holding) \in Nat
      BY <2>3, FS_CardinalityType
    <3> QED BY <3>2, <3>3, <2>4, <1>1, <1>6 DEF FilesCounted, TypeInv
  <2>5. CASE ~ DeviceOpened
    <3>1. Holding' = Holding
      BY <2>1, <2>2, <2>5, <1>1, <1>5 DEF Holding
    <3> QED BY <3>1, <2>5, <1>1, <1>6 DEF FilesCounted
  <2> QED BY <2>4, <2>5
<1> QED BY <1>8, <1>9 DEF Inv

LEMMA DestroyInv ==
  ASSUME Inv, NEW o \in Objects, Destroy(o)
  PROVE  Inv'
<1>1. TypeInv /\ TimeKept /\ ClocksAscend /\ FilesCounted /\ objs[o] # NoObject
  BY DEF Inv, Destroy
<1>2. PICK x \in Object : x = objs[o]
  BY <1>1 DEF TypeInv
<1>3. x.dev \in BOOLEAN
  BY DEF Object
<1>4. files' = files + Held(x) /\ files' \in Nat
  BY <1>1, <1>2 DEF Destroy, TypeInv, Held
<1>5. Ascend(<<>>) /\ HoldsLast(NoObject, <<>>) /\ Stamped(NoObject, <<>>)
      /\ <<>> \in Stamp /\ <<>> \in Seq(Objs)
  BY DEF Ascend, HoldsLast, Stamped, Stamp
<1>6. TypeInv' /\ TimeKept' /\ ClocksAscend'
  <2>1. objs' = [objs EXCEPT ![o] = NoObject] /\ made' = [made EXCEPT ![o] = <<>>]
        /\ stamp' = [stamp EXCEPT ![o] = <<>>] /\ now' = now
    BY DEF Destroy
  <2> QED BY <2>1, <1>1, <1>4, <1>5, OneObject
<1>7. FilesCounted'
  <2>1. \A p \in Objects : objs'[p] = IF p = o THEN NoObject ELSE objs[p]
    BY <1>1 DEF TypeInv, Destroy
  <2>2. IsFiniteSet(Holding)
    BY FS_Subset, BoundsAssumption DEF Holding
  <2>3. Holding' = Holding \ {o}
    BY <2>1 DEF Holding
  <2>4. Cardinality(Holding) \in Nat /\ files \in Nat /\ MaxFiles \in Nat
    BY <2>2, <1>1, FS_CardinalityType, BoundsAssumption DEF TypeInv
  <2>5. CASE x.dev
    <3>1. o \in Holding
      BY <2>5, <1>1, <1>2 DEF Holding
    <3>2. Cardinality(Holding') = Cardinality(Holding) - 1
      BY <3>1, <2>2, <2>3, FS_RemoveElement
    <3> QED BY <3>2, <2>4, <2>5, <1>1, <1>4 DEF FilesCounted, Held
  <2>6. CASE ~ x.dev
    <3>1. Holding' = Holding
      BY <2>3, <2>6, <1>2 DEF Holding
    <3> QED BY <3>1, <2>4, <2>6, <1>1, <1>4 DEF FilesCounted, Held
  <2> QED BY <2>5, <2>6
<1> QED BY <1>6, <1>7 DEF Inv

LEMMA FieldsAtIs ==
  ASSUME NEW k \in 1..Len(Instants), NEW seq \in 0..Ticks
  PROVE  FieldsAt[k][seq] = TimeFields(TimeOf(Instants[k], seq))
BY DEF FieldsAt

LEMMA MakeV1Inv ==
  ASSUME Inv, NEW o \in Objects, MakeV1(o)
  PROVE  Inv'
<1> DEFINE seq == IF now # objs[o].last THEN 0 ELSE objs[o].seq + 1
           f == FieldsAt[now][seq]
<1>1. TypeInv /\ TimeKept /\ ClocksAscend /\ FilesCounted /\ objs[o] # NoObject
  BY DEF Inv, MakeV1
<1>2. PICK x \in Object : x = objs[o]
  BY <1>1 DEF TypeInv
<1>3. PICK m \in Seq(Objs) : m = made[o] /\ Ascend(m) /\ HoldsLast(x, m)
  BY <1>1, <1>2 DEF TypeInv, ClocksAscend
<1>4. x.obj \in Objs /\ x.mac \in Words(6) /\ x.last \in 0..Len(Instants) /\ x.seq \in 0..Ticks
  BY DEF Object
<1>5. now \in 1..Len(Instants) /\ now \in 0..Len(Instants)
  BY <1>1 DEF TypeInv
<1>6. seq \in 0..Ticks
  <2>1. now = x.last => x.seq < Ticks
    BY <1>2 DEF MakeV1
  <2> QED BY <2>1, <1>2, <1>4, TicksAssumption
<1>7. PICK draw \in Draws, drawn \in Nodes :
        LET u == Brand([WithClock(x.obj, NextClock(x, draw))
                          EXCEPT !.time_low = f.low, !.time_mid = f.mid,
                                 !.time_hi_and_version = f.hi, !.node = NodeOf(x, drawn)], 1)
        IN  /\ objs' = [objs EXCEPT ![o].obj = u, ![o].last = now, ![o].seq = seq]
            /\ made' = [made EXCEPT ![o] = IF Redraws(x) THEN <<u>> ELSE Append(@, u)]
  <2>1. \E draw \in Draws, drawn \in Nodes :
          LET u == Brand([WithClock(objs[o].obj, NextClock(objs[o], draw))
                            EXCEPT !.time_low = f.low, !.time_mid = f.mid,
                                   !.time_hi_and_version = f.hi, !.node = NodeOf(objs[o], drawn)], 1)
          IN  /\ objs' = [objs EXCEPT ![o].obj = u, ![o].last = now, ![o].seq = seq]
              /\ made' = [made EXCEPT ![o] = IF Redraws(objs[o]) THEN <<u>> ELSE Append(@, u)]
    BY DEF MakeV1
  <2> HIDE DEF f, seq
  <2> QED BY <2>1, <1>2
<1>8. stamp' = [stamp EXCEPT ![o] = <<now, seq>>] /\ UNCHANGED <<now, files, back>>
  BY DEF MakeV1
<1> HIDE DEF seq, f
<1>9. PICK at \in Instant : at = Instants[now]
  BY <1>5, InstantsAssumption
<1>10. f = TimeFields(TimeOf(at, seq))
  BY <1>5, <1>6, <1>9, FieldsAtIs DEF f
<1>11. PICK c \in Nat : c = NextClock(x, draw) /\ c < ClockEnd
                        /\ (~ Redraws(x) => /\ Clock(x.obj) # 0
                                            /\ c = Clock(x.obj) + 1 \/ c = 0)
  BY <1>4, NextClockIs
<1>12. PICK node \in Words(6) : node = NodeOf(x, drawn)
  BY <1>4, NodeIs
<1>13. PICK u : u = Brand([WithClock(x.obj, c)
                             EXCEPT !.time_low = f.low, !.time_mid = f.mid,
                                    !.time_hi_and_version = f.hi, !.node = node], 1)
  OBVIOUS
<1>14. u \in Objs /\ Clock(u) = c /\ CarriesTime(u, at, seq)
  <2>1. LET v == MadeOf(x.obj, c, TimeFields(TimeOf(at, seq)), node)
        IN  v \in Objs /\ Clock(v) = c /\ CarriesTime(v, at, seq)
    BY <1>4, <1>6, <1>11, MakesAUuid
  <2>2. u = MadeOf(x.obj, c, f, node)
    BY <1>13 DEF MadeOf
  <2> QED BY <2>1, <2>2, <1>10
<1>15. objs' = [objs EXCEPT ![o].obj = u, ![o].last = now, ![o].seq = seq]
       /\ made' = [made EXCEPT ![o] = IF Redraws(x) THEN <<u>> ELSE Append(@, u)]
  BY <1>7, <1>11, <1>12, <1>13
<1>16. PICK y \in Object : y = Remade(x, u, now, seq) /\ y.obj = u /\ y.dev = x.dev
  BY <1>5, <1>6, <1>14, RemadeIs
<1>17. objs' = [objs EXCEPT ![o] = y]
  BY <1>1, <1>2, <1>15, <1>16 DEF TypeInv, Remade
<1>18. PICK n \in Seq(Objs) : n = IF Redraws(x) THEN <<u>> ELSE Append(m, u)
  <2>1. <<u>> \in Seq(Objs) /\ Append(m, u) \in Seq(Objs)
    BY <1>14
  <2> QED BY <2>1
<1>19. made' = [made EXCEPT ![o] = n]
  BY <1>3, <1>15, <1>18
<1>20. Ascend(n)
  <2>1. CASE Redraws(x)
    <3>1. n = <<u>> /\ Len(<<u>>) = 1
      BY <2>1, <1>18
    <3> QED BY <3>1 DEF Ascend
  <2>2. CASE ~ Redraws(x)
    <3>1. m # <<>> => Clock(m[Len(m)]) # 0
                      /\ (Clock(u) = Clock(m[Len(m)]) + 1 \/ Clock(u) = 0)
      BY <2>2, <1>3, <1>11, <1>14 DEF HoldsLast
    <3> QED BY <3>1, <2>2, <1>3, <1>14, <1>18, AppendAscends
  <2> QED BY <2>1, <2>2
<1>21. HoldsLast(y, n)
  <2>1. y # NoObject /\ n[Len(n)] = u
    BY <1>14, <1>18, ObjectIs
  <2> QED BY <2>1, <1>16 DEF HoldsLast
<1>22. <<now, seq>> \in Stamp /\ Stamped(y, <<now, seq>>)
  BY <1>5, <1>6, <1>9, <1>14, <1>16 DEF Stamp, Stamped
<1>23. TypeInv' /\ TimeKept' /\ ClocksAscend'
  <2>1. now' = now /\ files' \in Nat
    BY <1>1, <1>8 DEF TypeInv
  <2> QED BY <2>1, <1>1, <1>8, <1>17, <1>19, <1>20, <1>21, <1>22, OneObject
<1>24. FilesCounted'
  BY <1>1, <1>2, <1>8, <1>16, <1>17, HoldingKept
<1> QED BY <1>23, <1>24 DEF Inv

\* A value read back from another object's is that value, and the other's stamp goes
\* with it (uuid_import).
LEMMA OverwriteInv ==
  ASSUME Inv, NEW o \in Objects, NEW p \in Objects, objs[o] # NoObject, objs[p] # NoObject,
         Overwrite(o, objs[p].obj), stamp' = [stamp EXCEPT ![o] = stamp[p]]
  PROVE  Inv'
<1>1. TypeInv /\ TimeKept /\ ClocksAscend /\ FilesCounted
  BY DEF Inv
<1>2. PICK x \in Object : x = objs[o]
  BY <1>1 DEF TypeInv
<1>3. PICK z \in Object : z = objs[p]
  BY <1>1 DEF TypeInv
<1>4. PICK y \in Object : y = Overwritten(x, z.obj) /\ y.obj = z.obj /\ y.dev = x.dev
  <2>1. z.obj \in Objs
    BY DEF Object
  <2> QED BY <2>1, OverwrittenIs
<1>5. objs' = [objs EXCEPT ![o] = y] /\ made' = [made EXCEPT ![o] = <<>>]
      /\ now' = now /\ files' = files
  BY <1>1, <1>2, <1>3, <1>4 DEF Overwrite, Overwritten, TypeInv
<1>6. Ascend(<<>>) /\ HoldsLast(y, <<>>) /\ <<>> \in Seq(Objs)
  BY DEF Ascend, HoldsLast
<1>7. PICK s \in Stamp : s = stamp[p]
  BY <1>1 DEF TypeInv
<1>8. Stamped(y, s)
  <2>1. Stamped(z, s)
    BY <1>1, <1>3, <1>7 DEF TimeKept
  <2>2. z # NoObject
    BY ObjectIs
  <2> QED BY <2>1, <2>2, <1>4 DEF Stamped
<1>9. TypeInv' /\ TimeKept' /\ ClocksAscend'
  <2>1. files' \in Nat
    BY <1>1, <1>5 DEF TypeInv
  <2> QED BY <2>1, <1>1, <1>5, <1>6, <1>7, <1>8, OneObject
<1>10. FilesCounted'
  BY <1>1, <1>2, <1>4, <1>5, HoldingKept
<1> QED BY <1>9, <1>10 DEF Inv

LEMMA NextInv == Inv /\ [Next]_vars => Inv'
<1> SUFFICES ASSUME Inv, [Next]_vars PROVE Inv'
  OBVIOUS
<1>1. CASE Tick
  <2>1. now' \in 1..Len(Instants)
    BY <1>1 DEF Tick, Inv, TypeInv
  <2> QED BY <2>1, <1>1, ClockKeepsInv DEF Tick
<1>2. CASE SetBack
  <2>1. now' \in 1..Len(Instants)
    BY <1>2 DEF SetBack, Inv, TypeInv
  <2> QED BY <2>1, <1>2, ClockKeepsInv DEF SetBack
<1>3. ASSUME NEW o \in Objects, Create(o) PROVE Inv'
  BY <1>3, CreateInv
<1>4. ASSUME NEW o \in Objects, Destroy(o) PROVE Inv'
  BY <1>4, DestroyInv
<1>5. ASSUME NEW o \in Objects, MakeV1(o) PROVE Inv'
  BY <1>5, MakeV1Inv
<1>6. ASSUME NEW o \in Objects, NEW p \in Objects, Copy(o, p) PROVE Inv'
  <2>1. objs[o] # NoObject /\ objs[p] # NoObject /\ stamp' = [stamp EXCEPT ![o] = stamp[p]]
        /\ Overwrite(o, ImportBin(ExportBin(objs[p].obj)))
    BY <1>6 DEF Copy
  <2>2. objs[p].obj \in Objs
    BY <2>1 DEF Inv, TypeInv, Object
  <2>3. ImportBin(ExportBin(objs[p].obj)) = objs[p].obj
    BY <2>2, BytesComeBack
  <2> QED BY <2>1, <2>3, OverwriteInv
<1>7. ASSUME NEW o \in Objects, NEW p \in Objects, FromString(o, p) PROVE Inv'
  <2>1. objs[o] # NoObject /\ objs[p] # NoObject /\ stamp' = [stamp EXCEPT ![o] = stamp[p]]
        /\ Overwrite(o, ImportStr(ExportStr(objs[p].obj)))
    BY <1>7 DEF FromString
  <2>2. objs[p].obj \in Objs
    BY <2>1 DEF Inv, TypeInv, Object
  <2>3. ImportStr(ExportStr(objs[p].obj)) = objs[p].obj
    BY <2>2, StringComesBack
  <2> QED BY <2>1, <2>3, OverwriteInv
<1>8. CASE UNCHANGED vars
  <2>1. now' \in 1..Len(Instants) /\ UNCHANGED <<objs, files, made, stamp>>
    BY <1>8 DEF vars, Inv, TypeInv
  <2> QED BY <2>1, ClockKeepsInv
<1> QED BY <1>1, <1>2, <1>3, <1>4, <1>5, <1>6, <1>7, <1>8 DEF Next

LEMMA SpecInv == Spec => []Inv
<1>1. Init => Inv
  BY InitInv
<1>2. Inv /\ [Next]_vars => Inv'
  BY NextInv
<1> QED BY <1>1, <1>2, PTL DEF Spec

-----------------------------------------------------------------------------
LEMMA LiveIs ==
  ASSUME TypeInv, NEW o \in Live
  PROVE  objs[o] \in Object /\ objs[o].obj \in Objs
BY DEF TypeInv, Live, Object

LEMMA InvUnique == Inv => UniqueInObject
<1> SUFFICES ASSUME Inv, NEW o \in Objects PROVE IsInjective(made[o])
  BY DEF UniqueInObject
<1>1. PICK m \in Seq(Objs) : m = made[o] /\ Ascend(m)
  BY DEF Inv, TypeInv, ClocksAscend
<1>2. \A i, j \in 1..Len(m) : i < j => m[i] # m[j]
  <2> SUFFICES ASSUME NEW i \in 1..Len(m), NEW j \in 1..Len(m), i < j, m[i] = m[j] PROVE FALSE
    OBVIOUS
  <2>1. Clock(m[i]) \in Nat
    BY ClockIs
  <2> QED BY <2>1, <1>1 DEF Ascend
<1>3. DOMAIN m = 1..Len(m)
  OBVIOUS
<1>4. \A i, j \in DOMAIN m : m[i] = m[j] => i = j
  BY <1>2, <1>3
<1> QED BY <1>1, <1>4 DEF IsInjective

LEMMA InvTimeIsReadBack == Inv => TimeIsReadBack
<1> SUFFICES ASSUME Inv, NEW o \in Live, stamp[o] # <<>>
             PROVE  LET at   == Instants[stamp[o][1]]
                        seq  == stamp[o][2]
                        usec == at[2] + seq \div Ticks
                    IN  TimeShown(objs[o].obj)
                          = <<ui64_n2i(at[1] + usec \div 1000000), usec % 1000000, seq % Ticks>>
  BY SMT DEF TimeIsReadBack
<1>1. o \in Objects /\ objs[o] # NoObject
  BY DEF Live
<1>2. stamp[o][1] \in 1..Len(Instants) /\ stamp[o][2] \in 0..Ticks
  BY <1>1 DEF Inv, TypeInv, Stamp
<1>3. PICK at \in Instant : at = Instants[stamp[o][1]]
  BY <1>2, InstantsAssumption
<1>4. PICK seq \in 0..Ticks : seq = stamp[o][2]
  BY <1>2
<1>5. CarriesTime(objs[o].obj, at, seq)
  BY <1>1, <1>3, <1>4 DEF Inv, TimeKept, Stamped
<1>6. objs[o].obj \in Objs
  BY LiveIs DEF Inv
<1>7. LET usec == at[2] + seq \div Ticks
      IN  TimeShown(objs[o].obj)
            = <<ui64_n2i(at[1] + usec \div 1000000), usec % 1000000, seq % Ticks>>
  BY <1>5, <1>6, TimeShownIs
<1> QED BY <1>3, <1>4, <1>7

LEMMA InvFormsAgree == Inv => FormsAgree
<1> SUFFICES ASSUME Inv, NEW o \in Live
             PROVE  LET u == objs[o].obj
                        b == ExportBin(u)
                        s == ExportStr(u)
                    IN  /\ ImportBin(b) = u
                        /\ IsStr(s) /\ ImportStr(s) = u
                        /\ IsNil(u) <=> u = Nil
                        /\ \A p \in Live :
                             LET v == objs[p].obj
                             IN  /\ Compare(u, v) = 0 <=> u = v
                                 /\ s = ExportStr(v) => b = ExportBin(v)
                                 /\ Compare(u, v) = -Compare(v, u)
  BY DEF FormsAgree
<1>1. PICK u \in Objs : u = objs[o].obj
  BY LiveIs DEF Inv
<1>2. ImportBin(ExportBin(u)) = u
  BY BytesComeBack
<1>3. IsStr(ExportStr(u)) /\ ImportStr(ExportStr(u)) = u
  BY StringComesBack
<1>4. IsNil(u) <=> u = Nil
  BY NilIs
<1>5. ASSUME NEW p \in Live
      PROVE  /\ Compare(u, objs[p].obj) = 0 <=> u = objs[p].obj
             /\ ExportStr(u) = ExportStr(objs[p].obj) => ExportBin(u) = ExportBin(objs[p].obj)
             /\ Compare(u, objs[p].obj) = -Compare(objs[p].obj, u)
  <2>1. PICK v \in Objs : v = objs[p].obj
    BY LiveIs DEF Inv
  <2>2. ImportStr(ExportStr(v)) = v
    BY StringComesBack
  <2>3. ExportStr(u) = ExportStr(v) => u = v
    BY <2>2, <1>3
  <2>4. /\ Compare(u, v) = 0 <=> u = v
        /\ Compare(u, v) = -Compare(v, u)
    BY CompareIs
  <2> QED BY <2>1, <2>3, <2>4
<1> QED BY <1>1, <1>2, <1>3, <1>4, <1>5

LEMMA InvSaveHasAFile == Inv => SaveHasAFile
<1> SUFFICES ASSUME Inv, Cardinality(Live) < MaxFiles PROVE files > 0
  BY DEF SaveHasAFile
<1>1. Live \subseteq Objects /\ Holding \subseteq Live
  BY DEF Live, Holding
<1>2. IsFiniteSet(Live)
  BY <1>1, FS_Subset, BoundsAssumption
<1>3. Cardinality(Holding) <= Cardinality(Live) /\ IsFiniteSet(Holding)
  BY <1>1, <1>2, FS_Subset
<1>4. Cardinality(Holding) \in Nat /\ Cardinality(Live) \in Nat /\ files \in Nat /\ MaxFiles \in Nat
  BY <1>2, <1>3, FS_CardinalityType, BoundsAssumption DEF Inv, TypeInv
<1>5. files + Cardinality(Holding) = MaxFiles
  BY DEF Inv, FilesCounted
<1> QED BY <1>3, <1>4, <1>5

\* An object does not make a UUID twice between two random clock sequences, however
\* the clock behaves: what uuid_make_v1 has the clock sequence for.
THEOREM UniqueUuids == Spec => []UniqueInObject
BY SpecInv, InvUnique, PTL

\* The time that uuid_export_txt shows of a version 1 UUID is the one uuid_make_v1
\* made it at, whatever it was copied through.
THEOREM TimesReadBack == Spec => []TimeIsReadBack
BY SpecInv, InvTimeIsReadBack, PTL

\* The bytes and the text of a UUID stand for it and for no other, and uuid_compare
\* tells UUIDs apart exactly where they are written differently.
THEOREM FormsStandForUuids == Spec => []FormsAgree
BY SpecInv, InvFormsAgree, PTL

\* With fewer UUIDs than files, a file is left to save to: uuid_destroy gives back
\* what uuid_create took.
THEOREM FilesAreLeft == Spec => []SaveHasAFile
BY SpecInv, InvSaveHasAFile, PTL
=============================================================================
