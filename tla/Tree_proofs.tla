------------------------------ MODULE Tree_proofs ------------------------------
(***************************************************************************)
(* Proofs about a safe in memory and about what files keep of it, for any   *)
(* addresses, texts and numbers of entries.                                 *)
(*                                                                         *)
(* SafeTree: whatever items are made, moved and deleted, the lists and the  *)
(* pointers describe one tree at every step of the destructors, a deletion  *)
(* takes the subtree and nothing else, and the totals and indexes the       *)
(* window shows are those of the tree.                                      *)
(*                                                                         *)
(* Formats and GroupPath: whatever formats a safe is saved in and loaded    *)
(* from, its secrets come through, each format keeps the fields it should,   *)
(* no path makes unescapeGroup throw, and groups with plain names come      *)
(* back.                                                                    *)
(*                                                                         *)
(* What a list keeps is a recursive function (Kept), and so is what becomes *)
(* of a string or a path, so the lemmas about them are inductions.          *)
(* SetInduction states induction over Nat with a set in the place of a      *)
(* predicate, Iteration that a recursive definition has a solution, and     *)
(* SeqSetInduction induction over sequences by Append.                      *)
(***************************************************************************)
EXTENDS SafeTree, Formats, SequenceTheorems, FiniteSetTheorems, WellFoundedInduction, TLAPS

-----------------------------------------------------------------------------

LEMMA SetInduction ==
  ASSUME NEW S, 0 \in S, \A n \in Nat : n \in S => n + 1 \in S
  PROVE  Nat \subseteq S
<1> SUFFICES ASSUME NEW m \in Nat, m \notin S PROVE FALSE
  OBVIOUS
<1> DEFINE T == {n \in Nat : n \notin S}
           R == OpToRel(<, Nat)
<1>1. IsWellFoundedOn(R, Nat)
  BY NatLessThanWellFounded DEF OpToRel
<1>2. T \subseteq Nat /\ T # {}
  OBVIOUS
<1> HIDE DEF R
<1>3. PICK x \in T : \A y \in T : ~ (<<y, x>> \in R)
  BY <1>1, <1>2, WFMin
<1>4. x # 0
  BY <1>3
<1>5. x - 1 \in Nat /\ x - 1 < x
  BY <1>4
<1>6. <<x - 1, x>> \in R
  BY <1>5, <1>3 DEF R, OpToRel
<1> QED BY <1>3, <1>5, <1>6

\* The values that `step' gives one after the other, from b.
Steps(n, X) == [(1..n) \X X -> X]
Iterates(f, n, X, b, step) ==
  f \in [0..n -> X] /\ f[0] = b /\ \A m \in 1..n : f[m] = step[<<m, f[m - 1]>>]

LEMMA Iteration ==
  ASSUME NEW n \in Nat, NEW X, NEW b \in X, NEW step \in Steps(n, X)
  PROVE  \E f : Iterates(f, n, X, b, step)
<1> USE DEF Steps
<1> DEFINE Good(k, f) == f[0] = b /\ \A m \in 1..k : f[m] = step[<<m, f[m - 1]>>]
           D == {k \in Nat : k <= n => \E f \in [0..k -> X] : Good(k, f)}
<1>1. 0 \in D
  <2>1. [i \in 0..0 |-> b] \in [0..0 -> X] /\ Good(0, [i \in 0..0 |-> b])
    OBVIOUS
  <2> QED BY <2>1
<1>2. ASSUME NEW k \in Nat, k \in D PROVE k + 1 \in D
  <2> SUFFICES ASSUME k + 1 <= n PROVE \E f \in [0..k + 1 -> X] : Good(k + 1, f)
    OBVIOUS
  <2>1. PICK f \in [0..k -> X] : Good(k, f)
    BY <1>2
  <2> DEFINE g == [i \in 0..k + 1 |-> IF i = k + 1 THEN step[<<k + 1, f[k]>>] ELSE f[i]]
  <2>2. f[k] \in X /\ k + 1 \in 1..n
    BY <2>1
  <2>3. step[<<k + 1, f[k]>>] \in X
    BY <2>2
  <2>4. g \in [0..k + 1 -> X]
    BY <2>3, <2>1
  <2>5. Good(k + 1, g)
    <3>1. g[0] = b
      BY <2>1
    <3>2. ASSUME NEW m \in 1..k + 1 PROVE g[m] = step[<<m, g[m - 1]>>]
      <4>1. CASE m = k + 1
        <5>1. g[m - 1] = f[k] /\ g[k + 1] = step[<<k + 1, f[k]>>]
          BY <4>1
        <5> HIDE DEF g
        <5> QED BY <5>1, <4>1
      <4>2. CASE m # k + 1
        <5>1. m \in 1..k /\ g[m] = f[m] /\ g[m - 1] = f[m - 1]
          BY <4>2
        <5> QED BY <5>1, <2>1
      <4> QED BY <4>1, <4>2
    <3> QED BY <3>1, <3>2
  <2> QED BY <2>4, <2>5
<1> HIDE DEF D
<1>3. n \in D
  BY <1>1, <1>2, SetInduction
<1> QED BY <1>3 DEF D, Iterates

KeptOf(s, T, kept) ==
  kept = [n \in 0..Len(s) |->
            IF n = 0 THEN <<>>
            ELSE IF s[n] \in T THEN Append(kept[n - 1], s[n]) ELSE kept[n - 1]]

LEMMA KeptUnfolds ==
  ASSUME NEW S, NEW s \in Seq(S), NEW T
  PROVE  \E kept \in [0..Len(s) -> Seq(S)] :
           /\ Kept(s, T) = kept[Len(s)]
           /\ kept[0] = <<>>
           /\ \A n \in 1..Len(s) : kept[n] = IF s[n] \in T THEN Append(kept[n - 1], s[n])
                                             ELSE kept[n - 1]
<1> DEFINE X == Seq(S)
           N == Len(s)
           After(m, x) == IF s[m] \in T THEN Append(x, s[m]) ELSE x
           step == [y \in (1..N) \X X |-> After(y[1], y[2])]
           Obeys(k, f) == f[0] = <<>> /\ \A m \in 1..k : f[m] = After(m, f[m - 1])
<1>1. N \in Nat /\ <<>> \in X
  BY LenProperties
<1>2. \A m \in 1..N, x \in X : After(m, x) \in X
  BY ElementOfSeq, AppendProperties
<1> DEFINE h == CHOOSE kept : KeptOf(s, T, kept)
<1>3. Kept(s, T) = h[N]
  BY DEF Kept, KeptOf
<1>4. \A f \in [0..N -> X] : Obeys(N, f) => KeptOf(s, T, f)
  <2> SUFFICES ASSUME NEW f \in [0..N -> X], Obeys(N, f) PROVE KeptOf(s, T, f)
    OBVIOUS
  <2>1. f = [n \in 0..N |-> f[n]]
    OBVIOUS
  <2>2. ASSUME NEW n \in 0..N
        PROVE  f[n] = IF n = 0 THEN <<>> ELSE After(n, f[n - 1])
    <3> HIDE DEF After, h
    <3> QED BY <1>1
  <2> QED BY <2>1, <2>2 DEF KeptOf
<1>5. KeptOf(s, T, h) => Obeys(N, h)
  <2> SUFFICES ASSUME h = [n \in 0..N |-> IF n = 0 THEN <<>> ELSE After(n, h[n - 1])]
               PROVE  Obeys(N, h)
    BY DEF KeptOf
  <2> HIDE DEF h, After
  <2> QED BY <1>1
<1>6. (\E kept : KeptOf(s, T, kept)) => KeptOf(s, T, h)
  OBVIOUS
<1> HIDE DEF X, N, After, h
<1>7. step \in Steps(N, X)
  BY <1>2 DEF Steps
<1>8. PICK f : Iterates(f, N, X, <<>>, step)
  <2> HIDE DEF step
  <2> QED BY <1>1, <1>7, Iteration
<1>9. Obeys(N, f)
  <2> SUFFICES ASSUME NEW m \in 1..N PROVE f[m] = After(m, f[m - 1])
    BY <1>8 DEF Iterates
  <2>1. f[m - 1] \in X /\ f[m] = step[<<m, f[m - 1]>>]
    <3> HIDE DEF step
    <3>1. f \in [0..N -> X] /\ m - 1 \in 0..N
      BY <1>1, <1>8 DEF Iterates
    <3> QED BY <3>1, <1>8 DEF Iterates
  <2> QED BY <2>1
<1>10. Obeys(N, h)
  BY <1>8, <1>4, <1>5, <1>6, <1>9 DEF Iterates
<1> DEFINE D == {n \in Nat : n <= N => h[n] = f[n]}
<1>11. 0 \in D
  BY <1>9, <1>10
<1>12. ASSUME NEW n \in Nat, n \in D PROVE n + 1 \in D
  <2> SUFFICES ASSUME n + 1 <= N PROVE h[n + 1] = f[n + 1]
    OBVIOUS
  <2>1. n + 1 \in 1..N /\ (n + 1) - 1 = n /\ h[n] = f[n]
    BY <1>1, <1>12
  <2>2. h[n + 1] = After(n + 1, h[n]) /\ f[n + 1] = After(n + 1, f[n])
    BY <2>1, <1>9, <1>10
  <2> QED BY <2>1, <2>2
<1>13. h[N] = f[N]
  <2> HIDE DEF D
  <2>1. N \in D
    BY <1>1, <1>11, <1>12, SetInduction
  <2> QED BY <2>1, <1>1 DEF D
<1> QED BY <1>3, <1>8, <1>9, <1>13 DEF X, N, After, Iterates

LEMMA SeqSetInduction ==
  ASSUME NEW S, NEW P, <<>> \in P,
         \A s \in Seq(S), x \in S : s \in P => Append(s, x) \in P
  PROVE  Seq(S) \subseteq P
<1> DEFINE D == {n \in Nat : \A s \in Seq(S) : Len(s) = n => s \in P}
<1>1. 0 \in D
  BY EmptySeq
<1>2. ASSUME NEW n \in Nat, n \in D PROVE n + 1 \in D
  <2> SUFFICES ASSUME NEW s \in Seq(S), Len(s) = n + 1 PROVE s \in P
    OBVIOUS
  <2>1. s # <<>>
    BY EmptySeq
  <2>2. PICK t \in Seq(S), x \in S : s = Append(t, x)
    BY <2>1, SequenceEmptyOrAppend
  <2>3. Len(t) = n
    BY <2>2, AppendProperties, LenProperties
  <2> QED BY <1>2, <2>2, <2>3
<1> HIDE DEF D
<1>3. \A n \in Nat : n \in D
  BY <1>1, <1>2, SetInduction
<1> QED BY <1>3, LenProperties DEF D

LEMMA KeptEmpty == \A T : Kept(<<>>, T) = <<>>
<1>1. ASSUME NEW S, NEW s \in Seq(S), NEW T
      PROVE  \E f : Kept(s, T) = f[Len(s)] /\ f[0] = <<>>
  BY KeptUnfolds
<1>2. ASSUME NEW T, NEW S, NEW s \in Seq(S), s = <<>> PROVE Kept(s, T) = <<>>
  <2>1. Len(s) = 0
    BY <1>2, EmptySeq
  <2> QED BY <1>1, <2>1
<1>3. <<>> \in Seq({})
  BY EmptySeq
<1> QED BY <1>2, <1>3

LEMMA KeptAppend ==
  ASSUME NEW S, NEW s \in Seq(S), NEW x \in S, NEW T
  PROVE  Kept(Append(s, x), T) = IF x \in T THEN Append(Kept(s, T), x) ELSE Kept(s, T)
<1> DEFINE t == Append(s, x)
           N == Len(s)
<1>1. /\ N \in Nat /\ t \in Seq(S) /\ Len(t) = N + 1 /\ t[N + 1] = x
      /\ \A n \in 1..N : t[n] = s[n]
  BY AppendProperties, LenProperties
<1>2. PICK f : /\ Kept(s, T) = f[N] /\ f[0] = <<>>
               /\ \A n \in 1..N : f[n] = IF s[n] \in T THEN Append(f[n - 1], s[n]) ELSE f[n - 1]
  BY KeptUnfolds
<1> HIDE DEF t, N
<1>3. PICK g : /\ Kept(t, T) = g[Len(t)] /\ g[0] = <<>>
               /\ \A n \in 1..Len(t) : g[n] = IF t[n] \in T THEN Append(g[n - 1], t[n]) ELSE g[n - 1]
  BY <1>1, KeptUnfolds
<1> DEFINE D == {n \in Nat : n <= N => f[n] = g[n]}
<1>4. 0 \in D
  BY <1>2, <1>3
<1>5. ASSUME NEW n \in Nat, n \in D PROVE n + 1 \in D
  <2> SUFFICES ASSUME n + 1 <= N PROVE f[n + 1] = g[n + 1]
    OBVIOUS
  <2>1. n + 1 \in 1..N /\ n + 1 \in 1..Len(t) /\ (n + 1) - 1 = n /\ f[n] = g[n]
    BY <1>1, <1>5
  <2>2. t[n + 1] = s[n + 1]
    BY <2>1, <1>1
  <2>3. /\ f[n + 1] = IF s[n + 1] \in T THEN Append(f[n], s[n + 1]) ELSE f[n]
        /\ g[n + 1] = IF t[n + 1] \in T THEN Append(g[n], t[n + 1]) ELSE g[n]
    BY <2>1, <1>2, <1>3
  <2> QED BY <2>1, <2>2, <2>3
<1>6. f[N] = g[N]
  <2> HIDE DEF D
  <2>1. N \in D
    BY <1>1, <1>4, <1>5, SetInduction
  <2> QED BY <2>1, <1>1 DEF D
<1>7. N + 1 \in 1..Len(t) /\ (N + 1) - 1 = N
  BY <1>1
<1>8. g[N + 1] = IF t[N + 1] \in T THEN Append(g[N], t[N + 1]) ELSE g[N]
  BY <1>3, <1>7
<1> QED BY <1>1, <1>2, <1>3, <1>6, <1>8 DEF t

\* x is in the list s, and no item is there twice.
Holds(s, x) == \E k \in DOMAIN s : s[k] = x
Once(s) == \A k, l \in DOMAIN s : s[k] = s[l] => k = l

LEMMA HoldsAppend ==
  ASSUME NEW S, NEW s \in Seq(S), NEW x \in S, NEW y
  PROVE  Holds(Append(s, x), y) <=> Holds(s, y) \/ x = y
BY AppendProperties, LenProperties DEF Holds

LEMMA OnceAppend ==
  ASSUME NEW S, NEW s \in Seq(S), NEW x \in S
  PROVE  Once(Append(s, x)) <=> Once(s) /\ ~Holds(s, x)
BY AppendProperties, LenProperties DEF Once, Holds

LEMMA KeptProperties ==
  ASSUME NEW S, NEW s \in Seq(S), NEW T
  PROVE  /\ Kept(s, T) \in Seq(S)
         /\ \A x : Holds(Kept(s, T), x) <=> Holds(s, x) /\ x \in T
         /\ Once(s) => Once(Kept(s, T))
<1> DEFINE Good(q) == /\ Kept(q, T) \in Seq(S)
                      /\ \A x : Holds(Kept(q, T), x) <=> Holds(q, x) /\ x \in T
                      /\ Once(q) => Once(Kept(q, T))
           P == {q \in Seq(S) : Good(q)}
<1>1. Good(<<>>)
  <2> SUFFICES ASSUME NEW e, e = <<>> PROVE Good(e)
    OBVIOUS
  <2>1. e \in Seq(S) /\ Kept(e, T) = e /\ DOMAIN e = {}
    BY KeptEmpty, EmptySeq
  <2> QED BY <2>1 DEF Holds, Once
<1>2. ASSUME NEW q \in Seq(S), NEW y \in S, Good(q) PROVE Good(Append(q, y))
  <2> SUFFICES ASSUME NEW r, r = Append(q, y) PROVE Good(r)
    OBVIOUS
  <2>1. /\ r \in Seq(S)
        /\ \A x : Holds(r, x) <=> Holds(q, x) \/ x = y
        /\ Once(r) <=> Once(q) /\ ~Holds(q, y)
    BY AppendProperties, HoldsAppend, OnceAppend
  <2>2. PICK k \in Seq(S) : k = Kept(q, T)
    BY <1>2
  <2>3. CASE y \in T
    <3>1. Kept(r, T) = Append(k, y)
      BY <2>2, <2>3, KeptAppend
    <3>2. /\ Append(k, y) \in Seq(S)
          /\ \A x : Holds(Append(k, y), x) <=> Holds(k, x) \/ x = y
          /\ Once(Append(k, y)) <=> Once(k) /\ ~Holds(k, y)
      BY AppendProperties, HoldsAppend, OnceAppend
    <3> QED BY <1>2, <2>1, <2>2, <2>3, <3>1, <3>2
  <2>4. CASE y \notin T
    <3>1. Kept(r, T) = k
      BY <2>2, <2>4, KeptAppend
    <3> QED BY <1>2, <2>1, <2>2, <2>4, <3>1
  <2> QED BY <2>3, <2>4
<1> HIDE DEF Good
<1>3. s \in P
  <2>1. <<>> \in P
    BY <1>1, EmptySeq
  <2>2. \A q \in Seq(S), y \in S : q \in P => Append(q, y) \in P
    BY <1>2, AppendProperties
  <2> HIDE DEF P
  <2> QED BY <2>1, <2>2, SeqSetInduction
<1> QED BY <1>3 DEF Good

LEMMA KeptSame ==
  ASSUME NEW S, NEW s \in Seq(S), NEW T, NEW U,
         \A x : Holds(s, x) => (x \in T <=> x \in U)
  PROVE  Kept(s, T) = Kept(s, U)
<1> DEFINE Good(q) == (\A x : Holds(q, x) => (x \in T <=> x \in U)) => Kept(q, T) = Kept(q, U)
           P == {q \in Seq(S) : Good(q)}
<1>1. Good(<<>>)
  BY KeptEmpty
<1>2. ASSUME NEW q \in Seq(S), NEW y \in S, Good(q) PROVE Good(Append(q, y))
  <2>1. \A x : Holds(Append(q, y), x) <=> Holds(q, x) \/ x = y
    BY HoldsAppend
  <2>2. \A V : Kept(Append(q, y), V) = IF y \in V THEN Append(Kept(q, V), y) ELSE Kept(q, V)
    BY KeptAppend
  <2> QED BY <1>2, <2>1, <2>2
<1> HIDE DEF Good
<1>3. s \in P
  <2>1. <<>> \in P
    BY <1>1, EmptySeq
  <2>2. \A q \in Seq(S), y \in S : q \in P => Append(q, y) \in P
    BY <1>2, AppendProperties
  <2> HIDE DEF P
  <2> QED BY <2>1, <2>2, SeqSetInduction
<1> QED BY <1>3 DEF Good

LEMMA KeptAll ==
  ASSUME NEW S, NEW s \in Seq(S), NEW T, \A x : Holds(s, x) => x \in T
  PROVE  Kept(s, T) = s
<1> DEFINE P == {q \in Seq(S) : (\A x : Holds(q, x) => x \in T) => Kept(q, T) = q}
<1>1. <<>> \in P
  BY KeptEmpty, EmptySeq
<1>2. ASSUME NEW q \in Seq(S), NEW y \in S, q \in P PROVE Append(q, y) \in P
  <2>1. Append(q, y) \in Seq(S)
    BY AppendProperties
  <2>2. \A x : Holds(Append(q, y), x) <=> Holds(q, x) \/ x = y
    BY HoldsAppend
  <2> QED BY <1>2, <2>1, <2>2, KeptAppend
<1> HIDE DEF P
<1>3. s \in P
  BY <1>1, <1>2, SeqSetInduction
<1> QED BY <1>3 DEF P

LEMMA KeptTwice ==
  ASSUME NEW S, NEW s \in Seq(S), NEW T, NEW U
  PROVE  Kept(Kept(s, T), U) = Kept(s, T \cap U)
<1> DEFINE P == {q \in Seq(S) : Kept(Kept(q, T), U) = Kept(q, T \cap U)}
<1>1. <<>> \in P
  BY KeptEmpty, EmptySeq
<1>2. ASSUME NEW q \in Seq(S), NEW y \in S, q \in P PROVE Append(q, y) \in P
  <2>1. Append(q, y) \in Seq(S) /\ Kept(q, T) \in Seq(S)
    BY AppendProperties, KeptProperties
  <2>2. \A V : Kept(Append(q, y), V) = IF y \in V THEN Append(Kept(q, V), y) ELSE Kept(q, V)
    BY KeptAppend
  <2>3. Kept(Append(Kept(q, T), y), U) = IF y \in U THEN Append(Kept(Kept(q, T), U), y)
                                         ELSE Kept(Kept(q, T), U)
    BY <2>1, KeptAppend
  <2> QED BY <1>2, <2>1, <2>2, <2>3
<1> HIDE DEF P
<1>3. s \in P
  BY <1>1, <1>2, SeqSetInduction
<1> QED BY <1>3 DEF P
-----------------------------------------------------------------------------
\* The item on top of the stack has left its group and is about to be freed.
Leaving(i) ==
  stack # <<>> /\ i = Top.item /\ Top.op = "delete" /\ Kids(i) = <<>> /\ m_parent[i] = NULL

\* What is not alive has left no trace: a new item at its address starts clean.
DeadIsClean ==
  \A i \in Items \ alive : /\ m_parent[i] = NULL /\ qparent[i] = NULL
                           /\ i \in SafeGroups => m_items[i] = <<>>

\* QObject's parent of an item is its group, was never set, or is the group it
\* has just left.
QtFollows ==
  \A i \in alive : qparent[i] \in {NULL, m_parent[i]} \/ (Leaving(i) /\ qparent[i] # i)

\* Only the safe, and entries, are ever in no group.
GroupsAreListed ==
  /\ m_parent[Safe] = NULL
  /\ \A g \in Groups \cap alive : m_parent[g] # NULL \/ Leaving(g)

\* The items have depths: a group is less deep than its items, and a call less
\* deep than the calls it makes.
IsDepth(d) ==
  /\ \A i \in alive : m_parent[i] # NULL => d[m_parent[i]] < d[i]
  /\ \A k, l \in DOMAIN stack : k < l => d[stack[k].item] < d[stack[l].item]

NoCycle == \E d \in [Items -> Nat] : IsDepth(d)

StackLives == \A k \in DOMAIN stack : stack[k].item \in alive

TreeInv == /\ TypeOK /\ DeadIsClean /\ QtFollows /\ GroupsAreListed
           /\ NoCycle /\ StackLives /\ LinksAgree

\* What the calls under way have done so far.
Root == stack[1].item
ListedNow == {i \in alive : m_parent[i] # NULL}

ClosedBefore(S) == \A g \in SafeGroups \cap S, x \in Items : Holds(before.items[g], x) => x \in S

OnlyGoing ==
  /\ alive \subseteq before.alive /\ before.alive \ alive \subseteq before.going
  /\ stack[1].op = "delete" <=> Root \in before.going
  /\ stack[1].op = "empty" => Root = Safe
  /\ \A k \in 2..Len(stack) : stack[k].op = "delete" /\ stack[k].item \in before.going

GoingIsLeast ==
  /\ \A g \in SafeGroups \cap (before.going \cup {Root}), x \in Items :
       Holds(before.items[g], x) => x \in before.going
  /\ \A S \in SUBSET before.alive : Root \in S /\ ClosedBefore(S) => before.going \subseteq S

ListsAreKept ==
  /\ \A g \in SafeGroups \cap alive : m_items[g] = Kept(before.items[g], ListedNow)
  /\ \A g \in SafeGroups \cap before.alive, x \in Items : Holds(before.items[g], x) =>
       /\ x # g /\ x \in before.alive
       /\ x \in alive => g \in alive /\ (m_parent[x] = g \/ Leaving(x))

CallInv == stack # <<>> => OnlyGoing /\ GoingIsLeast /\ ListsAreKept

-----------------------------------------------------------------------------
\* LinksAgree in terms of Holds and Once, in this state and the next.
Linked ==
  /\ \A i \in alive : m_parent[i] # NULL => /\ m_parent[i] \in alive
                                           /\ Holds(m_items[m_parent[i]], i)
  /\ \A g \in SafeGroups \cap alive : /\ \A x : Holds(m_items[g], x) => x \in alive /\ m_parent[x] = g
                                     /\ Once(m_items[g])

LEMMA LinkedIsLinks == (LinksAgree <=> Linked) /\ (LinksAgree' <=> Linked')
<1>1. LinksAgree => Linked
  BY DEF LinksAgree, Linked, Holds, Once
<1>2. Linked => LinksAgree
  BY DEF LinksAgree, Linked, Holds, Once
<1>3. LinksAgree' => Linked'
  BY DEF LinksAgree, Linked, Holds, Once
<1>4. Linked' => LinksAgree'
  BY DEF LinksAgree, Linked, Holds, Once
<1> QED BY <1>1, <1>2, <1>3, <1>4

LEMMA Addresses ==
  /\ Safe \in SafeGroups /\ Groups \subseteq SafeGroups /\ SafeGroups \subseteq Items
  /\ Entries \subseteq Items /\ Entries \cap SafeGroups = {} /\ NULL \notin Items
BY ItemsAssumption DEF Items, SafeGroups

LEMMA InitTree == Init => TreeInv
<1> SUFFICES ASSUME Init PROVE TreeInv
  OBVIOUS
<1> USE Addresses DEF Init
<1>1. TypeOK
  BY DEF TypeOK, NoCall
<1>2. DeadIsClean /\ QtFollows /\ GroupsAreListed /\ StackLives
  BY ItemsAssumption DEF DeadIsClean, QtFollows, GroupsAreListed, StackLives
<1>3. NoCycle
  <2>1. [i \in Items |-> 0] \in [Items -> Nat] /\ IsDepth([i \in Items |-> 0])
    BY DEF IsDepth
  <2> QED BY <2>1 DEF NoCycle
<1>4. LinksAgree
  BY DEF LinksAgree
<1> QED BY <1>1, <1>2, <1>3, <1>4 DEF TreeInv

\* An item joins a group that is there: a new item, or an entry that is in none.
Joins(p, i, q) ==
  /\ stack = <<>> /\ UNCHANGED <<stack, before>>
  /\ p \in SafeGroups \cap alive /\ i \in Items \ {Safe} /\ q \in {NULL, p}
  /\ i \in alive => i \in Entries /\ m_parent[i] = NULL
  /\ alive' = alive \cup {i}
  /\ m_items' = [m_items EXCEPT ![p] = Append(@, i)]
  /\ m_parent' = [m_parent EXCEPT ![i] = p]
  /\ m_safe' = [m_safe EXCEPT ![i] = m_safe[p]]
  /\ qparent' = [qparent EXCEPT ![i] = q]

LEMMA JoinKeepsTree ==
  ASSUME TreeInv, NEW p, NEW i, NEW q, Joins(p, i, q)
  PROVE  TreeInv'
<1> USE Addresses DEF Joins
<1>1. TypeOK'
  <2>1. Append(m_items[p], i) \in Seq(Items)
    BY AppendProperties DEF TreeInv, TypeOK
  <2> QED BY <2>1 DEF TreeInv, TypeOK
<1>2. p # i /\ p \in Items /\ i \in Items /\ stack' = <<>>
  <2>1. p # i
    BY DEF TreeInv, GroupsAreListed
  <2> QED BY <2>1
<1>3. DeadIsClean'
  BY <1>2 DEF TreeInv, TypeOK, DeadIsClean
<1>4. \A j \in alive : qparent[j] \in {NULL, m_parent[j]}
  BY DEF TreeInv, QtFollows, Leaving
<1>5. QtFollows'
  BY <1>2, <1>4 DEF TreeInv, TypeOK, QtFollows
<1>6. GroupsAreListed'
  BY <1>2 DEF TreeInv, TypeOK, GroupsAreListed, Leaving
<1>7. StackLives'
  BY <1>2 DEF TreeInv, StackLives
<1>8. \A j \in alive : m_parent[j] # i
  BY LinkedIsLinks DEF TreeInv, TypeOK, Linked
<1>9. NoCycle'
  <2>1. PICK d \in [Items -> Nat] : IsDepth(d)
    BY DEF TreeInv, NoCycle
  <2> DEFINE e == [d EXCEPT ![i] = d[p] + 1]
  <2>2. e \in [Items -> Nat]
    BY <1>2, <2>1
  <2>3. IsDepth(e)'
    <3>1. ASSUME NEW j \in alive', m_parent'[j] # NULL PROVE e[m_parent'[j]] < e[j]
      <4>1. CASE j = i
        <5>1. m_parent'[j] = p /\ e[j] = d[p] + 1 /\ e[p] = d[p] /\ d[p] \in Nat
          BY <4>1, <1>2, <2>1 DEF TreeInv, TypeOK
        <5> QED BY <5>1
      <4>2. CASE j # i
        <5>1. j \in alive /\ j \in Items /\ m_parent'[j] = m_parent[j] /\ m_parent[j] \in SafeGroups
          BY <4>2, <3>1 DEF TreeInv, TypeOK
        <5>2. e[j] = d[j] /\ e[m_parent[j]] = d[m_parent[j]]
          BY <5>1, <4>2, <1>8, <2>1
        <5> QED BY <5>1, <5>2, <3>1, <2>1 DEF IsDepth
      <4> QED BY <4>1, <4>2
    <3>2. DOMAIN stack' = {}
      BY <1>2
    <3> HIDE DEF e
    <3> QED BY <3>1, <3>2 DEF IsDepth
  <2> QED BY <2>2, <2>3 DEF NoCycle
<1>10. Linked'
  <2>1. \A x : Holds(m_items'[p], x) <=> Holds(m_items[p], x) \/ x = i
    BY HoldsAppend, <1>2 DEF TreeInv, TypeOK
  <2>2. ~Holds(m_items[p], i)
    BY LinkedIsLinks, <1>2 DEF TreeInv, Linked
  <2>3. Once(m_items'[p])
    BY <2>2, OnceAppend, LinkedIsLinks, <1>2 DEF TreeInv, TypeOK, Linked
  <2>4. \A g \in SafeGroups : g # p => m_items'[g] = m_items[g]
    BY DEF TreeInv, TypeOK
  <2>5. \A j \in Items : j # i => m_parent'[j] = m_parent[j]
    BY DEF TreeInv, TypeOK
  <2>6. m_parent'[i] = p
    BY DEF TreeInv, TypeOK
  <2>7. Linked
    BY LinkedIsLinks DEF TreeInv
  <2>8. alive \subseteq Items /\ (i \in SafeGroups => i \notin alive)
    BY DEF TreeInv, TypeOK
  <2>9. i \in SafeGroups => m_items'[i] = <<>>
    BY <2>8, <2>4, <1>2 DEF TreeInv, DeadIsClean
  <2>10. ASSUME NEW j \in alive', m_parent'[j] # NULL
         PROVE  m_parent'[j] \in alive' /\ Holds(m_items'[m_parent'[j]], j)
    <3>1. CASE j = i
      BY <3>1, <2>6, <2>1
    <3>2. CASE j # i
      <4>1. j \in alive /\ m_parent'[j] = m_parent[j]
        BY <3>2, <2>5, <2>8
      <4>2. m_parent[j] \in alive /\ Holds(m_items[m_parent[j]], j) /\ m_parent[j] \in SafeGroups
        BY <4>1, <2>7, <2>10 DEF Linked, TreeInv, TypeOK
      <4> QED BY <4>1, <4>2, <2>1, <2>4
    <3> QED BY <3>1, <3>2
  <2>11. ASSUME NEW g \in SafeGroups \cap alive'
         PROVE  /\ \A x : Holds(m_items'[g], x) => x \in alive' /\ m_parent'[x] = g
                /\ Once(m_items'[g])
    <3>1. CASE g = p
      BY <3>1, <2>1, <2>3, <2>5, <2>6, <2>7, <2>8 DEF Linked
    <3>2. CASE g = i
      BY <3>2, <2>9, <2>8 DEF Holds, Once
    <3>3. CASE g # p /\ g # i
      <4>1. g \in alive /\ m_items'[g] = m_items[g]
        BY <3>3, <2>4
      <4>2. \A x : Holds(m_items[g], x) => x \in alive /\ m_parent[x] = g /\ x # i
        BY <4>1, <2>7, <2>8, <3>3, <1>2 DEF Linked, TreeInv, DeadIsClean
      <4> QED BY <4>1, <4>2, <2>5, <2>7, <2>8 DEF Linked
    <3> QED BY <3>1, <3>2, <3>3
  <2> QED BY <2>10, <2>11 DEF Linked
<1> QED BY <1>1, <1>3, <1>5, <1>6, <1>7, <1>9, <1>10, LinkedIsLinks DEF TreeInv

LEMMA CreateKeepsTree ==
  ASSUME TreeInv, Idle, NEW p \in SafeGroups \cap alive, NEW i \in Groups \cup Entries,
         Construct(p, i)
  PROVE  TreeInv'
<1> USE Addresses
<1>1. m_items[p] \in Seq(Items) /\ i \in Items \ {Safe} /\ i \notin alive
  BY ItemsAssumption DEF TreeInv, TypeOK, Construct
<1>2. ~Holds(m_items[p], i) /\ Holds(Append(m_items[p], i), i)
  BY <1>1, LinkedIsLinks, HoldsAppend DEF TreeInv, Linked
<1>3. Listed(m_items[p], i) = Append(m_items[p], i)
  BY <1>2 DEF Listed, Holds
<1>4. Listed(Listed(m_items[p], i), i) = Append(m_items[p], i)
  <2> DEFINE s == Append(m_items[p], i)
  <2>1. Listed(s, i) = s
    <3> HIDE DEF s
    <3> QED BY <1>2 DEF Listed, Holds, s
  <2> QED BY <2>1, <1>3
<1>5. Joins(p, i, p)
  BY <1>1, <1>3, <1>4 DEF Idle, Construct, Joins
<1> QED BY <1>5, JoinKeepsTree

LEMMA AddItemKeepsTree == TreeInv /\ AddItem => TreeInv'
<1> SUFFICES ASSUME TreeInv, AddItem PROVE TreeInv'
  OBVIOUS
<1>1. PICK e \in Loose, p \in SafeGroups \cap alive :
        /\ m_items' = [m_items EXCEPT ![p] = Append(@, e)]
        /\ m_parent' = [m_parent EXCEPT ![e] = p]
        /\ m_safe' = [m_safe EXCEPT ![e] = m_safe[p]]
  BY DEF AddItem
<1>2. stack = <<>> /\ UNCHANGED <<alive, qparent, stack, before>>
  BY DEF AddItem, Idle
<1>3. e \in alive \ {Safe} /\ m_parent[e] = NULL /\ e \in Items
  BY DEF Loose, TreeInv, TypeOK
<1>4. e \in Entries
  BY <1>2, <1>3 DEF TreeInv, GroupsAreListed, Leaving, Items, SafeGroups
<1>5. qparent[e] = NULL
  BY <1>2, <1>3 DEF TreeInv, QtFollows, Leaving
<1>6. qparent' = [qparent EXCEPT ![e] = NULL]
  BY <1>2, <1>3, <1>5 DEF TreeInv, TypeOK
<1>7. alive' = alive \cup {e}
  BY <1>2, <1>3
<1>8. Joins(p, e, NULL)
  BY <1>1, <1>2, <1>3, <1>4, <1>6, <1>7 DEF Joins
<1> QED BY <1>8, JoinKeepsTree

\* A safe, or an entry in no group, appears.
LEMMA AppearKeepsTree ==
  ASSUME TreeInv, stack = <<>>, NEW i \in (Entries \cup {Safe}) \ alive,
         alive' = alive \cup {i}, m_safe' \in [Items -> {Safe, NULL}],
         UNCHANGED <<m_items, m_parent, qparent, stack, before>>
  PROVE  TreeInv'
<1> USE Addresses
<1>1. i \in Items /\ m_parent[i] = NULL /\ qparent[i] = NULL /\ (i \in SafeGroups => m_items[i] = <<>>)
  BY DEF TreeInv, DeadIsClean
<1>2. TypeOK'
  BY <1>1 DEF TreeInv, TypeOK
<1>3. DeadIsClean' /\ StackLives'
  BY DEF TreeInv, DeadIsClean, StackLives
<1>4. QtFollows'
  BY <1>1 DEF TreeInv, QtFollows, Leaving
<1>5. GroupsAreListed'
  BY <1>1, ItemsAssumption DEF TreeInv, GroupsAreListed, Leaving
<1>6. NoCycle'
  <2>1. PICK d \in [Items -> Nat] : IsDepth(d)
    BY DEF TreeInv, NoCycle
  <2>2. IsDepth(d)'
    BY <2>1, <1>1 DEF IsDepth
  <2> QED BY <2>2 DEF NoCycle
<1>7. Linked'
  <2>1. Linked
    BY LinkedIsLinks DEF TreeInv
  <2>2. DOMAIN <<>> = {}
    OBVIOUS
  <2>3. i \in SafeGroups => (\A x : ~Holds(m_items[i], x)) /\ Once(m_items[i])
    BY <1>1, <2>2 DEF Holds, Once
  <2> QED BY <2>1, <2>3, <1>1 DEF Linked
<1> QED BY <1>2, <1>3, <1>4, <1>5, <1>6, <1>7, LinkedIsLinks DEF TreeInv

\* A deletion begins: the call is the only one on the stack.
LEMMA Pushed ==
  ASSUME stack \in Seq(Frames), NEW op \in {"delete", "empty"}, NEW i \in Items, Call(op, i)
  PROVE  /\ stack' \in Seq(Frames) /\ Len(stack) \in Nat /\ Len(stack') = Len(stack) + 1
         /\ DOMAIN stack = 1..Len(stack) /\ DOMAIN stack' = 1..Len(stack) + 1
         /\ \A k \in 1..Len(stack) : stack'[k] = stack[k]
         /\ stack'[Len(stack) + 1] = [op |-> op, item |-> i]
         /\ stack' # <<>> /\ Top' = [op |-> op, item |-> i]
<1>1. [op |-> op, item |-> i] \in Frames
  BY DEF Frames
<1>2. /\ stack' \in Seq(Frames) /\ Len(stack) \in Nat /\ Len(stack') = Len(stack) + 1
      /\ stack' # <<>>
      /\ \A k \in 1..Len(stack) : stack'[k] = stack[k]
      /\ stack'[Len(stack) + 1] = [op |-> op, item |-> i]
  BY <1>1, AppendProperties, LenProperties DEF Call
<1> QED BY <1>2, LenProperties DEF Top

LEMMA BeginKeepsTree ==
  ASSUME TreeInv, stack = <<>>, NEW op \in {"delete", "empty"}, NEW i \in alive,
         NEW going \in SUBSET Items, Begin(op, i, going)
  PROVE  TreeInv'
<1> USE DEF Begin
<1>1. i \in Items /\ Len(stack) = 0 /\ stack \in Seq(Frames)
  BY DEF TreeInv, TypeOK
<1>2. /\ stack' \in Seq(Frames) /\ DOMAIN stack' = {1}
      /\ stack'[1] = [op |-> op, item |-> i]
  BY <1>1, Pushed
<1>3. TypeOK'
  BY <1>2 DEF TreeInv, TypeOK
<1>4. DeadIsClean' /\ StackLives'
  BY <1>2 DEF TreeInv, DeadIsClean, StackLives
<1>5. \A j \in alive : ~Leaving(j)
  BY DEF Leaving
<1>6. QtFollows' /\ GroupsAreListed'
  BY <1>5 DEF TreeInv, QtFollows, GroupsAreListed
<1>7. NoCycle'
  <2>1. PICK d \in [Items -> Nat] : IsDepth(d)
    BY DEF TreeInv, NoCycle
  <2>2. IsDepth(d)'
    BY <2>1, <1>2 DEF IsDepth
  <2> QED BY <2>2 DEF NoCycle
<1>8. Linked'
  BY LinkedIsLinks DEF TreeInv, Linked
<1> QED BY <1>3, <1>4, <1>6, <1>7, <1>8, LinkedIsLinks DEF TreeInv

LEMMA Topmost ==
  ASSUME stack \in Seq(Frames), stack # <<>>
  PROVE  /\ Len(stack) \in Nat \ {0} /\ DOMAIN stack = 1..Len(stack)
         /\ Len(stack) \in DOMAIN stack /\ Top = stack[Len(stack)]
         /\ Top \in Frames /\ Top.item \in Items /\ Top.op \in {"delete", "empty"}
<1>1. Len(stack) \in Nat \ {0} /\ DOMAIN stack = 1..Len(stack) /\ Len(stack) \in 1..Len(stack)
  BY EmptySeq, LenProperties
<1>2. Top \in Frames
  BY <1>1, ElementOfSeq DEF Top
<1> QED BY <1>1, <1>2 DEF Top, Frames

LEMMA Popped ==
  ASSUME stack \in Seq(Frames), stack # <<>>, Pop
  PROVE  /\ stack' \in Seq(Frames) /\ Len(stack') = Len(stack) - 1
         /\ DOMAIN stack' = 1..Len(stack) - 1
         /\ \A k \in 1..Len(stack) - 1 : stack'[k] = stack[k]
<1>1. Len(stack) \in Nat \ {0}
  BY Topmost
<1>2. \A k \in 1..Len(stack) - 1 : stack[k] \in Frames
  BY <1>1, ElementOfSeq
<1>3. /\ stack' \in Seq(Frames) /\ Len(stack') = Len(stack) - 1
      /\ \A k \in 1..Len(stack) - 1 : stack'[k] = stack[k]
  <2> DEFINE n == Len(stack) - 1
  <2>1. stack' = SubSeq(stack, 1, n) /\ n \in Nat
    BY <1>1 DEF Pop
  <2> HIDE DEF n
  <2>2. \A k \in 1..n : stack[k] \in Frames
    BY <1>2 DEF n
  <2>3. /\ SubSeq(stack, 1, n) \in Seq(Frames)
        /\ Len(SubSeq(stack, 1, n)) = IF 1 <= n THEN n - 1 + 1 ELSE 0
        /\ \A k \in 1..n - 1 + 1 : SubSeq(stack, 1, n)[k] = stack[1 + k - 1]
    BY <2>1, <2>2, SubSeqProperties
  <2>4. Len(stack') = n /\ \A k \in 1..n : stack'[k] = stack[k]
    BY <2>1, <2>3
  <2> QED BY <2>1, <2>3, <2>4 DEF n
<1> QED BY <1>3, LenProperties

LEMMA ListOfTop ==
  ASSUME TreeInv, stack # <<>>, Kids(Top.item) # <<>>
  PROVE  /\ Top.item \in SafeGroups \cap alive
         /\ Holds(m_items[Top.item], Head(Kids(Top.item)))
         /\ Head(Kids(Top.item)) \in alive
         /\ m_parent[Head(Kids(Top.item))] = Top.item
<1>1. Top.item \in SafeGroups \cap alive
  BY Topmost DEF TreeInv, TypeOK, StackLives, Kids
<1>2. m_items[Top.item] \in Seq(Items) /\ m_items[Top.item] # <<>>
  BY <1>1 DEF TreeInv, TypeOK, Kids
<1>3. 1 \in DOMAIN m_items[Top.item] /\ Head(Kids(Top.item)) = m_items[Top.item][1]
  BY <1>1, <1>2, EmptySeq, LenProperties DEF Kids
<1> QED BY <1>1, <1>3, LinkedIsLinks DEF TreeInv, Linked, Holds

LEMMA EmptyNextKeepsTree == TreeInv /\ EmptyNext => TreeInv'
<1> SUFFICES ASSUME TreeInv, EmptyNext PROVE TreeInv'
  OBVIOUS
<1> DEFINE h == Head(Kids(Top.item))
<1>1. /\ stack # <<>> /\ Call("delete", h) /\ Kids(Top.item) # <<>>
      /\ UNCHANGED <<alive, m_items, m_parent, m_safe, qparent, before>>
  BY DEF EmptyNext
<1>2. /\ Top.item \in SafeGroups \cap alive /\ h \in alive /\ h \in Items
      /\ m_parent[h] = Top.item
  BY <1>1, ListOfTop DEF TreeInv, TypeOK
<1> HIDE DEF h
<1>3. stack \in Seq(Frames)
  BY DEF TreeInv, TypeOK
<1> DEFINE n == Len(stack)
<1>4. /\ stack' \in Seq(Frames) /\ n \in Nat \ {0} /\ DOMAIN stack = 1..n /\ DOMAIN stack' = 1..n + 1
      /\ \A k \in 1..n : stack'[k] = stack[k]
      /\ stack'[n + 1] = [op |-> "delete", item |-> h]
      /\ Top = stack[n]
  BY <1>1, <1>2, <1>3, Pushed, Topmost
<1> HIDE DEF n
<1>5. TypeOK'
  BY <1>1, <1>4 DEF TreeInv, TypeOK
<1>6. DeadIsClean'
  BY <1>1 DEF TreeInv, DeadIsClean
<1>7. StackLives'
  <2>1. ASSUME NEW k \in 1..n + 1 PROVE stack'[k].item \in alive
    <3>1. CASE k = n + 1
      BY <3>1, <1>4, <1>2
    <3>2. CASE k # n + 1
      BY <3>2, <1>4 DEF TreeInv, StackLives
    <3> QED BY <3>1, <3>2
  <2> QED BY <2>1, <1>1, <1>4 DEF StackLives
<1>8. \A j \in alive : ~Leaving(j)
  BY <1>1 DEF Leaving
<1>9. QtFollows' /\ GroupsAreListed'
  BY <1>1, <1>8 DEF TreeInv, QtFollows, GroupsAreListed
<1>10. NoCycle'
  <2>1. PICK d \in [Items -> Nat] : IsDepth(d)
    BY DEF TreeInv, NoCycle
  <2>2. d[Top.item] < d[h]
    BY <1>2, <2>1, Addresses DEF IsDepth
  <2>3. ASSUME NEW k \in 1..n + 1, NEW l \in 1..n + 1, k < l
        PROVE  d[stack'[k].item] < d[stack'[l].item]
    <3>1. k \in 1..n /\ stack'[k] = stack[k] /\ stack[k] \in Frames /\ stack[n] \in Frames
      BY <2>3, <1>4, <1>3, ElementOfSeq
    <3>2. CASE l = n + 1
      <4>1. stack'[l].item = h
        BY <3>2, <1>4
      <4>2. d[stack[k].item] <= d[Top.item]
        <5>1. CASE k = n
          BY <5>1, <1>4, <2>1, <3>1 DEF Frames
        <5>2. CASE k < n
          <6>1. k \in DOMAIN stack /\ n \in DOMAIN stack
            BY <1>4, <3>1
          <6>2. d[stack[k].item] < d[stack[n].item]
            BY <5>2, <6>1, <2>1 DEF IsDepth
          <6>3. d[stack[k].item] \in Nat /\ d[stack[n].item] \in Nat
            BY <2>1, <3>1 DEF Frames
          <6> QED BY <6>2, <6>3, <1>4
        <5> QED BY <5>1, <5>2, <3>1, <1>4
      <4>3. d[stack[k].item] \in Nat /\ d[Top.item] \in Nat /\ d[h] \in Nat
        BY <2>1, <3>1, <1>2, <1>4 DEF Frames
      <4> QED BY <4>1, <4>2, <4>3, <2>2, <3>1
    <3>3. CASE l # n + 1
      BY <3>1, <3>3, <2>3, <1>4, <2>1, SMTT(30) DEF IsDepth
    <3> QED BY <3>2, <3>3
  <2>4. IsDepth(d)'
    BY <2>1, <2>3, <1>1, <1>4 DEF IsDepth
  <2> QED BY <2>4 DEF NoCycle
<1>11. Linked'
  BY <1>1, LinkedIsLinks DEF TreeInv, Linked
<1> QED BY <1>5, <1>6, <1>7, <1>9, <1>10, <1>11, LinkedIsLinks DEF TreeInv

\* The calls on the stack are of different items.
LEMMA StackDiffers ==
  ASSUME TreeInv
  PROVE  DeletedOnce
<1>1. PICK d \in [Items -> Nat] : IsDepth(d)
  BY DEF TreeInv, NoCycle
<1>2. ASSUME NEW k \in DOMAIN stack, NEW l \in DOMAIN stack, stack[k].item = stack[l].item
      PROVE  k = l
  <2>1. stack \in Seq(Frames) /\ k \in Nat /\ l \in Nat
    BY LenProperties DEF TreeInv, TypeOK
  <2>2. stack[k] \in Frames /\ stack[l] \in Frames
    BY <2>1, ElementOfSeq, LenProperties
  <2>3. d[stack[k].item] \in Nat /\ d[stack[k].item] = d[stack[l].item]
    BY <1>1, <1>2, <2>2 DEF Frames
  <2>4. ~(k < l) /\ ~(l < k)
    BY <1>1, <2>3 DEF IsDepth
  <2> QED BY <2>1, <2>4
<1> QED BY <1>2 DEF DeletedOnce, TreeInv, StackLives

LEMMA EmptyDoneKeepsTree == TreeInv /\ EmptyDone => TreeInv'
<1> SUFFICES ASSUME TreeInv, EmptyDone PROVE TreeInv'
  OBVIOUS
<1>1. /\ stack # <<>> /\ Top.op = "empty" /\ Pop
      /\ UNCHANGED <<alive, m_items, m_parent, m_safe, qparent>>
  BY DEF EmptyDone
<1>2. stack \in Seq(Frames)
  BY DEF TreeInv, TypeOK
<1> DEFINE n == Len(stack)
<1>3. /\ stack' \in Seq(Frames) /\ n \in Nat \ {0} /\ DOMAIN stack = 1..n
      /\ DOMAIN stack' = 1..n - 1 /\ \A k \in 1..n - 1 : stack'[k] = stack[k]
  BY <1>1, <1>2, Popped, Topmost
<1> HIDE DEF n
<1>4. TypeOK'
  BY <1>1, <1>3 DEF TreeInv, TypeOK, Pop, NoCall
<1>5. DeadIsClean' /\ StackLives'
  BY <1>1, <1>3 DEF TreeInv, DeadIsClean, StackLives
<1>6. \A i \in alive : ~Leaving(i)
  BY <1>1 DEF Leaving
<1>7. QtFollows' /\ GroupsAreListed'
  BY <1>1, <1>6 DEF TreeInv, QtFollows, GroupsAreListed
<1>8. NoCycle'
  <2>1. PICK d \in [Items -> Nat] : IsDepth(d)
    BY DEF TreeInv, NoCycle
  <2>2. IsDepth(d)'
    BY <2>1, <1>1, <1>3 DEF IsDepth
  <2> QED BY <2>2 DEF NoCycle
<1>9. Linked'
  BY <1>1, LinkedIsLinks DEF TreeInv, Linked
<1> QED BY <1>4, <1>5, <1>7, <1>8, <1>9, LinkedIsLinks DEF TreeInv

\* What takeItem leaves of the lists.
LEMMA TakenOut ==
  ASSUME TreeInv, LeaveGroup
  PROVE  LET t == Top.item
             p == m_parent[t]
         IN  /\ t \in alive /\ t \in Items /\ p \in SafeGroups \cap alive /\ p # t
             /\ stack # <<>> /\ Kids(t) = <<>> /\ Top.op = "delete"
             /\ m_parent' = [m_parent EXCEPT ![t] = NULL]
             /\ m_items' = [m_items EXCEPT ![p] = Kept(m_items[p], Items \ {t})]
             /\ m_items'[p] \in Seq(Items)
             /\ \A x : Holds(m_items'[p], x) <=> Holds(m_items[p], x) /\ x # t
             /\ Once(m_items'[p])
             /\ \A g \in SafeGroups \ {p} : m_items'[g] = m_items[g]
             /\ UNCHANGED <<alive, qparent, stack, before>>
<1> DEFINE t == Top.item
           p == m_parent[t]
<1>1. /\ stack # <<>> /\ Kids(t) = <<>> /\ Top.op = "delete" /\ p # NULL
      /\ UNCHANGED <<alive, qparent, stack, before>>
      /\ m_parent' = [m_parent EXCEPT ![t] = NULL]
      /\ m_items' = [m_items EXCEPT ![p] = Kept(m_items[p], Items \ {t})]
  BY DEF LeaveGroup, Destructing, TakeOut, Without
<1>2. t \in alive /\ t \in Items /\ p \in SafeGroups
  BY <1>1, Topmost DEF TreeInv, TypeOK, StackLives
<1> HIDE DEF t
<1>3. p \in alive /\ Once(m_items[p])
  BY <1>1, <1>2, LinkedIsLinks DEF TreeInv, Linked
<1>4. p # t
  <2>1. PICK d \in [Items -> Nat] : IsDepth(d)
    BY DEF TreeInv, NoCycle
  <2>2. d[p] < d[t] /\ d[t] \in Nat
    BY <2>1, <1>1, <1>2 DEF IsDepth
  <2> QED BY <2>2
<1>5. m_items[p] \in Seq(Items) /\ m_items'[p] = Kept(m_items[p], Items \ {t})
  BY <1>1, <1>2 DEF TreeInv, TypeOK
<1> HIDE DEF p
<1>6. /\ m_items'[p] \in Seq(Items)
      /\ \A x : Holds(m_items'[p], x) <=> Holds(m_items[p], x) /\ x \in Items \ {t}
      /\ Once(m_items'[p])
  BY <1>3, <1>5, KeptProperties
<1>7. \A x : Holds(m_items[p], x) => x \in Items
  BY <1>2, <1>3, LinkedIsLinks DEF TreeInv, Linked, TypeOK
<1>8. \A g \in SafeGroups \ {p} : m_items'[g] = m_items[g]
  BY <1>1, <1>2 DEF TreeInv, TypeOK
<1> QED BY <1>1, <1>2, <1>3, <1>4, <1>6, <1>7, <1>8 DEF t, p

LEMMA LeaveKeepsTree == TreeInv /\ LeaveGroup => TreeInv'
<1> SUFFICES ASSUME TreeInv, LeaveGroup, NEW t, t = Top.item, NEW p, p = m_parent[t]
             PROVE  TreeInv'
  OBVIOUS
<1>1. /\ t \in alive /\ t \in Items /\ p \in SafeGroups \cap alive /\ p # t
      /\ stack # <<>> /\ Kids(t) = <<>> /\ Top.op = "delete"
      /\ m_parent' = [m_parent EXCEPT ![t] = NULL]
      /\ m_items' = [m_items EXCEPT ![p] = Kept(m_items[p], Items \ {t})]
      /\ m_items'[p] \in Seq(Items)
      /\ \A x : Holds(m_items'[p], x) <=> Holds(m_items[p], x) /\ x # t
      /\ Once(m_items'[p])
      /\ \A g \in SafeGroups \ {p} : m_items'[g] = m_items[g]
      /\ UNCHANGED <<alive, qparent, stack, before>>
  BY TakenOut
<1>2. Top' = Top /\ Top'.item = t
  BY <1>1 DEF Top
<1>3. Kids(t)' = <<>>
  <2>1. t \in SafeGroups => m_items[t] = <<>>
    BY <1>1 DEF Kids
  <2> QED BY <2>1, <1>1 DEF Kids
<1>4. TypeOK'
  <2>1. m_safe' = [m_safe EXCEPT ![t] = NULL]
    BY DEF LeaveGroup, TakeOut
  <2>2. m_items' \in [SafeGroups -> Seq(Items)]
    BY <1>1 DEF TreeInv, TypeOK
  <2> QED BY <2>1, <2>2, <1>1 DEF TreeInv, TypeOK
<1>5. m_parent'[t] = NULL /\ \A i \in Items \ {t} : m_parent'[i] = m_parent[i]
  BY <1>1 DEF TreeInv, TypeOK
<1>6. Leaving(t)'
  BY <1>1, <1>2, <1>3, <1>5 DEF Leaving
<1>7. \A i \in alive : ~Leaving(i)
  BY <1>1, ItemsAssumption, Addresses DEF Leaving
<1>8. DeadIsClean'
  BY <1>1, <1>5 DEF TreeInv, DeadIsClean
<1>9. StackLives'
  BY <1>1 DEF TreeInv, StackLives
<1>10. QtFollows'
  <2>1. qparent[t] # t
    BY <1>1, <1>7, Addresses DEF TreeInv, QtFollows
  <2>2. ASSUME NEW i \in alive, i # t PROVE qparent'[i] \in {NULL, m_parent'[i]}
    BY <2>2, <1>1, <1>5, <1>7 DEF TreeInv, TypeOK, QtFollows
  <2> QED BY <2>1, <2>2, <1>1, <1>6 DEF QtFollows
<1>11. GroupsAreListed'
  BY <1>1, <1>5, <1>6, <1>7, Addresses DEF TreeInv, GroupsAreListed, TypeOK
<1>12. NoCycle'
  <2>1. PICK d \in [Items -> Nat] : IsDepth(d)
    BY DEF TreeInv, NoCycle
  <2>2. IsDepth(d)'
    BY <2>1, <1>1, <1>5 DEF IsDepth, TreeInv, TypeOK
  <2> QED BY <2>2 DEF NoCycle
<1>13. Linked'
  <2>1. Linked
    BY LinkedIsLinks DEF TreeInv
  <2>2. ASSUME NEW i \in alive, m_parent'[i] # NULL
        PROVE  m_parent'[i] \in alive /\ Holds(m_items'[m_parent'[i]], i)
    <3>1. i # t /\ m_parent'[i] = m_parent[i] /\ m_parent[i] \in SafeGroups
      BY <2>2, <1>5 DEF TreeInv, TypeOK
    <3>2. m_parent[i] \in alive /\ Holds(m_items[m_parent[i]], i)
      BY <2>1, <2>2, <3>1 DEF Linked
    <3> QED BY <3>1, <3>2, <1>1
  <2>3. ASSUME NEW g \in SafeGroups \cap alive
        PROVE  /\ \A x : Holds(m_items'[g], x) => x \in alive /\ m_parent'[x] = g
               /\ Once(m_items'[g])
    <3>1. \A x : Holds(m_items[g], x) => x \in alive /\ m_parent[x] = g
      BY <2>1 DEF Linked
    <3>2. CASE g = p
      BY <3>1, <3>2, <1>1, <1>5 DEF TreeInv, TypeOK
    <3>3. CASE g # p
      <4>1. \A x : Holds(m_items[g], x) => x # t
        BY <3>1, <3>3
      <4> QED BY <3>1, <3>3, <4>1, <2>1, <1>1, <1>5 DEF TreeInv, TypeOK, Linked
    <3> QED BY <3>2, <3>3
  <2>4. alive' = alive
    BY <1>1
  <2> QED BY <2>2, <2>3, <2>4 DEF Linked
<1> QED BY <1>4, <1>8, <1>9, <1>10, <1>11, <1>12, <1>13, LinkedIsLinks DEF TreeInv

LEMMA NothingPointsToTop ==
  ASSUME TreeInv, Destructing, m_parent[Top.item] = NULL
  PROVE  /\ \A i \in alive : m_parent[i] # Top.item
         /\ \A i \in alive : qparent[i] # Top.item
<1>1. stack # <<>> /\ Kids(Top.item) = <<>>
  BY DEF Destructing
<1>2. Top.item \in Items /\ Top.item \in alive
  BY <1>1, Topmost DEF TreeInv, TypeOK, StackLives
<1>3. \A x : ~Holds(<<>>, x)
  <2>1. DOMAIN <<>> = {}
    OBVIOUS
  <2> QED BY <2>1 DEF Holds
<1>4. ASSUME NEW i \in alive, m_parent[i] = Top.item PROVE FALSE
  <2>1. Top.item \in SafeGroups /\ Top.item # NULL
    BY <1>2, <1>4, Addresses DEF TreeInv, TypeOK
  <2>2. Holds(m_items[Top.item], i)
    BY <1>4, <2>1, LinkedIsLinks DEF TreeInv, Linked
  <2> QED BY <1>1, <1>3, <2>1, <2>2 DEF Kids
<1>5. ASSUME NEW i \in alive, qparent[i] = Top.item PROVE FALSE
  <2>1. qparent[i] # NULL
    BY <1>2, <1>5, Addresses
  <2>2. ~Leaving(i) \/ qparent[i] # i
    BY <2>1, <1>4, <1>5 DEF TreeInv, QtFollows
  <2> QED BY <2>1, <2>2, <1>4, <1>5 DEF TreeInv, QtFollows, Leaving
<1> QED BY <1>4, <1>5

LEMMA FreeKeepsTree == TreeInv /\ Free => TreeInv'
<1> SUFFICES ASSUME TreeInv, Free PROVE TreeInv'
  OBVIOUS
<1> DEFINE t == Top.item
           n == Len(stack)
<1>1. /\ stack # <<>> /\ Kids(t) = <<>> /\ Destructing /\ m_parent[t] = NULL /\ Pop
      /\ alive' = alive \ {t} /\ qparent' = [qparent EXCEPT ![t] = NULL]
      /\ UNCHANGED <<m_items, m_parent, m_safe>>
  BY DEF Free, Destructing
<1>2. stack \in Seq(Frames)
  BY DEF TreeInv, TypeOK
<1>3. /\ stack' \in Seq(Frames) /\ n \in Nat \ {0} /\ DOMAIN stack = 1..n /\ Top = stack[n]
      /\ DOMAIN stack' = 1..n - 1 /\ \A k \in 1..n - 1 : stack'[k] = stack[k]
  BY <1>1, <1>2, Popped, Topmost
<1>4. t \in Items /\ t \in alive /\ (t \in SafeGroups => m_items[t] = <<>>)
  BY <1>1, <1>2, Topmost DEF TreeInv, StackLives, Kids
<1>5. \A i \in alive : m_parent[i] # t /\ qparent[i] # t
  BY <1>1, NothingPointsToTop
<1>6. \A i \in alive : Leaving(i) => i = t
  BY DEF Leaving
<1>7. \A k \in 1..n - 1 : stack[k].item # t
  BY <1>3, StackDiffers DEF DeletedOnce
<1> HIDE DEF t, n
<1>8. TypeOK'
  BY <1>1, <1>3, <1>4 DEF TreeInv, TypeOK, Pop, NoCall
<1>9. DeadIsClean'
  BY <1>1, <1>4 DEF TreeInv, TypeOK, DeadIsClean
<1>10. StackLives'
  BY <1>1, <1>3, <1>7 DEF TreeInv, StackLives
<1>11. QtFollows'
  BY <1>1, <1>4, <1>6 DEF TreeInv, TypeOK, QtFollows
<1>12. GroupsAreListed'
  BY <1>1, <1>6 DEF TreeInv, GroupsAreListed
<1>13. NoCycle'
  <2>1. PICK d \in [Items -> Nat] : IsDepth(d)
    BY DEF TreeInv, NoCycle
  <2>2. IsDepth(d)'
    <3>1. \A i \in alive' : m_parent'[i] # NULL => d[m_parent'[i]] < d[i]
      BY <2>1, <1>1 DEF IsDepth
    <3>2. ASSUME NEW k \in 1..n - 1, NEW l \in 1..n - 1, k < l
          PROVE  d[stack'[k].item] < d[stack'[l].item]
      <4>1. k \in DOMAIN stack /\ l \in DOMAIN stack /\ stack'[k] = stack[k] /\ stack'[l] = stack[l]
        BY <1>3
      <4> QED BY <2>1, <3>2, <4>1 DEF IsDepth
    <3> QED BY <3>1, <3>2, <1>3 DEF IsDepth
  <2> QED BY <2>2 DEF NoCycle
<1>14. Linked'
  <2>1. Linked
    BY LinkedIsLinks DEF TreeInv
  <2>2. \A g \in SafeGroups \cap alive : \A x : Holds(m_items[g], x) => x # t
    BY <2>1, <1>1, Addresses DEF Linked
  <2> QED BY <2>1, <2>2, <1>1, <1>5 DEF Linked
<1> QED BY <1>8, <1>9, <1>10, <1>11, <1>12, <1>13, <1>14, LinkedIsLinks DEF TreeInv

LEMMA StepTree == TreeInv /\ [Next]_vars => TreeInv'
<1> SUFFICES ASSUME TreeInv, [Next]_vars PROVE TreeInv'
  OBVIOUS
<1>1. alive \subseteq Items
  BY DEF TreeInv, TypeOK
<1>2. CASE CreateGroup \/ CreateEntry
  BY <1>2, CreateKeepsTree DEF CreateGroup, CreateEntry
<1>3. CASE CreateLoose
  BY <1>3, AppearKeepsTree DEF CreateLoose, Idle, TreeInv, TypeOK
<1>4. CASE AddItem
  BY <1>4, AddItemKeepsTree
<1>5. CASE RemoveRow
  <2>1. PICK p \in SafeGroups \cap alive : \E row \in DOMAIN m_items[p] :
          Begin("delete", m_items[p][row], Subtree(m_items[p][row]))
    BY <1>5 DEF RemoveRow
  <2>2. PICK row \in DOMAIN m_items[p] :
          Begin("delete", m_items[p][row], Subtree(m_items[p][row]))
    BY <2>1
  <2>3. m_items[p][row] \in alive
    BY LinkedIsLinks DEF TreeInv, Linked, Holds
  <2> QED BY <1>1, <1>5, <2>2, <2>3, BeginKeepsTree DEF RemoveRow, Idle, Subtree
<1>6. CASE DropLoose
  <2>1. PICK e \in Loose : Begin("delete", e, {e})
    BY <1>6 DEF DropLoose
  <2> QED BY <1>1, <1>6, <2>1, BeginKeepsTree DEF DropLoose, Idle, Loose
<1>7. CASE EmptySafe
  BY <1>1, <1>7, BeginKeepsTree DEF EmptySafe, Idle, Subtree
<1>8. CASE DeleteSafe
  BY <1>1, <1>8, BeginKeepsTree DEF DeleteSafe, Idle, Subtree
<1>9. CASE NewSafe
  <2>1. m_safe' \in [Items -> {Safe, NULL}]
    BY <1>9 DEF NewSafe, TreeInv, TypeOK
  <2> QED BY <1>9, <2>1, AppearKeepsTree DEF NewSafe
<1>10. CASE Destroy
  BY <1>10, EmptyNextKeepsTree, EmptyDoneKeepsTree, LeaveKeepsTree, FreeKeepsTree DEF Destroy
<1>11. CASE UNCHANGED vars
  <2>1. UNCHANGED <<alive, m_items, m_parent, m_safe, qparent, stack, before>>
    BY <1>11 DEF vars
  <2>2. \A i \in Items : Leaving(i)' <=> Leaving(i)
    BY <2>1 DEF Leaving, Top, Kids
  <2>3. TypeOK' /\ DeadIsClean' /\ StackLives' /\ LinksAgree'
    BY <2>1 DEF TreeInv, TypeOK, DeadIsClean, StackLives, LinksAgree
  <2>4. QtFollows' /\ GroupsAreListed'
    BY <2>1, <2>2, <1>1, Addresses DEF TreeInv, QtFollows, GroupsAreListed
  <2>5. \A d : IsDepth(d) => IsDepth(d)'
    BY <2>1 DEF IsDepth
  <2> QED BY <2>3, <2>4, <2>5 DEF TreeInv, NoCycle
<1> QED BY <1>2, <1>3, <1>4, <1>5, <1>6, <1>7, <1>8, <1>9, <1>10, <1>11 DEF Next

LEMMA TreeAlways == Spec => []TreeInv
BY InitTree, StepTree, PTL DEF Spec

\* TreeIsSound, the links that agree, the destructors that run once, and the
\* QObjects that find no child to delete, in every state (safe.cpp: setParent,
\* addItem, takeItem, empty, the destructors).
THEOREM TreeStaysSound == Spec => []TreeIsSound
<1>1. TreeInv => TreeIsSound
  <2> SUFFICES ASSUME TreeInv PROVE TreeIsSound
    OBVIOUS
  <2>1. QObjectFindsNone
    BY NothingPointsToTop DEF QObjectFindsNone
  <2> QED BY <2>1, StackDiffers DEF TreeInv, TreeIsSound
<1> QED BY <1>1, TreeAlways, PTL

-----------------------------------------------------------------------------
LEMMA SubtreeFacts ==
  ASSUME TreeInv, NEW i \in alive
  PROVE  /\ Subtree(i) \subseteq alive /\ i \in Subtree(i)
         /\ \A g \in SafeGroups \cap Subtree(i), x \in Items :
              Holds(m_items[g], x) => x \in Subtree(i)
         /\ \A S \in SUBSET alive :
              /\ i \in S
              /\ \A g \in SafeGroups \cap S, x \in Items : Holds(m_items[g], x) => x \in S
              => Subtree(i) \subseteq S
<1> DEFINE Closed(S) == \A g \in S : \A k \in DOMAIN Kids(g) : Kids(g)[k] \in S
<1>1. Subtree(i) = {j \in alive : \A S \in SUBSET alive : i \in S /\ Closed(S) => j \in S}
  BY DEF Subtree
<1>2. ASSUME NEW S \in SUBSET alive
      PROVE  Closed(S) <=> \A g \in SafeGroups \cap S, x \in Items : Holds(m_items[g], x) => x \in S
  <2>1. DOMAIN <<>> = {}
    OBVIOUS
  <2>2. \A g \in SafeGroups \cap S : \A k \in DOMAIN m_items[g] : m_items[g][k] \in Items
    BY LinkedIsLinks DEF TreeInv, TypeOK, Linked, Holds
  <2>3. \A g \in S : Kids(g) = IF g \in SafeGroups THEN m_items[g] ELSE <<>>
    BY DEF Kids
  <2>4. Closed(S) => \A g \in SafeGroups \cap S, x \in Items : Holds(m_items[g], x) => x \in S
    BY <2>3 DEF Holds
  <2>5. (\A g \in SafeGroups \cap S, x \in Items : Holds(m_items[g], x) => x \in S) => Closed(S)
    BY <2>1, <2>2, <2>3 DEF Holds
  <2> QED BY <2>4, <2>5
<1> HIDE DEF Closed
<1>3. ASSUME NEW g \in SafeGroups \cap Subtree(i), NEW x \in Items, Holds(m_items[g], x)
      PROVE  x \in Subtree(i)
  <2>1. g \in alive /\ x \in alive
    BY <1>1, <1>3, LinkedIsLinks DEF TreeInv, Linked
  <2>2. ASSUME NEW S \in SUBSET alive, i \in S, Closed(S) PROVE x \in S
    BY <1>1, <1>2, <1>3, <2>2
  <2> QED BY <1>1, <2>1, <2>2
<1> QED BY <1>1, <1>2, <1>3

LEMMA BeginCall ==
  ASSUME TreeInv, stack = <<>>, NEW op \in {"delete", "empty"}, NEW i \in alive, NEW going,
         Begin(op, i, going),
         \/ op = "delete" /\ going = Subtree(i)
         \/ op = "empty" /\ i = Safe /\ going = Subtree(Safe) \ {Safe}
         \/ op = "delete" /\ i \in Entries /\ going = {i}
  PROVE  CallInv'
<1> USE Addresses
<1>1. /\ alive \subseteq Items /\ stack \in Seq(Frames) /\ Len(stack) = 0
      /\ m_items \in [SafeGroups -> Seq(Items)]
  BY DEF TreeInv, TypeOK
<1>2. /\ Len(stack') = 1 /\ stack' # <<>> /\ stack'[1] = [op |-> op, item |-> i]
      /\ UNCHANGED <<alive, m_items, m_parent>>
      /\ before'.alive = alive /\ before'.items = m_items /\ before'.going = going
  BY <1>1, Pushed DEF Begin
<1>3. /\ Subtree(i) \subseteq alive /\ i \in Subtree(i)
      /\ \A g \in SafeGroups \cap Subtree(i), x \in Items : Holds(m_items[g], x) => x \in Subtree(i)
      /\ \A S \in SUBSET alive :
           /\ i \in S
           /\ \A g \in SafeGroups \cap S, x \in Items : Holds(m_items[g], x) => x \in S
           => Subtree(i) \subseteq S
  BY SubtreeFacts
<1>4. ASSUME NEW g \in SafeGroups \cap alive, NEW x, Holds(m_items[g], x)
      PROVE  x \in alive /\ m_parent[x] = g /\ m_parent[x] # NULL /\ x # g
  <2>1. x \in alive /\ m_parent[x] = g
    BY <1>4, LinkedIsLinks DEF TreeInv, Linked
  <2>2. PICK d \in [Items -> Nat] : IsDepth(d)
    BY DEF TreeInv, NoCycle
  <2>3. d[g] < d[x] /\ d[x] \in Nat
    BY <2>1, <2>2, <1>1 DEF IsDepth
  <2> QED BY <2>1, <2>3
<1>5. \A g \in SafeGroups \cap alive : ~Holds(m_items[g], Safe)
  BY <1>4 DEF TreeInv, GroupsAreListed
<1>6. OnlyGoing'
  BY <1>2, <1>3, ItemsAssumption DEF OnlyGoing, Root
<1>7. GoingIsLeast'
  <2>1. \A g \in SafeGroups \cap (going \cup {i}), x \in Items : Holds(m_items[g], x) => x \in going
    BY <1>1, <1>3, <1>5
  <2>2. \A S \in SUBSET alive :
          /\ i \in S
          /\ \A g \in SafeGroups \cap S, x \in Items : Holds(m_items[g], x) => x \in S
          => going \subseteq S
    BY <1>3
  <2> QED BY <1>2, <2>1, <2>2 DEF GoingIsLeast, ClosedBefore, Root
<1>8. ListsAreKept'
  <2>1. ASSUME NEW g \in SafeGroups \cap alive PROVE m_items[g] = Kept(m_items[g], ListedNow')
    <3>1. m_items[g] \in Seq(Items) /\ ListedNow' = {j \in alive : m_parent[j] # NULL}
      BY <1>1, <1>2 DEF ListedNow
    <3>2. \A x : Holds(m_items[g], x) => x \in ListedNow'
      BY <1>4, <3>1
    <3> QED BY <3>1, <3>2, KeptAll
  <2> QED BY <1>2, <1>4, <2>1 DEF ListsAreKept
<1> QED BY <1>6, <1>7, <1>8 DEF CallInv

LEMMA EmptyNextCall == TreeInv /\ CallInv /\ EmptyNext => CallInv'
<1> SUFFICES ASSUME TreeInv, CallInv, EmptyNext, NEW h, h = Head(Kids(Top.item)),
                    NEW n, n = Len(stack), NEW t, t = Top.item
             PROVE  CallInv'
  OBVIOUS
<1>1. /\ stack # <<>> /\ Call("delete", h) /\ Kids(t) # <<>>
      /\ UNCHANGED <<alive, m_items, m_parent, m_safe, qparent, before>>
  BY DEF EmptyNext
<1>2. /\ t \in SafeGroups \cap alive /\ h \in Items /\ Holds(m_items[t], h)
      /\ stack \in Seq(Frames)
  BY <1>1, ListOfTop DEF TreeInv, TypeOK
<1>3. /\ n \in Nat \ {0} /\ Len(stack') = n + 1 /\ stack' # <<>>
      /\ \A k \in 1..n : stack'[k] = stack[k]
      /\ stack'[n + 1] = [op |-> "delete", item |-> h]
      /\ stack'[1] = stack[1] /\ t = stack[n].item
  BY <1>1, <1>2, Pushed, Topmost
<1>4. OnlyGoing /\ GoingIsLeast /\ ListsAreKept
  BY <1>1 DEF CallInv
<1>5. h \in before.going
  <2>1. t \in before.going \cup {Root}
    <3>1. CASE n = 1
      BY <3>1, <1>3 DEF Root
    <3>2. CASE n # 1
      <4>1. n \in 2..n
        BY <3>2, <1>3
      <4> QED BY <4>1, <1>3, <1>4 DEF OnlyGoing
    <3> QED BY <3>1, <3>2
  <2>2. m_items[t] = Kept(before.items[t], ListedNow) /\ before.items[t] \in Seq(Items)
    BY <1>2, <1>4 DEF ListsAreKept, TreeInv, TypeOK
  <2>3. Holds(before.items[t], h)
    BY <1>2, <2>2, KeptProperties
  <2> QED BY <1>2, <1>4, <2>1, <2>3 DEF GoingIsLeast
<1>6. OnlyGoing'
  <2>1. ASSUME NEW k \in 2..n + 1 PROVE stack'[k].op = "delete" /\ stack'[k].item \in before.going
    <3>1. CASE k = n + 1
      BY <3>1, <1>3, <1>5
    <3>2. CASE k # n + 1
      <4>1. k \in 2..n /\ k \in 1..n
        BY <3>2, <1>3
      <4> QED BY <4>1, <1>3, <1>4 DEF OnlyGoing
    <3> QED BY <3>1, <3>2
  <2> QED BY <2>1, <1>1, <1>3, <1>4 DEF OnlyGoing, Root
<1>7. GoingIsLeast'
  BY <1>1, <1>3, <1>4 DEF GoingIsLeast, ClosedBefore, Root
<1>8. ListsAreKept'
  <2>1. \A x : ~Leaving(x)
    BY <1>1 DEF Leaving
  <2>2. ListedNow' = ListedNow
    BY <1>1 DEF ListedNow
  <2> QED BY <2>1, <2>2, <1>1, <1>4 DEF ListsAreKept
<1> QED BY <1>6, <1>7, <1>8 DEF CallInv

LEMMA LeaveCall == TreeInv /\ CallInv /\ LeaveGroup => CallInv'
<1> SUFFICES ASSUME TreeInv, CallInv, LeaveGroup, NEW t, t = Top.item, NEW p, p = m_parent[t]
             PROVE  CallInv'
  OBVIOUS
<1>1. /\ t \in alive /\ t \in Items /\ p \in SafeGroups \cap alive /\ p # t
      /\ stack # <<>> /\ Kids(t) = <<>> /\ Top.op = "delete"
      /\ m_parent' = [m_parent EXCEPT ![t] = NULL]
      /\ m_items' = [m_items EXCEPT ![p] = Kept(m_items[p], Items \ {t})]
      /\ \A g \in SafeGroups \ {p} : m_items'[g] = m_items[g]
      /\ UNCHANGED <<alive, qparent, stack, before>>
  BY TakenOut
<1>2. OnlyGoing /\ GoingIsLeast /\ ListsAreKept
  BY <1>1 DEF CallInv
<1>3. m_parent'[t] = NULL /\ \A i \in Items \ {t} : m_parent'[i] = m_parent[i]
  BY <1>1 DEF TreeInv, TypeOK
<1>4. Leaving(t)'
  <2>1. t \in SafeGroups => m_items[t] = <<>> /\ m_items'[t] = <<>>
    BY <1>1 DEF Kids
  <2> QED BY <2>1, <1>1, <1>3 DEF Leaving, Top, Kids
<1>5. \A i : ~Leaving(i)
  BY <1>1, Addresses DEF Leaving
<1>6. alive \subseteq Items /\ before.items \in [SafeGroups -> Seq(Items)]
  BY DEF TreeInv, TypeOK
<1>7. ListedNow' = ListedNow \ {t} /\ ListedNow \subseteq Items
  BY <1>1, <1>3, <1>6 DEF ListedNow
<1>8. ASSUME NEW g \in SafeGroups \cap alive PROVE m_items'[g] = Kept(before.items[g], ListedNow \ {t})
  <2>1. m_items[g] = Kept(before.items[g], ListedNow) /\ before.items[g] \in Seq(Items)
    BY <1>2, <1>6 DEF ListsAreKept
  <2>2. CASE g = p
    <3>1. m_items'[g] = Kept(Kept(before.items[g], ListedNow), Items \ {t})
      BY <1>1, <2>1, <2>2 DEF TreeInv, TypeOK
    <3>2. ListedNow \cap (Items \ {t}) = ListedNow \ {t}
      BY <1>7
    <3> QED BY <2>1, <3>1, <3>2, KeptTwice
  <2>3. CASE g # p
    <3>1. m_items'[g] = m_items[g] /\ ~Holds(m_items[g], t)
      BY <1>1, <2>3, LinkedIsLinks DEF TreeInv, Linked
    <3>2. \A x : Holds(before.items[g], x) => (x \in ListedNow <=> x \in ListedNow \ {t})
      BY <2>1, <3>1, KeptProperties
    <3> QED BY <2>1, <3>1, <3>2, KeptSame
  <2> QED BY <2>2, <2>3
<1>9. OnlyGoing' /\ GoingIsLeast'
  BY <1>1, <1>2 DEF OnlyGoing, GoingIsLeast, ClosedBefore, Root
<1>10. ListsAreKept'
  <2>1. ASSUME NEW g \in SafeGroups \cap before.alive, NEW x \in Items, Holds(before.items[g], x)
        PROVE  /\ x # g /\ x \in before.alive
               /\ x \in alive => g \in alive /\ (m_parent'[x] = g \/ Leaving(x)')
    <3>1. /\ x # g /\ x \in before.alive
          /\ x \in alive => g \in alive /\ m_parent[x] = g
      BY <2>1, <1>2, <1>5 DEF ListsAreKept
    <3> QED BY <3>1, <1>3, <1>4
  <2>2. alive' = alive /\ before' = before
    BY <1>1
  <2> QED BY <2>1, <2>2, <1>7, <1>8 DEF ListsAreKept
<1> QED BY <1>9, <1>10 DEF CallInv

\* A group whose list is empty has lost all it had.
LEMMA KidsAreGone ==
  ASSUME TreeInv, CallInv, stack # <<>>, Kids(Top.item) = <<>>, Top.item \in SafeGroups,
         NEW x \in Items, Holds(before.items[Top.item], x)
  PROVE  x \notin alive
<1> DEFINE g == Top.item
<1>1. g \in alive /\ g \in before.alive
  BY Topmost DEF TreeInv, TypeOK, StackLives, CallInv, OnlyGoing
<1>2. <<>> = Kept(before.items[g], ListedNow) /\ before.items[g] \in Seq(Items)
  BY <1>1 DEF CallInv, ListsAreKept, TreeInv, TypeOK, Kids
<1>3. \A y : Holds(<<>>, y) <=> Holds(before.items[g], y) /\ y \in ListedNow
  BY <1>2, KeptProperties
<1>4. DOMAIN <<>> = {}
  OBVIOUS
<1>5. x \notin ListedNow
  BY <1>3, <1>4 DEF Holds
<1>6. SUFFICES ASSUME x \in alive PROVE FALSE
  OBVIOUS
<1>7. m_parent[x] = NULL
  BY <1>5, <1>6 DEF ListedNow
<1>8. x # g /\ (m_parent[x] = g \/ Leaving(x))
  BY <1>1, <1>6 DEF CallInv, ListsAreKept
<1> QED BY <1>7, <1>8, Addresses DEF Leaving

LEMMA FreeCall == TreeInv /\ CallInv /\ Free => CallInv'
<1> SUFFICES ASSUME TreeInv, CallInv, Free, stack' # <<>>, NEW t, t = Top.item, NEW n, n = Len(stack)
             PROVE  CallInv'
  BY DEF CallInv
<1>1. /\ stack # <<>> /\ Kids(t) = <<>> /\ m_parent[t] = NULL /\ Pop
      /\ alive' = alive \ {t} /\ UNCHANGED <<m_items, m_parent, m_safe>>
  BY DEF Free, Destructing
<1>2. /\ stack \in Seq(Frames) /\ t \in Items /\ t \in alive
  BY <1>1, Topmost DEF TreeInv, TypeOK, StackLives
<1>3. /\ stack' \in Seq(Frames) /\ n \in Nat \ {0} /\ t = stack[n].item
      /\ Len(stack') = n - 1 /\ \A k \in 1..n - 1 : stack'[k] = stack[k]
  BY <1>1, <1>2, Popped, Topmost
<1>4. n >= 2 /\ before' = before /\ stack'[1] = stack[1]
  <2>1. Len(stack') # 0
    BY <1>3, EmptySeq
  <2> QED BY <2>1, <1>1, <1>3 DEF Pop
<1>5. OnlyGoing /\ GoingIsLeast /\ ListsAreKept
  BY <1>1 DEF CallInv
<1>6. OnlyGoing'
  <2>1. t \in before.going
    BY <1>3, <1>4, <1>5 DEF OnlyGoing
  <2>2. \A k \in 2..n - 1 : k \in 2..n /\ k \in 1..n - 1
    BY <1>3
  <2> QED BY <2>1, <2>2, <1>1, <1>3, <1>4, <1>5 DEF OnlyGoing, Root
<1>7. GoingIsLeast'
  BY <1>4, <1>5 DEF GoingIsLeast, ClosedBefore, Root
<1>8. ListedNow' = ListedNow
  BY <1>1 DEF ListedNow
<1>9. ListsAreKept'
  <2>1. ASSUME NEW g \in SafeGroups \cap before.alive, NEW x \in Items, Holds(before.items[g], x),
               x \in alive, x # t
        PROVE  g \in alive /\ g # t /\ m_parent[x] = g
    <3>1. g \in alive /\ (m_parent[x] = g \/ Leaving(x))
      BY <2>1, <1>5 DEF ListsAreKept
    <3>2. g # t
      BY <2>1, <1>1, KidsAreGone
    <3> QED BY <3>1, <3>2, <2>1 DEF Leaving
  <2> QED BY <2>1, <1>1, <1>4, <1>5, <1>8 DEF ListsAreKept
<1> QED BY <1>6, <1>7, <1>9 DEF CallInv

\* Only the call at the bottom of the stack is one of empty.
LEMMA EmptyIsBottom ==
  ASSUME TreeInv, CallInv, EmptyDone
  PROVE  /\ stack # <<>> /\ Len(stack) = 1 /\ stack' = <<>> /\ Root = Safe /\ Top.item = Safe
         /\ Root \notin before.going
<1>1. stack # <<>> /\ Top.op = "empty" /\ Pop
  BY DEF EmptyDone
<1>2. /\ stack \in Seq(Frames) /\ Len(stack) \in Nat \ {0} /\ Top = stack[Len(stack)]
  BY <1>1, Topmost DEF TreeInv, TypeOK
<1>3. OnlyGoing
  BY <1>1 DEF CallInv
<1>4. Len(stack) = 1
  <2>1. SUFFICES ASSUME Len(stack) # 1 PROVE FALSE
    OBVIOUS
  <2>2. \A n \in Nat \ {0} : n # 1 => n \in 2..n
    OBVIOUS
  <2>3. Top.op = "delete"
    BY <1>2, <1>3, <2>1, <2>2 DEF OnlyGoing
  <2> QED BY <1>1, <2>3
<1>5. stack' = <<>>
  <2>1. stack' \in Seq(Frames) /\ Len(stack') = 0
    BY <1>1, <1>2, <1>4, Popped
  <2> QED BY <2>1, EmptySeq
<1>6. Top.op = stack[1].op /\ Top.item = Root
  BY <1>2, <1>4 DEF Root
<1> QED BY <1>1, <1>2, <1>3, <1>4, <1>5, <1>6 DEF OnlyGoing

LEMMA StepCall == TreeInv /\ CallInv /\ [Next]_vars => CallInv'
<1> SUFFICES ASSUME TreeInv, CallInv, [Next]_vars, stack' # <<>> PROVE CallInv'
  BY DEF CallInv
<1>1. CASE CreateGroup \/ CreateEntry \/ CreateLoose \/ AddItem \/ NewSafe
  <2>1. stack = <<>> /\ stack' = stack
    BY <1>1 DEF CreateGroup, CreateEntry, Construct, CreateLoose, AddItem, NewSafe, Idle
  <2> QED BY <2>1
<1>2. CASE RemoveRow
  <2>1. stack = <<>>
    BY <1>2 DEF RemoveRow, Idle
  <2>2. PICK p \in SafeGroups \cap alive : \E row \in DOMAIN m_items[p] :
          Begin("delete", m_items[p][row], Subtree(m_items[p][row]))
    BY <1>2 DEF RemoveRow
  <2>3. PICK row \in DOMAIN m_items[p] :
          Begin("delete", m_items[p][row], Subtree(m_items[p][row]))
    BY <2>2
  <2>4. m_items[p][row] \in alive
    BY LinkedIsLinks DEF TreeInv, Linked, Holds
  <2> QED BY <2>1, <2>3, <2>4, BeginCall
<1>3. CASE DropLoose
  <2>1. PICK e \in Loose : Begin("delete", e, {e})
    BY <1>3 DEF DropLoose
  <2>2. stack = <<>> /\ e \in alive /\ e # Safe /\ m_parent[e] = NULL
    BY <1>3, <2>1 DEF DropLoose, Idle, Loose
  <2>3. e \in Entries
    <3>1. e \notin Groups
      BY <2>2 DEF TreeInv, GroupsAreListed, Leaving
    <3> QED BY <2>2, <3>1 DEF TreeInv, TypeOK, Items, SafeGroups
  <2> QED BY <2>1, <2>2, <2>3, BeginCall
<1>4. CASE EmptySafe
  <2>1. stack = <<>> /\ Safe \in alive /\ Begin("empty", Safe, Subtree(Safe) \ {Safe})
    BY <1>4 DEF EmptySafe, Idle
  <2> QED BY <2>1, BeginCall
<1>5. CASE DeleteSafe
  <2>1. stack = <<>> /\ Safe \in alive /\ Begin("delete", Safe, Subtree(Safe))
    BY <1>5 DEF DeleteSafe, Idle
  <2> QED BY <2>1, BeginCall
<1>6. CASE Destroy
  BY <1>6, EmptyNextCall, LeaveCall, FreeCall, EmptyIsBottom DEF Destroy
<1>7. CASE UNCHANGED vars
  <2>1. UNCHANGED <<alive, m_items, m_parent, stack, before>>
    BY <1>7 DEF vars
  <2>2. \A x : Leaving(x)' <=> Leaving(x)
    BY <2>1 DEF Leaving, Top, Kids
  <2>3. OnlyGoing' <=> OnlyGoing
    BY <2>1 DEF OnlyGoing, Root
  <2>4. GoingIsLeast' <=> GoingIsLeast
    BY <2>1 DEF GoingIsLeast, ClosedBefore, Root
  <2>5. ListsAreKept => ListsAreKept'
    BY <2>1, <2>2 DEF ListsAreKept, ListedNow
  <2> QED BY <2>1, <2>3, <2>4, <2>5 DEF CallInv
<1> QED BY <1>1, <1>2, <1>3, <1>4, <1>5, <1>6, <1>7 DEF Next

LEMMA CallAlways == Spec => []CallInv
<1>1. Init => CallInv
  BY DEF Init, CallInv
<1> QED BY <1>1, StepCall, TreeAlways, PTL DEF Spec

\* When the call at the bottom is through, all that should go is gone but the
\* item it deletes.
LEMMA GoingIsGone ==
  ASSUME TreeInv, CallInv, stack # <<>>, Len(stack) = 1, Kids(Top.item) = <<>>
  PROVE  before.going \subseteq (before.alive \ alive) \cup {Root}
<1> DEFINE S == (before.alive \ alive) \cup {Root}
<1>1. OnlyGoing /\ GoingIsLeast /\ ListsAreKept
  BY DEF CallInv
<1>2. Top.item = Root /\ Root \in alive
  BY Topmost DEF Root, TreeInv, TypeOK, StackLives
<1>3. S \in SUBSET before.alive /\ Root \in S
  BY <1>1, <1>2 DEF OnlyGoing
<1>4. ASSUME NEW g \in SafeGroups \cap S, NEW x \in Items, Holds(before.items[g], x) PROVE x \in S
  <2>1. g \in before.alive /\ x \in before.alive /\ (x \in alive => g \in alive)
    BY <1>1, <1>3, <1>4 DEF ListsAreKept
  <2>2. g = Root => x \notin alive
    BY <1>2, <1>4, KidsAreGone
  <2> QED BY <2>1, <2>2
<1> QED BY <1>1, <1>3, <1>4 DEF GoingIsLeast, ClosedBefore

LEMMA EndOfCall ==
  ASSUME TreeInv, CallInv, [Next]_vars, stack # <<>>, stack' = <<>>
  PROVE  /\ alive' = before.alive \ before.going
         /\ \A g \in SafeGroups \cap alive' : m_items'[g] = Kept(before.items[g], alive')
<1>1. OnlyGoing /\ GoingIsLeast /\ ListsAreKept
  BY DEF CallInv
<1>2. /\ alive \subseteq Items /\ stack \in Seq(Frames)
      /\ before.items \in [SafeGroups -> Seq(Items)]
  BY DEF TreeInv, TypeOK
<1>3. Free \/ EmptyDone
  <2>1. CASE EmptyNext
    <3>1. Head(Kids(Top.item)) \in Items
      BY <2>1, <1>2, ListOfTop DEF EmptyNext
    <3> QED BY <2>1, <3>1, <1>2, Pushed DEF EmptyNext
  <2>2. UNCHANGED stack => FALSE
    OBVIOUS
  <2> QED BY <2>1, <2>2 DEF Next, Destroy, LeaveGroup, vars, CreateGroup, CreateEntry, Construct,
             CreateLoose, AddItem, RemoveRow, DropLoose, EmptySafe, DeleteSafe, NewSafe, Idle
<1>4. /\ Len(stack) = 1 /\ Kids(Top.item) = <<>> /\ Top.item = Root /\ m_items' = m_items
      /\ Free => alive' = alive \ {Root} /\ m_parent[Root] = NULL /\ Root \in before.going
      /\ EmptyDone => alive' = alive /\ Top.op = "empty" /\ Root \notin before.going
  <2>1. CASE Free
    <3>1. /\ Pop /\ Kids(Top.item) = <<>> /\ Top.op = "delete" /\ m_parent[Top.item] = NULL
          /\ alive' = alive \ {Top.item} /\ m_items' = m_items
      BY <2>1 DEF Free, Destructing
    <3>2. Len(stack') = Len(stack) - 1 /\ Len(stack) \in Nat /\ Len(stack') = 0
      BY <3>1, <1>2, Popped, Topmost, EmptySeq
    <3>3. Len(stack) = 1
      BY <3>2
    <3>4. Top.item = Root /\ Root \in before.going
      BY <3>1, <3>3, <1>1, <1>2, Topmost DEF Root, OnlyGoing
    <3> QED BY <3>1, <3>3, <3>4 DEF EmptyDone
  <2>2. CASE EmptyDone
    <3>1. Len(stack) = 1 /\ Top.item = Root /\ Root \notin before.going
      BY <2>2, EmptyIsBottom
    <3>2. /\ Kids(Top.item) = <<>> /\ Top.op = "empty" /\ alive' = alive /\ m_items' = m_items
      BY <2>2 DEF EmptyDone
    <3> QED BY <3>1, <3>2 DEF Free, Destructing
  <2> QED BY <1>3, <2>1, <2>2
<1>5. before.going \subseteq (before.alive \ alive) \cup {Root}
  BY <1>4, GoingIsGone
<1>6. alive' = before.alive \ before.going
  BY <1>1, <1>3, <1>4, <1>5 DEF OnlyGoing
<1>7. ASSUME NEW g \in SafeGroups \cap alive' PROVE m_items'[g] = Kept(before.items[g], alive')
  <2>1. g \in alive /\ g \in before.alive
    BY <1>1, <1>3, <1>4, <1>6 DEF OnlyGoing
  <2>2. m_items'[g] = Kept(before.items[g], ListedNow) /\ before.items[g] \in Seq(Items)
    BY <2>1, <1>1, <1>2, <1>4 DEF ListsAreKept
  <2>3. ASSUME NEW x, Holds(before.items[g], x) PROVE x \in ListedNow <=> x \in alive'
    <3>1. x \in Items
      BY <2>2, <2>3, ElementOfSeq DEF Holds
    <3>2. x \in alive => m_parent[x] = g \/ Leaving(x)
      BY <2>1, <2>3, <3>1, <1>1 DEF ListsAreKept
    <3>3. Leaving(x) => x = Root /\ Free
      BY <1>3, <1>4 DEF Leaving
    <3> QED BY <3>2, <3>3, <1>3, <1>4, Addresses DEF ListedNow
  <2> QED BY <2>2, <2>3, KeptSame
<1> QED BY <1>6, <1>7

\* DeletesTheSubtree, for every tree: ~SafeItem and SafeGroup::empty, which call
\* each other through takeItem while the lists they walk change under them,
\* free the item and all below it, nothing else, and leave the lists of the
\* groups that stay as they were but for what is gone.
THEOREM DeletionTakesSubtree == Spec => DeletesTheSubtree
<1>1. TreeInv /\ CallInv /\ [Next]_vars =>
        [stack # <<>> /\ stack' = <<>> =>
           /\ alive' = before.alive \ before.going
           /\ \A g \in SafeGroups \cap alive' :
                m_items'[g] = Kept(before.items[g], alive')]_vars
  BY EndOfCall
<1> QED BY <1>1, TreeAlways, CallAlways, PTL DEF Spec, DeletesTheSubtree

-----------------------------------------------------------------------------
\* What the window shows.

ValueAt(g, total, type, k) ==
  (IF m_items[g][k] \in type THEN 1 ELSE 0)
    + (IF m_items[g][k] \in Groups THEN total[m_items[g][k]] ELSE 0)

CountOf(g, total, type, count) ==
  count = [k \in 0..Len(m_items[g]) |->
             IF k = 0 THEN 0
             ELSE count[k - 1] + (IF m_items[g][k] \in type THEN 1 ELSE 0)
                               + (IF m_items[g][k] \in Groups THEN total[m_items[g][k]] ELSE 0)]

\* The pass over a list adds up what its items are worth.
LEMMA CountUnfolds ==
  ASSUME NEW g, NEW total, NEW type, Len(m_items[g]) \in Nat,
         \A k \in 1..Len(m_items[g]) :
           m_items[g][k] \in Groups => total[m_items[g][k]] \in Nat
  PROVE  \E count \in [0..Len(m_items[g]) -> Nat] :
           /\ CountIn(g, total, type) = count[Len(m_items[g])]
           /\ count[0] = 0
           /\ \A k \in 1..Len(m_items[g]) : count[k] = count[k - 1] + ValueAt(g, total, type, k)
<1> DEFINE N == Len(m_items[g])
           V(k) == ValueAt(g, total, type, k)
           step == [y \in (1..N) \X Nat |-> y[2] + V(y[1])]
           Obeys(f) == f[0] = 0 /\ \A k \in 1..N : f[k] = f[k - 1] + V(k)
           h == CHOOSE count : CountOf(g, total, type, count)
<1>1. CountIn(g, total, type) = h[N]
  BY DEF CountIn, CountOf
<1>2. \A k \in 1..N : V(k) \in Nat
  BY DEF ValueAt
<1>3. step \in Steps(N, Nat)
  <2> HIDE DEF V, N
  <2> QED BY <1>2 DEF Steps
<1>4. PICK f : Iterates(f, N, Nat, 0, step)
  <2> HIDE DEF step, N
  <2> QED BY <1>3, Iteration DEF N
<1>5. f \in [0..N -> Nat]
  BY <1>4 DEF Iterates
<1>6. Obeys(f)
  <2> SUFFICES ASSUME NEW k \in 1..N PROVE f[k] = f[k - 1] + V(k)
    BY <1>4 DEF Iterates
  <2>1. k - 1 \in 0..N
    OBVIOUS
  <2>2. f[k - 1] \in Nat /\ f[k] = step[<<k, f[k - 1]>>]
    <3> HIDE DEF step, N
    <3> QED BY <1>4, <2>1 DEF Iterates
  <2> HIDE DEF V
  <2> QED BY <2>2
<1>7. \A q \in [0..N -> Nat] : Obeys(q) => CountOf(g, total, type, q)
  <2> SUFFICES ASSUME NEW q \in [0..N -> Nat], Obeys(q) PROVE CountOf(g, total, type, q)
    OBVIOUS
  <2>1. q = [k \in 0..N |-> q[k]]
    OBVIOUS
  <2>2. ASSUME NEW k \in 0..N, k # 0
        PROVE  q[k] = q[k - 1] + (IF m_items[g][k] \in type THEN 1 ELSE 0)
                               + (IF m_items[g][k] \in Groups THEN total[m_items[g][k]] ELSE 0)
    <3>1. k \in 1..N /\ q[k - 1] \in Nat /\ q[k] = q[k - 1] + V(k)
      BY <2>2
    <3>2. (m_items[g][k] \in Groups => total[m_items[g][k]] \in Nat)
      BY <3>1
    <3> QED BY <3>1, <3>2 DEF ValueAt
  <2> QED BY <2>1, <2>2 DEF CountOf
<1>8. CountOf(g, total, type, h)
  <2> HIDE DEF Obeys, N
  <2> QED BY <1>5, <1>6, <1>7
<1>9. h[0] = 0 /\ \A k \in 1..N : h[k] = h[k - 1] + (IF m_items[g][k] \in type THEN 1 ELSE 0)
                               + (IF m_items[g][k] \in Groups THEN total[m_items[g][k]] ELSE 0)
  <2> HIDE DEF h
  <2> QED BY <1>8 DEF CountOf
<1> DEFINE D == {k \in Nat : k <= N => h[k] = f[k]}
<1>10. 0 \in D
  BY <1>6, <1>9
<1>11. ASSUME NEW k \in Nat, k \in D PROVE k + 1 \in D
  <2> SUFFICES ASSUME k + 1 <= N PROVE h[k + 1] = f[k + 1]
    OBVIOUS
  <2> HIDE DEF h
  <2>1. k + 1 \in 1..N /\ (k + 1) - 1 = k /\ h[k] = f[k] /\ k \in 0..N
    BY <1>11
  <2>2. f[k] \in Nat
    BY <2>1, <1>5
  <2>3. (m_items[g][k + 1] \in Groups => total[m_items[g][k + 1]] \in Nat)
    BY <2>1
  <2>4. h[k + 1] = f[k] + (IF m_items[g][k + 1] \in type THEN 1 ELSE 0)
                        + (IF m_items[g][k + 1] \in Groups THEN total[m_items[g][k + 1]] ELSE 0)
    BY <2>1, <1>9
  <2>5. f[k + 1] = f[k] + V(k + 1)
    <3> HIDE DEF V
    <3>1. PICK m \in 1..N : m = k + 1 /\ m - 1 = k
      BY <2>1
    <3>2. f[m] = f[m - 1] + V(m)
      BY <1>6
    <3> QED BY <3>1, <3>2
  <2> QED BY <2>2, <2>3, <2>4, <2>5, SMTT(30) DEF ValueAt
<1>12. h[N] = f[N]
  <2> HIDE DEF D, h, N
  <2>1. N \in D
    BY <1>10, <1>11, SetInduction DEF N
  <2> QED BY <2>1 DEF D, N
<1> HIDE DEF h, V
<1> QED BY <1>1, <1>5, <1>6, <1>12 DEF V

\* In a subtree one gets up to its root.
LEMMA SubtreeUp ==
  ASSUME TreeInv, NEW i \in alive, NEW x \in Subtree(i), x # i
  PROVE  m_parent[x] \in SafeGroups \cap Subtree(i)
<1> DEFINE S == {y \in Subtree(i) : y = i \/ m_parent[y] \in SafeGroups \cap Subtree(i)}
<1>1. /\ Subtree(i) \subseteq alive /\ i \in Subtree(i)
      /\ \A g \in SafeGroups \cap Subtree(i), y \in Items : Holds(m_items[g], y) => y \in Subtree(i)
  BY SubtreeFacts
<1>2. S \in SUBSET alive /\ i \in S
  BY <1>1
<1>3. ASSUME NEW g \in SafeGroups \cap S, NEW y \in Items, Holds(m_items[g], y) PROVE y \in S
  <2>1. y \in Subtree(i) /\ m_parent[y] = g
    BY <1>1, <1>3, LinkedIsLinks DEF TreeInv, Linked
  <2> QED BY <2>1
<1>4. Subtree(i) \subseteq S
  <2> HIDE DEF S
  <2> QED BY <1>2, <1>3, SubtreeFacts
<1> QED BY <1>4

\* An item of a group: what is below it is below the group, which is not there.
LEMMA SubtreeOfItem ==
  ASSUME TreeInv, NEW g \in SafeGroups \cap alive, NEW j, Holds(m_items[g], j)
  PROVE  /\ j \in alive /\ j \in Items /\ m_parent[j] = g
         /\ Subtree(j) \subseteq Subtree(g) /\ g \notin Subtree(j)
<1>1. j \in alive /\ m_parent[j] = g /\ alive \subseteq Items /\ g # NULL
  BY LinkedIsLinks, Addresses DEF TreeInv, Linked, TypeOK
<1>2. /\ Subtree(g) \subseteq alive
      /\ \A h \in SafeGroups \cap Subtree(g), y \in Items : Holds(m_items[h], y) => y \in Subtree(g)
      /\ g \in Subtree(g)
  BY SubtreeFacts
<1>3. j \in Subtree(g)
  BY <1>1, <1>2
<1>4. Subtree(j) \subseteq Subtree(g)
  BY <1>1, <1>2, <1>3, SubtreeFacts
<1>5. PICK d \in [Items -> Nat] : IsDepth(d)
  BY DEF TreeInv, NoCycle
<1>6. d[g] < d[j]
  BY <1>1, <1>5 DEF IsDepth
<1> DEFINE S == {y \in Subtree(j) : d[g] < d[y]}
<1>7. S \in SUBSET alive /\ j \in S
  BY <1>1, <1>6, SubtreeFacts
<1>8. ASSUME NEW h \in SafeGroups \cap S, NEW y \in Items, Holds(m_items[h], y) PROVE y \in S
  <2>1. h \in alive /\ y \in Subtree(j)
    BY <1>1, <1>8, SubtreeFacts
  <2>2. y \in alive /\ m_parent[y] = h
    BY <1>8, <2>1, LinkedIsLinks DEF TreeInv, Linked
  <2>3. d[h] < d[y]
    BY <1>1, <1>5, <2>1, <2>2, Addresses DEF IsDepth
  <2>4. d[g] < d[h] /\ d[g] \in Nat /\ d[h] \in Nat /\ d[y] \in Nat
    BY <1>1, <1>5, <2>1, <1>8
  <2> QED BY <2>1, <2>3, <2>4
<1>9. Subtree(j) \subseteq S
  <2> HIDE DEF S
  <2> QED BY <1>1, <1>7, <1>8, SubtreeFacts
<1>10. ~(d[g] < d[g])
  BY <1>1, <1>5
<1> QED BY <1>1, <1>4, <1>9, <1>10

\* Two items of a group have nothing below them in common.
LEMMA SubtreesApart ==
  ASSUME TreeInv, NEW g \in SafeGroups \cap alive, NEW j, NEW k,
         Holds(m_items[g], j), Holds(m_items[g], k), j # k
  PROVE  Subtree(j) \cap Subtree(k) = {}
<1>1. /\ j \in alive /\ m_parent[j] = g /\ g \notin Subtree(j)
      /\ k \in alive /\ m_parent[k] = g /\ g \notin Subtree(k)
  BY SubtreeOfItem
<1>2. j \notin Subtree(k)
  BY <1>1, SubtreeUp
<1> DEFINE S == Subtree(j) \ Subtree(k)
<1>3. S \in SUBSET alive /\ j \in S
  BY <1>1, <1>2, SubtreeFacts
<1>4. ASSUME NEW h \in SafeGroups \cap S, NEW y \in Items, Holds(m_items[h], y) PROVE y \in S
  <2>1. y \in Subtree(j) /\ h \in alive
    BY <1>1, <1>4, SubtreeFacts
  <2>2. m_parent[y] = h
    BY <1>4, <2>1, LinkedIsLinks DEF TreeInv, Linked
  <2>3. y # k
    BY <1>1, <1>4, <2>2
  <2>4. y \notin Subtree(k)
    BY <1>1, <1>4, <2>2, <2>3, SubtreeUp
  <2> QED BY <2>1, <2>4
<1>5. Subtree(j) \subseteq S
  <2> HIDE DEF S
  <2> QED BY <1>1, <1>3, <1>4, SubtreeFacts
<1> QED BY <1>5

\* A group's subtree is itself and those of its items; an entry's is itself.
LEMMA SubtreeParts ==
  ASSUME TreeInv, NEW i \in alive
  PROVE  /\ i \in SafeGroups => \A x : x \in Subtree(i) \ {i}
                                       <=> \E j : Holds(m_items[i], j) /\ x \in Subtree(j)
         /\ i \notin SafeGroups => Subtree(i) = {i}
<1>1. /\ Subtree(i) \subseteq alive /\ i \in Subtree(i)
      /\ \A g \in SafeGroups \cap Subtree(i), x \in Items :
           Holds(m_items[g], x) => x \in Subtree(i)
      /\ \A S \in SUBSET alive :
           /\ i \in S
           /\ \A g \in SafeGroups \cap S, x \in Items : Holds(m_items[g], x) => x \in S
           => Subtree(i) \subseteq S
  BY SubtreeFacts
<1>2. CASE i \notin SafeGroups
  <2>1. {i} \in SUBSET alive /\ i \in {i} /\ SafeGroups \cap {i} = {}
    BY <1>2
  <2>2. Subtree(i) \subseteq {i}
    BY <1>1, <2>1
  <2> QED BY <1>1, <1>2, <2>2
<1>3. CASE i \in SafeGroups
  <2> DEFINE S == {i} \cup {x \in alive : \E j : Holds(m_items[i], j) /\ x \in Subtree(j)}
  <2>1. ASSUME NEW g \in SafeGroups \cap S, NEW y \in Items, Holds(m_items[g], y) PROVE y \in S
    <3>1. y \in alive
      BY <2>1, LinkedIsLinks DEF TreeInv, Linked
    <3>2. CASE g = i
      BY <2>1, <3>1, <3>2, SubtreeFacts
    <3>3. CASE g # i
      <4>1. PICK j : Holds(m_items[i], j) /\ g \in Subtree(j)
        BY <2>1, <3>3
      <4>2. j \in alive
        BY <1>3, <4>1, SubtreeOfItem
      <4>3. y \in Subtree(j)
        BY <2>1, <4>1, <4>2, SubtreeFacts
      <4> QED BY <3>1, <4>1, <4>3
    <3> QED BY <3>2, <3>3
  <2>2. S \in SUBSET alive /\ i \in S
    OBVIOUS
  <2>3. Subtree(i) \subseteq S
    <3> HIDE DEF S
    <3> QED BY <1>1, <2>1, <2>2
  <2>4. \A j : Holds(m_items[i], j) => Subtree(j) \subseteq Subtree(i) /\ i \notin Subtree(j)
    BY <1>3, SubtreeOfItem
  <2> QED BY <1>3, <2>3, <2>4
<1> QED BY <1>2, <1>3

\* How many items of a type are below a group.
CountBelow(g, type) ==
  IF g \in alive THEN Cardinality((Subtree(g) \ {g}) \cap type) ELSE 0

\* With the counts of the groups in a list, the pass over it gives the count.
LEMMA CountIsBelow ==
  ASSUME TreeInv, IsFiniteSet(alive), NEW g \in SafeGroups \cap alive, NEW type, NEW total,
         \A j \in Groups : Holds(m_items[g], j) => total[j] = CountBelow(j, type)
  PROVE  CountIn(g, total, type) = CountBelow(g, type)
<1> DEFINE s == m_items[g]
           N == Len(s)
           U(n) == {x \in type : \E k \in 1..n : x \in Subtree(s[k])}
<1>1. N \in Nat /\ DOMAIN s = 1..N /\ Once(s)
  BY LenProperties, LinkedIsLinks DEF TreeInv, TypeOK, Linked
<1>2. ASSUME NEW k \in 1..N
      PROVE  /\ Holds(s, s[k]) /\ s[k] \in alive /\ s[k] \in Items
             /\ Subtree(s[k]) \subseteq alive /\ s[k] \in Subtree(s[k])
  BY <1>1, SubtreeOfItem, SubtreeFacts DEF Holds
<1>3. ASSUME NEW S \in SUBSET alive PROVE IsFiniteSet(S) /\ Cardinality(S) \in Nat
  BY FS_Subset, FS_CardinalityType
<1>4. \A j : CountBelow(j, type) \in Nat
  <2> SUFFICES ASSUME NEW j \in alive PROVE CountBelow(j, type) \in Nat
    BY DEF CountBelow
  <2>1. (Subtree(j) \ {j}) \cap type \subseteq alive
    BY SubtreeFacts
  <2> QED BY <1>3, <2>1 DEF CountBelow
<1>5. ASSUME NEW k \in 1..N
      PROVE  ValueAt(g, total, type, k) = Cardinality(Subtree(s[k]) \cap type)
  <2> DEFINE j == s[k]
             B == (Subtree(j) \ {j}) \cap type
  <2>1. j \in alive /\ Holds(s, j) /\ j \in Subtree(j) /\ Subtree(j) \subseteq alive /\ j \in Items
    BY <1>2
  <2>2. IsFiniteSet(B) /\ Cardinality(B) \in Nat
    BY <1>3, <2>1
  <2>3. (IF j \in Groups THEN total[j] ELSE 0) = Cardinality(B)
    <3>1. CASE j \in Groups
      BY <2>1, <3>1 DEF CountBelow
    <3>2. CASE j \notin Groups
      <4>1. j # Safe
        BY <2>1, SubtreeOfItem, Addresses DEF TreeInv, GroupsAreListed
      <4>2. j \notin SafeGroups
        BY <3>2, <4>1 DEF SafeGroups
      <4>3. B = {}
        BY <2>1, <4>2, SubtreeParts
      <4> QED BY <3>2, <4>3, FS_EmptySet
    <3> QED BY <3>1, <3>2
  <2>4. CASE j \in type
    <3>1. Subtree(j) \cap type = B \cup {j} /\ j \notin B
      BY <2>1, <2>4
    <3>2. Cardinality(Subtree(j) \cap type) = Cardinality(B) + 1
      BY <2>2, <3>1, FS_AddElement
    <3> HIDE DEF B
    <3> QED BY <2>2, <2>3, <2>4, <3>2 DEF ValueAt
  <2>5. CASE j \notin type
    <3>1. Subtree(j) \cap type = B
      BY <2>5
    <3>2. Cardinality(Subtree(j) \cap type) = Cardinality(B)
      BY <3>1
    <3> HIDE DEF B
    <3> QED BY <2>2, <2>3, <2>5, <3>2 DEF ValueAt
  <2> QED BY <2>4, <2>5
<1>6. ASSUME NEW k \in Nat, k + 1 \in 1..N
      PROVE  Cardinality(U(k + 1)) = Cardinality(U(k)) + Cardinality(Subtree(s[k + 1]) \cap type)
  <2> DEFINE V == Subtree(s[k + 1]) \cap type
  <2>1. U(k) \subseteq alive
    BY <1>1, <1>2, <1>6
  <2>2. V \subseteq alive
    BY <1>2, <1>6
  <2>3. U(k + 1) = U(k) \cup V
    OBVIOUS
  <2>4. U(k) \cap V = {}
    <3> SUFFICES ASSUME NEW l \in 1..k PROVE Subtree(s[l]) \cap Subtree(s[k + 1]) = {}
      OBVIOUS
    <3>1. l \in 1..N /\ l # k + 1
      BY <1>1, <1>6
    <3>2. s[l] # s[k + 1]
      BY <1>1, <1>6, <3>1 DEF Once
    <3> QED BY <1>2, <1>6, <3>1, <3>2, SubtreesApart
  <2> HIDE DEF U, V
  <2>5. /\ IsFiniteSet(U(k)) /\ Cardinality(U(k)) \in Nat
        /\ IsFiniteSet(V) /\ Cardinality(V) \in Nat
    BY <1>3, <2>1, <2>2
  <2>6. Cardinality(U(k) \cup V) = Cardinality(U(k)) + Cardinality(V) - Cardinality(U(k) \cap V)
    BY <2>5, FS_Union
  <2>7. Cardinality(U(k) \cap V) = 0
    BY <2>4, FS_EmptySet
  <2>8. Cardinality(U(k) \cup V) = Cardinality(U(k)) + Cardinality(V)
    BY <2>5, <2>6, <2>7
  <2> QED BY <2>3, <2>8 DEF V
<1>7. \A k \in 1..N : s[k] \in Groups => total[s[k]] \in Nat
  BY <1>2, <1>4
<1>8. PICK count \in [0..N -> Nat] :
        /\ CountIn(g, total, type) = count[N]
        /\ count[0] = 0
        /\ \A k \in 1..N : count[k] = count[k - 1] + ValueAt(g, total, type, k)
  BY <1>1, <1>7, CountUnfolds
<1> DEFINE D == {k \in Nat : k <= N => count[k] = Cardinality(U(k))}
<1>9. 0 \in D
  <2>1. \A k \in 1..0 : FALSE
    OBVIOUS
  <2>2. U(0) = {}
    BY <2>1
  <2> HIDE DEF U
  <2> QED BY <1>8, <2>2, FS_EmptySet
<1>10. ASSUME NEW k \in Nat, k \in D PROVE k + 1 \in D
  <2> HIDE DEF U, s
  <2> SUFFICES ASSUME k + 1 <= N PROVE count[k + 1] = Cardinality(U(k + 1))
    OBVIOUS
  <2>1. k + 1 \in 1..N /\ (k + 1) - 1 = k /\ count[k] = Cardinality(U(k))
    BY <1>1, <1>10
  <2>2. count[k + 1] = count[k] + Cardinality(Subtree(s[k + 1]) \cap type)
    BY <1>5, <1>8, <2>1
  <2> QED BY <1>6, <2>1, <2>2
<1>11. count[N] = Cardinality(U(N))
  <2> HIDE DEF D, N
  <2>1. N \in D
    BY <1>1, <1>9, <1>10, SetInduction
  <2> QED BY <1>1, <2>1 DEF D
<1>12. U(N) = (Subtree(g) \ {g}) \cap type
  <2>1. \A x : x \in Subtree(g) \ {g} <=> \E j : Holds(s, j) /\ x \in Subtree(j)
    BY SubtreeParts
  <2>2. \A j : Holds(s, j) <=> \E k \in 1..N : s[k] = j
    BY <1>1 DEF Holds
  <2> HIDE DEF s
  <2> QED BY <2>1, <2>2
<1> QED BY <1>8, <1>11, <1>12 DEF CountBelow

LEMMA LeastOf ==
  ASSUME NEW B, B # {}, NEW f \in [B -> Nat]
  PROVE  \E x \in B : \A y \in B : ~(f[y] < f[x])
<1> DEFINE R == OpToRel(<, Nat)
           T == {f[x] : x \in B}
<1>1. IsWellFoundedOn(R, Nat)
  BY NatLessThanWellFounded DEF OpToRel
<1>2. T \subseteq Nat /\ T # {}
  OBVIOUS
<1>3. PICK n \in T : \A m \in T : ~ (<<m, n>> \in R)
  <2> HIDE DEF R, T
  <2> QED BY <1>1, <1>2, WFMin
<1>4. PICK x \in B : f[x] = n
  BY <1>3
<1>5. ASSUME NEW y \in B, f[y] < f[x] PROVE FALSE
  <2>1. f[y] \in T /\ f[y] \in Nat /\ f[x] \in Nat
    OBVIOUS
  <2>2. <<f[y], f[x]>> \in R
    BY <1>5, <2>1 DEF OpToRel
  <2> QED BY <1>3, <1>4, <2>1, <2>2
<1> QED BY <1>5

TotalOf(total, type) == total = [g \in SafeGroups |-> CountIn(g, total, type)]

\* totalNumItems counts what is below the safe: its recursion has one solution,
\* by induction on the number of items in a subtree.
LEMMA TotalIsBelow ==
  ASSUME TreeInv, IsFiniteSet(alive), Safe \in alive, NEW type
  PROVE  totalNumItems(type) = CountBelow(Safe, type)
<1> DEFINE F == [g \in SafeGroups |-> CountBelow(g, type)]
           h == CHOOSE total : TotalOf(total, type)
<1>1. totalNumItems(type) = h[Safe]
  BY DEF totalNumItems, TotalOf
<1>2. ASSUME NEW g \in SafeGroups PROVE CountIn(g, F, type) = F[g]
  <2>1. CASE g \in alive
    <3>1. \A j \in Groups : F[j] = CountBelow(j, type)
      BY Addresses
    <3> HIDE DEF F
    <3>2. CountIn(g, F, type) = CountBelow(g, type)
      BY <2>1, <3>1, CountIsBelow
    <3> QED BY <3>2 DEF F
  <2>2. CASE g \notin alive
    <3>1. m_items[g] = <<>>
      BY <2>2, Addresses DEF TreeInv, DeadIsClean
    <3>2. Len(m_items[g]) = 0
      BY <3>1, EmptySeq
    <3> HIDE DEF F
    <3>3. \A k \in 1..Len(m_items[g]) : m_items[g][k] \in Groups => F[m_items[g][k]] \in Nat
      BY <3>2
    <3>4. CountIn(g, F, type) = 0
      <4>1. Len(m_items[g]) \in Nat
        BY <3>2
      <4> QED BY <3>2, <3>3, <4>1, CountUnfolds
    <3> QED BY <2>2, <3>4 DEF F, CountBelow
  <2> QED BY <2>1, <2>2
<1>3. TotalOf(F, type)
  BY <1>2 DEF TotalOf
<1>4. TotalOf(h, type)
  <2> HIDE DEF F
  <2> QED BY <1>3
<1> HIDE DEF h, F
<1>5. \A g \in SafeGroups : h[g] = CountIn(g, h, type)
  BY <1>4 DEF TotalOf
<1> DEFINE B == {g \in SafeGroups \cap alive : h[g] # CountBelow(g, type)}
           size == [g \in B |-> Cardinality(Subtree(g))]
<1>6. \A g \in alive : /\ Subtree(g) \subseteq alive /\ IsFiniteSet(Subtree(g))
                       /\ Cardinality(Subtree(g)) \in Nat
  BY SubtreeFacts, FS_Subset, FS_CardinalityType
<1>7. ASSUME B # {} PROVE FALSE
  <2>1. size \in [B -> Nat]
    BY <1>6
  <2>2. PICK g \in B : \A y \in B : ~(size[y] < size[g])
    <3> HIDE DEF B, size
    <3> QED BY <1>7, <2>1, LeastOf
  <2>3. ASSUME NEW j \in Groups, Holds(m_items[g], j) PROVE h[j] = CountBelow(j, type)
    <3>1. j \in alive /\ Subtree(j) \subseteq Subtree(g) /\ g \notin Subtree(j) /\ g \in Subtree(g)
      BY <2>2, <2>3, SubtreeOfItem, SubtreeFacts
    <3>2. Cardinality(Subtree(j)) <= Cardinality(Subtree(g)) /\ Cardinality(Subtree(j)) # Cardinality(Subtree(g))
      BY <1>6, <2>2, <3>1, FS_Subset
    <3>3. Cardinality(Subtree(j)) < Cardinality(Subtree(g))
      BY <1>6, <2>2, <3>1, <3>2
    <3>4. j \notin B
      BY <2>2, <3>3
    <3> QED BY <3>1, <3>4, Addresses
  <2>4. CountIn(g, h, type) = CountBelow(g, type)
    BY <2>2, <2>3, CountIsBelow
  <2> QED BY <1>5, <2>2, <2>4
<1> QED BY <1>1, <1>7, Addresses

\* At rest everything but a loose entry is below the safe.
LEMMA AllIsBelow ==
  ASSUME TreeInv, Idle
  PROVE  Subtree(Safe) \ {Safe} = (alive \ {Safe}) \ Loose
<1>1. /\ Safe \in alive /\ stack = <<>> /\ m_parent[Safe] = NULL /\ alive \subseteq Items
      /\ \A g \in Groups \cap alive : m_parent[g] # NULL
  BY DEF Idle, TreeInv, TypeOK, GroupsAreListed, Leaving
<1>2. Subtree(Safe) \subseteq alive
  BY <1>1, SubtreeFacts
<1>3. \A x \in Subtree(Safe) \ {Safe} : m_parent[x] # NULL
  BY <1>1, SubtreeUp, Addresses
<1>4. PICK d \in [Items -> Nat] : IsDepth(d)
  BY DEF TreeInv, NoCycle
<1> DEFINE B == {i \in alive : m_parent[i] # NULL /\ i \notin Subtree(Safe)}
           f == [i \in B |-> d[i]]
<1>5. ASSUME B # {} PROVE FALSE
  <2>1. f \in [B -> Nat]
    BY <1>1, <1>4
  <2>2. PICK i \in B : \A y \in B : ~(f[y] < f[i])
    <3> HIDE DEF B, f
    <3> QED BY <1>5, <2>1, LeastOf
  <2>3. PICK p : p = m_parent[i]
    OBVIOUS
  <2>4. p \in alive /\ p \in SafeGroups /\ Holds(m_items[p], i) /\ d[p] < d[i] /\ i \in Items
    BY <1>1, <1>4, <2>2, <2>3, LinkedIsLinks DEF TreeInv, TypeOK, Linked, IsDepth
  <2>5. p \notin Subtree(Safe)
    BY <1>1, <2>2, <2>4, SubtreeFacts
  <2>6. p # Safe
    BY <1>1, <2>5, SubtreeFacts
  <2>7. p \in B
    BY <1>1, <2>4, <2>5, <2>6 DEF SafeGroups
  <2> QED BY <2>2, <2>4, <2>7
<1> QED BY <1>1, <1>2, <1>3, <1>5 DEF Loose

FinitelyMany == IsFiniteSet(alive)

LEMMA FiniteAlways == Spec => []FinitelyMany
<1>1. Init => FinitelyMany
  BY FS_Singleton DEF Init, FinitelyMany
<1>2. FinitelyMany /\ [Next]_vars => FinitelyMany'
  <2> SUFFICES ASSUME IsFiniteSet(alive), [Next]_vars PROVE IsFiniteSet(alive')
    BY DEF FinitelyMany
  <2>1. alive' = alive \/ (\E i : alive' = alive \cup {i}) \/ (\E i : alive' = alive \ {i})
    BY DEF Next, vars, CreateGroup, CreateEntry, Construct, CreateLoose, AddItem, RemoveRow, DropLoose,
           EmptySafe, DeleteSafe, Begin, NewSafe, Destroy, EmptyNext, EmptyDone, LeaveGroup, Free
  <2> QED BY <2>1, FS_AddElement, FS_RemoveElement
<1> QED BY <1>1, <1>2, PTL DEF Spec

\* ViewAgrees: at rest, the totals the status bar shows are the numbers of
\* entries and groups of the safe (Safe::totalNumItems), and the model's indexes
\* and parents are those of the lists (SafeTreeModel::index, parent).
THEOREM ViewStaysRight == Spec => []ViewAgrees
<1>1. ASSUME TreeInv, IsFiniteSet(alive) PROVE TotalsAgree
  <2> SUFFICES ASSUME Idle
               PROVE  /\ totalNumItems(Entries) = Cardinality((alive \cap Entries) \ Loose)
                      /\ totalNumItems(Groups) = Cardinality(alive \cap Groups)
    BY DEF TotalsAgree
  <2>1. Safe \in alive
    BY DEF Idle
  <2>2. \A type : totalNumItems(type) = Cardinality(((alive \ {Safe}) \ Loose) \cap type)
    BY <1>1, <2>1, TotalIsBelow, AllIsBelow DEF CountBelow
  <2>3. ((alive \ {Safe}) \ Loose) \cap Entries = (alive \cap Entries) \ Loose
    BY Addresses
  <2>4. ((alive \ {Safe}) \ Loose) \cap Groups = alive \cap Groups
    BY <1>1, ItemsAssumption DEF TreeInv, GroupsAreListed, Leaving, Idle, Loose
  <2> QED BY <2>2, <2>3, <2>4
<1>2. ASSUME TreeInv PROVE IndexesAgree
  <2> SUFFICES ASSUME NEW g \in SafeGroups \cap alive, NEW row \in 0..rowCount(g) - 1
               PROVE  /\ parentOf(index(row, g)) = indexOf(g)
                      /\ indexOf(index(row, g).item) = index(row, g)
    BY DEF IndexesAgree
  <2> DEFINE i == m_items[g][row + 1]
  <2>1. Kids(g) = m_items[g] /\ Len(m_items[g]) \in Nat /\ DOMAIN m_items[g] = 1..Len(m_items[g])
    BY LenProperties DEF Kids, TreeInv, TypeOK
  <2>2. row + 1 \in DOMAIN m_items[g] /\ row \in Nat /\ (row + 1) - 1 = row
    BY <2>1 DEF rowCount
  <2>3. m_parent[i] = g /\ Once(m_items[g]) /\ Holds(m_items[g], i)
    BY <1>2, <2>2, LinkedIsLinks DEF TreeInv, Linked, Holds
  <2>4. i # Safe
    BY <1>2, <2>3, Addresses DEF TreeInv, GroupsAreListed
  <2>5. index(row, g) = [row |-> row, item |-> i]
    BY <2>1 DEF index
  <2>6. RowOf(i) = row
    <3> DEFINE R(k) == /\ Kids(m_parent[i])[k] = i
                       /\ \A l \in 1..k - 1 : Kids(m_parent[i])[l] # i
    <3>1. R(row + 1)
      BY <2>1, <2>2, <2>3 DEF Once
    <3>2. \A k \in DOMAIN Kids(m_parent[i]) : R(k) => k = row + 1
      BY <2>1, <2>2, <2>3 DEF Once
    <3>3. (CHOOSE k \in DOMAIN Kids(m_parent[i]) : R(k)) = row + 1
      <4> HIDE DEF R, i
      <4>1. row + 1 \in DOMAIN Kids(m_parent[i])
        BY <2>1, <2>2, <2>3
      <4> QED BY <3>1, <3>2, <4>1
    <3> HIDE DEF i
    <3> QED BY <2>2, <2>4, <3>3 DEF RowOf
  <2> HIDE DEF i
  <2> QED BY <2>3, <2>5, <2>6 DEF parentOf, indexOf
<1>3. ASSUME TreeInv, FinitelyMany PROVE ViewAgrees
  BY <1>1, <1>2, <1>3 DEF ViewAgrees, FinitelyMany
<1> QED BY <1>3, TreeAlways, FiniteAlways, PTL
-----------------------------------------------------------------------------
(* Folds.  What a recursive function over the characters of a sequence      *)
(* computes is FoldOf of its step.                                          *)

FoldsTo(f, X, s, b, step) ==
  /\ f \in [0..Len(s) -> X] /\ f[0] = b
  /\ \A m \in 1..Len(s) : f[m] = step[<<f[m - 1], s[m]>>]

\* A start and a step of a fold over elements of S with values in X.
Folding(S, X, b, step) == b \in X /\ step \in [X \X S -> X]

Obeys(h, X, s, b, step) ==
  h[0] = b /\ \A m \in 1..Len(s) : h[m - 1] \in X => h[m] = step[<<h[m - 1], s[m]>>]

FoldOf(X, s, b, step) == (CHOOSE f : FoldsTo(f, X, s, b, step))[Len(s)]

\* A fold exists, and it is the only one.
LEMMA FoldExists ==
  ASSUME NEW S, NEW X, NEW s \in Seq(S), NEW b, NEW step, Folding(S, X, b, step)
  PROVE  \E f : FoldsTo(f, X, s, b, step)
<1> DEFINE N == Len(s)
           st == [y \in (1..N) \X X |-> step[<<y[2], s[y[1]]>>]]
<1>1. N \in Nat /\ \A m \in 1..N : s[m] \in S
  BY LenProperties, ElementOfSeq
<1>2. \A m \in 1..N, x \in X : step[<<x, s[m]>>] \in X
  BY <1>1 DEF Folding
<1>3. st \in Steps(N, X)
  BY <1>2 DEF Steps
<1>4. PICK f : Iterates(f, N, X, b, st)
  <2> HIDE DEF st, N
  <2> QED BY <1>1, <1>3, Iteration DEF Folding
<1>5. ASSUME NEW m \in 1..N PROVE f[m] = step[<<f[m - 1], s[m]>>]
  <2>1. f[m - 1] \in X /\ f[m] = st[<<m, f[m - 1]>>]
    <3> HIDE DEF st, N
    <3>1. f \in [0..N -> X] /\ m - 1 \in 0..N
      BY <1>1, <1>4 DEF Iterates
    <3> QED BY <3>1, <1>4 DEF Iterates
  <2> QED BY <2>1
<1> QED BY <1>4, <1>5 DEF Iterates, FoldsTo

LEMMA FoldUnique ==
  ASSUME NEW S, NEW X, NEW s \in Seq(S), NEW b, NEW step, Folding(S, X, b, step),
         NEW f, FoldsTo(f, X, s, b, step), NEW h, Obeys(h, X, s, b, step)
  PROVE  \A k \in 0..Len(s) : h[k] = f[k]
<1> DEFINE D == {k \in Nat : k <= Len(s) => h[k] = f[k]}
<1>1. 0 \in D
  BY DEF FoldsTo, Obeys
<1>2. ASSUME NEW k \in Nat, k \in D PROVE k + 1 \in D
  <2> SUFFICES ASSUME k + 1 <= Len(s) PROVE h[k + 1] = f[k + 1]
    OBVIOUS
  <2>1. k + 1 \in 1..Len(s) /\ (k + 1) - 1 = k /\ h[k] = f[k] /\ k \in 0..Len(s)
    BY <1>2, LenProperties
  <2>2. f[k] \in X
    BY <2>1 DEF FoldsTo
  <2> QED BY <2>1, <2>2 DEF FoldsTo, Obeys
<1> HIDE DEF D
<1>3. Nat \subseteq D
  BY <1>1, <1>2, SetInduction
<1> QED BY <1>3, LenProperties DEF D

\* So whatever obeys the step ends in FoldOf.
LEMMA FoldIs ==
  ASSUME NEW S, NEW X, NEW s \in Seq(S), NEW b, NEW step, Folding(S, X, b, step),
         NEW h, Obeys(h, X, s, b, step)
  PROVE  h[Len(s)] = FoldOf(X, s, b, step) /\ FoldOf(X, s, b, step) \in X
<1>1. PICK f : f = CHOOSE g : FoldsTo(g, X, s, b, step)
  OBVIOUS
<1>2. FoldsTo(f, X, s, b, step)
  BY <1>1, FoldExists
<1>3. Len(s) \in 0..Len(s)
  BY LenProperties
<1>4. \A k \in 0..Len(s) : h[k] = f[k]
  BY <1>2, FoldUnique
<1>5. f[Len(s)] \in X
  BY <1>2, <1>3 DEF FoldsTo
<1> QED BY <1>1, <1>3, <1>4, <1>5 DEF FoldOf

LEMMA FoldStep ==
  ASSUME NEW S, NEW X, NEW b, NEW step, Folding(S, X, b, step)
  PROVE  /\ FoldOf(X, <<>>, b, step) = b
         /\ \A s \in Seq(S), x \in S :
              /\ FoldOf(X, s, b, step) \in X
              /\ FoldOf(X, Append(s, x), b, step) = step[<<FoldOf(X, s, b, step), x>>]
<1>1. FoldOf(X, <<>>, b, step) = b
  <2>1. PICK e \in Seq(S) : e = <<>> /\ Len(e) = 0
    BY EmptySeq
  <2>2. PICK f : FoldsTo(f, X, e, b, step)
    BY FoldExists
  <2>3. f[0] = b /\ Obeys(f, X, e, b, step)
    BY <2>2 DEF FoldsTo, Obeys
  <2>4. f[Len(e)] = FoldOf(X, e, b, step)
    BY <2>3, FoldIs
  <2> QED BY <2>1, <2>3, <2>4
<1>2. ASSUME NEW s \in Seq(S), NEW x \in S
      PROVE  /\ FoldOf(X, s, b, step) \in X
             /\ FoldOf(X, Append(s, x), b, step) = step[<<FoldOf(X, s, b, step), x>>]
  <2>1. PICK t \in Seq(S) : /\ t = Append(s, x) /\ Len(t) = Len(s) + 1 /\ t[Len(s) + 1] = x
                            /\ \A i \in 1..Len(s) : t[i] = s[i]
    <3>1. /\ Append(s, x) \in Seq(S) /\ Len(Append(s, x)) = Len(s) + 1
          /\ Append(s, x)[Len(s) + 1] = x /\ \A i \in 1..Len(s) : Append(s, x)[i] = s[i]
      BY AppendProperties
    <3> QED BY <3>1
  <2>2. PICK f : FoldsTo(f, X, t, b, step)
    BY FoldExists
  <2>3. Len(s) \in Nat /\ Len(s) + 1 \in 1..Len(t) /\ (Len(s) + 1) - 1 = Len(s)
    BY <2>1, LenProperties
  <2>4. f[0] = b /\ \A m \in 1..Len(t) : f[m] = step[<<f[m - 1], t[m]>>]
    BY <2>2 DEF FoldsTo
  <2>5. Obeys(f, X, s, b, step)
    BY <2>1, <2>3, <2>4 DEF Obeys
  <2>6. f[Len(s)] = FoldOf(X, s, b, step) /\ FoldOf(X, s, b, step) \in X
    BY <2>5, FoldIs
  <2>7. Obeys(f, X, t, b, step)
    BY <2>4 DEF Obeys
  <2>8. f[Len(t)] = FoldOf(X, t, b, step)
    BY <2>7, FoldIs
  <2>9. f[Len(s) + 1] = step[<<f[Len(s)], x>>]
    BY <2>1, <2>3, <2>4
  <2> QED BY <2>1, <2>6, <2>8, <2>9
<1> QED BY <1>1, <1>2

-----------------------------------------------------------------------------
\* Concatenation of a sequence of texts (FlattenSeq) is a fold.
Glue(S) == [y \in Seq(S) \X Seq(S) |-> y[1] \o y[2]]

LEMMA GlueFolds == \A S : Folding(Seq(S), Seq(S), <<>>, Glue(S))
BY ConcatProperties, EmptySeq DEF Glue, Folding

FlattenedBy(ss, f) ==
  f = [i \in 1..Len(ss) |-> IF i = 1 THEN ss[i] ELSE f[i - 1] \o ss[i]]

LEMMA FlattenFolds ==
  ASSUME NEW S, NEW ss \in Seq(Seq(S))
  PROVE  FlattenSeq(ss) = FoldOf(Seq(S), ss, <<>>, Glue(S))
<1>1. <<>> \in Seq(S) /\ Folding(Seq(S), Seq(S), <<>>, Glue(S))
  BY EmptySeq, GlueFolds
<1>2. CASE Len(ss) = 0
  <2>1. ss = <<>>
    BY <1>2, EmptySeq
  <2>2. FoldOf(Seq(S), <<>>, <<>>, Glue(S)) = <<>>
    BY <1>1, FoldStep
  <2> QED BY <1>2, <2>1, <2>2 DEF FlattenSeq
<1>3. CASE Len(ss) # 0
  <2> DEFINE N == Len(ss)
             h == CHOOSE f : FlattenedBy(ss, f)
             g == [k \in 0..N |-> IF k = 0 THEN <<>> ELSE h[k]]
  <2>1. FlattenSeq(ss) = h[N]
    BY <1>3 DEF FlattenSeq, FlattenedBy
  <2>2. N \in Nat /\ N # 0 /\ \A m \in 1..N : ss[m] \in Seq(S)
    BY <1>3, LenProperties, ElementOfSeq
  <2>3. PICK f : FoldsTo(f, Seq(S), ss, <<>>, Glue(S))
    BY <1>1, FoldExists
  <2> HIDE DEF h, N
  <2>4. FlattenedBy(ss, [i \in 1..N |-> f[i]])
    <3> SUFFICES ASSUME NEW i \in 1..N
                 PROVE  f[i] = IF i = 1 THEN ss[i] ELSE f[i - 1] \o ss[i]
      BY DEF FlattenedBy, N
    <3>1. f[i - 1] \in Seq(S) /\ ss[i] \in Seq(S) /\ f[i] = Glue(S)[<<f[i - 1], ss[i]>>]
      <4>1. i - 1 \in 0..N
        BY <2>2
      <4> QED BY <4>1, <2>2, <2>3 DEF FoldsTo, N
    <3>2. f[i] = f[i - 1] \o ss[i]
      BY <3>1 DEF Glue
    <3>3. i = 1 => f[i - 1] = <<>>
      BY <2>3 DEF FoldsTo
    <3> QED BY <3>1, <3>2, <3>3, ConcatEmptySeq
  <2>5. FlattenedBy(ss, h)
    BY <2>4 DEF h
  <2>6. \A i \in 1..N : h[i] = IF i = 1 THEN ss[i] ELSE h[i - 1] \o ss[i]
    BY <2>5 DEF FlattenedBy, N
  <2>7. g[0] = <<>>
    BY <2>2
  <2>8. ASSUME NEW m \in 1..N, g[m - 1] \in Seq(S) PROVE g[m] = Glue(S)[<<g[m - 1], ss[m]>>]
    <3>1. g[m] = h[m] /\ ss[m] \in Seq(S)
      BY <2>2
    <3>2. m # 1 => g[m - 1] = h[m - 1]
      BY <2>2
    <3>3. m = 1 => g[m - 1] = <<>>
      BY <2>2
    <3> HIDE DEF g
    <3>4. h[m] = g[m - 1] \o ss[m]
      BY <3>1, <3>2, <3>3, <2>6, ConcatEmptySeq
    <3>5. <<g[m - 1], ss[m]>> \in Seq(S) \X Seq(S)
      BY <3>1, <2>8
    <3> QED BY <3>1, <3>4, <3>5 DEF Glue
  <2> HIDE DEF g
  <2>9. g[N] = FoldOf(Seq(S), ss, <<>>, Glue(S))
    <3>1. Obeys(g, Seq(S), ss, <<>>, Glue(S))
      BY <2>7, <2>8 DEF Obeys, N
    <3> QED BY <1>1, <3>1, FoldIs DEF N
  <2>10. g[N] = h[N]
    BY <2>2 DEF g
  <2> QED BY <2>1, <2>9, <2>10
<1> QED BY <1>2, <1>3

LEMMA FlattenStep ==
  ASSUME NEW S
  PROVE  /\ FlattenSeq(<<>>) = <<>>
         /\ \A ss \in Seq(Seq(S)) : FlattenSeq(ss) \in Seq(S)
         /\ \A ss \in Seq(Seq(S)), x \in Seq(S) : FlattenSeq(Append(ss, x)) = FlattenSeq(ss) \o x
<1>1. <<>> \in Seq(S) /\ <<>> \in Seq(Seq(S)) /\ Folding(Seq(S), Seq(S), <<>>, Glue(S))
  BY EmptySeq, GlueFolds
<1>2. FlattenSeq(<<>>) = <<>>
  BY <1>1 DEF FlattenSeq
<1>3. ASSUME NEW ss \in Seq(Seq(S)), NEW x \in Seq(S)
      PROVE  FlattenSeq(ss) \in Seq(S) /\ FlattenSeq(Append(ss, x)) = FlattenSeq(ss) \o x
  <2>1. Append(ss, x) \in Seq(Seq(S))
    BY AppendProperties
  <2>2. /\ FoldOf(Seq(S), ss, <<>>, Glue(S)) \in Seq(S)
        /\ FoldOf(Seq(S), Append(ss, x), <<>>, Glue(S))
             = Glue(S)[<<FoldOf(Seq(S), ss, <<>>, Glue(S)), x>>]
    BY <1>1, FoldStep
  <2>3. FlattenSeq(ss) \in Seq(S) /\ FlattenSeq(Append(ss, x)) = Glue(S)[<<FlattenSeq(ss), x>>]
    BY <2>1, <2>2, FlattenFolds
  <2> QED BY <2>3 DEF Glue
<1>4. \A ss \in Seq(Seq(S)) : FlattenSeq(ss) \in Seq(S)
  BY <1>1, <1>3
<1> QED BY <1>2, <1>3, <1>4

\* A set of texts that holds <<>> and is closed under concatenation holds what
\* is glued of its members.
LEMMA FlattenIn ==
  ASSUME NEW S, NEW P \in SUBSET Seq(S), <<>> \in P, \A u, v \in P : u \o v \in P,
         NEW ss \in Seq(P)
  PROVE  FlattenSeq(ss) \in P
<1> DEFINE D == {t \in Seq(P) : t \in Seq(Seq(S)) /\ FlattenSeq(t) \in P}
<1>1. <<>> \in D
  BY EmptySeq, FlattenStep
<1>2. ASSUME NEW t \in Seq(P), NEW x \in P, t \in D PROVE Append(t, x) \in D
  <2>1. t \in Seq(Seq(S)) /\ FlattenSeq(t) \in P /\ x \in Seq(S)
    BY <1>2
  <2>2. Append(t, x) \in Seq(P) /\ Append(t, x) \in Seq(Seq(S))
    BY <2>1, AppendProperties
  <2>3. FlattenSeq(Append(t, x)) = FlattenSeq(t) \o x
    BY <2>1, FlattenStep
  <2> QED BY <2>1, <2>2, <2>3
<1> HIDE DEF D
<1>3. Seq(P) \subseteq D
  BY <1>1, <1>2, SeqSetInduction
<1> QED BY <1>3 DEF D

\* The pieces that a function has for the elements of a sequence, glued.
Mapped(s, piece) == [k \in DOMAIN s |-> piece[s[k]]]

LEMMA MappedStep ==
  ASSUME NEW S, NEW T, NEW piece \in [S -> T]
  PROVE  /\ Mapped(<<>>, piece) = <<>>
         /\ \A s \in Seq(S) : Mapped(s, piece) \in Seq(T)
         /\ \A s \in Seq(S), x \in S :
              Mapped(Append(s, x), piece) = Append(Mapped(s, piece), piece[x])
<1>1. Mapped(<<>>, piece) = <<>>
  BY DEF Mapped
<1>2. ASSUME NEW s \in Seq(S)
      PROVE  /\ Mapped(s, piece) \in Seq(T) /\ Len(Mapped(s, piece)) = Len(s)
             /\ \A k \in 1..Len(s) : Mapped(s, piece)[k] = piece[s[k]]
  <2>1. Len(s) \in Nat /\ DOMAIN s = 1..Len(s) /\ \A k \in 1..Len(s) : s[k] \in S
    BY LenProperties, ElementOfSeq
  <2>2. Mapped(s, piece) \in [1..Len(s) -> T]
    BY <2>1 DEF Mapped
  <2>3. Mapped(s, piece) \in Seq(T)
    BY <2>1, <2>2, SeqDef
  <2>4. DOMAIN Mapped(s, piece) = 1..Len(s)
    BY <2>1 DEF Mapped
  <2>5. Len(Mapped(s, piece)) = Len(s)
    BY <2>1, <2>3, <2>4, LenProperties
  <2> QED BY <2>1, <2>3, <2>5 DEF Mapped
<1>3. ASSUME NEW s \in Seq(S), NEW x \in S
      PROVE  Mapped(Append(s, x), piece) = Append(Mapped(s, piece), piece[x])
  <2>1. PICK t \in Seq(S) : /\ t = Append(s, x) /\ Len(t) = Len(s) + 1 /\ t[Len(s) + 1] = x
                            /\ \A i \in 1..Len(s) : t[i] = s[i]
    <3>1. /\ Append(s, x) \in Seq(S) /\ Len(Append(s, x)) = Len(s) + 1
          /\ Append(s, x)[Len(s) + 1] = x /\ \A i \in 1..Len(s) : Append(s, x)[i] = s[i]
      BY AppendProperties
    <3> QED BY <3>1
  <2>2. PICK m \in Seq(T) : m = Mapped(s, piece) /\ Len(m) = Len(s)
                            /\ \A k \in 1..Len(s) : m[k] = piece[s[k]]
    BY <1>2
  <2>3. PICK n \in Seq(T) : n = Mapped(t, piece) /\ Len(n) = Len(t)
                            /\ \A k \in 1..Len(t) : n[k] = piece[t[k]]
    BY <1>2
  <2>4. piece[x] \in T
    OBVIOUS
  <2>5. PICK z \in Seq(T) : /\ z = Append(m, piece[x]) /\ Len(z) = Len(m) + 1
                            /\ z[Len(m) + 1] = piece[x] /\ \A k \in 1..Len(m) : z[k] = m[k]
    <3>1. PICK y \in T : y = piece[x]
      BY <2>4
    <3>2. /\ Append(m, y) \in Seq(T) /\ Len(Append(m, y)) = Len(m) + 1
          /\ Append(m, y)[Len(m) + 1] = y /\ \A i \in 1..Len(m) : Append(m, y)[i] = m[i]
      BY AppendProperties
    <3> QED BY <3>1, <3>2
  <2>6. Len(s) \in Nat
    BY LenProperties
  <2>7. Len(n) = Len(z) /\ \A k \in 1..Len(n) : n[k] = z[k]
    BY <2>1, <2>2, <2>3, <2>5, <2>6
  <2>8. n = z
    BY <2>7, SeqEqual
  <2> QED BY <2>1, <2>2, <2>3, <2>5, <2>8
<1> QED BY <1>1, <1>2, <1>3

LEMMA GluedStep ==
  ASSUME NEW S, NEW T, NEW piece \in [S -> Seq(T)]
  PROVE  /\ FlattenSeq(Mapped(<<>>, piece)) = <<>>
         /\ \A s \in Seq(S) : FlattenSeq(Mapped(s, piece)) \in Seq(T)
         /\ \A s \in Seq(S), x \in S :
              FlattenSeq(Mapped(Append(s, x), piece)) = FlattenSeq(Mapped(s, piece)) \o piece[x]
<1>1. /\ Mapped(<<>>, piece) = <<>>
      /\ \A s \in Seq(S) : Mapped(s, piece) \in Seq(Seq(T))
      /\ \A s \in Seq(S), x \in S :
           Mapped(Append(s, x), piece) = Append(Mapped(s, piece), piece[x])
  BY MappedStep
<1>2. \A x \in S : piece[x] \in Seq(T)
  OBVIOUS
<1> QED BY <1>1, <1>2, FlattenStep

\* The first elements and the last.
LEMMA LastOfAppend ==
  ASSUME NEW T, NEW a \in Seq(T), NEW x \in T
  PROVE  Front(Append(a, x)) = a /\ Last(Append(a, x)) = x
<1>1. PICK t \in Seq(T) : /\ t = Append(a, x) /\ Len(t) = Len(a) + 1 /\ t[Len(a) + 1] = x
                          /\ \A i \in 1..Len(a) : t[i] = a[i]
  <2>1. /\ Append(a, x) \in Seq(T) /\ Len(Append(a, x)) = Len(a) + 1
        /\ Append(a, x)[Len(a) + 1] = x /\ \A i \in 1..Len(a) : Append(a, x)[i] = a[i]
    BY AppendProperties
  <2> QED BY <2>1
<1>2. Len(a) \in Nat /\ \A i \in 1..Len(a) : t[i] \in T
  BY <1>1, LenProperties, ElementOfSeq
<1>3. PICK f \in Seq(T) : f = SubSeq(t, 1, Len(a)) /\ Len(f) = Len(a)
                          /\ \A i \in 1..Len(a) : f[i] = t[i]
  <2>1. PICK n \in Nat : n = Len(a)
    BY <1>2
  <2>2. /\ SubSeq(t, 1, n) \in Seq(T)
        /\ Len(SubSeq(t, 1, n)) = IF 1 <= n THEN n - 1 + 1 ELSE 0
        /\ \A i \in 1..n - 1 + 1 : SubSeq(t, 1, n)[i] = t[1 + i - 1]
    BY <2>1, <1>2, SubSeqProperties
  <2>3. Len(SubSeq(t, 1, n)) = n /\ \A i \in 1..n : SubSeq(t, 1, n)[i] = t[i]
    BY <2>2
  <2> QED BY <2>1, <2>2, <2>3
<1>4. f = a
  BY <1>1, <1>3, SeqEqual
<1>5. Len(t) - 1 = Len(a)
  BY <1>1, <1>2
<1> QED BY <1>1, <1>3, <1>4, <1>5 DEF Front, Last

LEMMA FrontLast ==
  ASSUME NEW T, NEW p \in Seq(T), p # <<>>
  PROVE  Front(p) \in Seq(T) /\ Last(p) \in T /\ p = Append(Front(p), Last(p))
<1>1. PICK a \in Seq(T), x \in T : p = Append(a, x)
  BY SequenceEmptyOrAppend
<1> QED BY <1>1, LastOfAppend

-----------------------------------------------------------------------------
(* Split.                                                                   *)

Parts(S) == {p \in Seq(Seq(S)) : p # <<>>}

SplitNext(p, x, c) ==
  IF x = c THEN Append(p, <<>>) ELSE Append(Front(p), Append(Last(p), x))

SplitStep(S, c) == [y \in Parts(S) \X S |-> SplitNext(y[1], y[2], c)]

LEMMA SplitFolds ==
  ASSUME NEW S, NEW c
  PROVE  Folding(S, Parts(S), << <<>> >>, SplitStep(S, c))
<1>1. << <<>> >> \in Parts(S)
  BY EmptySeq DEF Parts
<1>2. ASSUME NEW p \in Parts(S), NEW x \in S PROVE SplitNext(p, x, c) \in Parts(S)
  <2>1. p \in Seq(Seq(S)) /\ <<>> \in Seq(S)
    BY EmptySeq DEF Parts
  <2>2. Append(p, <<>>) \in Parts(S)
    BY <2>1, AppendProperties DEF Parts
  <2>3. Front(p) \in Seq(Seq(S)) /\ Last(p) \in Seq(S)
    BY FrontLast DEF Parts
  <2>4. Append(Last(p), x) \in Seq(S)
    BY <2>3, AppendProperties
  <2>5. Append(Front(p), Append(Last(p), x)) \in Parts(S)
    <3>1. PICK a \in Seq(Seq(S)), b \in Seq(S) : a = Front(p) /\ b = Append(Last(p), x)
      BY <2>3, <2>4
    <3>2. Append(a, b) \in Seq(Seq(S)) /\ Append(a, b) # <<>>
      BY AppendProperties
    <3> QED BY <3>1, <3>2 DEF Parts
  <2> QED BY <2>2, <2>5 DEF SplitNext
<1>3. SplitStep(S, c) \in [Parts(S) \X S -> Parts(S)]
  BY <1>2 DEF SplitStep
<1> QED BY <1>1, <1>3 DEF Folding

SplitBy(s, c, h) ==
  h = [k \in 0..Len(s) |->
         LET p == h[k - 1]
         IN  IF k = 0 THEN << <<>> >>
             ELSE IF s[k] = c THEN Append(p, <<>>)
             ELSE Append(Front(p), Append(Last(p), s[k]))]

LEMMA SplitIsFold ==
  ASSUME NEW S, NEW s \in Seq(S), NEW c
  PROVE  Split(s, c) = FoldOf(Parts(S), s, << <<>> >>, SplitStep(S, c))
<1> DEFINE N == Len(s)
           h == CHOOSE g : SplitBy(s, c, g)
<1>1. Split(s, c) = h[N]
  BY DEF Split, SplitBy
<1>2. N \in Nat /\ \A m \in 1..N : s[m] \in S
  BY LenProperties, ElementOfSeq
<1>3. PICK f : FoldsTo(f, Parts(S), s, << <<>> >>, SplitStep(S, c))
  BY SplitFolds, FoldExists
<1> HIDE DEF h, N
<1>4. SplitBy(s, c, f)
  <2>1. f = [k \in 0..N |-> f[k]]
    BY <1>3 DEF FoldsTo, N
  <2>2. ASSUME NEW k \in 0..N
        PROVE  f[k] = IF k = 0 THEN << <<>> >> ELSE SplitNext(f[k - 1], s[k], c)
    <3>1. k = 0 => f[k] = << <<>> >>
      BY <1>3 DEF FoldsTo
    <3>2. ASSUME k # 0 PROVE f[k] = SplitNext(f[k - 1], s[k], c)
      <4>1. k - 1 \in 0..N /\ k \in 1..N
        BY <1>2, <3>2
      <4>2. f[k - 1] \in Parts(S) /\ f[k] = SplitStep(S, c)[<<f[k - 1], s[k]>>]
        BY <4>1, <1>3 DEF FoldsTo, N
      <4> QED BY <4>1, <4>2, <1>2 DEF SplitStep
    <3> QED BY <3>1, <3>2
  <2> QED BY <2>1, <2>2 DEF SplitBy, SplitNext, N
<1>5. SplitBy(s, c, h)
  BY <1>4 DEF h
<1>6. Obeys(h, Parts(S), s, << <<>> >>, SplitStep(S, c))
  <2>1. \A k \in 0..N : h[k] = IF k = 0 THEN << <<>> >> ELSE SplitNext(h[k - 1], s[k], c)
    BY <1>5 DEF SplitBy, SplitNext, N
  <2>2. h[0] = << <<>> >>
    BY <2>1, <1>2
  <2>3. ASSUME NEW m \in 1..N, h[m - 1] \in Parts(S)
        PROVE  h[m] = SplitStep(S, c)[<<h[m - 1], s[m]>>]
    <3>1. h[m] = SplitNext(h[m - 1], s[m], c)
      BY <2>1, <1>2
    <3> QED BY <3>1, <2>3, <1>2 DEF SplitStep
  <2> QED BY <2>2, <2>3 DEF Obeys, N
<1> QED BY <1>1, <1>6, SplitFolds, FoldIs DEF N

LEMMA SplitSteps ==
  ASSUME NEW S, NEW c
  PROVE  /\ Split(<<>>, c) = << <<>> >>
         /\ \A s \in Seq(S) : Split(s, c) \in Parts(S)
         /\ \A s \in Seq(S), x \in S : Split(Append(s, x), c) = SplitNext(Split(s, c), x, c)
<1>1. Folding(S, Parts(S), << <<>> >>, SplitStep(S, c))
  BY SplitFolds
<1>2. Split(<<>>, c) = << <<>> >>
  <2>1. PICK e \in Seq(S) : e = <<>>
    BY EmptySeq
  <2>2. FoldOf(Parts(S), e, << <<>> >>, SplitStep(S, c)) = << <<>> >>
    BY <2>1, <1>1, FoldStep
  <2> QED BY <2>1, <2>2, SplitIsFold
<1>3. ASSUME NEW s \in Seq(S) PROVE Split(s, c) \in Parts(S)
  <2>2. PICK f : FoldsTo(f, Parts(S), s, << <<>> >>, SplitStep(S, c))
    BY <1>1, FoldExists
  <2>3. Obeys(f, Parts(S), s, << <<>> >>, SplitStep(S, c))
    BY <2>2 DEF FoldsTo, Obeys
  <2> QED BY <2>3, <1>1, FoldIs, SplitIsFold
<1>4. ASSUME NEW s \in Seq(S), NEW x \in S
      PROVE  Split(Append(s, x), c) = SplitNext(Split(s, c), x, c)
  <2>1. PICK t \in Seq(S) : t = Append(s, x)
    BY AppendProperties
  <2>2. FoldOf(Parts(S), Append(s, x), << <<>> >>, SplitStep(S, c))
          = SplitStep(S, c)[<<FoldOf(Parts(S), s, << <<>> >>, SplitStep(S, c)), x>>]
    BY <1>1, FoldStep
  <2>3. Split(Append(s, x), c) = SplitStep(S, c)[<<Split(s, c), x>>]
    BY <2>1, <2>2, SplitIsFold
  <2> QED BY <2>3, <1>3 DEF SplitStep
<1> QED BY <1>2, <1>3, <1>4

LEMMA ConcatAppend ==
  ASSUME NEW S, NEW a \in Seq(S), NEW b \in Seq(S), NEW x \in S
  PROVE  a \o Append(b, x) = Append(a \o b, x)
<1>0. <<x>> \in Seq(S)
  OBVIOUS
<1>1. PICK e \in Seq(S) : e = <<x>>
  BY <1>0
<1>2. a \o b \in Seq(S)
  BY ConcatProperties
<1>3. Append(b, x) = b \o e /\ Append(a \o b, x) = (a \o b) \o e
  BY <1>1, <1>2, AppendIsConcat
<1> QED BY <1>1, <1>3, ConcatAssociative

\* One separator more between two texts cuts them apart.
LEMMA SplitAdds ==
  ASSUME NEW S, NEW c \in S, NEW u \in Seq(S), NEW v \in Seq(S)
  PROVE  Split(Append(u, c) \o v, c) = Split(u, c) \o Split(v, c)
<1>1. PICK w \in Seq(S) : w = Append(u, c)
  BY AppendProperties
<1>2. PICK P \in Seq(Seq(S)) : P = Split(u, c)
  BY SplitSteps DEF Parts
<1> DEFINE D == {t \in Seq(S) : Split(w \o t, c) = P \o Split(t, c)}
<1>3. <<>> \in D
  <2>1. <<>> \in Seq(S) /\ w \o <<>> = w
    BY EmptySeq, ConcatEmptySeq
  <2>2. Split(w, c) = Append(P, <<>>)
    BY <1>1, <1>2, SplitSteps DEF SplitNext
  <2>3. Split(<<>>, c) = << <<>> >>
    BY SplitSteps
  <2>4. Append(P, <<>>) = P \o << <<>> >>
    <3>1. PICK e \in Seq(S) : e = <<>>
      BY EmptySeq
    <3> QED BY <3>1, AppendIsConcat
  <2> QED BY <2>1, <2>2, <2>3, <2>4
<1>4. ASSUME NEW t \in Seq(S), NEW x \in S, t \in D PROVE Append(t, x) \in D
  <2>1. w \o t \in Seq(S) /\ Append(t, x) \in Seq(S) /\ w \o Append(t, x) = Append(w \o t, x)
    BY ConcatProperties, AppendProperties, ConcatAppend
  <2>2. PICK Q \in Seq(Seq(S)) : Q = Split(t, c) /\ Q # <<>>
    BY SplitSteps DEF Parts
  <2>3. Split(w \o Append(t, x), c) = SplitNext(P \o Q, x, c)
    BY <1>4, <2>1, <2>2, SplitSteps
  <2>4. Split(Append(t, x), c) = SplitNext(Q, x, c)
    BY <2>2, SplitSteps
  <2>5. PICK F \in Seq(Seq(S)), l \in Seq(S) : Q = Append(F, l) /\ F = Front(Q) /\ l = Last(Q)
    BY <2>2, FrontLast
  <2>6. P \o F \in Seq(Seq(S)) /\ P \o Q = Append(P \o F, l)
    <3>1. PICK T : T = Seq(S)
      OBVIOUS
    <3>2. P \in Seq(T) /\ F \in Seq(T) /\ l \in T
      BY <3>1
    <3>3. P \o F \in Seq(T)
      BY <3>2, ConcatProperties, SMTT(30)
    <3>4. P \o Append(F, l) = Append(P \o F, l)
      BY <3>2, ConcatAppend, SMTT(30)
    <3> QED BY <2>5, <3>1, <3>3, <3>4, Zenon
  <2>7. Front(P \o Q) = P \o F /\ Last(P \o Q) = l
    BY <2>6, LastOfAppend
  <2>8. PICK m \in Seq(S) : m = Append(l, x)
    BY AppendProperties
  <2>9. P \o Append(F, m) = Append(P \o F, m)
    <3>1. PICK T : T = Seq(S)
      OBVIOUS
    <3>2. P \in Seq(T) /\ F \in Seq(T) /\ m \in T
      BY <3>1
    <3> QED BY <3>2, ConcatAppend, SMTT(30)
  <2>10. P \o Append(Q, <<>>) = Append(P \o Q, <<>>)
    <3>1. PICK T : T = Seq(S)
      OBVIOUS
    <3>2. PICK e \in T : e = <<>>
      BY <3>1, EmptySeq
    <3>3. P \in Seq(T) /\ Q \in Seq(T)
      BY <3>1, <2>2
    <3>4. P \o Append(Q, e) = Append(P \o Q, e)
      BY <3>2, <3>3, ConcatAppend, SMTT(30)
    <3> QED BY <3>2, <3>4, Zenon
  <2>11. SplitNext(P \o Q, x, c) = P \o SplitNext(Q, x, c)
    BY <2>5, <2>7, <2>8, <2>9, <2>10 DEF SplitNext
  <2> QED BY <2>1, <2>2, <2>3, <2>4, <2>11
<1> HIDE DEF D
<1>5. v \in D
  BY <1>3, <1>4, SeqSetInduction
<1> QED BY <1>1, <1>2, <1>5 DEF D

Lacks(s, c) == \A k \in DOMAIN s : s[k] # c

LEMMA LacksAppend ==
  ASSUME NEW S, NEW s \in Seq(S), NEW x \in S, NEW c
  PROVE  Lacks(Append(s, x), c) <=> Lacks(s, c) /\ x # c
BY AppendProperties, LenProperties DEF Lacks

LEMMA SingleParts ==
  ASSUME NEW S, NEW p \in S
  PROVE  <<p>> \in Seq(S) /\ Append(<<>>, p) = <<p>> /\ Front(<<p>>) = <<>> /\ Last(<<p>>) = p
<1>1. PICK e \in Seq(S) : e = <<>>
  BY EmptySeq
<1>2. Append(e, p) = <<p>>
  BY <1>1
<1>3. <<p>> \in Seq(S)
  OBVIOUS
<1> QED BY <1>1, <1>2, <1>3, LastOfAppend

LEMMA SplitLacking ==
  ASSUME NEW S, NEW c, NEW s \in Seq(S), Lacks(s, c)
  PROVE  Split(s, c) = <<s>>
<1> DEFINE D == {t \in Seq(S) : Lacks(t, c) => Split(t, c) = <<t>>}
<1>1. <<>> \in D
  BY EmptySeq, SplitSteps
<1>2. ASSUME NEW t \in Seq(S), NEW x \in S, t \in D PROVE Append(t, x) \in D
  <2> SUFFICES ASSUME Lacks(Append(t, x), c) PROVE Split(Append(t, x), c) = <<Append(t, x)>>
    BY AppendProperties
  <2>1. Lacks(t, c) /\ x # c
    BY LacksAppend
  <2>2. Split(t, c) = <<t>>
    BY <2>1, <1>2
  <2>3. Split(Append(t, x), c) = SplitNext(<<t>>, x, c)
    BY <2>2, SplitSteps
  <2>4. PICK m \in Seq(S) : m = Append(t, x)
    BY AppendProperties
  <2>5. Front(<<t>>) = <<>> /\ Last(<<t>>) = t /\ Append(<<>>, m) = <<m>>
    BY SingleParts
  <2> QED BY <2>1, <2>3, <2>4, <2>5 DEF SplitNext
<1> HIDE DEF D
<1>3. s \in D
  BY <1>1, <1>2, SeqSetInduction
<1> QED BY <1>3 DEF D

\* Parts with a separator after each, and Joined in their terms.
Closed(P, S, c) == FlattenSeq(Mapped(P, [p \in Seq(S) |-> p \o <<c>>]))

LEMMA ClosedSteps ==
  ASSUME NEW S, NEW c \in S
  PROVE  /\ Closed(<<>>, S, c) = <<>>
         /\ \A P \in Seq(Seq(S)) : Closed(P, S, c) \in Seq(S)
         /\ \A P \in Seq(Seq(S)), q \in Seq(S) :
              Closed(Append(P, q), S, c) = Append(Closed(P, S, c) \o q, c)
<1> DEFINE close == [p \in Seq(S) |-> p \o <<c>>]
<1>1. <<c>> \in Seq(S)
  OBVIOUS
<1>2. close \in [Seq(S) -> Seq(S)]
  BY <1>1, ConcatProperties
<1>3. \A q \in Seq(S) : close[q] = q \o <<c>>
  OBVIOUS
<1>4. \A P : Closed(P, S, c) = FlattenSeq(Mapped(P, close))
  BY DEF Closed
<1> HIDE DEF close
<1>5. /\ FlattenSeq(Mapped(<<>>, close)) = <<>>
      /\ \A P \in Seq(Seq(S)) : FlattenSeq(Mapped(P, close)) \in Seq(S)
      /\ \A P \in Seq(Seq(S)), q \in Seq(S) :
           FlattenSeq(Mapped(Append(P, q), close)) = FlattenSeq(Mapped(P, close)) \o close[q]
  BY <1>2, GluedStep
<1>6. ASSUME NEW P \in Seq(Seq(S)), NEW q \in Seq(S)
      PROVE  Closed(Append(P, q), S, c) = Append(Closed(P, S, c) \o q, c)
  <2>1. PICK a \in Seq(S) : a = Closed(P, S, c)
    BY <1>4, <1>5
  <2>2. PICK e \in Seq(S) : e = <<c>>
    BY <1>1
  <2>3. Closed(Append(P, q), S, c) = a \o (q \o e)
    BY <1>3, <1>4, <1>5, <2>1, <2>2
  <2>4. a \o q \in Seq(S) /\ (a \o q) \o e = a \o (q \o e)
    BY ConcatProperties, ConcatAssociative
  <2>5. Append(a \o q, c) = (a \o q) \o e
    BY <2>2, <2>4, AppendIsConcat
  <2> QED BY <2>1, <2>3, <2>4, <2>5
<1> QED BY <1>4, <1>5, <1>6

LEMMA JoinedIs ==
  ASSUME NEW S, NEW c \in S, NEW P \in Seq(Seq(S)), NEW q \in Seq(S)
  PROVE  Joined(Append(P, q), c) = Closed(P, S, c) \o q
<1> DEFINE close == [p \in Seq(S) |-> p \o <<c>>]
           Q == Append(P, q)
           pieces == [k \in DOMAIN Q |-> Q[k] \o (IF k < Len(Q) THEN <<c>> ELSE <<>>)]
<1>1. /\ Q \in Seq(Seq(S)) /\ Len(Q) = Len(P) + 1 /\ Q[Len(P) + 1] = q
      /\ \A i \in 1..Len(P) : Q[i] = P[i]
  BY AppendProperties
<1>2. Len(P) \in Nat /\ DOMAIN Q = 1..Len(P) + 1 /\ \A i \in 1..Len(P) : P[i] \in Seq(S)
  BY <1>1, LenProperties, ElementOfSeq
<1>3. <<c>> \in Seq(S)
  OBVIOUS
<1>4. close \in [Seq(S) -> Seq(S)]
  BY <1>3, ConcatProperties
<1>5. \A p \in Seq(S) : close[p] = p \o <<c>>
  OBVIOUS
<1> HIDE DEF close, Q
<1>6. PICK m \in Seq(Seq(S)) : /\ m = Mapped(P, close)
                               /\ \A k \in 1..Len(P) : m[k] = P[k] \o <<c>>
                               /\ Len(m) = Len(P)
  <2>1. DOMAIN P = 1..Len(P)
    BY LenProperties
  <2>2. \A k \in 1..Len(P) : Mapped(P, close)[k] = P[k] \o <<c>>
    BY <1>2, <1>5, <2>1 DEF Mapped
  <2>3. Mapped(P, close) \in Seq(Seq(S))
    BY <1>4, MappedStep
  <2>4. DOMAIN Mapped(P, close) = 1..Len(P)
    BY <2>1 DEF Mapped
  <2>5. Len(Mapped(P, close)) = Len(P)
    BY <2>3, <2>4, <1>2, LenProperties
  <2> QED BY <2>2, <2>3, <2>5
<1>7. PICK z \in Seq(Seq(S)) : /\ z = Append(m, q) /\ Len(z) = Len(m) + 1 /\ z[Len(m) + 1] = q
                               /\ \A i \in 1..Len(m) : z[i] = m[i]
  <2>1. /\ Append(m, q) \in Seq(Seq(S)) /\ Len(Append(m, q)) = Len(m) + 1
        /\ Append(m, q)[Len(m) + 1] = q /\ \A i \in 1..Len(m) : Append(m, q)[i] = m[i]
    BY AppendProperties
  <2> QED BY <2>1
<1>8. ASSUME NEW k \in 1..Len(P) + 1 PROVE pieces[k] = z[k]
  <2>1. pieces[k] = Q[k] \o (IF k < Len(Q) THEN <<c>> ELSE <<>>)
    BY <1>2
  <2>2. CASE k = Len(P) + 1
    <3>1. pieces[k] = q \o <<>>
      BY <2>1, <2>2, <1>1, <1>2
    <3> QED BY <3>1, <2>2, <1>6, <1>7, ConcatEmptySeq
  <2>3. CASE k \in 1..Len(P)
    <3>1. k < Len(Q)
      BY <2>3, <1>1, <1>2
    <3>2. pieces[k] = P[k] \o <<c>>
      BY <3>1, <2>1, <2>3, <1>1
    <3> QED BY <3>2, <2>3, <1>6, <1>7
  <2>4. k = Len(P) + 1 \/ k \in 1..Len(P)
    <3>1. PICK n \in Nat : n = Len(P) /\ k \in 1..n + 1
      BY <1>2
    <3>2. k = n + 1 \/ k \in 1..n
      BY <3>1
    <3> QED BY <3>1, <3>2
  <2> HIDE DEF pieces
  <2> QED BY <2>2, <2>3, <2>4
<1>9. pieces = z
  <2>1. DOMAIN z = 1..Len(P) + 1
    BY <1>6, <1>7, LenProperties
  <2>2. z = [k \in 1..Len(P) + 1 |-> z[k]]
    <3>1. z \in [1..Len(P) + 1 -> Seq(S)]
      BY <2>1, LenProperties
    <3> QED BY <3>1
  <2>3. pieces = [k \in 1..Len(P) + 1 |-> pieces[k]]
    BY <1>2
  <2> HIDE DEF pieces
  <2> QED BY <2>2, <2>3, <1>8
<1>10. Joined(Q, c) = FlattenSeq(pieces)
  BY DEF Joined
<1> HIDE DEF pieces
<1>11. FlattenSeq(z) = FlattenSeq(m) \o q
  BY <1>7, FlattenStep
<1> QED BY <1>6, <1>9, <1>10, <1>11 DEF Closed, close, Q

\* A text is its parts with the separator between them.
LEMMA SplitJoins ==
  ASSUME NEW S, NEW c \in S, NEW s \in Seq(S)
  PROVE  Joined(Split(s, c), c) = s
<1> DEFINE D == {t \in Seq(S) : \E F \in Seq(Seq(S)), l \in Seq(S) :
                                  Split(t, c) = Append(F, l) /\ Closed(F, S, c) \o l = t}
<1>1. <<>> \in D
  <2>1. PICK e \in Seq(S), f \in Seq(Seq(S)) : e = <<>> /\ f = <<>>
    BY EmptySeq
  <2>2. Split(e, c) = <<e>> /\ <<e>> = Append(f, e)
    BY <2>1, SplitSteps, SingleParts
  <2>3. Closed(f, S, c) \o e = e
    BY <2>1, ClosedSteps, ConcatEmptySeq
  <2> QED BY <2>1, <2>2, <2>3
<1>2. ASSUME NEW t \in Seq(S), NEW x \in S, t \in D PROVE Append(t, x) \in D
  <2>1. PICK F \in Seq(Seq(S)), l \in Seq(S) : Split(t, c) = Append(F, l) /\ Closed(F, S, c) \o l = t
    BY <1>2
  <2>2. PICK u \in Seq(S) : u = Append(t, x)
    BY AppendProperties
  <2>3. PICK Q \in Seq(Seq(S)) : Q = Append(F, l) /\ Front(Q) = F /\ Last(Q) = l
    <3>1. Append(F, l) \in Seq(Seq(S))
      BY AppendProperties
    <3> QED BY <3>1, LastOfAppend
  <2>4. Split(u, c) = SplitNext(Q, x, c)
    BY <2>1, <2>2, <2>3, SplitSteps
  <2>5. CASE x = c
    <3>1. PICK e \in Seq(S) : e = <<>>
      BY EmptySeq
    <3>2. Split(u, c) = Append(Q, e)
      BY <2>4, <2>5, <3>1 DEF SplitNext
    <3>3. Closed(Q, S, c) = u
      BY <2>1, <2>2, <2>3, <2>5, ClosedSteps
    <3>4. Closed(Q, S, c) \o e = u
      BY <3>1, <3>3, ConcatEmptySeq
    <3> QED BY <2>2, <3>2, <3>4
  <2>6. CASE x # c
    <3>1. PICK m \in Seq(S) : m = Append(l, x)
      BY AppendProperties
    <3>2. Split(u, c) = Append(F, m)
      BY <2>3, <2>4, <2>6, <3>1 DEF SplitNext
    <3>3. PICK a \in Seq(S) : a = Closed(F, S, c)
      BY ClosedSteps
    <3>4. a \o m = Append(a \o l, x)
      BY <3>1, ConcatAppend
    <3>5. Closed(F, S, c) \o m = u
      BY <2>1, <2>2, <3>3, <3>4
    <3> QED BY <2>2, <3>2, <3>5
  <2> QED BY <2>5, <2>6
<1>3. s \in D
  <2> HIDE DEF D
  <2> QED BY <1>1, <1>2, SeqSetInduction
<1>4. PICK F \in Seq(Seq(S)), l \in Seq(S) : Split(s, c) = Append(F, l) /\ Closed(F, S, c) \o l = s
  BY <1>3
<1> QED BY <1>4, JoinedIs

\* A text of one part is that part.
LEMMA SplitOne ==
  ASSUME NEW S, NEW c \in S, NEW s \in Seq(S), Len(Split(s, c)) = 1
  PROVE  Split(s, c) = <<s>>
<1>1. PICK P \in Seq(Seq(S)) : P = Split(s, c) /\ Len(P) = 1
  BY SplitSteps DEF Parts
<1>2. P[1] \in Seq(S) /\ P = <<P[1]>>
  BY <1>1
<1>3. PICK e \in Seq(Seq(S)), p \in Seq(S) : e = <<>> /\ p = P[1] /\ P = Append(e, p)
  <2>1. <<>> \in Seq(Seq(S))
    BY EmptySeq
  <2>2. PICK p \in Seq(S) : p = P[1]
    BY <1>2
  <2>3. Append(<<>>, p) = <<p>>
    BY SingleParts
  <2> QED BY <2>1, <2>2, <2>3, <1>2
<1>4. Joined(P, c) = Closed(e, S, c) \o p
  BY <1>3, JoinedIs
<1>5. Closed(e, S, c) \o p = p
  BY <1>3, ClosedSteps, ConcatEmptySeq
<1>6. Joined(P, c) = s
  BY <1>1, SplitJoins
<1> QED BY <1>1, <1>2, <1>3, <1>4, <1>5, <1>6

\* A text that falls into as many parts as were joined falls into those parts.
LEMMA SplitOfClosed ==
  ASSUME NEW S, NEW c \in S, NEW P \in Seq(Seq(S)), NEW q \in Seq(S)
  PROVE  /\ Len(Split(Closed(P, S, c) \o q, c)) >= Len(P) + 1
         /\ Len(Split(Closed(P, S, c) \o q, c)) = Len(P) + 1
              => Split(Closed(P, S, c) \o q, c) = Append(P, q)
<1> DEFINE Good(R, r) ==
             /\ Len(Split(Closed(R, S, c) \o r, c)) >= Len(R) + 1
             /\ Len(Split(Closed(R, S, c) \o r, c)) = Len(R) + 1
                  => Split(Closed(R, S, c) \o r, c) = Append(R, r)
           D == {R \in Seq(Seq(S)) : \A r \in Seq(S) : Good(R, r)}
<1>1. ASSUME NEW r \in Seq(S)
      PROVE  Split(r, c) \in Seq(Seq(S)) /\ Len(Split(r, c)) \in Nat /\ Len(Split(r, c)) >= 1
  <2>1. PICK R \in Seq(Seq(S)) : R = Split(r, c) /\ R # <<>>
    BY SplitSteps DEF Parts
  <2> QED BY <2>1, EmptySeq, LenProperties
<1>2. <<>> \in D
  <2>1. PICK e \in Seq(Seq(S)) : e = <<>> /\ Len(e) = 0
    BY EmptySeq
  <2>2. ASSUME NEW r \in Seq(S) PROVE Good(e, r)
    <3>1. Closed(e, S, c) \o r = r
      BY <2>1, ClosedSteps, ConcatEmptySeq
    <3>2. Append(e, r) = <<r>>
      BY <2>1, SingleParts
    <3> QED BY <3>1, <3>2, <2>1, <1>1, SplitOne
  <2> QED BY <2>1, <2>2
<1>3. ASSUME NEW R \in Seq(Seq(S)), NEW r \in Seq(S), R \in D PROVE Append(R, r) \in D
  <2>1. PICK Q \in Seq(Seq(S)) : Q = Append(R, r) /\ Len(Q) = Len(R) + 1
    <3>1. Append(R, r) \in Seq(Seq(S)) /\ Len(Append(R, r)) = Len(R) + 1
      BY AppendProperties
    <3> QED BY <3>1
  <2>2. ASSUME NEW z \in Seq(S) PROVE Good(Q, z)
    <3>1. PICK a \in Seq(S) : a = Closed(R, S, c) \o r
      BY ClosedSteps, ConcatProperties
    <3>2. Closed(Q, S, c) \o z = Append(a, c) \o z
      BY <2>1, <3>1, ClosedSteps
    <3>3. PICK A \in Seq(Seq(S)), Z \in Seq(Seq(S)) :
            /\ A = Split(a, c) /\ Z = Split(z, c) /\ Len(A) \in Nat /\ Len(Z) \in Nat /\ Len(Z) >= 1
      BY <1>1
    <3>4. Split(Closed(Q, S, c) \o z, c) = A \o Z
      BY <3>2, <3>3, SplitAdds
    <3>5. Len(A \o Z) = Len(A) + Len(Z)
      BY ConcatProperties
    <3>6. Len(A) >= Len(R) + 1 /\ (Len(A) = Len(R) + 1 => A = Q)
      BY <1>3, <2>1, <3>1, <3>3
    <3>7. Len(R) \in Nat
      BY LenProperties
    <3>8. Len(A \o Z) >= Len(Q) + 1
      BY <2>1, <3>3, <3>5, <3>6, <3>7
    <3>9. ASSUME Len(A \o Z) = Len(Q) + 1 PROVE A \o Z = Append(Q, z)
      <4>1. Len(A) = Len(R) + 1 /\ Len(Z) = 1
        <5>1. PICK la \in Nat, lz \in Nat, lr \in Nat : la = Len(A) /\ lz = Len(Z) /\ lr = Len(R)
          BY <3>3, <3>7
        <5>2. la + lz = (lr + 1) + 1 /\ la >= lr + 1 /\ lz >= 1
          BY <5>1, <3>9, <2>1, <3>3, <3>5, <3>6
        <5>3. la = lr + 1 /\ lz = 1
          BY <5>2
        <5> QED BY <5>1, <5>3
      <4>2. A = Q /\ Z = <<z>>
        BY <4>1, <3>3, <3>6, SplitOne
      <4>3. Append(Q, z) = Q \o <<z>>
        BY AppendIsConcat
      <4> QED BY <4>2, <4>3
    <3> QED BY <3>4, <3>8, <3>9
  <2> QED BY <2>1, <2>2
<1>4. P \in D
  <2> HIDE DEF D
  <2> QED BY <1>2, <1>3, SeqSetInduction
<1> QED BY <1>4

LEMMA SplitOfJoined ==
  ASSUME NEW S, NEW c \in S, NEW P \in Seq(Seq(S)), P # <<>>,
         Len(Split(Joined(P, c), c)) = Len(P)
  PROVE  Split(Joined(P, c), c) = P
<1>1. PICK F \in Seq(Seq(S)), l \in Seq(S) : P = Append(F, l)
  BY SequenceEmptyOrAppend
<1>2. Joined(P, c) = Closed(F, S, c) \o l
  BY <1>1, JoinedIs
<1>3. Len(P) = Len(F) + 1
  BY <1>1, AppendProperties
<1> QED BY <1>1, <1>2, <1>3, SplitOfClosed

LEMMA JoinedType ==
  ASSUME NEW S, NEW c \in S, NEW P \in Seq(Seq(S)), P # <<>>
  PROVE  Joined(P, c) \in Seq(S)
<1>1. PICK F \in Seq(Seq(S)), l \in Seq(S) : P = Append(F, l)
  BY SequenceEmptyOrAppend
<1>2. PICK a \in Seq(S) : a = Closed(F, S, c)
  BY ClosedSteps
<1>3. Joined(P, c) = a \o l
  BY <1>1, <1>2, JoinedIs
<1> QED BY <1>3, ConcatProperties

-----------------------------------------------------------------------------
(* NotesIn and NotesOut.                                                    *)

NotesNext(t, x) ==
  IF x = "n" /\ t # <<>> /\ Last(t) = Esc THEN Append(Front(t), NL) ELSE Append(t, x)

NotesStep(S) == [y \in Seq(S) \X S |-> NotesNext(y[1], y[2])]

LEMMA NotesFolds ==
  ASSUME NEW S, NL \in S
  PROVE  Folding(S, Seq(S), <<>>, NotesStep(S))
<1>1. <<>> \in Seq(S)
  BY EmptySeq
<1>2. ASSUME NEW t \in Seq(S), NEW x \in S PROVE NotesNext(t, x) \in Seq(S)
  <2>1. Append(t, x) \in Seq(S)
    BY AppendProperties
  <2>2. ASSUME t # <<>> PROVE Append(Front(t), NL) \in Seq(S)
    BY <2>2, FrontLast, AppendProperties
  <2> QED BY <2>1, <2>2 DEF NotesNext
<1>3. NotesStep(S) \in [Seq(S) \X S -> Seq(S)]
  BY <1>2 DEF NotesStep
<1> QED BY <1>1, <1>3 DEF Folding

NotesBy(s, h) ==
  h = [k \in 0..Len(s) |->
         LET t == h[k - 1]
         IN  IF k = 0 THEN <<>>
             ELSE IF s[k] = "n" /\ t # <<>> /\ Last(t) = Esc THEN Append(Front(t), NL)
             ELSE Append(t, s[k])]

LEMMA NotesIsFold ==
  ASSUME NEW S, NL \in S, NEW s \in Seq(S)
  PROVE  NotesIn(s) = FoldOf(Seq(S), s, <<>>, NotesStep(S)) /\ NotesIn(s) \in Seq(S)
<1> DEFINE N == Len(s)
           h == CHOOSE g : NotesBy(s, g)
<1>1. NotesIn(s) = h[N]
  BY DEF NotesIn, NotesBy
<1>2. N \in Nat /\ \A m \in 1..N : s[m] \in S
  BY LenProperties, ElementOfSeq
<1>3. PICK f : FoldsTo(f, Seq(S), s, <<>>, NotesStep(S))
  BY NotesFolds, FoldExists
<1> HIDE DEF h, N
<1>4. NotesBy(s, f)
  <2>1. f = [k \in 0..N |-> f[k]]
    BY <1>3 DEF FoldsTo, N
  <2>2. ASSUME NEW k \in 0..N
        PROVE  f[k] = IF k = 0 THEN <<>> ELSE NotesNext(f[k - 1], s[k])
    <3>1. k = 0 => f[k] = <<>>
      BY <1>3 DEF FoldsTo
    <3>2. ASSUME k # 0 PROVE f[k] = NotesNext(f[k - 1], s[k])
      <4>1. k - 1 \in 0..N /\ k \in 1..N
        BY <1>2, <3>2
      <4>2. f[k - 1] \in Seq(S) /\ f[k] = NotesStep(S)[<<f[k - 1], s[k]>>]
        BY <4>1, <1>3 DEF FoldsTo, N
      <4> QED BY <4>1, <4>2, <1>2 DEF NotesStep
    <3> QED BY <3>1, <3>2
  <2> QED BY <2>1, <2>2 DEF NotesBy, NotesNext, N
<1>5. NotesBy(s, h)
  BY <1>4 DEF h
<1>6. Obeys(h, Seq(S), s, <<>>, NotesStep(S))
  <2>1. \A k \in 0..N : h[k] = IF k = 0 THEN <<>> ELSE NotesNext(h[k - 1], s[k])
    BY <1>5 DEF NotesBy, NotesNext, N
  <2>2. h[0] = <<>>
    <3>1. 0 \in 0..N
      BY <1>2
    <3> QED BY <2>1, <3>1
  <2>3. ASSUME NEW m \in 1..N, h[m - 1] \in Seq(S)
        PROVE  h[m] = NotesStep(S)[<<h[m - 1], s[m]>>]
    <3>1. h[m] = NotesNext(h[m - 1], s[m])
      BY <2>1, <1>2
    <3> QED BY <3>1, <2>3, <1>2 DEF NotesStep
  <2> QED BY <2>2, <2>3 DEF Obeys, N
<1> QED BY <1>1, <1>6, NotesFolds, FoldIs DEF N

LEMMA NotesSteps ==
  ASSUME NEW S, NL \in S
  PROVE  /\ NotesIn(<<>>) = <<>>
         /\ \A s \in Seq(S) : NotesIn(s) \in Seq(S)
         /\ \A s \in Seq(S), x \in S : NotesIn(Append(s, x)) = NotesNext(NotesIn(s), x)
<1>1. Folding(S, Seq(S), <<>>, NotesStep(S))
  BY NotesFolds
<1>2. NotesIn(<<>>) = <<>>
  <2>1. PICK e \in Seq(S) : e = <<>>
    BY EmptySeq
  <2>2. FoldOf(Seq(S), e, <<>>, NotesStep(S)) = <<>>
    BY <2>1, <1>1, FoldStep
  <2> QED BY <2>1, <2>2, NotesIsFold
<1>3. ASSUME NEW s \in Seq(S), NEW x \in S
      PROVE  NotesIn(Append(s, x)) = NotesNext(NotesIn(s), x)
  <2>1. PICK t \in Seq(S) : t = Append(s, x)
    BY AppendProperties
  <2>2. FoldOf(Seq(S), Append(s, x), <<>>, NotesStep(S))
          = NotesStep(S)[<<FoldOf(Seq(S), s, <<>>, NotesStep(S)), x>>]
    BY <1>1, FoldStep
  <2>3. NotesIn(Append(s, x)) = NotesStep(S)[<<NotesIn(s), x>>]
    BY <2>1, <2>2, NotesIsFold
  <2> QED BY <2>3, NotesIsFold DEF NotesStep
<1> QED BY <1>2, <1>3, NotesIsFold

LEMMA NotesOutSteps ==
  ASSUME NEW S, {NL, Esc, "n"} \subseteq S
  PROVE  /\ NotesOut(<<>>) = <<>>
         /\ \A s \in Seq(S) : NotesOut(s) \in Seq(S)
         /\ \A s \in Seq(S), x \in S :
              NotesOut(Append(s, x)) = IF x = NL THEN Append(Append(NotesOut(s), Esc), "n")
                                       ELSE Append(NotesOut(s), x)
<1> DEFINE out == [x \in S |-> IF x = NL THEN <<Esc, "n">> ELSE <<x>>]
<1>1. \A x \in S : <<x>> \in Seq(S)
  OBVIOUS
<1>2. <<Esc, "n">> \in Seq(S)
  OBVIOUS
<1>3. out \in [S -> Seq(S)]
  BY <1>1, <1>2
<1>4. \A x \in S : out[x] = IF x = NL THEN <<Esc, "n">> ELSE <<x>>
  OBVIOUS
<1>5. \A s \in Seq(S) : NotesOut(s) = FlattenSeq(Mapped(s, out))
  <2> SUFFICES ASSUME NEW s \in Seq(S) PROVE NotesOut(s) = FlattenSeq(Mapped(s, out))
    OBVIOUS
  <2>1. \A k \in DOMAIN s : s[k] \in S
    BY ElementOfSeq, LenProperties
  <2>2. Mapped(s, out) = [k \in DOMAIN s |-> IF s[k] = NL THEN <<Esc, "n">> ELSE <<s[k]>>]
    BY <2>1 DEF Mapped
  <2> HIDE DEF out
  <2> QED BY <2>2 DEF NotesOut
<1> HIDE DEF out
<1>6. /\ FlattenSeq(Mapped(<<>>, out)) = <<>>
      /\ \A s \in Seq(S) : FlattenSeq(Mapped(s, out)) \in Seq(S)
      /\ \A s \in Seq(S), x \in S :
           FlattenSeq(Mapped(Append(s, x), out)) = FlattenSeq(Mapped(s, out)) \o out[x]
  BY <1>3, GluedStep
<1>7. NotesOut(<<>>) = <<>>
  <2>1. PICK e \in Seq(S) : e = <<>>
    BY EmptySeq
  <2> QED BY <2>1, <1>5, <1>6
<1>8. ASSUME NEW s \in Seq(S), NEW x \in S
      PROVE  NotesOut(Append(s, x)) = IF x = NL THEN Append(Append(NotesOut(s), Esc), "n")
                                      ELSE Append(NotesOut(s), x)
  <2>1. PICK t \in Seq(S) : t = Append(s, x)
    BY AppendProperties
  <2>2. PICK o \in Seq(S) : o = NotesOut(s)
    BY <1>5, <1>6
  <2>3. NotesOut(t) = o \o out[x]
    BY <2>1, <2>2, <1>5, <1>6
  <2>4. \A y \in S : Append(o, y) = o \o <<y>>
    BY AppendIsConcat
  <2>5. Append(Append(o, Esc), "n") = o \o <<Esc, "n">>
    <3>1. PICK a \in S, b \in S : a = Esc /\ b = "n"
      OBVIOUS
    <3>2. PICK u \in Seq(S) : u = <<a>>
      BY <1>1
    <3>3. Append(u, b) = <<a, b>>
      <4>1. /\ Append(u, b) \in Seq(S) /\ Len(Append(u, b)) = Len(u) + 1
            /\ \A i \in 1..Len(u) : Append(u, b)[i] = u[i]
            /\ Append(u, b)[Len(u) + 1] = b
        BY AppendProperties
      <4>2. Len(u) = 1 /\ u[1] = a
        BY <3>2
      <4>3. Len(Append(u, b)) = 2 /\ Append(u, b)[1] = a /\ Append(u, b)[2] = b
        BY <4>1, <4>2
      <4>4. <<a, b>> \in Seq(S) /\ Len(<<a, b>>) = 2 /\ <<a, b>>[1] = a /\ <<a, b>>[2] = b
        OBVIOUS
      <4>5. PICK y \in Seq(S), z \in Seq(S) : y = Append(u, b) /\ z = <<a, b>>
        BY <4>1, <4>4
      <4>6. Len(y) = Len(z) /\ \A i \in 1..Len(y) : y[i] = z[i]
        BY <4>3, <4>4, <4>5
      <4> QED BY <4>5, <4>6, SeqEqual
    <3>4. o \o Append(u, b) = Append(o \o u, b)
      BY ConcatAppend
    <3> QED BY <3>1, <3>2, <3>3, <3>4, <2>4
  <2> QED BY <2>1, <2>2, <2>3, <2>4, <2>5, <1>4
<1> QED BY <1>5, <1>6, <1>7, <1>8

\* The notes are one line of the text file.
LEMMA NotesOutLacks ==
  ASSUME NEW S, {NL, Esc, "n"} \subseteq S, NEW s \in Seq(S)
  PROVE  Lacks(NotesOut(s), NL)
<1> DEFINE D == {t \in Seq(S) : Lacks(NotesOut(t), NL)}
<1>1. <<>> \in D
  BY EmptySeq, NotesOutSteps DEF Lacks
<1>2. ASSUME NEW t \in Seq(S), NEW x \in S, t \in D PROVE Append(t, x) \in D
  <2>1. PICK o \in Seq(S) : o = NotesOut(t) /\ Lacks(o, NL)
    BY <1>2, NotesOutSteps
  <2>2. PICK a \in Seq(S) : a = Append(o, Esc)
    BY AppendProperties
  <2>3. Lacks(a, NL)
    BY <2>1, <2>2, LacksAppend DEF Esc, NL
  <2>4. Lacks(Append(a, "n"), NL)
    BY <2>3, LacksAppend DEF NL
  <2>5. x # NL => Lacks(Append(o, x), NL)
    BY <2>1, LacksAppend
  <2>6. NotesOut(Append(t, x)) = IF x = NL THEN Append(a, "n") ELSE Append(o, x)
    BY <2>1, <2>2, NotesOutSteps
  <2> QED BY <2>4, <2>5, <2>6, AppendProperties
<1> HIDE DEF D
<1>3. s \in D
  BY <1>1, <1>2, SeqSetInduction
<1> QED BY <1>3 DEF D

\* Notes read back: what was written is read as what was there would be.
LEMMA NotesBack ==
  ASSUME NEW S, {NL, Esc, "n"} \subseteq S, NEW s \in Seq(S)
  PROVE  NotesIn(NotesOut(s)) = NotesIn(s)
<1> DEFINE D == {t \in Seq(S) : NotesIn(NotesOut(t)) = NotesIn(t)}
<1>1. <<>> \in D
  BY EmptySeq, NotesOutSteps
<1>2. ASSUME NEW t \in Seq(S), NEW x \in S, t \in D PROVE Append(t, x) \in D
  <2>1. PICK o \in Seq(S), r \in Seq(S) : o = NotesOut(t) /\ r = NotesIn(t) /\ NotesIn(o) = r
    BY <1>2, NotesOutSteps, NotesSteps
  <2>2. NotesOut(Append(t, x)) = IF x = NL THEN Append(Append(o, Esc), "n") ELSE Append(o, x)
    BY <2>1, NotesOutSteps
  <2>3. NotesIn(Append(t, x)) = NotesNext(r, x)
    BY <2>1, NotesSteps
  <2>4. NotesIn(Append(o, x)) = NotesNext(r, x)
    BY <2>1, NotesSteps
  <2>5. ASSUME x = NL PROVE NotesIn(Append(Append(o, Esc), "n")) = NotesNext(r, x)
    <3>1. PICK a \in Seq(S) : a = Append(o, Esc)
      BY AppendProperties
    <3>2. NotesIn(a) = Append(r, Esc)
      BY <2>1, <3>1, NotesSteps DEF NotesNext, Esc
    <3>3. NotesIn(Append(a, "n")) = NotesNext(Append(r, Esc), "n")
      BY <3>2, NotesSteps
    <3>4. Front(Append(r, Esc)) = r /\ Last(Append(r, Esc)) = Esc /\ Append(r, Esc) # <<>>
      <4>1. Esc \in S
        OBVIOUS
      <4>2. Front(Append(r, Esc)) = r /\ Last(Append(r, Esc)) = Esc
        BY <4>1, LastOfAppend
      <4>3. Append(r, Esc) # <<>>
        BY <4>1, AppendProperties
      <4> QED BY <4>2, <4>3
    <3>5. NotesNext(Append(r, Esc), "n") = Append(r, NL)
      BY <3>4 DEF NotesNext
    <3>6. NotesNext(r, NL) = Append(r, NL)
      BY DEF NotesNext, NL
    <3> QED BY <2>5, <3>1, <3>3, <3>5, <3>6
  <2> QED BY <2>2, <2>3, <2>4, <2>5, AppendProperties
<1> HIDE DEF D
<1>3. s \in D
  BY <1>1, <1>2, SeqSetInduction
<1> QED BY <1>3 DEF D

\* Reading twice is reading once: no \n is left, so nothing is replaced.
Settled(s) == \A k \in 2..Len(s) : ~(s[k] = "n" /\ s[k - 1] = Esc)

LEMMA SettledSteps ==
  ASSUME NEW S, NEW s \in Seq(S), NEW x \in S
  PROVE  Settled(Append(s, x)) <=> Settled(s) /\ (s # <<>> => ~(x = "n" /\ Last(s) = Esc))
<1>1. PICK t \in Seq(S) : /\ t = Append(s, x) /\ Len(t) = Len(s) + 1 /\ t[Len(s) + 1] = x
                          /\ \A i \in 1..Len(s) : t[i] = s[i]
  <2>1. /\ Append(s, x) \in Seq(S) /\ Len(Append(s, x)) = Len(s) + 1
        /\ Append(s, x)[Len(s) + 1] = x /\ \A i \in 1..Len(s) : Append(s, x)[i] = s[i]
    BY AppendProperties
  <2> QED BY <2>1
<1>2. Len(s) \in Nat /\ (s # <<>> <=> Len(s) >= 1)
  BY EmptySeq, LenProperties
<1>3. ASSUME Settled(t) PROVE Settled(s) /\ (s # <<>> => ~(x = "n" /\ Last(s) = Esc))
  <2>1. ASSUME NEW k \in 2..Len(s) PROVE ~(s[k] = "n" /\ s[k - 1] = Esc)
    <3>1. k \in 2..Len(t) /\ k \in 1..Len(s) /\ k - 1 \in 1..Len(s)
      BY <1>1, <1>2
    <3> QED BY <3>1, <1>1, <1>3 DEF Settled
  <2>2. ASSUME s # <<>> PROVE ~(x = "n" /\ Last(s) = Esc)
    <3>1. Len(s) + 1 \in 2..Len(t) /\ (Len(s) + 1) - 1 = Len(s) /\ Len(s) \in 1..Len(s)
      BY <1>1, <1>2, <2>2
    <3> QED BY <3>1, <1>1, <1>3 DEF Settled, Last
  <2> QED BY <2>1, <2>2 DEF Settled
<1>4. ASSUME Settled(s), s # <<>> => ~(x = "n" /\ Last(s) = Esc) PROVE Settled(t)
  <2> SUFFICES ASSUME NEW k \in 2..Len(t) PROVE ~(t[k] = "n" /\ t[k - 1] = Esc)
    BY DEF Settled
  <2>1. CASE k = Len(s) + 1
    <3>1. k - 1 = Len(s) /\ Len(s) \in 1..Len(s) /\ s # <<>>
      BY <2>1, <1>1, <1>2
    <3> QED BY <2>1, <3>1, <1>1, <1>4 DEF Last
  <2>2. CASE k # Len(s) + 1
    <3>1. k \in 2..Len(s) /\ k \in 1..Len(s) /\ k - 1 \in 1..Len(s)
      BY <2>2, <1>1, <1>2
    <3> QED BY <3>1, <1>1, <1>4 DEF Settled
  <2> QED BY <2>1, <2>2
<1> QED BY <1>1, <1>3, <1>4

LEMMA NotesSettle ==
  ASSUME NEW S, {NL, Esc, "n"} \subseteq S, NEW s \in Seq(S)
  PROVE  Settled(NotesIn(s))
<1> DEFINE D == {t \in Seq(S) : Settled(NotesIn(t))}
<1>1. <<>> \in D
  BY EmptySeq, NotesSteps DEF Settled
<1>2. ASSUME NEW t \in Seq(S), NEW x \in S, t \in D PROVE Append(t, x) \in D
  <2>1. PICK r \in Seq(S) : r = NotesIn(t) /\ Settled(r)
    BY <1>2, NotesSteps
  <2>2. NotesIn(Append(t, x)) = NotesNext(r, x)
    BY <2>1, NotesSteps
  <2>3. CASE x = "n" /\ r # <<>> /\ Last(r) = Esc
    <3>1. PICK f \in Seq(S), l \in S : f = Front(r) /\ l = Last(r) /\ r = Append(f, l)
      BY <2>3, FrontLast
    <3>2. Settled(f)
      BY <2>1, <3>1, SettledSteps
    <3>3. Settled(Append(f, NL))
      BY <3>2, SettledSteps DEF NL
    <3> QED BY <2>2, <2>3, <3>1, <3>3, AppendProperties DEF NotesNext
  <2>4. CASE ~(x = "n" /\ r # <<>> /\ Last(r) = Esc)
    <3>1. Settled(Append(r, x))
      BY <2>1, <2>4, SettledSteps
    <3> QED BY <2>2, <2>4, <3>1, AppendProperties DEF NotesNext
  <2> QED BY <2>3, <2>4
<1> HIDE DEF D
<1>3. s \in D
  BY <1>1, <1>2, SeqSetInduction
<1> QED BY <1>3 DEF D

LEMMA SettledStays ==
  ASSUME NEW S, {NL, Esc, "n"} \subseteq S, NEW s \in Seq(S), Settled(s)
  PROVE  NotesIn(s) = s
<1> DEFINE D == {t \in Seq(S) : Settled(t) => NotesIn(t) = t}
<1>1. <<>> \in D
  BY EmptySeq, NotesSteps
<1>2. ASSUME NEW t \in Seq(S), NEW x \in S, t \in D PROVE Append(t, x) \in D
  <2> SUFFICES ASSUME Settled(Append(t, x)) PROVE NotesIn(Append(t, x)) = Append(t, x)
    BY AppendProperties
  <2>1. Settled(t) /\ (t # <<>> => ~(x = "n" /\ Last(t) = Esc))
    BY SettledSteps
  <2>2. NotesIn(Append(t, x)) = NotesNext(t, x)
    BY <1>2, <2>1, NotesSteps
  <2> QED BY <2>1, <2>2 DEF NotesNext
<1> HIDE DEF D
<1>3. s \in D
  BY <1>1, <1>2, SeqSetInduction
<1> QED BY <1>3 DEF D

LEMMA NotesTwice ==
  ASSUME NEW S, {NL, Esc, "n"} \subseteq S, NEW s \in Seq(S)
  PROVE  NotesIn(NotesIn(s)) = NotesIn(s)
BY NotesSettle, SettledStays, NotesSteps

-----------------------------------------------------------------------------
(* Lines, and what the notes keep of them.                                  *)

\* Two texts with a line break between them.
Lined(u, v) == Append(u, NL) \o v

LEMMA LinedIs ==
  ASSUME NEW S, NL \in S, NEW u \in Seq(S), NEW v \in Seq(S)
  PROVE  Lined(u, v) \in Seq(S)
BY AppendProperties, ConcatProperties DEF Lined

LEMMA LinedTwice ==
  ASSUME NEW S, NL \in S, NEW u \in Seq(S), NEW v \in Seq(S), NEW l \in Seq(S)
  PROVE  Lined(u, Lined(v, l)) = Lined(Lined(u, v), l)
<1>1. PICK w \in Seq(S), z \in Seq(S) : w = Append(u, NL) /\ z = Append(v, NL)
  BY AppendProperties
<1>2. (w \o z) \o l = w \o (z \o l)
  BY ConcatAssociative
<1>3. w \o z = Append(w \o v, NL)
  BY <1>1, ConcatAppend
<1> QED BY <1>1, <1>2, <1>3 DEF Lined

LEMMA NothingIs ==
  ASSUME NEW S
  PROVE  <<>> \in Seq(S) /\ Seen(<<>>) = <<>> /\ (\A c : Lacks(<<>>, c))
<1>1. <<>> \in Seq(S) /\ Len(<<>>) = 0
  BY EmptySeq
<1>2. DOMAIN <<>> = {}
  <2>1. DOMAIN <<>> = 1..0
    BY <1>1, LenProperties
  <2> QED BY <2>1
<1> QED BY <1>1, <1>2 DEF Seen, Lacks

\* Induction over the lines of a text.
LEMMA LinesInduction ==
  ASSUME NEW S, NL \in S, NEW P,
         \A l \in Seq(S) : Lacks(l, NL) => l \in P,
         \A u \in Seq(S), l \in Seq(S) : u \in P /\ Lacks(l, NL) => Append(u, NL) \o l \in P
  PROVE  Seq(S) \subseteq P
<1> DEFINE D == {t \in Seq(S) : /\ t \in P
                                /\ \/ Lacks(t, NL)
                                   \/ \E u \in Seq(S), l \in Seq(S) :
                                        u \in P /\ Lacks(l, NL) /\ t = Append(u, NL) \o l}
<1>1. <<>> \in D
  <2>1. PICK e \in Seq(S) : e = <<>> /\ Lacks(e, NL)
    BY NothingIs
  <2> QED BY <2>1
<1>2. ASSUME NEW t \in Seq(S), NEW x \in S, t \in D PROVE Append(t, x) \in D
  <2>1. PICK w \in Seq(S) : w = Append(t, x)
    BY AppendProperties
  <2>2. CASE x = NL
    <3>1. PICK e \in Seq(S) : e = <<>> /\ Lacks(e, NL)
      BY NothingIs
    <3>2. w = Append(t, NL) \o e
      BY <2>1, <2>2, <3>1, ConcatEmptySeq
    <3> QED BY <1>2, <2>1, <3>1, <3>2
  <2>3. CASE x # NL /\ Lacks(t, NL)
    <3>1. Lacks(w, NL)
      BY <2>1, <2>3, LacksAppend
    <3> QED BY <2>1, <3>1
  <2>4. CASE x # NL /\ ~Lacks(t, NL)
    <3>1. PICK u \in Seq(S), l \in Seq(S) : u \in P /\ Lacks(l, NL) /\ t = Append(u, NL) \o l
      BY <1>2, <2>4
    <3>2. PICK m \in Seq(S), a \in Seq(S) : m = Append(l, x) /\ a = Append(u, NL)
      BY AppendProperties
    <3>3. Lacks(m, NL)
      BY <2>4, <3>1, <3>2, LacksAppend
    <3>4. w = a \o m
      BY <2>1, <3>1, <3>2, ConcatAppend
    <3> QED BY <2>1, <3>1, <3>2, <3>3, <3>4
  <2> QED BY <2>2, <2>3, <2>4
<1> HIDE DEF D
<1>3. Seq(S) \subseteq D
  BY <1>1, <1>2, SeqSetInduction
<1> QED BY <1>3 DEF D

\* The lines are read one by one.
LEMMA NotesOfLines ==
  ASSUME NEW S, {NL, Esc, "n"} \subseteq S, NEW u \in Seq(S), NEW v \in Seq(S)
  PROVE  NotesIn(Append(u, NL) \o v) = Append(NotesIn(u), NL) \o NotesIn(v)
<1>1. PICK w \in Seq(S) : w = Append(u, NL)
  BY AppendProperties
<1>2. PICK r \in Seq(S) : r = Append(NotesIn(u), NL) /\ NotesIn(w) = r
  <2>1. NotesIn(u) \in Seq(S) /\ NotesIn(w) = NotesNext(NotesIn(u), NL)
    BY <1>1, NotesSteps
  <2>2. NL # "n"
    BY DEF NL
  <2> QED BY <2>1, <2>2, AppendProperties DEF NotesNext
<1> DEFINE D == {t \in Seq(S) : NotesIn(w \o t) = r \o NotesIn(t)}
<1>3. <<>> \in D
  BY <1>2, EmptySeq, ConcatEmptySeq, NotesSteps
<1>4. ASSUME NEW t \in Seq(S), NEW x \in S, t \in D PROVE Append(t, x) \in D
  <2>1. PICK b \in Seq(S) : b = NotesIn(t) /\ NotesIn(w \o t) = r \o b
    BY <1>4, NotesSteps
  <2>2. w \o t \in Seq(S) /\ w \o Append(t, x) = Append(w \o t, x)
    BY ConcatProperties, ConcatAppend
  <2>3. NotesIn(w \o Append(t, x)) = NotesNext(r \o b, x)
    BY <2>1, <2>2, NotesSteps
  <2>4. NotesIn(Append(t, x)) = NotesNext(b, x)
    BY <2>1, NotesSteps
  <2>5. r \o Append(b, x) = Append(r \o b, x)
    BY ConcatAppend
  <2>6. NotesNext(r \o b, x) = r \o NotesNext(b, x)
    <3>1. CASE b = <<>>
      <4>1. r \o b = r /\ r # <<>> /\ Last(r) = NL
        <5>1. NotesIn(u) \in Seq(S)
          BY NotesSteps
        <5>2. Append(NotesIn(u), NL) # <<>>
          BY <5>1, AppendProperties
        <5> QED BY <1>2, <3>1, <5>1, <5>2, LastOfAppend, ConcatEmptySeq
      <4>2. NL # Esc
        BY DEF NL, Esc
      <4> QED BY <2>5, <3>1, <4>1, <4>2 DEF NotesNext
    <3>2. CASE b # <<>>
      <4>1. PICK f \in Seq(S), l \in S : f = Front(b) /\ l = Last(b) /\ b = Append(f, l)
        BY <3>2, FrontLast
      <4>2. PICK g \in Seq(S) : g = r \o f /\ r \o b = Append(g, l)
        <5>1. r \o f \in Seq(S)
          BY ConcatProperties
        <5>2. r \o Append(f, l) = Append(r \o f, l)
          BY ConcatAppend
        <5> QED BY <4>1, <5>1, <5>2
      <4>3. Front(r \o b) = g /\ Last(r \o b) = l /\ r \o b # <<>>
        <5>1. Append(g, l) # <<>>
          BY AppendProperties
        <5>2. Front(Append(g, l)) = g /\ Last(Append(g, l)) = l
          BY LastOfAppend
        <5> QED BY <4>2, <5>1, <5>2
      <4>4. r \o Append(f, NL) = Append(g, NL)
        BY <4>2, ConcatAppend
      <4> QED BY <2>5, <3>2, <4>1, <4>3, <4>4 DEF NotesNext
    <3> QED BY <3>1, <3>2
  <2>7. Append(t, x) \in Seq(S)
    BY AppendProperties
  <2> QED BY <2>3, <2>4, <2>6, <2>7
<1> HIDE DEF D
<1>5. v \in D
  BY <1>3, <1>4, SeqSetInduction
<1> QED BY <1>1, <1>2, <1>5 DEF D

LEMMA SeenIs ==
  ASSUME NEW S, NEW s \in Seq(S)
  PROVE  Seen(s) \in Seq(S) /\ Seen(s) \in {<<>>, s} /\ Seen(Seen(s)) = Seen(s)
<1>1. <<>> \in Seq(S) /\ Seen(<<>>) = <<>>
  BY NothingIs
<1> QED BY <1>1 DEF Seen

\* A line more, and one line.
LEMMA LineSeen ==
  ASSUME NEW S, NL \in S, NEW l \in Seq(S), Lacks(l, NL)
  PROVE  /\ LinesSeen(l) = Seen(l)
         /\ \A u \in Seq(S) : /\ LinesSeen(u) \in Seq(S)
                              /\ LinesSeen(Append(u, NL) \o l) = Append(LinesSeen(u), NL) \o Seen(l)
<1> DEFINE see == [p \in Seq(S) |-> Seen(p)]
<1>1. see \in [Seq(S) -> Seq(S)] /\ \A p \in Seq(S) : see[p] = Seen(p)
  BY SeenIs
<1> HIDE DEF see
<1>2. ASSUME NEW s \in Seq(S)
      PROVE  \E P \in Seq(Seq(S)) : /\ P = Split(s, NL) /\ P # <<>>
                                    /\ SeenLines(s) = Mapped(P, see)
  <2>1. PICK P \in Seq(Seq(S)) : P = Split(s, NL) /\ P # <<>>
    BY SplitSteps DEF Parts
  <2>2. \A k \in DOMAIN P : P[k] \in Seq(S)
    BY LenProperties, ElementOfSeq
  <2>3. [k \in DOMAIN P |-> Seen(P[k])] = [k \in DOMAIN P |-> see[P[k]]]
    BY <1>1, <2>2
  <2>4. SeenLines(s) = [k \in DOMAIN P |-> Seen(P[k])]
    BY <2>1 DEF SeenLines
  <2> QED BY <2>1, <2>3, <2>4 DEF Mapped
<1>3. /\ Mapped(<<>>, see) = <<>>
      /\ \A P \in Seq(Seq(S)) : Mapped(P, see) \in Seq(Seq(S))
      /\ \A P \in Seq(Seq(S)), q \in Seq(S) :
           Mapped(Append(P, q), see) = Append(Mapped(P, see), Seen(q))
  BY <1>1, MappedStep
<1>4. PICK q \in Seq(S) : q = Seen(l)
  BY SeenIs
<1>5. LinesSeen(l) = q
  <2>1. PICK e \in Seq(Seq(S)) : e = <<>> /\ Append(e, l) = <<l>> /\ Mapped(e, see) = e
    BY <1>3, EmptySeq, SingleParts
  <2>2. Split(l, NL) = Append(e, l)
    BY <2>1, SplitLacking
  <2>3. SeenLines(l) = Append(e, q)
    <3>1. SeenLines(l) = Mapped(Append(e, l), see)
      BY <1>2, <2>2
    <3>2. Mapped(Append(e, l), see) = Append(Mapped(e, see), q)
      BY <1>3, <1>4
    <3> QED BY <2>1, <3>1, <3>2
  <2>4. Joined(Append(e, q), NL) = Closed(e, S, NL) \o q
    BY JoinedIs
  <2>5. Closed(e, S, NL) \o q = q
    BY <2>1, ClosedSteps, ConcatEmptySeq
  <2> QED BY <2>3, <2>4, <2>5 DEF LinesSeen
<1>6. ASSUME NEW u \in Seq(S)
      PROVE  /\ LinesSeen(u) \in Seq(S)
             /\ LinesSeen(Append(u, NL) \o l) = Append(LinesSeen(u), NL) \o q
  <2>1. PICK P \in Seq(Seq(S)) : P = Split(u, NL) /\ P # <<>> /\ SeenLines(u) = Mapped(P, see)
    BY <1>2
  <2>2. PICK F \in Seq(Seq(S)), p \in Seq(S) : P = Append(F, p)
    BY <2>1, SequenceEmptyOrAppend
  <2>3. PICK M \in Seq(Seq(S)), m \in Seq(S) : M = Mapped(F, see) /\ m = Seen(p)
    BY <1>3, SeenIs
  <2>4. PICK N \in Seq(Seq(S)) : N = Mapped(P, see) /\ N = Append(M, m) /\ N # <<>>
    <3>1. Append(M, m) \in Seq(Seq(S)) /\ Append(M, m) # <<>>
      BY AppendProperties
    <3> QED BY <1>3, <2>2, <2>3, <3>1
  <2>5. LinesSeen(u) = Joined(N, NL)
    BY <2>1, <2>4 DEF LinesSeen
  <2>6. PICK a \in Seq(S) : a = Closed(M, S, NL) \o m
    BY ClosedSteps, ConcatProperties
  <2>7. LinesSeen(u) = a
    <3>1. Joined(Append(M, m), NL) = Closed(M, S, NL) \o m
      BY JoinedIs
    <3> QED BY <2>4, <2>5, <2>6, <3>1
  <2>8. Closed(N, S, NL) = Append(a, NL)
    BY <2>4, <2>6, ClosedSteps
  <2>9. PICK w \in Seq(S) : w = Append(u, NL) \o l
    BY AppendProperties, ConcatProperties
  <2>10. Split(w, NL) = Append(P, l)
    <3>1. Split(w, NL) = Split(u, NL) \o Split(l, NL)
      BY <2>9, SplitAdds
    <3>2. Split(l, NL) = <<l>>
      BY SplitLacking
    <3> QED BY <2>1, <3>1, <3>2, AppendIsConcat
  <2>11. SeenLines(w) = Append(N, q)
    <3>1. SeenLines(w) = Mapped(Append(P, l), see)
      BY <1>2, <2>10
    <3> QED BY <3>1, <1>3, <1>4, <2>4
  <2>12. LinesSeen(w) = Closed(N, S, NL) \o q
    <3>1. Joined(Append(N, q), NL) = Closed(N, S, NL) \o q
      BY JoinedIs
    <3> QED BY <2>11, <3>1 DEF LinesSeen
  <2> QED BY <2>7, <2>8, <2>9, <2>12
<1> QED BY <1>4, <1>5, <1>6

LEMMA SeenOfLines ==
  ASSUME NEW S, NL \in S, NEW u \in Seq(S), NEW v \in Seq(S)
  PROVE  /\ LinesSeen(u) \in Seq(S)
         /\ LinesSeen(Append(u, NL) \o v) = Append(LinesSeen(u), NL) \o LinesSeen(v)
<1>1. \A s \in Seq(S) : LinesSeen(s) \in Seq(S)
  <2>1. <<>> \in Seq(S) /\ Lacks(<<>>, NL)
    BY NothingIs
  <2> QED BY <2>1, LineSeen
<1> DEFINE P == {t \in Seq(S) : LinesSeen(Lined(u, t)) = Lined(LinesSeen(u), LinesSeen(t))}
<1>2. ASSUME NEW l \in Seq(S), Lacks(l, NL) PROVE l \in P
  BY <1>2, LineSeen DEF Lined
<1>3. ASSUME NEW t \in Seq(S), NEW l \in Seq(S), t \in P, Lacks(l, NL)
      PROVE  Lined(t, l) \in P
  <2>1. PICK a \in Seq(S), x \in Seq(S), q \in Seq(S) :
          a = LinesSeen(u) /\ x = LinesSeen(t) /\ q = Seen(l)
    BY <1>1, SeenIs
  <2>2. PICK c \in Seq(S), b \in Seq(S) : c = Lined(t, l) /\ b = Lined(u, t)
    BY LinedIs
  <2>3. Lined(u, c) = Lined(b, l)
    BY <2>2, LinedTwice
  <2>4. \A s \in Seq(S) : LinesSeen(Lined(s, l)) = Lined(LinesSeen(s), q)
    BY <1>3, <2>1, LineSeen DEF Lined
  <2>5. LinesSeen(b) = Lined(a, x)
    BY <1>3, <2>1, <2>2
  <2>6. LinesSeen(Lined(u, c)) = Lined(Lined(a, x), q)
    BY <2>3, <2>4, <2>5
  <2>7. LinesSeen(c) = Lined(x, q)
    BY <2>1, <2>2, <2>4
  <2>8. Lined(Lined(a, x), q) = Lined(a, Lined(x, q))
    BY LinedTwice
  <2> QED BY <2>1, <2>2, <2>6, <2>7, <2>8
<1> HIDE DEF P
<1>4. v \in P
  BY <1>2, <1>3, LinesInduction DEF Lined
<1> QED BY <1>1, <1>4 DEF P, Lined

\* White space has no \n in it.
LEMMA WhiteNotes ==
  ASSUME NEW S, {NL, Esc, "n"} \subseteq S, NEW s \in Seq(S), Seen(s) = <<>>
  PROVE  NotesIn(s) = s
<1>1. CASE s = <<>>
  BY <1>1, NotesSteps
<1>2. CASE s # <<>>
  <2>1. \A k \in DOMAIN s : s[k] \in {TAB, NL}
    BY <1>2 DEF Seen
  <2>2. "n" \notin {TAB, NL}
    BY DEF TAB, NL
  <2>3. Settled(s)
    <3> SUFFICES ASSUME NEW k \in 2..Len(s) PROVE s[k] # "n"
      BY DEF Settled
    <3>1. k \in DOMAIN s
      BY LenProperties
    <3> QED BY <2>1, <2>2, <3>1
  <2> QED BY <2>3, SettledStays
<1> QED BY <1>1, <1>2

\* What is seen of the notes does not depend on what was seen before they were
\* read: the lines that XML drops are those in which nothing is read.
LEMMA NotesSeen ==
  ASSUME NEW S, {NL, Esc, "n"} \subseteq S, NEW s \in Seq(S)
  PROVE  LinesSeen(NotesIn(LinesSeen(s))) = LinesSeen(NotesIn(s))
<1> DEFINE P == {t \in Seq(S) : LinesSeen(NotesIn(LinesSeen(t))) = LinesSeen(NotesIn(t))}
<1>1. ASSUME NEW l \in Seq(S), Lacks(l, NL) PROVE l \in P
  <2>1. LinesSeen(l) = Seen(l)
    BY <1>1, LineSeen
  <2>2. CASE Seen(l) = l
    BY <2>1, <2>2
  <2>3. CASE Seen(l) = <<>>
    <3>1. PICK e \in Seq(S) : e = <<>> /\ Lacks(e, NL) /\ Seen(e) = e /\ NotesIn(e) = e
      BY NothingIs, NotesSteps
    <3>2. LinesSeen(e) = e
      BY <3>1, LineSeen
    <3>3. NotesIn(l) = l
      BY <2>3, WhiteNotes
    <3> QED BY <2>1, <2>3, <3>1, <3>2, <3>3
  <2> QED BY <2>2, <2>3, SeenIs
<1>2. ASSUME NEW u \in Seq(S), NEW l \in Seq(S), u \in P, Lacks(l, NL)
      PROVE  Append(u, NL) \o l \in P
  <2>1. PICK x \in Seq(S), y \in Seq(S) : x = LinesSeen(u) /\ y = LinesSeen(l)
    BY SeenOfLines
  <2>2. PICK a \in Seq(S), b \in Seq(S), c \in Seq(S), d \in Seq(S) :
          a = NotesIn(u) /\ b = NotesIn(l) /\ c = NotesIn(x) /\ d = NotesIn(y)
    BY NotesSteps
  <2>3. LinesSeen(c) = LinesSeen(a) /\ LinesSeen(d) = LinesSeen(b)
    BY <1>1, <1>2, <2>1, <2>2
  <2>4. LinesSeen(Append(u, NL) \o l) = Append(x, NL) \o y
    BY <2>1, SeenOfLines
  <2>5. NotesIn(Append(x, NL) \o y) = Append(c, NL) \o d
    BY <2>2, NotesOfLines
  <2>6. NotesIn(Append(u, NL) \o l) = Append(a, NL) \o b
    BY <2>2, NotesOfLines
  <2>7. LinesSeen(Append(c, NL) \o d) = Append(LinesSeen(c), NL) \o LinesSeen(d)
    BY SeenOfLines
  <2>8. LinesSeen(Append(a, NL) \o b) = Append(LinesSeen(a), NL) \o LinesSeen(b)
    BY SeenOfLines
  <2>9. Append(u, NL) \o l \in Seq(S)
    BY AppendProperties, ConcatProperties
  <2> QED BY <2>3, <2>4, <2>5, <2>6, <2>7, <2>8, <2>9
<1> HIDE DEF P
<1>3. s \in P
  BY <1>1, <1>2, LinesInduction
<1> QED BY <1>3 DEF P

-----------------------------------------------------------------------------
(* Entries.                                                                 *)

\* What files are made of.
Tokens == Letters \cup Stamps
            \cup {"C3", "byte AD", "byte A0", "created", "accessed", "lifetime"}

LEMMA TokensAre ==
  /\ {Sep, Esc, Dot, TAB, NL, AD, A0, Bad, "n"} \subseteq Tokens
  /\ {"C3", "byte AD", "byte A0", "created", "accessed", "lifetime"} \subseteq Tokens
  /\ \A s \in Text : s \in Seq(Tokens)
<1>1. Letters \subseteq Tokens
  BY DEF Tokens
<1>2. Seq(Letters) \subseteq Seq(Tokens)
  BY <1>1, SeqMonotonic
<1> QED BY <1>1, <1>2, LettersAssumption DEF Tokens, Text

\* What the text format makes of an entry.
AfterText(f, now) == [f EXCEPT !.notes = NotesIn(f.notes), !.modified = now]

\* A line of the text format that has its nine fields says what they were.
LEMMA LineBack ==
  ASSUME NEW t, NEW d, NEW e, NEW now, d.entries[e] \in EntriesIn(t),
         PathIn("txt", d, e) \in Text, Readable(d, e)
  PROVE  ThroughText(d, e, now) = AfterText(d.entries[e], now)
<1> DEFINE f == d.entries[e]
           fields == <<f.name, f.user, f.password, PathIn("txt", d, e), <<"created">>,
                       <<f.modified>>, <<"accessed">>, <<"lifetime">>, <<f.uuid>>>>
<1>1. /\ f.name \in Seq(Tokens) /\ f.user \in Seq(Tokens) /\ f.password \in Seq(Tokens)
      /\ f.notes \in Seq(Tokens) /\ f.modified \in Tokens /\ f.uuid \in Tokens
      /\ PathIn("txt", d, e) \in Seq(Tokens)
  BY TokensAre DEF EntriesIn, Tokens
<1>2. PICK F \in Seq(Seq(Tokens)) : F = fields /\ Len(F) = 9 /\ F # <<>>
  <2>1. fields \in Seq(Seq(Tokens)) /\ Len(fields) = 9
    <3>1. /\ <<"created">> \in Seq(Tokens) /\ <<"accessed">> \in Seq(Tokens)
          /\ <<"lifetime">> \in Seq(Tokens) /\ <<f.modified>> \in Seq(Tokens)
          /\ <<f.uuid>> \in Seq(Tokens)
      <4>1. \A x \in Tokens : <<x>> \in Seq(Tokens)
        OBVIOUS
      <4>2. f.modified \in Tokens /\ f.uuid \in Tokens
        BY <1>1
      <4> HIDE DEF f
      <4> QED BY <4>1, <4>2, TokensAre
    <3> HIDE DEF f
    <3> QED BY <1>1, <3>1
  <2> QED BY <2>1, EmptySeq
<1>3. PICK H \in Seq(Tokens) : H = Joined(F, TAB)
  BY <1>2, JoinedType, TokensAre
<1>4. {NL, Esc, "n"} \subseteq Tokens
  BY TokensAre
<1>5. PICK N \in Seq(Tokens) : N = NotesOut(f.notes) /\ Lacks(N, NL)
  BY <1>1, <1>4, NotesOutSteps, NotesOutLacks
<1>6. PICK text : text = EntryText(d, e)
  OBVIOUS
<1>7. text = H \o <<NL>> \o N \o <<NL>>
  BY <1>2, <1>3, <1>5, <1>6 DEF EntryText
<1>8. Split(text, NL) = (Split(H, NL) \o <<N>>) \o << <<>> >>
  <2>1. PICK u \in Seq(Tokens) : u = Append(H, NL) \o N
    <3>1. PICK a \in Seq(Tokens) : a = Append(H, NL)
      BY <1>4, AppendProperties
    <3> QED BY <3>1, ConcatProperties
  <2>2. PICK v \in Seq(Tokens) : v = <<>>
    BY EmptySeq
  <2>3. text = Append(u, NL) \o v
    <3>1. H \o <<NL>> = Append(H, NL) /\ u \o <<NL>> = Append(u, NL)
      BY <1>4, AppendIsConcat
    <3>2. Append(u, NL) \in Seq(Tokens)
      BY <1>4, AppendProperties
    <3> QED BY <1>7, <2>1, <2>2, <3>1, <3>2, ConcatEmptySeq
  <2>4. Split(text, NL) = Split(u, NL) \o Split(v, NL)
    BY <2>3, <1>4, SplitAdds
  <2>5. Split(u, NL) = Split(H, NL) \o Split(N, NL)
    BY <2>1, <1>4, SplitAdds
  <2>6. Split(N, NL) = <<N>>
    BY <1>5, SplitLacking
  <2>7. Split(v, NL) = << <<>> >>
    BY <2>2, SplitSteps
  <2> QED BY <2>4, <2>5, <2>6, <2>7
<1>9. PICK P \in Seq(Seq(Tokens)) : P = Split(H, NL) /\ Len(P) \in Nat
  BY SplitSteps, LenProperties DEF Parts
<1>10. PICK L \in Seq(Seq(Tokens)) : /\ L = Split(text, NL) /\ Len(L) = Len(P) + 2
                                     /\ \A i \in 1..Len(P) : L[i] = P[i]
                                     /\ L[Len(P) + 1] = N
  <2>1. PICK n \in Seq(Seq(Tokens)), v \in Seq(Seq(Tokens)) :
          n = <<N>> /\ v = << <<>> >> /\ Len(n) = 1 /\ Len(v) = 1 /\ n[1] = N
    <3>1. <<N>> \in Seq(Seq(Tokens)) /\ Len(<<N>>) = 1 /\ <<N>>[1] = N
      OBVIOUS
    <3>2. << <<>> >> \in Seq(Seq(Tokens)) /\ Len(<< <<>> >>) = 1
      BY EmptySeq
    <3> QED BY <3>1, <3>2
  <2>2. PICK m \in Seq(Seq(Tokens)) : /\ m = P \o n /\ Len(m) = Len(P) + 1
                                      /\ \A i \in 1..Len(P) : m[i] = P[i]
                                      /\ m[Len(P) + 1] = N
    <3>1. /\ P \o n \in Seq(Seq(Tokens)) /\ Len(P \o n) = Len(P) + Len(n)
          /\ \A i \in 1..Len(P) + Len(n) : (P \o n)[i] = IF i <= Len(P) THEN P[i] ELSE n[i - Len(P)]
      BY ConcatProperties
    <3>2. \A i \in 1..Len(P) : (P \o n)[i] = P[i]
      BY <1>9, <2>1, <3>1
    <3>3. (P \o n)[Len(P) + 1] = N
      <4>1. Len(P) + 1 \in 1..Len(P) + Len(n) /\ ~(Len(P) + 1 <= Len(P)) /\ (Len(P) + 1) - Len(P) = 1
        BY <1>9, <2>1
      <4> QED BY <4>1, <2>1, <3>1
    <3> QED BY <2>1, <3>1, <3>2, <3>3
  <2>3. /\ m \o v \in Seq(Seq(Tokens)) /\ Len(m \o v) = Len(P) + 2
        /\ \A i \in 1..Len(P) + 1 : (m \o v)[i] = m[i]
    <3>1. /\ m \o v \in Seq(Seq(Tokens)) /\ Len(m \o v) = Len(m) + Len(v)
          /\ \A i \in 1..Len(m) + Len(v) : (m \o v)[i] = IF i <= Len(m) THEN m[i] ELSE v[i - Len(m)]
      BY ConcatProperties
    <3> QED BY <3>1, <1>9, <2>1, <2>2
  <2>4. Split(text, NL) = m \o v
    BY <1>8, <1>9, <2>1, <2>2
  <2>5. \A i \in 1..Len(P) : (m \o v)[i] = P[i]
    BY <1>9, <2>2, <2>3
  <2>6. (m \o v)[Len(P) + 1] = N
    BY <1>9, <2>2, <2>3
  <2> QED BY <2>3, <2>4, <2>5, <2>6
<1>11. Len(L) = 3 /\ Len(Split(L[1], TAB)) = 9
  BY <1>6, <1>10 DEF Readable
<1>12. Len(P) = 1
  <2>1. PICK n \in Nat : n = Len(P)
    BY <1>9
  <2>2. n + 2 = 3
    BY <2>1, <1>10, <1>11
  <2> QED BY <2>1, <2>2
<1>13. P = <<H>>
  BY <1>4, <1>9, <1>12, SplitOne
<1>14. L[1] = H /\ L[2] = N
  BY <1>10, <1>12, <1>13
<1>15. Split(H, TAB) = F
  <2>1. TAB \in Tokens
    BY TokensAre
  <2> QED BY <2>1, <1>2, <1>3, <1>11, <1>14, SplitOfJoined
<1>16. ThroughText(d, e, now)
         = [f EXCEPT !.name = F[1], !.user = F[2], !.password = F[3],
                     !.uuid = F[9][1], !.notes = NotesIn(N), !.modified = now]
  BY <1>6, <1>10, <1>14, <1>15 DEF ThroughText
<1>17. F[1] = f.name /\ F[2] = f.user /\ F[3] = f.password /\ F[9][1] = f.uuid
  BY <1>2
<1>18. NotesIn(N) = NotesIn(f.notes)
  BY <1>1, <1>4, <1>5, NotesBack
<1>19. f \in [name : Text, user : Text, password : Text, notes : Text,
              group : 0..Len(t), modified : Stamps, uuid : Stamps]
  BY DEF EntriesIn
<1> HIDE DEF f
<1>20. [f EXCEPT !.name = f.name, !.user = f.user, !.password = f.password,
                 !.uuid = f.uuid, !.notes = NotesIn(f.notes), !.modified = now]
         = [f EXCEPT !.notes = NotesIn(f.notes), !.modified = now]
  BY <1>19
<1>21. ThroughText(d, e, now) = [f EXCEPT !.notes = NotesIn(f.notes), !.modified = now]
  BY <1>16, <1>17, <1>18, <1>20
<1> QED BY <1>21 DEF f, AfterText

\* What the bytes of a text are made of.
Codes == Letters \cup {"C3", "byte AD", "byte A0"}

LEMMA PiecesIn ==
  ASSUME NEW S, NEW P \in SUBSET Seq(S), <<>> \in P, \A u, v \in P : u \o v \in P,
         NEW n \in Nat, NEW f \in [1..n -> P]
  PROVE  FlattenSeq(f) \in P
<1>1. f \in Seq(P)
  BY SeqDef
<1> QED BY <1>1, FlattenIn

LEMMA TextPieces ==
  ASSUME NEW S, NEW n \in Nat, NEW f \in [1..n -> Seq(S)]
  PROVE  FlattenSeq(f) \in Seq(S)
<1>1. f \in Seq(Seq(S))
  BY SeqDef
<1> QED BY <1>1, FlattenStep

LEMMA FlattenSingles ==
  ASSUME NEW S, NEW s \in Seq(S)
  PROVE  FlattenSeq([k \in DOMAIN s |-> <<s[k]>>]) = s
<1> DEFINE single == [x \in S |-> <<x>>]
           D == {t \in Seq(S) : FlattenSeq(Mapped(t, single)) = t}
<1>1. /\ \A x \in S : <<x>> \in Seq(S)
      /\ \A x \in S : single[x] = <<x>>
      /\ single \in [S -> Seq(S)]
  <2>1. \A x \in S : <<x>> \in Seq(S)
    OBVIOUS
  <2> QED BY <2>1
<1>2. Mapped(s, single) = [k \in DOMAIN s |-> <<s[k]>>]
  <2>1. \A k \in DOMAIN s : s[k] \in S
    BY ElementOfSeq, LenProperties
  <2> QED BY <2>1, <1>1 DEF Mapped
<1> HIDE DEF single
<1>3. /\ FlattenSeq(Mapped(<<>>, single)) = <<>>
      /\ \A t \in Seq(S), x \in S :
           FlattenSeq(Mapped(Append(t, x), single)) = FlattenSeq(Mapped(t, single)) \o single[x]
  BY <1>1, GluedStep
<1>4. <<>> \in D
  BY <1>3, EmptySeq
<1>5. ASSUME NEW t \in Seq(S), NEW x \in S, t \in D PROVE Append(t, x) \in D
  <2>1. FlattenSeq(Mapped(Append(t, x), single)) = t \o <<x>>
    BY <1>1, <1>3, <1>5
  <2> QED BY <2>1, AppendIsConcat, AppendProperties
<1> HIDE DEF D
<1>6. s \in D
  BY <1>4, <1>5, SeqSetInduction
<1> QED BY <1>2, <1>6 DEF D

LEMMA CodesAre ==
  /\ {AD, A0, Bad} \subseteq Codes /\ {"C3", "byte AD", "byte A0"} \subseteq Codes
  /\ \A s \in Text : s \in Seq(Codes)
<1>1. Letters \subseteq Codes
  BY DEF Codes
<1>2. Seq(Letters) \subseteq Seq(Codes)
  BY <1>1, SeqMonotonic
<1> QED BY <1>1, <1>2, LettersAssumption DEF Codes, Text

LEMMA BytesType ==
  ASSUME NEW s \in Text
  PROVE  Bytes(s) \in Seq(Codes)
<1>1. PICK n \in Nat : n = Len(s) /\ DOMAIN s = 1..n /\ \A k \in 1..n : s[k] \in Letters
  BY ElementOfSeq, LenProperties DEF Text
<1>2. \A x \in Codes : <<x>> \in Seq(Codes)
  OBVIOUS
<1>3. \A x, y \in Codes : <<x, y>> \in Seq(Codes)
  OBVIOUS
<1> DEFINE f == [k \in DOMAIN s |-> CASE s[k] = AD -> <<"C3", "byte AD">>
                                      [] s[k] = A0 -> <<"C3", "byte A0">>
                                      [] OTHER     -> <<s[k]>>]
<1>4. ASSUME NEW k \in 1..n PROVE f[k] \in Seq(Codes)
  <2>1. <<"C3", "byte AD">> \in Seq(Codes) /\ <<"C3", "byte A0">> \in Seq(Codes)
    BY <1>3, CodesAre
  <2>2. <<s[k]>> \in Seq(Codes)
    <3>1. s[k] \in Codes
      BY <1>1 DEF Codes
    <3> QED BY <3>1, <1>2
  <2>3. f[k] \in {<<"C3", "byte AD">>, <<"C3", "byte A0">>, <<s[k]>>}
    BY <1>1 DEF AD, A0
  <2> QED BY <2>1, <2>2, <2>3
<1>5. f \in [1..n -> Seq(Codes)]
  <2>1. f = [k \in 1..n |-> f[k]]
    BY <1>1
  <2> HIDE DEF f
  <2> QED BY <2>1, <1>4
<1>6. Bytes(s) = FlattenSeq(f)
  BY DEF Bytes
<1> QED BY <1>5, <1>6, TextPieces

LEMMA FromUtf8Type ==
  ASSUME NEW b \in Seq(Codes)
  PROVE  FromUtf8(b) \in Text
<1>1. PICK n \in Nat : n = Len(b) /\ DOMAIN b = 1..n /\ \A k \in 1..n : b[k] \in Codes
  BY ElementOfSeq, LenProperties
<1>2. \A x \in Letters : <<x>> \in Seq(Letters)
  OBVIOUS
<1>3. <<>> \in Seq(Letters) /\ <<Bad>> \in Seq(Letters) /\ <<AD>> \in Seq(Letters)
      /\ <<A0>> \in Seq(Letters)
  BY <1>2, EmptySeq, LettersAssumption
<1> DEFINE Led(k)   == k > 1 /\ b[k - 1] = "C3"
           Leads(k) == k < Len(b) /\ b[k + 1] \in {"byte AD", "byte A0"}
           f == [k \in DOMAIN b |-> CASE b[k] = "C3"      -> IF Leads(k) THEN <<>> ELSE <<Bad>>
                                      [] b[k] = "byte AD" -> <<IF Led(k) THEN AD ELSE Bad>>
                                      [] b[k] = "byte A0" -> <<IF Led(k) THEN A0 ELSE Bad>>
                                      [] OTHER            -> <<b[k]>>]
<1>4. FromUtf8(b) = FlattenSeq(f)
  BY DEF FromUtf8
<1> HIDE DEF Led, Leads
<1>5. ASSUME NEW k \in 1..n PROVE f[k] \in Seq(Letters)
  <2>1. CASE b[k] \in {"C3", "byte AD", "byte A0"}
    BY <2>1, <1>1, <1>3
  <2>2. CASE b[k] \notin {"C3", "byte AD", "byte A0"}
    <3>1. b[k] \in Letters
      BY <2>2, <1>1 DEF Codes
    <3>2. f[k] = <<b[k]>>
      BY <2>2, <1>1
    <3> QED BY <3>1, <3>2, <1>2
  <2> QED BY <2>1, <2>2
<1>6. f \in [1..n -> Seq(Letters)]
  <2>1. f = [k \in 1..n |-> f[k]]
    BY <1>1
  <2> HIDE DEF f
  <2> QED BY <2>1, <1>5
<1> HIDE DEF f
<1> QED BY <1>4, <1>6, TextPieces DEF Text

\* Texts without the letters AD and A0 are their bytes, and any text is read as
\* it is.
LEMMA BytesPlain ==
  ASSUME NEW s \in Text
  PROVE  /\ Unmarked(s) => Bytes(s) = s
         /\ FromUtf8(s) = s
<1>1. \A k \in DOMAIN s : s[k] \in Letters
  BY ElementOfSeq, LenProperties DEF Text
<1>2. FlattenSeq([k \in DOMAIN s |-> <<s[k]>>]) = s
  BY FlattenSingles DEF Text
<1>3. ASSUME Unmarked(s) PROVE Bytes(s) = s
  <2>1. \A k \in DOMAIN s : (CASE s[k] = AD -> <<"C3", "byte AD">>
                               [] s[k] = A0 -> <<"C3", "byte A0">>
                               [] OTHER     -> <<s[k]>>) = <<s[k]>>
    BY <1>3 DEF Unmarked
  <2> QED BY <2>1, <1>2 DEF Bytes
<1>4. FromUtf8(s) = s
  <2> DEFINE Led(k)   == k > 1 /\ s[k - 1] = "C3"
             Leads(k) == k < Len(s) /\ s[k + 1] \in {"byte AD", "byte A0"}
             V(k) == CASE s[k] = "C3"      -> IF Leads(k) THEN <<>> ELSE <<Bad>>
                       [] s[k] = "byte AD" -> <<IF Led(k) THEN AD ELSE Bad>>
                       [] s[k] = "byte A0" -> <<IF Led(k) THEN A0 ELSE Bad>>
                       [] OTHER            -> <<s[k]>>
  <2>1. FromUtf8(s) = FlattenSeq([k \in DOMAIN s |-> V(k)])
    BY DEF FromUtf8
  <2>2. \A k \in DOMAIN s : V(k) = <<s[k]>>
    <3> HIDE DEF Led, Leads
    <3>1. \A k \in DOMAIN s : s[k] \notin {"C3", "byte AD", "byte A0"}
      BY <1>1, LettersAssumption
    <3> QED BY <3>1
  <2> HIDE DEF V
  <2>3. [k \in DOMAIN s |-> V(k)] = [k \in DOMAIN s |-> <<s[k]>>]
    BY <2>2
  <2> QED BY <2>1, <2>3, <1>2
<1> QED BY <1>3, <1>4

\* The name record says names and users, whatever they are.
LEMMA NameRecordType ==
  ASSUME NEW e, NEW du, e.name \in Text, e.user \in Text
  PROVE  NameRecord(e, du) \in Seq(Codes)
<1>1. PICK n \in Seq(Codes), u \in Seq(Codes) : n = Bytes(e.name) /\ u = Bytes(e.user)
  BY BytesType
<1>2. \A x \in Codes : <<x>> \in Seq(Codes)
  OBVIOUS
<1>3. <<"byte A0">> \in Seq(Codes) /\ <<"byte AD">> \in Seq(Codes)
  BY <1>2, CodesAre
<1>4. <<"byte AD">> \o u \in Seq(Codes)
  BY <1>3, ConcatProperties
<1>5. PICK v \in Seq(Codes) : v = IF e.user = du THEN <<"byte A0">>
                                  ELSE <<"byte AD">> \o Bytes(e.user)
  BY <1>1, <1>3, <1>4
<1> QED BY <1>1, <1>5, ConcatProperties DEF NameRecord

LEMMA NameAndUserType ==
  ASSUME NEW r \in Seq(Codes), NEW du \in Text
  PROVE  NameAndUser(r, du).name \in Text /\ NameAndUser(r, du).user \in Text
<1>1. PICK P \in Seq(Seq(Codes)) : P = Split(r, "byte AD")
  BY SplitSteps DEF Parts
<1>2. FromUtf8(r) \in Text /\ <<>> \in Text
  BY FromUtf8Type, EmptySeq DEF Text
<1>3. ASSUME Len(P) = 2 PROVE FromUtf8(P[1]) \in Text /\ FromUtf8(P[2]) \in Text
  <2>1. \A i \in 1..2 : P[i] \in Seq(Codes)
    BY <1>3, ElementOfSeq
  <2>2. P[1] \in Seq(Codes) /\ P[2] \in Seq(Codes)
    BY <2>1
  <2> QED BY <2>2, FromUtf8Type
<1> QED BY <1>1, <1>2, <1>3 DEF NameAndUser

\* The user comes back, if neither name holds a letter with a mark and he is the
\* default user when he is read (du); name and user do, if he was not it when
\* they were written (wu).
LEMMA UserBack ==
  ASSUME NEW e, NEW wu, NEW du, e.name \in Text, e.user \in Text,
         Unmarked(e.name), Unmarked(e.user)
  PROVE  LET nu == NameAndUser(NameRecord(e, wu), du)
         IN  /\ e.user # wu => nu.name = e.name /\ nu.user = e.user
             /\ e.user = du => nu.user = e.user
<1>1. PICK n \in Seq(Codes), u \in Seq(Codes) : n = e.name /\ u = e.user
  BY CodesAre
<1>2. Bytes(e.name) = n /\ Bytes(e.user) = u /\ FromUtf8(u) = u /\ FromUtf8(n) = n
  BY <1>1, BytesPlain
<1>3. \A s \in Text : Lacks(s, "byte AD") /\ Lacks(s, "byte A0")
  <2> SUFFICES ASSUME NEW s \in Text, NEW k \in DOMAIN s PROVE s[k] \notin {"byte AD", "byte A0"}
    BY DEF Lacks
  <2>1. s[k] \in Letters
    BY ElementOfSeq, LenProperties DEF Text
  <2> QED BY <2>1, LettersAssumption
<1>4. Lacks(n, "byte AD") /\ Lacks(n, "byte A0") /\ Lacks(u, "byte AD")
  BY <1>1, <1>3
<1>5. PICK ad \in Codes, a0 \in Codes : ad = "byte AD" /\ a0 = "byte A0" /\ ad # a0
  BY CodesAre
<1>6. CASE e.user = wu
  <2>1. PICK r \in Seq(Codes) : r = Append(n, a0)
    BY AppendProperties
  <2>2. NameRecord(e, wu) = r
    BY <1>2, <1>5, <1>6, <2>1, AppendIsConcat DEF NameRecord
  <2>3. Lacks(r, ad)
    BY <1>4, <1>5, <2>1, LacksAppend
  <2>4. Split(r, ad) = <<r>>
    BY <2>3, SplitLacking
  <2>5. Split(r, a0) = Append(<<n>>, <<>>)
    <3>1. Split(n, a0) = <<n>>
      BY <1>4, <1>5, SplitLacking
    <3>2. Split(Append(n, a0), a0) = SplitNext(Split(n, a0), a0, a0)
      BY SplitSteps
    <3> QED BY <3>1, <3>2, <2>1 DEF SplitNext
  <2>6. Len(Append(<<n>>, <<>>)) = 2
    <3>1. PICK T : T = Seq(Codes)
      OBVIOUS
    <3>2. n \in T /\ <<>> \in T
      BY <3>1, EmptySeq
    <3>3. <<n>> \in Seq(T) /\ Len(<<n>>) = 1
      BY <3>2
    <3>4. Len(Append(<<n>>, <<>>)) = Len(<<n>>) + 1
      BY <3>2, <3>3, AppendProperties
    <3> QED BY <3>3, <3>4
  <2>7. Len(Split(r, "byte AD")) = 1 /\ Len(Split(r, "byte A0")) = 2
    <3>1. Len(<<r>>) = 1
      OBVIOUS
    <3> QED BY <1>5, <2>4, <2>5, <2>6, <3>1
  <2>8. NameAndUser(r, du).user = du
    <3>1. \A k : k = 1 => k # 2
      OBVIOUS
    <3>2. Len(Split(r, "byte AD")) # 2
      BY <2>7, <3>1
    <3> QED BY <2>7, <3>2 DEF NameAndUser
  <2> QED BY <2>2, <2>8, <1>6
<1>7. CASE e.user # wu
  <2>1. PICK r \in Seq(Codes), m \in Seq(Codes) : r = m \o u /\ m = Append(n, ad)
    BY AppendProperties, ConcatProperties
  <2>2. NameRecord(e, wu) = r
    <3>1. PICK w \in Seq(Codes) : w = <<ad>>
      BY SingleParts
    <3>2. m = n \o w
      BY <3>1, <2>1, AppendIsConcat
    <3>3. (n \o w) \o u = n \o (w \o u)
      BY ConcatAssociative
    <3>4. r = n \o (w \o u)
      BY <2>1, <3>2, <3>3
    <3>5. NameRecord(e, wu) = Bytes(e.name) \o (<<"byte AD">> \o Bytes(e.user))
      BY <1>7 DEF NameRecord
    <3>6. NameRecord(e, wu) = n \o (w \o u)
      BY <1>2, <1>5, <3>1, <3>5
    <3> QED BY <3>4, <3>6
  <2>3. Split(r, ad) = <<n>> \o <<u>>
    <3>1. Split(n, ad) = <<n>> /\ Split(u, ad) = <<u>>
      BY <1>4, <1>5, SplitLacking
    <3>2. Split(Append(n, ad) \o u, ad) = Split(n, ad) \o Split(u, ad)
      BY SplitAdds
    <3> QED BY <3>1, <3>2, <2>1
  <2>4. Len(<<n>> \o <<u>>) = 2 /\ (<<n>> \o <<u>>)[1] = n /\ (<<n>> \o <<u>>)[2] = u
    OBVIOUS
  <2>5. /\ Len(Split(r, "byte AD")) = 2
        /\ Split(r, "byte AD")[1] = n /\ Split(r, "byte AD")[2] = u
    BY <1>5, <2>3, <2>4
  <2>6. NameAndUser(r, du) = [name |-> n, user |-> u]
    BY <1>2, <2>5 DEF NameAndUser
  <2> QED BY <1>1, <2>2, <2>6
<1> QED BY <1>6, <1>7

-----------------------------------------------------------------------------
(* Groups and their paths.                                                  *)

\* A value for each number, made from the value of a smaller one.
Smaller(n) == {prev \in [1..n -> Nat] : \A m \in 1..n : prev[m] < m}
Descends(f, n, X, b, prev, step) ==
  f \in [0..n -> X] /\ f[0] = b /\ \A m \in 1..n : f[m] = step[<<m, f[prev[m]]>>]

LEMMA Descent ==
  ASSUME NEW n \in Nat, NEW X, NEW b \in X, NEW prev \in Smaller(n), NEW step \in Steps(n, X)
  PROVE  \E f : Descends(f, n, X, b, prev, step)
<1> USE DEF Steps
<1> DEFINE Good(k, f) == f[0] = b /\ \A m \in 1..k : f[m] = step[<<m, f[prev[m]]>>]
           D == {k \in Nat : k <= n => \E f \in [0..k -> X] : Good(k, f)}
<1>0. \A m \in 1..n : prev[m] \in Nat /\ prev[m] < m
  BY DEF Smaller
<1>1. 0 \in D
  <2>1. [i \in 0..0 |-> b] \in [0..0 -> X] /\ Good(0, [i \in 0..0 |-> b])
    OBVIOUS
  <2> QED BY <2>1
<1>2. ASSUME NEW k \in Nat, k \in D PROVE k + 1 \in D
  <2> SUFFICES ASSUME k + 1 <= n PROVE \E f \in [0..k + 1 -> X] : Good(k + 1, f)
    OBVIOUS
  <2>1. PICK f \in [0..k -> X] : Good(k, f)
    BY <1>2
  <2>2. PICK p \in 0..k : p = prev[k + 1]
    BY <1>0
  <2> DEFINE g == [i \in 0..k + 1 |-> IF i = k + 1 THEN step[<<k + 1, f[p]>>] ELSE f[i]]
  <2>3. f[p] \in X /\ k + 1 \in 1..n
    BY <2>1
  <2>4. step[<<k + 1, f[p]>>] \in X
    BY <2>3
  <2>5. g \in [0..k + 1 -> X]
    BY <2>4, <2>1
  <2>6. Good(k + 1, g)
    <3>1. g[0] = b
      BY <2>1
    <3>2. ASSUME NEW m \in 1..k + 1 PROVE g[m] = step[<<m, g[prev[m]]>>]
      <4>1. CASE m = k + 1
        <5>1. g[p] = f[p] /\ g[k + 1] = step[<<k + 1, f[p]>>]
          BY <4>1
        <5> HIDE DEF g
        <5> QED BY <5>1, <4>1, <2>2
      <4>2. CASE m # k + 1
        <5>1. m \in 1..k /\ g[m] = f[m]
          BY <4>2
        <5>2. prev[m] \in 0..k
          BY <5>1, <1>0
        <5>3. g[prev[m]] = f[prev[m]]
          BY <5>2
        <5> HIDE DEF g
        <5> QED BY <5>1, <5>3, <2>1
      <4> QED BY <4>1, <4>2
    <3> QED BY <3>1, <3>2
  <2> QED BY <2>5, <2>6
<1> HIDE DEF D
<1>3. n \in D
  BY <1>1, <1>2, SetInduction
<1> QED BY <1>3 DEF D, Descends

\* How an escape opens and closes: it is open after an escape character only.
OpensBy(g, open) == open = [k \in 0..Len(g) |-> k # 0 /\ ~open[k - 1] /\ g[k] = Esc]

LEMMA OpensSteps ==
  ASSUME NEW S, NEW g \in Seq(S)
  PROVE  /\ ~Opens(g)[0]
         /\ \A k \in 1..Len(g) : Opens(g)[k] <=> ~Opens(g)[k - 1] /\ g[k] = Esc
<1> DEFINE N == Len(g)
           step == [y \in (1..N) \X BOOLEAN |-> ~y[2] /\ g[y[1]] = Esc]
<1>1. N \in Nat
  BY LenProperties
<1>2. step \in Steps(N, BOOLEAN)
  BY DEF Steps
<1>3. PICK f : Iterates(f, N, BOOLEAN, FALSE, step)
  <2> HIDE DEF N, step
  <2> QED BY <1>1, <1>2, Iteration
<1>4. /\ f \in [0..N -> BOOLEAN] /\ f[0] = FALSE
      /\ \A m \in 1..N : f[m] = (~f[m - 1] /\ g[m] = Esc)
  <2>1. f \in [0..N -> BOOLEAN] /\ f[0] = FALSE /\ \A m \in 1..N : f[m] = step[<<m, f[m - 1]>>]
    BY <1>3 DEF Iterates
  <2>2. ASSUME NEW m \in 1..N PROVE f[m] = (~f[m - 1] /\ g[m] = Esc)
    <3>1. m - 1 \in 0..N
      BY <1>1
    <3>2. f[m - 1] \in BOOLEAN
      BY <3>1, <2>1
    <3>3. f[m] = step[<<m, f[m - 1]>>]
      BY <2>1
    <3>4. \A y \in (1..N) \X BOOLEAN : step[y] = (~y[2] /\ g[y[1]] = Esc)
      OBVIOUS
    <3> HIDE DEF step
    <3> QED BY <3>2, <3>3, <3>4
  <2> QED BY <2>1, <2>2
<1> HIDE DEF step
<1>5. OpensBy(g, f)
  <2>1. \A k \in 0..N : f[k] = (k # 0 /\ ~f[k - 1] /\ g[k] = Esc)
    <3> SUFFICES ASSUME NEW k \in 0..N PROVE f[k] = (k # 0 /\ ~f[k - 1] /\ g[k] = Esc)
      OBVIOUS
    <3>1. CASE k = 0
      BY <3>1, <1>4
    <3>2. CASE k # 0
      <4>1. k \in 1..N
        BY <3>2, <1>1
      <4> QED BY <3>2, <4>1, <1>4
    <3> QED BY <3>1, <3>2
  <2>2. f = [k \in 0..N |-> f[k]]
    BY <1>4
  <2> QED BY <2>1, <2>2 DEF OpensBy
<1>6. PICK h : h = Opens(g) /\ OpensBy(g, h)
  BY <1>5 DEF Opens, OpensBy
<1>7. \A k \in 0..N : h[k] = (k # 0 /\ ~h[k - 1] /\ g[k] = Esc)
  BY <1>6 DEF OpensBy
<1>8. ~h[0]
  <2>1. 0 \in 0..N
    BY <1>1
  <2>2. h[0] = (0 # 0 /\ ~h[0 - 1] /\ g[0] = Esc)
    BY <1>7, <2>1
  <2> QED BY <2>2
<1>9. ASSUME NEW k \in 1..N PROVE h[k] <=> ~h[k - 1] /\ g[k] = Esc
  <2>1. k \in 0..N /\ k # 0
    BY <1>1
  <2>2. h[k] = (k # 0 /\ ~h[k - 1] /\ g[k] = Esc)
    BY <1>7, <2>1
  <2> QED BY <2>1, <2>2
<1> QED BY <1>6, <1>8, <1>9

\* Two strings that agree from a place where no escape is open.
LEMMA OpensAgree ==
  ASSUME NEW S, NEW g \in Seq(S), NEW h \in Seq(S), NEW a \in Nat, NEW n \in Nat,
         a + n <= Len(g), n <= Len(h), \A k \in 1..n : g[a + k] = h[k], ~Opens(g)[a]
  PROVE  \A k \in 0..n : Opens(g)[a + k] <=> Opens(h)[k]
<1> DEFINE D == {k \in Nat : k <= n => (Opens(g)[a + k] <=> Opens(h)[k])}
<1>1. /\ ~Opens(h)[0]
      /\ \A k \in 1..Len(h) : Opens(h)[k] <=> ~Opens(h)[k - 1] /\ h[k] = Esc
      /\ \A k \in 1..Len(g) : Opens(g)[k] <=> ~Opens(g)[k - 1] /\ g[k] = Esc
      /\ Len(g) \in Nat /\ Len(h) \in Nat
  BY OpensSteps, LenProperties
<1>2. 0 \in D
  <2>1. a + 0 = a
    OBVIOUS
  <2> QED BY <2>1, <1>1
<1>3. ASSUME NEW k \in Nat, k \in D PROVE k + 1 \in D
  <2> SUFFICES ASSUME k + 1 <= n PROVE Opens(g)[a + (k + 1)] <=> Opens(h)[k + 1]
    OBVIOUS
  <2>1. /\ k + 1 \in 1..Len(h) /\ (k + 1) - 1 = k /\ k + 1 \in 1..n
        /\ a + (k + 1) \in 1..Len(g) /\ (a + (k + 1)) - 1 = a + k
    BY <1>1
  <2>2. Opens(g)[a + k] <=> Opens(h)[k]
    <3>1. k <= n
      BY <2>1
    <3> QED BY <3>1, <1>3
  <2>3. Opens(h)[k + 1] <=> ~Opens(h)[k] /\ h[k + 1] = Esc
    BY <2>1, <1>1
  <2>4. Opens(g)[a + (k + 1)] <=> ~Opens(g)[a + k] /\ g[a + (k + 1)] = Esc
    BY <2>1, <1>1
  <2> QED BY <2>1, <2>2, <2>3, <2>4
<1> HIDE DEF D
<1>4. Nat \subseteq D
  BY <1>2, <1>3, SetInduction
<1> QED BY <1>4 DEF D

\* The texts that unescapeGroup does not throw at.
Sound == {g \in Text : ~unescapeThrows(g)}

LEMMA SoundIs ==
  ASSUME NEW g \in Text
  PROVE  g \in Sound <=> /\ ~Opens(g)[Len(g)]
                         /\ \A k \in 1..Len(g) : Opens(g)[k - 1] => g[k] \in {Sep, Esc}
<1>1. DOMAIN g = 1..Len(g)
  BY LenProperties DEF Text
<1>2. unescapeThrows(g) <=> \/ Opens(g)[Len(g)]
                            \/ \E k \in 1..Len(g) : Opens(g)[k - 1] /\ g[k] \notin {Sep, Esc}
  BY <1>1 DEF unescapeThrows
<1> QED BY <1>2 DEF Sound

LEMMA TextLen ==
  ASSUME NEW g \in Text
  PROVE  g \in Seq(Letters) /\ Len(g) \in Nat /\ DOMAIN g = 1..Len(g)
         /\ \A k \in 1..Len(g) : g[k] \in Letters
BY LenProperties, ElementOfSeq DEF Text

\* Nothing is sound; so are two sound texts together, and what is between two
\* places of a sound text where no escape is open.
LEMMA SoundEmpty == <<>> \in Sound
<1>1. <<>> \in Text /\ Len(<<>>) = 0
  BY EmptySeq DEF Text
<1>2. ~Opens(<<>>)[0]
  BY OpensSteps, EmptySeq
<1> QED BY <1>1, <1>2, SoundIs

LEMMA SoundConcat ==
  ASSUME NEW u \in Sound, NEW v \in Sound
  PROVE  u \o v \in Sound
<1>1. u \in Text /\ v \in Text
  BY DEF Sound
<1>2. PICK m \in Nat, n \in Nat : m = Len(u) /\ n = Len(v)
  BY <1>1, TextLen
<1>3. PICK w \in Text : /\ w = u \o v /\ Len(w) = m + n
                        /\ \A i \in 1..m : w[i] = u[i]
                        /\ \A i \in 1..n : w[m + i] = v[i]
  <2>1. u \in Seq(Letters) /\ v \in Seq(Letters)
    BY <1>1 DEF Text
  <2>2. /\ u \o v \in Seq(Letters) /\ Len(u \o v) = Len(u) + Len(v)
        /\ \A i \in 1..Len(u) + Len(v) : (u \o v)[i] = IF i <= Len(u) THEN u[i] ELSE v[i - Len(u)]
    BY <2>1, ConcatProperties
  <2>3. \A i \in 1..m : (u \o v)[i] = u[i]
    BY <2>2, <1>2
  <2>4. ASSUME NEW i \in 1..n PROVE (u \o v)[m + i] = v[i]
    <3>1. m + i \in 1..m + n /\ ~(m + i <= m) /\ (m + i) - m = i
      OBVIOUS
    <3> QED BY <3>1, <2>2, <1>2
  <2> QED BY <2>2, <2>3, <2>4, <1>2 DEF Text
<1>4. /\ ~Opens(u)[m] /\ \A k \in 1..m : Opens(u)[k - 1] => u[k] \in {Sep, Esc}
      /\ ~Opens(v)[n] /\ \A k \in 1..n : Opens(v)[k - 1] => v[k] \in {Sep, Esc}
  BY <1>1, <1>2, SoundIs
<1>5. ~Opens(w)[0]
  BY OpensSteps DEF Text
<1>6. \A k \in 0..m : Opens(w)[0 + k] <=> Opens(u)[k]
  <2>1. /\ w \in Seq(Letters) /\ u \in Seq(Letters) /\ 0 \in Nat /\ 0 + m <= Len(w) /\ m <= Len(u)
        /\ \A k \in 1..m : w[0 + k] = u[k]
    BY <1>1, <1>2, <1>3 DEF Text
  <2> QED BY <2>1, <1>5, OpensAgree
<1>7. \A k \in 0..m : Opens(w)[k] <=> Opens(u)[k]
  <2>1. \A k \in 0..m : 0 + k = k
    OBVIOUS
  <2> QED BY <2>1, <1>6
<1>8. \A k \in 0..n : Opens(w)[m + k] <=> Opens(v)[k]
  <2>1. /\ w \in Seq(Letters) /\ v \in Seq(Letters) /\ m + n <= Len(w) /\ n <= Len(v)
        /\ \A k \in 1..n : w[m + k] = v[k]
    BY <1>1, <1>2, <1>3 DEF Text
  <2>2. ~Opens(w)[m]
    <3>1. m \in 0..m
      OBVIOUS
    <3> QED BY <3>1, <1>4, <1>7
  <2> QED BY <2>1, <2>2, OpensAgree
<1>9. ~Opens(w)[m + n]
  <2>1. n \in 0..n
    OBVIOUS
  <2> QED BY <2>1, <1>4, <1>8
<1>10. ASSUME NEW k \in 1..m + n, Opens(w)[k - 1] PROVE w[k] \in {Sep, Esc}
  <2>1. CASE k <= m
    <3>1. k \in 1..m /\ k - 1 \in 0..m
      BY <2>1
    <3> QED BY <3>1, <1>3, <1>4, <1>7, <1>10
  <2>2. CASE ~(k <= m)
    <3>1. PICK i \in 1..n : k = m + i
      <4>1. k - m \in 1..n /\ k = m + (k - m)
        BY <2>2
      <4> QED BY <4>1
    <3>2. i - 1 \in 0..n /\ k - 1 = m + (i - 1)
      BY <3>1
    <3>3. Opens(v)[i - 1]
      BY <3>2, <1>8, <1>10
    <3> QED BY <3>1, <3>3, <1>3, <1>4
  <2> QED BY <2>1, <2>2
<1> QED BY <1>3, <1>9, <1>10, SoundIs

LEMMA SoundPart ==
  ASSUME NEW g \in Sound, NEW a \in Nat, NEW b \in Nat, a <= b, b <= Len(g),
         ~Opens(g)[a], ~Opens(g)[b]
  PROVE  SubSeq(g, a + 1, b) \in Sound
<1>1. g \in Text /\ Len(g) \in Nat
  BY TextLen DEF Sound
<1>2. PICK n \in Nat : a + n = b /\ n = b - a
  OBVIOUS
<1>3. PICK p \in Text : /\ p = SubSeq(g, a + 1, b) /\ Len(p) = n
                        /\ \A i \in 1..n : p[i] = g[a + i]
  <2>1. \A i \in a + 1..b : g[i] \in Letters
    BY <1>1, TextLen
  <2>2. a + 1 \in Int /\ b \in Int
    OBVIOUS
  <2>3. /\ SubSeq(g, a + 1, b) \in Seq(Letters)
        /\ Len(SubSeq(g, a + 1, b)) = IF a + 1 <= b THEN b - (a + 1) + 1 ELSE 0
        /\ \A i \in 1..b - (a + 1) + 1 : SubSeq(g, a + 1, b)[i] = g[(a + 1) + i - 1]
    BY <2>1, <2>2, SubSeqProperties
  <2>4. (IF a + 1 <= b THEN b - (a + 1) + 1 ELSE 0) = n /\ b - (a + 1) + 1 = n
    BY <1>2
  <2>5. \A i \in 1..n : (a + 1) + i - 1 = a + i
    OBVIOUS
  <2> QED BY <2>3, <2>4, <2>5 DEF Text
<1>4. \A k \in 0..n : Opens(g)[a + k] <=> Opens(p)[k]
  <2>1. /\ g \in Seq(Letters) /\ p \in Seq(Letters) /\ a + n <= Len(g) /\ n <= Len(p)
        /\ \A k \in 1..n : g[a + k] = p[k]
    <3>1. g \in Seq(Letters) /\ p \in Seq(Letters)
      BY <1>1, <1>3 DEF Text
    <3>2. a + n <= Len(g)
      BY <1>2
    <3>3. n <= Len(p) /\ \A k \in 1..n : g[a + k] = p[k]
      BY <1>3
    <3> QED BY <3>1, <3>2, <3>3
  <2> QED BY <2>1, OpensAgree
<1>5. ~Opens(p)[n]
  <2>1. n \in 0..n
    OBVIOUS
  <2> QED BY <2>1, <1>2, <1>4
<1>6. ASSUME NEW k \in 1..n, Opens(p)[k - 1] PROVE p[k] \in {Sep, Esc}
  <2>1. k - 1 \in 0..n /\ a + k \in 1..Len(g) /\ (a + k) - 1 = a + (k - 1)
    BY <1>2, <1>1
  <2>2. Opens(g)[(a + k) - 1]
    BY <2>1, <1>4, <1>6
  <2>3. g[a + k] \in {Sep, Esc}
    BY <2>1, <2>2, <1>1, SoundIs
  <2> QED BY <2>3, <1>3
<1> QED BY <1>3, <1>5, <1>6, SoundIs

\* One character that is no escape; an escape and what may follow it.
LEMMA SoundAtoms ==
  /\ \A c \in Letters \ {Esc} : <<c>> \in Sound
  /\ \A c \in {Sep, Esc} : <<Esc, c>> \in Sound
<1>1. ASSUME NEW c \in Letters, c # Esc PROVE <<c>> \in Sound
  <2>1. PICK g \in Text : g = <<c>> /\ Len(g) = 1 /\ g[1] = c
    <3>1. <<c>> \in Seq(Letters)
      OBVIOUS
    <3> QED BY <3>1 DEF Text
  <2>2. /\ ~Opens(g)[0]
        /\ \A k \in 1..Len(g) : Opens(g)[k] <=> ~Opens(g)[k - 1] /\ g[k] = Esc
    BY OpensSteps DEF Text
  <2>3. 1 \in 1..Len(g)
    BY <2>1
  <2>4. ~Opens(g)[1]
    BY <2>1, <2>2, <2>3, <1>1
  <2>5. \A k \in 1..Len(g) : k - 1 = 0
    BY <2>1
  <2> QED BY <2>1, <2>2, <2>4, <2>5, SoundIs
<1>2. ASSUME NEW c \in {Sep, Esc} PROVE <<Esc, c>> \in Sound
  <2>1. PICK g \in Text : g = <<Esc, c>> /\ Len(g) = 2 /\ g[1] = Esc /\ g[2] = c
    <3>1. c \in Letters /\ Esc \in Letters
      BY LettersAssumption
    <3>2. <<Esc, c>> \in Seq(Letters)
      BY <3>1
    <3> QED BY <3>2 DEF Text
  <2>2. /\ ~Opens(g)[0]
        /\ \A k \in 1..Len(g) : Opens(g)[k] <=> ~Opens(g)[k - 1] /\ g[k] = Esc
    BY OpensSteps DEF Text
  <2>3. 1 \in 1..Len(g) /\ 2 \in 1..Len(g) /\ 1 - 1 = 0 /\ 2 - 1 = 1
    BY <2>1
  <2>4. Opens(g)[1]
    BY <2>1, <2>2, <2>3
  <2>5. ~Opens(g)[2]
    BY <2>2, <2>3, <2>4
  <2>6. \A k \in 1..Len(g) : k = 1 \/ k = 2
    BY <2>1
  <2>7. \A k \in 1..Len(g) : Opens(g)[k - 1] => g[k] \in {Sep, Esc}
    <3> SUFFICES ASSUME NEW k \in 1..Len(g), Opens(g)[k - 1] PROVE g[k] \in {Sep, Esc}
      OBVIOUS
    <3>1. k # 1
      BY <2>2, <2>3
    <3> QED BY <3>1, <2>6, <2>1
  <2> QED BY <2>1, <2>5, <2>7, SoundIs
<1> QED BY <1>1, <1>2

\* The smallest and the largest of some numbers.
LEMMA SmallestIs ==
  ASSUME NEW T \in SUBSET Nat, T # {}
  PROVE  Min(T) \in T /\ \A y \in T : Min(T) <= y
<1> DEFINE R == OpToRel(<, Nat)
<1>1. IsWellFoundedOn(R, Nat)
  BY NatLessThanWellFounded DEF OpToRel
<1> HIDE DEF R
<1>2. PICK x \in T : \A y \in T : ~ (<<y, x>> \in R)
  BY <1>1, WFMin
<1>3. \A y \in T : x =< y
  <2> SUFFICES ASSUME NEW y \in T, y < x PROVE FALSE
    OBVIOUS
  <2>1. <<y, x>> \in R
    BY DEF R, OpToRel
  <2> QED BY <2>1, <1>2
<1> QED BY <1>3 DEF Min

LEMMA LargestIs ==
  ASSUME NEW n \in Nat, NEW T \in SUBSET (0..n), T # {}
  PROVE  Max(T) \in T /\ \A y \in T : Max(T) >= y
<1> DEFINE D == {n - y : y \in T}
<1>1. D \in SUBSET Nat /\ D # {}
  OBVIOUS
<1>2. Min(D) \in D /\ \A y \in D : Min(D) <= y
  BY <1>1, SmallestIs
<1>3. PICK x \in T : Min(D) = n - x
  BY <1>2
<1>4. \A y \in T : x >= y
  <2> SUFFICES ASSUME NEW y \in T PROVE x >= y
    OBVIOUS
  <2>1. n - y \in D
    OBVIOUS
  <2>2. n - x <= n - y
    BY <2>1, <1>2, <1>3
  <2> QED BY <2>2
<1> QED BY <1>4 DEF Max

\* Where names are cut: no escape is open there.
LEMMA LeadingIs ==
  ASSUME NEW g \in Text
  PROVE  /\ Leading(g) \in 0..Len(g) /\ ~Opens(g)[Leading(g)]
         /\ Leading(g) = Len(g) \/ g[Leading(g) + 1] # Sep
         /\ \A k \in 1..Leading(g) : g[k] = Sep
<1> DEFINE T == {k \in DOMAIN g : g[k] # Sep}
<1>1. DOMAIN g = 1..Len(g) /\ Len(g) \in Nat
  BY TextLen
<1>2. Leading(g) \in 0..Len(g) /\ \A k \in 1..Leading(g) : g[k] = Sep
  <2>1. CASE T = {}
    <3>1. Leading(g) = Len(g)
      BY <2>1 DEF Leading
    <3> QED BY <2>1, <3>1, <1>1
  <2>2. CASE T # {}
    <3>1. Leading(g) = Min(T) - 1
      BY <2>2 DEF Leading
    <3>2. T \in SUBSET Nat
      BY <1>1
    <3>3. PICK m \in 1..Len(g) : m = Min(T) /\ \A y \in T : m <= y
      BY <2>2, <3>2, <1>1, SmallestIs
    <3>4. ASSUME NEW k \in 1..m - 1 PROVE g[k] = Sep
      <4>1. k \in 1..Len(g) /\ ~(m <= k)
        BY <1>1
      <4> QED BY <4>1, <3>3, <1>1
    <3> QED BY <3>1, <3>3, <3>4, <1>1
  <2> QED BY <2>1, <2>2
<1>3. Leading(g) = Len(g) \/ g[Leading(g) + 1] # Sep
  <2>1. CASE T = {}
    BY <2>1 DEF Leading
  <2>2. CASE T # {}
    <3>1. Leading(g) = Min(T) - 1
      BY <2>2 DEF Leading
    <3>2. T \in SUBSET Nat
      BY <1>1
    <3>3. Min(T) \in T
      BY <2>2, <3>2, SmallestIs
    <3>4. Leading(g) + 1 = Min(T)
      BY <3>1, <3>2, <3>3
    <3> QED BY <3>3, <3>4
  <2> QED BY <2>1, <2>2
<1>4. ~Opens(g)[Leading(g)]
  <2>1. /\ ~Opens(g)[0]
        /\ \A k \in 1..Len(g) : Opens(g)[k] <=> ~Opens(g)[k - 1] /\ g[k] = Esc
    BY OpensSteps DEF Text
  <2>2. CASE Leading(g) = 0
    BY <2>1, <2>2
  <2>3. CASE Leading(g) # 0
    <3>1. Leading(g) \in 1..Len(g) /\ Leading(g) \in 1..Leading(g)
      BY <2>3, <1>2, <1>1
    <3>2. g[Leading(g)] # Esc
      BY <3>1, <1>2 DEF Sep, Esc
    <3> QED BY <3>1, <3>2, <2>1
  <2> QED BY <2>2, <2>3
<1> QED BY <1>2, <1>3, <1>4

LEMMA OpensAfterEsc ==
  ASSUME NEW g \in Text, NEW k \in 1..Len(g), g[k] # Esc
  PROVE  ~Opens(g)[k]
BY OpensSteps DEF Text

LEMMA LastCutIs ==
  ASSUME NEW g \in Text
  PROVE  /\ LastCut(g) \in Nat /\ LastCut(g) <= Len(g) /\ ~Opens(g)[LastCut(g)]
         /\ g # <<>> => LastCut(g) < Len(g)
         /\ LastCut(g) # 0 => g[LastCut(g) + 1] = Sep
<1> DEFINE T == {0} \cup {i \in 1..Len(g) - 1 : g[i + 1] = Sep /\ g[i] # Esc}
<1>1. Len(g) \in Nat /\ (g # <<>> => Len(g) # 0)
  BY TextLen, EmptySeq DEF Text
<1>2. T \in SUBSET (0..Len(g)) /\ T # {}
  BY <1>1
<1>3. LastCut(g) \in T
  <2>1. LastCut(g) = Max(T)
    BY DEF LastCut
  <2> QED BY <2>1, <1>1, <1>2, LargestIs
<1>4. CASE LastCut(g) = 0
  BY <1>4, <1>1, OpensSteps DEF Text
<1>5. CASE LastCut(g) # 0
  <2>1. /\ LastCut(g) \in 1..Len(g) - 1 /\ g[LastCut(g) + 1] = Sep /\ g[LastCut(g)] # Esc
    BY <1>3, <1>5
  <2>2. LastCut(g) \in 1..Len(g)
    BY <2>1, <1>1
  <2> QED BY <2>1, <2>2, <1>1, OpensAfterEsc
<1> QED BY <1>4, <1>5

LEMMA SectionEndIs ==
  ASSUME NEW g \in Text
  PROVE  /\ SectionEnd(g) # Len(g) => /\ SectionEnd(g) + 1 <= Len(g)
                                      /\ ~Opens(g)[SectionEnd(g)]
                                      /\ ~Opens(g)[SectionEnd(g) + 1]
         /\ SectionEnd(g) \in Leading(g)..Len(g)
<1> DEFINE T == {i \in Leading(g) + 1..Len(g) : i > 1 /\ g[i] = Sep /\ g[i - 1] # Esc}
<1>1. Len(g) \in Nat /\ Leading(g) \in 0..Len(g)
  BY TextLen, LeadingIs
<1>2. CASE T = {}
  <2>1. SectionEnd(g) = Len(g)
    BY <1>2 DEF SectionEnd
  <2> QED BY <2>1, <1>1
<1>3. CASE T # {}
  <2>1. SectionEnd(g) = Min(T) - 1
    BY <1>3 DEF SectionEnd
  <2>2. T \in SUBSET Nat
    BY <1>1
  <2>3. PICK i \in T : i = Min(T)
    BY <2>2, <1>3, SmallestIs
  <2>4. i \in 2..Len(g) /\ i >= Leading(g) + 1 /\ g[i] = Sep /\ g[i - 1] # Esc
    BY <2>3, <1>1
  <2> HIDE DEF T
  <2>5. ~Opens(g)[i - 1] /\ ~Opens(g)[i]
    <3>1. i \in 1..Len(g) /\ i - 1 \in 1..Len(g) /\ g[i] # Esc
      BY <2>4, <1>1 DEF Sep, Esc
    <3> QED BY <3>1, <2>4, OpensAfterEsc
  <2>6. SectionEnd(g) = i - 1 /\ SectionEnd(g) + 1 = i
    BY <2>1, <2>3, <2>4
  <2>7. SectionEnd(g) \in Leading(g)..Len(g) /\ SectionEnd(g) + 1 <= Len(g)
    BY <2>4, <2>6, <1>1
  <2> QED BY <2>5, <2>6, <2>7
<1> QED BY <1>2, <1>3

\* Pieces of a text are texts, and of a sound text sound.
LEMMA SubText ==
  ASSUME NEW g \in Text, NEW a \in Nat, NEW b \in Nat, b <= Len(g)
  PROVE  SubSeq(g, a + 1, b) \in Text
<1>1. \A i \in a + 1..b : g[i] \in Letters
  BY TextLen
<1>2. a + 1 \in Int /\ b \in Int
  OBVIOUS
<1>3. SubSeq(g, a + 1, b) \in Seq(Letters)
  BY <1>1, <1>2, SubSeqProperties
<1> QED BY <1>3 DEF Text

LEMMA SubSound ==
  ASSUME NEW g \in Sound, NEW a \in Nat, NEW b \in Nat, b <= Len(g),
         a <= b => ~Opens(g)[a] /\ ~Opens(g)[b]
  PROVE  SubSeq(g, a + 1, b) \in Sound
<1>1. CASE a <= b
  BY <1>1, SoundPart
<1>2. CASE ~(a <= b)
  <2>1. a + 1 \in Int /\ b \in Int /\ b < a + 1
    BY <1>2
  <2>2. SubSeq(g, a + 1, b) = <<>>
    BY <2>1, SubSeqEmpty
  <2> QED BY <2>2, SoundEmpty
<1> QED BY <1>1, <1>2

LEMMA EndOfSound ==
  ASSUME NEW g \in Sound
  PROVE  g \in Text /\ Len(g) \in Nat /\ ~Opens(g)[Len(g)] /\ ~Opens(g)[0]
BY SoundIs, TextLen, OpensSteps DEF Sound, Text

LEMMA DropLeadingIs ==
  ASSUME NEW g \in Text
  PROVE  /\ DropLeading(g) \in Text
         /\ g \in Sound => DropLeading(g) \in Sound
<1>1. Leading(g) \in Nat /\ Leading(g) <= Len(g) /\ ~Opens(g)[Leading(g)] /\ Len(g) \in Nat
  BY LeadingIs, TextLen
<1>2. DropLeading(g) \in Text
  BY <1>1, SubText DEF DropLeading
<1>3. ASSUME g \in Sound PROVE DropLeading(g) \in Sound
  <2>1. ~Opens(g)[Len(g)]
    BY <1>3, EndOfSound
  <2> QED BY <1>1, <1>3, <2>1, SubSound DEF DropLeading
<1> QED BY <1>2, <1>3

LEMMA SearchPathIs ==
  ASSUME NEW g \in Text
  PROVE  /\ SearchPath(g) \in Text
         /\ g \in Sound => SearchPath(g) \in Sound
BY DropLeadingIs DEF SearchPath

LEMMA ParentIs ==
  ASSUME NEW g \in Text
  PROVE  /\ parentGroup(g) \in Text
         /\ g \in Sound => parentGroup(g) \in Sound
<1>1. LastCut(g) \in Nat /\ LastCut(g) <= Len(g) /\ ~Opens(g)[LastCut(g)]
  BY LastCutIs
<1>2. parentGroup(g) = SubSeq(g, 0 + 1, LastCut(g))
  BY DEF parentGroup
<1>3. parentGroup(g) \in Text
  BY <1>1, <1>2, SubText
<1>4. ASSUME g \in Sound PROVE parentGroup(g) \in Sound
  <2>1. ~Opens(g)[0] /\ 0 \in Nat
    BY <1>4, EndOfSound
  <2> QED BY <1>1, <1>2, <1>4, <2>1, SubSound
<1> QED BY <1>3, <1>4

LEMMA ThisIs ==
  ASSUME NEW g \in Text
  PROVE  /\ thisGroup(g) \in Text
         /\ g \in Sound => thisGroup(g) \in Sound
<1>1. CASE g = <<>>
  BY <1>1, SoundEmpty DEF thisGroup, Sound
<1>2. CASE g # <<>>
  <2>1. /\ LastCut(g) \in Nat /\ LastCut(g) < Len(g) /\ ~Opens(g)[LastCut(g)]
        /\ Len(g) \in Nat
    BY <1>2, LastCutIs, TextLen
  <2>2. PICK a \in Nat : /\ a = IF g[LastCut(g) + 1] = Sep THEN LastCut(g) + 1 ELSE LastCut(g)
                         /\ a <= Len(g) /\ ~Opens(g)[a]
    <3>1. CASE g[LastCut(g) + 1] = Sep
      <4>1. LastCut(g) + 1 \in 1..Len(g) /\ g[LastCut(g) + 1] # Esc
        BY <2>1, <3>1 DEF Sep, Esc
      <4>2. ~Opens(g)[LastCut(g) + 1]
        BY <4>1, OpensAfterEsc
      <4> QED BY <3>1, <4>1, <4>2
    <3>2. CASE g[LastCut(g) + 1] # Sep
      BY <3>2, <2>1
    <3> QED BY <3>1, <3>2
  <2>3. thisGroup(g) = SubSeq(g, a + 1, Len(g))
    <3>1. CASE g[LastCut(g) + 1] = Sep
      <4>1. LastCut(g) + 2 = a + 1
        BY <3>1, <2>1, <2>2
      <4> QED BY <1>2, <3>1, <4>1 DEF thisGroup
    <3>2. CASE g[LastCut(g) + 1] # Sep
      BY <1>2, <3>2, <2>2 DEF thisGroup
    <3> QED BY <3>1, <3>2
  <2>4. thisGroup(g) \in Text
    BY <2>1, <2>3, SubText
  <2>5. ASSUME g \in Sound PROVE thisGroup(g) \in Sound
    <3>1. ~Opens(g)[Len(g)]
      BY <2>5, EndOfSound
    <3>2. Len(g) \in Nat /\ Len(g) <= Len(g)
      BY <2>1
    <3>3. SubSeq(g, a + 1, Len(g)) \in Sound
      BY <2>2, <2>5, <3>1, <3>2, SubSound
    <3> QED BY <2>3, <3>3
  <2> QED BY <2>4, <2>5
<1> QED BY <1>1, <1>2

LEMMA SectionIs ==
  ASSUME NEW g \in Text
  PROVE  /\ Section(g) \in Text /\ AfterSection(g) \in Text
         /\ g \in Sound => Section(g) \in Sound /\ AfterSection(g) \in Sound
<1>1. PICK l \in Nat, m \in Nat, n \in Nat :
        /\ l = Leading(g) /\ m = SectionEnd(g) /\ n = Len(g) /\ l <= m /\ m <= n /\ ~Opens(g)[l]
        /\ m # n => m + 1 <= n /\ ~Opens(g)[m] /\ ~Opens(g)[m + 1]
  BY LeadingIs, SectionEndIs, TextLen
<1>2. Section(g) = SubSeq(g, l + 1, m)
  BY <1>1 DEF Section
<1>3. AfterSection(g) = SubSeq(g, (m + 1) + 1, n)
  <2>1. m + 2 = (m + 1) + 1
    OBVIOUS
  <2> QED BY <2>1, <1>1 DEF AfterSection
<1>4. Section(g) \in Text /\ AfterSection(g) \in Text
  <2>1. m + 1 \in Nat /\ n <= Len(g) /\ m <= Len(g)
    BY <1>1
  <2> QED BY <2>1, <1>2, <1>3, SubText
<1>5. ASSUME g \in Sound PROVE Section(g) \in Sound /\ AfterSection(g) \in Sound
  <2>1. ~Opens(g)[n]
    BY <1>1, <1>5, EndOfSound
  <2>2. ~Opens(g)[m]
    BY <1>1, <2>1
  <2>3. Section(g) \in Sound
    BY <1>1, <1>2, <1>5, <2>2, SubSound
  <2>4. m + 1 <= n => ~Opens(g)[m + 1] /\ ~Opens(g)[n]
    BY <1>1, <2>1
  <2>5. AfterSection(g) \in Sound
    <3>1. m + 1 \in Nat /\ n <= Len(g)
      BY <1>1
    <3> QED BY <3>1, <1>3, <1>5, <2>4, SubSound
  <2> QED BY <2>3, <2>5
<1> QED BY <1>4, <1>5

-----------------------------------------------------------------------------
\* What the names and the paths are turned into.
LEMMA EscapedIs ==
  ASSUME NEW s \in Text
  PROVE  escapeGroup(s) \in Sound
<1>1. DOMAIN s = 1..Len(s) /\ Len(s) \in Nat /\ \A k \in 1..Len(s) : s[k] \in Letters
  BY TextLen
<1>2. PICK f : f = [k \in 1..Len(s) |-> EscapeChar(s[k])]
  OBVIOUS
<1>3. \A k \in 1..Len(s) : EscapeChar(s[k]) \in Sound
  BY <1>1, SoundAtoms DEF EscapeChar
<1>4. f \in [1..Len(s) -> Sound]
  BY <1>2, <1>3
<1>5. escapeGroup(s) = FlattenSeq(f)
  BY <1>1, <1>2 DEF escapeGroup
<1>6. Sound \in SUBSET Seq(Letters)
  BY DEF Sound, Text
<1> QED BY <1>1, <1>4, <1>5, <1>6, SoundEmpty, SoundConcat, PiecesIn

LEMMA UnescapedIs ==
  ASSUME NEW g \in Text
  PROVE  unescapeGroup(g) \in Text
<1>1. DOMAIN g = 1..Len(g) /\ Len(g) \in Nat /\ \A k \in 1..Len(g) : g[k] \in Letters
  BY TextLen
<1>2. PICK f : f = [k \in 1..Len(g) |-> IF Opens(g)[k - 1] THEN <<g[k]>>
                                        ELSE IF g[k] = Esc THEN <<>> ELSE <<g[k]>>]
  OBVIOUS
<1>3. \A x \in Letters : <<x>> \in Seq(Letters)
  OBVIOUS
<1>4. f \in [1..Len(g) -> Seq(Letters)]
  BY <1>1, <1>2, <1>3, EmptySeq
<1>5. unescapeGroup(g) = FlattenSeq(f)
  BY <1>1, <1>2 DEF unescapeGroup, Scan
<1> QED BY <1>1, <1>4, <1>5, TextPieces DEF Text

LEMMA ReadiedIs ==
  ASSUME NEW p \in Text
  PROVE  readyGroup(p) \in Text
<1>0. PICK g \in Text : g = DropLeading(p)
  BY DropLeadingIs
<1>1. DOMAIN g = 1..Len(g) /\ Len(g) \in Nat /\ \A k \in 1..Len(g) : g[k] \in Letters
  BY TextLen
<1> DEFINE Piece(k) == IF Opens(g)[k - 1] THEN IF g[k] = Sep THEN <<Sep>> ELSE <<Esc, Esc>>
                       ELSE IF g[k] = Esc THEN <<>>
                       ELSE IF g[k] = Sep THEN <<Dot>> ELSE IF g[k] = Dot THEN <<Esc, Dot>>
                       ELSE <<g[k]>>
<1>2. PICK f : f = [k \in 1..Len(g) |-> Piece(k)]
  OBVIOUS
<1>3. /\ \A x \in Letters : <<x>> \in Seq(Letters)
      /\ \A x, y \in Letters : <<x, y>> \in Seq(Letters)
  OBVIOUS
<1>4. \A k \in 1..Len(g) : Piece(k) \in Seq(Letters)
  <2>1. {<<Sep>>, <<Dot>>, <<Esc, Esc>>, <<Esc, Dot>>, <<>>} \subseteq Seq(Letters)
    BY <1>3, EmptySeq, LettersAssumption
  <2> QED BY <1>1, <1>3, <2>1
<1>5. f \in [1..Len(g) -> Seq(Letters)]
  <2> HIDE DEF Piece
  <2> QED BY <1>2, <1>4
<1>6. readyGroup(p) = FlattenSeq(f)
  BY <1>0, <1>1, <1>2 DEF readyGroup, Scan
<1> QED BY <1>1, <1>5, <1>6, TextPieces DEF Text

LEMMA ParsedIs ==
  ASSUME NEW g \in Text
  PROVE  parseGroup(g) \in Sound
<1>1. DOMAIN g = 1..Len(g) /\ Len(g) \in Nat /\ \A k \in 1..Len(g) : g[k] \in Letters
  BY TextLen
<1> DEFINE Piece(k) == IF Opens(g)[k - 1]
                         THEN IF g[k] = Dot THEN <<Dot>> ELSE IF g[k] = Esc THEN <<Esc, Esc>> ELSE <<>>
                       ELSE IF g[k] = Esc THEN <<>>
                       ELSE IF g[k] = Dot THEN <<Sep>> ELSE IF g[k] = Sep THEN <<Esc, Sep>>
                       ELSE <<g[k]>>
<1>2. PICK f : f = [k \in 1..Len(g) |-> Piece(k)]
  OBVIOUS
<1>3. \A k \in 1..Len(g) : Piece(k) \in Sound
  <2>1. {<<Sep>>, <<Dot>>, <<Esc, Esc>>, <<Esc, Sep>>, <<>>} \subseteq Sound
    <3>1. {Sep, Dot} \subseteq Letters \ {Esc}
      BY LettersAssumption DEF Sep, Dot, Esc
    <3> QED BY <3>1, SoundAtoms, SoundEmpty
  <2> QED BY <1>1, <2>1, SoundAtoms
<1>4. f \in [1..Len(g) -> Sound]
  <2> HIDE DEF Piece
  <2> QED BY <1>2, <1>3
<1>5. parseGroup(g) = FlattenSeq(f)
  BY <1>1, <1>2 DEF parseGroup, Scan
<1>6. Sound \in SUBSET Seq(Letters)
  BY DEF Sound, Text
<1> QED BY <1>1, <1>4, <1>5, <1>6, SoundEmpty, SoundConcat, PiecesIn

-----------------------------------------------------------------------------
\* Whatever is made from the value of a smaller number.
LEMMA Downward ==
  ASSUME NEW n \in Nat, NEW X, NEW h, h[0] \in X,
         \A m \in 1..n : \E p \in 0..m - 1 : h[p] \in X => h[m] \in X
  PROVE  \A m \in 0..n : h[m] \in X
<1> DEFINE D == {k \in Nat : \A j \in 0..k : j <= n => h[j] \in X}
<1>1. 0 \in D
  OBVIOUS
<1>2. ASSUME NEW k \in Nat, k \in D PROVE k + 1 \in D
  <2> SUFFICES ASSUME NEW j \in 0..k + 1, j <= n PROVE h[j] \in X
    OBVIOUS
  <2>1. CASE j <= k
    BY <2>1, <1>2
  <2>2. CASE j = k + 1
    <3>1. PICK p \in 0..j - 1 : h[p] \in X => h[j] \in X
      <4>1. j \in 1..n
        BY <2>2
      <4> QED BY <4>1
    <3>2. p \in 0..k /\ p <= n
      BY <2>2
    <3> QED BY <3>1, <3>2, <1>2
  <2> QED BY <2>1, <2>2
<1> HIDE DEF D
<1>3. n \in D
  BY <1>1, <1>2, SetInduction
<1> QED BY <1>3 DEF D

NamedBy(t, h) ==
  h = [n \in 0..Len(t) |-> IF n = 0 THEN <<>>
                           ELSE h[t[n].parent] \o <<Sep>> \o escapeGroup(t[n].name)]

LEMMA TreeIs ==
  ASSUME NEW t, Tree(t)
  PROVE  /\ Len(t) \in Nat /\ DOMAIN t = 1..Len(t)
         /\ \A n \in 1..Len(t) : t[n].name \in Text /\ t[n].parent \in Nat /\ t[n].parent < n
<1>1. t \in Seq([name : Text, parent : Nat]) /\ \A n \in DOMAIN t : t[n].parent < n
  BY DEF Tree
<1>2. Len(t) \in Nat /\ DOMAIN t = 1..Len(t) /\ \A n \in 1..Len(t) : t[n] \in [name : Text, parent : Nat]
  BY <1>1, LenProperties, ElementOfSeq
<1> QED BY <1>1, <1>2

LEMMA ChildSound ==
  ASSUME NEW x \in Sound, NEW s \in Text
  PROVE  x \o <<Sep>> \o escapeGroup(s) \in Sound
<1>1. <<Sep>> \in Sound
  <2>1. Sep \in Letters \ {Esc}
    BY LettersAssumption DEF Sep, Esc
  <2> QED BY <2>1, SoundAtoms
<1>2. escapeGroup(s) \in Sound
  BY EscapedIs
<1>3. x \o <<Sep>> \in Sound
  BY <1>1, SoundConcat
<1> QED BY <1>2, <1>3, SoundConcat

LEMMA PathSteps ==
  ASSUME NEW t, Tree(t)
  PROVE  /\ groupName(t, 0) = <<>>
         /\ \A g \in 1..Len(t) :
              groupName(t, g) = groupName(t, t[g].parent) \o <<Sep>> \o escapeGroup(t[g].name)
<1> DEFINE N == Len(t)
           prev == [m \in 1..N |-> t[m].parent]
           step == [y \in (1..N) \X Sound |-> y[2] \o <<Sep>> \o escapeGroup(t[y[1]].name)]
<1>1. N \in Nat /\ \A n \in 1..N : t[n].name \in Text /\ t[n].parent \in Nat /\ t[n].parent < n
  BY TreeIs
<1>2. prev \in Smaller(N)
  BY <1>1 DEF Smaller
<1>3. step \in Steps(N, Sound)
  BY <1>1, ChildSound DEF Steps
<1>4. PICK f : Descends(f, N, Sound, <<>>, prev, step)
  <2> HIDE DEF N, prev, step
  <2> QED BY <1>1, <1>2, <1>3, Descent, SoundEmpty
<1>5. f \in [0..N -> Sound] /\ f[0] = <<>> /\ \A m \in 1..N : f[m] = step[<<m, f[prev[m]]>>]
  BY <1>4 DEF Descends
<1>6. ASSUME NEW m \in 1..N PROVE f[m] = f[t[m].parent] \o <<Sep>> \o escapeGroup(t[m].name)
  <2>1. prev[m] = t[m].parent /\ t[m].parent \in 0..N
    BY <1>1
  <2>2. f[t[m].parent] \in Sound
    BY <2>1, <1>5
  <2>3. f[m] = step[<<m, f[t[m].parent]>>]
    BY <2>1, <1>5
  <2> QED BY <2>2, <2>3
<1> HIDE DEF prev, step
<1>7. NamedBy(t, f)
  <2>1. f = [n \in 0..N |-> f[n]]
    BY <1>5
  <2>2. ASSUME NEW n \in 0..N
        PROVE  f[n] = IF n = 0 THEN <<>> ELSE f[t[n].parent] \o <<Sep>> \o escapeGroup(t[n].name)
    <3>1. n # 0 => n \in 1..N
      BY <1>1
    <3> QED BY <3>1, <1>5, <1>6
  <2> QED BY <2>1, <2>2 DEF NamedBy
<1>8. PICK h : NamedBy(t, h) /\ \A g : groupName(t, g) = h[g]
  <2> DEFINE h == CHOOSE x : NamedBy(t, x)
  <2>1. NamedBy(t, h)
    BY <1>7
  <2>2. \A g : groupName(t, g) = h[g]
    BY DEF groupName, NamedBy
  <2> HIDE DEF h
  <2> QED BY <2>1, <2>2
<1>9. \A n \in 0..N : h[n] = IF n = 0 THEN <<>>
                             ELSE h[t[n].parent] \o <<Sep>> \o escapeGroup(t[n].name)
  BY <1>8 DEF NamedBy
<1>10. 0 \in 0..N /\ \A n \in 1..N : n \in 0..N /\ n # 0
  BY <1>1
<1> QED BY <1>8, <1>9, <1>10

LEMMA GroupNameIs ==
  ASSUME NEW t, Tree(t), NEW group \in 0..Len(t)
  PROVE  groupName(t, group) \in Sound
<1> DEFINE h == [g \in 0..Len(t) |-> groupName(t, g)]
<1>1. /\ Len(t) \in Nat
      /\ \A n \in 1..Len(t) : t[n].name \in Text /\ t[n].parent \in Nat /\ t[n].parent < n
  BY TreeIs
<1>2. h[0] \in Sound
  BY <1>1, PathSteps, SoundEmpty
<1>3. ASSUME NEW m \in 1..Len(t) PROVE \E p \in 0..m - 1 : h[p] \in Sound => h[m] \in Sound
  <2>1. /\ t[m].parent \in 0..m - 1 /\ t[m].parent \in 0..Len(t) /\ m \in 0..Len(t)
        /\ t[m].name \in Text
    BY <1>1
  <2>2. h[m] = h[t[m].parent] \o <<Sep>> \o escapeGroup(t[m].name)
    BY <2>1, PathSteps
  <2> HIDE DEF h
  <2>3. h[t[m].parent] \in Sound => h[m] \in Sound
    BY <2>1, <2>2, ChildSound
  <2> QED BY <2>1, <2>3
<1> HIDE DEF h
<1>4. \A m \in 0..Len(t) : h[m] \in Sound
  BY <1>1, <1>2, <1>3, Downward
<1> QED BY <1>4 DEF h

\* The path of an entry's group as the file has it.
LEMMA PathIs ==
  ASSUME NEW d, Tree(d.tree), NEW e, d.entries[e].group \in 0..Len(d.tree), NEW fmt
  PROVE  PathIn(fmt, d, e) \in Sound /\ PathIn(fmt, d, e) \in Text
<1>1. PICK p \in Sound : p = groupName(d.tree, d.entries[e].group) /\ p \in Text
  BY GroupNameIs DEF Sound
<1>2. parseGroup(readyGroup(p)) \in Sound
  BY <1>1, ReadiedIs, ParsedIs
<1> QED BY <1>1, <1>2 DEF PathIn, Sound

-----------------------------------------------------------------------------
\* findGroup answers with a group of the tree.
RestOf(full, n) == SubSeq(full, Len(full) - n + 1, Len(full))
HitsAt(tree, rest, group) ==
  {c \in DOMAIN tree : tree[c].parent = group /\ tree[c].name = unescapeGroup(Section(rest))}

FoundBy(tree, full, h) ==
  h = [n \in 0..Len(full) |->
        LET rest == SubSeq(full, Len(full) - n + 1, Len(full))
            Hits(group) == {c \in DOMAIN tree : /\ tree[c].parent = group
                                               /\ tree[c].name = unescapeGroup(Section(rest))}
        IN  [group \in 0..Len(tree) |->
               IF n = 0 \/ Hits(group) = {} THEN None
               ELSE IF SectionEnd(rest) = n THEN Min(Hits(group))
               ELSE h[n - SectionEnd(rest) - 1][Min(Hits(group))]]]

FoundIn(tree, n, rest, x) ==
  [group \in 0..Len(tree) |->
     IF HitsAt(tree, rest, group) = {} THEN None
     ELSE IF SectionEnd(rest) = n THEN Min(HitsAt(tree, rest, group))
     ELSE x[Min(HitsAt(tree, rest, group))]]

Answers(tree) == [0..Len(tree) -> DOMAIN tree \cup {None}]

LEMMA FoundInIs ==
  ASSUME NEW tree, Tree(tree), NEW n, NEW rest, NEW x,
         SectionEnd(rest) # n => x \in Answers(tree)
  PROVE  FoundIn(tree, n, rest, x) \in Answers(tree)
<1>1. DOMAIN tree = 1..Len(tree) /\ Len(tree) \in Nat
  BY TreeIs
<1>2. ASSUME NEW group, HitsAt(tree, rest, group) # {}
      PROVE  Min(HitsAt(tree, rest, group)) \in DOMAIN tree
  <2>1. HitsAt(tree, rest, group) \in SUBSET Nat /\ HitsAt(tree, rest, group) \subseteq DOMAIN tree
    BY <1>1 DEF HitsAt
  <2> QED BY <2>1, <1>2, SmallestIs
<1>3. DOMAIN tree \subseteq 0..Len(tree)
  BY <1>1
<1>4. ASSUME NEW group \in 0..Len(tree)
      PROVE  (IF HitsAt(tree, rest, group) = {} THEN None
              ELSE IF SectionEnd(rest) = n THEN Min(HitsAt(tree, rest, group))
              ELSE x[Min(HitsAt(tree, rest, group))]) \in DOMAIN tree \cup {None}
  BY <1>2, <1>3 DEF Answers
<1> QED BY <1>4 DEF FoundIn, Answers

LEMMA RestIs ==
  ASSUME NEW full \in Text, NEW n \in 1..Len(full)
  PROVE  RestOf(full, n) \in Text /\ SectionEnd(RestOf(full, n)) \in 0..n
<1>1. PICK a \in Nat, l \in Nat : l = Len(full) /\ l = a + n
  <2>1. Len(full) \in Nat /\ Len(full) - n \in Nat /\ Len(full) = (Len(full) - n) + n
    BY TextLen
  <2> QED BY <2>1
<1>2. RestOf(full, n) = SubSeq(full, a + 1, l)
  <2>1. Len(full) - n + 1 = a + 1
    BY <1>1
  <2> QED BY <2>1, <1>1 DEF RestOf
<1>3. RestOf(full, n) \in Text
  <2>1. l <= Len(full)
    BY <1>1
  <2> QED BY <2>1, <1>2, SubText
<1>4. Len(RestOf(full, n)) = n
  <2>1. \A i \in a + 1..l : full[i] \in Letters
    <3>1. \A i \in 1..l : full[i] \in Letters
      BY <1>1, TextLen
    <3> QED BY <3>1
  <2>2. a + 1 \in Int /\ l \in Int /\ a + 1 <= l /\ l - (a + 1) + 1 = n
    BY <1>1
  <2>3. Len(SubSeq(full, a + 1, l)) = IF a + 1 <= l THEN l - (a + 1) + 1 ELSE 0
    BY <2>1, <2>2, SubSeqProperties
  <2> QED BY <2>2, <2>3, <1>2
<1>5. SectionEnd(RestOf(full, n)) \in Leading(RestOf(full, n))..n /\ Leading(RestOf(full, n)) \in 0..n
  BY <1>3, <1>4, SectionEndIs, LeadingIs
<1> QED BY <1>3, <1>5

FoundAt(tree, full) == CHOOSE h : FoundBy(tree, full, h)

\* From each suffix of a path and each group below which it starts.
LEMMA FoundSteps ==
  ASSUME NEW tree, Tree(tree), NEW full \in Text
  PROVE  /\ findGroup(tree, full) = FoundAt(tree, full)[Len(full)][0]
         /\ FoundAt(tree, full)[0] = [group \in 0..Len(tree) |-> None]
         /\ \A n \in 1..Len(full) :
              FoundAt(tree, full)[n]
                = FoundIn(tree, n, RestOf(full, n),
                          FoundAt(tree, full)[n - SectionEnd(RestOf(full, n)) - 1])
         /\ \A n \in 0..Len(full) : FoundAt(tree, full)[n] \in Answers(tree)
<1> DEFINE N == Len(full)
           X == Answers(tree)
           S(m) == SectionEnd(RestOf(full, m))
           prev == [m \in 1..N |-> IF S(m) = m THEN 0 ELSE m - S(m) - 1]
           step == [y \in (1..N) \X X |-> FoundIn(tree, y[1], RestOf(full, y[1]), y[2])]
           none == [group \in 0..Len(tree) |-> None]
<1>1. N \in Nat /\ \A m \in 1..N : S(m) \in 0..m
  BY TextLen, RestIs
<1>2. none \in X
  BY DEF Answers
<1>3. prev \in Smaller(N)
  <2> HIDE DEF S
  <2>1. \A m \in 1..N : (IF S(m) = m THEN 0 ELSE m - S(m) - 1) \in 0..m - 1
    BY <1>1
  <2> QED BY <2>1, <1>1 DEF Smaller
<1>4. step \in Steps(N, X)
  BY FoundInIs DEF Steps
<1>5. PICK f : Descends(f, N, X, none, prev, step)
  <2> HIDE DEF N, X, prev, step, none
  <2> QED BY <1>1, <1>2, <1>3, <1>4, Descent
<1>6. f \in [0..N -> X] /\ f[0] = none /\ \A m \in 1..N : f[m] = step[<<m, f[prev[m]]>>]
  BY <1>5 DEF Descends
<1>7. ASSUME NEW m \in 1..N
      PROVE  f[m] = FoundIn(tree, m, RestOf(full, m), f[m - S(m) - 1])
  <2>1. prev[m] \in 0..N
    BY <1>1, <1>3 DEF Smaller
  <2>2. f[m] = FoundIn(tree, m, RestOf(full, m), f[prev[m]])
    <3>1. f[prev[m]] \in X /\ f[m] = step[<<m, f[prev[m]]>>]
      BY <2>1, <1>6
    <3>2. \A y \in (1..N) \X X : step[y] = FoundIn(tree, y[1], RestOf(full, y[1]), y[2])
      OBVIOUS
    <3> HIDE DEF step, X, prev
    <3> QED BY <3>1, <3>2
  <2>3. CASE S(m) = m
    BY <2>2, <2>3 DEF FoundIn
  <2>4. CASE S(m) # m
    BY <2>2, <2>4
  <2> QED BY <2>3, <2>4
<1> HIDE DEF prev, step
<1>8. \A h, n, group : FoundIn(tree, n, RestOf(full, n), h[n - S(n) - 1])
        = [g \in 0..Len(tree) |->
             IF HitsAt(tree, RestOf(full, n), g) = {} THEN None
             ELSE IF S(n) = n THEN Min(HitsAt(tree, RestOf(full, n), g))
             ELSE h[n - S(n) - 1][Min(HitsAt(tree, RestOf(full, n), g))]]
  BY DEF FoundIn
<1>9. \A h : FoundBy(tree, full, h) <=>
        h = [n \in 0..N |-> IF n = 0 THEN none
                            ELSE FoundIn(tree, n, RestOf(full, n), h[n - S(n) - 1])]
  <2> SUFFICES ASSUME NEW h
               PROVE  FoundBy(tree, full, h) <=>
                        h = [n \in 0..N |-> IF n = 0 THEN none
                              ELSE FoundIn(tree, n, RestOf(full, n), h[n - S(n) - 1])]
    OBVIOUS
  <2> DEFINE V(n) == [g \in 0..Len(tree) |->
                        IF n = 0 \/ HitsAt(tree, RestOf(full, n), g) = {} THEN None
                        ELSE IF S(n) = n THEN Min(HitsAt(tree, RestOf(full, n), g))
                        ELSE h[n - S(n) - 1][Min(HitsAt(tree, RestOf(full, n), g))]]
             W(n) == IF n = 0 THEN none
                     ELSE FoundIn(tree, n, RestOf(full, n), h[n - S(n) - 1])
  <2>1. FoundBy(tree, full, h) <=> h = [n \in 0..N |-> V(n)]
    BY DEF FoundBy, HitsAt, RestOf
  <2>2. \A n \in 0..N : V(n) = W(n)
    BY DEF FoundIn
  <2> HIDE DEF V, W
  <2>3. [n \in 0..N |-> V(n)] = [n \in 0..N |-> W(n)]
    BY <2>2
  <2>4. FoundBy(tree, full, h) <=> h = [n \in 0..N |-> W(n)]
    BY <2>1, <2>3
  <2> QED BY <2>4 DEF W
<1>10. FoundBy(tree, full, f)
  <2>1. f = [n \in 0..N |-> f[n]]
    BY <1>6
  <2>2. ASSUME NEW n \in 0..N
        PROVE  f[n] = IF n = 0 THEN none ELSE FoundIn(tree, n, RestOf(full, n), f[n - S(n) - 1])
    <3>1. n # 0 => n \in 1..N
      BY <1>1
    <3> HIDE DEF none, S
    <3> QED BY <3>1, <1>6, <1>7
  <2> HIDE DEF none, S
  <2> QED BY <2>1, <2>2, <1>9
<1>11. PICK h : /\ h = FoundAt(tree, full) /\ FoundBy(tree, full, h)
                /\ findGroup(tree, full) = h[N][0]
  <2>1. findGroup(tree, full) = (CHOOSE h : FoundBy(tree, full, h))[N][0]
    BY DEF findGroup, FoundBy
  <2> QED BY <2>1, <1>10 DEF FoundAt
<1>12. \A n \in 0..N : h[n] = IF n = 0 THEN none
                              ELSE FoundIn(tree, n, RestOf(full, n), h[n - S(n) - 1])
  <2> HIDE DEF none, S
  <2> QED BY <1>11, <1>9
<1>13. h[0] \in X
  <2>1. 0 \in 0..N
    BY <1>1
  <2> HIDE DEF none, S
  <2> QED BY <2>1, <1>12, <1>2
<1>14. ASSUME NEW m \in 1..N PROVE \E p \in 0..m - 1 : h[p] \in X => h[m] \in X
  <2>1. m \in 0..N /\ m # 0 /\ S(m) \in 0..m
    BY <1>1
  <2>2. h[m] = FoundIn(tree, m, RestOf(full, m), h[m - S(m) - 1])
    <3> HIDE DEF none, S
    <3> QED BY <2>1, <1>12
  <2>3. CASE S(m) = m
    <3>1. h[m] \in X
      BY <2>2, <2>3, FoundInIs
    <3> QED BY <3>1
  <2>4. CASE S(m) # m
    <3>1. m - S(m) - 1 \in 0..m - 1
      <4> HIDE DEF S
      <4> QED BY <2>1, <2>4
    <3>2. h[m - S(m) - 1] \in X => h[m] \in X
      BY <2>2, FoundInIs
    <3> QED BY <3>1, <3>2
  <2> QED BY <2>3, <2>4
<1>15. \A m \in 0..N : h[m] \in X
  <2> HIDE DEF X, N
  <2> QED BY <1>1, <1>13, <1>14, Downward
<1>16. 0 \in 0..N /\ \A n \in 1..N : n \in 0..N /\ n # 0
  BY <1>1
<1>17. /\ h[0] = none
       /\ \A n \in 1..N : h[n] = FoundIn(tree, n, RestOf(full, n), h[n - S(n) - 1])
  <2> HIDE DEF none, S, N
  <2> QED BY <1>12, <1>16
<1> QED BY <1>11, <1>15, <1>17

LEMMA FoundIs ==
  ASSUME NEW tree, Tree(tree), NEW full \in Text
  PROVE  findGroup(tree, full) \in DOMAIN tree \cup {None}
<1>1. Len(full) \in 0..Len(full) /\ 0 \in 0..Len(tree)
  BY TextLen, TreeIs
<1>2. PICK x : /\ x = FoundAt(tree, full)[Len(full)] /\ x \in Answers(tree)
               /\ findGroup(tree, full) = x[0]
  <2>1. findGroup(tree, full) = FoundAt(tree, full)[Len(full)][0]
    BY FoundSteps
  <2>2. \A n \in 0..Len(full) : FoundAt(tree, full)[n] \in Answers(tree)
    BY FoundSteps
  <2>3. FoundAt(tree, full)[Len(full)] \in Answers(tree)
    BY <1>1, <2>2
  <2> QED BY <2>1, <2>3
<1> QED BY <1>1, <1>2 DEF Answers


-----------------------------------------------------------------------------
\* findOrCreateGroup leaves a tree that has grown, and answers with a group of it.
Trees == Seq([name : Text, parent : Nat])
Grown(tree) == {r \in [tree : Trees, group : Nat] :
                  Tree(r.tree) /\ r.group <= Len(r.tree) /\ Len(tree) <= Len(r.tree)}

LEMMA GrownIs ==
  ASSUME NEW tree, Tree(tree), NEW r \in Grown(tree)
  PROVE  /\ Tree(r.tree) /\ r.group \in 0..Len(r.tree)
         /\ Len(tree) \in Nat /\ Len(r.tree) \in Nat /\ Len(tree) <= Len(r.tree)
<1>1. Tree(r.tree) /\ r.group \in Nat /\ r.group <= Len(r.tree) /\ Len(tree) <= Len(r.tree)
  BY DEF Grown
<1>2. Len(tree) \in Nat /\ Len(r.tree) \in Nat
  BY <1>1, TreeIs
<1> QED BY <1>1, <1>2

LEMMA GroupIn ==
  ASSUME NEW tree, Tree(tree), NEW g \in 0..Len(tree)
  PROVE  [tree |-> tree, group |-> g] \in Grown(tree)
<1>1. tree \in Trees /\ Len(tree) \in Nat
  BY TreeIs DEF Tree, Trees
<1> QED BY <1>1 DEF Grown

LEMMA GroupMade ==
  ASSUME NEW tree, Tree(tree), NEW x \in Grown(tree), NEW s \in Text
  PROVE  [tree  |-> Append(x.tree, [name |-> s, parent |-> x.group]),
          group |-> Len(x.tree) + 1] \in Grown(tree)
<1>1. /\ Tree(x.tree) /\ x.group \in 0..Len(x.tree) /\ Len(x.tree) \in Nat
      /\ Len(tree) \in Nat /\ Len(tree) <= Len(x.tree)
  BY GrownIs
<1>2. PICK t \in Trees, g \in Nat, n \in Nat :
        t = x.tree /\ g = x.group /\ n = Len(t) /\ g <= n /\ \A k \in 1..n : t[k].parent < k
  BY <1>1, TreeIs DEF Tree, Trees
<1>3. PICK c \in [name : Text, parent : Nat] : c = [name |-> s, parent |-> g]
  OBVIOUS
<1>4. PICK u \in Trees : /\ u = Append(t, c) /\ Len(u) = n + 1 /\ u[n + 1] = c
                         /\ \A k \in 1..n : u[k] = t[k]
  <2>1. /\ Append(t, c) \in Trees /\ Len(Append(t, c)) = Len(t) + 1
        /\ Append(t, c)[Len(t) + 1] = c /\ \A i \in 1..Len(t) : Append(t, c)[i] = t[i]
    BY AppendProperties DEF Trees
  <2> QED BY <2>1, <1>2
<1>5. Tree(u)
  <2>1. DOMAIN u = 1..n + 1
    BY <1>4, LenProperties DEF Trees
  <2>2. ASSUME NEW k \in 1..n + 1 PROVE u[k].parent < k
    <3>1. CASE k = n + 1
      <4>1. c.parent = g /\ g < n + 1
        BY <1>2, <1>3
      <4> QED BY <3>1, <4>1, <1>4
    <3>2. CASE k # n + 1
      <4>1. k \in 1..n
        BY <3>2
      <4> QED BY <4>1, <1>2, <1>4
    <3> QED BY <3>1, <3>2
  <2> QED BY <2>1, <2>2 DEF Tree, Trees
<1>6. [tree |-> u, group |-> n + 1] \in Grown(tree)
  <2>1. n + 1 <= Len(u) /\ Len(tree) <= Len(u)
    BY <1>1, <1>2, <1>4
  <2> QED BY <2>1, <1>5 DEF Grown
<1> QED BY <1>2, <1>3, <1>4, <1>6

MadeBy(tree, path, h) ==
  h = [n \in 0..Len(path) |->
        LET full   == SubSeq(path, 1, n)
            found  == findGroup(tree, full)
            parent == h[LastCut(full)]
        IN  IF n = 0 THEN [tree |-> tree, group |-> 0]
            ELSE IF found # None THEN [tree |-> tree, group |-> found]
            ELSE [tree |-> Append(parent.tree, [name |-> unescapeGroup(thisGroup(full)),
                                                parent |-> parent.group]),
                  group |-> Len(parent.tree) + 1]]

MadeFor(tree, full, x) ==
  IF findGroup(tree, full) # None THEN [tree |-> tree, group |-> findGroup(tree, full)]
  ELSE [tree |-> Append(x.tree, [name |-> unescapeGroup(thisGroup(full)), parent |-> x.group]),
        group |-> Len(x.tree) + 1]

LEMMA MadeForIs ==
  ASSUME NEW tree, Tree(tree), NEW full \in Text, NEW x \in Grown(tree)
  PROVE  MadeFor(tree, full, x) \in Grown(tree)
<1>1. CASE findGroup(tree, full) # None
  <2>1. findGroup(tree, full) \in 0..Len(tree)
    BY <1>1, FoundIs, TreeIs
  <2> QED BY <1>1, <2>1, GroupIn DEF MadeFor
<1>2. CASE findGroup(tree, full) = None
  <2>1. unescapeGroup(thisGroup(full)) \in Text
    BY ThisIs, UnescapedIs
  <2> QED BY <1>2, <2>1, GroupMade DEF MadeFor
<1> QED BY <1>1, <1>2

LEMMA PrefixIs ==
  ASSUME NEW path \in Text, NEW n \in 1..Len(path)
  PROVE  /\ SubSeq(path, 1, n) \in Text
         /\ LastCut(SubSeq(path, 1, n)) \in 0..n - 1
<1>1. Len(path) \in Nat /\ n \in Nat /\ n <= Len(path) /\ \A i \in 1..n : path[i] \in Letters
  BY TextLen
<1>2. SubSeq(path, 1, n) \in Seq(Letters) /\ Len(SubSeq(path, 1, n)) = n
  <2>1. 1 \in Int /\ n \in Int /\ 1 <= n /\ n - 1 + 1 = n
    BY <1>1
  <2>2. /\ SubSeq(path, 1, n) \in Seq(Letters)
        /\ Len(SubSeq(path, 1, n)) = IF 1 <= n THEN n - 1 + 1 ELSE 0
    BY <1>1, <2>1, SubSeqProperties
  <2> QED BY <2>1, <2>2
<1>3. SubSeq(path, 1, n) # <<>>
  <2>1. n # 0 /\ Len(<<>>) = 0
    OBVIOUS
  <2> QED BY <2>1, <1>2
<1>4. LastCut(SubSeq(path, 1, n)) \in Nat /\ LastCut(SubSeq(path, 1, n)) < n
  BY <1>2, <1>3, LastCutIs DEF Text
<1> QED BY <1>1, <1>2, <1>4 DEF Text

MadeAt(tree, path) == CHOOSE h : MadeBy(tree, path, h)

\* From each prefix of a path.
LEMMA MadeSteps ==
  ASSUME NEW tree, Tree(tree), NEW path \in Text
  PROVE  /\ MadeAt(tree, path)[0] = [tree |-> tree, group |-> 0]
         /\ \A n \in 1..Len(path) :
              MadeAt(tree, path)[n]
                = MadeFor(tree, SubSeq(path, 1, n),
                          MadeAt(tree, path)[LastCut(SubSeq(path, 1, n))])
         /\ \A n \in 0..Len(path) : MadeAt(tree, path)[n] \in Grown(tree)
<1> DEFINE N == Len(path)
           X == Grown(tree)
           F(m) == SubSeq(path, 1, m)
           prev == [m \in 1..N |-> LastCut(F(m))]
           step == [y \in (1..N) \X X |-> MadeFor(tree, F(y[1]), y[2])]
           b == [tree |-> tree, group |-> 0]
<1>2. N \in Nat /\ \A m \in 1..N : F(m) \in Text /\ LastCut(F(m)) \in 0..m - 1
  BY TextLen, PrefixIs
<1>3. b \in X
  <2>1. 0 \in 0..Len(tree)
    BY TreeIs
  <2> QED BY <2>1, GroupIn
<1>4. prev \in Smaller(N)
  <2> HIDE DEF F
  <2>1. \A m \in 1..N : LastCut(F(m)) \in Nat /\ LastCut(F(m)) < m
    BY <1>2
  <2> QED BY <2>1 DEF Smaller
<1>5. step \in Steps(N, X)
  BY <1>2, MadeForIs DEF Steps
<1>6. PICK f : Descends(f, N, X, b, prev, step)
  <2> HIDE DEF N, X, prev, step, b
  <2> QED BY <1>2, <1>3, <1>4, <1>5, Descent
<1>7. f \in [0..N -> X] /\ f[0] = b /\ \A m \in 1..N : f[m] = step[<<m, f[prev[m]]>>]
  BY <1>6 DEF Descends
<1>8. ASSUME NEW m \in 1..N PROVE f[m] = MadeFor(tree, F(m), f[LastCut(F(m))])
  <2>1. prev[m] = LastCut(F(m)) /\ LastCut(F(m)) \in 0..N
    BY <1>2
  <2>2. f[LastCut(F(m))] \in X /\ f[m] = step[<<m, f[LastCut(F(m))]>>]
    <3> HIDE DEF X, F, step
    <3> QED BY <2>1, <1>7
  <2>3. \A y \in (1..N) \X X : step[y] = MadeFor(tree, F(y[1]), y[2])
    OBVIOUS
  <2> HIDE DEF X, F, step
  <2> QED BY <2>2, <2>3
<1> HIDE DEF prev, step
<1>9. \A h : MadeBy(tree, path, h) <=>
        h = [n \in 0..N |-> IF n = 0 THEN b ELSE MadeFor(tree, F(n), h[LastCut(F(n))])]
  BY DEF MadeBy, MadeFor
<1>10. MadeBy(tree, path, f)
  <2>1. f = [n \in 0..N |-> f[n]]
    BY <1>7
  <2>2. ASSUME NEW n \in 0..N
        PROVE  f[n] = IF n = 0 THEN b ELSE MadeFor(tree, F(n), f[LastCut(F(n))])
    <3>1. n # 0 => n \in 1..N
      BY <1>2
    <3> HIDE DEF b, F
    <3> QED BY <3>1, <1>7, <1>8
  <2> HIDE DEF b, F
  <2> QED BY <2>1, <2>2, <1>9
<1>11. PICK h : h = MadeAt(tree, path) /\ MadeBy(tree, path, h)
  BY <1>10 DEF MadeAt
<1>12. \A n \in 0..N : h[n] = IF n = 0 THEN b ELSE MadeFor(tree, F(n), h[LastCut(F(n))])
  <2> HIDE DEF b, F
  <2> QED BY <1>11, <1>9
<1>13. h[0] \in X
  <2>1. 0 \in 0..N
    BY <1>2
  <2> HIDE DEF b, F
  <2> QED BY <2>1, <1>12, <1>3
<1>14. ASSUME NEW m \in 1..N PROVE \E p \in 0..m - 1 : h[p] \in X => h[m] \in X
  <2>1. m \in 0..N /\ m # 0 /\ F(m) \in Text /\ LastCut(F(m)) \in 0..m - 1
    BY <1>2
  <2>2. h[m] = MadeFor(tree, F(m), h[LastCut(F(m))])
    <3> HIDE DEF b, F
    <3> QED BY <2>1, <1>12
  <2> HIDE DEF F
  <2>3. h[LastCut(F(m))] \in X => h[m] \in X
    BY <2>1, <2>2, MadeForIs
  <2> QED BY <2>1, <2>3
<1>15. \A m \in 0..N : h[m] \in X
  <2> HIDE DEF X, N
  <2> QED BY <1>2, <1>13, <1>14, Downward
<1>16. 0 \in 0..N /\ \A n \in 1..N : n \in 0..N /\ n # 0
  BY <1>2
<1>17. h[0] = b /\ \A n \in 1..N : h[n] = MadeFor(tree, F(n), h[LastCut(F(n))])
  <2> HIDE DEF b, F, N
  <2> QED BY <1>12, <1>16
<1> QED BY <1>11, <1>15, <1>17

LEMMA MadeIs ==
  ASSUME NEW tree, Tree(tree), NEW name \in Text
  PROVE  /\ findOrCreateGroup(tree, name) = MadeAt(tree, SearchPath(name))[Len(SearchPath(name))]
         /\ findOrCreateGroup(tree, name) \in Grown(tree)
<1>1. SearchPath(name) \in Text
  BY SearchPathIs
<1>2. Len(SearchPath(name)) \in 0..Len(SearchPath(name))
  BY <1>1, TextLen
<1>3. findOrCreateGroup(tree, name) = MadeAt(tree, SearchPath(name))[Len(SearchPath(name))]
  BY DEF findOrCreateGroup, MadeAt, MadeBy
<1> QED BY <1>1, <1>2, <1>3, MadeSteps

-----------------------------------------------------------------------------
\* A safe whose entries are in groups of its tree.
SafeIs(d) == Tree(d.tree) /\ \A e \in Ids : d.entries[e] \in EntriesIn(d.tree)

PlacedBy(fmt, d, h) ==
  h = [e \in 0..LastId |->
        IF e = 0 THEN [tree |-> <<>>, group |-> 0]
        ELSE findOrCreateGroup(h[e - 1].tree, PathIn(fmt, d, e))]

LEMMA NoGroups ==
  /\ Tree(<<>>) /\ Len(<<>>) = 0 /\ [tree |-> <<>>, group |-> 0] \in Grown(<<>>)
<1>1. <<>> \in Trees /\ Len(<<>>) = 0
  BY EmptySeq DEF Trees
<1>2. DOMAIN (<<>>) = 1..0
  BY <1>1, LenProperties DEF Trees
<1>3. Tree(<<>>)
  BY <1>1, <1>2 DEF Tree, Trees
<1>4. 0 \in 0..Len(<<>>)
  BY <1>1
<1> QED BY <1>1, <1>3, <1>4, GroupIn

\* Entry by entry.
LEMMA PlacedSteps ==
  ASSUME NEW d, SafeIs(d), NEW fmt
  PROVE  /\ Placed(fmt, d)[0] = [tree |-> <<>>, group |-> 0]
         /\ \A e \in 1..LastId :
              Placed(fmt, d)[e] = findOrCreateGroup(Placed(fmt, d)[e - 1].tree, PathIn(fmt, d, e))
         /\ \A e \in 0..LastId : Placed(fmt, d)[e] \in Grown(<<>>)
         /\ \A e \in 1..LastId : Len(Placed(fmt, d)[e - 1].tree) <= Len(Placed(fmt, d)[e].tree)
         /\ LastId \in Nat
<1> DEFINE N == LastId
           X == Grown(<<>>)
           P(e) == PathIn(fmt, d, e)
           step == [y \in (1..N) \X X |-> findOrCreateGroup(y[2].tree, P(y[1]))]
           b == [tree |-> <<>>, group |-> 0]
<1>1. N \in Nat /\ \A e \in 1..N : P(e) \in Text
  <2>1. ASSUME NEW e \in 1..N PROVE P(e) \in Text
    <3>1. d.entries[e].group \in 0..Len(d.tree) /\ Tree(d.tree)
      BY DEF SafeIs, EntriesIn, Ids
    <3> QED BY <3>1, PathIs
  <2> QED BY <2>1, LastIdAssumption
<1>2. b \in X
  BY NoGroups
<1>3. ASSUME NEW x \in X, NEW e \in 1..N
      PROVE  /\ findOrCreateGroup(x.tree, P(e)) \in X
             /\ Len(x.tree) <= Len(findOrCreateGroup(x.tree, P(e)).tree)
  <2>1. Tree(x.tree) /\ Len(x.tree) \in Nat /\ Len(<<>>) <= Len(x.tree)
    BY NoGroups, GrownIs
  <2>2. PICK r \in Grown(x.tree) : r = findOrCreateGroup(x.tree, P(e))
    BY <1>1, <2>1, MadeIs
  <2>3. /\ Tree(r.tree) /\ r.group \in 0..Len(r.tree) /\ Len(r.tree) \in Nat
        /\ Len(x.tree) <= Len(r.tree)
    BY <2>1, GrownIs
  <2>4. r \in X
    <3>1. Len(<<>>) <= Len(r.tree)
      BY <2>3, NoGroups
    <3> QED BY <3>1, <2>2 DEF Grown
  <2> QED BY <2>2, <2>3, <2>4
<1>4. step \in Steps(N, X)
  <2> HIDE DEF X, P
  <2> QED BY <1>3 DEF Steps
<1>5. PICK f : Iterates(f, N, X, b, step)
  <2> HIDE DEF N, X, step, b
  <2> QED BY <1>1, <1>2, <1>4, Iteration
<1>6. f \in [0..N -> X] /\ f[0] = b /\ \A m \in 1..N : f[m] = step[<<m, f[m - 1]>>]
  BY <1>5 DEF Iterates
<1>7. ASSUME NEW m \in 1..N PROVE f[m] = findOrCreateGroup(f[m - 1].tree, P(m))
  <2>1. m - 1 \in 0..N
    BY <1>1
  <2>2. f[m - 1] \in X /\ f[m] = step[<<m, f[m - 1]>>]
    <3> HIDE DEF X, P, step
    <3> QED BY <2>1, <1>6
  <2>3. \A y \in (1..N) \X X : step[y] = findOrCreateGroup(y[2].tree, P(y[1]))
    OBVIOUS
  <2> HIDE DEF X, P, step
  <2> QED BY <2>2, <2>3
<1> HIDE DEF step
<1>8. PlacedBy(fmt, d, f)
  <2>1. f = [n \in 0..N |-> f[n]]
    BY <1>6
  <2>2. ASSUME NEW n \in 0..N
        PROVE  f[n] = IF n = 0 THEN b ELSE findOrCreateGroup(f[n - 1].tree, P(n))
    <3>1. n # 0 => n \in 1..N
      BY <1>1
    <3> HIDE DEF b, P
    <3> QED BY <3>1, <1>6, <1>7
  <2> QED BY <2>1, <2>2 DEF PlacedBy
<1>9. PICK h : h = Placed(fmt, d) /\ PlacedBy(fmt, d, h)
  <2>1. Placed(fmt, d) = CHOOSE h : PlacedBy(fmt, d, h)
    BY DEF Placed, PlacedBy
  <2> QED BY <2>1, <1>8
<1>10. \A n \in 0..N : h[n] = IF n = 0 THEN b ELSE findOrCreateGroup(h[n - 1].tree, P(n))
  BY <1>9 DEF PlacedBy
<1> HIDE DEF P, b, X
<1>11. ASSUME NEW m \in 1..N
       PROVE  m - 1 \in 0..m - 1 /\ h[m] = findOrCreateGroup(h[m - 1].tree, P(m))
  <2>1. m \in 0..N /\ m # 0
    BY <1>1
  <2> QED BY <2>1, <1>10
<1>12. \A n \in 0..N : h[n] \in X
  <2>1. h[0] \in X
    <3>1. 0 \in 0..N
      BY <1>1
    <3> QED BY <3>1, <1>10, <1>2
  <2>2. \A m \in 1..N : \E p \in 0..m - 1 : h[p] \in X => h[m] \in X
    <3> SUFFICES ASSUME NEW m \in 1..N PROVE \E p \in 0..m - 1 : h[p] \in X => h[m] \in X
      OBVIOUS
    <3>1. h[m - 1] \in X => h[m] \in X
      BY <1>3, <1>11
    <3> QED BY <3>1, <1>11
  <2> HIDE DEF N
  <2> QED BY <1>1, <2>1, <2>2, Downward
<1>13. \A m \in 1..N : Len(h[m - 1].tree) <= Len(h[m].tree)
  <2> SUFFICES ASSUME NEW m \in 1..N PROVE Len(h[m - 1].tree) <= Len(h[m].tree)
    OBVIOUS
  <2>1. m - 1 \in 0..N
    BY <1>1
  <2> QED BY <2>1, <1>3, <1>11, <1>12
<1>14. 0 \in 0..N
  BY <1>1
<1> QED BY <1>1, <1>9, <1>10, <1>11, <1>12, <1>13, <1>14 DEF b, P, X

LEMMA PlacedIs ==
  ASSUME NEW d, SafeIs(d), NEW fmt
  PROVE  /\ Tree(Placed(fmt, d)[LastId].tree)
         /\ \A e \in Ids : Placed(fmt, d)[e].group \in 0..Len(Placed(fmt, d)[LastId].tree)
<1> DEFINE N == LastId
<1>1. PICK h : /\ h = Placed(fmt, d) /\ N \in Nat
               /\ \A n \in 0..N : h[n] \in Grown(<<>>)
               /\ \A m \in 1..N : Len(h[m - 1].tree) <= Len(h[m].tree)
  BY PlacedSteps
<1>2. \A n \in 0..N : /\ Tree(h[n].tree) /\ h[n].group \in 0..Len(h[n].tree)
                       /\ Len(h[n].tree) \in Nat
  BY <1>1, NoGroups, GrownIs
<1>3. ASSUME NEW e \in 1..N PROVE Len(h[e].tree) <= Len(h[N].tree)
  <2> DEFINE D == {k \in Nat : e + k <= N => Len(h[e].tree) <= Len(h[e + k].tree)}
  <2>1. 0 \in D
    <3>1. e + 0 = e /\ e \in 0..N
      BY <1>1
    <3>2. Len(h[e].tree) <= Len(h[e].tree)
      BY <3>1, <1>2
    <3> QED BY <3>1, <3>2
  <2>2. ASSUME NEW k \in Nat, k \in D PROVE k + 1 \in D
    <3> SUFFICES ASSUME e + (k + 1) <= N PROVE Len(h[e].tree) <= Len(h[e + (k + 1)].tree)
      OBVIOUS
    <3>1. e + (k + 1) \in 1..N /\ (e + (k + 1)) - 1 = e + k /\ e + k <= N
          /\ e \in 0..N /\ e + k \in 0..N /\ e + (k + 1) \in 0..N
      BY <1>1
    <3>2. Len(h[e].tree) <= Len(h[e + k].tree)
      BY <3>1, <2>2
    <3>3. Len(h[e + k].tree) <= Len(h[e + (k + 1)].tree)
      BY <3>1, <1>1
    <3>4. /\ Len(h[e].tree) \in Nat /\ Len(h[e + k].tree) \in Nat
          /\ Len(h[e + (k + 1)].tree) \in Nat
      BY <3>1, <1>2
    <3> QED BY <3>2, <3>3, <3>4, SMTT(30)
  <2> HIDE DEF D
  <2>3. N - e \in D
    <3>1. N - e \in Nat
      BY <1>1
    <3> QED BY <3>1, <2>1, <2>2, SetInduction
  <2>4. e + (N - e) = N
    BY <1>1
  <2> QED BY <2>3, <2>4, <1>1 DEF D
<1>4. N \in 0..N /\ \A e \in 1..N : e \in 0..N
  BY <1>1
<1>5. \A e \in 1..N : h[e].group \in 0..Len(h[N].tree)
  BY <1>2, <1>3, <1>4
<1> QED BY <1>1, <1>2, <1>4, <1>5 DEF Ids

-----------------------------------------------------------------------------
(* What files keep of a safe: the fields of its entries.                    *)

LEMMA EntryIs ==
  ASSUME NEW t, NEW f \in EntriesIn(t)
  PROVE  /\ f.name \in Text /\ f.user \in Text /\ f.password \in Text /\ f.notes \in Text
         /\ f.group \in 0..Len(t) /\ f.modified \in Stamps /\ f.uuid \in Stamps
         /\ NotesIn(f.notes) \in Text /\ NotesIn(NotesIn(f.notes)) = NotesIn(f.notes)
         /\ LinesSeen(f.notes) \in Text
         /\ LinesSeen(NotesIn(LinesSeen(f.notes))) = LinesSeen(NotesIn(f.notes))
         /\ \A x \in {f.name, f.user, f.password} : Seen(x) \in Text /\ Seen(Seen(x)) = Seen(x)
<1>1. /\ f.name \in Text /\ f.user \in Text /\ f.password \in Text /\ f.notes \in Text
      /\ f.group \in 0..Len(t) /\ f.modified \in Stamps /\ f.uuid \in Stamps
  BY DEF EntriesIn
<1>2. {NL, Esc, "n"} \subseteq Letters
  BY LettersAssumption
<1>3. /\ NotesIn(f.notes) \in Seq(Letters) /\ NotesIn(NotesIn(f.notes)) = NotesIn(f.notes)
      /\ LinesSeen(f.notes) \in Seq(Letters)
      /\ LinesSeen(NotesIn(LinesSeen(f.notes))) = LinesSeen(NotesIn(f.notes))
  <2>1. f.notes \in Seq(Letters)
    BY <1>1 DEF Text
  <2> QED BY <1>2, <2>1, NotesSteps, NotesTwice, NotesSeen, SeenOfLines
<1>4. \A x \in Text : Seen(x) \in Text /\ Seen(Seen(x)) = Seen(x)
  BY SeenIs DEF Text
<1> QED BY <1>1, <1>3, <1>4 DEF Text

\* Version 1: the password and the notes, and the user if no letter is marked.
LEMMA Kept1 ==
  ASSUME NEW t, NEW f \in EntriesIn(t), NEW wu \in Text, NEW du \in Text,
         NEW now \in Stamps, NEW id \in Stamps
  PROVE  LET g == Through1(f, wu, du, now, id)
         IN  /\ g \in EntriesIn(<<>>)
             /\ g.password = f.password /\ g.notes = f.notes
             /\ Unmarked(f.name) /\ Unmarked(f.user) =>
                  /\ f.user # wu => g.name = f.name /\ g.user = f.user
                  /\ f.user = du => g.user = f.user
<1>1. f.name \in Text /\ f.user \in Text
  BY EntryIs
<1>2. PICK n \in Text, u \in Text :
        /\ n = NameAndUser(NameRecord(f, wu), du).name
        /\ u = NameAndUser(NameRecord(f, wu), du).user
  BY <1>1, NameRecordType, NameAndUserType
<1>3. PICK g : /\ g = Through1(f, wu, du, now, id)
               /\ g = [f EXCEPT !.name = n, !.user = u, !.group = 0, !.modified = now, !.uuid = id]
  BY <1>2 DEF Through1
<1>4. 0 \in 0..Len(<<>>)
  BY NoGroups
<1>5. ASSUME Unmarked(f.name), Unmarked(f.user)
      PROVE  (f.user # wu => n = f.name /\ u = f.user) /\ (f.user = du => u = f.user)
  BY <1>1, <1>2, <1>5, UserBack
<1>6. /\ g \in EntriesIn(<<>>) /\ g.password = f.password /\ g.notes = f.notes
      /\ g.name = n /\ g.user = u
  BY <1>2, <1>3, <1>4 DEF EntriesIn
<1> QED BY <1>3, <1>5, <1>6

\* XML: everything that is not white space.
LEMMA KeptXml ==
  ASSUME NEW t, NEW f \in EntriesIn(t)
  PROVE  LET g == ThroughXml(f)
         IN  /\ g \in EntriesIn(t)
             /\ g.name = Seen(f.name) /\ g.user = Seen(f.user) /\ g.password = Seen(f.password)
             /\ g.notes = LinesSeen(f.notes)
             /\ g.group = f.group /\ g.modified = f.modified /\ g.uuid = f.uuid
<1>1. PICK n \in Text, u \in Text, p \in Text, o \in Text :
        /\ n = Seen(f.name) /\ u = Seen(f.user) /\ p = Seen(f.password)
        /\ o = LinesSeen(f.notes)
  BY EntryIs
<1>2. ThroughXml(f) = [f EXCEPT !.name = n, !.user = u, !.password = p, !.notes = o]
  BY <1>1 DEF ThroughXml
<1> QED BY <1>1, <1>2 DEF EntriesIn

InGroup(f, g) == [f EXCEPT !.group = g]

\* Version 2: everything but the group.
LEMMA Kept2 ==
  ASSUME NEW d, SafeIs(d), NEW fmt
  PROVE  /\ SafeIs(WithGroups(fmt, d))
         /\ \A e \in Ids : \E g \in 0..Len(WithGroups(fmt, d).tree) :
              /\ WithGroups(fmt, d).entries[e] = InGroup(d.entries[e], g)
              /\ WithGroups(fmt, d).entries[e].group = g
<1>1. PICK t, p : t = Placed(fmt, d)[LastId].tree /\ p = Placed(fmt, d)
  OBVIOUS
<1>2. Tree(t) /\ \A e \in Ids : p[e].group \in 0..Len(t)
  BY <1>1, PlacedIs
<1>3. WithGroups(fmt, d).tree = t
  BY <1>1 DEF WithGroups
<1>4. ASSUME NEW e \in Ids
      PROVE  /\ WithGroups(fmt, d).entries[e] = InGroup(d.entries[e], p[e].group)
             /\ WithGroups(fmt, d).entries[e].group = p[e].group
             /\ WithGroups(fmt, d).entries[e] \in EntriesIn(t)
  <2>1. WithGroups(fmt, d).entries[e] = [d.entries[e] EXCEPT !.group = p[e].group]
    BY <1>1 DEF WithGroups
  <2>2. d.entries[e] \in EntriesIn(d.tree)
    BY DEF SafeIs
  <2>3. p[e].group \in 0..Len(t)
    BY <1>2
  <2> QED BY <2>1, <2>2, <2>3 DEF EntriesIn, InGroup
<1> QED BY <1>2, <1>3, <1>4 DEF SafeIs

LEMMA RawIs ==
  ASSUME NEW v \in Stamps, NEW own \in Stamps
  PROVE  RawBack(v, own) \in Stamps /\ (Clean(v) => RawBack(v, own) = v)
BY StampsAssumption DEF RawBack, Clean

LEMMA Through2Is ==
  ASSUME NEW t, NEW f \in EntriesIn(t), NEW u, NEW g \in 0..Len(u),
         NEW now \in Stamps, NEW id \in Stamps
  PROVE  LET c == Through2(InGroup(f, g), now, id)
         IN  /\ c \in EntriesIn(u) /\ c.group = g
             /\ \A x \in {"name", "user", "password", "notes"} : c[x] = f[x]
             /\ \A x \in {"uuid", "modified"} : Clean(f[x]) => c[x] = f[x]
<1>1. PICK m \in Stamps, i \in Stamps :
        /\ m = RawBack(f.modified, now) /\ i = RawBack(f.uuid, id)
        /\ Clean(f.modified) => m = f.modified
        /\ Clean(f.uuid) => i = f.uuid
  BY EntryIs, RawIs
<1>2. InGroup(f, g).modified = f.modified /\ InGroup(f, g).uuid = f.uuid
  BY DEF InGroup, EntriesIn
<1>3. Through2(InGroup(f, g), now, id) = [f EXCEPT !.group = g, !.uuid = i, !.modified = m]
  BY <1>1, <1>2 DEF Through2, InGroup, EntriesIn
<1> QED BY <1>1, <1>3 DEF EntriesIn

\* Text: everything but the group, the notes as they are read, and the time.
LEMMA KeptText ==
  ASSUME NEW d, SafeIs(d), NEW e \in Ids, NEW now, Readable(d, e)
  PROVE  ThroughText(d, e, now) = AfterText(d.entries[e], now)
<1>1. d.entries[e] \in EntriesIn(d.tree) /\ Tree(d.tree)
  BY DEF SafeIs
<1>2. PathIn("txt", d, e) \in Text
  BY <1>1, EntryIs, PathIs
<1> QED BY <1>1, <1>2, LineBack

LEMMA AfterTextIs ==
  ASSUME NEW t, NEW f \in EntriesIn(t), NEW u, NEW g \in 0..Len(u), NEW now \in Stamps
  PROVE  /\ InGroup(AfterText(f, now), g) \in EntriesIn(u)
         /\ \A x \in {"name", "user", "password", "uuid"} :
              InGroup(AfterText(f, now), g)[x] = f[x]
         /\ InGroup(AfterText(f, now), g).notes = NotesIn(f.notes)
<1>1. NotesIn(f.notes) \in Text
  BY EntryIs
<1>2. f \in [name : Text, user : Text, password : Text, notes : Text,
              group : 0..Len(t), modified : Stamps, uuid : Stamps]
  BY DEF EntriesIn
<1>3. PICK n \in Text : n = NotesIn(f.notes)
  BY <1>1
<1> QED BY <1>2, <1>3 DEF AfterText, EntriesIn, InGroup

-----------------------------------------------------------------------------
(* The behaviours: saves and loads in any order.                            *)

\* What loads may make of the entries of a safe, as far as secrets go.
ReadAs(d, c) ==
  \A e \in Ids :
    /\ c.entries[e].password \in {d.entries[e].password, Seen(d.entries[e].password)}
    /\ LinesSeen(NotesIn(c.entries[e].notes)) = LinesSeen(NotesIn(d.entries[e].notes))

FormatsInv ==
  /\ SafeIs(doc) /\ SafeIs(start)
  /\ default_user \in Text /\ file.user \in Text
  /\ rounds \in 0..MaxRounds
  /\ pc = "saved" => file.doc = doc /\ rounds \in 1..MaxRounds
  /\ ReadAs(start, doc)

\* FieldsKept, of a load of d, saved with the default user wu, that opens c.
KeptBy(fmt, wu, du, d, c) ==
  \A e \in Ids :
    LET f == c.entries[e]
        g == d.entries[e]
    IN  CASE fmt = "v2" ->
               /\ \A x \in {"name", "user", "password", "notes"} : f[x] = g[x]
               /\ \A x \in {"uuid", "modified"} : Clean(g[x]) => f[x] = g[x]
          [] fmt = "xml" ->
               /\ f.uuid = g.uuid /\ f.modified = g.modified
               /\ \A x \in {"name", "user", "password"} : Seen(g[x]) = g[x] => f[x] = g[x]
               /\ LinesSeen(g.notes) = g.notes => f.notes = g.notes
          [] fmt = "txt" ->
               /\ \A x \in {"name", "user", "password", "uuid"} : f[x] = g[x]
               /\ NotesIn(g.notes) = g.notes => f.notes = g.notes
          [] fmt = "v1" ->
               /\ f.password = g.password /\ f.notes = g.notes
               /\ Unmarked(g.name) /\ Unmarked(g.user) =>
                    /\ g.user # wu => f.name = g.name /\ f.user = g.user
                    /\ g.user = du => f.user = g.user

LEMMA ReadTwice ==
  ASSUME NEW b, NEW d, NEW c, SafeIs(b), ReadAs(b, d), ReadAs(d, c)
  PROVE  ReadAs(b, c)
<1> SUFFICES ASSUME NEW e \in Ids
             PROVE  /\ c.entries[e].password \in {b.entries[e].password, Seen(b.entries[e].password)}
                    /\ LinesSeen(NotesIn(c.entries[e].notes)) = LinesSeen(NotesIn(b.entries[e].notes))
  BY DEF ReadAs
<1>1. Seen(Seen(b.entries[e].password)) = Seen(b.entries[e].password)
  BY EntryIs DEF SafeIs
<1>2. /\ c.entries[e].password \in {d.entries[e].password, Seen(d.entries[e].password)}
      /\ d.entries[e].password \in {b.entries[e].password, Seen(b.entries[e].password)}
      /\ LinesSeen(NotesIn(c.entries[e].notes)) = LinesSeen(NotesIn(d.entries[e].notes))
      /\ LinesSeen(NotesIn(d.entries[e].notes)) = LinesSeen(NotesIn(b.entries[e].notes))
  BY DEF ReadAs
<1> QED BY <1>1, <1>2

\* The times and the UUIDs of a load.
LEMMA OwnStamps ==
  ASSUME FormatsInv, pc = "saved", NEW e \in Ids
  PROVE  NowAt[rounds][e] \in Stamps /\ FreshAt[rounds][e] \in Stamps
<1>1. rounds \in 1..MaxRounds
  BY DEF FormatsInv
<1> QED BY <1>1, StampsAssumption

LEMMA Loads1 ==
  ASSUME FormatsInv, Load1
  PROVE  SafeIs(doc') /\ ReadAs(doc, doc') /\ KeptBy(file.fmt, file.user, default_user, doc, doc')
<1>1. /\ SafeIs(doc) /\ file.fmt = "v1" /\ pc = "saved"
      /\ file.user \in Text /\ default_user \in Text
      /\ doc' = [tree |-> <<>>,
                 entries |-> [e \in Ids |-> Through1(doc.entries[e], file.user, default_user,
                                                     NowAt[rounds][e], FreshAt[rounds][e])]]
  BY DEF FormatsInv, Load1, Opened
<1>2. /\ doc'.tree = <<>>
      /\ \A e \in Ids : doc'.entries[e] = Through1(doc.entries[e], file.user, default_user,
                                                   NowAt[rounds][e], FreshAt[rounds][e])
  BY <1>1
<1>3. ASSUME NEW e \in Ids
      PROVE  /\ doc'.entries[e] \in EntriesIn(<<>>)
             /\ doc'.entries[e].password = doc.entries[e].password
             /\ doc'.entries[e].notes = doc.entries[e].notes
             /\ Unmarked(doc.entries[e].name) /\ Unmarked(doc.entries[e].user) =>
                  /\ doc.entries[e].user # file.user =>
                       /\ doc'.entries[e].name = doc.entries[e].name
                       /\ doc'.entries[e].user = doc.entries[e].user
                  /\ doc.entries[e].user = default_user => doc'.entries[e].user = doc.entries[e].user
  <2>1. PICK f \in EntriesIn(doc.tree), now \in Stamps, id \in Stamps :
          /\ f = doc.entries[e]
          /\ doc'.entries[e] = Through1(f, file.user, default_user, now, id)
    BY <1>1, <1>2, OwnStamps DEF SafeIs
  <2> QED BY <1>1, <2>1, Kept1
<1>4. SafeIs(doc')
  BY <1>2, <1>3, NoGroups DEF SafeIs
<1>5. ReadAs(doc, doc')
  BY <1>3 DEF ReadAs
<1>6. KeptBy(file.fmt, file.user, default_user, doc, doc')
  BY <1>1, <1>3 DEF KeptBy
<1> QED BY <1>4, <1>5, <1>6

LEMMA Opens2 ==
  ASSUME FormatsInv, Load2
  PROVE  LET d == WithGroups("v2", doc)
         IN  /\ doc'.tree = d.tree
             /\ \A e \in Ids : doc'.entries[e] = Through2(d.entries[e], NowAt[rounds][e],
                                                         FreshAt[rounds][e])
<1>1. PICK d : d = WithGroups("v2", doc)
  OBVIOUS
<1>2. doc' = [tree |-> d.tree,
              entries |-> [e \in Ids |-> Through2(d.entries[e], NowAt[rounds][e],
                                                  FreshAt[rounds][e])]]
  BY <1>1 DEF FormatsInv, Load2, Opened
<1> QED BY <1>1, <1>2

LEMMA Loads2 ==
  ASSUME FormatsInv, Load2
  PROVE  SafeIs(doc') /\ ReadAs(doc, doc') /\ KeptBy(file.fmt, file.user, default_user, doc, doc')
<1>1. SafeIs(doc) /\ file.fmt = "v2" /\ pc = "saved"
  BY DEF FormatsInv, Load2
<1>2. PICK d : /\ d = WithGroups("v2", doc) /\ doc'.tree = d.tree
               /\ \A e \in Ids : doc'.entries[e] = Through2(d.entries[e], NowAt[rounds][e],
                                                           FreshAt[rounds][e])
  BY Opens2
<1>3. SafeIs(d)
  BY <1>1, <1>2, Kept2
<1>4. ASSUME NEW e \in Ids
      PROVE  /\ doc'.entries[e] \in EntriesIn(d.tree)
             /\ \A x \in {"name", "user", "password", "notes"} :
                  doc'.entries[e][x] = doc.entries[e][x]
             /\ \A x \in {"uuid", "modified"} :
                  Clean(doc.entries[e][x]) => doc'.entries[e][x] = doc.entries[e][x]
  <2>1. PICK g \in 0..Len(d.tree) : d.entries[e] = InGroup(doc.entries[e], g)
    BY <1>1, <1>2, Kept2
  <2>2. PICK now \in Stamps, id \in Stamps :
          doc'.entries[e] = Through2(InGroup(doc.entries[e], g), now, id)
    BY <1>1, <1>2, <2>1, OwnStamps
  <2>3. PICK f \in EntriesIn(doc.tree) : f = doc.entries[e]
    BY <1>1 DEF SafeIs
  <2>4. PICK c : c = Through2(InGroup(f, g), now, id)
    OBVIOUS
  <2>5. /\ c \in EntriesIn(d.tree)
        /\ \A x \in {"name", "user", "password", "notes"} : c[x] = f[x]
        /\ \A x \in {"uuid", "modified"} : Clean(f[x]) => c[x] = f[x]
    BY <2>4, Through2Is
  <2>6. doc'.entries[e] = c
    BY <2>2, <2>3, <2>4
  <2> QED BY <2>3, <2>5, <2>6
<1>5. SafeIs(doc')
  BY <1>2, <1>3, <1>4 DEF SafeIs
<1>6. ReadAs(doc, doc')
  <2>1. \A e \in Ids : /\ doc'.entries[e].password = doc.entries[e].password
                       /\ doc'.entries[e].notes = doc.entries[e].notes
    BY <1>4
  <2> QED BY <2>1 DEF ReadAs
<1>7. KeptBy(file.fmt, file.user, default_user, doc, doc')
  BY <1>1, <1>4 DEF KeptBy
<1> QED BY <1>5, <1>6, <1>7

LEMMA OpensXml ==
  ASSUME FormatsInv, LoadXml
  PROVE  /\ SafeIs(doc) /\ file.fmt = "xml" /\ doc'.tree = doc.tree
         /\ \A e \in Ids : doc'.entries[e] = ThroughXml(doc.entries[e])
<1>1. /\ SafeIs(doc) /\ file.fmt = "xml"
      /\ doc' = [tree |-> doc.tree, entries |-> [e \in Ids |-> ThroughXml(doc.entries[e])]]
  BY DEF FormatsInv, LoadXml, Opened
<1> QED BY <1>1

LEMMA LoadsXml ==
  ASSUME FormatsInv, LoadXml
  PROVE  SafeIs(doc') /\ ReadAs(doc, doc') /\ KeptBy(file.fmt, file.user, default_user, doc, doc')
<1>1. /\ SafeIs(doc) /\ file.fmt = "xml" /\ doc'.tree = doc.tree
      /\ \A e \in Ids : doc'.entries[e] = ThroughXml(doc.entries[e])
  BY OpensXml
<1>2. ASSUME NEW e \in Ids
      PROVE  LET f == doc'.entries[e]
                 g == doc.entries[e]
             IN  /\ f \in EntriesIn(doc.tree)
                 /\ f.name = Seen(g.name) /\ f.user = Seen(g.user) /\ f.password = Seen(g.password)
                 /\ f.notes = LinesSeen(g.notes) /\ f.uuid = g.uuid /\ f.modified = g.modified
                 /\ LinesSeen(NotesIn(f.notes)) = LinesSeen(NotesIn(g.notes))
  <2>1. PICK g \in EntriesIn(doc.tree) : g = doc.entries[e] /\ doc'.entries[e] = ThroughXml(g)
    BY <1>1 DEF SafeIs
  <2> QED BY <2>1, KeptXml, EntryIs
<1>3. SafeIs(doc')
  BY <1>1, <1>2 DEF SafeIs
<1>4. ReadAs(doc, doc')
  BY <1>2 DEF ReadAs
<1>5. KeptBy(file.fmt, file.user, default_user, doc, doc')
  BY <1>1, <1>2 DEF KeptBy
<1> QED BY <1>3, <1>4, <1>5

LEMMA TextOpens ==
  ASSUME FormatsInv, LoadText, pc' = "open"
  PROVE  LET d == WithGroups("txt", doc)
         IN  /\ SafeIs(doc) /\ file.fmt = "txt" /\ file.doc = doc /\ pc = "saved"
             /\ \A e \in Ids : Readable(doc, e)
             /\ doc'.tree = d.tree
             /\ \A e \in Ids : doc'.entries[e] = InGroup(ThroughText(doc, e, NowAt[rounds][e]),
                                                        d.entries[e].group)
<1>1. SafeIs(doc) /\ file.fmt = "txt" /\ file.doc = doc /\ pc = "saved"
  BY DEF FormatsInv, LoadText
<1>2. PICK d : d = WithGroups("txt", doc)
  OBVIOUS
<1> DEFINE read == [e \in Ids |-> ThroughText(doc, e, NowAt[rounds][e])]
           c    == [tree |-> d.tree,
                    entries |-> [e \in Ids |-> [read[e] EXCEPT !.group = d.entries[e].group]]]
<1>3. (\A e \in Ids : Readable(doc, e)) /\ doc' = c
  BY <1>1, <1>2 DEF LoadText, Opened
<1>4. /\ c.tree = d.tree
      /\ \A e \in Ids : c.entries[e] = InGroup(ThroughText(doc, e, NowAt[rounds][e]),
                                               d.entries[e].group)
  BY DEF InGroup
<1> HIDE DEF c
<1> QED BY <1>1, <1>2, <1>3, <1>4

LEMMA LoadsText ==
  ASSUME FormatsInv, LoadText, pc' = "open"
  PROVE  SafeIs(doc') /\ ReadAs(doc, doc') /\ KeptBy(file.fmt, file.user, default_user, doc, doc')
<1>1. SafeIs(doc) /\ file.fmt = "txt" /\ file.doc = doc /\ pc = "saved"
  BY TextOpens
<1>2. PICK d : d = WithGroups("txt", doc)
  OBVIOUS
<1>3. /\ \A e \in Ids : Readable(doc, e)
      /\ doc'.tree = d.tree
      /\ \A e \in Ids : doc'.entries[e] = InGroup(ThroughText(doc, e, NowAt[rounds][e]),
                                                 d.entries[e].group)
  BY <1>2, TextOpens
<1>4. SafeIs(d)
  BY <1>1, <1>2, Kept2
<1>5. ASSUME NEW e \in Ids
      PROVE  /\ doc'.entries[e] \in EntriesIn(d.tree)
             /\ \A x \in {"name", "user", "password", "uuid"} :
                  doc'.entries[e][x] = doc.entries[e][x]
             /\ doc'.entries[e].notes = NotesIn(doc.entries[e].notes)
             /\ NotesIn(NotesIn(doc.entries[e].notes)) = NotesIn(doc.entries[e].notes)
  <2>1. PICK g \in 0..Len(d.tree) : g = d.entries[e].group
    BY <1>1, <1>2, Kept2
  <2>2. PICK now \in Stamps : now = NowAt[rounds][e]
    BY <1>1, OwnStamps
  <2>3. ThroughText(doc, e, now) = AfterText(doc.entries[e], now)
    BY <1>1, <1>3, KeptText
  <2>4. doc'.entries[e] = InGroup(AfterText(doc.entries[e], now), g)
    BY <1>3, <2>1, <2>2, <2>3
  <2>5. doc.entries[e] \in EntriesIn(doc.tree)
    BY <1>1 DEF SafeIs
  <2> QED BY <2>4, <2>5, AfterTextIs, EntryIs
<1>6. SafeIs(doc')
  BY <1>3, <1>4, <1>5 DEF SafeIs
<1>7. ReadAs(doc, doc')
  <2>1. \A e \in Ids : doc'.entries[e].password = doc.entries[e].password
    BY <1>5
  <2> QED BY <1>5, <2>1 DEF ReadAs
<1>8. KeptBy(file.fmt, file.user, default_user, doc, doc')
  BY <1>1, <1>5 DEF KeptBy
<1> QED BY <1>6, <1>7, <1>8

\* A load opens a safe that is read as it was saved, or refuses it.
LEMMA LoadsAre ==
  ASSUME FormatsInv, Load
  PROVE  /\ UNCHANGED <<default_user, file, start, rounds>> /\ pc = "saved" /\ file.doc = doc
         /\ \/ pc' = "refused" /\ doc' = doc
            \/ /\ pc' = "open" /\ SafeIs(doc') /\ ReadAs(doc, doc')
               /\ KeptBy(file.fmt, file.user, default_user, doc, doc')
<1>1. UNCHANGED <<default_user, file, start, rounds>> /\ pc = "saved" /\ file.doc = doc
  BY DEF Load, Load1, Load2, LoadText, LoadXml, FormatsInv
<1>2. CASE Load1
  BY <1>1, <1>2, Loads1 DEF Load1, Opened
<1>3. CASE Load2
  BY <1>1, <1>3, Loads2 DEF Load2, Opened
<1>4. CASE LoadXml
  BY <1>1, <1>4, LoadsXml DEF LoadXml, Opened
<1>5. CASE LoadText
  <2>1. pc' = "open" \/ (pc' = "refused" /\ doc' = doc)
    BY <1>5 DEF LoadText, Opened
  <2> QED BY <1>1, <1>5, <2>1, LoadsText
<1> QED BY <1>2, <1>3, <1>4, <1>5 DEF Load

LEMMA FormatsInitInv == FormatsInit => FormatsInv
<1> SUFFICES ASSUME FormatsInit PROVE FormatsInv
  OBVIOUS
<1>1. /\ doc \in Docs /\ start = doc /\ pc = "open" /\ rounds \in 0..MaxRounds
      /\ default_user \in Text /\ file.user \in Text
  <2>1. doc \in Docs /\ start = doc /\ pc = "open" /\ rounds = 0
    BY DEF FormatsInit
  <2>2. default_user \in Text /\ file.user = default_user
    BY UsersAssumption DEF FormatsInit
  <2> QED BY <2>1, <2>2, MaxRoundsAssumption
<1>2. SafeIs(doc)
  BY <1>1, DocsAssumption DEF SafeIs
<1> QED BY <1>1, <1>2 DEF FormatsInv, ReadAs

LEMMA FormatsStepInv == FormatsInv /\ [FormatsNext]_formatsVars => FormatsInv'
<1> SUFFICES ASSUME FormatsInv, [FormatsNext]_formatsVars PROVE FormatsInv'
  OBVIOUS
<1>1. ASSUME NEW fmt \in FormatNames, Save(fmt) PROVE FormatsInv'
  <2>1. /\ UNCHANGED <<doc, default_user, start>> /\ file'.doc = doc
        /\ file'.user = default_user
    BY <1>1 DEF Save
  <2>2. rounds' \in 1..MaxRounds
    BY <1>1, MaxRoundsAssumption DEF Save, FormatsInv
  <2> QED BY <2>1, <2>2, MaxRoundsAssumption DEF FormatsInv, ReadAs, SafeIs
<1>2. CASE Load
  <2>1. UNCHANGED <<default_user, file, start, rounds>>
    BY <1>2, LoadsAre
  <2>2. CASE pc' = "refused" /\ doc' = doc
    BY <2>1, <2>2 DEF FormatsInv, ReadAs, SafeIs
  <2>3. CASE pc' = "open" /\ SafeIs(doc') /\ ReadAs(doc, doc')
    <3>1. ReadAs(start, doc')
      BY <2>3, ReadTwice DEF FormatsInv
    <3> QED BY <2>1, <2>3, <3>1 DEF FormatsInv, ReadAs, SafeIs
  <2> QED BY <1>2, <2>2, <2>3, LoadsAre
<1>3. CASE SetDefaultUser
  BY <1>3, UsersAssumption DEF SetDefaultUser, FormatsInv, ReadAs, SafeIs
<1>4. CASE UNCHANGED formatsVars
  BY <1>4 DEF formatsVars, FormatsInv, ReadAs, SafeIs
<1> QED BY <1>1, <1>2, <1>3, <1>4 DEF FormatsNext

LEMMA FormatsAlways == FormatsSpec => []FormatsInv
BY FormatsInitInv, FormatsStepInv, PTL DEF FormatsSpec

\* SecretsSurvive, whatever the texts are and however many entries and saves there
\* are: passwords come through writeEntry and readEntry of every format, unless
\* they are white space and meet XML, and notes too, where PlainTextLizer turns
\* \n into a line break once and for all and XML drops lines of white space.
THEOREM SecretsComeThrough == FormatsSpec => []SecretsSurvive
<1>1. FormatsInv => SecretsSurvive
  BY DEF FormatsInv, SecretsSurvive, ReadAs
<1> QED BY <1>1, FormatsAlways, PTL

\* FieldsKept of one load, as the step of the specification says it.
FieldsOf ==
  \A e \in Ids :
    LET g == file.doc.entries[e]
    IN  CASE file.fmt = "v2" ->
               /\ Same(e, {"name", "user", "password", "notes"})
               /\ Same(e, {x \in {"uuid", "modified"} : Clean(g[x])})
          [] file.fmt = "xml" ->
               /\ Same(e, {"uuid", "modified"})
               /\ Same(e, {x \in {"name", "user", "password"} : Seen(g[x]) = g[x]})
               /\ LinesSeen(g.notes) = g.notes => Same(e, {"notes"})
          [] file.fmt = "txt" ->
               /\ Same(e, {"name", "user", "password", "uuid"})
               /\ NotesIn(g.notes) = g.notes => Same(e, {"notes"})
          [] file.fmt = "v1" ->
               /\ Same(e, {"password", "notes"})
               /\ Unmarked(g.name) /\ Unmarked(g.user) =>
                    /\ g.user # file.user => Same(e, {"name", "user"})
                    /\ g.user = default_user => Same(e, {"user"})

LEMMA LoadKeeps ==
  ASSUME FormatsInv, Load, pc' = "open"
  PROVE  FieldsOf
<1>1. file.doc = doc /\ KeptBy(file.fmt, file.user, default_user, doc, doc')
  BY LoadsAre
<1>2. file.fmt \in FormatNames
  BY DEF Load, Load1, Load2, LoadText, LoadXml, FormatNames
<1> SUFFICES ASSUME NEW e \in Ids
             PROVE  LET g == file.doc.entries[e]
                    IN  CASE file.fmt = "v2" ->
                               /\ Same(e, {"name", "user", "password", "notes"})
                               /\ Same(e, {x \in {"uuid", "modified"} : Clean(g[x])})
                          [] file.fmt = "xml" ->
                               /\ Same(e, {"uuid", "modified"})
                               /\ Same(e, {x \in {"name", "user", "password"} : Seen(g[x]) = g[x]})
                               /\ LinesSeen(g.notes) = g.notes => Same(e, {"notes"})
                          [] file.fmt = "txt" ->
                               /\ Same(e, {"name", "user", "password", "uuid"})
                               /\ NotesIn(g.notes) = g.notes => Same(e, {"notes"})
                          [] file.fmt = "v1" ->
                               /\ Same(e, {"password", "notes"})
                               /\ Unmarked(g.name) /\ Unmarked(g.user) =>
                                    /\ g.user # file.user => Same(e, {"name", "user"})
                                    /\ g.user = default_user => Same(e, {"user"})
  BY DEF FieldsOf
<1>3. CASE file.fmt = "v2"
  BY <1>1, <1>3 DEF KeptBy, Same
<1>4. CASE file.fmt = "xml"
  BY <1>1, <1>4 DEF KeptBy, Same
<1>5. CASE file.fmt = "txt"
  BY <1>1, <1>5 DEF KeptBy, Same
<1>6. CASE file.fmt = "v1"
  BY <1>1, <1>6 DEF KeptBy, Same
<1> QED BY <1>2, <1>3, <1>4, <1>5, <1>6 DEF FormatNames

\* FieldsKept, for all texts, times, UUIDs and default users: what a save and a
\* load keep of the fields, format by format (writeEntry and readEntry,
\* saveEntry and load, safeEntryToXml and safeEntryFromXml).
THEOREM FieldsComeThrough == FormatsSpec => FieldsKept
<1>1. FormatsInv /\ [FormatsNext]_formatsVars =>
        [pc = "saved" /\ pc' = "open" => FieldsOf]_formatsVars
  <2> SUFFICES ASSUME FormatsInv, FormatsNext, pc = "saved", pc' = "open" PROVE FieldsOf
    OBVIOUS
  <2>1. Load
    BY DEF FormatsNext, Save, SetDefaultUser
  <2> QED BY <2>1, LoadKeeps
<1>2. FormatsInv /\ [FormatsNext]_formatsVars =>
  [pc = "saved" /\ pc' = "open" => \A e \in Ids :
       LET g == file.doc.entries[e]
       IN  CASE file.fmt = "v2" ->
                  /\ Same(e, {"name", "user", "password", "notes"})
                  /\ Same(e, {x \in {"uuid", "modified"} : Clean(g[x])})
             [] file.fmt = "xml" ->
                  /\ Same(e, {"uuid", "modified"})
                  /\ Same(e, {x \in {"name", "user", "password"} : Seen(g[x]) = g[x]})
                  /\ LinesSeen(g.notes) = g.notes => Same(e, {"notes"})
             [] file.fmt = "txt" ->
                  /\ Same(e, {"name", "user", "password", "uuid"})
                  /\ NotesIn(g.notes) = g.notes => Same(e, {"notes"})
             [] file.fmt = "v1" ->
                  /\ Same(e, {"password", "notes"})
                  /\ Unmarked(g.name) /\ Unmarked(g.user) =>
                       /\ g.user # file.user => Same(e, {"name", "user"})
                       /\ g.user = default_user => Same(e, {"user"})]_formatsVars
  BY <1>1 DEF FieldsOf
<1> QED BY <1>2, FormatsAlways, PTL DEF FormatsSpec, FieldsKept

-----------------------------------------------------------------------------
(* Escapes: every part of a sound path is sound.                            *)

SectionsBy(path, h) == h = [k \in 0..Len(path) |-> IF k = 0 THEN path ELSE AfterSection(h[k - 1])]
AboveBy(name, h) ==
  h = [k \in 0..Len(name) |-> IF k = 0 THEN SearchPath(name) ELSE parentGroup(h[k - 1])]

LEMMA SectionsAre ==
  ASSUME NEW path \in Sound
  PROVE  Sections(path) \subseteq Sound
<1> DEFINE N == Len(path)
           step == [y \in (1..N) \X Sound |-> AfterSection(y[2])]
<1>1. N \in Nat /\ \A x \in Sound : Section(x) \in Sound /\ AfterSection(x) \in Sound
  BY EndOfSound, SectionIs
<1>2. step \in Steps(N, Sound)
  BY <1>1 DEF Steps
<1>3. PICK f : Iterates(f, N, Sound, path, step)
  <2> HIDE DEF N, step
  <2> QED BY <1>1, <1>2, Iteration
<1>4. f \in [0..N -> Sound] /\ f[0] = path /\ \A m \in 1..N : f[m] = AfterSection(f[m - 1])
  <2>1. f \in [0..N -> Sound] /\ f[0] = path /\ \A m \in 1..N : f[m] = step[<<m, f[m - 1]>>]
    BY <1>3 DEF Iterates
  <2>2. ASSUME NEW m \in 1..N PROVE f[m] = AfterSection(f[m - 1])
    <3>1. m - 1 \in 0..N
      BY <1>1
    <3> QED BY <3>1, <2>1
  <2> QED BY <2>1, <2>2
<1>5. SectionsBy(path, f)
  <2>1. f = [k \in 0..N |-> f[k]]
    BY <1>4
  <2>2. ASSUME NEW k \in 0..N PROVE f[k] = IF k = 0 THEN path ELSE AfterSection(f[k - 1])
    <3>1. k # 0 => k \in 1..N
      BY <1>1
    <3> QED BY <3>1, <1>4
  <2> QED BY <2>1, <2>2 DEF SectionsBy
<1>6. PICK h : /\ SectionsBy(path, h)
               /\ Sections(path) = {Section(h[k]) : k \in {i \in 0..N : h[i] # <<>>}}
  <2> DEFINE h == CHOOSE g : SectionsBy(path, g)
  <2>1. Sections(path) = {Section(h[k]) : k \in {i \in 0..N : h[i] # <<>>}}
    BY DEF Sections, SectionsBy
  <2>2. SectionsBy(path, h)
    BY <1>5
  <2> HIDE DEF h
  <2> QED BY <2>1, <2>2
<1>7. \A k \in 0..N : h[k] = IF k = 0 THEN path ELSE AfterSection(h[k - 1])
  BY <1>6 DEF SectionsBy
<1>8. h[0] \in Sound
  <2>1. 0 \in 0..N
    BY <1>1
  <2> QED BY <2>1, <1>7
<1>9. ASSUME NEW m \in 1..N PROVE \E p \in 0..m - 1 : h[p] \in Sound => h[m] \in Sound
  <2>1. m - 1 \in 0..m - 1 /\ m \in 0..N /\ m # 0
    BY <1>1
  <2>2. h[m - 1] \in Sound => h[m] \in Sound
    BY <2>1, <1>1, <1>7
  <2> QED BY <2>1, <2>2
<1>10. \A k \in 0..N : h[k] \in Sound
  <2> HIDE DEF N
  <2> QED BY <1>1, <1>8, <1>9, Downward
<1> QED BY <1>1, <1>6, <1>10

LEMMA UnescapedSound ==
  ASSUME NEW name \in Sound
  PROVE  Unescaped(name) \subseteq Sound
<1> DEFINE N == Len(name)
           step == [y \in (1..N) \X Sound |-> parentGroup(y[2])]
<1>1. /\ N \in Nat /\ SearchPath(name) \in Sound
      /\ \A x \in Sound : parentGroup(x) \in Sound /\ thisGroup(x) \in Sound /\ Sections(x) \subseteq Sound
  BY EndOfSound, SearchPathIs, ParentIs, ThisIs, SectionsAre
<1>2. step \in Steps(N, Sound)
  BY <1>1 DEF Steps
<1>3. PICK f : Iterates(f, N, Sound, SearchPath(name), step)
  <2> HIDE DEF N, step
  <2> QED BY <1>1, <1>2, Iteration
<1>4. /\ f \in [0..N -> Sound] /\ f[0] = SearchPath(name)
      /\ \A m \in 1..N : f[m] = parentGroup(f[m - 1])
  <2>1. /\ f \in [0..N -> Sound] /\ f[0] = SearchPath(name)
        /\ \A m \in 1..N : f[m] = step[<<m, f[m - 1]>>]
    BY <1>3 DEF Iterates
  <2>2. ASSUME NEW m \in 1..N PROVE f[m] = parentGroup(f[m - 1])
    <3>1. m - 1 \in 0..N
      BY <1>1
    <3> QED BY <3>1, <2>1
  <2> QED BY <2>1, <2>2
<1>5. AboveBy(name, f)
  <2>1. f = [k \in 0..N |-> f[k]]
    BY <1>4
  <2>2. ASSUME NEW k \in 0..N PROVE f[k] = IF k = 0 THEN SearchPath(name) ELSE parentGroup(f[k - 1])
    <3>1. k # 0 => k \in 1..N
      BY <1>1
    <3> QED BY <3>1, <1>4
  <2> QED BY <2>1, <2>2 DEF AboveBy
<1>6. PICK h : /\ AboveBy(name, h)
               /\ Unescaped(name) = UNION {Sections(h[k]) \cup {thisGroup(h[k])}
                                             : k \in {i \in 0..N : h[i] # <<>>}}
  <2> DEFINE h == CHOOSE g : AboveBy(name, g)
  <2>1. Unescaped(name) = UNION {Sections(h[k]) \cup {thisGroup(h[k])}
                                   : k \in {i \in 0..N : h[i] # <<>>}}
    BY DEF Unescaped, AboveBy
  <2>2. AboveBy(name, h)
    BY <1>5
  <2> HIDE DEF h
  <2> QED BY <2>1, <2>2
<1>7. \A k \in 0..N : h[k] = IF k = 0 THEN SearchPath(name) ELSE parentGroup(h[k - 1])
  BY <1>6 DEF AboveBy
<1>8. h[0] \in Sound
  <2>1. 0 \in 0..N
    BY <1>1
  <2> QED BY <2>1, <1>1, <1>7
<1>9. ASSUME NEW m \in 1..N PROVE \E p \in 0..m - 1 : h[p] \in Sound => h[m] \in Sound
  <2>1. m - 1 \in 0..m - 1 /\ m \in 0..N /\ m # 0
    BY <1>1
  <2>2. h[m - 1] \in Sound => h[m] \in Sound
    BY <2>1, <1>1, <1>7
  <2> QED BY <2>1, <2>2
<1>10. \A k \in 0..N : h[k] \in Sound
  <2> HIDE DEF N
  <2> QED BY <1>1, <1>8, <1>9, Downward
<1> QED BY <1>1, <1>6, <1>10

\* NeverThrows, whatever the groups are called and however deep they are: what
\* groupName or readyGroup and parseGroup leave in a file, cut up by section,
\* thisGroup and parentGroup as findOrCreateGroup does, never holds an escape
\* character that does not escape anything.
THEOREM LoadsNeverThrow == FormatsSpec => []NeverThrows
<1>1. FormatsInv => NeverThrows
  <2> SUFFICES ASSUME FormatsInv, pc = "saved", NEW e \in Ids,
                      NEW s \in Unescaped(PathIn(file.fmt, file.doc, e))
               PROVE  ~unescapeThrows(s)
    BY DEF NeverThrows
  <2>1. SafeIs(file.doc)
    BY DEF FormatsInv
  <2>2. Tree(file.doc.tree) /\ file.doc.entries[e].group \in 0..Len(file.doc.tree)
    BY <2>1, EntryIs DEF SafeIs
  <2>3. PathIn(file.fmt, file.doc, e) \in Sound
    BY <2>2, PathIs
  <2>4. s \in Sound
    BY <2>3, UnescapedSound
  <2> QED BY <2>4 DEF Sound
<1> QED BY <1>1, FormatsAlways, PTL
-----------------------------------------------------------------------------
(* What a scan makes of two texts together.                                 *)

\* Texts at whose end no escape is open.
Shut == {g \in Text : ~Opens(g)[Len(g)]}

\* Scan with functions for what stands for a character.
Piece(g, esc, plain, k) ==
  IF Opens(g)[k - 1] THEN esc[g[k]] ELSE IF g[k] = Esc THEN <<>> ELSE plain[g[k]]
Pieces(g, esc, plain)  == [k \in DOMAIN g |-> Piece(g, esc, plain, k)]
Scanned(g, esc, plain) == FlattenSeq(Pieces(g, esc, plain))

Readings == [Letters -> Seq(Letters)]

LEMMA PiecesAre ==
  ASSUME NEW g \in Text, NEW esc \in Readings, NEW plain \in Readings
  PROVE  /\ Pieces(g, esc, plain) \in Seq(Seq(Letters))
         /\ Len(Pieces(g, esc, plain)) = Len(g)
         /\ \A k \in 1..Len(g) : Pieces(g, esc, plain)[k] = Piece(g, esc, plain, k)
         /\ Scanned(g, esc, plain) \in Text
<1>1. DOMAIN g = 1..Len(g) /\ Len(g) \in Nat /\ \A k \in 1..Len(g) : g[k] \in Letters
  BY TextLen
<1>2. \A x \in Letters : esc[x] \in Seq(Letters) /\ plain[x] \in Seq(Letters)
  BY DEF Readings
<1>3. \A k \in 1..Len(g) : Piece(g, esc, plain, k) \in Seq(Letters)
  BY <1>1, <1>2, EmptySeq DEF Piece
<1>4. Pieces(g, esc, plain) \in [1..Len(g) -> Seq(Letters)]
  BY <1>1, <1>3 DEF Pieces
<1>5. Pieces(g, esc, plain) \in Seq(Seq(Letters))
  BY <1>1, <1>4, SeqDef
<1>6. Len(Pieces(g, esc, plain)) = Len(g)
  <2>1. DOMAIN Pieces(g, esc, plain) = 1..Len(g)
    BY <1>1 DEF Pieces
  <2> QED BY <1>1, <1>5, <2>1, LenProperties
<1>7. \A k \in 1..Len(g) : Pieces(g, esc, plain)[k] = Piece(g, esc, plain, k)
  BY <1>1 DEF Pieces
<1>8. Scanned(g, esc, plain) \in Text
  BY <1>5, FlattenStep DEF Scanned, Text
<1> QED BY <1>5, <1>6, <1>7, <1>8

\* Flattening goes through concatenation.
LEMMA FlattenConcat ==
  ASSUME NEW S, NEW p \in Seq(Seq(S)), NEW q \in Seq(Seq(S))
  PROVE  FlattenSeq(p \o q) = FlattenSeq(p) \o FlattenSeq(q)
<1> DEFINE D == {r \in Seq(Seq(S)) : FlattenSeq(p \o r) = FlattenSeq(p) \o FlattenSeq(r)}
<1>1. <<>> \in D
  <2>1. FlattenSeq(p) \in Seq(S) /\ FlattenSeq(<<>>) = <<>> /\ <<>> \in Seq(Seq(S))
    BY FlattenStep, EmptySeq
  <2> QED BY <2>1, ConcatEmptySeq
<1>2. ASSUME NEW r \in Seq(Seq(S)), NEW x \in Seq(S), r \in D PROVE Append(r, x) \in D
  <2>1. p \o Append(r, x) = Append(p \o r, x) /\ p \o r \in Seq(Seq(S))
    BY ConcatAppend, ConcatProperties
  <2>2. /\ FlattenSeq(Append(p \o r, x)) = FlattenSeq(p \o r) \o x
        /\ FlattenSeq(Append(r, x)) = FlattenSeq(r) \o x
        /\ FlattenSeq(p) \in Seq(S) /\ FlattenSeq(r) \in Seq(S)
    BY <2>1, FlattenStep
  <2>3. (FlattenSeq(p) \o FlattenSeq(r)) \o x = FlattenSeq(p) \o (FlattenSeq(r) \o x)
    <3>1. PICK a \in Seq(S), b \in Seq(S) : a = FlattenSeq(p) /\ b = FlattenSeq(r)
      BY <2>2
    <3>2. (a \o b) \o x = a \o (b \o x)
      BY ConcatAssociative, SMTT(30)
    <3> QED BY <3>1, <3>2
  <2>4. FlattenSeq(p \o r) = FlattenSeq(p) \o FlattenSeq(r)
    BY <1>2
  <2>5. Append(r, x) \in Seq(Seq(S))
    BY AppendProperties
  <2> QED BY <2>1, <2>2, <2>3, <2>4, <2>5
<1> HIDE DEF D
<1>3. Seq(Seq(S)) \subseteq D
  BY <1>1, <1>2, SeqSetInduction
<1> QED BY <1>3 DEF D

\* Where escapes are open in two texts together, the first of them closed.
LEMMA ConcatOpens ==
  ASSUME NEW u \in Shut, NEW v \in Text
  PROVE  /\ u \in Text /\ u \o v \in Text /\ Len(u \o v) = Len(u) + Len(v)
         /\ \A k \in 1..Len(u) : (u \o v)[k] = u[k] /\ (Opens(u \o v)[k - 1] <=> Opens(u)[k - 1])
         /\ \A k \in 1..Len(v) : /\ (u \o v)[Len(u) + k] = v[k]
                                 /\ Opens(u \o v)[(Len(u) + k) - 1] <=> Opens(v)[k - 1]
         /\ v \in Shut => u \o v \in Shut
<1>1. u \in Text
  BY DEF Shut
<1>2. PICK m \in Nat, n \in Nat : m = Len(u) /\ n = Len(v)
  BY <1>1, TextLen
<1>3. PICK w \in Text : /\ w = u \o v /\ Len(w) = m + n
                        /\ \A i \in 1..m : w[i] = u[i]
                        /\ \A i \in 1..n : w[m + i] = v[i]
  <2>1. u \in Seq(Letters) /\ v \in Seq(Letters)
    BY <1>1 DEF Text
  <2>2. /\ u \o v \in Seq(Letters) /\ Len(u \o v) = Len(u) + Len(v)
        /\ \A i \in 1..Len(u) + Len(v) : (u \o v)[i] = IF i <= Len(u) THEN u[i] ELSE v[i - Len(u)]
    BY <2>1, ConcatProperties
  <2>3. \A i \in 1..m : (u \o v)[i] = u[i]
    BY <2>2, <1>2
  <2>4. ASSUME NEW i \in 1..n PROVE (u \o v)[m + i] = v[i]
    <3>1. m + i \in 1..m + n /\ ~(m + i <= m) /\ (m + i) - m = i
      OBVIOUS
    <3> QED BY <3>1, <2>2, <1>2
  <2> QED BY <2>2, <2>3, <2>4, <1>2 DEF Text
<1>4. ~Opens(u)[m] /\ ~Opens(w)[0]
  BY <1>2, OpensSteps DEF Text, Shut
<1>5. \A k \in 0..m : Opens(w)[k] <=> Opens(u)[k]
  <2>1. /\ w \in Seq(Letters) /\ u \in Seq(Letters) /\ 0 \in Nat /\ 0 + m <= Len(w) /\ m <= Len(u)
        /\ \A k \in 1..m : w[0 + k] = u[k]
    BY <1>1, <1>2, <1>3 DEF Text
  <2>2. \A k \in 0..m : Opens(w)[0 + k] <=> Opens(u)[k]
    BY <2>1, <1>4, OpensAgree
  <2>3. \A k \in 0..m : 0 + k = k
    OBVIOUS
  <2> QED BY <2>2, <2>3
<1>6. \A k \in 0..n : Opens(w)[m + k] <=> Opens(v)[k]
  <2>1. /\ w \in Seq(Letters) /\ v \in Seq(Letters) /\ m + n <= Len(w) /\ n <= Len(v)
        /\ \A k \in 1..n : w[m + k] = v[k]
    BY <1>1, <1>2, <1>3 DEF Text
  <2>2. ~Opens(w)[m]
    <3>1. m \in 0..m
      OBVIOUS
    <3> QED BY <3>1, <1>4, <1>5
  <2> QED BY <2>1, <2>2, OpensAgree
<1>7. ASSUME NEW k \in 1..m PROVE Opens(w)[k - 1] <=> Opens(u)[k - 1]
  <2>1. k - 1 \in 0..m
    OBVIOUS
  <2> QED BY <2>1, <1>5
<1>8. ASSUME NEW k \in 1..n PROVE Opens(w)[(m + k) - 1] <=> Opens(v)[k - 1]
  <2>1. k - 1 \in 0..n /\ (m + k) - 1 = m + (k - 1)
    OBVIOUS
  <2> QED BY <2>1, <1>6
<1>9. v \in Shut => w \in Shut
  <2>1. n \in 0..n
    OBVIOUS
  <2> QED BY <2>1, <1>2, <1>3, <1>6 DEF Shut
<1> QED BY <1>1, <1>2, <1>3, <1>7, <1>8, <1>9

LEMMA ScanConcat ==
  ASSUME NEW u \in Shut, NEW v \in Text, NEW esc \in Readings, NEW plain \in Readings
  PROVE  Scanned(u \o v, esc, plain) = Scanned(u, esc, plain) \o Scanned(v, esc, plain)
<1>1. PICK w \in Text : w = u \o v
  BY ConcatOpens
<1>2. /\ u \in Text /\ Len(w) = Len(u) + Len(v)
      /\ \A k \in 1..Len(u) : w[k] = u[k] /\ (Opens(w)[k - 1] <=> Opens(u)[k - 1])
      /\ \A k \in 1..Len(v) : /\ w[Len(u) + k] = v[k]
                              /\ Opens(w)[(Len(u) + k) - 1] <=> Opens(v)[k - 1]
  BY <1>1, ConcatOpens
<1>3. PICK p \in Seq(Seq(Letters)), q \in Seq(Seq(Letters)), r \in Seq(Seq(Letters)) :
        /\ p = Pieces(u, esc, plain) /\ q = Pieces(v, esc, plain) /\ r = Pieces(w, esc, plain)
  BY <1>2, PiecesAre
<1>4. PICK m \in Nat, n \in Nat : m = Len(u) /\ n = Len(v)
  BY <1>2, TextLen
<1>5. /\ Len(p) = m /\ Len(q) = n /\ Len(r) = m + n
      /\ \A k \in 1..m : p[k] = Piece(u, esc, plain, k)
      /\ \A k \in 1..n : q[k] = Piece(v, esc, plain, k)
      /\ \A k \in 1..m + n : r[k] = Piece(w, esc, plain, k)
  <2>1. Len(p) = Len(u) /\ \A k \in 1..Len(u) : p[k] = Piece(u, esc, plain, k)
    <3>1. u \in Text
      BY <1>2
    <3> QED BY <3>1, <1>3, PiecesAre
  <2>2. Len(q) = Len(v) /\ \A k \in 1..Len(v) : q[k] = Piece(v, esc, plain, k)
    BY <1>3, PiecesAre
  <2>3. Len(r) = Len(w) /\ \A k \in 1..Len(w) : r[k] = Piece(w, esc, plain, k)
    BY <1>3, PiecesAre
  <2> QED BY <2>1, <2>2, <2>3, <1>2, <1>4
<1>6. PICK z \in Seq(Seq(Letters)) :
        /\ z = p \o q /\ Len(z) = m + n
        /\ \A i \in 1..m + n : z[i] = IF i <= m THEN p[i] ELSE q[i - m]
  <2>1. /\ p \o q \in Seq(Seq(Letters)) /\ Len(p \o q) = Len(p) + Len(q)
        /\ \A i \in 1..Len(p) + Len(q) : (p \o q)[i] = IF i <= Len(p) THEN p[i] ELSE q[i - Len(p)]
    BY ConcatProperties
  <2> QED BY <2>1, <1>5
<1>7. ASSUME NEW i \in 1..m + n PROVE r[i] = z[i]
  <2>1. CASE i <= m
    <3>1. i \in 1..m
      BY <2>1
    <3>2. Piece(w, esc, plain, i) = Piece(u, esc, plain, i)
      BY <3>1, <1>2, <1>4 DEF Piece
    <3> QED BY <3>1, <3>2, <2>1, <1>5, <1>6
  <2>2. CASE ~(i <= m)
    <3>1. PICK k \in 1..n : i = m + k /\ i - m = k
      <4>1. i - m \in 1..n /\ i = m + (i - m)
        BY <2>2
      <4> QED BY <4>1
    <3>2. Piece(w, esc, plain, m + k) = Piece(v, esc, plain, k)
      BY <1>2, <1>4 DEF Piece
    <3> QED BY <3>1, <3>2, <2>2, <1>5, <1>6
  <2> QED BY <2>1, <2>2
<1>8. r = z
  BY <1>5, <1>6, <1>7, SeqEqual
<1> QED BY <1>1, <1>3, <1>6, <1>8, FlattenConcat DEF Scanned

\* What unescapeGroup, readyGroup and parseGroup scan with.
Single     == [c \in Letters |-> <<c>>]
ReadyEsc   == [c \in Letters |-> IF c = Sep THEN <<Sep>> ELSE <<Esc, Esc>>]
ReadyPlain == [c \in Letters |-> IF c = Sep THEN <<Dot>> ELSE IF c = Dot THEN <<Esc, Dot>> ELSE <<c>>]
ParseEsc   == [c \in Letters |-> IF c = Dot THEN <<Dot>> ELSE IF c = Esc THEN <<Esc, Esc>> ELSE <<>>]
ParsePlain == [c \in Letters |-> IF c = Dot THEN <<Sep>> ELSE IF c = Sep THEN <<Esc, Sep>> ELSE <<c>>]

Readied(g) == Scanned(g, ReadyEsc, ReadyPlain)
Parsed(g)  == Scanned(g, ParseEsc, ParsePlain)
Bare(g)    == Scanned(g, Single, Single)

LEMMA CodesIn ==
  /\ {Single, ReadyEsc, ReadyPlain, ParseEsc, ParsePlain} \subseteq Readings
  /\ \A c \in Letters : <<c>> \in Text
  /\ \A c, d \in Letters : <<c, d>> \in Text
  /\ {Sep, Esc, Dot} \subseteq Letters
<1>1. /\ \A c \in Letters : <<c>> \in Seq(Letters)
      /\ \A c, d \in Letters : <<c, d>> \in Seq(Letters)
  OBVIOUS
<1>2. {Sep, Esc, Dot} \subseteq Letters
  BY LettersAssumption
<1>3. /\ {<<Sep>>, <<Dot>>, <<Esc, Esc>>, <<Esc, Sep>>, <<Esc, Dot>>, <<>>} \subseteq Seq(Letters)
  BY <1>1, <1>2, EmptySeq
<1>4. Single \in Readings /\ ReadyEsc \in Readings /\ ReadyPlain \in Readings
  BY <1>1, <1>3 DEF Readings, Single, ReadyEsc, ReadyPlain
<1>5. ParseEsc \in Readings /\ ParsePlain \in Readings
  BY <1>1, <1>3 DEF Readings, ParseEsc, ParsePlain
<1> QED BY <1>1, <1>2, <1>4, <1>5 DEF Text

LEMMA ScansAre ==
  ASSUME NEW g \in Text
  PROVE  /\ unescapeGroup(g) = Bare(g)
         /\ readyGroup(g) = Readied(DropLeading(g))
         /\ parseGroup(g) = Parsed(g)
<1>1. DOMAIN g = 1..Len(g) /\ \A k \in DOMAIN g : g[k] \in Letters
  BY TextLen
<1>2. PICK h \in Text : h = DropLeading(g)
  BY DropLeadingIs
<1>3. DOMAIN h = 1..Len(h) /\ \A k \in DOMAIN h : h[k] \in Letters
  BY TextLen
<1>4. unescapeGroup(g) = Bare(g)
  <2>1. ASSUME NEW k \in DOMAIN g
        PROVE  Piece(g, Single, Single, k)
                 = IF Opens(g)[k - 1] THEN <<g[k]>> ELSE IF g[k] = Esc THEN <<>> ELSE <<g[k]>>
    BY <1>1 DEF Piece, Single
  <2>2. Pieces(g, Single, Single)
          = [k \in DOMAIN g |-> IF Opens(g)[k - 1] THEN <<g[k]>>
                                ELSE IF g[k] = Esc THEN <<>> ELSE <<g[k]>>]
    BY <2>1 DEF Pieces
  <2> QED BY <2>2 DEF Bare, Scanned, unescapeGroup, Scan
<1>5. readyGroup(g) = Readied(h)
  <2>1. ASSUME NEW k \in DOMAIN h
        PROVE  Piece(h, ReadyEsc, ReadyPlain, k)
                 = IF Opens(h)[k - 1] THEN IF h[k] = Sep THEN <<Sep>> ELSE <<Esc, Esc>>
                   ELSE IF h[k] = Esc THEN <<>>
                   ELSE IF h[k] = Sep THEN <<Dot>> ELSE IF h[k] = Dot THEN <<Esc, Dot>> ELSE <<h[k]>>
    BY <1>3 DEF Piece, ReadyEsc, ReadyPlain
  <2>2. Pieces(h, ReadyEsc, ReadyPlain)
          = [k \in DOMAIN h |->
               IF Opens(h)[k - 1] THEN IF h[k] = Sep THEN <<Sep>> ELSE <<Esc, Esc>>
               ELSE IF h[k] = Esc THEN <<>>
               ELSE IF h[k] = Sep THEN <<Dot>> ELSE IF h[k] = Dot THEN <<Esc, Dot>> ELSE <<h[k]>>]
    BY <2>1 DEF Pieces
  <2> QED BY <1>2, <2>2 DEF Readied, Scanned, readyGroup, Scan
<1>6. parseGroup(g) = Parsed(g)
  <2>1. ASSUME NEW k \in DOMAIN g
        PROVE  Piece(g, ParseEsc, ParsePlain, k)
                 = IF Opens(g)[k - 1]
                     THEN IF g[k] = Dot THEN <<Dot>> ELSE IF g[k] = Esc THEN <<Esc, Esc>> ELSE <<>>
                   ELSE IF g[k] = Esc THEN <<>>
                   ELSE IF g[k] = Dot THEN <<Sep>> ELSE IF g[k] = Sep THEN <<Esc, Sep>> ELSE <<g[k]>>
    BY <1>1 DEF Piece, ParseEsc, ParsePlain
  <2>2. Pieces(g, ParseEsc, ParsePlain)
          = [k \in DOMAIN g |->
               IF Opens(g)[k - 1]
                 THEN IF g[k] = Dot THEN <<Dot>> ELSE IF g[k] = Esc THEN <<Esc, Esc>> ELSE <<>>
               ELSE IF g[k] = Esc THEN <<>>
               ELSE IF g[k] = Dot THEN <<Sep>> ELSE IF g[k] = Sep THEN <<Esc, Sep>> ELSE <<g[k]>>]
    BY <2>1 DEF Pieces
  <2> QED BY <2>2 DEF Parsed, Scanned, parseGroup, Scan
<1> QED BY <1>2, <1>4, <1>5, <1>6

LEMMA PairIs ==
  ASSUME NEW S, NEW x \in S, NEW y \in S
  PROVE  /\ <<x, y>> \in Seq(S) /\ Len(<<x, y>>) = 2 /\ <<x, y>>[1] = x /\ <<x, y>>[2] = y
         /\ Append(<<x>>, y) = <<x, y>>
<1>1. <<x, y>> \in Seq(S) /\ Len(<<x, y>>) = 2 /\ <<x, y>>[1] = x /\ <<x, y>>[2] = y
  OBVIOUS
<1>2. <<x>> \in Seq(S) /\ Len(<<x>>) = 1 /\ <<x>>[1] = x
  OBVIOUS
<1>3. PICK t \in Seq(S) : t = Append(<<x>>, y) /\ Len(t) = 2 /\ t[1] = x /\ t[2] = y
  <2>1. PICK s \in Seq(S) : s = <<x>> /\ Len(s) = 1 /\ s[1] = x
    BY <1>2
  <2>2. /\ Append(s, y) \in Seq(S) /\ Len(Append(s, y)) = 1 + 1
        /\ Append(s, y)[1] = x /\ Append(s, y)[1 + 1] = y
    BY <2>1, AppendProperties
  <2>3. 1 + 1 = 2
    OBVIOUS
  <2>4. Len(Append(s, y)) = 2 /\ Append(s, y)[2] = y
    BY <2>2, <2>3
  <2>5. PICK t : t = Append(s, y)
    OBVIOUS
  <2>6. t \in Seq(S) /\ Len(t) = 2 /\ t[1] = x /\ t[2] = y
    BY <2>2, <2>4, <2>5
  <2> QED BY <2>1, <2>5, <2>6
<1>4. PICK u \in Seq(S) : u = <<x, y>> /\ Len(u) = 2 /\ u[1] = x /\ u[2] = y
  BY <1>1
<1>5. \A i \in 1..2 : i = 1 \/ i = 2
  OBVIOUS
<1>6. t = u
  BY <1>3, <1>4, <1>5, SeqEqual
<1> QED BY <1>1, <1>3, <1>4, <1>6

LEMMA FlattenFew ==
  ASSUME NEW S, NEW x \in Seq(S), NEW y \in Seq(S)
  PROVE  FlattenSeq(<<x>>) = x /\ FlattenSeq(<<x, y>>) = x \o y
<1>1. <<>> \in Seq(Seq(S)) /\ FlattenSeq(<<>>) = <<>>
  BY EmptySeq, FlattenStep
<1>2. Append(<<>>, x) = <<x>> /\ <<x>> \in Seq(Seq(S))
  OBVIOUS
<1>3. Append(<<x>>, y) = <<x, y>>
  BY PairIs
<1>4. FlattenSeq(<<x>>) = x
  <2>1. FlattenSeq(Append(<<>>, x)) = <<>> \o x
    BY <1>1, FlattenStep
  <2> QED BY <2>1, <1>2, ConcatEmptySeq
<1> QED BY <1>2, <1>3, <1>4, FlattenStep

\* A scan of one character that is no escape, and of an escape and the next.
LEMMA ScanAtoms ==
  ASSUME NEW esc \in Readings, NEW plain \in Readings, NEW c \in Letters
  PROVE  /\ c # Esc => <<c>> \in Shut /\ Scanned(<<c>>, esc, plain) = plain[c]
         /\ <<Esc, c>> \in Shut /\ Scanned(<<Esc, c>>, esc, plain) = esc[c]
<1>0. esc[c] \in Seq(Letters) /\ plain[c] \in Seq(Letters) /\ <<>> \in Seq(Letters)
  BY EmptySeq DEF Readings
<1>1. ASSUME c # Esc PROVE <<c>> \in Shut /\ Scanned(<<c>>, esc, plain) = plain[c]
  <2>1. PICK g \in Text : g = <<c>> /\ Len(g) = 1 /\ g[1] = c
    BY CodesIn
  <2>2. /\ ~Opens(g)[0]
        /\ \A k \in 1..Len(g) : Opens(g)[k] <=> ~Opens(g)[k - 1] /\ g[k] = Esc
    BY OpensSteps DEF Text
  <2>3. ~Opens(g)[1]
    BY <2>1, <2>2, <1>1
  <2>4. PICK p \in Seq(Seq(Letters)) :
          p = Pieces(g, esc, plain) /\ Len(p) = 1 /\ p[1] = Piece(g, esc, plain, 1)
    BY <2>1, PiecesAre
  <2>5. Piece(g, esc, plain, 1) = plain[c]
    BY <2>1, <2>2, <1>1 DEF Piece
  <2>6. <<plain[c]>> \in Seq(Seq(Letters)) /\ Len(<<plain[c]>>) = 1 /\ <<plain[c]>>[1] = plain[c]
    BY <1>0
  <2>7. p = <<plain[c]>>
    BY <2>4, <2>5, <2>6, SeqEqual
  <2>8. FlattenSeq(<<plain[c]>>) = plain[c]
    BY <1>0, FlattenFew
  <2> QED BY <2>1, <2>3, <2>4, <2>7, <2>8 DEF Shut, Scanned
<1>2. <<Esc, c>> \in Shut /\ Scanned(<<Esc, c>>, esc, plain) = esc[c]
  <2>1. PICK g \in Text : g = <<Esc, c>> /\ Len(g) = 2 /\ g[1] = Esc /\ g[2] = c
    BY CodesIn
  <2>2. /\ ~Opens(g)[0]
        /\ \A k \in 1..Len(g) : Opens(g)[k] <=> ~Opens(g)[k - 1] /\ g[k] = Esc
    BY OpensSteps DEF Text
  <2>3. Opens(g)[1] /\ ~Opens(g)[2]
    <3>1. 1 \in 1..Len(g) /\ 2 \in 1..Len(g) /\ 1 - 1 = 0 /\ 2 - 1 = 1
      BY <2>1
    <3>2. Opens(g)[1]
      BY <3>1, <2>1, <2>2
    <3> QED BY <3>1, <3>2, <2>2
  <2>4. PICK p \in Seq(Seq(Letters)) :
          /\ p = Pieces(g, esc, plain) /\ Len(p) = 2
          /\ p[1] = Piece(g, esc, plain, 1) /\ p[2] = Piece(g, esc, plain, 2)
    <3>1. PICK p \in Seq(Seq(Letters)) :
            /\ p = Pieces(g, esc, plain) /\ Len(p) = Len(g)
            /\ \A k \in 1..Len(g) : p[k] = Piece(g, esc, plain, k)
      BY PiecesAre
    <3>2. 1 \in 1..Len(g) /\ 2 \in 1..Len(g)
      BY <2>1
    <3> QED BY <2>1, <3>1, <3>2
  <2>5. Piece(g, esc, plain, 1) = <<>> /\ Piece(g, esc, plain, 2) = esc[c]
    <3>1. 1 - 1 = 0 /\ 2 - 1 = 1
      OBVIOUS
    <3> QED BY <3>1, <2>1, <2>2, <2>3 DEF Piece
  <2>6. PICK z \in Seq(Seq(Letters)) : /\ z = <<<<>>, esc[c]>> /\ Len(z) = 2
                                       /\ z[1] = <<>> /\ z[2] = esc[c]
    <3>1. PICK x \in Seq(Letters), y \in Seq(Letters) : x = <<>> /\ y = esc[c]
      BY <1>0
    <3>2. /\ <<x, y>> \in Seq(Seq(Letters)) /\ Len(<<x, y>>) = 2
          /\ <<x, y>>[1] = x /\ <<x, y>>[2] = y
      BY PairIs
    <3> QED BY <3>1, <3>2
  <2>7. p = z
    <3>1. \A i \in 1..2 : i = 1 \/ i = 2
      OBVIOUS
    <3> QED BY <3>1, <2>4, <2>5, <2>6, SeqEqual
  <2>8. FlattenSeq(<<<<>>, esc[c]>>) = esc[c]
    <3>1. PICK x \in Seq(Letters), y \in Seq(Letters) : x = <<>> /\ y = esc[c]
      BY <1>0
    <3>2. FlattenSeq(<<x, y>>) = x \o y
      BY FlattenFew
    <3> QED BY <3>1, <3>2, ConcatEmptySeq
  <2> QED BY <2>1, <2>3, <2>4, <2>6, <2>7, <2>8 DEF Shut, Scanned
<1> QED BY <1>1, <1>2

\* What parseGroup makes of what readyGroup writes is what there was: true of what
\* is put together from characters and escaped characters.
Returns == {g \in Text : /\ g \in Shut /\ Readied(g) \in Shut
                         /\ Parsed(Readied(g)) = g}

LEMMA ReturnsConcat ==
  /\ <<>> \in Returns
  /\ \A u, v \in Returns : u \o v \in Returns
<1>1. <<>> \in Returns
  <2>1. <<>> \in Text /\ Len(<<>>) = 0
    BY EmptySeq DEF Text
  <2>2. <<>> \in Shut
    BY <2>1, OpensSteps DEF Shut, Text
  <2>3. \A esc, plain \in Readings : Scanned(<<>>, esc, plain) = <<>>
    <3> SUFFICES ASSUME NEW esc \in Readings, NEW plain \in Readings
                 PROVE  Scanned(<<>>, esc, plain) = <<>>
      OBVIOUS
    <3>1. PICK p \in Seq(Seq(Letters)) : p = Pieces(<<>>, esc, plain) /\ Len(p) = 0
      BY <2>1, PiecesAre
    <3>2. p = <<>>
      BY <3>1, EmptySeq
    <3> QED BY <3>1, <3>2, FlattenStep DEF Scanned
  <2> QED BY <2>1, <2>2, <2>3, CodesIn DEF Returns, Readied, Parsed
<1>2. ASSUME NEW u \in Returns, NEW v \in Returns PROVE u \o v \in Returns
  <2>1. /\ u \in Shut /\ v \in Shut /\ u \in Text /\ v \in Text
        /\ Readied(u) \in Shut /\ Readied(v) \in Shut /\ Readied(v) \in Text
        /\ Parsed(Readied(u)) = u /\ Parsed(Readied(v)) = v
    BY DEF Returns, Shut
  <2>2. Readied(u \o v) = Readied(u) \o Readied(v)
    <3>1. ReadyEsc \in Readings /\ ReadyPlain \in Readings
      BY CodesIn
    <3>2. Scanned(u \o v, ReadyEsc, ReadyPlain)
            = Scanned(u, ReadyEsc, ReadyPlain) \o Scanned(v, ReadyEsc, ReadyPlain)
      <4>1. u \in Shut /\ v \in Text
        BY <2>1
      <4> QED BY <4>1, <3>1, ScanConcat, SMTT(30)
    <3> QED BY <3>2 DEF Readied
  <2>3. u \o v \in Shut /\ Readied(u) \o Readied(v) \in Shut /\ u \o v \in Text
    BY <2>1, ConcatOpens
  <2>4. Parsed(Readied(u) \o Readied(v)) = Parsed(Readied(u)) \o Parsed(Readied(v))
    <3>1. ParseEsc \in Readings /\ ParsePlain \in Readings
      BY CodesIn
    <3> QED BY <2>1, <3>1, ScanConcat DEF Parsed
  <2> QED BY <2>1, <2>2, <2>3, <2>4 DEF Returns
<1> QED BY <1>1, <1>2

LEMMA AtomsReturn ==
  /\ \A c \in Letters \ {Esc} : <<c>> \in Returns
  /\ \A c \in {Sep, Esc} : <<Esc, c>> \in Returns
<1>0. Sep # Esc /\ Dot # Esc /\ Sep # Dot
  BY DEF Sep, Esc, Dot
<1>1. ASSUME NEW c \in Letters \ {Esc} PROVE <<c>> \in Returns
  <2>1. <<c>> \in Shut /\ Readied(<<c>>) = ReadyPlain[c] /\ <<c>> \in Text
    BY ScanAtoms, CodesIn DEF Readied
  <2>2. CASE c = Sep
    <3>1. ReadyPlain[c] = <<Dot>>
      BY <2>2 DEF ReadyPlain
    <3>2. <<Dot>> \in Shut /\ Parsed(<<Dot>>) = ParsePlain[Dot]
      BY <1>0, ScanAtoms, CodesIn DEF Parsed
    <3>3. ParsePlain[Dot] = <<Sep>>
      BY CodesIn DEF ParsePlain
    <3> QED BY <2>1, <2>2, <3>1, <3>2, <3>3 DEF Returns
  <2>3. CASE c = Dot
    <3>1. ReadyPlain[c] = <<Esc, Dot>>
      BY <1>0, <2>3 DEF ReadyPlain
    <3>2. <<Esc, Dot>> \in Shut /\ Parsed(<<Esc, Dot>>) = ParseEsc[Dot]
      BY ScanAtoms, CodesIn DEF Parsed
    <3>3. ParseEsc[Dot] = <<Dot>>
      BY CodesIn DEF ParseEsc
    <3> QED BY <2>1, <2>3, <3>1, <3>2, <3>3 DEF Returns
  <2>4. CASE c # Sep /\ c # Dot
    <3>1. ReadyPlain[c] = <<c>> /\ ParsePlain[c] = <<c>>
      BY <2>4 DEF ReadyPlain, ParsePlain
    <3>2. Parsed(<<c>>) = ParsePlain[c]
      BY ScanAtoms, CodesIn DEF Parsed
    <3> QED BY <2>1, <3>1, <3>2 DEF Returns
  <2> QED BY <2>2, <2>3, <2>4
<1>2. <<Esc, Sep>> \in Returns
  <2>1. <<Esc, Sep>> \in Shut /\ Readied(<<Esc, Sep>>) = ReadyEsc[Sep] /\ <<Esc, Sep>> \in Text
    BY ScanAtoms, CodesIn DEF Readied
  <2>2. ReadyEsc[Sep] = <<Sep>> /\ ParsePlain[Sep] = <<Esc, Sep>>
    BY <1>0, CodesIn DEF ReadyEsc, ParsePlain
  <2>3. <<Sep>> \in Shut /\ Parsed(<<Sep>>) = ParsePlain[Sep]
    BY <1>0, ScanAtoms, CodesIn DEF Parsed
  <2> QED BY <2>1, <2>2, <2>3 DEF Returns
<1>3. <<Esc, Esc>> \in Returns
  <2>1. <<Esc, Esc>> \in Shut /\ Readied(<<Esc, Esc>>) = ReadyEsc[Esc] /\ <<Esc, Esc>> \in Text
    BY ScanAtoms, CodesIn DEF Readied
  <2>2. ReadyEsc[Esc] = <<Esc, Esc>> /\ ParseEsc[Esc] = <<Esc, Esc>>
    BY <1>0, CodesIn DEF ReadyEsc, ParseEsc
  <2>3. Parsed(<<Esc, Esc>>) = ParseEsc[Esc]
    BY ScanAtoms, CodesIn DEF Parsed
  <2> QED BY <2>1, <2>2, <2>3 DEF Returns
<1> QED BY <1>1, <1>2, <1>3

-----------------------------------------------------------------------------
\* Every separator has an escape character before it.
Covered == {g \in Text : \A i \in 1..Len(g) : g[i] = Sep => i > 1 /\ g[i - 1] = Esc}

\* What escapeGroup makes of a name that is not empty and does not end in an escape.
Whole == {e \in Covered : e # <<>> /\ e[Len(e)] # Esc}

\* Two texts one after the other.
LEMMA JoinIs ==
  ASSUME NEW u \in Text, NEW v \in Text
  PROVE  /\ u \o v \in Text /\ Len(u \o v) = Len(u) + Len(v)
         /\ Len(u) \in Nat /\ Len(v) \in Nat
         /\ \A i \in 1..Len(u) : (u \o v)[i] = u[i]
         /\ \A i \in 1..Len(v) : (u \o v)[Len(u) + i] = v[i]
<1>1. u \in Seq(Letters) /\ v \in Seq(Letters) /\ Len(u) \in Nat /\ Len(v) \in Nat
  BY TextLen DEF Text
<1>2. /\ u \o v \in Seq(Letters) /\ Len(u \o v) = Len(u) + Len(v)
      /\ \A i \in 1..Len(u) + Len(v) : (u \o v)[i] = IF i <= Len(u) THEN u[i] ELSE v[i - Len(u)]
  BY <1>1, ConcatProperties
<1>3. \A i \in 1..Len(u) : (u \o v)[i] = u[i]
  BY <1>1, <1>2
<1>4. ASSUME NEW i \in 1..Len(v) PROVE (u \o v)[Len(u) + i] = v[i]
  <2>1. Len(u) + i \in 1..Len(u) + Len(v) /\ ~(Len(u) + i <= Len(u)) /\ (Len(u) + i) - Len(u) = i
    BY <1>1
  <2> QED BY <2>1, <1>2
<1> QED BY <1>1, <1>2, <1>3, <1>4 DEF Text

LEMMA CoveredConcat ==
  ASSUME NEW u \in Covered, NEW v \in Covered
  PROVE  u \o v \in Covered
<1>0. /\ u \in Text /\ \A i \in 1..Len(u) : u[i] = Sep => i > 1 /\ u[i - 1] = Esc
      /\ v \in Text /\ \A i \in 1..Len(v) : v[i] = Sep => i > 1 /\ v[i - 1] = Esc
  BY DEF Covered
<1>1. PICK m \in Nat, n \in Nat, w \in Text :
        /\ m = Len(u) /\ n = Len(v) /\ w = u \o v /\ Len(w) = m + n
        /\ \A i \in 1..m : w[i] = u[i]
        /\ \A i \in 1..n : w[m + i] = v[i]
  <2>1. /\ u \o v \in Text /\ Len(u \o v) = Len(u) + Len(v)
        /\ Len(u) \in Nat /\ Len(v) \in Nat
        /\ \A i \in 1..Len(u) : (u \o v)[i] = u[i]
        /\ \A i \in 1..Len(v) : (u \o v)[Len(u) + i] = v[i]
    BY <1>0, JoinIs
  <2> QED BY <2>1
<1>2. ASSUME NEW i \in 1..m + n, w[i] = Sep PROVE i > 1 /\ w[i - 1] = Esc
  <2>1. CASE i <= m
    <3>1. i \in 1..m
      BY <2>1
    <3>2. i > 1 /\ u[i - 1] = Esc
      BY <3>1, <1>0, <1>1, <1>2
    <3>3. i - 1 \in 1..m
      BY <3>1, <3>2
    <3> QED BY <3>2, <3>3, <1>1
  <2>2. CASE ~(i <= m)
    <3>1. PICK k \in 1..n : i = m + k
      <4>1. i - m \in 1..n /\ i = m + (i - m)
        BY <2>2
      <4> QED BY <4>1
    <3>2. k > 1 /\ v[k - 1] = Esc
      BY <3>1, <1>0, <1>1, <1>2
    <3>3. k - 1 \in 1..n /\ i - 1 = m + (k - 1) /\ i > 1
      BY <3>1, <3>2
    <3> QED BY <3>2, <3>3, <1>1
  <2> QED BY <2>1, <2>2
<1> QED BY <1>1, <1>2 DEF Covered

LEMMA EscapeCharIs ==
  ASSUME NEW c \in Letters
  PROVE  /\ EscapeChar(c) \in Returns /\ EscapeChar(c) \in Covered /\ EscapeChar(c) \in Text
         /\ Bare(EscapeChar(c)) = <<c>>
         /\ Len(EscapeChar(c)) # 0 /\ EscapeChar(c)[Len(EscapeChar(c))] = c
<1>0. Sep # Esc
  BY DEF Sep, Esc
<1>1. CASE c \in {Sep, Esc}
  <2>1. PICK g \in Text : g = <<Esc, c>> /\ Len(g) = 2 /\ g[1] = Esc /\ g[2] = c
    BY CodesIn
  <2>2. EscapeChar(c) = g
    BY <1>1, <2>1 DEF EscapeChar
  <2>3. g \in Returns
    BY <1>1, <2>1, AtomsReturn
  <2>4. \A i \in 1..2 : g[i] = Sep => i = 2
    BY <1>0, <2>1
  <2>5. g \in Covered
    BY <2>1, <2>4 DEF Covered
  <2>6. Bare(g) = <<c>>
    <3>1. Single[c] = <<c>>
      BY DEF Single
    <3> QED BY <2>1, <3>1, ScanAtoms, CodesIn DEF Bare
  <2> QED BY <2>1, <2>2, <2>3, <2>5, <2>6
<1>2. CASE c \notin {Sep, Esc}
  <2>1. PICK g \in Text : g = <<c>> /\ Len(g) = 1 /\ g[1] = c
    BY CodesIn
  <2>2. EscapeChar(c) = g
    BY <1>2, <2>1 DEF EscapeChar
  <2>3. g \in Returns
    BY <1>2, <2>1, AtomsReturn
  <2>4. g \in Covered
    <3>1. \A i \in 1..1 : g[i] # Sep
      BY <1>2, <2>1
    <3> QED BY <2>1, <3>1 DEF Covered
  <2>5. Bare(g) = <<c>>
    <3>1. Single[c] = <<c>>
      BY DEF Single
    <3> QED BY <1>2, <2>1, <3>1, ScanAtoms, CodesIn DEF Bare
  <2> QED BY <2>1, <2>2, <2>3, <2>4, <2>5
<1> QED BY <1>1, <1>2

LEMMA EscapeSteps ==
  /\ escapeGroup(<<>>) = <<>>
  /\ \A s \in Text, x \in Letters : escapeGroup(Append(s, x)) = escapeGroup(s) \o EscapeChar(x)
<1>1. PICK piece : piece = [x \in Letters |-> EscapeChar(x)]
  OBVIOUS
<1>2. piece \in [Letters -> Seq(Letters)]
  BY <1>1, EscapeCharIs DEF Text
<1>3. ASSUME NEW s \in Seq(Letters) PROVE escapeGroup(s) = FlattenSeq(Mapped(s, piece))
  <2>1. \A k \in DOMAIN s : s[k] \in Letters
    BY ElementOfSeq, LenProperties
  <2>2. [k \in DOMAIN s |-> EscapeChar(s[k])] = [k \in DOMAIN s |-> piece[s[k]]]
    BY <1>1, <2>1
  <2> QED BY <2>2 DEF escapeGroup, Mapped
<1>4. /\ FlattenSeq(Mapped(<<>>, piece)) = <<>>
      /\ \A s \in Seq(Letters), x \in Letters :
           FlattenSeq(Mapped(Append(s, x), piece)) = FlattenSeq(Mapped(s, piece)) \o piece[x]
  BY <1>2, GluedStep
<1>5. <<>> \in Seq(Letters) /\ \A s \in Seq(Letters), x \in Letters : Append(s, x) \in Seq(Letters)
  BY EmptySeq, AppendProperties
<1> QED BY <1>1, <1>3, <1>4, <1>5 DEF Text

\* What escapeGroup makes of a name: unescapeGroup gives the name back.
LEMMA EscapeIs ==
  ASSUME NEW s \in Text
  PROVE  /\ escapeGroup(s) \in Returns /\ escapeGroup(s) \in Covered
         /\ Bare(escapeGroup(s)) = s
<1> DEFINE D == {r \in Seq(Letters) : /\ escapeGroup(r) \in Returns /\ escapeGroup(r) \in Covered
                                      /\ Bare(escapeGroup(r)) = r}
<1>1. <<>> \in D
  <2>1. <<>> \in Text /\ Len(<<>>) = 0 /\ <<>> \in Seq(Letters)
    BY EmptySeq DEF Text
  <2>2. <<>> \in Returns /\ <<>> \in Covered
    BY <2>1, ReturnsConcat DEF Covered
  <2>3. Bare(<<>>) = <<>>
    <3>1. Single \in Readings
      BY CodesIn
    <3>2. PICK p \in Seq(Seq(Letters)) : p = Pieces(<<>>, Single, Single) /\ Len(p) = 0
      BY <2>1, <3>1, PiecesAre
    <3>3. p = <<>>
      BY <3>2, EmptySeq
    <3> QED BY <3>2, <3>3, FlattenStep DEF Bare, Scanned
  <2> QED BY <2>1, <2>2, <2>3, EscapeSteps
<1>2. ASSUME NEW r \in Seq(Letters), NEW x \in Letters, r \in D PROVE Append(r, x) \in D
  <2>1. PICK e \in Text, c \in Text : e = escapeGroup(r) /\ c = EscapeChar(x)
    BY <1>2, EscapeCharIs DEF Returns
  <2>2. escapeGroup(Append(r, x)) = e \o c
    BY <2>1, EscapeSteps DEF Text
  <2>3. e \o c \in Returns /\ e \o c \in Covered
    BY <1>2, <2>1, EscapeCharIs, ReturnsConcat, CoveredConcat
  <2>4. Bare(e \o c) = Append(r, x)
    <3>1. e \in Shut /\ Single \in Readings
      BY <1>2, <2>1, CodesIn DEF Returns
    <3>2. Bare(e \o c) = Bare(e) \o Bare(c)
      BY <3>1, ScanConcat DEF Bare
    <3>3. Bare(e) = r /\ Bare(c) = <<x>>
      BY <1>2, <2>1, EscapeCharIs
    <3> QED BY <3>2, <3>3, AppendIsConcat
  <2>5. Append(r, x) \in Seq(Letters)
    BY AppendProperties
  <2> QED BY <2>2, <2>3, <2>4, <2>5
<1> HIDE DEF D
<1>3. Seq(Letters) \subseteq D
  BY <1>1, <1>2, SeqSetInduction
<1> QED BY <1>3 DEF D, Text

LEMMA PlainEscapes ==
  ASSUME NEW s \in Text, PlainName(s)
  PROVE  /\ escapeGroup(s) \in Whole /\ escapeGroup(s) \in Returns
         /\ unescapeGroup(escapeGroup(s)) = s
<1>1. s \in Seq(Letters) /\ s # <<>> /\ Last(s) # Esc
  BY DEF PlainName, Text
<1>2. PICK r \in Text, x \in Letters : s = Append(r, x)
  BY <1>1, SequenceEmptyOrAppend DEF Text
<1>3. x # Esc
  BY <1>1, <1>2, LastOfAppend DEF Text
<1>4. PICK e \in Text, c \in Text : /\ e = escapeGroup(r) /\ c = EscapeChar(x)
                                    /\ Len(c) # 0 /\ c[Len(c)] = x
  BY EscapeIs, EscapeCharIs DEF Returns
<1>5. PICK w \in Text : w = e \o c /\ w = escapeGroup(s)
  <2>1. e \o c \in Text
    BY JoinIs
  <2>2. escapeGroup(s) = e \o c
    BY <1>2, <1>4, EscapeSteps
  <2> QED BY <2>1, <2>2
<1>6. w # <<>> /\ w[Len(w)] # Esc
  <2>1. Len(w) = Len(e) + Len(c) /\ Len(c) \in Nat /\ Len(e) \in Nat
    BY <1>5, JoinIs
  <2>2. w[Len(e) + Len(c)] = c[Len(c)]
    <3>1. Len(c) \in 1..Len(c)
      BY <2>1, <1>4
    <3>2. \A i \in 1..Len(c) : (e \o c)[Len(e) + i] = c[i]
      BY JoinIs
    <3> QED BY <3>1, <3>2, <1>5
  <2>3. Len(w) # 0
    BY <2>1, <1>4
  <2> QED BY <2>1, <2>2, <2>3, <1>3, <1>4, EmptySeq
<1>7. w \in Returns /\ w \in Covered /\ Bare(w) = s
  BY <1>5, EscapeIs
<1>8. unescapeGroup(w) = s
  BY <1>7, ScansAre
<1> QED BY <1>5, <1>6, <1>7, <1>8 DEF Whole

-----------------------------------------------------------------------------
\* Paths that neither begin with a separator nor end in an escape character.
Routes == {q \in Text : q # <<>> /\ q[1] # Sep /\ q[Len(q)] # Esc}

Joint(q, e) == q \o <<Sep>> \o e

LEMMA PartIs ==
  ASSUME NEW g \in Text, NEW a \in Nat, NEW n \in Nat, a + n <= Len(g)
  PROVE  /\ SubSeq(g, a + 1, a + n) \in Text /\ Len(SubSeq(g, a + 1, a + n)) = n
         /\ \A i \in 1..n : SubSeq(g, a + 1, a + n)[i] = g[a + i]
<1>1. \A i \in a + 1..a + n : g[i] \in Letters
  BY TextLen
<1>2. PICK lo \in Int, hi \in Int : lo = a + 1 /\ hi = a + n
  OBVIOUS
<1>3. /\ SubSeq(g, lo, hi) \in Seq(Letters)
      /\ Len(SubSeq(g, lo, hi)) = IF lo <= hi THEN hi - lo + 1 ELSE 0
      /\ \A i \in 1..hi - lo + 1 : SubSeq(g, lo, hi)[i] = g[lo + i - 1]
  BY <1>1, <1>2, SubSeqProperties
<1>4. (IF lo <= hi THEN hi - lo + 1 ELSE 0) = n /\ hi - lo + 1 = n
  BY <1>2
<1>5. \A i \in 1..n : lo + i - 1 = a + i
  BY <1>2
<1> QED BY <1>2, <1>3, <1>4, <1>5 DEF Text

LEMMA JointIs ==
  ASSUME NEW q \in Text, NEW e \in Text
  PROVE  /\ Joint(q, e) \in Text /\ Len(Joint(q, e)) = Len(q) + 1 + Len(e)
         /\ Len(q) \in Nat /\ Len(e) \in Nat
         /\ \A i \in 1..Len(q) : Joint(q, e)[i] = q[i]
         /\ Joint(q, e)[Len(q) + 1] = Sep
         /\ \A i \in 1..Len(e) : Joint(q, e)[Len(q) + 1 + i] = e[i]
<1>1. PICK s \in Text : s = <<Sep>> /\ Len(s) = 1 /\ s[1] = Sep
  BY CodesIn
<1>2. PICK u \in Text : /\ u = q \o s /\ Len(u) = Len(q) + 1 /\ Len(q) \in Nat
                        /\ \A i \in 1..Len(q) : u[i] = q[i]
                        /\ u[Len(q) + 1] = Sep
  <2>1. /\ q \o s \in Text /\ Len(q \o s) = Len(q) + Len(s) /\ Len(q) \in Nat
        /\ \A i \in 1..Len(q) : (q \o s)[i] = q[i]
        /\ \A i \in 1..Len(s) : (q \o s)[Len(q) + i] = s[i]
    BY JoinIs
  <2>2. (q \o s)[Len(q) + 1] = Sep
    <3>1. 1 \in 1..Len(s)
      BY <1>1
    <3> QED BY <3>1, <2>1, <1>1
  <2>3. Len(q \o s) = Len(q) + 1
    BY <2>1, <1>1
  <2> QED BY <2>1, <2>2, <2>3
<1>3. /\ u \o e \in Text /\ Len(u \o e) = Len(u) + Len(e) /\ Len(e) \in Nat
      /\ \A i \in 1..Len(u) : (u \o e)[i] = u[i]
      /\ \A i \in 1..Len(e) : (u \o e)[Len(u) + i] = e[i]
  BY JoinIs
<1>4. Joint(q, e) = u \o e
  BY <1>1, <1>2 DEF Joint
<1>5. \A i \in 1..Len(q) : i \in 1..Len(u)
  BY <1>2
<1>6. Len(q) + 1 \in 1..Len(u)
  BY <1>2
<1> QED BY <1>2, <1>3, <1>4, <1>5, <1>6

LEMMA JointParts ==
  ASSUME NEW q \in Text, NEW e \in Text
  PROVE  /\ SubSeq(Joint(q, e), 1, Len(q)) = q
         /\ SubSeq(Joint(q, e), Len(q) + 2, Len(Joint(q, e))) = e
<1>1. PICK w \in Text, m \in Nat, n \in Nat :
        /\ w = Joint(q, e) /\ m = Len(q) /\ n = Len(e) /\ Len(w) = m + 1 + n
        /\ \A i \in 1..m : w[i] = q[i]
        /\ \A i \in 1..n : w[m + 1 + i] = e[i]
  <2>1. /\ Joint(q, e) \in Text /\ Len(Joint(q, e)) = Len(q) + 1 + Len(e)
        /\ Len(q) \in Nat /\ Len(e) \in Nat
        /\ \A i \in 1..Len(q) : Joint(q, e)[i] = q[i]
        /\ \A i \in 1..Len(e) : Joint(q, e)[Len(q) + 1 + i] = e[i]
    BY JointIs
  <2> QED BY <2>1
<1>2. PICK p \in Text : p = SubSeq(w, 1, m) /\ Len(p) = m /\ \A i \in 1..m : p[i] = w[i]
  <2>1. 0 \in Nat /\ 0 + m <= Len(w) /\ 0 + m = m /\ 0 + 1 = 1 /\ \A i \in 1..m : 0 + i = i
    BY <1>1
  <2>2. /\ SubSeq(w, 0 + 1, 0 + m) \in Text /\ Len(SubSeq(w, 0 + 1, 0 + m)) = m
        /\ \A i \in 1..m : SubSeq(w, 0 + 1, 0 + m)[i] = w[0 + i]
    BY <2>1, PartIs
  <2> QED BY <2>1, <2>2
<1>3. PICK r \in Text : /\ r = SubSeq(w, m + 2, m + 1 + n) /\ Len(r) = n
                        /\ \A i \in 1..n : r[i] = w[m + 1 + i]
  <2>1. m + 1 \in Nat /\ (m + 1) + n <= Len(w) /\ (m + 1) + 1 = m + 2
    BY <1>1
  <2>2. /\ SubSeq(w, (m + 1) + 1, (m + 1) + n) \in Text
        /\ Len(SubSeq(w, (m + 1) + 1, (m + 1) + n)) = n
        /\ \A i \in 1..n : SubSeq(w, (m + 1) + 1, (m + 1) + n)[i] = w[(m + 1) + i]
    BY <2>1, PartIs
  <2> QED BY <2>1, <2>2
<1>4. p = q
  BY <1>1, <1>2, SeqEqual DEF Text
<1>5. r = e
  <2>1. Len(r) = Len(e) /\ \A i \in 1..Len(r) : r[i] = e[i]
    BY <1>1, <1>3
  <2> QED BY <2>1, <1>3, SeqEqual DEF Text
<1> QED BY <1>1, <1>2, <1>3, <1>4, <1>5

LEMMA NoLeading ==
  ASSUME NEW q \in Text, q # <<>>, q[1] # Sep
  PROVE  Leading(q) = 0
<1>1. Leading(q) \in 0..Len(q) /\ \A k \in 1..Leading(q) : q[k] = Sep
  BY LeadingIs
<1>2. Len(q) \in Nat
  BY TextLen
<1> QED BY <1>1, <1>2

LEMMA WholeIs ==
  ASSUME NEW e \in Whole
  PROVE  /\ e \in Text /\ e \in Routes /\ e # <<>> /\ e[1] # Sep /\ e[Len(e)] # Esc
         /\ Len(e) \in Nat /\ Len(e) # 0
         /\ \A i \in 2..Len(e) : ~(e[i] = Sep /\ e[i - 1] # Esc)
<1>1. /\ e \in Text /\ e # <<>> /\ e[Len(e)] # Esc
      /\ \A i \in 1..Len(e) : e[i] = Sep => i > 1 /\ e[i - 1] = Esc
  BY DEF Whole, Covered
<1>2. Len(e) \in Nat /\ Len(e) # 0
  BY <1>1, EmptySeq, TextLen DEF Text
<1>3. 1 \in 1..Len(e) /\ \A i \in 2..Len(e) : i \in 1..Len(e)
  BY <1>2
<1> QED BY <1>1, <1>2, <1>3 DEF Routes

\* The first section of a path.
LEMMA FirstSection ==
  ASSUME NEW s \in Whole, NEW r \in Text
  PROVE  /\ SectionEnd(s) = Len(s) /\ Section(s) = s
         /\ SectionEnd(Joint(s, r)) = Len(s) /\ Section(Joint(s, r)) = s
         /\ AfterSection(Joint(s, r)) = r
<1>1. /\ s \in Text /\ s # <<>> /\ s[1] # Sep /\ s[Len(s)] # Esc
      /\ Len(s) \in Nat /\ Len(s) # 0
      /\ \A i \in 2..Len(s) : ~(s[i] = Sep /\ s[i - 1] # Esc)
  BY WholeIs
<1>2. SectionEnd(s) = Len(s) /\ Section(s) = s
  <2>1. Leading(s) = 0
    BY <1>1, NoLeading
  <2>2. {i \in Leading(s) + 1..Len(s) : i > 1 /\ s[i] = Sep /\ s[i - 1] # Esc} = {}
    BY <1>1, <2>1
  <2>3. SectionEnd(s) = Len(s)
    BY <2>2 DEF SectionEnd
  <2>4. SubSeq(s, 1, Len(s)) = s
    BY <1>1, SubSeqFull DEF Text
  <2> QED BY <2>1, <2>3, <2>4 DEF Section
<1>3. PICK w \in Text, m \in Nat, n \in Nat :
        /\ w = Joint(s, r) /\ m = Len(s) /\ n = Len(r) /\ Len(w) = m + 1 + n
        /\ \A i \in 1..m : w[i] = s[i]
        /\ w[m + 1] = Sep
  <2>1. /\ Joint(s, r) \in Text /\ Len(Joint(s, r)) = Len(s) + 1 + Len(r)
        /\ Len(s) \in Nat /\ Len(r) \in Nat
        /\ \A i \in 1..Len(s) : Joint(s, r)[i] = s[i]
        /\ Joint(s, r)[Len(s) + 1] = Sep
    BY <1>1, JointIs
  <2> QED BY <2>1
<1>4. Leading(w) = 0
  <2>1. w # <<>>
    <3>1. Len(<<>>) = 0
      OBVIOUS
    <3> QED BY <3>1, <1>3
  <2>2. w[1] # Sep
    BY <1>1, <1>3
  <2> QED BY <2>1, <2>2, NoLeading
<1>5. SectionEnd(w) = m
  <2> DEFINE T == {i \in Leading(w) + 1..Len(w) : i > 1 /\ w[i] = Sep /\ w[i - 1] # Esc}
  <2>1. m + 1 \in T
    BY <1>1, <1>3, <1>4
  <2>2. \A y \in T : m + 1 <= y
    <3> SUFFICES ASSUME NEW y \in 1..Len(w), y > 1, w[y] = Sep, w[y - 1] # Esc, ~(m + 1 <= y)
                 PROVE  FALSE
      BY <1>3, <1>4
    <3>1. y \in 2..m /\ y \in 1..m /\ y - 1 \in 1..m
      BY <1>3
    <3> QED BY <3>1, <1>1, <1>3
  <2>3. T \in SUBSET Nat
    BY <1>4
  <2>4. Min(T) \in T /\ \A y \in T : Min(T) <= y
    BY <2>1, <2>3, SmallestIs
  <2>5. Min(T) = m + 1
    <3> HIDE DEF T
    <3>1. m + 1 <= Min(T)
      BY <2>2, <2>4
    <3>2. Min(T) <= m + 1
      BY <2>1, <2>4
    <3>3. Min(T) \in Nat
      BY <2>3, <2>4
    <3> QED BY <3>1, <3>2, <3>3
  <2>6. SectionEnd(w) = Min(T) - 1
    BY <2>1 DEF SectionEnd
  <2> HIDE DEF T
  <2> QED BY <2>5, <2>6
<1>6. Section(w) = s
  BY <1>1, <1>3, <1>4, <1>5, JointParts DEF Section
<1>7. AfterSection(w) = r
  <2>1. SubSeq(w, m + 2, Len(w)) = r
    BY <1>1, <1>3, JointParts
  <2> QED BY <2>1, <1>5 DEF AfterSection
<1> QED BY <1>2, <1>3, <1>5, <1>6, <1>7

\* The last name of a path, and what is above it.
LEMMA LastName ==
  ASSUME NEW e \in Whole
  PROVE  LastCut(e) = 0 /\ thisGroup(e) = e
<1>1. /\ e \in Text /\ e # <<>> /\ e[1] # Sep /\ Len(e) \in Nat /\ Len(e) # 0
      /\ \A i \in 2..Len(e) : ~(e[i] = Sep /\ e[i - 1] # Esc)
  BY WholeIs
<1>2. LastCut(e) = 0
  <2> DEFINE T == {0} \cup {i \in 1..Len(e) - 1 : e[i + 1] = Sep /\ e[i] # Esc}
  <2>1. T = {0}
    <3> SUFFICES ASSUME NEW i \in 1..Len(e) - 1, e[i + 1] = Sep, e[i] # Esc PROVE FALSE
      OBVIOUS
    <3>1. i + 1 \in 2..Len(e) /\ (i + 1) - 1 = i
      BY <1>1
    <3> QED BY <3>1, <1>1
  <2>2. T \in SUBSET (0..Len(e)) /\ T # {}
    BY <2>1, <1>1
  <2>3. Max(T) \in T
    BY <2>2, <1>1, LargestIs
  <2> QED BY <2>1, <2>3 DEF LastCut
<1>3. thisGroup(e) = e
  <2>1. SubSeq(e, 1, Len(e)) = e
    BY <1>1, SubSeqFull DEF Text
  <2>2. LastCut(e) + 1 = 1
    BY <1>2
  <2> QED BY <1>1, <1>2, <2>1, <2>2 DEF thisGroup
<1> QED BY <1>2, <1>3

LEMMA NameBelow ==
  ASSUME NEW q \in Routes, NEW e \in Whole
  PROVE  /\ Joint(q, e) \in Routes /\ LastCut(Joint(q, e)) = Len(q)
         /\ thisGroup(Joint(q, e)) = e /\ SubSeq(Joint(q, e), 1, Len(q)) = q
<1>1. /\ e \in Text /\ e # <<>> /\ e[1] # Sep /\ Len(e) \in Nat /\ Len(e) # 0
      /\ e[Len(e)] # Esc
      /\ \A i \in 2..Len(e) : ~(e[i] = Sep /\ e[i - 1] # Esc)
  BY WholeIs
<1>2. q \in Text /\ q # <<>> /\ q[1] # Sep /\ q[Len(q)] # Esc /\ Len(q) \in Nat /\ Len(q) # 0
  <2>1. q \in Text /\ q # <<>> /\ q[1] # Sep /\ q[Len(q)] # Esc
    BY DEF Routes
  <2> QED BY <2>1, EmptySeq DEF Text
<1>3. PICK w \in Text, m \in Nat, n \in Nat :
        /\ w = Joint(q, e) /\ m = Len(q) /\ n = Len(e) /\ Len(w) = m + 1 + n
        /\ \A i \in 1..m : w[i] = q[i]
        /\ w[m + 1] = Sep
        /\ \A i \in 1..n : w[m + 1 + i] = e[i]
  <2>1. /\ Joint(q, e) \in Text /\ Len(Joint(q, e)) = Len(q) + 1 + Len(e)
        /\ Len(q) \in Nat /\ Len(e) \in Nat
        /\ \A i \in 1..Len(q) : Joint(q, e)[i] = q[i]
        /\ Joint(q, e)[Len(q) + 1] = Sep
        /\ \A i \in 1..Len(e) : Joint(q, e)[Len(q) + 1 + i] = e[i]
    BY <1>1, <1>2, JointIs
  <2> QED BY <2>1
<1>4. w # <<>>
  <2>1. Len(<<>>) = 0
    OBVIOUS
  <2> QED BY <2>1, <1>3
<1>5. w \in Routes
  <2>1. w[1] # Sep
    BY <1>2, <1>3
  <2>2. w[m + 1 + n] # Esc
    <3>1. n \in 1..n
      BY <1>1, <1>3
    <3> QED BY <3>1, <1>1, <1>3
  <2> QED BY <1>3, <1>4, <2>1, <2>2 DEF Routes
<1>6. LastCut(w) = m
  <2> DEFINE T == {0} \cup {i \in 1..Len(w) - 1 : w[i + 1] = Sep /\ w[i] # Esc}
  <2>1. m \in T
    <3>1. m \in 1..Len(w) - 1 /\ m \in 1..m
      BY <1>1, <1>2, <1>3
    <3> QED BY <3>1, <1>2, <1>3
  <2>2. \A y \in T : m >= y
    <3> SUFFICES ASSUME NEW y \in 1..Len(w) - 1, w[y + 1] = Sep, w[y] # Esc, ~(m >= y)
                 PROVE  FALSE
      BY <1>3
    <3>1. PICK k \in 1..n : y = m + k
      <4>1. y - m \in 1..n /\ y = m + (y - m)
        BY <1>3
      <4> QED BY <4>1
    <3>2. y + 1 = m + 1 + k
      BY <3>1
    <3>3. e[k] = Sep
      BY <3>2, <1>3
    <3>4. k # 1
      BY <3>3, <1>1
    <3>5. k - 1 \in 1..n /\ k \in 2..n /\ y = m + 1 + (k - 1)
      BY <3>1, <3>4
    <3>6. e[k - 1] # Esc
      BY <3>5, <1>3
    <3> QED BY <3>3, <3>5, <3>6, <1>1, <1>3
  <2>3. T \in SUBSET (0..Len(w)) /\ T # {} /\ Len(w) \in Nat
    BY <1>3
  <2>4. Max(T) \in T /\ \A y \in T : Max(T) >= y
    BY <2>3, LargestIs
  <2>5. Max(T) = m
    <3> HIDE DEF T
    <3>1. m >= Max(T)
      BY <2>2, <2>4
    <3>2. Max(T) >= m
      BY <2>1, <2>4
    <3>3. Max(T) \in Nat
      <4>1. Max(T) \in 0..Len(w)
        BY <2>3, <2>4
      <4> QED BY <4>1, <2>3
    <3> QED BY <3>1, <3>2, <3>3
  <2>6. LastCut(w) = Max(T)
    BY DEF LastCut
  <2> HIDE DEF T
  <2> QED BY <2>5, <2>6
<1>7. thisGroup(w) = e
  <2>1. w[LastCut(w) + 1] = Sep
    BY <1>3, <1>6
  <2>2. SubSeq(w, m + 2, Len(w)) = e
    BY <1>1, <1>2, <1>3, JointParts
  <2> QED BY <1>4, <1>6, <2>1, <2>2 DEF thisGroup
<1>8. SubSeq(w, 1, m) = q
  BY <1>1, <1>2, <1>3, JointParts
<1> QED BY <1>3, <1>5, <1>6, <1>7, <1>8

\* The separators that a path begins with, dropped.
LEMMA DropsSep ==
  ASSUME NEW q \in Routes
  PROVE  /\ DropLeading(<<Sep>> \o q) = q /\ DropLeading(q) = q
         /\ SearchPath(<<Sep>> \o q) = q /\ SearchPath(q) = q
<1>1. q \in Text /\ q # <<>> /\ q[1] # Sep /\ Len(q) \in Nat /\ Len(q) # 0
  <2>1. q \in Text /\ q # <<>> /\ q[1] # Sep
    BY DEF Routes
  <2> QED BY <2>1, EmptySeq DEF Text
<1>2. DropLeading(q) = q /\ SearchPath(q) = q
  <2>1. SubSeq(q, 1, Len(q)) = q /\ Leading(q) = 0
    BY <1>1, SubSeqFull, NoLeading DEF Text
  <2>2. DropLeading(q) = q
    BY <2>1 DEF DropLeading
  <2> QED BY <2>2 DEF SearchPath
<1>3. PICK s \in Text : s = <<Sep>> /\ Len(s) = 1 /\ s[1] = Sep
  BY CodesIn
<1>4. PICK w \in Text, n \in Nat :
        /\ w = <<Sep>> \o q /\ n = Len(q) /\ Len(w) = 1 + n /\ w[1] = Sep
        /\ \A i \in 1..n : w[1 + i] = q[i]
  <2>1. /\ s \o q \in Text /\ Len(s \o q) = Len(s) + Len(q) /\ Len(q) \in Nat
        /\ \A i \in 1..Len(s) : (s \o q)[i] = s[i]
        /\ \A i \in 1..Len(q) : (s \o q)[Len(s) + i] = q[i]
    BY <1>1, JoinIs
  <2>2. 1 \in 1..Len(s)
    BY <1>3
  <2>3. (s \o q)[1] = Sep
    BY <2>1, <2>2, <1>3
  <2> QED BY <2>1, <2>3, <1>3
<1>5. w[2] # Sep /\ DOMAIN w = 1..1 + n
  <2>1. 1 \in 1..n /\ 1 + 1 = 2
    BY <1>1, <1>4
  <2>2. w[1 + 1] = q[1]
    BY <2>1, <1>4
  <2>3. DOMAIN w = 1..Len(w)
    BY TextLen
  <2> QED BY <2>1, <2>2, <2>3, <1>1, <1>4
<1>6. Leading(w) = 1
  <2>1. /\ Leading(w) \in 0..Len(w) /\ \A k \in 1..Leading(w) : w[k] = Sep
        /\ Leading(w) = Len(w) \/ w[Leading(w) + 1] # Sep
    BY LeadingIs
  <2>2. n >= 1
    BY <1>1, <1>4
  <2> QED BY <2>1, <2>2, <1>4, <1>5
<1>7. SubSeq(w, 2, 1 + n) = q
  <2>1. 1 \in Nat /\ 1 + n <= Len(w) /\ 1 + 1 = 2
    BY <1>4
  <2>2. /\ SubSeq(w, 1 + 1, 1 + n) \in Text /\ Len(SubSeq(w, 1 + 1, 1 + n)) = n
        /\ \A i \in 1..n : SubSeq(w, 1 + 1, 1 + n)[i] = w[1 + i]
    BY <2>1, PartIs
  <2>3. PICK r \in Text : /\ r = SubSeq(w, 2, 1 + n) /\ Len(r) = n
                          /\ \A i \in 1..n : r[i] = w[1 + i]
    BY <2>1, <2>2
  <2>4. r = q
    BY <2>3, <1>1, <1>4, SeqEqual DEF Text
  <2> QED BY <2>3, <2>4
<1>8. DropLeading(w) = q
  BY <1>4, <1>6, <1>7 DEF DropLeading
<1>9. \E k \in DOMAIN w : w[k] # Sep
  <2>1. 2 \in 1..1 + n
    BY <1>1, <1>4
  <2> QED BY <2>1, <1>5
<1> QED BY <1>2, <1>4, <1>8, <1>9 DEF SearchPath

-----------------------------------------------------------------------------
(* findGroup goes down a path name by name.                                 *)

\* The first child of that name.
Namesakes(tree, g, x)  == {c \in DOMAIN tree : tree[c].parent = g /\ tree[c].name = x}
Child(tree, g, x) == IF Namesakes(tree, g, x) = {} THEN None ELSE Min(Namesakes(tree, g, x))

\* What the path leads to from group g.
Below(tree, q, g) == IF g = None THEN None ELSE FoundAt(tree, q)[Len(q)][g]

\* Two functions whose values are made in the same way from earlier ones.
MadeAlike(n, f, h) ==
  f[0] = h[0] /\ \A m \in 1..n : \E p \in 0..m - 1 : f[p] = h[p] => f[m] = h[m]
AlikeTo(n, f, h) == \A m \in 0..n : f[m] = h[m]

LEMMA Alike ==
  ASSUME NEW n \in Nat, NEW f, NEW h, MadeAlike(n, f, h)
  PROVE  AlikeTo(n, f, h)
<1>0. f[0] = h[0] /\ \A m \in 1..n : \E p \in 0..m - 1 : f[p] = h[p] => f[m] = h[m]
  BY DEF MadeAlike
<1> DEFINE e == [k \in 0..n |-> IF f[k] = h[k] THEN 1 ELSE 0]
<1>1. \A k \in 0..n : e[k] \in {1} <=> f[k] = h[k]
  OBVIOUS
<1>2. 0 \in 0..n /\ \A m \in 1..n : m \in 0..n /\ \A p \in 0..m - 1 : p \in 0..n
  OBVIOUS
<1> HIDE DEF e
<1>3. PICK X : \A k \in 0..n : e[k] \in X <=> f[k] = h[k]
  BY <1>1
<1>4. e[0] \in X
  BY <1>0, <1>2, <1>3
<1>5. ASSUME NEW m \in 1..n PROVE \E p \in 0..m - 1 : e[p] \in X => e[m] \in X
  <2>1. PICK p \in 0..m - 1 : f[p] = h[p] => f[m] = h[m]
    BY <1>0
  <2>2. p \in 0..n /\ m \in 0..n
    BY <1>2
  <2> QED BY <2>1, <2>2, <1>3
<1>6. \A m \in 0..n : e[m] \in X
  BY <1>4, <1>5, Downward
<1> QED BY <1>3, <1>6 DEF AlikeTo

LEMMA RestOfRest ==
  ASSUME NEW full \in Text, NEW n \in 0..Len(full)
  PROVE  /\ RestOf(full, n) \in Text /\ Len(RestOf(full, n)) = n
         /\ \A k \in 0..n : RestOf(RestOf(full, n), k) = RestOf(full, k)
<1>1. \A x \in Text : \A j \in 0..Len(x) :
        /\ RestOf(x, j) \in Text /\ Len(RestOf(x, j)) = j
        /\ \A i \in 1..j : RestOf(x, j)[i] = x[(Len(x) - j) + i]
  <2> SUFFICES ASSUME NEW x \in Text, NEW j \in 0..Len(x)
               PROVE  /\ RestOf(x, j) \in Text /\ Len(RestOf(x, j)) = j
                      /\ \A i \in 1..j : RestOf(x, j)[i] = x[(Len(x) - j) + i]
    OBVIOUS
  <2>1. PICK a \in Nat, l \in Nat : l = Len(x) /\ l = a + j /\ a = Len(x) - j
    <3>1. Len(x) \in Nat /\ Len(x) - j \in Nat /\ Len(x) = (Len(x) - j) + j
      BY TextLen
    <3> QED BY <3>1
  <2>2. RestOf(x, j) = SubSeq(x, a + 1, a + j)
    <3>1. Len(x) - j + 1 = a + 1
      BY <2>1
    <3> QED BY <3>1, <2>1 DEF RestOf
  <2>3. j \in Nat /\ a + j <= Len(x)
    BY <2>1
  <2>4. /\ SubSeq(x, a + 1, a + j) \in Text /\ Len(SubSeq(x, a + 1, a + j)) = j
        /\ \A i \in 1..j : SubSeq(x, a + 1, a + j)[i] = x[a + i]
    BY <2>3, PartIs
  <2> QED BY <2>1, <2>2, <2>4
<1>2. PICK r \in Text, l \in Nat : /\ r = RestOf(full, n) /\ Len(r) = n /\ l = Len(full)
                                   /\ \A i \in 1..n : r[i] = full[(l - n) + i]
  BY <1>1, TextLen
<1>3. ASSUME NEW k \in 0..n PROVE RestOf(r, k) = RestOf(full, k)
  <2>1. k \in 0..Len(r) /\ k \in 0..Len(full)
    BY <1>2
  <2>2. PICK u \in Text : u = RestOf(r, k) /\ Len(u) = k /\ \A i \in 1..k : u[i] = r[(n - k) + i]
    <3>1. /\ RestOf(r, k) \in Text /\ Len(RestOf(r, k)) = k
          /\ \A i \in 1..k : RestOf(r, k)[i] = r[(Len(r) - k) + i]
      BY <1>1, <2>1
    <3> QED BY <3>1, <1>2
  <2>3. PICK v \in Text : /\ v = RestOf(full, k) /\ Len(v) = k
                          /\ \A i \in 1..k : v[i] = full[(l - k) + i]
    <3>1. /\ RestOf(full, k) \in Text /\ Len(RestOf(full, k)) = k
          /\ \A i \in 1..k : RestOf(full, k)[i] = full[(Len(full) - k) + i]
      BY <1>1, <2>1
    <3> QED BY <3>1, <1>2
  <2>4. ASSUME NEW i \in 1..k PROVE u[i] = v[i]
    <3>1. (n - k) + i \in 1..n /\ (l - n) + ((n - k) + i) = (l - k) + i
      OBVIOUS
    <3> QED BY <3>1, <1>2, <2>2, <2>3
  <2> QED BY <2>2, <2>3, <2>4, SeqEqual DEF Text
<1> QED BY <1>2, <1>3

\* What the last characters of a path name does not depend on the others.
LEMMA FoundShift ==
  ASSUME NEW tree, Tree(tree), NEW full \in Text, NEW n \in 0..Len(full)
  PROVE  \A k \in 0..n : FoundAt(tree, full)[k] = FoundAt(tree, RestOf(full, n))[k]
<1>1. PICK r \in Text : /\ r = RestOf(full, n) /\ Len(r) = n
                        /\ \A k \in 0..n : RestOf(r, k) = RestOf(full, k)
  BY RestOfRest
<1>2. PICK f : /\ f = FoundAt(tree, full) /\ f[0] = [group \in 0..Len(tree) |-> None]
               /\ \A k \in 1..Len(full) :
                    f[k] = FoundIn(tree, k, RestOf(full, k), f[k - SectionEnd(RestOf(full, k)) - 1])
  BY FoundSteps
<1>3. PICK h : /\ h = FoundAt(tree, r) /\ h[0] = [group \in 0..Len(tree) |-> None]
               /\ \A k \in 1..n :
                    h[k] = FoundIn(tree, k, RestOf(r, k), h[k - SectionEnd(RestOf(r, k)) - 1])
  BY <1>1, FoundSteps
<1>4. n \in Nat /\ \A k \in 1..n : k \in 1..Len(full) /\ k \in 0..n
  BY TextLen
<1>5. ASSUME NEW m \in 1..n PROVE \E p \in 0..m - 1 : f[p] = h[p] => f[m] = h[m]
  <2>1. PICK s : s = SectionEnd(RestOf(full, m)) /\ s \in 0..m
    BY <1>4, RestIs
  <2>2. /\ f[m] = FoundIn(tree, m, RestOf(full, m), f[m - s - 1])
        /\ h[m] = FoundIn(tree, m, RestOf(full, m), h[m - s - 1])
    BY <2>1, <1>1, <1>2, <1>3, <1>4
  <2>3. CASE s = m
    <3>1. f[m] = h[m]
      BY <2>1, <2>2, <2>3 DEF FoundIn
    <3>2. 0 \in 0..m - 1
      BY <1>4
    <3> QED BY <3>1, <3>2
  <2>4. CASE s # m
    <3>1. m - s - 1 \in 0..m - 1
      BY <2>1, <2>4
    <3> QED BY <3>1, <2>2
  <2> QED BY <2>3, <2>4
<1>6. \A m \in 0..n : f[m] = h[m]
  <2>1. f[0] = h[0]
    BY <1>2, <1>3
  <2>2. MadeAlike(n, f, h)
    BY <2>1, <1>5 DEF MadeAlike
  <2>3. AlikeTo(n, f, h)
    BY <2>2, <1>4, Alike
  <2> QED BY <2>3 DEF AlikeTo
<1> QED BY <1>1, <1>2, <1>3, <1>6

LEMMA ChildIs ==
  ASSUME NEW tree, Tree(tree), NEW g, NEW x
  PROVE  /\ Child(tree, g, x) \in DOMAIN tree \cup {None}
         /\ g = None => Child(tree, g, x) = None
         /\ Child(tree, g, x) # None => /\ Child(tree, g, x) \in Namesakes(tree, g, x)
                                        /\ \A c \in Namesakes(tree, g, x) : Child(tree, g, x) <= c
         /\ Child(tree, g, x) = None <=> Namesakes(tree, g, x) = {}
<1>1. /\ DOMAIN tree = 1..Len(tree)
      /\ \A n \in 1..Len(tree) : tree[n].parent \in Nat
  BY TreeIs
<1>2. Namesakes(tree, g, x) \in SUBSET Nat /\ Namesakes(tree, g, x) \subseteq DOMAIN tree
  BY <1>1 DEF Namesakes
<1>3. Namesakes(tree, g, x) # {} => /\ Min(Namesakes(tree, g, x)) \in Namesakes(tree, g, x)
                               /\ \A c \in Namesakes(tree, g, x) : Min(Namesakes(tree, g, x)) <= c
  BY <1>2, SmallestIs
<1>4. \A c \in DOMAIN tree : c # None
  BY <1>1 DEF None
<1>5. g = None => Namesakes(tree, g, x) = {}
  BY <1>1 DEF Namesakes, None
<1> QED BY <1>2, <1>3, <1>4, <1>5 DEF Child

LEMMA BelowStep ==
  ASSUME NEW tree, Tree(tree), NEW full \in Text, full # <<>>, NEW g \in 0..Len(tree),
         NEW c, c = Child(tree, g, unescapeGroup(Section(full)))
  PROVE  Below(tree, full, g)
           = IF c = None \/ SectionEnd(full) = Len(full) THEN c
             ELSE Below(tree, AfterSection(full), c)
<1>1. PICK l \in Nat : l = Len(full) /\ l # 0 /\ l \in 1..l
  <2>1. Len(full) \in Nat /\ Len(full) # 0
    BY TextLen, EmptySeq DEF Text
  <2> QED BY <2>1
<1>2. RestOf(full, l) = full
  <2>1. l - l + 1 = 1
    BY <1>1
  <2> QED BY <2>1, <1>1, SubSeqFull DEF RestOf, Text
<1>3. PICK s \in 0..l : s = SectionEnd(full)
  <2>1. SectionEnd(RestOf(full, l)) \in 0..l
    BY <1>1, RestIs
  <2> QED BY <2>1, <1>2
<1>4. g # None /\ g \in 0..Len(tree)
  BY TreeIs DEF None
<1>5. Below(tree, full, g) = FoundIn(tree, l, full, FoundAt(tree, full)[l - s - 1])[g]
  <2>1. FoundAt(tree, full)[l] = FoundIn(tree, l, full, FoundAt(tree, full)[l - s - 1])
    <3>1. \A n \in 1..Len(full) :
            FoundAt(tree, full)[n]
              = FoundIn(tree, n, RestOf(full, n),
                        FoundAt(tree, full)[n - SectionEnd(RestOf(full, n)) - 1])
      BY FoundSteps
    <3>2. l \in 1..Len(full)
      BY <1>1
    <3>3. FoundAt(tree, full)[l]
            = FoundIn(tree, l, RestOf(full, l), FoundAt(tree, full)[l - SectionEnd(RestOf(full, l)) - 1])
      BY <3>1, <3>2
    <3> QED BY <3>3, <1>2, <1>3
  <2> QED BY <2>1, <1>1, <1>4 DEF Below
<1>6. HitsAt(tree, full, g) = Namesakes(tree, g, unescapeGroup(Section(full)))
  BY DEF HitsAt, Namesakes
<1>7. FoundIn(tree, l, full, FoundAt(tree, full)[l - s - 1])[g]
        = IF c = None THEN None ELSE IF s = l THEN c ELSE FoundAt(tree, full)[l - s - 1][c]
  <2>1. c = None <=> HitsAt(tree, full, g) = {}
    BY <1>6, ChildIs
  <2>2. HitsAt(tree, full, g) # {} => c = Min(HitsAt(tree, full, g))
    BY <1>6 DEF Child
  <2> QED BY <1>3, <1>4, <2>1, <2>2 DEF FoundIn
<1>8. CASE c = None \/ s = l
  BY <1>1, <1>3, <1>5, <1>7, <1>8
<1>9. CASE c # None /\ s # l
  <2>1. PICK n \in 0..l : n = l - s - 1
    BY <1>1, <1>3, <1>9
  <2>2. AfterSection(full) = RestOf(full, n)
    <3>1. l - n + 1 = s + 2
      BY <2>1
    <3> QED BY <3>1, <1>1, <1>3 DEF AfterSection, RestOf
  <2>3. Len(RestOf(full, n)) = n
    BY <1>1, <2>1, RestOfRest
  <2>4. FoundAt(tree, full)[n] = FoundAt(tree, RestOf(full, n))[n]
    <3>1. n \in 0..n /\ n \in 0..Len(full)
      BY <1>1, <2>1
    <3> QED BY <3>1, FoundShift
  <2> QED BY <1>1, <1>3, <1>5, <1>7, <1>9, <2>1, <2>2, <2>3, <2>4 DEF Below
<1> QED BY <1>8, <1>9

LEMMA BelowIs ==
  ASSUME NEW tree, Tree(tree), NEW q \in Text, NEW g \in 0..Len(tree) \cup {None}
  PROVE  /\ Below(tree, q, g) \in DOMAIN tree \cup {None}
         /\ Below(tree, q, g) \in 0..Len(tree) \cup {None}
         /\ findGroup(tree, q) = Below(tree, q, 0)
<1>1. DOMAIN tree = 1..Len(tree) /\ Len(tree) \in Nat
  BY TreeIs
<1>2. Len(q) \in 0..Len(q)
  BY TextLen
<1>3. FoundAt(tree, q)[Len(q)] \in Answers(tree)
  BY <1>2, FoundSteps
<1>4. Below(tree, q, g) \in DOMAIN tree \cup {None}
  BY <1>3 DEF Below, Answers
<1>5. findGroup(tree, q) = Below(tree, q, 0)
  <2>1. findGroup(tree, q) = FoundAt(tree, q)[Len(q)][0]
    BY FoundSteps
  <2> QED BY <2>1 DEF Below, None
<1> QED BY <1>1, <1>4, <1>5

LEMMA BelowName ==
  ASSUME NEW tree, Tree(tree), NEW s \in Whole, NEW g \in 0..Len(tree) \cup {None}
  PROVE  /\ Below(tree, s, g) = Child(tree, g, unescapeGroup(s))
         /\ \A r \in Text : Below(tree, Joint(s, r), g) = Below(tree, r, Child(tree, g, unescapeGroup(s)))
<1>1. s \in Text /\ s # <<>> /\ Len(s) \in Nat
  BY WholeIs
<1>2. CASE g = None
  BY <1>2, ChildIs DEF Below
<1>3. CASE g # None
  <2>0. g \in 0..Len(tree)
    BY <1>3
  <2>1. SectionEnd(s) = Len(s) /\ Section(s) = s
    BY FirstSection, EmptySeq DEF Text
  <2>2. Below(tree, s, g) = Child(tree, g, unescapeGroup(s))
    BY <1>1, <2>0, <2>1, BelowStep
  <2>3. ASSUME NEW r \in Text
        PROVE  Below(tree, Joint(s, r), g) = Below(tree, r, Child(tree, g, unescapeGroup(s)))
    <3>1. PICK w \in Text : /\ w = Joint(s, r) /\ Len(w) = Len(s) + 1 + Len(r) /\ Len(r) \in Nat
      BY <1>1, JointIs
    <3>2. SectionEnd(w) = Len(s) /\ Section(w) = s /\ AfterSection(w) = r
      BY <3>1, FirstSection
    <3>3. w # <<>> /\ SectionEnd(w) # Len(w)
      <4>1. Len(<<>>) = 0
        OBVIOUS
      <4> QED BY <4>1, <1>1, <3>1, <3>2
    <3>4. PICK c : c = Child(tree, g, unescapeGroup(s))
      OBVIOUS
    <3>5. Below(tree, w, g) = IF c = None THEN c ELSE Below(tree, r, c)
      BY <2>0, <3>1, <3>2, <3>3, <3>4, BelowStep
    <3>6. c = None => Below(tree, r, c) = None
      BY DEF Below
    <3> QED BY <3>1, <3>4, <3>5, <3>6
  <2> QED BY <2>2, <2>3
<1> QED BY <1>2, <1>3

\* The paths along which one can be searched after the other.
Walks(tree) ==
  {q \in Routes : \A r \in Text, g \in 0..Len(tree) \cup {None} :
                    Below(tree, Joint(q, r), g) = Below(tree, r, Below(tree, q, g))}

LEMMA WholeWalks ==
  ASSUME NEW tree, Tree(tree), NEW s \in Whole
  PROVE  s \in Walks(tree)
BY BelowName, WholeIs DEF Walks

LEMMA JointTwice ==
  ASSUME NEW q \in Text, NEW e \in Text, NEW r \in Text
  PROVE  Joint(Joint(q, e), r) = Joint(q, Joint(e, r))
<1>1. PICK s \in Seq(Letters) : s = <<Sep>> /\ \A x \in Seq(Letters) : x \o s \in Seq(Letters)
  BY CodesIn, JoinIs DEF Text
<1>2. q \in Seq(Letters) /\ e \in Seq(Letters) /\ r \in Seq(Letters)
  BY DEF Text
<1>3. /\ q \o s \in Seq(Letters) /\ (q \o s) \o e \in Seq(Letters) /\ e \o s \in Seq(Letters)
      /\ s \o r \in Seq(Letters)
  BY <1>1, <1>2, ConcatProperties
<1>4. (((q \o s) \o e) \o s) \o r = ((q \o s) \o e) \o (s \o r)
  BY <1>1, <1>2, <1>3, ConcatAssociative
<1>5. ((q \o s) \o e) \o (s \o r) = (q \o s) \o (e \o (s \o r))
  BY <1>1, <1>2, <1>3, ConcatAssociative
<1>6. e \o (s \o r) = (e \o s) \o r
  BY <1>1, <1>2, <1>3, ConcatAssociative
<1> QED BY <1>1, <1>4, <1>5, <1>6 DEF Joint

LEMMA WalksOn ==
  ASSUME NEW tree, Tree(tree), NEW q \in Walks(tree), NEW e \in Whole
  PROVE  /\ Joint(q, e) \in Walks(tree)
         /\ \A g \in 0..Len(tree) \cup {None} :
              Below(tree, Joint(q, e), g) = Child(tree, Below(tree, q, g), unescapeGroup(e))
<1>1. /\ q \in Routes /\ q \in Text /\ e \in Text
      /\ \A r \in Text, g \in 0..Len(tree) \cup {None} :
           Below(tree, Joint(q, r), g) = Below(tree, r, Below(tree, q, g))
  BY WholeIs DEF Walks, Routes
<1>2. ASSUME NEW g \in 0..Len(tree) \cup {None}
      PROVE  /\ Below(tree, q, g) \in 0..Len(tree) \cup {None}
             /\ Below(tree, Joint(q, e), g) = Child(tree, Below(tree, q, g), unescapeGroup(e))
  <2>1. Below(tree, q, g) \in 0..Len(tree) \cup {None}
    BY <1>1, BelowIs
  <2>2. Below(tree, Joint(q, e), g) = Below(tree, e, Below(tree, q, g))
    BY <1>1
  <2> QED BY <2>1, <2>2, BelowName
<1>3. ASSUME NEW r \in Text, NEW g \in 0..Len(tree) \cup {None}
      PROVE  Below(tree, Joint(Joint(q, e), r), g) = Below(tree, r, Below(tree, Joint(q, e), g))
  <2>1. Joint(Joint(q, e), r) = Joint(q, Joint(e, r)) /\ Joint(e, r) \in Text
    BY <1>1, JointTwice, JointIs
  <2>2. Below(tree, Joint(q, Joint(e, r)), g) = Below(tree, Joint(e, r), Below(tree, q, g))
    BY <1>1, <2>1
  <2>3. Below(tree, Joint(e, r), Below(tree, q, g))
          = Below(tree, r, Child(tree, Below(tree, q, g), unescapeGroup(e)))
    BY <1>2, BelowName
  <2> QED BY <2>1, <2>2, <2>3, <1>2
<1>4. Joint(q, e) \in Routes
  BY <1>1, NameBelow
<1> QED BY <1>2, <1>3, <1>4 DEF Walks


-----------------------------------------------------------------------------
(* findOrCreateGroup makes what is missing of a path name by name.          *)

\* What a path leads to in a tree, and what becomes of the tree for its sake; the
\* empty path is the safe's.
Onto(q, e)     == IF q = <<>> THEN e ELSE Joint(q, e)
Led(tree, q)   == IF q = <<>> THEN 0 ELSE Below(tree, q, 0)
Made(tree, q)  == MadeAt(tree, q)[Len(q)]

LEMMA PrefixOfPrefix ==
  ASSUME NEW w \in Text, NEW m \in 0..Len(w)
  PROVE  /\ SubSeq(w, 1, m) \in Text /\ Len(SubSeq(w, 1, m)) = m
         /\ \A k \in 0..m : SubSeq(SubSeq(w, 1, m), 1, k) = SubSeq(w, 1, k)
<1>1. \A x \in Text : \A j \in 0..Len(x) :
        /\ SubSeq(x, 1, j) \in Text /\ Len(SubSeq(x, 1, j)) = j
        /\ \A i \in 1..j : SubSeq(x, 1, j)[i] = x[i]
  <2> SUFFICES ASSUME NEW x \in Text, NEW j \in 0..Len(x)
               PROVE  /\ SubSeq(x, 1, j) \in Text /\ Len(SubSeq(x, 1, j)) = j
                      /\ \A i \in 1..j : SubSeq(x, 1, j)[i] = x[i]
    OBVIOUS
  <2>1. 0 \in Nat /\ j \in Nat /\ 0 + j <= Len(x) /\ 0 + 1 = 1 /\ 0 + j = j
    BY TextLen
  <2>2. /\ SubSeq(x, 0 + 1, 0 + j) \in Text /\ Len(SubSeq(x, 0 + 1, 0 + j)) = j
        /\ \A i \in 1..j : SubSeq(x, 0 + 1, 0 + j)[i] = x[0 + i]
    BY <2>1, PartIs
  <2>3. \A i \in 1..j : 0 + i = i
    OBVIOUS
  <2> QED BY <2>1, <2>2, <2>3
<1>2. PICK p \in Text : /\ p = SubSeq(w, 1, m) /\ Len(p) = m
                        /\ \A i \in 1..m : p[i] = w[i]
  BY <1>1
<1>3. ASSUME NEW k \in 0..m PROVE SubSeq(p, 1, k) = SubSeq(w, 1, k)
  <2>1. k \in 0..Len(p) /\ k \in 0..Len(w)
    BY <1>2, TextLen
  <2>2. PICK u \in Text : u = SubSeq(p, 1, k) /\ Len(u) = k /\ \A i \in 1..k : u[i] = p[i]
    BY <1>1, <2>1
  <2>3. PICK v \in Text : v = SubSeq(w, 1, k) /\ Len(v) = k /\ \A i \in 1..k : v[i] = w[i]
    BY <1>1, <2>1
  <2>4. \A i \in 1..k : u[i] = v[i]
    <3>1. \A i \in 1..k : i \in 1..m
      OBVIOUS
    <3> QED BY <3>1, <2>2, <2>3, <1>2
  <2> QED BY <2>2, <2>3, <2>4, SeqEqual DEF Text
<1> QED BY <1>2, <1>3

\* What the first characters of a path name does not depend on the others.
LEMMA MadeShift ==
  ASSUME NEW tree, Tree(tree), NEW path \in Text, NEW n \in 0..Len(path)
  PROVE  MadeAt(tree, path)[n] = Made(tree, SubSeq(path, 1, n))
<1>1. PICK r \in Text : /\ r = SubSeq(path, 1, n) /\ Len(r) = n
                        /\ \A k \in 0..n : SubSeq(r, 1, k) = SubSeq(path, 1, k)
  BY PrefixOfPrefix
<1>2. PICK f : /\ f = MadeAt(tree, path) /\ f[0] = [tree |-> tree, group |-> 0]
               /\ \A k \in 1..Len(path) :
                    f[k] = MadeFor(tree, SubSeq(path, 1, k), f[LastCut(SubSeq(path, 1, k))])
  BY MadeSteps
<1>3. PICK h : /\ h = MadeAt(tree, r) /\ h[0] = [tree |-> tree, group |-> 0]
               /\ \A k \in 1..Len(r) :
                    h[k] = MadeFor(tree, SubSeq(r, 1, k), h[LastCut(SubSeq(r, 1, k))])
  BY MadeSteps
<1>4. n \in Nat /\ \A k \in 1..n : k \in 1..Len(path) /\ k \in 0..n /\ k \in 1..Len(r)
  BY <1>1, TextLen
<1>5. ASSUME NEW m \in 1..n PROVE \E p \in 0..m - 1 : f[p] = h[p] => f[m] = h[m]
  <2>1. PICK x : x = SubSeq(path, 1, m) /\ x = SubSeq(r, 1, m)
    BY <1>1, <1>4
  <2>2. LastCut(x) \in 0..m - 1
    BY <1>4, <2>1, PrefixIs
  <2>3. f[m] = MadeFor(tree, x, f[LastCut(x)]) /\ h[m] = MadeFor(tree, x, h[LastCut(x)])
    BY <1>2, <1>3, <1>4, <2>1
  <2> QED BY <2>2, <2>3
<1>6. \A m \in 0..n : f[m] = h[m]
  <2>1. f[0] = h[0]
    BY <1>2, <1>3
  <2>2. MadeAlike(n, f, h)
    BY <2>1, <1>5 DEF MadeAlike
  <2>3. AlikeTo(n, f, h)
    BY <2>2, <1>4, Alike
  <2> QED BY <2>3 DEF AlikeTo
<1>7. n \in 0..n
  BY <1>4
<1> QED BY <1>1, <1>2, <1>3, <1>6, <1>7 DEF Made

LEMMA OntoIs ==
  ASSUME NEW q, q = <<>> \/ q \in Routes, NEW e \in Whole
  PROVE  /\ Onto(q, e) \in Routes /\ Onto(q, e) \in Text /\ Onto(q, e) # <<>>
         /\ thisGroup(Onto(q, e)) = e
         /\ LastCut(Onto(q, e)) \in 0..Len(Onto(q, e))
         /\ SubSeq(Onto(q, e), 1, LastCut(Onto(q, e))) = q
<1>1. e \in Text /\ e # <<>> /\ e \in Routes /\ Len(e) \in Nat
  BY WholeIs DEF Routes
<1>2. CASE q = <<>>
  <2>1. LastCut(e) = 0 /\ thisGroup(e) = e
    BY LastName
  <2>2. SubSeq(e, 1, 0) = <<>>
    <3>1. 0 \in 0..Len(e)
      BY <1>1
    <3>2. SubSeq(e, 1, 0) \in Text /\ Len(SubSeq(e, 1, 0)) = 0
      BY <1>1, <3>1, PrefixOfPrefix
    <3> QED BY <3>2, EmptySeq DEF Text
  <2> QED BY <1>1, <1>2, <2>1, <2>2 DEF Onto
<1>3. CASE q \in Routes
  <2>1. /\ Joint(q, e) \in Routes /\ LastCut(Joint(q, e)) = Len(q)
        /\ thisGroup(Joint(q, e)) = e /\ SubSeq(Joint(q, e), 1, Len(q)) = q
    BY <1>3, NameBelow
  <2>2. q # <<>> /\ q \in Text
    BY <1>3 DEF Routes
  <2>3. Len(Joint(q, e)) = Len(q) + 1 + Len(e) /\ Len(q) \in Nat /\ Len(e) \in Nat
    BY <2>2, <1>1, JointIs
  <2>4. Joint(q, e) \in Text /\ Joint(q, e) # <<>>
    BY <2>1 DEF Routes
  <2> QED BY <2>1, <2>2, <2>3, <2>4 DEF Onto
<1> QED BY <1>2, <1>3

LEMMA MadeOfNone ==
  ASSUME NEW tree, Tree(tree)
  PROVE  Made(tree, <<>>) = [tree |-> tree, group |-> 0]
<1>1. <<>> \in Text /\ Len(<<>>) = 0
  BY EmptySeq DEF Text
<1> QED BY <1>1, MadeSteps DEF Made

LEMMA MadeOnto ==
  ASSUME NEW tree, Tree(tree), NEW q, q = <<>> \/ q \in Routes, NEW e \in Whole
  PROVE  Made(tree, Onto(q, e))
           = IF Led(tree, Onto(q, e)) # None
             THEN [tree |-> tree, group |-> Led(tree, Onto(q, e))]
             ELSE [tree  |-> Append(Made(tree, q).tree, [name   |-> unescapeGroup(e),
                                                         parent |-> Made(tree, q).group]),
                   group |-> Len(Made(tree, q).tree) + 1]
<1>1. PICK w \in Text : w = Onto(q, e) /\ w # <<>> /\ thisGroup(w) = e
                        /\ LastCut(w) \in 0..Len(w) /\ SubSeq(w, 1, LastCut(w)) = q
  BY OntoIs
<1>2. Len(w) \in 1..Len(w) /\ SubSeq(w, 1, Len(w)) = w
  <2>1. Len(w) \in Nat /\ Len(w) # 0
    BY <1>1, TextLen, EmptySeq DEF Text
  <2> QED BY <2>1, SubSeqFull DEF Text
<1>3. MadeAt(tree, w)[Len(w)] = MadeFor(tree, w, MadeAt(tree, w)[LastCut(w)])
  <2>1. \A k \in 1..Len(w) :
          MadeAt(tree, w)[k] = MadeFor(tree, SubSeq(w, 1, k), MadeAt(tree, w)[LastCut(SubSeq(w, 1, k))])
    BY MadeSteps
  <2> QED BY <2>1, <1>2
<1>4. MadeAt(tree, w)[LastCut(w)] = Made(tree, q)
  BY <1>1, MadeShift
<1>5. findGroup(tree, w) = Led(tree, w)
  BY <1>1, BelowIs, TreeIs DEF Led
<1>6. Made(tree, w) = MadeFor(tree, w, Made(tree, q))
  BY <1>3, <1>4 DEF Made
<1> QED BY <1>1, <1>5, <1>6 DEF MadeFor

LEMMA LedOnto ==
  ASSUME NEW tree, Tree(tree), NEW q, q = <<>> \/ q \in Walks(tree), NEW e \in Whole
  PROVE  /\ Onto(q, e) \in Walks(tree) /\ Onto(q, e) # <<>>
         /\ Led(tree, <<>>) = 0
         /\ Led(tree, Onto(q, e)) = Child(tree, Led(tree, q), unescapeGroup(e))
<1>1. 0 \in 0..Len(tree) \cup {None}
  BY TreeIs
<1>2. e # <<>> /\ e \in Walks(tree)
  BY WholeIs, WholeWalks
<1>3. CASE q = <<>>
  <2>1. Below(tree, e, 0) = Child(tree, 0, unescapeGroup(e))
    BY <1>1, BelowName
  <2> QED BY <1>2, <1>3, <2>1 DEF Onto, Led
<1>4. CASE q \in Walks(tree)
  <2>1. q \in Routes /\ q # <<>>
    BY <1>4 DEF Walks, Routes
  <2>2. /\ Joint(q, e) \in Walks(tree)
        /\ Below(tree, Joint(q, e), 0) = Child(tree, Below(tree, q, 0), unescapeGroup(e))
    BY <1>1, <1>4, WalksOn
  <2>3. Joint(q, e) # <<>>
    BY <2>2 DEF Walks, Routes
  <2> QED BY <2>1, <2>2, <2>3 DEF Onto, Led
<1> QED BY <1>3, <1>4

-----------------------------------------------------------------------------
(* The path of a group whose name and those above it are plain.             *)

Plain(t) == \A n \in DOMAIN t : PlainName(t[n].name)

\* groupName without the separator it begins with.
PathTo(t, g) == DropLeading(groupName(t, g))

\* What groupName makes of plain names.
Full == {<<Sep>> \o q : q \in Routes \cap Returns}

LEMMA FullStep ==
  ASSUME NEW x, x = <<>> \/ x \in Full, NEW s \in Text, PlainName(s)
  PROVE  /\ x \o <<Sep>> \o escapeGroup(s) \in Full
         /\ DropLeading(x \o <<Sep>> \o escapeGroup(s)) = Onto(DropLeading(x), escapeGroup(s))
         /\ DropLeading(<<>>) = <<>>
<1>1. PICK e \in Whole : e = escapeGroup(s) /\ e \in Returns
  BY PlainEscapes
<1>2. e \in Text /\ e # <<>> /\ e \in Routes
  BY WholeIs DEF Routes
<1>3. PICK p \in Text : p = <<Sep>> /\ p \in Returns /\ p \in Seq(Letters)
  <2>1. Sep \in Letters \ {Esc}
    BY LettersAssumption DEF Sep, Esc
  <2>2. <<Sep>> \in Returns
    BY <2>1, AtomsReturn
  <2> QED BY <2>2 DEF Returns, Text
<1>4. DropLeading(<<>>) = <<>>
  <2>1. <<>> \in Text /\ Len(<<>>) = 0
    BY EmptySeq DEF Text
  <2>2. Leading(<<>>) = 0
    BY <2>1, LeadingIs
  <2>3. 0 \in 0..Len(<<>>)
    BY <2>1
  <2>4. SubSeq(<<>>, 1, 0) \in Text /\ Len(SubSeq(<<>>, 1, 0)) = 0
    BY <2>1, <2>3, PrefixOfPrefix
  <2>5. SubSeq(<<>>, 1, 0) = <<>>
    BY <2>4, EmptySeq DEF Text
  <2> QED BY <2>1, <2>2, <2>5 DEF DropLeading
<1>5. CASE x = <<>>
  <2>1. <<>> \o p = p
    BY <1>3, ConcatEmptySeq
  <2>2. p \o e \in Full
    BY <1>1, <1>2, <1>3 DEF Full
  <2>3. DropLeading(p \o e) = e
    BY <1>2, <1>3, DropsSep
  <2> QED BY <1>1, <1>3, <1>4, <1>5, <2>1, <2>2, <2>3 DEF Onto
<1>6. CASE x \in Full
  <2>1. PICK q \in Routes : q \in Returns /\ x = p \o q
    BY <1>3, <1>6 DEF Full
  <2>2. q \in Text /\ q # <<>>
    BY DEF Routes
  <2>3. DropLeading(x) = q
    BY <1>3, <2>1, DropsSep
  <2>4. PICK j : j = Joint(q, e) /\ j \in Routes /\ j = q \o p \o e
    BY <1>3, NameBelow DEF Joint
  <2>5. j \in Returns
    <3>1. q \o p \in Returns
      BY <1>3, <2>1, ReturnsConcat
    <3>2. (q \o p) \o e \in Returns
      BY <1>1, <3>1, ReturnsConcat
    <3> QED BY <2>4, <3>2
  <2>6. x \o p \o e = p \o j
    <3>1. q \in Seq(Letters) /\ e \in Seq(Letters)
      BY <1>2, <2>2 DEF Text
    <3>2. q \o p \in Seq(Letters)
      BY <1>3, <3>1, ConcatProperties
    <3>3. (p \o q) \o p = p \o (q \o p)
      BY <1>3, <3>1, ConcatAssociative
    <3>4. (p \o (q \o p)) \o e = p \o ((q \o p) \o e)
      BY <1>3, <3>1, <3>2, ConcatAssociative
    <3> QED BY <2>1, <2>4, <3>3, <3>4
  <2>7. p \o j \in Full /\ DropLeading(p \o j) = j
    BY <1>3, <2>4, <2>5, DropsSep DEF Full
  <2> QED BY <1>1, <1>3, <1>4, <2>2, <2>3, <2>4, <2>6, <2>7 DEF Onto
<1> QED BY <1>5, <1>6

LEMMA FullNames ==
  ASSUME NEW t, Tree(t), Plain(t)
  PROVE  /\ groupName(t, 0) = <<>> /\ PathTo(t, 0) = <<>>
         /\ \A g \in 1..Len(t) :
              /\ groupName(t, g) \in Full
              /\ PathTo(t, g) = Onto(PathTo(t, t[g].parent), escapeGroup(t[g].name))
              /\ escapeGroup(t[g].name) \in Whole
              /\ unescapeGroup(escapeGroup(t[g].name)) = t[g].name
<1> DEFINE h == [g \in 0..Len(t) |-> groupName(t, g)]
           X == Full \cup {<<>>}
<1>1. /\ Len(t) \in Nat
      /\ \A n \in 1..Len(t) : t[n].name \in Text /\ t[n].parent \in Nat /\ t[n].parent < n
      /\ \A n \in 1..Len(t) : PlainName(t[n].name)
  BY TreeIs DEF Plain
<1>2. groupName(t, 0) = <<>>
  BY PathSteps
<1>3. h[0] \in X
  BY <1>1, <1>2
<1>4. ASSUME NEW m \in 1..Len(t), groupName(t, t[m].parent) \in X
      PROVE  /\ groupName(t, m) \in Full
             /\ PathTo(t, m) = Onto(PathTo(t, t[m].parent), escapeGroup(t[m].name))
  <2>1. PICK x : x = groupName(t, t[m].parent) /\ (x = <<>> \/ x \in Full)
    BY <1>4
  <2>2. PICK s \in Text : s = t[m].name /\ PlainName(s)
    BY <1>1
  <2>3. groupName(t, m) = x \o <<Sep>> \o escapeGroup(s)
    BY <2>1, <2>2, PathSteps
  <2>4. /\ x \o <<Sep>> \o escapeGroup(s) \in Full
        /\ DropLeading(x \o <<Sep>> \o escapeGroup(s)) = Onto(DropLeading(x), escapeGroup(s))
    BY <2>1, <2>2, FullStep
  <2> QED BY <2>1, <2>2, <2>3, <2>4 DEF PathTo
<1>5. ASSUME NEW m \in 1..Len(t) PROVE \E p \in 0..m - 1 : h[p] \in X => h[m] \in X
  <2>1. t[m].parent \in 0..m - 1 /\ t[m].parent \in 0..Len(t) /\ m \in 0..Len(t)
    BY <1>1
  <2>2. h[t[m].parent] = groupName(t, t[m].parent) /\ h[m] = groupName(t, m)
    BY <2>1
  <2> HIDE DEF h
  <2>3. h[t[m].parent] \in X => h[m] \in X
    BY <2>2, <1>4
  <2> QED BY <2>1, <2>3
<1>6. \A m \in 0..Len(t) : h[m] \in X
  <2> HIDE DEF h, X
  <2> QED BY <1>1, <1>3, <1>5, Downward
<1>7. \A g \in 1..Len(t) : groupName(t, t[g].parent) \in X
  <2> SUFFICES ASSUME NEW g \in 1..Len(t) PROVE groupName(t, t[g].parent) \in X
    OBVIOUS
  <2>1. t[g].parent \in 0..Len(t)
    BY <1>1
  <2> QED BY <2>1, <1>6
<1>8. PathTo(t, 0) = <<>>
  <2>1. DropLeading(<<>>) = <<>>
    <3>1. <<>> \in Text /\ Len(<<>>) = 0
      BY EmptySeq DEF Text
    <3>2. Leading(<<>>) = 0 /\ 0 \in 0..Len(<<>>)
      BY <3>1, LeadingIs
    <3>3. SubSeq(<<>>, 1, 0) = <<>>
      BY <3>1, <3>2, PrefixOfPrefix, EmptySeq DEF Text
    <3> QED BY <3>1, <3>2, <3>3 DEF DropLeading
  <2> QED BY <2>1, <1>2 DEF PathTo
<1>9. \A g \in 1..Len(t) : /\ escapeGroup(t[g].name) \in Whole
                            /\ unescapeGroup(escapeGroup(t[g].name)) = t[g].name
  BY <1>1, PlainEscapes
<1> HIDE DEF h, X
<1> QED BY <1>2, <1>4, <1>7, <1>8, <1>9

\* What a file has of a group's path leads findOrCreateGroup along the path.
LEMMA PathBack ==
  ASSUME NEW d, Tree(d.tree), Plain(d.tree), NEW e, d.entries[e].group \in 0..Len(d.tree),
         NEW fmt
  PROVE  /\ PathIn(fmt, d, e) \in Text
         /\ SearchPath(PathIn(fmt, d, e)) = PathTo(d.tree, d.entries[e].group)
<1>1. PathIn(fmt, d, e) \in Text
  BY PathIs
<1>2. PICK g \in 0..Len(d.tree) : g = d.entries[e].group
  OBVIOUS
<1>3. CASE g = 0
  <2>1. groupName(d.tree, g) = <<>> /\ PathTo(d.tree, g) = <<>>
    BY <1>3, FullNames
  <2>2. <<>> \in Text /\ Len(<<>>) = 0 /\ <<>> \in Returns
    BY EmptySeq, ReturnsConcat DEF Text
  <2>3. DropLeading(<<>>) = <<>>
    BY <2>1 DEF PathTo
  <2>4. parseGroup(readyGroup(<<>>)) = <<>>
    <3>1. readyGroup(<<>>) = Readied(<<>>) /\ Readied(<<>>) \in Text
      BY <2>2, <2>3, ScansAre DEF Returns, Shut
    <3>2. Parsed(Readied(<<>>)) = <<>>
      BY <2>2 DEF Returns
    <3> QED BY <3>1, <3>2, ScansAre
  <2>5. SearchPath(<<>>) = <<>>
    BY <2>3 DEF SearchPath
  <2> QED BY <1>1, <1>2, <2>1, <2>4, <2>5 DEF PathIn
<1>4. CASE g # 0
  <2>1. PICK q \in Routes : q \in Returns /\ groupName(d.tree, g) = <<Sep>> \o q
    <3>1. g \in 1..Len(d.tree)
      BY <1>4, TreeIs
    <3> QED BY <3>1, FullNames DEF Full
  <2>2. /\ DropLeading(<<Sep>> \o q) = q /\ SearchPath(<<Sep>> \o q) = q /\ SearchPath(q) = q
    BY DropsSep
  <2>3. PathTo(d.tree, g) = q
    BY <2>1, <2>2 DEF PathTo
  <2>4. parseGroup(readyGroup(<<Sep>> \o q)) = q
    <3>1. <<Sep>> \o q \in Text
      BY <1>2, <2>1, GroupNameIs DEF Sound
    <3>2. readyGroup(<<Sep>> \o q) = Readied(q) /\ Readied(q) \in Text
      BY <3>1, <2>1, <2>2, ScansAre DEF Returns, Shut
    <3>3. Parsed(Readied(q)) = q
      BY <2>1 DEF Returns
    <3> QED BY <3>2, <3>3, ScansAre
  <2> QED BY <1>1, <1>2, <2>1, <2>2, <2>3, <2>4 DEF PathIn
<1> QED BY <1>3, <1>4

-----------------------------------------------------------------------------
(* Where the groups of a safe are in another tree.                          *)

\* What holds of the safe, and of a group if it holds of its parent.
LEMMA TreeInduction ==
  ASSUME NEW t, Tree(t), NEW D, 0 \in D, \A m \in 1..Len(t) : t[m].parent \in D => m \in D
  PROVE  \A g \in 0..Len(t) : g \in D
<1> DEFINE h == [g \in 0..Len(t) |-> g]
<1>1. Len(t) \in Nat /\ \A n \in 1..Len(t) : t[n].parent \in Nat /\ t[n].parent < n
  BY TreeIs
<1>2. \A g \in 0..Len(t) : h[g] = g
  OBVIOUS
<1>3. 0 \in 0..Len(t) /\ \A m \in 1..Len(t) : /\ m \in 0..Len(t) /\ t[m].parent \in 0..Len(t)
                                              /\ t[m].parent \in 0..m - 1
  BY <1>1
<1> HIDE DEF h
<1>4. h[0] \in D
  BY <1>2, <1>3
<1>5. ASSUME NEW m \in 1..Len(t) PROVE \E p \in 0..m - 1 : h[p] \in D => h[m] \in D
  <2>1. h[t[m].parent] \in D => h[m] \in D
    BY <1>2, <1>3
  <2> QED BY <2>1, <1>3
<1>6. \A g \in 0..Len(t) : h[g] \in D
  BY <1>1, <1>4, <1>5, Downward
<1> QED BY <1>2, <1>6

\* A tree that has grown: the groups it had are where they were.
Extends(u, v) == Len(u) <= Len(v) /\ \A k \in 1..Len(u) : v[k] = u[k]

LEMMA ChildGrows ==
  ASSUME NEW u, Tree(u), NEW v, Tree(v), Extends(u, v), NEW g, NEW x, Child(u, g, x) # None
  PROVE  Child(v, g, x) = Child(u, g, x)
<1>1. /\ DOMAIN u = 1..Len(u) /\ DOMAIN v = 1..Len(v) /\ Len(u) \in Nat /\ Len(v) \in Nat
      /\ Len(u) <= Len(v) /\ \A k \in 1..Len(u) : v[k] = u[k]
  BY TreeIs DEF Extends
<1>2. PICK c \in 1..Len(u) : /\ c = Child(u, g, x) /\ c \in Namesakes(u, g, x)
                             /\ \A k \in Namesakes(u, g, x) : c <= k
  BY <1>1, ChildIs
<1>3. c \in Namesakes(v, g, x)
  <2>1. u[c].parent = g /\ u[c].name = x /\ v[c] = u[c] /\ c \in 1..Len(v)
    BY <1>1, <1>2 DEF Namesakes
  <2> QED BY <2>1, <1>1 DEF Namesakes
<1>4. PICK k \in 1..Len(v) : /\ k = Child(v, g, x) /\ k \in Namesakes(v, g, x)
                             /\ \A j \in Namesakes(v, g, x) : k <= j
  <2>1. Child(v, g, x) # None
    BY <1>3, ChildIs
  <2> QED BY <2>1, <1>1, ChildIs
<1>5. k <= c
  BY <1>3, <1>4
<1>6. k \in Namesakes(u, g, x)
  <2>1. k \in 1..Len(u)
    BY <1>1, <1>5
  <2>2. v[k].parent = g /\ v[k].name = x /\ v[k] = u[k]
    BY <2>1, <1>1, <1>4 DEF Namesakes
  <2> QED BY <2>1, <2>2, <1>1 DEF Namesakes
<1>7. c <= k
  BY <1>2, <1>6
<1>8. k = c
  BY <1>5, <1>7
<1> QED BY <1>2, <1>4, <1>8

\* Where the path of group g of t leads in another tree.
At(tree, t, g) == Led(tree, PathTo(t, g))

LEMMA AtSteps ==
  ASSUME NEW t, Tree(t), Plain(t), NEW tree, Tree(tree)
  PROVE  /\ At(tree, t, 0) = 0
         /\ \A g \in 1..Len(t) :
              At(tree, t, g) = Child(tree, At(tree, t, t[g].parent), t[g].name)
         /\ \A g \in 0..Len(t) : At(tree, t, g) \in 0..Len(tree) \cup {None}
         /\ Made(tree, PathTo(t, 0)) = [tree |-> tree, group |-> 0]
         /\ \A g \in 1..Len(t) :
              LET above == Made(tree, PathTo(t, t[g].parent))
              IN  Made(tree, PathTo(t, g))
                    = IF At(tree, t, g) # None
                      THEN [tree |-> tree, group |-> At(tree, t, g)]
                      ELSE [tree  |-> Append(above.tree, [name   |-> t[g].name,
                                                          parent |-> above.group]),
                            group |-> Len(above.tree) + 1]
<1> DEFINE D == {g \in 0..Len(t) : PathTo(t, g) = <<>> \/ PathTo(t, g) \in Walks(tree)}
<1>1. /\ Len(t) \in Nat
      /\ \A n \in 1..Len(t) : t[n].name \in Text /\ t[n].parent \in Nat /\ t[n].parent < n
  BY TreeIs
<1>2. /\ PathTo(t, 0) = <<>>
      /\ \A g \in 1..Len(t) :
           /\ PathTo(t, g) = Onto(PathTo(t, t[g].parent), escapeGroup(t[g].name))
           /\ escapeGroup(t[g].name) \in Whole
           /\ unescapeGroup(escapeGroup(t[g].name)) = t[g].name
  BY FullNames
<1>3. 0 \in D
  BY <1>1, <1>2
<1>4. ASSUME NEW m \in 1..Len(t), t[m].parent \in D PROVE m \in D
  <2>1. PICK q : q = PathTo(t, t[m].parent) /\ (q = <<>> \/ q \in Walks(tree))
    BY <1>4
  <2>2. Onto(q, escapeGroup(t[m].name)) \in Walks(tree)
    BY <2>1, <1>2, LedOnto
  <2>3. m \in 0..Len(t)
    BY <1>1
  <2> QED BY <2>1, <2>2, <2>3, <1>2
<1>5. \A g \in 0..Len(t) : g \in D
  <2> HIDE DEF D
  <2> QED BY <1>3, <1>4, TreeInduction
<1>6. ASSUME NEW g \in 1..Len(t)
      PROVE  \E q, e : /\ q = PathTo(t, t[g].parent) /\ e \in Whole /\ PathTo(t, g) = Onto(q, e)
                       /\ unescapeGroup(e) = t[g].name
                       /\ q = <<>> \/ (q \in Walks(tree) /\ q \in Routes)
  <2>1. t[g].parent \in 0..Len(t)
    BY <1>1
  <2>2. \A q \in Walks(tree) : q \in Routes
    BY DEF Walks
  <2> QED BY <2>1, <2>2, <1>2, <1>5
<1> HIDE DEF D
<1>7. ASSUME NEW g \in 1..Len(t)
      PROVE  At(tree, t, g) = Child(tree, At(tree, t, t[g].parent), t[g].name)
  <2>1. PICK q, e : /\ q = PathTo(t, t[g].parent) /\ e \in Whole /\ PathTo(t, g) = Onto(q, e)
                    /\ unescapeGroup(e) = t[g].name /\ (q = <<>> \/ q \in Walks(tree))
    BY <1>6
  <2>2. Led(tree, Onto(q, e)) = Child(tree, Led(tree, q), unescapeGroup(e))
    BY <2>1, LedOnto
  <2> QED BY <2>1, <2>2 DEF At
<1>8. ASSUME NEW g \in 1..Len(t)
      PROVE  LET above == Made(tree, PathTo(t, t[g].parent))
             IN  Made(tree, PathTo(t, g))
                   = IF At(tree, t, g) # None
                     THEN [tree |-> tree, group |-> At(tree, t, g)]
                     ELSE [tree  |-> Append(above.tree, [name   |-> t[g].name,
                                                         parent |-> above.group]),
                           group |-> Len(above.tree) + 1]
  <2>1. PICK q, e : /\ q = PathTo(t, t[g].parent) /\ e \in Whole /\ PathTo(t, g) = Onto(q, e)
                    /\ unescapeGroup(e) = t[g].name /\ (q = <<>> \/ q \in Routes)
    BY <1>6
  <2>2. Made(tree, Onto(q, e))
          = IF Led(tree, Onto(q, e)) # None
            THEN [tree |-> tree, group |-> Led(tree, Onto(q, e))]
            ELSE [tree  |-> Append(Made(tree, q).tree, [name   |-> unescapeGroup(e),
                                                        parent |-> Made(tree, q).group]),
                  group |-> Len(Made(tree, q).tree) + 1]
    BY <2>1, MadeOnto
  <2>3. PICK w : w = PathTo(t, g) /\ w = Onto(q, e)
    BY <2>1
  <2> QED BY <2>1, <2>2, <2>3 DEF At
<1>9. At(tree, t, 0) = 0 /\ Made(tree, PathTo(t, 0)) = [tree |-> tree, group |-> 0]
  BY <1>2, MadeOfNone DEF At, Led
<1>10. ASSUME NEW g \in 0..Len(t) PROVE At(tree, t, g) \in 0..Len(tree) \cup {None}
  <2>1. CASE g = 0
    <3>1. 0 \in 0..Len(tree)
      BY TreeIs
    <3> QED BY <2>1, <3>1, <1>9
  <2>2. CASE g # 0
    <3>1. g \in 1..Len(t)
      BY <2>2, <1>1
    <3>2. DOMAIN tree \subseteq 0..Len(tree)
      BY TreeIs
    <3> QED BY <3>1, <3>2, <1>7, ChildIs
  <2> QED BY <2>1, <2>2
<1> QED BY <1>7, <1>8, <1>9, <1>10

\* What a path leads to it still leads to when the tree has grown.
LEMMA AtGrows ==
  ASSUME NEW t, Tree(t), Plain(t), NEW u, Tree(u), NEW v, Tree(v), Extends(u, v)
  PROVE  \A g \in 0..Len(t) : At(u, t, g) # None => At(v, t, g) = At(u, t, g)
<1> DEFINE D == {g \in 0..Len(t) : At(u, t, g) # None => At(v, t, g) = At(u, t, g)}
<1>1. Len(t) \in Nat
  BY TreeIs
<1>2. 0 \in D
  BY <1>1, AtSteps
<1>3. ASSUME NEW m \in 1..Len(t), t[m].parent \in D PROVE m \in D
  <2>1. PICK p, x : p = t[m].parent /\ x = t[m].name
    OBVIOUS
  <2>2. At(u, t, m) = Child(u, At(u, t, p), x) /\ At(v, t, m) = Child(v, At(v, t, p), x)
    BY <2>1, AtSteps
  <2>3. At(u, t, m) # None => At(u, t, p) # None
    BY <2>2, ChildIs
  <2>4. At(u, t, p) # None => At(v, t, p) = At(u, t, p)
    BY <2>1, <1>3
  <2>5. At(u, t, m) # None => At(v, t, m) = At(u, t, m)
    BY <2>2, <2>3, <2>4, ChildGrows
  <2>6. m \in 0..Len(t)
    BY <1>1
  <2> QED BY <2>5, <2>6
<1>4. \A g \in 0..Len(t) : g \in D
  <2> HIDE DEF D
  <2> QED BY <1>2, <1>3, TreeInduction
<1> QED BY <1>4

-----------------------------------------------------------------------------
\* NamesOf names a group after its parent.
NamedAs(t, h) ==
  h = [n \in 0..Len(t) |-> IF n = 0 THEN <<>> ELSE Append(h[t[n].parent], t[n].name)]

LEMMA NamesSteps ==
  ASSUME NEW t, Tree(t)
  PROVE  /\ NamesOf(t, 0) = <<>>
         /\ \A g \in 1..Len(t) : NamesOf(t, g) = Append(NamesOf(t, t[g].parent), t[g].name)
<1> DEFINE N == Len(t)
           X == Seq(Text)
           prev == [m \in 1..N |-> t[m].parent]
           step == [y \in (1..N) \X X |-> Append(y[2], t[y[1]].name)]
<1>1. N \in Nat /\ \A n \in 1..N : t[n].name \in Text /\ t[n].parent \in Nat /\ t[n].parent < n
  BY TreeIs
<1>2. prev \in Smaller(N)
  BY <1>1 DEF Smaller
<1>3. step \in Steps(N, X)
  BY <1>1, AppendProperties DEF Steps
<1>4. PICK f : Descends(f, N, X, <<>>, prev, step)
  <2>1. <<>> \in X
    BY EmptySeq
  <2> HIDE DEF N, X, prev, step
  <2> QED BY <1>1, <1>2, <1>3, <2>1, Descent
<1>5. f \in [0..N -> X] /\ f[0] = <<>> /\ \A m \in 1..N : f[m] = step[<<m, f[prev[m]]>>]
  BY <1>4 DEF Descends
<1>6. ASSUME NEW m \in 1..N PROVE f[m] = Append(f[t[m].parent], t[m].name)
  <2>1. prev[m] = t[m].parent /\ t[m].parent \in 0..N
    BY <1>1
  <2> HIDE DEF X
  <2>2. f[t[m].parent] \in X
    BY <2>1, <1>5
  <2>3. f[m] = step[<<m, f[t[m].parent]>>]
    BY <2>1, <1>5
  <2> QED BY <2>2, <2>3
<1> HIDE DEF prev, step, X
<1>7. NamedAs(t, f)
  <2>1. f = [n \in 0..N |-> f[n]]
    BY <1>5
  <2>2. ASSUME NEW n \in 0..N
        PROVE  f[n] = IF n = 0 THEN <<>> ELSE Append(f[t[n].parent], t[n].name)
    <3>1. n # 0 => n \in 1..N
      BY <1>1
    <3> QED BY <3>1, <1>5, <1>6
  <2> QED BY <2>1, <2>2 DEF NamedAs
<1>8. PICK h : NamedAs(t, h) /\ \A g : NamesOf(t, g) = h[g]
  <2> DEFINE h == CHOOSE x : NamedAs(t, x)
  <2>1. NamedAs(t, h)
    BY <1>7
  <2>2. \A g : NamesOf(t, g) = h[g]
    BY DEF NamesOf, NamedAs
  <2> HIDE DEF h
  <2> QED BY <2>1, <2>2
<1>9. \A n \in 0..N : h[n] = IF n = 0 THEN <<>> ELSE Append(h[t[n].parent], t[n].name)
  BY <1>8 DEF NamedAs
<1>10. 0 \in 0..N /\ \A n \in 1..N : n \in 0..N /\ n # 0
  BY <1>1
<1> QED BY <1>8, <1>9, <1>10

\* A group has the same names where its path leads.
LEMMA SameNames ==
  ASSUME NEW t, Tree(t), Plain(t), NEW u, Tree(u)
  PROVE  \A g \in 0..Len(t) : At(u, t, g) # None => NamesOf(u, At(u, t, g)) = NamesOf(t, g)
<1> DEFINE D == {g \in 0..Len(t) : At(u, t, g) # None => NamesOf(u, At(u, t, g)) = NamesOf(t, g)}
<1>1. Len(t) \in Nat /\ DOMAIN u = 1..Len(u)
  BY TreeIs
<1>2. 0 \in D
  <2>1. NamesOf(u, 0) = <<>> /\ NamesOf(t, 0) = <<>> /\ At(u, t, 0) = 0
    BY AtSteps, NamesSteps
  <2> QED BY <1>1, <2>1
<1>3. ASSUME NEW m \in 1..Len(t), t[m].parent \in D PROVE m \in D
  <2> SUFFICES ASSUME At(u, t, m) # None PROVE NamesOf(u, At(u, t, m)) = NamesOf(t, m)
    BY <1>1
  <2>1. PICK p, x : p = t[m].parent /\ x = t[m].name
    OBVIOUS
  <2>2. PICK c : c = At(u, t, m) /\ c = Child(u, At(u, t, p), x) /\ c # None
    BY <2>1, AtSteps
  <2>3. c \in Namesakes(u, At(u, t, p), x) /\ At(u, t, p) # None
    BY <2>2, ChildIs
  <2>4. c \in 1..Len(u) /\ u[c].parent = At(u, t, p) /\ u[c].name = x
    BY <2>3, <1>1 DEF Namesakes
  <2>5. NamesOf(u, c) = Append(NamesOf(u, At(u, t, p)), x)
    BY <2>4, NamesSteps
  <2>6. NamesOf(t, m) = Append(NamesOf(t, p), x)
    BY <2>1, NamesSteps
  <2>7. NamesOf(u, At(u, t, p)) = NamesOf(t, p)
    BY <2>1, <2>3, <1>3
  <2> QED BY <2>2, <2>5, <2>6, <2>7
<1>4. \A g \in 0..Len(t) : g \in D
  <2> HIDE DEF D
  <2> QED BY <1>2, <1>3, TreeInduction
<1> QED BY <1>4

LEMMA ExtendsTwice ==
  ASSUME NEW u, Tree(u), NEW v, Tree(v), NEW w, Tree(w)
  PROVE  /\ Extends(u, u)
         /\ Extends(u, v) /\ Extends(v, w) => Extends(u, w)
<1>1. Len(u) \in Nat /\ Len(v) \in Nat /\ Len(w) \in Nat
  BY TreeIs
<1>2. Extends(u, u)
  BY <1>1 DEF Extends
<1>3. ASSUME Extends(u, v), Extends(v, w) PROVE Extends(u, w)
  <2>1. /\ Len(u) <= Len(v) /\ Len(v) <= Len(w)
        /\ \A k \in 1..Len(u) : v[k] = u[k]
        /\ \A k \in 1..Len(v) : w[k] = v[k]
    BY <1>3 DEF Extends
  <2>2. Len(u) <= Len(w) /\ \A k \in 1..Len(u) : k \in 1..Len(v)
    BY <1>1, <2>1
  <2> QED BY <2>1, <2>2 DEF Extends
<1> QED BY <1>2, <1>3

\* A group made at the end of a tree: nothing is in it, and it is the one of its
\* name if there was none.
LEMMA Appended ==
  ASSUME NEW u, Tree(u), NEW g \in 0..Len(u), NEW x \in Text
  PROVE  LET v == Append(u, [name |-> x, parent |-> g])
         IN  /\ Tree(v) /\ Extends(u, v) /\ Len(v) = Len(u) + 1 /\ Len(v) \in Nat
             /\ Namesakes(u, g, x) = {} => Child(v, g, x) = Len(u) + 1
<1>1. PICK r : r = [tree |-> u, group |-> g] /\ r \in Grown(u)
  BY GroupIn
<1>2. PICK v : v = Append(u, [name |-> x, parent |-> g])
  OBVIOUS
<1>3. PICK n \in Nat : n = Len(u) /\ DOMAIN u = 1..n
  BY TreeIs
<1>4. Tree(v)
  <2>1. [tree |-> Append(r.tree, [name |-> x, parent |-> r.group]), group |-> Len(r.tree) + 1]
          \in Grown(u)
    BY <1>1, GroupMade
  <2>2. PICK s \in Grown(u) : s = [tree |-> v, group |-> Len(u) + 1]
    BY <1>1, <1>2, <2>1
  <2>3. Tree(s.tree)
    BY GrownIs
  <2> QED BY <2>2, <2>3
<1>5. /\ Len(v) = n + 1 /\ v[n + 1] = [name |-> x, parent |-> g] /\ \A k \in 1..n : v[k] = u[k]
  <2>1. u \in Trees /\ [name |-> x, parent |-> g] \in [name : Text, parent : Nat]
    BY <1>3 DEF Tree, Trees
  <2>2. /\ Len(Append(u, [name |-> x, parent |-> g])) = Len(u) + 1
        /\ Append(u, [name |-> x, parent |-> g])[Len(u) + 1] = [name |-> x, parent |-> g]
        /\ \A i \in 1..Len(u) : Append(u, [name |-> x, parent |-> g])[i] = u[i]
    BY <2>1, AppendProperties DEF Trees
  <2> QED BY <2>2, <1>2, <1>3
<1>6. Extends(u, v)
  BY <1>3, <1>5 DEF Extends
<1>7. ASSUME Namesakes(u, g, x) = {} PROVE Child(v, g, x) = n + 1
  <2>1. DOMAIN v = 1..n + 1
    BY <1>4, <1>5, TreeIs
  <2>2. Namesakes(v, g, x) = {n + 1}
    <3>1. n + 1 \in Namesakes(v, g, x)
      BY <1>5, <2>1 DEF Namesakes
    <3>2. ASSUME NEW k \in 1..n + 1, k # n + 1, v[k].parent = g, v[k].name = x PROVE FALSE
      <4>1. k \in 1..n
        BY <3>2
      <4>2. k \in Namesakes(u, g, x)
        BY <4>1, <3>2, <1>3, <1>5 DEF Namesakes
      <4> QED BY <4>2, <1>7
    <3> QED BY <3>1, <3>2, <2>1 DEF Namesakes
  <2>3. Child(v, g, x) # None => Child(v, g, x) \in {n + 1}
    BY <2>2, <1>4, ChildIs
  <2>4. Child(v, g, x) # None
    BY <2>2, <1>4, ChildIs
  <2> QED BY <2>3, <2>4
<1> QED BY <1>2, <1>3, <1>4, <1>5, <1>6, <1>7

\* No group is in the last one of a tree.
LEMMA LastIsEmpty ==
  ASSUME NEW u, Tree(u), NEW x
  PROVE  Namesakes(u, Len(u), x) = {}
<1>1. /\ DOMAIN u = 1..Len(u) /\ Len(u) \in Nat
      /\ \A n \in 1..Len(u) : u[n].parent < n /\ u[n].parent \in Nat
  BY TreeIs
<1>2. ASSUME NEW c \in 1..Len(u), u[c].parent = Len(u) PROVE FALSE
  BY <1>1, <1>2
<1> QED BY <1>1, <1>2 DEF Namesakes

\* What findOrCreateGroup answers for the path of a group is where the path leads
\* afterwards, and it makes what is missing at the end of the tree.
MakesGroup(tree, t, g) ==
  LET r == Made(tree, PathTo(t, g))
  IN  /\ Tree(r.tree) /\ Extends(tree, r.tree) /\ r.group \in 0..Len(r.tree)
      /\ At(r.tree, t, g) = r.group
      /\ IF At(tree, t, g) = None THEN r.group = Len(r.tree)
         ELSE r.tree = tree /\ r.group = At(tree, t, g)

LEMMA MadeAlong ==
  ASSUME NEW t, Tree(t), Plain(t), NEW tree, Tree(tree)
  PROVE  \A g \in 0..Len(t) : MakesGroup(tree, t, g)
<1> DEFINE D == {g \in 0..Len(t) : MakesGroup(tree, t, g)}
<1>1. /\ Len(t) \in Nat
      /\ \A n \in 1..Len(t) : t[n].name \in Text /\ t[n].parent \in Nat /\ t[n].parent < n
  BY TreeIs
<1>2. 0 \in D
  <2>1. At(tree, t, 0) = 0 /\ Made(tree, PathTo(t, 0)) = [tree |-> tree, group |-> 0]
    BY AtSteps
  <2>2. 0 \in 0..Len(tree) /\ 0 # None
    BY TreeIs DEF None
  <2>3. Extends(tree, tree)
    BY ExtendsTwice
  <2> QED BY <1>1, <2>1, <2>2, <2>3 DEF MakesGroup
<1>3. ASSUME NEW m \in 1..Len(t), t[m].parent \in D PROVE m \in D
  <2>1. m \in 0..Len(t) /\ t[m].parent \in 0..Len(t)
    BY <1>1
  <2>2. PICK p \in 0..Len(t), x \in Text : p = t[m].parent /\ x = t[m].name
    BY <1>1, <2>1
  <2>3. PICK above : above = Made(tree, PathTo(t, p))
    OBVIOUS
  <2>4. /\ Tree(above.tree) /\ Extends(tree, above.tree) /\ above.group \in 0..Len(above.tree)
        /\ At(above.tree, t, p) = above.group
        /\ IF At(tree, t, p) = None THEN above.group = Len(above.tree)
           ELSE above.tree = tree /\ above.group = At(tree, t, p)
    BY <1>3, <2>2, <2>3 DEF MakesGroup
  <2>5. PICK r : /\ r = Made(tree, PathTo(t, m))
                 /\ r = IF At(tree, t, m) # None
                        THEN [tree |-> tree, group |-> At(tree, t, m)]
                        ELSE [tree  |-> Append(above.tree, [name   |-> x, parent |-> above.group]),
                              group |-> Len(above.tree) + 1]
    BY <2>2, <2>3, AtSteps
  <2>6. At(tree, t, m) = Child(tree, At(tree, t, p), x)
    BY <2>2, AtSteps
  <2>7. CASE At(tree, t, m) # None
    <3>1. r.tree = tree /\ r.group = At(tree, t, m)
      BY <2>5, <2>7
    <3>2. At(tree, t, m) \in 0..Len(tree)
      BY <2>1, <2>7, AtSteps
    <3>3. Extends(tree, tree)
      BY ExtendsTwice
    <3> QED BY <2>1, <2>5, <2>7, <3>1, <3>2, <3>3 DEF MakesGroup
  <2>8. CASE At(tree, t, m) = None
    <3>1. PICK v : /\ v = Append(above.tree, [name |-> x, parent |-> above.group])
                   /\ r.tree = v /\ r.group = Len(above.tree) + 1
      BY <2>5, <2>8
    <3>2. /\ Tree(v) /\ Extends(above.tree, v) /\ Len(v) = Len(above.tree) + 1 /\ Len(v) \in Nat
          /\ Namesakes(above.tree, above.group, x) = {} => Child(v, above.group, x) = Len(above.tree) + 1
      BY <2>4, <3>1, Appended
    <3>3. Namesakes(above.tree, above.group, x) = {}
      <4>1. CASE At(tree, t, p) = None
        BY <2>4, <4>1, LastIsEmpty
      <4>2. CASE At(tree, t, p) # None
        BY <2>4, <2>6, <2>8, <4>2, ChildIs
      <4> QED BY <4>1, <4>2
    <3>4. At(v, t, m) = Child(v, above.group, x)
      <4>1. above.group # None
        BY <2>4, TreeIs DEF None
      <4>2. At(v, t, p) = above.group
        BY <2>2, <2>4, <3>2, <4>1, AtGrows
      <4> QED BY <2>2, <3>2, <4>2, AtSteps
    <3>5. Extends(tree, v)
      BY <2>4, <3>2, ExtendsTwice
    <3>6. r.group = Len(v) /\ r.group \in 0..Len(v)
      BY <3>1, <3>2
    <3> QED BY <2>1, <2>5, <2>8, <3>1, <3>2, <3>3, <3>4, <3>5, <3>6 DEF MakesGroup
  <2> QED BY <2>7, <2>8
<1>4. \A g \in 0..Len(t) : g \in D
  <2> HIDE DEF D
  <2> QED BY <1>2, <1>3, TreeInduction
<1> QED BY <1>4

-----------------------------------------------------------------------------
(* Entry by entry, the groups come back.                                    *)

LEMMA PlacedAt ==
  ASSUME NEW d, SafeIs(d), Plain(d.tree), NEW fmt
  PROVE  LET p == Placed(fmt, d)
         IN  /\ Tree(p[LastId].tree)
             /\ \A e \in Ids : /\ p[e].group = At(p[LastId].tree, d.tree, d.entries[e].group)
                               /\ p[e].group # None
<1> DEFINE N == LastId
           G(e) == d.entries[e].group
<1>1. PICK p : /\ p = Placed(fmt, d) /\ N \in Nat
               /\ \A e \in 1..N : p[e] = findOrCreateGroup(p[e - 1].tree, PathIn(fmt, d, e))
               /\ \A e \in 0..N : p[e] \in Grown(<<>>)
  BY PlacedSteps
<1>2. /\ \A e \in 0..N : Tree(p[e].tree)
      /\ \A e \in 1..N : e \in 0..N /\ e - 1 \in 0..N
  <2>1. \A e \in 0..N : Tree(p[e].tree)
    BY <1>1, NoGroups, GrownIs
  <2> QED BY <1>1, <2>1
<1>3. Tree(d.tree) /\ \A e \in 1..N : G(e) \in 0..Len(d.tree)
  BY EntryIs DEF SafeIs, Ids
<1>4. ASSUME NEW e \in 1..N
      PROVE  /\ Extends(p[e - 1].tree, p[e].tree)
             /\ At(p[e].tree, d.tree, G(e)) = p[e].group /\ p[e].group # None
  <2>1. Tree(p[e - 1].tree)
    BY <1>2
  <2>2. p[e] = Made(p[e - 1].tree, PathTo(d.tree, G(e)))
    <3>1. /\ PathIn(fmt, d, e) \in Text
          /\ SearchPath(PathIn(fmt, d, e)) = PathTo(d.tree, d.entries[e].group)
      BY <1>3, PathBack
    <3>2. findOrCreateGroup(p[e - 1].tree, PathIn(fmt, d, e))
            = MadeAt(p[e - 1].tree, SearchPath(PathIn(fmt, d, e)))[Len(SearchPath(PathIn(fmt, d, e)))]
      BY <2>1, <3>1, MadeIs
    <3> QED BY <1>1, <3>1, <3>2 DEF Made
  <2>3. MakesGroup(p[e - 1].tree, d.tree, G(e))
    BY <1>3, <2>1, MadeAlong
  <2>4. /\ Extends(p[e - 1].tree, p[e].tree) /\ At(p[e].tree, d.tree, G(e)) = p[e].group
        /\ p[e].group \in 0..Len(p[e].tree)
    BY <2>2, <2>3 DEF MakesGroup
  <2>5. p[e].group # None
    BY <2>4, <1>2, TreeIs DEF None
  <2> QED BY <2>4, <2>5
<1>5. ASSUME NEW e \in 1..N PROVE Extends(p[e].tree, p[N].tree)
  <2> DEFINE D == {k \in Nat : e + k <= N => Extends(p[e].tree, p[e + k].tree)}
  <2>1. 0 \in D
    <3>1. e + 0 = e
      OBVIOUS
    <3>2. Extends(p[e].tree, p[e].tree)
      BY <1>2, ExtendsTwice
    <3> QED BY <3>1, <3>2
  <2>2. ASSUME NEW k \in Nat, k \in D PROVE k + 1 \in D
    <3> SUFFICES ASSUME e + (k + 1) <= N PROVE Extends(p[e].tree, p[e + (k + 1)].tree)
      OBVIOUS
    <3>1. e + (k + 1) \in 1..N /\ (e + (k + 1)) - 1 = e + k /\ e + k <= N
          /\ e \in 0..N /\ e + k \in 0..N /\ e + (k + 1) \in 0..N
      BY <1>1
    <3>2. Extends(p[e].tree, p[e + k].tree)
      BY <3>1, <2>2
    <3>3. Extends(p[e + k].tree, p[e + (k + 1)].tree)
      BY <3>1, <1>4
    <3>4. Tree(p[e].tree) /\ Tree(p[e + k].tree) /\ Tree(p[e + (k + 1)].tree)
      BY <3>1, <1>2
    <3> QED BY <3>2, <3>3, <3>4, ExtendsTwice
  <2> HIDE DEF D
  <2>3. N - e \in D
    <3>1. N - e \in Nat
      BY <1>1
    <3> QED BY <3>1, <2>1, <2>2, SetInduction
  <2>4. e + (N - e) = N
    BY <1>1
  <2> QED BY <2>3, <2>4, <1>1 DEF D
<1>6. N \in 0..N
  BY <1>1
<1>7. \A e \in 1..N : At(p[N].tree, d.tree, G(e)) = p[e].group
  <2> SUFFICES ASSUME NEW e \in 1..N PROVE At(p[N].tree, d.tree, G(e)) = p[e].group
    OBVIOUS
  <2>1. PICK u, v : /\ u = p[e].tree /\ v = p[N].tree /\ Tree(u) /\ Tree(v) /\ Extends(u, v)
                    /\ At(u, d.tree, G(e)) = p[e].group /\ p[e].group # None
    BY <1>2, <1>4, <1>5, <1>6
  <2>2. At(v, d.tree, G(e)) = At(u, d.tree, G(e))
    BY <1>3, <2>1, AtGrows
  <2> QED BY <2>1, <2>2
<1> QED BY <1>1, <1>2, <1>4, <1>6, <1>7 DEF Ids

\* What GroupsKept says of a safe and what has become of it.
SameGroups(d, c) ==
  \A e, f \in Ids : /\ NamesOf(c.tree, c.entries[e].group) = NamesOf(d.tree, d.entries[e].group)
                    /\ d.entries[e].group = d.entries[f].group
                         => c.entries[e].group = c.entries[f].group

LEMMA PlacedBack ==
  ASSUME NEW d, SafeIs(d), Plain(d.tree), NEW fmt, NEW c,
         c.tree = Placed(fmt, d)[LastId].tree,
         \A e \in Ids : c.entries[e].group = Placed(fmt, d)[e].group
  PROVE  SameGroups(d, c)
<1>1. PICK p : p = Placed(fmt, d)
  OBVIOUS
<1>2. /\ Tree(c.tree)
      /\ \A e \in Ids : /\ c.entries[e].group = At(c.tree, d.tree, d.entries[e].group)
                        /\ c.entries[e].group # None
  BY PlacedAt
<1>3. Tree(d.tree) /\ \A e \in Ids : d.entries[e].group \in 0..Len(d.tree)
  BY EntryIs DEF SafeIs
<1>4. ASSUME NEW e \in Ids
      PROVE  NamesOf(c.tree, c.entries[e].group) = NamesOf(d.tree, d.entries[e].group)
  <2>1. PICK g \in 0..Len(d.tree) : g = d.entries[e].group
    BY <1>3
  <2>2. c.entries[e].group = At(c.tree, d.tree, g) /\ At(c.tree, d.tree, g) # None
    BY <1>2, <2>1
  <2>3. NamesOf(c.tree, At(c.tree, d.tree, g)) = NamesOf(d.tree, g)
    BY <1>2, <1>3, <2>2, SameNames
  <2> QED BY <2>1, <2>2, <2>3
<1> QED BY <1>2, <1>4 DEF SameGroups

\* The groups WithGroups puts the entries in.
LEMMA WithGroupsAre ==
  ASSUME NEW d, SafeIs(d), NEW fmt
  PROVE  /\ WithGroups(fmt, d).tree = Placed(fmt, d)[LastId].tree
         /\ \A e \in Ids : WithGroups(fmt, d).entries[e].group = Placed(fmt, d)[e].group
<1>1. PICK p : p = Placed(fmt, d)
  OBVIOUS
<1>2. WithGroups(fmt, d).tree = p[LastId].tree
  BY <1>1 DEF WithGroups
<1>3. ASSUME NEW e \in Ids PROVE WithGroups(fmt, d).entries[e].group = p[e].group
  <2>1. WithGroups(fmt, d).entries[e] = [d.entries[e] EXCEPT !.group = p[e].group]
    BY <1>1 DEF WithGroups
  <2>2. d.entries[e] \in EntriesIn(d.tree)
    BY DEF SafeIs
  <2>3. [d.entries[e] EXCEPT !.group = p[e].group].group = p[e].group
    BY <2>2 DEF EntriesIn
  <2> QED BY <2>1, <2>3
<1> QED BY <1>1, <1>2, <1>3

\* A load opens a safe whose entries are in the groups they were in.
LEMMA GroupsOfLoad ==
  ASSUME FormatsInv, Load, pc' = "open", file.fmt # "v1", Plain(doc.tree)
  PROVE  SameGroups(doc, doc')
<1>1. SafeIs(doc)
  BY DEF FormatsInv
<1>2. CASE Load2
  <2>1. PICK d, c : /\ d = WithGroups("v2", doc) /\ c = doc' /\ c.tree = d.tree
                    /\ \A e \in Ids : c.entries[e] = Through2(d.entries[e], NowAt[rounds][e],
                                                             FreshAt[rounds][e])
    BY <1>2, Opens2
  <2>2. /\ c.tree = Placed("v2", doc)[LastId].tree
        /\ \A e \in Ids : d.entries[e].group = Placed("v2", doc)[e].group
    BY <1>1, <2>1, WithGroupsAre
  <2>3. ASSUME NEW e \in Ids PROVE c.entries[e].group = d.entries[e].group
    <3>1. PICK g \in 0..Len(d.tree) : d.entries[e] = InGroup(doc.entries[e], g) /\ d.entries[e].group = g
      BY <1>1, <2>1, Kept2
    <3>2. doc.entries[e] \in EntriesIn(doc.tree)
      BY <1>1 DEF SafeIs
    <3>3. PICK now \in Stamps, id \in Stamps :
            c.entries[e] = Through2(InGroup(doc.entries[e], g), now, id)
      <4>1. pc = "saved"
        BY <1>2 DEF Load2
      <4> QED BY <2>1, <3>1, <4>1, OwnStamps
    <3> QED BY <3>1, <3>2, <3>3, Through2Is
  <2>4. SameGroups(doc, c)
    BY <1>1, <2>2, <2>3, PlacedBack
  <2> QED BY <2>1, <2>4
<1>3. CASE LoadText
  <2>1. PICK d : d = WithGroups("txt", doc)
    OBVIOUS
  <2>2. PICK c : /\ c = doc' /\ c.tree = d.tree
                 /\ \A e \in Ids : /\ Readable(doc, e)
                                   /\ c.entries[e] = InGroup(ThroughText(doc, e, NowAt[rounds][e]),
                                                             d.entries[e].group)
    BY <1>3, <2>1, TextOpens
  <2>3. /\ c.tree = Placed("txt", doc)[LastId].tree
        /\ \A e \in Ids : d.entries[e].group = Placed("txt", doc)[e].group
    BY <1>1, <2>1, <2>2, WithGroupsAre
  <2>4. ASSUME NEW e \in Ids PROVE c.entries[e].group = d.entries[e].group
    <3>1. PICK now : now = NowAt[rounds][e]
      OBVIOUS
    <3>2. ThroughText(doc, e, now) = AfterText(doc.entries[e], now)
      BY <1>1, <2>2, KeptText
    <3>3. doc.entries[e] \in EntriesIn(doc.tree)
      BY <1>1 DEF SafeIs
    <3>4. InGroup(AfterText(doc.entries[e], now), d.entries[e].group).group = d.entries[e].group
      BY <3>3 DEF InGroup, AfterText, EntriesIn
    <3> QED BY <2>2, <3>1, <3>2, <3>4
  <2>5. SameGroups(doc, c)
    BY <1>1, <2>3, <2>4, PlacedBack
  <2> QED BY <2>2, <2>5
<1>4. CASE LoadXml
  <2>1. /\ doc'.tree = doc.tree
        /\ \A e \in Ids : doc'.entries[e] = ThroughXml(doc.entries[e])
    BY <1>4, OpensXml
  <2>2. ASSUME NEW e \in Ids PROVE doc'.entries[e].group = doc.entries[e].group
    <3>1. doc.entries[e] \in EntriesIn(doc.tree)
      BY <1>1 DEF SafeIs
    <3> QED BY <2>1, <3>1, KeptXml
  <2> QED BY <2>1, <2>2 DEF SameGroups
<1>5. CASE Load1
  BY <1>5 DEF Load1
<1> QED BY <1>2, <1>3, <1>4, <1>5 DEF Load

\* GroupsKept, for all names that are not empty and do not end in an escape
\* character, and groups as deep as one likes: the path groupName (or saveGroup)
\* writes leads findGroup where findOrCreateGroup has put the group when the
\* path came up first, and what other entries add to the tree later changes
\* nothing of that.
THEOREM GroupsComeBack == FormatsSpec => GroupsKept
<1>1. FormatsInv /\ [FormatsNext]_formatsVars =>
        [pc = "saved" /\ pc' = "open" /\ file.fmt # "v1"
           /\ (\A n \in DOMAIN file.doc.tree : PlainName(file.doc.tree[n].name))
         => \A e, f \in Ids :
              /\ NamesOf(doc'.tree, doc'.entries[e].group)
                   = NamesOf(file.doc.tree, file.doc.entries[e].group)
              /\ file.doc.entries[e].group = file.doc.entries[f].group
                   => doc'.entries[e].group = doc'.entries[f].group]_formatsVars
  <2> SUFFICES ASSUME FormatsInv, FormatsNext, pc = "saved", pc' = "open", file.fmt # "v1",
                      \A n \in DOMAIN file.doc.tree : PlainName(file.doc.tree[n].name)
               PROVE  SameGroups(file.doc, doc')
    BY DEF SameGroups
  <2>1. Load
    BY DEF FormatsNext, Save, SetDefaultUser
  <2>2. file.doc = doc
    BY <2>1, LoadsAre
  <2>3. Plain(doc.tree)
    BY <2>2 DEF Plain
  <2> QED BY <2>1, <2>2, <2>3, GroupsOfLoad
<1> QED BY <1>1, FormatsAlways, PTL DEF FormatsSpec, GroupsKept
================================================================================
