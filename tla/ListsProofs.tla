---------------------------- MODULE ListsProofs -----------------------------
(***************************************************************************)
(* Facts about lists that the proofs of the components share: what         *)
(* Dropped leaves of a list, what RemoveAt and Append make of one, and     *)
(* the least and the greatest element of a set of natural numbers.         *)
(*                                                                         *)
(* Dropped is a recursive function.  Where a fact about it needs induction *)
(* over the length, the proof takes the shortest list, or the first place, *)
(* for which the fact fails (LeastElement) and shows that there is none.   *)
(***************************************************************************)
EXTENDS Lists, Integers, SequencesExt, WellFoundedInduction, TLAPS

\* A non-empty set of natural numbers has a smallest element.
LEMMA LeastElement ==
  ASSUME NEW T \in SUBSET Nat, T # {}
  PROVE  \E x \in T : \A y \in T : x <= y
<1>1. PICK x \in T : \A y \in T : ~ (<<y, x>> \in OpToRel(<, Nat))
  BY NatLessThanWellFounded, WFMin
<1>2. \A y \in T : ~ (y < x)
  BY <1>1 DEF OpToRel
<1>3. \A y \in T : y \in Nat /\ x \in Nat
  BY <1>1
<1>4. \A y \in T : x <= y
  BY <1>2, <1>3
<1> QED
  BY <1>4

\* One step of the recursion.
Next1(s, X, g, i) ==
  IF i = 0 THEN <<>> ELSE IF s[i] \in X THEN g[i - 1] ELSE Append(g[i - 1], s[i])

\* The recursion of Dropped defines a function, whose last value Dropped is.
LEMMA Defined ==
  ASSUME NEW S, NEW s \in Seq(S), NEW X
  PROVE  \E f : f = [i \in 0 .. Len(s) |-> Next1(s, X, f, i)] /\ Dropped(s, X) = f[Len(s)]
<1> DEFINE Good(g, m) == g = [i \in 0 .. m |-> Next1(s, X, g, i)]
<1>1. \A m \in Nat : \E g : Good(g, m)
  <2> DEFINE T == {m \in Nat : ~ \E g : Good(g, m)}
  <2> SUFFICES ASSUME T # {} PROVE FALSE
    OBVIOUS
  <2>1. PICK m \in T : \A y \in T : m <= y
    BY LeastElement
  <2>2. CASE m = 0
    <3> DEFINE g == [i \in 0 .. 0 |-> <<>>]
    <3>1. \A i \in 0 .. 0 : Next1(s, X, g, i) = <<>>
      BY DEF Next1
    <3>2. Good(g, 0)
      BY <3>1
    <3> QED
      BY <2>1, <2>2, <3>2
  <2>3. CASE m # 0
    <3>1. m - 1 \in Nat /\ m - 1 \notin T
      BY <2>1, <2>3
    <3>2. PICK g : Good(g, m - 1)
      BY <3>1
    <3> DEFINE h == [i \in 0 .. m |-> IF i < m THEN g[i] ELSE Next1(s, X, g, m)]
    <3>3. \A i \in 0 .. m - 1 : g[i] = Next1(s, X, g, i)
      BY <3>2
    <3>4. \A i \in 0 .. m : h[i] = IF i < m THEN g[i] ELSE Next1(s, X, g, m)
      OBVIOUS
    <3>5. \A i \in 0 .. m : Next1(s, X, h, i) = Next1(s, X, g, i)
      BY <3>4, <2>1 DEF Next1
    <3>6. Good(h, m)
      BY <3>3, <3>4, <3>5, <2>1
    <3> QED
      BY <2>1, <3>6
  <2> QED
    BY <2>2, <2>3
<1> DEFINE F == CHOOSE g : Good(g, Len(s))
<1>2. Good(F, Len(s))
  BY <1>1
<1>3. Dropped(s, X) = F[Len(s)]
  BY DEF Dropped, Next1
<1> QED
  BY <1>2, <1>3

\* What is left of s: a sequence of its elements outside X, all of them, each at
\* the place its own place in s gives it.
Embeds(g, r, s, X) ==
  /\ g \in [1 .. Len(r) -> 1 .. Len(s)]
  /\ \A j \in 1 .. Len(r) : s[g[j]] \notin X /\ r[j] = s[g[j]]
  /\ \A j, k \in 1 .. Len(r) : j < k => g[j] < g[k]
  /\ \A k \in 1 .. Len(s) : s[k] \notin X => \E j \in 1 .. Len(r) : g[j] = k

\* Dropped leaves such a sequence.
LEMMA DroppedEmbeds ==
  ASSUME NEW S, NEW s \in Seq(S), NEW X
  PROVE  Dropped(s, X) \in Seq(S) /\ \E g : Embeds(g, Dropped(s, X), s, X)
<1>1. PICK f : f = [i \in 0 .. Len(s) |-> Next1(s, X, f, i)] /\ Dropped(s, X) = f[Len(s)]
  BY Defined
<1>0. Len(s) \in Nat
  OBVIOUS
<1>2. \A i \in 0 .. Len(s) : f[i] = Next1(s, X, f, i)
  BY <1>1
<1>3. f[0] = <<>>
  BY <1>0, <1>2 DEF Next1
<1>4. \A i \in 1 .. Len(s) : f[i] = IF s[i] \in X THEN f[i - 1] ELSE Append(f[i - 1], s[i])
  BY <1>0, <1>2 DEF Next1
<1> DEFINE Upto(i, g) ==
      /\ g \in [1 .. Len(f[i]) -> 1 .. i]
      /\ \A j \in 1 .. Len(f[i]) : s[g[j]] \notin X /\ f[i][j] = s[g[j]]
      /\ \A j, k \in 1 .. Len(f[i]) : j < k => g[j] < g[k]
      /\ \A k \in 1 .. i : s[k] \notin X => \E j \in 1 .. Len(f[i]) : g[j] = k
    Good(i) == f[i] \in Seq(S) /\ \E g : Upto(i, g)
    T == {i \in 0 .. Len(s) : ~ Good(i)}
<1>5. Good(0)
  <2>1. f[0] \in Seq(S) /\ Len(f[0]) = 0
    BY <1>3
  <2>2. Upto(0, <<>>)
    BY <2>1
  <2> QED
    BY <2>1, <2>2
<1>6. ASSUME NEW m \in 1 .. Len(s), Good(m - 1) PROVE Good(m)
  <2>1. PICK g : Upto(m - 1, g)
    BY <1>6
  <2> DEFINE q == f[m - 1]
             n == Len(q)
  <2>2. q \in Seq(S) /\ n \in Nat /\ s[m] \in S /\ m \in Nat \ {0}
    BY <1>0, <1>6
  <2>3. CASE s[m] \in X
    <3>1. f[m] = f[m - 1]
      BY <1>4, <1>6, <2>3
    <3>2. Upto(m, g)
      BY <1>6, <2>1, <2>3, <3>1
    <3> QED
      BY <1>6, <3>1, <3>2
  <2>4. CASE s[m] \notin X
    <3> DEFINE h == [j \in 1 .. n + 1 |-> IF j = n + 1 THEN m ELSE g[j]]
    <3>1. f[m] = Append(q, s[m])
      BY <1>4, <1>6, <2>4
    <3>2. /\ f[m] \in Seq(S) /\ Len(f[m]) = n + 1 /\ f[m][n + 1] = s[m]
          /\ \A j \in 1 .. n : f[m][j] = q[j]
      BY <2>2, <3>1
    <3>3. /\ g \in [1 .. n -> 1 .. m - 1]
          /\ \A j \in 1 .. n : s[g[j]] \notin X /\ q[j] = s[g[j]]
          /\ \A j, k \in 1 .. n : j < k => g[j] < g[k]
          /\ \A k \in 1 .. m - 1 : s[k] \notin X => \E j \in 1 .. n : g[j] = k
      BY <2>1
    <3> HIDE DEF Upto, Good, T, q, n
    <3>4. /\ \A j \in 1 .. n : h[j] = g[j] /\ g[j] \in 1 .. m - 1
          /\ h[n + 1] = m
      BY <2>2, <3>3
    <3>5. h \in [1 .. n + 1 -> 1 .. m]
      <4>1. \A j \in 1 .. n + 1 : (IF j = n + 1 THEN m ELSE g[j]) \in 1 .. m
        BY <2>2, <3>3
      <4> QED
        BY <4>1
    <3>6. \A j \in 1 .. n + 1 : s[h[j]] \notin X /\ f[m][j] = s[h[j]]
      BY <2>2, <2>4, <3>2, <3>3, <3>4
    <3>7. \A j, k \in 1 .. n + 1 : j < k => h[j] < h[k]
      <4> SUFFICES ASSUME NEW j \in 1 .. n + 1, NEW k \in 1 .. n + 1, j < k PROVE h[j] < h[k]
        OBVIOUS
      <4>1. j \in 1 .. n
        BY <2>2
      <4>2. CASE k = n + 1
        <5>1. h[k] = m /\ h[j] \in 1 .. m - 1
          BY <3>4, <4>1, <4>2
        <5> QED
          BY <2>2, <5>1
      <4>3. CASE k # n + 1
        BY <2>2, <3>3, <3>4, <4>1, <4>3
      <4> QED
        BY <4>2, <4>3
    <3>8. \A k \in 1 .. m : s[k] \notin X => \E j \in 1 .. n + 1 : h[j] = k
      <4> SUFFICES ASSUME NEW k \in 1 .. m, s[k] \notin X PROVE \E j \in 1 .. n + 1 : h[j] = k
        OBVIOUS
      <4>1. CASE k = m
        BY <2>2, <3>4, <4>1
      <4>2. CASE k # m
        <5>1. PICK j \in 1 .. n : g[j] = k
          BY <2>2, <3>3, <4>2
        <5> QED
          BY <2>2, <3>4, <5>1
      <4> QED
        BY <4>1, <4>2
    <3>9. Upto(m, h)
      BY <3>2, <3>5, <3>6, <3>7, <3>8 DEF Upto
    <3> QED
      BY <3>2, <3>9 DEF Good
  <2> QED
    BY <2>3, <2>4
<1>7. Good(Len(s))
  <2> HIDE DEF Good
  <2> SUFFICES ASSUME T # {} PROVE FALSE
    BY <1>0
  <2>1. T \in SUBSET Nat
    BY <1>0
  <2>2. PICK m \in T : \A y \in T : m <= y
    BY <2>1, LeastElement
  <2>3. m \in 1 .. Len(s)
    BY <1>0, <1>5, <2>2
  <2>4. m - 1 \in 0 .. Len(s) /\ m - 1 \notin T
    BY <1>0, <2>2, <2>3
  <2> QED
    BY <1>6, <2>2, <2>3, <2>4
<1>8. PICK g : Upto(Len(s), g)
  BY <1>7
<1>9. Embeds(g, f[Len(s)], s, X)
  BY <1>8 DEF Embeds
<1> QED
  BY <1>1, <1>7, <1>9

\* The elements that are left.
LEMMA DroppedSet ==
  ASSUME NEW S, NEW s \in Seq(S), NEW X
  PROVE  ToSet(Dropped(s, X)) = ToSet(s) \ X
<1>1. PICK g : Embeds(g, Dropped(s, X), s, X)
  BY DroppedEmbeds
<1>2. Dropped(s, X) \in Seq(S)
  BY DroppedEmbeds
<1> DEFINE r == Dropped(s, X)
<1>3. DOMAIN r = 1 .. Len(r) /\ DOMAIN s = 1 .. Len(s)
  BY <1>2
<1> HIDE DEF r
<1>4. \A j \in DOMAIN r : r[j] \in ToSet(s) \ X
  BY <1>1, <1>3 DEF Embeds, ToSet, r
<1>5. \A k \in DOMAIN s : s[k] \notin X => \E j \in DOMAIN r : r[j] = s[k]
  BY <1>1, <1>3 DEF Embeds, r
<1> QED
  BY <1>4, <1>5 DEF ToSet, r

\* What RemoveAt leaves.
LEMMA RemovedAt ==
  ASSUME NEW S, NEW s \in Seq(S), NEW i \in DOMAIN s
  PROVE  /\ RemoveAt(s, i) \in Seq(S) /\ Len(RemoveAt(s, i)) = Len(s) - 1
         /\ \A j \in 1 .. Len(s) - 1 : RemoveAt(s, i)[j] = IF j < i THEN s[j] ELSE s[j + 1]
<1> DEFINE a == SubSeq(s, 1, i - 1)
           b == SubSeq(s, i + 1, Len(s))
<1>1. i \in 1 .. Len(s) /\ Len(s) \in Nat
  OBVIOUS
<1>2. a \in Seq(S) /\ Len(a) = i - 1 /\ \A j \in 1 .. i - 1 : a[j] = s[j]
  BY <1>1
<1>3. b \in Seq(S) /\ Len(b) = Len(s) - i /\ \A j \in 1 .. Len(s) - i : b[j] = s[i + j]
  BY <1>1
<1> HIDE DEF a, b
<1>4. a \o b \in Seq(S) /\ Len(a \o b) = Len(s) - 1
  BY <1>1, <1>2, <1>3
<1>5. ASSUME NEW j \in 1 .. Len(s) - 1 PROVE (a \o b)[j] = IF j < i THEN s[j] ELSE s[j + 1]
  <2>1. CASE j < i
    BY <1>1, <1>2, <1>3, <2>1
  <2>2. CASE ~ (j < i)
    <3>1. (a \o b)[j] = b[j - (i - 1)]
      BY <1>1, <1>2, <1>3, <2>2
    <3>2. j - (i - 1) \in 1 .. Len(s) - i /\ i + (j - (i - 1)) = j + 1
      BY <1>1, <2>2
    <3> QED
      BY <1>3, <2>2, <3>1, <3>2
  <2> QED
    BY <2>1, <2>2
<1> QED
  BY <1>4, <1>5 DEF RemoveAt, a, b

\* The elements of lists that grow.
LEMMA GrownSet ==
  ASSUME NEW S, NEW s \in Seq(S), NEW e \in S, NEW t \in Seq(S)
  PROVE  /\ ToSet(Append(s, e)) = ToSet(s) \cup {e}
         /\ ToSet(s \o t) = ToSet(s) \cup ToSet(t)
<1>1. ToSet(Append(s, e)) = ToSet(s) \cup {e}
  <2>1. \A j \in DOMAIN Append(s, e) : Append(s, e)[j] \in ToSet(s) \cup {e}
    BY DEF ToSet
  <2>2. \A j \in DOMAIN s : j \in DOMAIN Append(s, e) /\ Append(s, e)[j] = s[j]
    OBVIOUS
  <2>3. Len(s) + 1 \in DOMAIN Append(s, e) /\ Append(s, e)[Len(s) + 1] = e
    OBVIOUS
  <2> QED
    BY <2>1, <2>2, <2>3 DEF ToSet
<1>2. ToSet(s \o t) = ToSet(s) \cup ToSet(t)
  <2>1. \A j \in DOMAIN (s \o t) : (s \o t)[j] \in ToSet(s) \cup ToSet(t)
    BY DEF ToSet
  <2>2. \A j \in DOMAIN s : j \in DOMAIN (s \o t) /\ (s \o t)[j] = s[j]
    OBVIOUS
  <2>3. \A j \in DOMAIN t : Len(s) + j \in DOMAIN (s \o t) /\ (s \o t)[Len(s) + j] = t[j]
    OBVIOUS
  <2>4. ToSet(s \o t) \subseteq ToSet(s) \cup ToSet(t)
    BY <2>1 DEF ToSet
  <2>5. ToSet(s) \subseteq ToSet(s \o t)
    BY <2>2 DEF ToSet
  <2>6. ToSet(t) \subseteq ToSet(s \o t)
    BY <2>3 DEF ToSet
  <2> QED
    BY <2>4, <2>5, <2>6
<1> QED
  BY <1>1, <1>2

\* A function on 1 .. n is a sequence.
LEMMA Listed ==
  ASSUME NEW S, NEW n \in Nat, NEW r, r = [i \in 1 .. n |-> r[i]],
         \A i \in 1 .. n : r[i] \in S
  PROVE  r \in Seq(S) /\ Len(r) = n
  OBVIOUS

\* g takes r into s, in order, past the element at i and no other.
Skips(g, r, s, i) ==
  /\ g \in [DOMAIN r -> DOMAIN s]
  /\ \A j \in DOMAIN r : g[j] # i /\ r[j] = s[g[j]]
  /\ \A j, k \in DOMAIN r : j < k => g[j] < g[k]
  /\ \A k \in DOMAIN s : k # i => \E j \in DOMAIN r : g[j] = k

\* Where what RemoveAt leaves comes from.
LEMMA RemovedEmbeds ==
  ASSUME NEW S, NEW s \in Seq(S), NEW i \in DOMAIN s
  PROVE  RemoveAt(s, i) \in Seq(S) /\ \E g : Skips(g, RemoveAt(s, i), s, i)
<1> DEFINE r == RemoveAt(s, i)
           g == [j \in DOMAIN r |-> IF j < i THEN j ELSE j + 1]
<1>1. /\ r \in Seq(S) /\ Len(r) = Len(s) - 1
      /\ \A j \in 1 .. Len(s) - 1 : r[j] = IF j < i THEN s[j] ELSE s[j + 1]
  BY RemovedAt
<1> HIDE DEF r
<1>2. /\ DOMAIN r = 1 .. Len(s) - 1 /\ DOMAIN s = 1 .. Len(s) /\ Len(s) \in Nat
      /\ i \in 1 .. Len(s)
  BY <1>1
<1>3. \A j \in DOMAIN r : g[j] \in DOMAIN s /\ g[j] # i /\ r[j] = s[g[j]]
  BY <1>1, <1>2
<1>4. \A j, k \in DOMAIN r : j < k => g[j] < g[k]
  BY <1>2
<1>5. \A k \in DOMAIN s : k # i => \E j \in DOMAIN r : g[j] = k
  <2> SUFFICES ASSUME NEW k \in DOMAIN s, k # i PROVE \E j \in DOMAIN r : g[j] = k
    OBVIOUS
  <2>1. CASE k < i
    <3>1. k \in DOMAIN r /\ g[k] = k
      BY <1>2, <2>1
    <3> QED
      BY <3>1
  <2>2. CASE ~ (k < i)
    <3>1. k - 1 \in DOMAIN r /\ ~ (k - 1 < i)
      BY <1>2, <2>2
    <3>2. g[k - 1] = k
      BY <1>2, <3>1
    <3> QED
      BY <3>1, <3>2
  <2> QED
    BY <2>1, <2>2
<1>6. g \in [DOMAIN r -> DOMAIN s]
  BY <1>3
<1> HIDE DEF g
<1>7. Skips(g, r, s, i)
  BY <1>3, <1>4, <1>5, <1>6 DEF Skips
<1> QED
  BY <1>1, <1>7 DEF r

\* Nothing of s is in X: nothing is unlinked.
LEMMA DroppedNone ==
  ASSUME NEW S, NEW s \in Seq(S), NEW X, \A k \in DOMAIN s : s[k] \notin X
  PROVE  Dropped(s, X) = s
<1>1. PICK f : f = [i \in 0 .. Len(s) |-> Next1(s, X, f, i)] /\ Dropped(s, X) = f[Len(s)]
  BY Defined
<1>0. Len(s) \in Nat /\ DOMAIN s = 1 .. Len(s)
  OBVIOUS
<1>2. \A i \in 0 .. Len(s) : f[i] = Next1(s, X, f, i)
  BY <1>1
<1>3. f[0] = <<>>
  BY <1>0, <1>2 DEF Next1
<1>4. ASSUME NEW i \in 1 .. Len(s) PROVE f[i] = Append(f[i - 1], s[i])
  <2>1. s[i] \notin X
    BY <1>0
  <2>2. i \in 0 .. Len(s) /\ i # 0
    BY <1>0
  <2>3. f[i] = Next1(s, X, f, i)
    BY <1>2, <2>2
  <2> QED
    BY <2>1, <2>2, <2>3 DEF Next1
<1> DEFINE Good(i) == f[i] \in Seq(S) /\ Len(f[i]) = i /\ \A j \in 1 .. i : f[i][j] = s[j]
           T == {i \in 0 .. Len(s) : ~ Good(i)}
<1>5. Good(0)
  BY <1>3
<1>6. ASSUME NEW m \in 1 .. Len(s), Good(m - 1) PROVE Good(m)
  <2>1. f[m] = Append(f[m - 1], s[m]) /\ s[m] \in S /\ m \in Nat
    BY <1>0, <1>4, <1>6
  <2> QED
    BY <1>6, <2>1
<1>7. Good(Len(s))
  <2> HIDE DEF Good
  <2> SUFFICES ASSUME T # {} PROVE FALSE
    BY <1>0
  <2>1. T \in SUBSET Nat
    BY <1>0
  <2>2. PICK m \in T : \A y \in T : m <= y
    BY <2>1, LeastElement
  <2>3. m \in 1 .. Len(s)
    BY <1>0, <1>5, <2>2
  <2>4. m - 1 \in 0 .. Len(s) /\ m - 1 \notin T
    BY <1>0, <2>2, <2>3
  <2> QED
    BY <1>6, <2>2, <2>3, <2>4
<1> QED
  BY <1>0, <1>1, <1>7

\* What is left of a list that grew.
LEMMA DroppedAppend ==
  ASSUME NEW S, NEW s \in Seq(S), NEW e \in S, NEW X
  PROVE  Dropped(Append(s, e), X) =
           IF e \in X THEN Dropped(s, X) ELSE Append(Dropped(s, X), e)
<1> DEFINE t == Append(s, e)
<1>1. PICK f : f = [i \in 0 .. Len(s) |-> Next1(s, X, f, i)] /\ Dropped(s, X) = f[Len(s)]
  BY Defined
<1>0. /\ Len(s) \in Nat /\ t \in Seq(S) /\ Len(t) = Len(s) + 1
      /\ t[Len(s) + 1] = e /\ \A i \in 1 .. Len(s) : t[i] = s[i]
  OBVIOUS
<1> HIDE DEF t
<1>2. PICK h : h = [i \in 0 .. Len(t) |-> Next1(t, X, h, i)] /\ Dropped(t, X) = h[Len(t)]
  BY Defined, <1>0
<1>3. \A i \in 0 .. Len(s) : f[i] = Next1(s, X, f, i)
  BY <1>1
<1>4. \A i \in 0 .. Len(s) + 1 : h[i] = Next1(t, X, h, i)
  BY <1>0, <1>2
<1> DEFINE T == {i \in 0 .. Len(s) : f[i] # h[i]}
<1>5. T = {}
  <2> SUFFICES ASSUME T # {} PROVE FALSE
    OBVIOUS
  <2>1. T \in SUBSET Nat
    BY <1>0
  <2>2. PICK m \in T : \A y \in T : m <= y
    BY <2>1, LeastElement
  <2>3. f[0] = <<>> /\ h[0] = <<>>
    BY <1>0, <1>3, <1>4 DEF Next1
  <2>4. m \in 1 .. Len(s) /\ m \in 0 .. Len(s) + 1
    BY <1>0, <2>2, <2>3
  <2>5. f[m - 1] = h[m - 1]
    BY <1>0, <2>2, <2>4
  <2>6. f[m] = Next1(s, X, f, m) /\ h[m] = Next1(t, X, h, m)
    BY <1>0, <1>3, <1>4, <2>4
  <2>7. t[m] = s[m] /\ m # 0
    BY <1>0, <2>4
  <2>8. f[m] = h[m]
    BY <2>5, <2>6, <2>7 DEF Next1
  <2> QED
    BY <2>2, <2>8
<1>6. h[Len(s)] = Dropped(s, X)
  BY <1>0, <1>1, <1>5
<1>7. h[Len(s) + 1] = Next1(t, X, h, Len(s) + 1)
  BY <1>0, <1>4
<1>8. Len(s) + 1 # 0 /\ (Len(s) + 1) - 1 = Len(s)
  BY <1>0
<1>9. h[Len(s) + 1] = IF e \in X THEN h[Len(s)] ELSE Append(h[Len(s)], e)
  BY <1>0, <1>7, <1>8 DEF Next1
<1> QED
  BY <1>0, <1>2, <1>6, <1>9 DEF t

\* A non-empty set of natural numbers below a bound has a largest element.
LEMMA GreatestElement ==
  ASSUME NEW T \in SUBSET Nat, T # {}, NEW b \in Nat, \A y \in T : y <= b
  PROVE  Max(T) \in T /\ \A y \in T : y <= Max(T)
<1> DEFINE D == {z \in Nat : b - z \in T}
<1>1. D # {}
  <2>1. PICK y \in T : TRUE
    OBVIOUS
  <2>2. b - y \in Nat /\ b - (b - y) = y
    BY <2>1
  <2> QED
    BY <2>1, <2>2
<1>2. PICK z \in D : \A w \in D : z <= w
  BY <1>1, LeastElement
<1>3. b - z \in T
  BY <1>2
<1>4. ASSUME NEW y \in T PROVE b - z >= y
  <2>1. b - y \in D
    <3>1. b - y \in Nat /\ b - (b - y) = y
      BY <1>4
    <3> QED
      BY <1>4, <3>1
  <2>2. z <= b - y /\ y \in Nat /\ z \in Nat
    BY <1>2, <1>4, <2>1
  <2> QED
    BY <2>2
<1>5. \E x \in T : \A y \in T : x >= y
  BY <1>3, <1>4
<1>6. Max(T) \in T /\ \A y \in T : Max(T) >= y
  BY <1>5 DEF Max
<1> QED
  BY <1>6

\* The end of a list and the rest.
LEMMA FrontLast ==
  ASSUME NEW S, NEW s \in Seq(S), NEW e \in S
  PROVE  /\ Front(Append(s, e)) = s /\ Last(Append(s, e)) = e
         /\ s # <<>> => /\ Front(s) \in Seq(S) /\ Len(Front(s)) = Len(s) - 1
                        /\ Last(s) \in S /\ s = Append(Front(s), Last(s))
<1>1. Last(Append(s, e)) = e
  BY DEF Last
<1>2. Front(Append(s, e)) = s
  BY DEF Front
<1>3. ASSUME s # <<>>
      PROVE  /\ Front(s) \in Seq(S) /\ Len(Front(s)) = Len(s) - 1
             /\ Last(s) \in S /\ s = Append(Front(s), Last(s))
  <2>1. Len(s) \in Nat /\ Len(s) >= 1
    BY <1>3
  <2>2. /\ Front(s) \in Seq(S) /\ Len(Front(s)) = Len(s) - 1
        /\ \A i \in 1 .. Len(s) - 1 : Front(s)[i] = s[i]
    <3>1. \A i \in 1 .. Len(s) - 1 : s[i] \in S
      BY <2>1
    <3>2. Front(s) = SubSeq(s, 1, Len(s) - 1)
      BY DEF Front
    <3>3. SubSeq(s, 1, Len(s) - 1) \in Seq(S)
      BY <2>1, <3>1
    <3>4. Len(SubSeq(s, 1, Len(s) - 1)) = Len(s) - 1
      <4>1. ASSUME NEW m \in Nat, m = Len(s) - 1 PROVE Len(SubSeq(s, 1, m)) = m
        BY <2>1, <4>1
      <4>2. Len(s) - 1 \in Nat
        BY <2>1
      <4> QED
        BY <4>1, <4>2
    <3>5. \A i \in 1 .. Len(s) - 1 : SubSeq(s, 1, Len(s) - 1)[i] = s[i]
      BY <2>1
    <3> QED
      BY <3>2, <3>3, <3>4, <3>5
  <2>3. Last(s) \in S /\ Last(s) = s[Len(s)]
    BY <2>1 DEF Last
  <2>4. s = Append(Front(s), Last(s))
    BY <2>1, <2>2, <2>3
  <2> QED
    BY <2>2, <2>3, <2>4
<1> QED
  BY <1>1, <1>2, <1>3
=============================================================================
