------------------------------ MODULE DataProofs ------------------------------
(***************************************************************************)
(* What the loops over bytes, characters and digits compute, for every     *)
(* input: TLV messages, phone numbers, account numbers.                    *)
(***************************************************************************)
EXTENDS PhoneNumber, TLV, AccountNumber, TLAPS, WellFoundedInduction

-----------------------------------------------------------------------------
(* Induction and recursion.  The induction theorems of the library take an *)
(* operator; these take the set of the values for which a claim holds, and *)
(* the steps of a recursion as a function, which the provers can           *)
(* instantiate.                                                            *)

\* A set of naturals that is not empty has a least element.
LEMMA LeastNat ==
    ASSUME NEW T \in SUBSET Nat, T # {}
    PROVE  \E m \in T : \A k \in T : m <= k
<1> DEFINE R == OpToRel(<, Nat)
<1>1. PICK x \in T : \A y \in T : ~(<<y, x>> \in R)
  <2> HIDE DEF R
  <2>1. IsWellFoundedOn(R, Nat)
    BY NatLessThanWellFounded DEF R
  <2> QED BY <2>1, WFMin
<1>2. R = {ss \in Nat \X Nat : ss[1] < ss[2]}
  BY DEF OpToRel
<1>3. ASSUME NEW k \in T PROVE x <= k
  <2>1. <<k, x>> \in Nat \X Nat /\ ~(k < x)
    BY <1>1, <1>2
  <2> QED BY <2>1
<1> QED BY <1>3

\* A set that contains zero, and with each number below n the next one, contains
\* all up to n.
LEMMA UpTo ==
    ASSUME NEW n \in Nat, NEW T,
           0 \in T, \A m \in 0 .. n - 1 : m \in T => m + 1 \in T
    PROVE  \A m \in 0 .. n : m \in T
<1> DEFINE Bad == (0 .. n) \ T
<1> SUFFICES ASSUME Bad # {} PROVE FALSE
  OBVIOUS
<1>1. Bad \in SUBSET Nat
  OBVIOUS
<1>2. PICK m \in Bad : \A k \in Bad : m <= k
  <2> HIDE DEF Bad
  <2> QED BY <1>1, LeastNat
<1>3. m # 0 /\ m - 1 \in 0 .. n - 1 /\ m - 1 \notin Bad
  BY <1>2
<1>4. m - 1 \in T /\ (m - 1) + 1 = m
  BY <1>3
<1> QED BY <1>3, <1>4

\* A set of sequences that contains the empty one, and with each sequence those
\* that are longer by one element, contains all.
LEMMA BySequences ==
    ASSUME NEW S, NEW T,
           <<>> \in T, \A s \in Seq(S), e \in S : s \in T => Append(s, e) \in T
    PROVE  \A s \in Seq(S) : s \in T
<1> SUFFICES ASSUME NEW s \in Seq(S) PROVE s \in T
  OBVIOUS
<1> DEFINE U == {m \in 0 .. Len(s) : SubSeq(s, 1, m) \in T}
<1>0. Len(s) \in Nat
  OBVIOUS
<1>1. 0 \in U
  <2>1. SubSeq(s, 1, 0) = <<>>
    OBVIOUS
  <2>2. SubSeq(s, 1, 0) \in T
    BY <2>1
  <2>3. 0 \in 0 .. Len(s)
    BY <1>0
  <2> QED BY <2>2, <2>3
<1>2. ASSUME NEW m \in 0 .. Len(s) - 1, m \in U PROVE m + 1 \in U
  <2>1. SubSeq(s, 1, m) \in Seq(S) /\ s[m + 1] \in S
    BY <1>0
  <2>2. SubSeq(s, 1, m + 1) = Append(SubSeq(s, 1, m), s[m + 1])
    BY <1>0
  <2>3. SubSeq(s, 1, m) \in T
    BY <1>2
  <2>4. SubSeq(s, 1, m + 1) \in T
    BY <2>1, <2>2, <2>3
  <2>5. m + 1 \in 0 .. Len(s)
    BY <1>0
  <2> QED BY <2>4, <2>5
<1>3. Len(s) \in U
  <2> HIDE DEF U
  <2>1. \A m \in 0 .. Len(s) : m \in U
    BY <1>0, <1>1, <1>2, UpTo
  <2> QED BY <1>0, <2>1
<1>4. SubSeq(s, 1, Len(s)) = s
  OBVIOUS
<1> QED BY <1>3, <1>4

\* What a recursion upwards in steps of one defines, exists.
Upward(f, n, a, h) == f[0] = a /\ \A i \in 1 .. n : f[i] = h[i][f[i - 1]]

\* There is such a function, by induction on its length.
LEMMA RecursionExists ==
    ASSUME NEW n \in Nat, NEW S, NEW a \in S, NEW h \in [1 .. n -> [S -> S]]
    PROVE  \E f \in [0 .. n -> S] : Upward(f, n, a, h)
<1> USE DEF Upward
<1> DEFINE Good(m) == \E f \in [0 .. m -> S] : Upward(f, m, a, h)
           T == {m \in 0 .. n : Good(m)}
<1>1. Good(0)
  <2> DEFINE f == [i \in 0 .. 0 |-> a]
  <2>1. f \in [0 .. 0 -> S] /\ f[0] = a
    OBVIOUS
  <2>2. \A i \in 1 .. 0 : f[i] = h[i][f[i - 1]]
    OBVIOUS
  <2> HIDE DEF f
  <2> QED BY <2>1, <2>2
<1>2. ASSUME NEW m \in 0 .. n - 1, Good(m) PROVE Good(m + 1)
  <2>1. PICK f \in [0 .. m -> S] : Upward(f, m, a, h)
    BY <1>2
  <2> DEFINE g == [i \in 0 .. m + 1 |-> IF i = m + 1 THEN h[m + 1][f[m]] ELSE f[i]]
  <2>2. g \in [0 .. m + 1 -> S]
    OBVIOUS
  <2>3. g[0] = a
    BY <2>1
  <2>4. \A i \in 1 .. m + 1 : g[i] = h[i][g[i - 1]]
    BY <2>1
  <2> HIDE DEF g
  <2> QED BY <2>2, <2>3, <2>4
<1>3. n \in T
  <2> HIDE DEF Good
  <2>1. 0 \in T /\ \A m \in 0 .. n - 1 : m \in T => m + 1 \in T
    BY <1>1, <1>2
  <2> HIDE DEF T
  <2>2. \A m \in 0 .. n : m \in T
    BY <2>1, UpTo
  <2> QED BY <2>2
<1> QED BY <1>3

\* So does what a recursion defines that goes from an offset to a later one.
Onward(f, o, stop, base, next, h) ==
    f[o] = IF o \in stop THEN base[o] ELSE h[o][f[next[o]]]

\* There is such a function: an offset is defined by later ones.
LEMMA DescentExists ==
    ASSUME NEW n \in Nat, NEW S,
           NEW stop \in SUBSET (0 .. n), NEW base \in [0 .. n -> S],
           NEW next \in [0 .. n -> Nat], NEW h \in [0 .. n -> [S -> S]],
           \A o \in (0 .. n) \ stop : next[o] \in o + 1 .. n
    PROVE  \E f \in [0 .. n -> S] :
              \A o \in 0 .. n : Onward(f, o, stop, base, next, h)
<1> USE DEF Onward
<1> DEFINE Good(m) == \E f \in [n - m .. n -> S] :
               \A o \in n - m .. n : Onward(f, o, stop, base, next, h)
           T == {m \in 0 .. n : Good(m)}
<1>1. Good(0)
  <2> DEFINE f == [o \in n - 0 .. n |-> base[n]]
  <2>1. f \in [n - 0 .. n -> S]
    OBVIOUS
  <2>2. \A o \in n - 0 .. n : o = n /\ o \in stop
    OBVIOUS
  <2> QED BY <2>1, <2>2
<1>2. ASSUME NEW m \in 0 .. n - 1, Good(m) PROVE Good(m + 1)
  <2>1. PICK f \in [n - m .. n -> S] :
            \A o \in n - m .. n : Onward(f, o, stop, base, next, h)
    BY <1>2
  <2> DEFINE p == n - (m + 1)
             v == IF p \in stop THEN base[p] ELSE h[p][f[next[p]]]
             g == [o \in p .. n |-> IF o = p THEN v ELSE f[o]]
  <2>2. p \in 0 .. n /\ \A o \in p .. n : o = p \/ o \in n - m .. n
    OBVIOUS
  <2>3. v \in S
    BY <2>2
  <2>4. g \in [p .. n -> S]
    BY <2>2, <2>3
  <2>5. ASSUME NEW o \in p .. n
        PROVE  Onward(g, o, stop, base, next, h)
    <3>1. CASE o \in stop
      BY <2>1, <2>2, <3>1
    <3>2. CASE o \notin stop
      <4>1. next[o] \in o + 1 .. n /\ next[o] # p
        BY <2>2, <3>2
      <4>2. g[next[o]] = f[next[o]]
        BY <4>1
      <4> QED BY <2>1, <2>2, <3>2, <4>2
    <3> QED BY <3>1, <3>2
  <2> HIDE DEF g
  <2> QED BY <2>4, <2>5
<1>3. n \in T
  <2> HIDE DEF Good
  <2>1. 0 \in T /\ \A m \in 0 .. n - 1 : m \in T => m + 1 \in T
    BY <1>1, <1>2
  <2> HIDE DEF T
  <2>2. \A m \in 0 .. n : m \in T
    BY <2>1, UpTo
  <2> QED BY <2>2
<1>4. n - n = 0
  OBVIOUS
<1> QED BY <1>3, <1>4

\* Sequences with the same elements are the same.
LEMMA SeqEqual ==
    ASSUME NEW S, NEW s \in Seq(S), NEW t \in Seq(S), Len(s) = Len(t),
           \A i \in 1 .. Len(s) : s[i] = t[i]
    PROVE  s = t
OBVIOUS

\* Concatenation under a name: the provers expand \o wherever they see it, and
\* do not find what a lemma says of it.
Cat(s, t) == s \o t

\* What is where in two sequences, one after the other.
LEMMA CatParts ==
    ASSUME NEW S, NEW s \in Seq(S), NEW t \in Seq(S)
    PROVE  /\ Cat(s, t) \in Seq(S) /\ Len(Cat(s, t)) = Len(s) + Len(t)
           /\ \A i \in 1 .. Len(s) : Cat(s, t)[i] = s[i]
           /\ \A i \in 1 .. Len(t) : Cat(s, t)[Len(s) + i] = t[i]
BY DEF Cat

\* And no more than their type and length.
LEMMA CatType ==
    ASSUME NEW S, NEW s \in Seq(S), NEW t \in Seq(S)
    PROVE  Cat(s, t) \in Seq(S) /\ Len(Cat(s, t)) = Len(s) + Len(t)
BY DEF Cat

\* Nothing, in front or behind, changes nothing.
LEMMA CatEmpty ==
    ASSUME NEW S, NEW s \in Seq(S)
    PROVE  Cat(s, <<>>) = s /\ Cat(<<>>, s) = s
BY DEF Cat

\* An element at the end goes to the end of the second part.
LEMMA CatAppend ==
    ASSUME NEW S, NEW s \in Seq(S), NEW t \in Seq(S), NEW e \in S
    PROVE  Append(Cat(s, t), e) = Cat(s, Append(t, e))
BY DEF Cat

-----------------------------------------------------------------------------
(* Phone numbers                                                           *)

\* The step of Without, and its results prefix by prefix.
Keep(kept, c, C) == IF c \in C THEN kept ELSE Append(kept, c)

Kept(f, s, C) == f[0] = <<>> /\ \A i \in 1 .. Len(s) : f[i] = Keep(f[i - 1], s[i], C)

\* Keep makes a sequence of the same elements.
LEMMA KeepType ==
    ASSUME NEW S, NEW t \in Seq(S), NEW c \in S, NEW C
    PROVE  Keep(t, c, C) \in Seq(S)
<1>1. Append(t, c) \in Seq(S)
  OBVIOUS
<1>2. CASE c \in C
  BY <1>2 DEF Keep
<1>3. CASE c \notin C
  BY <1>1, <1>3 DEF Keep
<1> QED BY <1>2, <1>3

\* The recursion of Without, as a function that exists.
LEMMA WithoutTable ==
    ASSUME NEW S, NEW s \in Seq(S), NEW C
    PROVE  \E f \in [0 .. Len(s) -> Seq(S)] : Kept(f, s, C) /\ Without(s, C) = f[Len(s)]
<1> DEFINE n == Len(s)
           Q == Seq(S)
           none == <<>>
           h == [i \in 1 .. n |-> [t \in Q |-> Keep(t, s[i], C)]]
           D(f) == [i \in 0 .. n |-> IF i = 0 THEN <<>> ELSE Keep(f[i - 1], s[i], C)]
           W == CHOOSE g : g = D(g)
<1>0. n \in Nat /\ (\A i \in 1 .. n : s[i] \in S) /\ none \in Q
  OBVIOUS
<1>a. Without(s, C) = W[n]
  BY DEF Without, Keep
<1>b. \A i \in 1 .. n, t \in Q : Keep(t, s[i], C) \in Q
  BY <1>0, KeepType
<1> HIDE DEF Q, n
<1>1. PICK f \in [0 .. n -> Q] : Upward(f, n, none, h)
  <2>1. h \in [1 .. n -> [Q -> Q]]
    BY <1>b
  <2> HIDE DEF h, none
  <2> QED BY <1>0, <2>1, RecursionExists
<1>2. \A i \in 1 .. n : f[i] = Keep(f[i - 1], s[i], C)
  <2> SUFFICES ASSUME NEW i \in 1 .. n
               PROVE  f[i] = Keep(f[i - 1], s[i], C)
    OBVIOUS
  <2>1. i - 1 \in 0 .. n /\ f[i - 1] \in Q
    BY <1>0
  <2> QED BY <1>1, <2>1 DEF Upward
<1>3. f = D(f)
  BY <1>0, <1>1, <1>2 DEF Upward
<1>4. W = D(W)
  <2> HIDE DEF D
  <2> QED BY <1>3
<1>6. \A i \in 0 .. n : W[i] = f[i]
  <2> HIDE DEF W
  <2> DEFINE T == {i \in 0 .. n : W[i] = f[i]}
  <2>1. 0 \in T
    BY <1>0, <1>1, <1>4 DEF Upward
  <2>2. ASSUME NEW i \in 0 .. n - 1, i \in T PROVE i + 1 \in T
    <3>1. i + 1 \in 1 .. n /\ (i + 1) - 1 = i
      BY <1>0
    <3>2. W[i + 1] = Keep(W[i], s[i + 1], C)
      BY <1>0, <1>4, <3>1
    <3>3. f[i + 1] = Keep(f[i], s[i + 1], C)
      BY <1>2, <3>1
    <3> QED BY <2>2, <3>1, <3>2, <3>3
  <2> HIDE DEF T
  <2>3. \A i \in 0 .. n : i \in T
    BY <1>0, <2>1, <2>2, UpTo
  <2> QED BY <2>3 DEF T
<1>7. W[n] = f[n]
  <2> HIDE DEF W
  <2> QED BY <1>0, <1>6
<1>8. Kept(f, s, C)
  BY <1>1, <1>2 DEF Kept, n, Upward
<1> QED BY <1>7, <1>8, <1>a DEF n, Q

\* Of nothing nothing is left.
LEMMA WithoutEmpty ==
    ASSUME NEW C
    PROVE  Without(<<>>, C) = <<>>
<1> DEFINE e == <<>>
<1>1. e \in Seq({}) /\ Len(e) = 0
  OBVIOUS
<1>2. PICK f : Kept(f, e, C) /\ Without(e, C) = f[Len(e)]
  <2> HIDE DEF e
  <2> QED BY <1>1, WithoutTable
<1> QED BY <1>1, <1>2 DEF Kept

\* ReplaceAll goes on with the next character.
LEMMA WithoutAppend ==
    ASSUME NEW S, NEW s \in Seq(S), NEW e \in S, NEW C
    PROVE  /\ Without(s, C) \in Seq(S)
           /\ Without(Append(s, e), C) = Keep(Without(s, C), e, C)
<1> DEFINE n == Len(s)
           a == Append(s, e)
<1>1. /\ n \in Nat /\ a \in Seq(S) /\ Len(a) = n + 1 /\ a[n + 1] = e
      /\ \A i \in 1 .. n : a[i] = s[i]
  OBVIOUS
<1>2. PICK f \in [0 .. n -> Seq(S)] : Kept(f, s, C) /\ Without(s, C) = f[n]
  BY WithoutTable
<1> HIDE DEF a
<1>3. PICK g \in [0 .. Len(a) -> Seq(S)] : Kept(g, a, C) /\ Without(a, C) = g[Len(a)]
  BY <1>1, WithoutTable
<1>4. /\ f[0] = <<>> /\ \A i \in 1 .. n : f[i] = Keep(f[i - 1], s[i], C)
      /\ g[0] = <<>> /\ \A i \in 1 .. n + 1 : g[i] = Keep(g[i - 1], a[i], C)
  BY <1>1, <1>2, <1>3 DEF Kept
<1> HIDE DEF n
<1>5. \A i \in 0 .. n : g[i] = f[i]
  <2> DEFINE T == {i \in 0 .. n : g[i] = f[i]}
  <2>1. 0 \in T
    BY <1>1, <1>4
  <2>2. ASSUME NEW i \in 0 .. n - 1, i \in T PROVE i + 1 \in T
    <3>1. i + 1 \in 1 .. n /\ i + 1 \in 1 .. n + 1 /\ (i + 1) - 1 = i
      BY <1>1
    <3> QED BY <1>1, <1>4, <2>2, <3>1
  <2> HIDE DEF T
  <2>3. \A i \in 0 .. n : i \in T
    BY <1>1, <2>1, <2>2, UpTo
  <2> QED BY <2>3 DEF T
<1>6. g[n] = f[n] /\ n + 1 \in 1 .. n + 1 /\ (n + 1) - 1 = n
  BY <1>1, <1>5
<1>7. Without(a, C) = Keep(Without(s, C), e, C)
  BY <1>1, <1>2, <1>3, <1>4, <1>6
<1>8. Without(s, C) \in Seq(S)
  BY <1>1, <1>2
<1> QED BY <1>7, <1>8 DEF a

\* Without works on the parts of a sequence one by one.
LEMMA WithoutType ==
    ASSUME NEW S, NEW s \in Seq(S), NEW C
    PROVE  Without(s, C) \in Seq(S)
<1>1. PICK f \in [0 .. Len(s) -> Seq(S)] : Kept(f, s, C) /\ Without(s, C) = f[Len(s)]
  BY WithoutTable
<1>2. Len(s) \in 0 .. Len(s)
  OBVIOUS
<1> QED BY <1>1, <1>2

\* A character at the end concerns the end only.
LEMMA KeepCat ==
    ASSUME NEW S, NEW s \in Seq(S), NEW t \in Seq(S), NEW e \in S, NEW C
    PROVE  Keep(Cat(s, t), e, C) = Cat(s, Keep(t, e, C))
<1>1. Append(Cat(s, t), e) = Cat(s, Append(t, e))
  BY CatAppend
<1>2. CASE e \in C
  BY <1>2 DEF Keep
<1>3. CASE e \notin C
  BY <1>1, <1>3 DEF Keep
<1> QED BY <1>2, <1>3

\* A sequence over a set is one over a larger set.
LEMMA SeqMonotone ==
    ASSUME NEW S, NEW T, S \subseteq T, NEW s \in Seq(S)
    PROVE  s \in Seq(T)
OBVIOUS

\* ReplaceAll does both halves for itself.
LEMMA WithoutCat ==
    ASSUME NEW S, NEW s \in Seq(S), NEW t \in Seq(S), NEW C
    PROVE  Without(Cat(s, t), C) = Cat(Without(s, C), Without(t, C))
<1> DEFINE T == {u \in Seq(S) : Without(Cat(s, u), C) = Cat(Without(s, C), Without(u, C))}
<1>0. Without(s, C) \in Seq(S)
  BY WithoutType
<1>1. <<>> \in T
  <2> DEFINE none == <<>>
  <2>0. none \in Seq(S)
    OBVIOUS
  <2>1. /\ Cat(s, none) = s /\ Cat(Without(s, C), none) = Without(s, C)
        /\ Without(none, C) = none
    BY <1>0, CatEmpty, WithoutEmpty
  <2> HIDE DEF none
  <2>2. none \in T
    BY <2>0, <2>1
  <2> QED BY <2>2 DEF none
<1>2. ASSUME NEW u \in Seq(S), NEW e \in S, u \in T
      PROVE  Append(u, e) \in T
  <2>1. /\ Append(u, e) \in Seq(S) /\ Cat(s, u) \in Seq(S)
        /\ Cat(s, Append(u, e)) = Append(Cat(s, u), e)
    BY CatType, CatAppend
  <2>2. Without(u, C) \in Seq(S) /\ Without(Cat(s, u), C) = Cat(Without(s, C), Without(u, C))
    BY <1>2, WithoutType
  <2>3. Without(Append(Cat(s, u), e), C) = Keep(Without(Cat(s, u), C), e, C)
    BY <2>1, WithoutAppend
  <2>4. Without(Append(u, e), C) = Keep(Without(u, C), e, C)
    BY WithoutAppend
  <2>5. Keep(Cat(Without(s, C), Without(u, C)), e, C) = Cat(Without(s, C), Keep(Without(u, C), e, C))
    BY <1>0, <2>2, KeepCat
  <2> QED BY <2>1, <2>2, <2>3, <2>4, <2>5
<1>3. \A u \in Seq(S) : u \in T
  <2> HIDE DEF T
  <2> QED BY <1>1, <1>2, BySequences
<1> QED BY <1>3

\* Nothing is kept of what is only such characters.
LEMMA WithoutAll ==
    ASSUME NEW C, NEW s \in Seq(C)
    PROVE  Without(s, C) = <<>>
<1> DEFINE T == {u \in Seq(C) : Without(u, C) = <<>>}
<1>1. <<>> \in T
  BY WithoutEmpty
<1>2. ASSUME NEW u \in Seq(C), NEW e \in C, u \in T
      PROVE  Append(u, e) \in T
  <2>1. Append(u, e) \in Seq(C)
    OBVIOUS
  <2>2. Without(Append(u, e), C) = Without(u, C)
    BY WithoutAppend DEF Keep
  <2> QED BY <1>2, <2>1, <2>2
<1>3. \A u \in Seq(C) : u \in T
  <2> HIDE DEF T
  <2> QED BY <1>1, <1>2, BySequences
<1> QED BY <1>3

\* Which other characters are left out makes no difference.
LEMMA WithoutSame ==
    ASSUME NEW S, NEW s \in Seq(S), NEW C, NEW D,
           \A e \in S : e \in C <=> e \in D
    PROVE  Without(s, C) = Without(s, D)
<1> DEFINE T == {u \in Seq(S) : Without(u, C) = Without(u, D)}
<1>1. <<>> \in T
  BY WithoutEmpty
<1>2. ASSUME NEW u \in Seq(S), NEW e \in S, u \in T
      PROVE  Append(u, e) \in T
  <2>1. Append(u, e) \in Seq(S)
    OBVIOUS
  <2>2. /\ Without(Append(u, e), C) = Keep(Without(u, C), e, C)
        /\ Without(Append(u, e), D) = Keep(Without(u, D), e, D)
    BY WithoutAppend
  <2>3. Without(u, C) = Without(u, D) /\ (e \in C <=> e \in D)
    BY <1>2
  <2>4. Keep(Without(u, C), e, C) = Keep(Without(u, D), e, D)
    BY <2>3 DEF Keep
  <2> QED BY <2>1, <2>2, <2>4
<1>3. \A u \in Seq(S) : u \in T
  <2> HIDE DEF T
  <2> QED BY <1>1, <1>2, BySequences
<1> QED BY <1>3

\* A sequence with none of the characters stays as it is.
LEMMA WithoutNone ==
    ASSUME NEW S, NEW s \in Seq(S), NEW C, \A e \in S : e \notin C
    PROVE  Without(s, C) = s
<1> DEFINE T == {u \in Seq(S) : Without(u, C) = u}
<1>1. <<>> \in T
  BY WithoutEmpty
<1>2. ASSUME NEW u \in Seq(S), NEW e \in S, u \in T
      PROVE  Append(u, e) \in T
  <2>1. Append(u, e) \in Seq(S)
    OBVIOUS
  <2>2. Without(Append(u, e), C) = Append(Without(u, C), e)
    BY WithoutAppend DEF Keep
  <2> QED BY <1>2, <2>1, <2>2
<1>3. \A u \in Seq(S) : u \in T
  <2> HIDE DEF T
  <2> QED BY <1>1, <1>2, BySequences
<1> QED BY <1>3

\* A set of naturals with an upper bound has a largest and a least element.
LEMMA Extremes ==
    ASSUME NEW n \in Nat, NEW T \in SUBSET (0 .. n), T # {}
    PROVE  /\ Max(T) \in T /\ \A k \in T : k <= Max(T)
           /\ Min(T) \in T /\ \A k \in T : Min(T) <= k
<1>1. \E m \in T : \A k \in T : m <= k
  <2>1. T \in SUBSET Nat
    OBVIOUS
  <2> QED BY <2>1, LeastNat
<1>2. \E m \in T : \A k \in T : m >= k
  <2> DEFINE U == {n - k : k \in T}
  <2>1. U \in SUBSET Nat /\ U # {}
    <3>1. \A k \in T : n - k \in Nat
      OBVIOUS
    <3>2. PICK k \in T : TRUE
      OBVIOUS
    <3>3. n - k \in U
      OBVIOUS
    <3> QED BY <3>1, <3>3
  <2>2. PICK u \in U : \A v \in U : u <= v
    <3> HIDE DEF U
    <3> QED BY <2>1, LeastNat
  <2>3. PICK m \in T : u = n - m
    BY <2>2
  <2>4. ASSUME NEW k \in T PROVE m >= k
    <3>1. n - k \in U
      OBVIOUS
    <3>2. u <= n - k /\ m \in 0 .. n /\ k \in 0 .. n
      BY <2>2, <3>1
    <3> QED BY <2>3, <3>2
  <2> QED BY <2>4
<1>3. Min(T) \in T /\ \A k \in T : Min(T) <= k
  BY <1>1 DEF Min
<1>4. Max(T) \in T /\ \A k \in T : Max(T) >= k
  BY <1>2 DEF Max
<1>5. \A k \in T : k <= Max(T)
  BY <1>4
<1> QED BY <1>3, <1>4, <1>5

\* The characters of phone numbers.
Plain == Numeral \union {"+"}

Tabless == Plain \union Separator

Blank == {" ", "tab"}

Char == Tabless \union {"tab"}

\* A sequence is what precedes a part of it, the part, and what follows.
LEMMA CutInThree ==
    ASSUME NEW S, NEW s \in Seq(S), NEW lo \in 1 .. Len(s), NEW hi \in 1 .. Len(s), lo <= hi
    PROVE  s = Cat(Cat(SubSeq(s, 1, lo - 1), SubSeq(s, lo, hi)), SubSeq(s, hi + 1, Len(s)))
<1> DEFINE a == SubSeq(s, 1, lo - 1)
           b == SubSeq(s, lo, hi)
           c == SubSeq(s, hi + 1, Len(s))
<1>1. a \in Seq(S) /\ Len(a) = lo - 1 /\ \A i \in 1 .. lo - 1 : a[i] = s[i]
  OBVIOUS
<1>2. b \in Seq(S) /\ Len(b) = hi - lo + 1 /\ \A i \in 1 .. hi - lo + 1 : b[i] = s[lo + i - 1]
  OBVIOUS
<1>3. c \in Seq(S) /\ Len(c) = Len(s) - hi
        /\ \A i \in 1 .. Len(s) - hi : c[i] = s[hi + i]
  OBVIOUS
<1> HIDE DEF a, b, c
<1> DEFINE u == Cat(a, b)
           v == Cat(u, c)
<1>4. u \in Seq(S) /\ Len(u) = hi /\ \A i \in 1 .. hi : u[i] = s[i]
  <2>1. /\ u \in Seq(S) /\ Len(u) = Len(a) + Len(b)
        /\ \A i \in 1 .. Len(a) : u[i] = a[i]
        /\ \A i \in 1 .. Len(b) : u[Len(a) + i] = b[i]
    <3>1. a \in Seq(S) /\ b \in Seq(S)
      BY <1>1, <1>2
    <3> QED BY <3>1 DEF Cat
  <2> HIDE DEF u
  <2>2. ASSUME NEW i \in 1 .. hi PROVE u[i] = s[i]
    <3>1. CASE i <= lo - 1
      BY <1>1, <2>1, <3>1
    <3>2. CASE i > lo - 1
      <4>1. i - (lo - 1) \in 1 .. Len(b) /\ Len(a) + (i - (lo - 1)) = i
                /\ lo + (i - (lo - 1)) - 1 = i
        BY <1>1, <1>2, <3>2
      <4> QED BY <1>2, <2>1, <4>1
    <3> QED BY <3>1, <3>2
  <2> QED BY <1>1, <1>2, <2>1, <2>2
<1> HIDE DEF u
<1>5. /\ v \in Seq(S) /\ Len(v) = Len(u) + Len(c)
      /\ \A i \in 1 .. Len(u) : v[i] = u[i]
      /\ \A i \in 1 .. Len(c) : v[Len(u) + i] = c[i]
  <2>1. u \in Seq(S) /\ c \in Seq(S)
    BY <1>3, <1>4
  <2> QED BY <2>1 DEF Cat
<1> HIDE DEF v
<1>6. ASSUME NEW i \in 1 .. Len(s) PROVE v[i] = s[i]
  <2>1. CASE i <= hi
    BY <1>4, <1>5, <2>1
  <2>2. CASE i > hi
    <3>1. i - hi \in 1 .. Len(c) /\ Len(u) + (i - hi) = i /\ hi + (i - hi) = i
      BY <1>3, <1>4, <2>2
    <3> QED BY <1>3, <1>5, <3>1
  <2> QED BY <2>1, <2>2
<1>7. Len(v) = Len(s)
  BY <1>3, <1>4, <1>5
<1>8. v = s
  BY <1>5, <1>6, <1>7, SeqEqual
<1> QED BY <1>8 DEF a, b, c, u, v

\* TrimSpace cuts off blanks only, and what it leaves begins and ends with ink.
LEMMA TrimSplits ==
    ASSUME NEW S, NEW typed \in Seq(S)
    PROVE  \E pre \in Seq(Blank), post \in Seq(Blank) :
              typed = Cat(Cat(pre, TrimSpace(typed)), post)
<1> DEFINE n == Len(typed)
           ink == {i \in 1 .. n : typed[i] \notin Blank}
           lo == Min(ink)
           hi == Max(ink)
<1>0. n \in Nat /\ (\A i \in 1 .. n : typed[i] \in S) /\ DOMAIN typed = 1 .. n
  OBVIOUS
<1>t. TrimSpace(typed) = IF ink = {} THEN <<>> ELSE SubSeq(typed, lo, hi)
  BY <1>0 DEF TrimSpace, Blank
<1>1. CASE ink = {}
  <2>1. \A i \in 1 .. n : typed[i] \in Blank
    BY <1>1
  <2>2. typed \in Seq(Blank) /\ <<>> \in Seq(Blank)
    BY <1>0, <2>1
  <2>3. typed = Cat(Cat(typed, <<>>), <<>>)
    BY <2>2, CatEmpty
  <2> QED BY <1>1, <1>t, <2>2, <2>3
<1>2. CASE ink # {}
  <2>1. /\ lo \in 1 .. n /\ hi \in 1 .. n /\ lo <= hi
        /\ \A i \in 1 .. n : i < lo \/ i > hi => typed[i] \in Blank
    <3>1. ink \in SUBSET (0 .. n)
      BY <1>0
    <3>2. lo \in ink /\ hi \in ink /\ \A k \in ink : lo <= k /\ k <= hi
      <4> HIDE DEF ink
      <4> QED BY <1>0, <1>2, <3>1, Extremes
    <3>3. lo \in 1 .. n /\ hi \in 1 .. n
      <4> HIDE DEF lo, hi
      <4> QED BY <3>2
    <3>4. \A i \in 1 .. n : i \in ink \/ typed[i] \in Blank
      OBVIOUS
    <3>5. \A i \in ink : lo <= i /\ i <= hi
      BY <3>2
    <3> HIDE DEF ink, lo, hi
    <3> QED BY <1>0, <3>2, <3>3, <3>4, <3>5
  <2> DEFINE pre == SubSeq(typed, 1, lo - 1)
             mid == SubSeq(typed, lo, hi)
             post == SubSeq(typed, hi + 1, n)
  <2> HIDE DEF lo, hi
  <2>2. pre \in Seq(Blank)
    <3>1. \A i \in 1 .. lo - 1 : typed[i] \in Blank
      BY <1>0, <2>1
    <3> QED BY <1>0, <2>1, <3>1
  <2>3. post \in Seq(Blank)
    <3>1. \A i \in hi + 1 .. n : typed[i] \in Blank
      BY <1>0, <2>1
    <3> QED BY <1>0, <2>1, <3>1
  <2>4. typed = Cat(Cat(pre, mid), post)
    BY <1>0, <2>1, CutInThree
  <2> QED BY <1>2, <1>t, <2>2, <2>3, <2>4
<1> QED BY <1>1, <1>2

\* So trimming first makes no difference to Strip, except for tabs.
LEMMA StripIsWithout ==
    ASSUME NEW typed \in Seq(Char), TrimSpace(typed) \in Seq(Tabless)
    PROVE  Strip(typed) = Without(typed, Separator \union {"tab"})
<1> DEFINE D == Separator \union {"tab"}
           mid == TrimSpace(typed)
<1>1. PICK pre \in Seq(Blank), post \in Seq(Blank) : typed = Cat(Cat(pre, mid), post)
  BY TrimSplits
<1>2. Without(pre, D) = <<>> /\ Without(post, D) = <<>>
  <2>1. Blank \subseteq D
    BY DEF Blank, Separator
  <2> HIDE DEF D
  <2>2. pre \in Seq(D) /\ post \in Seq(D)
    BY <2>1, SeqMonotone
  <2> QED BY <2>2, WithoutAll
<1>3. pre \in Seq(Char) /\ post \in Seq(Char) /\ mid \in Seq(Char)
  <2>1. Blank \subseteq Char /\ Tabless \subseteq Char
    BY DEF Blank, Char, Tabless, Separator
  <2> HIDE DEF mid
  <2> QED BY <2>1, SeqMonotone DEF mid
<1>4. Without(typed, D) = Cat(Cat(Without(pre, D), Without(mid, D)), Without(post, D))
  <2> HIDE DEF D, mid
  <2>1. Cat(pre, mid) \in Seq(Char)
    BY <1>3, CatType
  <2>2. Without(Cat(pre, mid), D) = Cat(Without(pre, D), Without(mid, D))
    BY <1>3, WithoutCat
  <2>3. Without(Cat(Cat(pre, mid), post), D) = Cat(Without(Cat(pre, mid), D), Without(post, D))
    BY <1>3, <2>1, WithoutCat
  <2> QED BY <1>1, <2>2, <2>3
<1>5. Without(mid, D) = Without(mid, Separator)
  <2>1. \A e \in Tabless : e \in D <=> e \in Separator
    BY DEF Tabless, Plain, Numeral, Separator
  <2> HIDE DEF D, mid
  <2> QED BY <2>1, WithoutSame DEF mid
<1>6. Without(mid, D) \in Seq(Char)
  BY <1>3, WithoutType
<1>7. Without(typed, D) = Without(mid, D)
  <2> HIDE DEF mid, D
  <2> QED BY <1>2, <1>4, <1>6, CatEmpty
<1> QED BY <1>5, <1>7 DEF Strip

\* Separators make no difference, wherever they are.
Ignored == Separator \union {"tab"}

\* A sequence is what precedes a position, and the rest.
LEMMA CutInTwo ==
    ASSUME NEW S, NEW s \in Seq(S), NEW i \in 1 .. Len(s) + 1
    PROVE  /\ SubSeq(s, 1, i - 1) \in Seq(S) /\ SubSeq(s, i, Len(s)) \in Seq(S)
           /\ s = Cat(SubSeq(s, 1, i - 1), SubSeq(s, i, Len(s)))
<1> DEFINE p == SubSeq(s, 1, i - 1)
           q == SubSeq(s, i, Len(s))
           u == Cat(p, q)
<1>0. Len(s) \in Nat /\ \A j \in 1 .. Len(s) : s[j] \in S
  OBVIOUS
<1>1. p \in Seq(S) /\ Len(p) = i - 1 /\ \A j \in 1 .. i - 1 : p[j] = s[j]
  OBVIOUS
<1>2. /\ q \in Seq(S) /\ Len(q) = Len(s) - i + 1
      /\ \A j \in 1 .. Len(s) - i + 1 : q[j] = s[i + j - 1]
  OBVIOUS
<1> HIDE DEF p, q
<1>3. /\ u \in Seq(S) /\ Len(u) = Len(p) + Len(q)
      /\ \A j \in 1 .. Len(p) : u[j] = p[j]
      /\ \A j \in 1 .. Len(q) : u[Len(p) + j] = q[j]
  <2>1. p \in Seq(S) /\ q \in Seq(S)
    BY <1>1, <1>2
  <2> QED BY <2>1 DEF Cat
<1> HIDE DEF u
<1>4. Len(u) = Len(s)
  BY <1>0, <1>1, <1>2, <1>3
<1>5. ASSUME NEW j \in 1 .. Len(s) PROVE u[j] = s[j]
  <2>1. CASE j <= i - 1
    BY <1>1, <1>3, <2>1
  <2>2. CASE j > i - 1
    <3>1. /\ j - (i - 1) \in 1 .. Len(q) /\ Len(p) + (j - (i - 1)) = j
          /\ i + (j - (i - 1)) - 1 = j
      BY <1>0, <1>1, <1>2, <2>2
    <3> QED BY <1>2, <1>3, <3>1
  <2> QED BY <2>1, <2>2
<1>6. u = s
  BY <1>3, <1>4, <1>5, SeqEqual
<1> QED BY <1>1, <1>2, <1>6 DEF p, q, u

\* A part is over the set its elements are in.
LEMMA SubSeqOf ==
    ASSUME NEW S, NEW T, NEW s \in Seq(S), NEW lo \in 1 .. Len(s), NEW hi \in 1 .. Len(s),
           \A i \in lo .. hi : s[i] \in T
    PROVE  SubSeq(s, lo, hi) \in Seq(T)
OBVIOUS

\* A separator more makes no difference once the separators are gone.
LEMMA SpacedWithout ==
    ASSUME NEW s \in Seq(Char), NEW x \in Spaced(s)
    PROVE  /\ x \in Seq(Char) /\ Without(x, Ignored) = Without(s, Ignored)
           /\ s \in Seq(Tabless) => x \in Seq(Tabless)
<1>1. PICK i \in 1 .. Len(s) + 1, c \in Separator : x = InsertAt(s, i, c)
  BY DEF Spaced
<1> DEFINE p == SubSeq(s, 1, i - 1)
           q == SubSeq(s, i, Len(s))
           m == <<c>>
<1>2. x = Cat(Cat(p, m), q)
  BY <1>1 DEF InsertAt, Cat
<1>3. p \in Seq(Char) /\ q \in Seq(Char) /\ s = Cat(p, q)
  BY CutInTwo
<1>4. m \in Seq(Char) /\ m \in Seq(Ignored) /\ m \in Seq(Tabless)
  BY DEF Char, Tabless, Ignored
<1>5. ASSUME s \in Seq(Tabless)
      PROVE  p \in Seq(Tabless) /\ q \in Seq(Tabless)
  BY <1>5, CutInTwo
<1> HIDE DEF p, q, m
<1>6. Without(m, Ignored) = <<>>
  BY <1>4, WithoutAll
<1>7. Without(p, Ignored) \in Seq(Char)
  BY <1>3, WithoutType
<1>8. Cat(p, m) \in Seq(Char)
  BY <1>3, <1>4, CatType
<1>9. /\ Without(Cat(p, m), Ignored) = Cat(Without(p, Ignored), Without(m, Ignored))
      /\ Without(Cat(Cat(p, m), q), Ignored)
             = Cat(Without(Cat(p, m), Ignored), Without(q, Ignored))
      /\ Without(Cat(p, q), Ignored) = Cat(Without(p, Ignored), Without(q, Ignored))
  BY <1>3, <1>4, <1>8, WithoutCat
<1>10. Cat(Without(p, Ignored), <<>>) = Without(p, Ignored)
  BY <1>7, CatEmpty
<1>11. Without(x, Ignored) = Without(s, Ignored)
  BY <1>2, <1>3, <1>6, <1>9, <1>10
<1>12. x \in Seq(Char)
  BY <1>2, <1>3, <1>8, CatType
<1>13. s \in Seq(Tabless) => x \in Seq(Tabless)
  <2> SUFFICES ASSUME s \in Seq(Tabless) PROVE x \in Seq(Tabless)
    OBVIOUS
  <2>1. Cat(p, m) \in Seq(Tabless)
    BY <1>4, <1>5, CatType
  <2> QED BY <1>2, <1>5, <2>1, CatType
<1> QED BY <1>11, <1>12, <1>13

\* Nor do tabs around it.
LEMMA TabsWithout ==
    ASSUME NEW s \in Seq(Char)
    PROVE  /\ Cat(Cat(<<"tab">>, s), <<"tab">>) \in Seq(Char)
           /\ Without(Cat(Cat(<<"tab">>, s), <<"tab">>), Ignored) = Without(s, Ignored)
<1> DEFINE m == <<"tab">>
<1>1. m \in Seq(Char) /\ m \in Seq(Ignored)
  BY DEF Char, Ignored
<1> HIDE DEF m
<1>2. Without(m, Ignored) = <<>>
  BY <1>1, WithoutAll
<1>3. Without(s, Ignored) \in Seq(Char)
  BY WithoutType
<1>4. Cat(m, s) \in Seq(Char)
  BY <1>1, CatType
<1>5. /\ Without(Cat(m, s), Ignored) = Cat(Without(m, Ignored), Without(s, Ignored))
      /\ Without(Cat(Cat(m, s), m), Ignored)
             = Cat(Without(Cat(m, s), Ignored), Without(m, Ignored))
  BY <1>1, <1>4, WithoutCat
<1>6. /\ Cat(<<>>, Without(s, Ignored)) = Without(s, Ignored)
      /\ Cat(Without(s, Ignored), <<>>) = Without(s, Ignored)
  BY <1>3, CatEmpty
<1>7. Cat(Cat(m, s), m) \in Seq(Char)
  BY <1>1, <1>4, CatType
<1> QED BY <1>2, <1>5, <1>6, <1>7 DEF m

\* When the only tabs are around it, TrimSpace leaves none.
LEMMA TrimTabs ==
    ASSUME NEW typed \in Seq(Char),
           \A i \in 1 .. Len(typed) : typed[i] = "tab" => i = 1 \/ i = Len(typed)
    PROVE  TrimSpace(typed) \in Seq(Tabless)
<1> DEFINE n == Len(typed)
           ink == {i \in 1 .. n : typed[i] \notin Blank}
           lo == Min(ink)
           hi == Max(ink)
<1>0. n \in Nat /\ (\A i \in 1 .. n : typed[i] \in Char) /\ DOMAIN typed = 1 .. n
  OBVIOUS
<1>1. TrimSpace(typed) = IF ink = {} THEN <<>> ELSE SubSeq(typed, lo, hi)
  BY <1>0 DEF TrimSpace, Blank
<1>2. CASE ink = {}
  <2>1. <<>> \in Seq(Tabless)
    OBVIOUS
  <2> QED BY <1>1, <1>2, <2>1
<1>3. CASE ink # {}
  <2>1. ink \in SUBSET (0 .. n) /\ \A i \in ink : i \in 1 .. n /\ typed[i] # "tab"
    <3>1. \A i \in 1 .. n : i \in 0 .. n
      OBVIOUS
    <3> QED BY <3>1 DEF Blank
  <2>2. lo \in 1 .. n /\ hi \in 1 .. n /\ typed[lo] # "tab" /\ typed[hi] # "tab"
    <3> HIDE DEF ink, n
    <3>1. lo \in ink /\ hi \in ink
      BY <1>0, <1>3, <2>1, Extremes
    <3> HIDE DEF lo, hi
    <3> QED BY <2>1, <3>1
  <2> HIDE DEF ink, lo, hi
  <2>4. ASSUME NEW i \in lo .. hi PROVE typed[i] \in Tabless
    <3> HIDE DEF n
    <3>0. lo \in Int /\ hi \in Int /\ i \in Int /\ lo <= i /\ i <= hi
      BY <2>2
    <3>1. i \in 1 .. n
      BY <1>0, <2>2, <3>0
    <3>2. typed[i] # "tab"
      <4>1. i = 1 => i = lo
        BY <2>2, <3>0
      <4>2. i = n => i = hi
        BY <1>0, <2>2, <3>0
      <4>3. typed[i] = "tab" => i = 1 \/ i = n
        BY <3>1 DEF n
      <4> QED BY <2>2, <4>1, <4>2, <4>3
    <3>3. typed[i] \in Char
      BY <1>0, <3>1
    <3> QED BY <3>2, <3>3 DEF Char
  <2>5. SubSeq(typed, lo, hi) \in Seq(Tabless)
    BY <2>2, <2>4, SubSeqOf
  <2> QED BY <1>1, <1>3, <2>5
<1> QED BY <1>2, <1>3

\* TrimSpace leaves no tab in a number that has none inside.
LEMMA TablessTrim ==
    ASSUME NEW s \in Seq(Tabless)
    PROVE  /\ s \in Seq(Char)
           /\ TrimSpace(s) \in Seq(Tabless)
           /\ TrimSpace(Cat(Cat(<<"tab">>, s), <<"tab">>)) \in Seq(Tabless)
<1> DEFINE n == Len(s)
           m == <<"tab">>
           u == Cat(m, s)
           v == Cat(u, m)
<1>0. n \in Nat /\ \A i \in 1 .. n : s[i] \in Tabless /\ s[i] # "tab"
  <2>1. \A e \in Tabless : e # "tab"
    BY DEF Tabless, Plain, Numeral, Separator
  <2>2. n \in Nat /\ \A i \in 1 .. n : s[i] \in Tabless
    OBVIOUS
  <2> QED BY <2>1, <2>2
<1>1. s \in Seq(Char)
  <2>1. Tabless \subseteq Char
    BY DEF Char
  <2> QED BY <2>1, SeqMonotone
<1>2. TrimSpace(s) \in Seq(Tabless)
  BY <1>0, <1>1, TrimTabs
<1>3. m \in Seq(Char) /\ Len(m) = 1
  BY DEF Char
<1>4. /\ u \in Seq(Char) /\ Len(u) = n + 1
      /\ \A i \in 1 .. n : u[i + 1] = s[i]
  <2> HIDE DEF m
  <2>1. /\ u \in Seq(Char) /\ Len(u) = 1 + n
    BY <1>1, <1>3, CatType
  <2>2. \A i \in 1 .. n : u[i + 1] = s[i]
    <3>1. m \in Seq(Char) /\ s \in Seq(Char)
      BY <1>1, <1>3
    <3>2. \A i \in 1 .. Len(s) : Cat(m, s)[Len(m) + i] = s[i]
      BY <3>1 DEF Cat
    <3> QED BY <1>0, <1>3, <3>2
  <2> QED BY <1>0, <2>1, <2>2
<1>5. v \in Seq(Char) /\ Len(v) = n + 2 /\ \A i \in 1 .. n + 1 : v[i] = u[i]
  <2> HIDE DEF m, u
  <2>1. v \in Seq(Char) /\ Len(v) = Len(u) + 1
    BY <1>3, <1>4, CatType
  <2>2. \A i \in 1 .. Len(u) : v[i] = u[i]
    <3>1. u \in Seq(Char) /\ m \in Seq(Char)
      BY <1>3, <1>4
    <3> QED BY <3>1 DEF Cat
  <2> QED BY <1>0, <1>4, <2>1, <2>2
<1>6. ASSUME NEW i \in 1 .. n + 2, i # 1, i # n + 2 PROVE v[i] # "tab"
  <2> HIDE DEF m, u, v
  <2>1. i \in 1 .. n + 1 /\ i - 1 \in 1 .. n /\ (i - 1) + 1 = i
    BY <1>0, <1>6
  <2> QED BY <1>0, <1>4, <1>5, <2>1
<1>7. TrimSpace(v) \in Seq(Tabless)
  <2> HIDE DEF v
  <2> QED BY <1>0, <1>5, <1>6, TrimTabs
<1> QED BY <1>1, <1>2, <1>7

\* A national number as people have it: without the 0, and not beginning as the
\* country code does.
National ==
    {national \in Seq(Numeral) :
        /\ Len(national) > 0
        /\ national[1] # "0"
        /\ ~ (Len(national) > 1 /\ national[1] = "6" /\ national[2] = "2")}

\* The ways to begin a number.
Prefix == {<<>>, <<"0">>, <<"6", "2">>, <<"+", "6", "2">>}

\* Of every spelling a prefix and the number are left.
LEMMA SpellingWithout ==
    ASSUME NEW national \in National, NEW typed \in Spellings(national)
    PROVE  \E prefix \in Prefix : Strip(typed) = prefix \o national
<1>0. national \in Seq(Plain)
  <2>1. Numeral \subseteq Plain /\ national \in Seq(Numeral)
    BY DEF National, Plain
  <2> QED BY <2>1, SeqMonotone
<1> DEFINE numbers == {prefix \o national : prefix \in Prefix}
           once == UNION {Spaced(m) : m \in numbers}
           spaced == UNION {Spaced(m) : m \in once}
           Good(x, number) == x \in Seq(Tabless) /\ Without(x, Ignored) = number
<1>1. ASSUME NEW number \in numbers PROVE Good(number, number)
  <2>1. PICK prefix \in Prefix : number = prefix \o national
    OBVIOUS
  <2>2. prefix \in Seq(Plain)
    <3>1. "0" \in Plain /\ "2" \in Plain /\ "6" \in Plain /\ "+" \in Plain
      BY DEF Plain, Numeral
    <3>2. /\ <<>> \in Seq(Plain) /\ <<"0">> \in Seq(Plain)
          /\ <<"6", "2">> \in Seq(Plain) /\ <<"+", "6", "2">> \in Seq(Plain)
      BY <3>1
    <3> QED BY <3>2 DEF Prefix
  <2>3. number \in Seq(Plain)
    BY <1>0, <2>1, <2>2, CatType DEF Cat
  <2>4. \A e \in Plain : e \notin Ignored
    BY DEF Plain, Numeral, Ignored, Separator
  <2>5. Without(number, Ignored) = number
    BY <2>3, <2>4, WithoutNone
  <2>6. Plain \subseteq Tabless
    BY DEF Tabless
  <2> QED BY <2>3, <2>5, <2>6, SeqMonotone
<1>2. ASSUME NEW number, NEW s, NEW x \in Spaced(s), Good(s, number)
      PROVE  Good(x, number)
  <2>1. s \in Seq(Char)
    BY <1>2, TablessTrim
  <2> QED BY <1>2, <2>1, SpacedWithout
<1>3. ASSUME NEW x \in once PROVE \E number \in numbers : Good(x, number)
  <2>1. PICK number \in numbers : x \in Spaced(number)
    OBVIOUS
  <2> HIDE DEF Good, numbers
  <2> QED BY <1>1, <1>2, <2>1
<1>4. ASSUME NEW x \in spaced PROVE \E number \in numbers : Good(x, number)
  <2>1. PICK y \in once : x \in Spaced(y)
    OBVIOUS
  <2> HIDE DEF Good, numbers, once
  <2> QED BY <1>2, <1>3, <2>1
<1>5. ASSUME NEW s, NEW number, Good(s, number)
      PROVE  Strip(s) = number /\ Strip(Cat(Cat(<<"tab">>, s), <<"tab">>)) = number
  <2>1. /\ s \in Seq(Char)
        /\ TrimSpace(s) \in Seq(Tabless)
        /\ TrimSpace(Cat(Cat(<<"tab">>, s), <<"tab">>)) \in Seq(Tabless)
    BY <1>5, TablessTrim
  <2>2. /\ Cat(Cat(<<"tab">>, s), <<"tab">>) \in Seq(Char)
        /\ Without(Cat(Cat(<<"tab">>, s), <<"tab">>), Ignored) = number
    BY <1>5, <2>1, TabsWithout
  <2> QED BY <1>5, <2>1, <2>2, StripIsWithout DEF Ignored
<1>6. typed \in numbers \/ typed \in spaced
        \/ \E n \in spaced : typed = Cat(Cat(<<"tab">>, n), <<"tab">>)
  BY DEF Spellings, Prefix, Cat
<1>7. \E number \in numbers : Strip(typed) = number
  <2> HIDE DEF numbers, spaced, Good
  <2>1. CASE typed \in numbers
    BY <1>1, <1>5, <2>1
  <2>2. CASE typed \in spaced
    BY <1>4, <1>5, <2>2
  <2>3. CASE \E n \in spaced : typed = Cat(Cat(<<"tab">>, n), <<"tab">>)
    BY <1>4, <1>5, <2>3
  <2> QED BY <1>6, <2>1, <2>2, <2>3
<1> QED BY <1>7

\* What a number begins with.
LEMMA BeginsWithOne ==
    ASSUME NEW S, NEW phone \in Seq(S), NEW c
    PROVE  IsPrefix(<<c>>, phone) <=> Len(phone) >= 1 /\ phone[1] = c
BY DEF IsPrefix

\* And by two.
LEMMA BeginsWithTwo ==
    ASSUME NEW S, NEW phone \in Seq(S), NEW c, NEW d
    PROVE  IsPrefix(<<c, d>>, phone)
               <=> Len(phone) >= 2 /\ phone[1] = c /\ phone[2] = d
BY DEF IsPrefix

\* However a national number is written, it is normalised to the same.
THEOREM SpellingsNormalize ==
    ASSUME NEW national \in National, NEW typed \in Spellings(national)
    PROVE  Normalized(typed) = E164(national)
<1>0. /\ national \in Seq(Plain) /\ Len(national) > 0 /\ Len(national) \in Nat
      /\ national[1] \in Numeral /\ national[1] # "0" /\ national # <<>>
      /\ ~ (Len(national) > 1 /\ national[1] = "6" /\ national[2] = "2")
  <2>1. Numeral \subseteq Plain /\ national \in Seq(Numeral)
    BY DEF National, Plain
  <2>2. national \in Seq(Plain)
    BY <2>1, SeqMonotone
  <2> QED BY <2>1, <2>2 DEF National
<1>1. PICK prefix \in Prefix : Strip(typed) = prefix \o national
  BY SpellingWithout
<1> DEFINE phone == Strip(typed)
<1>2. CASE prefix = <<>>
  <2>1. phone = national
    BY <1>0, <1>1, <1>2
  <2>2. /\ ~ IsPrefix(<<"0">>, phone) /\ ~ IsPrefix(<<"6", "2">>, phone)
        /\ ~ (IsPrefix(<<"+">>, phone) \/ phone = <<>>)
    <3> HIDE DEF phone
    <3>1. national[1] # "+"
      BY <1>0 DEF Numeral
    <3> QED BY <1>0, <2>1, <3>1, BeginsWithOne, BeginsWithTwo
  <2> QED BY <2>1, <2>2 DEF Normalized
<1>3. CASE prefix = <<"0">>
  <2>1. /\ phone = <<"0">> \o national
    BY <1>1, <1>3
  <2>2. phone \in Seq(Plain) /\ Len(phone) >= 1 /\ phone[1] = "0" /\ Tail(phone) = national
    <3>1. "0" \in Plain
      BY DEF Plain, Numeral
    <3> QED BY <1>0, <2>1, <3>1
  <2>3. /\ IsPrefix(<<"0">>, phone) /\ ~ IsPrefix(<<"6", "2">>, phone)
        /\ ~ (IsPrefix(<<"+">>, phone) \/ phone = <<>>)
    <3> HIDE DEF phone
    <3> QED BY <2>2, BeginsWithOne, BeginsWithTwo
  <2> QED BY <2>2, <2>3 DEF Normalized
<1>4. CASE prefix = <<"6", "2">>
  <2>1. phone = <<"6", "2">> \o national
    BY <1>1, <1>4
  <2>2. phone \in Seq(Plain) /\ Len(phone) >= 2 /\ phone[1] = "6" /\ phone[2] = "2"
    <3>1. "6" \in Plain /\ "2" \in Plain
      BY DEF Plain, Numeral
    <3> QED BY <1>0, <2>1, <3>1
  <2>3. /\ IsPrefix(<<"6", "2">>, phone) /\ ~ IsPrefix(<<"0">>, phone)
        /\ ~ (IsPrefix(<<"+">>, phone) \/ phone = <<>>)
    <3> HIDE DEF phone
    <3> QED BY <2>2, BeginsWithOne, BeginsWithTwo
  <2>4. Normalized(typed) = <<"+">> \o phone
    BY <2>3 DEF Normalized
  <2>5. <<"+">> \o (<<"6", "2">> \o national) = <<"+", "6", "2">> \o national
    BY <1>0
  <2> QED BY <2>1, <2>4, <2>5 DEF E164
<1>5. CASE prefix = <<"+", "6", "2">>
  <2>1. phone = <<"+", "6", "2">> \o national
    BY <1>1, <1>5
  <2>2. phone \in Seq(Plain) /\ Len(phone) >= 1 /\ phone[1] = "+"
    <3>1. "+" \in Plain /\ "6" \in Plain /\ "2" \in Plain
      BY DEF Plain, Numeral
    <3> QED BY <1>0, <2>1, <3>1
  <2>3. /\ ~ IsPrefix(<<"0">>, phone) /\ ~ IsPrefix(<<"6", "2">>, phone)
        /\ IsPrefix(<<"+">>, phone)
    <3> HIDE DEF phone
    <3> QED BY <2>2, BeginsWithOne, BeginsWithTwo
  <2>4. Normalized(typed) = phone
    BY <2>3 DEF Normalized
  <2> QED BY <2>1, <2>4 DEF E164
<1> QED BY <1>2, <1>3, <1>4, <1>5 DEF Prefix

-----------------------------------------------------------------------------
(* TLV messages                                                            *)

Parsed(S) == [ok : BOOLEAN, fields : Seq([tag : S, value : Seq(S)])]

\* The loop of Unpack has at every offset the result of its round there.
LEMMA RoundType ==
    ASSUME NEW S, NEW data \in Seq(S), NEW o \in 0 .. Len(data), NEW rest \in Parsed(S)
    PROVE  Round(data, o, rest) \in Parsed(S)
<1> DEFINE R == [tag : S, value : Seq(S)]
           one == <<FieldAt(data, o)>>
<1>0. Len(data) \in Nat /\ rest.ok \in BOOLEAN /\ rest.fields \in Seq(R)
  BY DEF Parsed
<1>1. Malformed \in Parsed(S)
  BY DEF Malformed, Parsed
<1>2. [ok |-> TRUE, fields |-> <<>>] \in Parsed(S)
  BY DEF Parsed
<1>3. ASSUME o + 3 <= Len(data), End(data, o) \in o + 3 .. Len(data)
      PROVE  [ok |-> TRUE, fields |-> Cat(one, rest.fields)] \in Parsed(S)
  <2>1. data[o + 1] \in S
    BY <1>0, <1>3
  <2>2. PICK e \in o + 3 .. Len(data) : e = End(data, o)
    BY <1>3
  <2>3. SubSeq(data, o + 4, e) \in Seq(S)
    <3>1. \A i \in o + 4 .. e : i \in 1 .. Len(data)
      BY <1>0, <2>2
    <3> QED BY <1>0, <2>2, <3>1
  <2>4. FieldAt(data, o) \in R
    BY <2>1, <2>2, <2>3 DEF FieldAt
  <2> HIDE DEF R
  <2>5. one \in Seq(R)
    BY <2>4
  <2> HIDE DEF one
  <2>6. Cat(one, rest.fields) \in Seq(R)
    BY <1>0, <2>5, CatType
  <2> QED BY <2>6 DEF Parsed, R
<1> QED BY <1>0, <1>1, <1>2, <1>3 DEF Round, Cat

\* At every offset the loop does its round with what comes after it.
LEMMA LoopRounds ==
    ASSUME NEW S, NEW data \in Seq(S), NEW o \in 0 .. Len(data)
    PROVE  /\ Loop(data)[o] \in Parsed(S)
           /\ Loop(data)[o] = Round(data, o, Loop(data)[End(data, o)])
<1> DEFINE n == Len(data)
           P == Parsed(S)
           stop == {i \in 0 .. n : i = n \/ i + 3 > n \/ End(data, i) \notin i + 3 .. n}
           next == [i \in 0 .. n |-> IF i \in stop THEN 0 ELSE End(data, i)]
           base == [i \in 0 .. n |-> Round(data, i, Malformed)]
           h == [i \in 0 .. n |-> [r \in P |-> Round(data, i, r)]]
           D(f) == [i \in 0 .. n |-> Round(data, i, f[End(data, i)])]
           L == CHOOSE f : f = D(f)
<1>0. n \in Nat /\ Malformed \in P
  BY DEF Parsed, Malformed
<1>1. Loop(data) = L
  BY DEF Loop
<1>2. ASSUME NEW i \in 0 .. n, NEW r \in P PROVE Round(data, i, r) \in P
  BY RoundType
<1>3. ASSUME NEW i \in stop, NEW r PROVE Round(data, i, r) = Round(data, i, Malformed)
  BY <1>0 DEF Round
<1>4. ASSUME NEW i \in (0 .. n) \ stop PROVE End(data, i) \in i + 3 .. n
  OBVIOUS
<1> HIDE DEF n, P
<1>5. /\ stop \in SUBSET (0 .. n) /\ next \in [0 .. n -> Nat] /\ base \in [0 .. n -> P]
      /\ h \in [0 .. n -> [P -> P]]
      /\ \A i \in (0 .. n) \ stop : next[i] \in i + 1 .. n
  <2>1. ASSUME NEW i \in (0 .. n) \ stop
        PROVE  End(data, i) \in Nat /\ End(data, i) \in i + 1 .. n
    <3>1. PICK e \in i + 3 .. n : e = End(data, i)
      BY <1>4
    <3>2. e \in Nat /\ e \in i + 1 .. n
      BY <1>0
    <3> QED BY <3>1, <3>2
  <2> QED BY <1>0, <1>2, <2>1
<1>6. PICK f \in [0 .. n -> P] :
          \A i \in 0 .. n : Onward(f, i, stop, base, next, h)
  <2> HIDE DEF stop, next, base, h
  <2> QED BY <1>0, <1>5, DescentExists
<1>7. ASSUME NEW i \in 0 .. n PROVE f[i] = Round(data, i, f[End(data, i)])
  <2>1. CASE i \in stop
    BY <1>3, <1>6, <2>1 DEF Onward
  <2>2. CASE i \notin stop
    <3>1. next[i] = End(data, i) /\ next[i] \in i + 1 .. n
      BY <1>5, <2>2
    <3>2. f[End(data, i)] \in P
      BY <1>0, <1>6, <3>1
    <3>3. f[i] = h[i][f[next[i]]]
      BY <1>6, <2>2 DEF Onward
    <3> QED BY <3>1, <3>2, <3>3
  <2> QED BY <2>1, <2>2
<1>8. f = D(f)
  BY <1>6, <1>7
<1>9. L = D(L)
  <2> HIDE DEF D
  <2> QED BY <1>8
\* From the last offset down, what satisfies the equation is f.
<1>10. \A m \in 0 .. n : \A i \in n - m .. n : L[i] = f[i]
  <2> HIDE DEF L
  <2> DEFINE T == {m \in 0 .. n : \A i \in n - m .. n : L[i] = f[i]}
  <2>0. \A i \in 0 .. n : L[i] = Round(data, i, L[End(data, i)])
    BY <1>9
  <2>1. ASSUME NEW i \in 0 .. n, i \in stop PROVE L[i] = f[i]
    <3> HIDE DEF stop
    <3> QED BY <1>3, <1>7, <2>0, <2>1
  <2>2. 0 \in T
    <3>1. \A i \in n - 0 .. n : i = n /\ i \in 0 .. n
      BY <1>0
    <3>2. \A i \in n - 0 .. n : L[i] = f[i]
      BY <2>1, <3>1
    <3> QED BY <1>0, <3>2
  <2>3. ASSUME NEW m \in 0 .. n - 1, m \in T PROVE m + 1 \in T
    <3>1. ASSUME NEW i \in n - (m + 1) .. n PROVE L[i] = f[i]
      <4>1. i \in 0 .. n
        BY <1>0
      <4>2. CASE i \in stop
        BY <2>1, <4>1, <4>2
      <4>3. CASE i \notin stop
        <5>1. PICK e \in i + 3 .. n : e = End(data, i)
          BY <1>4, <4>1, <4>3
        <5>2. e \in n - m .. n
          BY <1>0
        <5>3. L[End(data, i)] = f[End(data, i)]
          BY <2>3, <5>1, <5>2
        <5> QED BY <1>7, <2>0, <4>1, <5>3
      <4> QED BY <4>2, <4>3
    <3>2. m + 1 \in 0 .. n
      BY <1>0
    <3> QED BY <3>1, <3>2
  <2> HIDE DEF T
  <2>4. \A m \in 0 .. n : m \in T
    BY <1>0, <2>2, <2>3, UpTo
  <2> QED BY <2>4 DEF T
<1>11. ASSUME NEW i \in 0 .. n PROVE L[i] = f[i]
  <2> HIDE DEF L
  <2>1. n \in 0 .. n /\ i \in n - n .. n
    BY <1>0
  <2> QED BY <1>10, <2>1
<1>12. o \in 0 .. n
  BY DEF n
<1>13. L[o] \in P
  <2> HIDE DEF L
  <2> QED BY <1>6, <1>11, <1>12
<1>14. L[o] = Round(data, o, L[End(data, o)])
  <2> HIDE DEF L, D
  <2>1. L[o] = D(L)[o]
    BY <1>9
  <2> QED BY <1>12, <2>1 DEF D
<1> QED BY <1>1, <1>13, <1>14 DEF P

\* A sequence of sequences, joined one after the other.
Joined(f, seqs) ==
    f[0] = <<>> /\ \A i \in 1 .. Len(seqs) : f[i] = Cat(f[i - 1], seqs[i])

\* FlattenSeq joins.
LEMMA FlattenJoins ==
    ASSUME NEW S, NEW seqs \in Seq(Seq(S))
    PROVE  \E f \in [0 .. Len(seqs) -> Seq(S)] :
              Joined(f, seqs) /\ FlattenSeq(seqs) = f[Len(seqs)]
<1> DEFINE n == Len(seqs)
           Q == Seq(S)
           none == <<>>
           h == [i \in 1 .. n |-> [t \in Q |-> Cat(t, seqs[i])]]
           D(g) == [i \in 1 .. n |-> IF i = 1 THEN seqs[i] ELSE Cat(g[i - 1], seqs[i])]
           W == CHOOSE g : g = D(g)
<1>0. n \in Nat /\ (\A i \in 1 .. n : seqs[i] \in Q) /\ none \in Q
  OBVIOUS
<1>1. FlattenSeq(seqs) = IF n = 0 THEN seqs ELSE W[n]
  BY DEF FlattenSeq, Cat
<1>2. n = 0 => seqs = none
  OBVIOUS
<1>3. \A i \in 1 .. n, t \in Q : Cat(t, seqs[i]) \in Q
  BY <1>0, CatType
<1>4. \A i \in 1 .. n : Cat(none, seqs[i]) = seqs[i]
  BY <1>0, CatEmpty
<1> HIDE DEF Q, n
<1>5. PICK f \in [0 .. n -> Q] : Upward(f, n, none, h)
  <2>1. h \in [1 .. n -> [Q -> Q]]
    BY <1>3
  <2> HIDE DEF h, none
  <2> QED BY <1>0, <2>1, RecursionExists
<1> HIDE DEF none
<1>6. f[0] = none /\ \A i \in 1 .. n : f[i] = Cat(f[i - 1], seqs[i])
  <2>1. ASSUME NEW i \in 1 .. n PROVE f[i] = Cat(f[i - 1], seqs[i])
    <3>1. i - 1 \in 0 .. n /\ f[i - 1] \in Q
      BY <1>0
    <3> QED BY <1>5, <3>1 DEF Upward
  <2> QED BY <1>5, <2>1 DEF Upward
<1>7. [i \in 1 .. n |-> f[i]] = D([i \in 1 .. n |-> f[i]])
  <2> DEFINE g == [i \in 1 .. n |-> f[i]]
  <2>1. ASSUME NEW i \in 1 .. n
        PROVE  g[i] = IF i = 1 THEN seqs[i] ELSE Cat(g[i - 1], seqs[i])
    <3>1. CASE i = 1
      <4>1. f[1] = Cat(f[0], seqs[1]) /\ 1 \in 1 .. n
        BY <1>0, <1>6, <3>1
      <4> QED BY <1>4, <1>6, <3>1, <4>1
    <3>2. CASE i # 1
      <4>1. i - 1 \in 1 .. n
        BY <1>0, <3>2
      <4> QED BY <1>6, <3>2, <4>1
    <3> QED BY <3>1, <3>2
  <2>2. g = [i \in 1 .. n |-> g[i]]
    OBVIOUS
  <2> HIDE DEF g
  <2>3. g = D(g)
    BY <2>1, <2>2
  <2> QED BY <2>3 DEF g
<1>8. W = D(W)
  <2> HIDE DEF D
  <2> QED BY <1>7
<1>9. \A i \in 0 .. n : i = 0 \/ W[i] = f[i]
  <2> HIDE DEF W
  <2> DEFINE T == {i \in 0 .. n : i = 0 \/ W[i] = f[i]}
  <2>1. 0 \in T
    BY <1>0
  <2>2. ASSUME NEW i \in 0 .. n - 1, i \in T PROVE i + 1 \in T
    <3>1. i + 1 \in 1 .. n /\ (i + 1) - 1 = i
      BY <1>0
    <3>2. W[i + 1] = IF i + 1 = 1 THEN seqs[i + 1] ELSE Cat(W[(i + 1) - 1], seqs[i + 1])
      BY <1>8, <3>1
    <3>3. f[i + 1] = Cat(f[i], seqs[i + 1])
      BY <1>6, <3>1
    <3>4. CASE i = 0
      BY <1>4, <1>6, <3>1, <3>2, <3>3, <3>4
    <3>5. CASE i # 0
      <4>1. W[i] = f[i] /\ i + 1 # 1
        BY <2>2, <3>5
      <4> QED BY <3>1, <3>2, <3>3, <4>1
    <3> QED BY <3>4, <3>5
  <2> HIDE DEF T
  <2>3. \A i \in 0 .. n : i \in T
    BY <1>0, <2>1, <2>2, UpTo
  <2> QED BY <2>3 DEF T
<1>10. FlattenSeq(seqs) = f[n]
  <2> HIDE DEF W
  <2>1. n \in 0 .. n
    BY <1>0
  <2> QED BY <1>1, <1>2, <1>6, <1>9, <2>1
<1>11. Joined(f, seqs)
  BY <1>6 DEF Joined, n, none
<1> QED BY <1>10, <1>11 DEF n, Q

\* A position in a part is one in the whole.
LEMMA Widen ==
    ASSUME NEW a \in Nat, NEW b \in Nat, NEW c, c = a + b
    PROVE  /\ a <= c /\ \A j \in 1 .. a : j \in 1 .. c
           /\ \A j \in 1 .. b : a + j \in 1 .. c
OBVIOUS

\* What is joined last leaves what was joined before at its place.
Placed(f, seqs, k) ==
    /\ Len(f[k]) = Len(f[k - 1]) + Len(seqs[k])
    /\ Len(f[k]) <= Len(f[Len(seqs)])
    /\ \A i \in 1 .. Len(seqs[k]) : f[Len(seqs)][Len(f[k - 1]) + i] = seqs[k][i]

\* Each of the joined sequences stands at its place in the whole.
LEMMA JoinedAt ==
    ASSUME NEW S, NEW seqs \in Seq(Seq(S)), NEW f \in [0 .. Len(seqs) -> Seq(S)],
           Joined(f, seqs), NEW k \in 1 .. Len(seqs)
    PROVE  Placed(f, seqs, k)
<1> DEFINE n == Len(seqs)
           Begins(i) == /\ Len(f[i]) <= Len(f[n])
                        /\ \A j \in 1 .. Len(f[i]) : f[n][j] = f[i][j]
           T == {m \in 0 .. n : Begins(n - m)}
<1>0. n \in Nat /\ (\A i \in 1 .. n : seqs[i] \in Seq(S)) /\ k \in 1 .. n
  OBVIOUS
<1>1. ASSUME NEW i \in 0 .. n
      PROVE  f[i] \in Seq(S) /\ Len(f[i]) \in Nat
  <2>1. f[i] \in Seq(S)
    OBVIOUS
  <2> QED BY <2>1
<1> HIDE DEF n
<1>2. ASSUME NEW i \in 1 .. n
      PROVE  /\ Len(f[i]) = Len(f[i - 1]) + Len(seqs[i])
             /\ \A j \in 1 .. Len(f[i - 1]) : f[i][j] = f[i - 1][j]
             /\ \A j \in 1 .. Len(seqs[i]) : f[i][Len(f[i - 1]) + j] = seqs[i][j]
  <2> DEFINE s == f[i - 1]
             t == seqs[i]
  <2>1. i - 1 \in 0 .. n
    BY <1>0
  <2>2. s \in Seq(S) /\ t \in Seq(S)
    BY <1>0, <1>1, <2>1
  <2>3. f[i] = Cat(s, t)
    BY DEF Joined, n
  <2> HIDE DEF s, t
  <2>4. /\ Len(Cat(s, t)) = Len(s) + Len(t)
        /\ \A j \in 1 .. Len(s) : Cat(s, t)[j] = s[j]
        /\ \A j \in 1 .. Len(t) : Cat(s, t)[Len(s) + j] = t[j]
    BY <2>2 DEF Cat
  <2> QED BY <2>3, <2>4 DEF s, t
<1>3. 0 \in T
  <2>1. n - 0 = n /\ n \in 0 .. n
    BY <1>0
  <2>2. Begins(n)
    BY <1>1, <2>1
  <2> QED BY <2>1, <2>2, <1>0
<1>4. ASSUME NEW m \in 0 .. n - 1, m \in T PROVE m + 1 \in T
  <2> DEFINE i == n - m
  <2>1. /\ i \in 1 .. n /\ i - 1 = n - (m + 1) /\ i - 1 \in 0 .. n /\ i \in 0 .. n
        /\ m + 1 \in 0 .. n /\ n \in 0 .. n
    BY <1>0
  <2>2. Begins(i)
    BY <1>4
  <2> HIDE DEF i
  <2>3. Len(seqs[i]) \in Nat
    BY <1>0, <2>1
  <2>4. Len(f[i - 1]) <= Len(f[i]) /\ \A j \in 1 .. Len(f[i - 1]) : j \in 1 .. Len(f[i])
    <3>1. Len(f[i - 1]) \in Nat /\ Len(f[i]) = Len(f[i - 1]) + Len(seqs[i])
      BY <1>1, <1>2, <2>1
    <3> QED BY <2>3, <3>1, Widen
  <2>5. Begins(i - 1)
    <3>1. ASSUME NEW j \in 1 .. Len(f[i - 1]) PROVE f[n][j] = f[i - 1][j]
      <4>1. f[n][j] = f[i][j]
        BY <2>2, <2>4
      <4>2. f[i][j] = f[i - 1][j]
        BY <1>2, <2>1
      <4> QED BY <4>1, <4>2
    <3>2. Len(f[i - 1]) <= Len(f[n])
      <4>1. Len(f[i - 1]) \in Nat /\ Len(f[i]) \in Nat /\ Len(f[n]) \in Nat
        BY <1>1, <2>1
      <4> QED BY <2>2, <2>4, <4>1
    <3> QED BY <3>1, <3>2
  <2> QED BY <2>1, <2>5
<1>5. Begins(k)
  <2>0. n - k \in 0 .. n /\ n - (n - k) = k
    BY <1>0
  <2>1. \A m \in 0 .. n : m \in T
    <3> HIDE DEF T
    <3> QED BY <1>0, <1>3, <1>4, UpTo
  <2> QED BY <2>0, <2>1
<1>6. k - 1 \in 0 .. n /\ k \in 0 .. n
  BY <1>0
<1>7. ASSUME NEW i \in 1 .. Len(seqs[k])
      PROVE  f[n][Len(f[k - 1]) + i] = seqs[k][i]
  <2>1. Len(seqs[k]) \in Nat
    BY <1>0
  <2>2. Len(f[k - 1]) + i \in 1 .. Len(f[k])
    <3>1. Len(f[k - 1]) \in Nat /\ Len(f[k]) = Len(f[k - 1]) + Len(seqs[k])
      BY <1>0, <1>1, <1>2, <1>6
    <3> QED BY <2>1, <3>1, Widen
  <2>3. f[n][Len(f[k - 1]) + i] = f[k][Len(f[k - 1]) + i]
    BY <1>5, <2>2
  <2> QED BY <1>0, <1>2, <2>3
<1> QED BY <1>0, <1>2, <1>5, <1>7 DEF n, Placed

\* The fields a message can carry, their values made of whatever V is.
Packable(V) == [tag : 0 .. 255, value : {v \in Seq(V) : Len(v) < 65536}]

\* Tag, length and value of a chunk; the two bytes of the length say what it is.
LEMMA ChunkParts ==
    ASSUME NEW V, NEW field \in Packable(V)
    PROVE  /\ Chunk(field) \in Seq(V \union Nat)
           /\ Len(Chunk(field)) = 3 + Len(field.value)
           /\ Len(field.value) \in Nat /\ field.value \in Seq(V)
           /\ Chunk(field)[1] = field.tag
           /\ BigEndian(Chunk(field)[2], Chunk(field)[3]) = Len(field.value)
           /\ \A j \in 1 .. Len(field.value) : Chunk(field)[3 + j] = field.value[j]
<1> DEFINE S == V \union Nat
           len == Len(field.value)
           hi == len \div 256
           lo == len % 256
           head == <<field.tag, hi, lo>>
           body == field.value
<1>1. field.value \in Seq(V) /\ len \in Nat /\ field.tag \in Nat
  <2>1. field.value \in {v \in Seq(V) : Len(v) < 65536} /\ field.tag \in 0 .. 255
    BY DEF Packable
  <2>2. body \in Seq(V)
    BY <2>1
  <2> HIDE DEF body
  <2>3. Len(body) \in Nat
    BY <2>2
  <2>4. field.tag \in Nat
    <3>1. field.tag \in 0 .. 255
      BY <2>1
    <3> QED BY <3>1
  <2> QED BY <2>2, <2>3, <2>4 DEF body
<1>2. hi \in Nat /\ lo \in Nat /\ hi * 256 + lo = len
  <2> HIDE DEF len
  <2> QED BY <1>1
<1> HIDE DEF hi, lo
<1>3. head \in Seq(S) /\ Len(head) = 3 /\ head[1] = field.tag /\ head[2] = hi /\ head[3] = lo
  BY <1>1, <1>2
<1>4. body \in Seq(S)
  <2>1. V \subseteq S
    OBVIOUS
  <2> HIDE DEF S
  <2> QED BY <1>1, <2>1, SeqMonotone
<1>5. Chunk(field) = Cat(head, body)
  BY DEF Chunk, Cat, hi, lo
<1> HIDE DEF head, body, S
<1>6. /\ Cat(head, body) \in Seq(S) /\ Len(Cat(head, body)) = Len(head) + Len(body)
      /\ \A i \in 1 .. Len(head) : Cat(head, body)[i] = head[i]
      /\ \A i \in 1 .. Len(body) : Cat(head, body)[Len(head) + i] = body[i]
  <2>1. head \in Seq(S)
    BY <1>3
  <2> QED BY <1>4, <2>1 DEF Cat
<1>7. 1 \in 1 .. 3 /\ 2 \in 1 .. 3 /\ 3 \in 1 .. 3
  OBVIOUS
<1>8. /\ Chunk(field)[1] = field.tag
      /\ BigEndian(Chunk(field)[2], Chunk(field)[3]) = len
  BY <1>2, <1>3, <1>5, <1>6, <1>7 DEF BigEndian
<1>9. \A j \in 1 .. len : Chunk(field)[3 + j] = field.value[j]
  BY <1>3, <1>5, <1>6 DEF body
<1> QED BY <1>1, <1>3, <1>5, <1>6, <1>8, <1>9 DEF S, body

\* Where the fields of a packed message begin.
Layout(at, message, fields) ==
    /\ at[0] = 0 /\ at[Len(fields)] = Len(message)
    /\ \A k \in 1 .. Len(fields) :
          /\ at[k] = at[k - 1] + 3 + Len(fields[k].value)
          /\ at[k] <= Len(message)
          /\ message[at[k - 1] + 1] = fields[k].tag
          /\ BigEndian(message[at[k - 1] + 2], message[at[k - 1] + 3]) = Len(fields[k].value)
          /\ \A j \in 1 .. Len(fields[k].value) :
                message[at[k - 1] + 3 + j] = fields[k].value[j]

\* A packed message is laid out field by field.
LEMMA PackLayout ==
    ASSUME NEW V, NEW fields \in Seq(Packable(V))
    PROVE  /\ Pack(fields) \in Seq(V \union Nat)
           /\ \E at \in [0 .. Len(fields) -> Nat] : Layout(at, Pack(fields), fields)
<1> DEFINE S == V \union Nat
           n == Len(fields)
           seqs == [i \in 1 .. n |-> Chunk(fields[i])]
           message == Pack(fields)
<1>0. n \in Nat /\ DOMAIN fields = 1 .. n /\ \A i \in 1 .. n : fields[i] \in Packable(V)
  OBVIOUS
<1>1. \A i \in 1 .. n : seqs[i] = Chunk(fields[i]) /\ seqs[i] \in Seq(S)
  BY <1>0, ChunkParts
<1>2. message = FlattenSeq(seqs)
  BY <1>0 DEF Pack
<1> HIDE DEF n
<1>3. seqs \in Seq(Seq(S)) /\ Len(seqs) = n
  <2> DEFINE Q == Seq(S)
  <2>1. \A i \in 1 .. n : Chunk(fields[i]) \in Q
    BY <1>1
  <2> HIDE DEF Q
  <2>2. seqs \in Seq(Q) /\ Len(seqs) = n
    BY <1>0, <2>1
  <2> QED BY <2>2 DEF Q
<1> HIDE DEF S, seqs
<1>4. PICK f \in [0 .. n -> Seq(S)] : Joined(f, seqs) /\ FlattenSeq(seqs) = f[n]
  BY <1>3, FlattenJoins
<1> DEFINE at == [k \in 0 .. n |-> Len(f[k])]
<1>5. ASSUME NEW k \in 0 .. n PROVE f[k] \in Seq(S) /\ Len(f[k]) \in Nat /\ at[k] = Len(f[k])
  <2>1. f[k] \in Seq(S)
    OBVIOUS
  <2> QED BY <2>1
<1>6. at \in [0 .. n -> Nat]
  BY <1>5
<1> HIDE DEF at
<1>7. n \in 0 .. n /\ 0 \in 0 .. n
  BY <1>0
<1>8. at[0] = 0 /\ at[n] = Len(message)
  BY <1>2, <1>4, <1>5, <1>7 DEF Joined
<1>9. ASSUME NEW k \in 1 .. n
      PROVE  /\ at[k] = at[k - 1] + 3 + Len(fields[k].value)
             /\ at[k] <= Len(message)
             /\ message[at[k - 1] + 1] = fields[k].tag
             /\ BigEndian(message[at[k - 1] + 2], message[at[k - 1] + 3])
                    = Len(fields[k].value)
             /\ \A j \in 1 .. Len(fields[k].value) :
                   message[at[k - 1] + 3 + j] = fields[k].value[j]
  <2> DEFINE chunk == Chunk(fields[k])
             len == Len(fields[k].value)
             o == at[k - 1]
  <2>1. k - 1 \in 0 .. n /\ k \in 0 .. n /\ fields[k] \in Packable(V)
    BY <1>0
  <2>2. /\ Len(f[k]) = Len(f[k - 1]) + Len(seqs[k])
        /\ Len(f[k]) <= Len(f[n])
        /\ \A i \in 1 .. Len(seqs[k]) : f[n][Len(f[k - 1]) + i] = seqs[k][i]
    <3>1. f \in [0 .. Len(seqs) -> Seq(S)] /\ k \in 1 .. Len(seqs)
      BY <1>3
    <3>2. Placed(f, seqs, k)
      BY <1>3, <1>4, <3>1, JoinedAt
    <3> QED BY <1>3, <3>2 DEF Placed
  <2>3. seqs[k] = chunk
    BY <1>1
  <2>4. /\ Len(chunk) = 3 + len /\ len \in Nat
        /\ chunk[1] = fields[k].tag
        /\ BigEndian(chunk[2], chunk[3]) = len
        /\ \A j \in 1 .. len : chunk[3 + j] = fields[k].value[j]
    BY <2>1, ChunkParts
  <2>5. o \in Nat /\ o = Len(f[k - 1]) /\ at[k] = Len(f[k])
    BY <1>5, <2>1
  <2> HIDE DEF chunk, len, o
  <2>0. len \in Nat /\ o \in Nat
    BY <2>4, <2>5
  <2>6. \A i \in 1 .. 3 + len : message[o + i] = chunk[i]
    BY <1>2, <1>4, <2>2, <2>3, <2>4, <2>5
  <2>7. 1 \in 1 .. 3 + len /\ 2 \in 1 .. 3 + len /\ 3 \in 1 .. 3 + len
    BY <2>4
  <2>8. message[o + 1] = fields[k].tag /\ BigEndian(message[o + 2], message[o + 3]) = len
    BY <2>4, <2>6, <2>7
  <2>9. ASSUME NEW j \in 1 .. len PROVE message[o + 3 + j] = fields[k].value[j]
    <3>1. 3 + j \in 1 .. 3 + len /\ o + (3 + j) = o + 3 + j
      BY <2>0
    <3> QED BY <2>4, <2>6, <3>1
  <2>10. at[k] = o + 3 + len
    <3>1. at[k] = o + (3 + len)
      BY <2>2, <2>3, <2>4, <2>5
    <3> QED BY <2>0, <3>1
  <2>11. at[k] <= Len(message)
    BY <1>2, <1>4, <2>2, <2>5
  <2> QED BY <2>8, <2>9, <2>10, <2>11 DEF o, len
<1>10. Layout(at, message, fields)
  BY <1>8, <1>9 DEF Layout, n
<1>11. message \in Seq(S)
  BY <1>2, <1>4, <1>5, <1>7
<1> QED BY <1>6, <1>10, <1>11 DEF S, n

\* One round of the loop over a message that was cut after m bytes: nothing is
\* left, or the field is cut, or it is the one that was packed.
RoundAt(d, m, at, k, fields) ==
    /\ at[k - 1] = m => Loop(d)[at[k - 1]] = [ok |-> TRUE, fields |-> <<>>]
    /\ at[k - 1] # m /\ at[k] > m => Loop(d)[at[k - 1]] = Malformed
    /\ at[k] <= m =>
          /\ at[k - 1] # m
          /\ Loop(d)[at[k]].ok =>
                Loop(d)[at[k - 1]] =
                    [ok |-> TRUE, fields |-> Cat(<<fields[k]>>, Loop(d)[at[k]].fields)]
          /\ ~ Loop(d)[at[k]].ok => Loop(d)[at[k - 1]] = Malformed

\* One round of it: the field at the border of a chunk, or an error where the cut is.
LEMMA CutRound ==
    ASSUME NEW V, NEW fields \in Seq(Packable(V)), NEW message \in Seq(V \union Nat),
           NEW at \in [0 .. Len(fields) -> Nat], Layout(at, message, fields),
           NEW m \in 0 .. Len(message), NEW d, d = SubSeq(message, 1, m),
           NEW k \in 1 .. Len(fields), at[k - 1] <= m
    PROVE  RoundAt(d, m, at, k, fields)
<1> DEFINE S == V \union Nat
           n == Len(fields)
           len == Len(fields[k].value)
           value == fields[k].value
           o == at[k - 1]
           e == at[k]
<1>0. /\ n \in Nat /\ k \in 1 .. n /\ k - 1 \in 0 .. n /\ k \in 0 .. n
      /\ fields[k] \in Packable(V)
  OBVIOUS
<1>1. /\ d \in Seq(S) /\ Len(d) = m /\ m \in Nat
      /\ \A i \in 1 .. m : d[i] = message[i]
  OBVIOUS
<1>2. len \in Nat /\ value \in Seq(V) /\ fields[k] = [tag |-> fields[k].tag, value |-> value]
  <2>1. len \in Nat /\ value \in Seq(V)
    BY <1>0, ChunkParts
  <2>2. fields[k] = [tag |-> fields[k].tag, value |-> value]
    BY <1>0 DEF Packable
  <2> QED BY <2>1, <2>2
<1>3. /\ e = o + 3 + len
      /\ message[o + 1] = fields[k].tag
      /\ BigEndian(message[o + 2], message[o + 3]) = len
      /\ \A j \in 1 .. len : message[o + 3 + j] = value[j]
  BY DEF Layout
<1>4. o \in Nat /\ e \in Nat /\ o <= m
  BY <1>0
<1> HIDE DEF n, S, len, value, o, e
<1>5. o \in 0 .. Len(d)
  BY <1>1, <1>4
<1>6. Loop(d)[o] = Round(d, o, Loop(d)[End(d, o)]) /\ Loop(d)[o] \in Parsed(S)
  BY <1>1, <1>5, LoopRounds
<1>7. CASE o = m
  <2>1. Loop(d)[o] = [ok |-> TRUE, fields |-> <<>>]
    BY <1>1, <1>6, <1>7 DEF Round
  <2>2. e > m
    BY <1>2, <1>3, <1>4, <1>7
  <2>3. ~ (e <= m)
    BY <1>1, <1>4, <2>2
  <2> QED BY <1>7, <2>1, <2>3 DEF o, e, RoundAt
<1>8. CASE o # m /\ e > m
  <2>1. Loop(d)[o] = Malformed
    <3>1. CASE o + 3 > m
      BY <1>1, <1>6, <1>8, <3>1 DEF Round
    <3>2. CASE ~ (o + 3 > m)
      <4>1. o + 2 \in 1 .. m /\ o + 3 \in 1 .. m
        BY <1>1, <1>4, <3>2
      <4>2. End(d, o) = e
        BY <1>1, <1>3, <4>1 DEF End
      <4>3. e \notin o + 3 .. m
        BY <1>1, <1>4, <1>8
      <4> QED BY <1>1, <1>6, <1>8, <4>2, <4>3 DEF Round
    <3> QED BY <3>1, <3>2
  <2>2. ~ (e <= m)
    BY <1>1, <1>4, <1>8
  <2> QED BY <1>8, <2>1, <2>2 DEF o, e, RoundAt
<1>9. CASE e <= m
  <2>1. /\ o + 1 \in 1 .. m /\ o + 2 \in 1 .. m /\ o + 3 \in 1 .. m /\ e \in o + 3 .. m
        /\ o # m /\ ~ (o + 3 > m) /\ e \in 0 .. Len(d)
    <3>1. /\ m \in Nat /\ len \in Nat /\ o \in Nat /\ e \in Nat /\ e = o + 3 + len
          /\ e <= m /\ Len(d) = m
      BY <1>1, <1>2, <1>3, <1>4, <1>9
    <3>2. e \in 0 .. m /\ e \in o + 3 .. m
      BY <3>1
    <3> QED BY <3>1, <3>2
  <2>2. End(d, o) = e
    BY <1>1, <1>3, <2>1 DEF End
  <2>3. SubSeq(d, o + 4, e) = value
    <3> DEFINE part == SubSeq(d, o + 4, e)
    <3>1. \A j \in 1 .. len : o + 3 + j \in 1 .. m /\ (o + 4) + j - 1 = o + 3 + j
      BY <1>1, <1>2, <1>3, <1>4, <1>9
    <3>2. /\ part \in Seq(S) /\ Len(part) = len
          /\ \A j \in 1 .. len : part[j] = d[(o + 4) + j - 1]
      <4>1. \A i \in o + 4 .. e : i \in 1 .. m /\ d[i] \in S
        BY <1>1, <1>4, <1>9
      <4>2. e - (o + 4) + 1 = len
        BY <1>2, <1>3, <1>4
      <4> QED BY <1>1, <1>2, <1>4, <2>1, <4>1, <4>2
    <3>3. value \in Seq(S) /\ Len(value) = len
      <4>1. V \subseteq S
        BY DEF S
      <4>2. value \in Seq(S)
        BY <1>2, <4>1, SeqMonotone
      <4> QED BY <4>2 DEF len, value
    <3> HIDE DEF part
    <3>4. \A j \in 1 .. len : part[j] = value[j]
      BY <1>1, <1>3, <3>1, <3>2
    <3>5. part = value
      BY <3>2, <3>3, <3>4, SeqEqual
    <3> QED BY <3>5 DEF part
  <2>4. FieldAt(d, o) = fields[k]
    BY <1>1, <1>2, <1>3, <2>1, <2>2, <2>3 DEF FieldAt
  <2>5. Loop(d)[o] = Round(d, o, Loop(d)[e])
    BY <1>6, <2>2
  <2>6. /\ Loop(d)[e].ok => Loop(d)[o] =
               [ok |-> TRUE, fields |-> Cat(<<fields[k]>>, Loop(d)[e].fields)]
        /\ ~ Loop(d)[e].ok => Loop(d)[o] = Malformed
    BY <1>1, <2>1, <2>2, <2>4, <2>5 DEF Round, Cat
  <2>7. ~ (e > m)
    BY <1>1, <1>4, <1>9
  <2> QED BY <1>9, <2>1, <2>6, <2>7 DEF o, e, RoundAt
<1>10. e > m \/ e <= m
  BY <1>1, <1>4
<1> QED BY <1>7, <1>8, <1>9, <1>10 DEF RoundAt, o, e

\* What is parsed is among what was sent.
AllSent(parsed, fields) ==
    parsed.ok => \A j \in DOMAIN parsed.fields : \E i \in DOMAIN fields :
                    parsed.fields[j] = fields[i]

\* A field of the message in front of what was sent is still only what was sent.
LEMMA AllSentMore ==
    ASSUME NEW S, NEW fields \in Seq(S), NEW i \in DOMAIN fields,
           NEW parsed, parsed.ok, parsed.fields \in Seq(S), AllSent(parsed, fields)
    PROVE  AllSent([ok |-> TRUE, fields |-> Cat(<<fields[i]>>, parsed.fields)], fields)
<1> DEFINE one == <<fields[i]>>
           rest == parsed.fields
           all == Cat(one, rest)
<1>0. fields[i] \in S
  OBVIOUS
<1>1. one \in Seq(S) /\ Len(one) = 1 /\ one[1] = fields[i]
  BY <1>0
<1>2. rest \in Seq(S) /\ Len(rest) \in Nat /\ DOMAIN rest = 1 .. Len(rest)
  OBVIOUS
<1>3. \A j \in 1 .. Len(rest) : \E k \in DOMAIN fields : rest[j] = fields[k]
  BY <1>2 DEF AllSent
<1> HIDE DEF one, rest
<1>4. /\ all \in Seq(S) /\ Len(all) = Len(one) + Len(rest)
      /\ \A j \in 1 .. Len(one) : all[j] = one[j]
      /\ \A j \in 1 .. Len(rest) : all[Len(one) + j] = rest[j]
  <2>1. one \in Seq(S)
    BY <1>1
  <2> QED BY <1>2, <2>1 DEF Cat
<1>5. DOMAIN all = 1 .. 1 + Len(rest)
  <2> HIDE DEF all
  <2> QED BY <1>1, <1>4
<1> HIDE DEF all
<1>6. ASSUME NEW j \in 1 .. 1 + Len(rest)
      PROVE  \E k \in DOMAIN fields : all[j] = fields[k]
  <2>1. CASE j = 1
    <3>1. all[1] = fields[i]
      BY <1>1, <1>4
    <3> QED BY <2>1, <3>1
  <2>2. CASE j # 1
    <3>1. j - 1 \in 1 .. Len(rest) /\ 1 + (j - 1) = j
      BY <1>2, <2>2
    <3>2. all[j] = rest[j - 1]
      BY <1>1, <1>4, <3>1
    <3> QED BY <1>3, <3>1, <3>2
  <2> QED BY <2>1, <2>2
<1> QED BY <1>5, <1>6 DEF AllSent, all, one, rest

\* The loop over a message that was cut finds only fields that were sent.
LEMMA CutLoop ==
    ASSUME NEW V, NEW fields \in Seq(Packable(V)), NEW m \in 0 .. Len(Pack(fields))
    PROVE  LET d == SubSeq(Pack(fields), 1, m)
           IN  /\ AllSent(Loop(d)[0], fields)
               /\ Loop(d)[0].ok => Loop(d)[0].fields \in Seq(Packable(V))
<1> DEFINE message == Pack(fields)
           d == SubSeq(message, 1, m)
           n == Len(fields)
           Q == Packable(V)
           S == V \union Nat
<1>1. message \in Seq(S) /\ \E at \in [0 .. n -> Nat] : Layout(at, message, fields)
  BY PackLayout
<1>2. PICK at \in [0 .. n -> Nat] : Layout(at, message, fields)
  BY <1>1
<1> HIDE DEF message
<1>3. /\ n \in Nat /\ DOMAIN fields = 1 .. n /\ fields \in Seq(Q)
      /\ \A i \in 1 .. n : fields[i] \in Q
      /\ at[0] = 0 /\ at[n] = Len(message)
  BY <1>2 DEF Layout
<1>4. m \in 0 .. Len(message)
  BY DEF message
<1>5. d \in Seq(S) /\ Len(d) = m /\ m \in Nat /\ Len(message) \in Nat
  BY <1>1, <1>4
<1> DEFINE Good(parsed) == /\ AllSent(parsed, fields)
                           /\ parsed.ok => parsed.fields \in Seq(Q)
           Holds(k) == at[k] <= m => Good(Loop(d)[at[k]])
           T == {c \in 0 .. n : Holds(n - c)}
<1>6. Good([ok |-> TRUE, fields |-> <<>>]) /\ Good(Malformed)
  BY DEF AllSent, Malformed
<1>7. ASSUME NEW k \in 1 .. n, Holds(k) PROVE Holds(k - 1)
  <2> SUFFICES ASSUME at[k - 1] <= m PROVE Good(Loop(d)[at[k - 1]])
    OBVIOUS
  <2>0. k - 1 \in 0 .. n /\ k \in 0 .. n /\ at[k - 1] \in Nat /\ at[k] \in Nat
    BY <1>3
  <2>1. /\ at[k - 1] = m => Loop(d)[at[k - 1]] = [ok |-> TRUE, fields |-> <<>>]
        /\ at[k - 1] # m /\ at[k] > m => Loop(d)[at[k - 1]] = Malformed
        /\ at[k] <= m =>
              /\ Loop(d)[at[k]].ok =>
                       Loop(d)[at[k - 1]] =
                           [ok |-> TRUE, fields |-> Cat(<<fields[k]>>, Loop(d)[at[k]].fields)]
              /\ ~ Loop(d)[at[k]].ok => Loop(d)[at[k - 1]] = Malformed
    <3>1. d = SubSeq(message, 1, m)
      OBVIOUS
    <3> HIDE DEF d
    <3>2. RoundAt(d, m, at, k, fields)
      BY <1>1, <1>2, <1>4, <3>1, CutRound
    <3> QED BY <3>2 DEF RoundAt
  <2>2. CASE at[k] <= m /\ Loop(d)[at[k]].ok
    <3> DEFINE rest == Loop(d)[at[k]]
    <3>1. Good(rest) /\ rest.ok
      BY <1>7, <2>2
    <3>2. Loop(d)[at[k - 1]] = [ok |-> TRUE, fields |-> Cat(<<fields[k]>>, rest.fields)]
      BY <2>1, <2>2
    <3> HIDE DEF rest, Q
    <3>3. AllSent([ok |-> TRUE, fields |-> Cat(<<fields[k]>>, rest.fields)], fields)
      BY <1>3, <3>1, AllSentMore
    <3>4. Cat(<<fields[k]>>, rest.fields) \in Seq(Q)
      <4>1. fields[k] \in Q
        BY <1>3
      <4>2. <<fields[k]>> \in Seq(Q)
        BY <4>1
      <4> DEFINE one == <<fields[k]>>
      <4> HIDE DEF one
      <4>3. Cat(one, rest.fields) \in Seq(Q)
        BY <3>1, <4>2, CatType DEF one
      <4> QED BY <4>3 DEF one
    <3> QED BY <3>2, <3>3, <3>4
  <2>3. CASE ~ (at[k] <= m /\ Loop(d)[at[k]].ok)
    <3>1. at[k] <= m \/ at[k] > m
      BY <1>5, <2>0
    <3>2. Loop(d)[at[k - 1]] \in {Malformed, [ok |-> TRUE, fields |-> <<>>]}
      BY <2>1, <2>3, <3>1
    <3> QED BY <1>6, <3>2
  <2> QED BY <2>2, <2>3
<1>8. Holds(n)
  <2> SUFFICES ASSUME at[n] <= m PROVE Good(Loop(d)[at[n]])
    OBVIOUS
  <2>1. at[n] = m /\ m \in 0 .. Len(d)
    BY <1>3, <1>4, <1>5
  <2>2. Loop(d)[m] = Round(d, m, Loop(d)[End(d, m)])
    BY <1>5, <2>1, LoopRounds
  <2>3. Loop(d)[m] = [ok |-> TRUE, fields |-> <<>>]
    BY <1>5, <2>2 DEF Round
  <2> QED BY <1>6, <2>1, <2>3
<1>9. Holds(0)
  <2> HIDE DEF Holds, n
  <2>1. 0 \in T
    BY <1>3, <1>8
  <2>2. ASSUME NEW c \in 0 .. n - 1, c \in T PROVE c + 1 \in T
    <3>1. n - c \in 1 .. n /\ (n - c) - 1 = n - (c + 1) /\ c + 1 \in 0 .. n
      BY <1>3
    <3> QED BY <1>7, <2>2, <3>1
  <2> HIDE DEF T
  <2>3. \A c \in 0 .. n : c \in T
    BY <1>3, <2>1, <2>2, UpTo
  <2>4. n \in 0 .. n /\ n - n = 0
    BY <1>3
  <2> QED BY <2>3, <2>4 DEF T
<1>10. 0 <= m
  BY <1>5
<1> QED BY <1>3, <1>9, <1>10 DEF message

\* Wherever a message is cut, what is made of it has no field that nobody has sent:
\* it is refused, or every field of the request is missing or one that was packed
\* under its tag.
THEOREM CutAddsNothing ==
    ASSUME NEW V, NEW fields \in Seq(Packable(V)), NEW m \in 0 .. Len(Pack(fields)),
           Unpack(SubSeq(Pack(fields), 1, m)).ok, NEW t \in Tag
    PROVE  LET value == Unpack(SubSeq(Pack(fields), 1, m)).request[t]
           IN  \/ value = <<>>
               \/ \E i \in DOMAIN fields : fields[i].tag = t /\ fields[i].value = value
<1> DEFINE d == SubSeq(Pack(fields), 1, m)
           parsed == IF Len(d) < 3 THEN Malformed ELSE Loop(d)[0]
           values == {i \in DOMAIN parsed.fields : parsed.fields[i].tag = t}
<1> HIDE DEF d
<1>1. /\ Unpack(d).ok = parsed.ok
      /\ Unpack(d).request[t] =
             IF values = {} THEN <<>> ELSE parsed.fields[Max(values)].value
  BY DEF Unpack
<1>2. parsed.ok
  BY <1>1 DEF d
<1>3. parsed = Loop(d)[0]
  BY <1>2 DEF Malformed
<1>4. AllSent(parsed, fields) /\ parsed.fields \in Seq(Packable(V))
  BY <1>2, <1>3, CutLoop DEF d
<1> HIDE DEF parsed
<1>5. CASE values = {}
  BY <1>1, <1>5 DEF d
<1>6. CASE values # {}
  <2> DEFINE l == Len(parsed.fields)
  <2>1. l \in Nat /\ DOMAIN parsed.fields = 1 .. l
    BY <1>4
  <2> HIDE DEF l
  <2>2. values \in SUBSET (0 .. l)
    BY <2>1
  <2>3. Max(values) \in values
    <3> HIDE DEF values
    <3> QED BY <1>6, <2>1, <2>2, Extremes
  <2>4. PICK j \in DOMAIN parsed.fields : j = Max(values) /\ parsed.fields[j].tag = t
    BY <2>3
  <2>5. PICK i \in DOMAIN fields : parsed.fields[j] = fields[i]
    BY <1>2, <1>4, <2>4 DEF AllSent
  <2>6. Unpack(d).request[t] = parsed.fields[j].value
    BY <1>1, <1>6, <2>4
  <2> QED BY <2>4, <2>5, <2>6 DEF d
<1> QED BY <1>5, <1>6

\* An element and what follows it.
LEMMA FirstOfRest ==
    ASSUME NEW S, NEW s \in Seq(S), NEW k \in 1 .. Len(s)
    PROVE  Cat(<<s[k]>>, SubSeq(s, k + 1, Len(s))) = SubSeq(s, k, Len(s))
<1> DEFINE one == <<s[k]>>
           rest == SubSeq(s, k + 1, Len(s))
           both == Cat(one, rest)
           whole == SubSeq(s, k, Len(s))
<1>0. Len(s) \in Nat /\ \A j \in 1 .. Len(s) : s[j] \in S
  OBVIOUS
<1>1. one \in Seq(S) /\ Len(one) = 1 /\ one[1] = s[k]
  BY <1>0
<1>2. /\ rest \in Seq(S) /\ Len(rest) = Len(s) - k
      /\ \A j \in 1 .. Len(s) - k : rest[j] = s[k + j]
  OBVIOUS
<1>3. /\ whole \in Seq(S) /\ Len(whole) = Len(s) - k + 1
      /\ \A j \in 1 .. Len(s) - k + 1 : whole[j] = s[k + j - 1]
  OBVIOUS
<1> HIDE DEF one, rest, whole
<1>4. /\ both \in Seq(S) /\ Len(both) = Len(one) + Len(rest)
      /\ \A j \in 1 .. Len(one) : both[j] = one[j]
      /\ \A j \in 1 .. Len(rest) : both[Len(one) + j] = rest[j]
  <2>1. one \in Seq(S) /\ rest \in Seq(S)
    BY <1>1, <1>2
  <2> QED BY <2>1 DEF Cat
<1> HIDE DEF both
<1>5. Len(both) = Len(whole)
  BY <1>0, <1>1, <1>2, <1>3, <1>4
<1>6. ASSUME NEW j \in 1 .. Len(s) - k + 1 PROVE both[j] = whole[j]
  <2>1. CASE j = 1
    <3>1. k + 1 - 1 = k
      OBVIOUS
    <3>2. 1 \in 1 .. Len(s) - k + 1 /\ 1 \in 1 .. Len(one)
      BY <1>0, <1>1
    <3>3. whole[1] = s[k + 1 - 1] /\ both[1] = one[1]
      BY <1>3, <1>4, <3>2
    <3> QED BY <1>1, <2>1, <3>1, <3>3
  <2>2. CASE j # 1
    <3>1. j - 1 \in 1 .. Len(s) - k /\ 1 + (j - 1) = j /\ k + (j - 1) = k + j - 1
      BY <1>0, <2>2
    <3>2. whole[j] = s[k + j - 1] /\ rest[j - 1] = s[k + (j - 1)]
      BY <1>2, <1>3, <3>1
    <3>3. both[Len(one) + (j - 1)] = rest[j - 1]
      BY <1>2, <1>4, <3>1
    <3> QED BY <1>1, <3>1, <3>2, <3>3
  <2> QED BY <2>1, <2>2
<1>7. both = whole
  BY <1>3, <1>4, <1>5, <1>6, SeqEqual
<1> QED BY <1>7 DEF both, one, rest, whole

\* A message that arrives whole is parsed into the fields that were packed.
LEMMA WholeLoop ==
    ASSUME NEW V, NEW fields \in Seq(Packable(V))
    PROVE  Loop(Pack(fields))[0] = [ok |-> TRUE, fields |-> fields]
<1> DEFINE d == Pack(fields)
           n == Len(fields)
           m == Len(d)
           Q == Packable(V)
           S == V \union Nat
           Rest(k) == SubSeq(fields, k + 1, n)
<1>1. d \in Seq(S) /\ \E at \in [0 .. n -> Nat] : Layout(at, d, fields)
  BY PackLayout
<1>2. PICK at \in [0 .. n -> Nat] : Layout(at, d, fields)
  BY <1>1
<1> DEFINE Parses(k) == Loop(d)[at[k]] = [ok |-> TRUE, fields |-> Rest(k)]
           T == {c \in 0 .. n : Parses(n - c)}
<1> HIDE DEF d
<1>3. /\ n \in Nat /\ fields \in Seq(Q)
      /\ \A i \in 1 .. n : fields[i] \in Q
      /\ at[0] = 0 /\ at[n] = m /\ m \in Nat /\ m \in 0 .. Len(d)
  BY <1>1, <1>2 DEF Layout
<1>4. d = SubSeq(d, 1, m)
  BY <1>1
<1>5. Parses(n)
  <2>1. Loop(d)[m] = Round(d, m, Loop(d)[End(d, m)])
    BY <1>1, <1>3, LoopRounds
  <2>2. Loop(d)[m] = [ok |-> TRUE, fields |-> <<>>]
    BY <2>1 DEF Round
  <2>3. Rest(n) = <<>>
    BY <1>3
  <2> QED BY <1>3, <2>2, <2>3
<1>6. ASSUME NEW k \in 1 .. n, Parses(k) PROVE Parses(k - 1)
  <2>0. k - 1 \in 0 .. n /\ k \in 0 .. n /\ at[k - 1] \in Nat /\ at[k] \in Nat
    BY <1>3
  <2>1. /\ at[k] <= m /\ Len(fields[k].value) \in Nat
        /\ at[k] = at[k - 1] + 3 + Len(fields[k].value)
    BY <1>2, <1>3, ChunkParts DEF Layout
  <2>2. at[k - 1] <= m
    <3> HIDE DEF m
    <3> QED BY <1>3, <2>0, <2>1
  <2>3. RoundAt(d, m, at, k, fields)
    BY <1>1, <1>2, <1>3, <1>4, <2>2, CutRound
  <2>4. Loop(d)[at[k - 1]] = [ok |-> TRUE, fields |-> Cat(<<fields[k]>>, Rest(k))]
    BY <1>6, <2>1, <2>3 DEF RoundAt
  <2>5. Cat(<<fields[k]>>, Rest(k)) = Rest(k - 1)
    <3>1. (k - 1) + 1 = k
      BY <1>3
    <3> HIDE DEF Q
    <3>2. Cat(<<fields[k]>>, SubSeq(fields, k + 1, Len(fields))) = SubSeq(fields, k, Len(fields))
      BY <1>3, FirstOfRest
    <3> QED BY <3>1, <3>2
  <2> QED BY <2>4, <2>5
<1>7. Parses(0)
  <2> HIDE DEF Parses, n
  <2>1. 0 \in T
    BY <1>3, <1>5
  <2>2. ASSUME NEW c \in 0 .. n - 1, c \in T PROVE c + 1 \in T
    <3>1. n - c \in 1 .. n /\ (n - c) - 1 = n - (c + 1) /\ c + 1 \in 0 .. n
      BY <1>3
    <3> QED BY <1>6, <2>2, <3>1
  <2> HIDE DEF T
  <2>3. \A c \in 0 .. n : c \in T
    BY <1>3, <2>1, <2>2, UpTo
  <2>4. n \in 0 .. n /\ n - n = 0
    BY <1>3
  <2> QED BY <2>3, <2>4 DEF T
<1>8. Rest(0) = fields
  BY <1>3
<1> QED BY <1>3, <1>7, <1>8 DEF d

\* The request made of it has for every tag the value of the last field that was
\* packed under it.
THEOREM WholeIsUnpacked ==
    ASSUME NEW V, NEW fields \in Seq(Packable(V)), fields # <<>>
    PROVE  /\ Unpack(Pack(fields)).ok
           /\ \A t \in Tag :
                 LET values == {i \in DOMAIN fields : fields[i].tag = t}
                 IN  Unpack(Pack(fields)).request[t] =
                         IF values = {} THEN <<>> ELSE fields[Max(values)].value
<1> DEFINE d == Pack(fields)
<1>1. Len(d) >= 3
  <2>1. PICK at \in [0 .. Len(fields) -> Nat] : Layout(at, d, fields)
    BY PackLayout
  <2>2. d \in Seq(V \union Nat)
    BY PackLayout
  <2> HIDE DEF d
  <2>3. 1 \in 1 .. Len(fields) /\ fields[1] \in Packable(V) /\ Len(fields) \in Nat
    BY SMT
  <2>4. /\ at[1] = at[0] + 3 + Len(fields[1].value) /\ at[1] <= Len(d) /\ at[0] = 0
        /\ Len(fields[1].value) \in Nat
    BY <2>1, <2>3, ChunkParts DEF Layout
  <2>5. Len(d) \in Nat
    BY <2>2
  <2>6. 1 - 1 = 0
    OBVIOUS
  <2> QED BY <2>4, <2>5
<1>2. Loop(d)[0] = [ok |-> TRUE, fields |-> fields]
  BY WholeLoop
<1> HIDE DEF d
<1>3. ~ (Len(d) < 3)
  <2>1. Len(d) \in Nat
    BY PackLayout DEF d
  <2> QED BY <1>1, <2>1
<1> QED BY <1>2, <1>3 DEF Unpack, d

-----------------------------------------------------------------------------
(* Account numbers                                                         *)

\* What a digit counts in a number of length n, at position i: every second one
\* twice, beginning with the last but one.
Counts(n, i, d) == IF (n - 1 - i) % 2 = 0 THEN Twice(d) ELSE d

Sums(f, s, n) == f[0] = 0 /\ \A i \in 1 .. Len(s) : f[i] = f[i - 1] + Counts(n, i, s[i])

\* What a digit counts is a number.
LEMMA CountsType ==
    ASSUME NEW n \in Nat, NEW i \in Nat, NEW d \in Int
    PROVE  Counts(n, i, d) \in Int
BY DEF Counts, Twice

\* CalculateLuhn adds what each digit counts.
LEMMA LuhnSums ==
    ASSUME NEW s \in Seq(Int)
    PROVE  \E f \in [0 .. Len(s) -> Int] :
              /\ Sums(f, s, Len(s) + 1)
              /\ CalculateLuhn(s) = IF \E i \in DOMAIN s : s[i] \notin Digit THEN -1
                                    ELSE (10 - (f[Len(s)] % 10)) % 10
<1> DEFINE n == Len(s)
           term(i) == IF (n - i) % 2 = 0 THEN Twice(s[i]) ELSE s[i]
           h == [i \in 1 .. n |-> [t \in Int |-> t + term(i)]]
           D(g) == [i \in 0 .. n |-> IF i = 0 THEN 0 ELSE g[i - 1] + term(i)]
           W == CHOOSE g : g = D(g)
<1>0. n \in Nat /\ \A i \in 1 .. n : s[i] \in Int
  OBVIOUS
<1>1. CalculateLuhn(s) = IF \E i \in DOMAIN s : s[i] \notin Digit THEN -1
                         ELSE (10 - (W[n] % 10)) % 10
  BY DEF CalculateLuhn
<1>2. \A i \in 1 .. n : term(i) \in Int /\ term(i) = Counts(n + 1, i, s[i])
  <2> SUFFICES ASSUME NEW i \in 1 .. n
               PROVE  term(i) \in Int /\ term(i) = Counts(n + 1, i, s[i])
    OBVIOUS
  <2>1. s[i] \in Int /\ (n + 1) - 1 - i = n - i
    BY <1>0
  <2> QED BY <2>1 DEF Counts, Twice
<1> HIDE DEF n, term
<1>3. PICK f \in [0 .. n -> Int] : Upward(f, n, 0, h)
  <2> DEFINE Q == Int
             zero == 0
  <2>1. h \in [1 .. n -> [Q -> Q]] /\ zero \in Q
    BY <1>2
  <2> HIDE DEF h, Q, zero
  <2>2. \E f \in [0 .. n -> Q] : Upward(f, n, zero, h)
    BY <1>0, <2>1, RecursionExists
  <2> QED BY <2>2 DEF Q, zero
<1>4. f[0] = 0 /\ \A i \in 1 .. n : f[i] = f[i - 1] + term(i)
  <2>1. ASSUME NEW i \in 1 .. n PROVE f[i] = f[i - 1] + term(i)
    <3>1. i - 1 \in 0 .. n /\ f[i - 1] \in Int
      BY <1>0
    <3> QED BY <1>3, <3>1 DEF Upward
  <2> QED BY <1>3, <2>1 DEF Upward
<1>5. f = D(f)
  BY <1>0, <1>3, <1>4
<1>6. W = D(W)
  <2> HIDE DEF D
  <2> QED BY <1>5
<1>7. W[n] = f[n]
  <2> HIDE DEF W
  <2> DEFINE T == {i \in 0 .. n : W[i] = f[i]}
  <2>1. 0 \in T
    BY <1>0, <1>4, <1>6
  <2>2. ASSUME NEW i \in 0 .. n - 1, i \in T PROVE i + 1 \in T
    <3>1. i + 1 \in 1 .. n /\ (i + 1) - 1 = i
      BY <1>0
    <3>2. W[i + 1] = W[i] + term(i + 1)
      BY <1>0, <1>6, <3>1
    <3> QED BY <1>4, <2>2, <3>1, <3>2
  <2> HIDE DEF T
  <2>3. \A i \in 0 .. n : i \in T
    BY <1>0, <2>1, <2>2, UpTo
  <2>4. n \in 0 .. n
    BY <1>0
  <2> QED BY <2>3, <2>4 DEF T
<1>8. Sums(f, s, n + 1)
  BY <1>2, <1>4 DEF Sums, n
<1> QED BY <1>1, <1>7, <1>8 DEF n

\* A number of digits is valid when what its digits count adds up to a multiple
\* of ten.
LEMMA ValidWhenTens ==
    ASSUME NEW s \in Seq(Digit), Len(s) >= 2
    PROVE  \E f \in [0 .. Len(s) -> Int] :
              Sums(f, s, Len(s)) /\ (ValidateLuhn(s) <=> f[Len(s)] % 10 = 0)
<1> DEFINE n == Len(s)
           p == SubSeq(s, 1, n - 1)
<1>0. n \in Nat /\ n >= 2 /\ \A i \in 1 .. n : s[i] \in Digit
  OBVIOUS
<1>1. /\ p \in Seq(Int) /\ Len(p) = n - 1 /\ DOMAIN p = 1 .. n - 1
      /\ \A i \in 1 .. n - 1 : p[i] = s[i] /\ p[i] \in Digit
  BY <1>0 DEF Digit
<1> HIDE DEF p
<1>2. PICK g \in [0 .. n - 1 -> Int] :
          /\ Sums(g, p, n)
          /\ CalculateLuhn(p) = IF \E i \in DOMAIN p : p[i] \notin Digit THEN -1
                                ELSE (10 - (g[n - 1] % 10)) % 10
  <2>1. Len(p) + 1 = n
    BY <1>0, <1>1
  <2> QED BY <1>1, <2>1, LuhnSums
<1>3. CalculateLuhn(p) = (10 - (g[n - 1] % 10)) % 10
  BY <1>1, <1>2
<1> HIDE DEF n
<1> DEFINE f == [i \in 0 .. n |-> IF i = n THEN g[n - 1] + s[n] ELSE g[i]]
<1>4. n - 1 \in 0 .. n - 1 /\ g[n - 1] \in Int /\ s[n] \in Int /\ s[n] \in Digit
  BY <1>0 DEF Digit
<1>5. f \in [0 .. n -> Int]
  BY <1>0, <1>4
<1>6. f[0] = 0 /\ f[n] = g[n - 1] + s[n] /\ f[n - 1] = g[n - 1]
  BY <1>0, <1>2 DEF Sums
<1>7. ASSUME NEW i \in 1 .. n PROVE f[i] = f[i - 1] + Counts(n, i, s[i])
  <2>1. CASE i = n
    <3>1. (n - 1 - n) % 2 # 0
      BY <1>0
    <3> QED BY <1>6, <2>1, <3>1 DEF Counts
  <2>2. CASE i # n
    <3>1. i \in 1 .. n - 1 /\ i \in 0 .. n /\ i - 1 \in 0 .. n /\ i - 1 # n
      BY <1>0, <2>2
    <3> QED BY <1>1, <1>2, <2>2, <3>1 DEF Sums
  <2> QED BY <2>1, <2>2
<1> HIDE DEF f
<1>8. Sums(f, s, n)
  BY <1>6, <1>7 DEF Sums, n
<1>9. ValidateLuhn(s) <=> (10 - (g[n - 1] % 10)) % 10 = s[n]
  BY <1>0, <1>3, <1>4 DEF ValidateLuhn, n, p
<1>10. (10 - (g[n - 1] % 10)) % 10 = s[n] <=> (g[n - 1] + s[n]) % 10 = 0
  <2>1. \A x \in Int, d \in Digit : (10 - (x % 10)) % 10 = d <=> (x + d) % 10 = 0
    BY DEF Digit
  <2> QED BY <1>4, <2>1
<1> QED BY <1>5, <1>6, <1>8, <1>9, <1>10 DEF n

\* Equal steps from equal differences.
LEMMA SameStep ==
    ASSUME NEW a \in Int, NEW b \in Int, NEW c \in Int, NEW d \in Int, NEW e \in Int,
           NEW k \in Int, a - b = c - d, b - d = e - k
    PROVE  a - c = e - k
OBVIOUS

\* Two numbers that differ between two positions only differ by what they count
\* there.
LEMMA SumsDiffer ==
    ASSUME NEW n \in Nat, NEW f \in [0 .. n -> Int], NEW g \in [0 .. n -> Int],
           f[0] = g[0], NEW lo \in 1 .. n, NEW hi \in lo .. n,
           \A i \in 1 .. n : i < lo \/ i > hi => f[i] - f[i - 1] = g[i] - g[i - 1]
    PROVE  f[lo - 1] = g[lo - 1] /\ f[n] - g[n] = f[hi] - g[hi]
<1> DEFINE T == {i \in 0 .. n : /\ i < lo => f[i] = g[i]
                                /\ i >= hi => f[i] - g[i] = f[hi] - g[hi]}
<1>0. /\ hi \in 1 .. n /\ hi \in 0 .. n /\ lo - 1 \in 0 .. n /\ n \in 0 .. n
      /\ \A i \in 0 .. n : f[i] \in Int /\ g[i] \in Int
  OBVIOUS
<1>1. 0 \in T
  BY <1>0
<1>2. ASSUME NEW i \in 0 .. n - 1, i \in T PROVE i + 1 \in T
  <2>1. i + 1 \in 1 .. n /\ (i + 1) - 1 = i /\ i \in 0 .. n /\ i + 1 \in 0 .. n
    OBVIOUS
  <2>2. f[i] \in Int /\ g[i] \in Int /\ f[i + 1] \in Int /\ g[i + 1] \in Int
    BY <1>0, <2>1
  <2>3. i + 1 < lo \/ i + 1 > hi => f[i + 1] - f[i] = g[i + 1] - g[i]
    BY <2>1
  <2>4. i + 1 < lo => f[i + 1] = g[i + 1]
    BY <1>2, <2>2, <2>3
  <2>5. i + 1 >= hi => f[i + 1] - g[i + 1] = f[hi] - g[hi]
    <3>1. CASE i + 1 = hi
      BY <3>1
    <3>2. CASE i + 1 > hi
      <4>1. i >= hi
        BY <3>2
      <4>2. f[hi] \in Int /\ g[hi] \in Int
        BY <1>0
      <4>3. f[i] - g[i] = f[hi] - g[hi]
        BY <1>2, <4>1
      <4>4. f[i + 1] - f[i] = g[i + 1] - g[i]
        BY <2>3, <3>2
      <4> QED BY <2>2, <4>2, <4>3, <4>4, SameStep
    <3> QED BY <3>1, <3>2
  <2> QED BY <2>1, <2>4, <2>5
<1>3. \A i \in 0 .. n : i \in T
  <2> HIDE DEF T
  <2> QED BY <1>1, <1>2, UpTo
<1>4. /\ lo - 1 < lo => f[lo - 1] = g[lo - 1]
      /\ n >= hi => f[n] - g[n] = f[hi] - g[hi]
  BY <1>0, <1>3
<1> QED BY <1>4

\* No two digits count the same, and what two digits gain when they count twice
\* differs, but for 0 and 9.
LEMMA DigitsDiffer ==
    ASSUME NEW a \in Digit, NEW b \in Digit, a # b
    PROVE  /\ Twice(a) # Twice(b) /\ Twice(a) \in Digit /\ Twice(b) \in Digit
           /\ {a, b} # {0, 9} =>
                 /\ Twice(a) - a # Twice(b) - b
                 /\ Twice(a) - a \in -4 .. 4 /\ Twice(b) - b \in -4 .. 4
<1>1. /\ a \in 0 .. 9 /\ b \in 0 .. 9
  BY DEF Digit
<1>2. Twice(a) # Twice(b) /\ Twice(a) \in Digit /\ Twice(b) \in Digit
  BY <1>1 DEF Twice, Digit
<1>3. ASSUME {a, b} # {0, 9}
      PROVE  Twice(a) - a # Twice(b) - b
  <2>1. ~ (a = 0 /\ b = 9) /\ ~ (a = 9 /\ b = 0)
    BY <1>3
  <2> QED BY <1>1, <2>1 DEF Twice
<1>4. Twice(a) - a \in -4 .. 4 /\ Twice(b) - b \in -4 .. 4
  BY <1>1 DEF Twice
<1> QED BY <1>2, <1>3, <1>4

\* Less than ten away from a multiple of ten there is no other.
LEMMA NotTens ==
    ASSUME NEW x \in Int, NEW y \in Int, x % 10 = 0, x # y, x - y \in -9 .. 9
    PROVE  y % 10 # 0
OBVIOUS

\* Two digits differ by less than ten.
LEMMA DigitGap ==
    ASSUME NEW x \in 0 .. 9, NEW y \in 0 .. 9, x # y
    PROVE  x - y \in Int /\ x - y # 0 /\ x - y \in -9 .. 9
OBVIOUS

\* What two neighbours count changes by less than ten when they are exchanged.
LEMMA GainGap ==
    ASSUME NEW a \in 0 .. 9, NEW b \in 0 .. 9, NEW x \in 0 .. 9, NEW y \in 0 .. 9,
           x - a # y - b, x - a \in -4 .. 4, y - b \in -4 .. 4
    PROVE  /\ (x + b) - (y + a) \in Int /\ (x + b) - (y + a) # 0
           /\ (x + b) - (y + a) \in -9 .. 9
           /\ (a + y) - (b + x) \in Int /\ (a + y) - (b + x) # 0
           /\ (a + y) - (b + x) \in -9 .. 9
OBVIOUS

\* A sequence of digits, element by element.
LEMMA DigitSeq ==
    ASSUME NEW s \in Seq(Digit)
    PROVE  /\ Len(s) \in Nat /\ DOMAIN s = 1 .. Len(s)
           /\ \A i \in 1 .. Len(s) : s[i] \in Digit /\ s[i] \in Int
<1>1. Len(s) \in Nat /\ DOMAIN s = 1 .. Len(s) /\ \A i \in 1 .. Len(s) : s[i] \in Digit
  OBVIOUS
<1>2. \A d \in Digit : d \in Int
  BY DEF Digit
<1> QED BY <1>1, <1>2

\* The sums of two numbers of the same length that differ between two positions.
LEMMA WrongIsInvalid ==
    ASSUME NEW s \in Seq(Digit), Len(s) >= 2, ValidateLuhn(s),
           NEW w \in Seq(Digit), Len(w) = Len(s),
           NEW lo \in 1 .. Len(s), NEW hi \in lo .. Len(s),
           \A i \in 1 .. Len(s) : i < lo \/ i > hi => w[i] = s[i],
           NEW delta \in Int, delta # 0, delta \in -9 .. 9,
           \A f, g : /\ f \in [0 .. Len(s) -> Int] /\ g \in [0 .. Len(s) -> Int]
                     /\ f[lo - 1] = g[lo - 1]
                     /\ Sums(f, s, Len(s)) /\ Sums(g, w, Len(s))
                     => f[hi] - g[hi] = delta
    PROVE  ~ ValidateLuhn(w)
<1> DEFINE n == Len(s)
<1>1. PICK f \in [0 .. n -> Int] :
          Sums(f, s, n) /\ (ValidateLuhn(s) <=> f[n] % 10 = 0)
  BY ValidWhenTens
<1>2. PICK g \in [0 .. n -> Int] :
          Sums(g, w, n) /\ (ValidateLuhn(w) <=> g[n] % 10 = 0)
  <2>1. \E g \in [0 .. Len(w) -> Int] :
            Sums(g, w, Len(w)) /\ (ValidateLuhn(w) <=> g[Len(w)] % 10 = 0)
    BY ValidWhenTens
  <2> QED BY <2>1
<1>3. /\ n \in Nat /\ n >= 2 /\ hi \in 0 .. n /\ n \in 0 .. n
      /\ \A i \in 1 .. n : s[i] \in Int /\ w[i] \in Int /\ i \in Nat
  <2>1. n \in Nat /\ \A i \in 1 .. n : s[i] \in Int /\ w[i] \in Int
    BY DigitSeq
  <2>2. hi \in lo .. n /\ lo \in 1 .. n /\ n >= 2
    OBVIOUS
  <2> HIDE DEF n
  <2>3. hi \in 0 .. n /\ n \in 0 .. n /\ \A i \in 1 .. n : i \in Nat
    BY <2>1, <2>2
  <2> QED BY <2>1, <2>2, <2>3
<1>4. ASSUME NEW i \in 1 .. n, i < lo \/ i > hi
      PROVE  f[i] - f[i - 1] = g[i] - g[i - 1]
  <2>1. /\ f[i] = f[i - 1] + Counts(n, i, s[i])
        /\ g[i] = g[i - 1] + Counts(n, i, w[i])
    BY <1>1, <1>2 DEF Sums
  <2>2. w[i] = s[i]
    BY <1>4
  <2>3. i - 1 \in 0 .. n /\ i \in 0 .. n
    OBVIOUS
  <2>4. /\ f[i] \in Int /\ f[i - 1] \in Int /\ g[i] \in Int /\ g[i - 1] \in Int
        /\ Counts(n, i, s[i]) \in Int
    BY <1>3, <2>3, CountsType
  <2> QED BY <2>1, <2>2, <2>4
<1>5. f[0] = g[0]
  BY <1>1, <1>2 DEF Sums
<1>6. f[lo - 1] = g[lo - 1] /\ f[n] - g[n] = f[hi] - g[hi]
  <2> HIDE DEF n
  <2>1. lo \in 1 .. n /\ hi \in lo .. n
    BY DEF n
  <2> QED BY <1>3, <1>4, <1>5, <2>1, SumsDiffer
<1>7. f[n] - g[n] = delta
  BY <1>1, <1>2, <1>6
<1>8. f[n] \in Int /\ g[n] \in Int /\ f[n] # g[n]
  BY <1>3, <1>7
<1>9. g[n] % 10 # 0
  BY <1>1, <1>7, <1>8, NotTens
<1> QED BY <1>2, <1>9

\* One wrong digit makes a valid number invalid.
LEMMA SlipIsInvalid ==
    ASSUME NEW s \in Seq(Digit), Len(s) >= 2, ValidateLuhn(s),
           NEW wrong \in Slips(s)
    PROVE  ~ ValidateLuhn(wrong)
<1> DEFINE n == Len(s)
<1>1. PICK i \in 1 .. n, d \in Digit : wrong = [s EXCEPT ![i] = d] /\ wrong # s
  BY DEF Slips
<1>2. n \in Nat /\ s[i] \in Digit /\ s[i] # d
  <2>1. s[i] = d => [s EXCEPT ![i] = d] = s
    OBVIOUS
  <2> QED BY <1>1, <2>1
<1>3. /\ wrong \in Seq(Digit) /\ Len(wrong) = n /\ wrong[i] = d
      /\ \A j \in 1 .. n : j < i \/ j > i => wrong[j] = s[j]
  BY <1>1
<1> DEFINE delta == Counts(n, i, s[i]) - Counts(n, i, d)
<1>4. delta \in Int /\ delta # 0 /\ delta \in -9 .. 9
  <2>1. s[i] \in 0 .. 9 /\ d \in 0 .. 9
    BY <1>2 DEF Digit
  <2>2. Twice(s[i]) # Twice(d) /\ Twice(s[i]) \in 0 .. 9 /\ Twice(d) \in 0 .. 9
    BY <1>2, DigitsDiffer DEF Digit
  <2>3. delta = Twice(s[i]) - Twice(d) \/ delta = s[i] - d
    BY DEF Counts
  <2>4. CASE delta = Twice(s[i]) - Twice(d)
    <3> DEFINE x == Twice(s[i])
               y == Twice(d)
    <3>1. x \in 0 .. 9 /\ y \in 0 .. 9 /\ x # y /\ delta = x - y
      BY <2>2, <2>4
    <3> HIDE DEF x, y, delta
    <3> QED BY <3>1, DigitGap
  <2>5. CASE delta = s[i] - d
    <3> DEFINE x == s[i]
    <3>1. x \in 0 .. 9 /\ d \in 0 .. 9 /\ x # d /\ delta = x - d
      BY <1>2, <2>1, <2>5
    <3> HIDE DEF x, delta
    <3> QED BY <3>1, DigitGap
  <2> HIDE DEF delta
  <2> QED BY <2>3, <2>4, <2>5
<1>5. ASSUME NEW f, NEW g, f \in [0 .. n -> Int], g \in [0 .. n -> Int],
             f[i - 1] = g[i - 1], Sums(f, s, n), Sums(g, wrong, n)
      PROVE  f[i] - g[i] = delta
  <2>1. /\ f[i] = f[i - 1] + Counts(n, i, s[i])
        /\ g[i] = g[i - 1] + Counts(n, i, d)
    BY <1>3, <1>5 DEF Sums
  <2>2. i - 1 \in 0 .. n /\ f[i - 1] \in Int /\ s[i] \in Int /\ d \in Int /\ i \in Nat
    <3>1. s[i] \in Int /\ d \in Int
      <4>1. \A e \in Digit : e \in Int
        BY DEF Digit
      <4> QED BY <1>2, <4>1
    <3> HIDE DEF n
    <3>2. i - 1 \in 0 .. n /\ i \in Nat
      BY <1>2
    <3> QED BY <1>5, <3>1, <3>2
  <2>3. Counts(n, i, s[i]) \in Int /\ Counts(n, i, d) \in Int
    BY <1>2, <2>2, CountsType
  <2> QED BY <1>5, <2>1, <2>2, <2>3
<1>6. i \in i .. n
  BY <1>2
<1> HIDE DEF delta
<1> QED BY <1>3, <1>4, <1>5, <1>6, WrongIsInvalid

\* So do two neighbours exchanged, except for 0 and 9.
LEMMA SwapIsInvalid ==
    ASSUME NEW s \in Seq(Digit), Len(s) >= 2, ValidateLuhn(s),
           NEW wrong \in Swaps(s)
    PROVE  ~ ValidateLuhn(wrong)
<1> DEFINE n == Len(s)
<1>1. PICK i \in 1 .. n - 1 :
          /\ s[i] # s[i + 1] /\ {s[i], s[i + 1]} # {0, 9}
          /\ wrong = [s EXCEPT ![i] = s[i + 1], ![i + 1] = s[i]]
  BY DEF Swaps
<1> DEFINE a == s[i]
           b == s[i + 1]
           k == i + 1
<1>2. /\ n \in Nat /\ i \in 1 .. n /\ k \in 1 .. n /\ i \in Nat /\ k \in Nat /\ k \in i .. n
      /\ a \in Digit /\ b \in Digit /\ a # b /\ k = i + 1 /\ k - 1 = i
  BY <1>1
<1>3. /\ wrong \in Seq(Digit) /\ Len(wrong) = n /\ wrong[i] = b /\ wrong[k] = a
      /\ \A j \in 1 .. n : j < i \/ j > k => wrong[j] = s[j]
  BY <1>1, <1>2
<1> DEFINE delta == (Counts(n, i, a) + Counts(n, k, b)) - (Counts(n, i, b) + Counts(n, k, a))
<1>4. delta \in Int /\ delta # 0 /\ delta \in -9 .. 9
  <2>1. a \in 0 .. 9 /\ b \in 0 .. 9
    BY <1>2 DEF Digit
  <2>2. /\ Twice(a) - a # Twice(b) - b
        /\ Twice(a) - a \in -4 .. 4 /\ Twice(b) - b \in -4 .. 4
        /\ Twice(a) \in 0 .. 9 /\ Twice(b) \in 0 .. 9
    BY <1>1, <1>2, DigitsDiffer DEF Digit
  <2>3. \/ (n - 1 - i) % 2 = 0 /\ (n - 1 - k) % 2 # 0
        \/ (n - 1 - i) % 2 # 0 /\ (n - 1 - k) % 2 = 0
    <3> HIDE DEF n
    <3> QED BY <1>2
  <2>4. \/ delta = (Twice(a) + b) - (Twice(b) + a)
        \/ delta = (a + Twice(b)) - (b + Twice(a))
    BY <2>3 DEF Counts
  <2> DEFINE x == Twice(a)
             y == Twice(b)
  <2>5. /\ x - a # y - b /\ x - a \in -4 .. 4 /\ y - b \in -4 .. 4
        /\ x \in 0 .. 9 /\ y \in 0 .. 9
        /\ (delta = (x + b) - (y + a) \/ delta = (a + y) - (b + x))
    BY <2>2, <2>4
  <2> HIDE DEF delta, a, b, x, y
  <2>6. /\ (x + b) - (y + a) \in Int /\ (x + b) - (y + a) # 0
        /\ (x + b) - (y + a) \in -9 .. 9
        /\ (a + y) - (b + x) \in Int /\ (a + y) - (b + x) # 0
        /\ (a + y) - (b + x) \in -9 .. 9
    BY <2>1, <2>5, GainGap
  <2> QED BY <2>5, <2>6
<1>5. ASSUME NEW f, NEW g, f \in [0 .. n -> Int], g \in [0 .. n -> Int],
             f[i - 1] = g[i - 1], Sums(f, s, n), Sums(g, wrong, n)
      PROVE  f[k] - g[k] = delta
  <2>1. /\ f[i] = f[i - 1] + Counts(n, i, a)
        /\ g[i] = g[i - 1] + Counts(n, i, b)
        /\ f[k] = f[i] + Counts(n, k, b)
        /\ g[k] = g[i] + Counts(n, k, a)
    BY <1>2, <1>3, <1>5 DEF Sums
  <2>2. /\ i - 1 \in 0 .. n /\ f[i - 1] \in Int /\ a \in Int /\ b \in Int
    <3>1. a \in Int /\ b \in Int
      <4>1. \A e \in Digit : e \in Int
        BY DEF Digit
      <4> QED BY <1>2, <4>1
    <3> HIDE DEF n, a, b
    <3>2. i - 1 \in 0 .. n
      BY <1>2
    <3> QED BY <1>5, <3>1, <3>2
  <2>3. /\ Counts(n, i, a) \in Int /\ Counts(n, i, b) \in Int
        /\ Counts(n, k, a) \in Int /\ Counts(n, k, b) \in Int
    BY <1>2, <2>2, CountsType
  <2> HIDE DEF a, b, k, n
  <2> QED BY <1>5, <2>1, <2>2, <2>3
<1>6. /\ i \in 1 .. Len(s) /\ k \in i .. Len(s)
      /\ wrong \in Seq(Digit) /\ Len(wrong) = Len(s)
      /\ \A j \in 1 .. Len(s) : j < i \/ j > k => wrong[j] = s[j]
  BY <1>2, <1>3
<1>7. \A f, g : /\ f \in [0 .. Len(s) -> Int] /\ g \in [0 .. Len(s) -> Int]
                /\ f[i - 1] = g[i - 1]
                /\ Sums(f, s, Len(s)) /\ Sums(g, wrong, Len(s))
                => f[k] - g[k] = delta
  <2> HIDE DEF delta
  <2> QED BY <1>5
<1> HIDE DEF delta, k
<1> QED BY <1>4, <1>6, <1>7, WrongIsInvalid

\* A function on the first numbers is a sequence.
LEMMA FunctionIsSeq ==
    ASSUME NEW S, NEW n \in Nat, NEW s \in [1 .. n -> S]
    PROVE  s \in Seq(S) /\ Len(s) = n
OBVIOUS

\* And one over a smaller set, if the elements are there.
LEMMA SeqNarrow ==
    ASSUME NEW S, NEW T, NEW s \in Seq(S), \A i \in 1 .. Len(s) : s[i] \in T
    PROVE  s \in Seq(T)
OBVIOUS

Extends(t, s, e) ==
    /\ Len(t) = Len(s) + 1 /\ t[Len(s) + 1] = e /\ SubSeq(t, 1, Len(s)) = s

With(s, e) == Append(s, e)

\* Append, under a name, adds one element.
LEMMA WithExtends ==
    ASSUME NEW S, NEW s \in Seq(S), NEW e \in S
    PROVE  With(s, e) \in Seq(S) /\ Extends(With(s, e), s, e)
BY DEF With, Extends

\* Every account number that is generated is valid, and neither a wrong digit nor
\* two exchanged neighbours pass, whatever the branch code, the product and the
\* random part.
THEOREM AllSlipsAreCaught ==
    SlipsAreCaught(Numbers(Seq(Int), [1 .. 6 -> Digit]))
<1> SUFFICES ASSUME NEW branch \in Seq(Int), NEW product \in DOMAIN ProductTypeCode,
                    NEW random \in [1 .. 6 -> Digit], NEW number,
                    number = GenerateAccountNumber(branch, product, random), number # <<>>
             PROVE  /\ Len(number) = 12 /\ ValidateLuhn(number)
                    /\ \A wrong \in Slips(number) \union Swaps(number) : ~ ValidateLuhn(wrong)
  BY DEF SlipsAreCaught, Numbers
<1> DEFINE code == IF Len(branch) = 3 THEN branch ELSE <<0, 0, 1>>
           kind == ProductTypeCode[product]
           prefix == (code \o kind) \o random
           check == CalculateLuhn(prefix)
<1>1. code \in Seq(Int) /\ Len(code) = 3
  OBVIOUS
<1>2. kind \in Seq(Int) /\ Len(kind) = 2
  <2>1. product \in {"PRIORITY_SAVINGS", "STUDENT_SAVINGS", "REGULAR_SAVINGS"}
    BY DEF ProductTypeCode
  <2>2. kind \in {<<2, 0>>, <<3, 0>>, <<1, 0>>}
    BY <2>1 DEF ProductTypeCode
  <2>3. /\ <<2, 0>> \in Seq(Int) /\ <<3, 0>> \in Seq(Int) /\ <<1, 0>> \in Seq(Int)
        /\ Len(<<2, 0>>) = 2 /\ Len(<<3, 0>>) = 2 /\ Len(<<1, 0>>) = 2
    OBVIOUS
  <2> HIDE DEF kind
  <2> QED BY <2>2, <2>3
<1>3. random \in Seq(Int) /\ Len(random) = 6
  <2>1. \A d \in Digit : d \in Int
    BY DEF Digit
  <2> DEFINE Q == Int
  <2>2. random \in [1 .. 6 -> Q] /\ 6 \in Nat
    BY <2>1
  <2> HIDE DEF Q
  <2>3. random \in Seq(Q) /\ Len(random) = 6
    BY <2>2, FunctionIsSeq
  <2> QED BY <2>3 DEF Q
<1>4. prefix \in Seq(Int) /\ Len(prefix) = 11
  <2> DEFINE Q == Int
             u == Cat(code, kind)
             v == Cat(u, random)
  <2>0. code \in Seq(Q) /\ kind \in Seq(Q) /\ random \in Seq(Q)
    BY <1>1, <1>2, <1>3
  <2> HIDE DEF code, kind, Q
  <2>1. u \in Seq(Q) /\ Len(u) = Len(code) + Len(kind)
    BY <2>0, CatType
  <2> HIDE DEF u
  <2>2. v \in Seq(Q) /\ Len(v) = Len(u) + Len(random)
    BY <2>0, <2>1, CatType
  <2> HIDE DEF v
  <2>3. Len(v) = 11
    BY <1>1, <1>2, <1>3, <2>1, <2>2
  <2>4. prefix = v
    BY DEF Cat, u, v
  <2> HIDE DEF prefix
  <2> QED BY <2>2, <2>3, <2>4 DEF Q
<1>5. number = IF check < 0 THEN <<>> ELSE Append(prefix, check)
  BY DEF GenerateAccountNumber
<1> HIDE DEF prefix
<1>6. PICK f \in [0 .. Len(prefix) -> Int] :
          check = IF \E i \in DOMAIN prefix : prefix[i] \notin Digit THEN -1
                  ELSE (10 - (f[Len(prefix)] % 10)) % 10
  BY <1>4, LuhnSums
<1>7. number = Append(prefix, check) /\ ~ (check < 0)
  BY <1>5
<1> HIDE DEF check
<1>8. /\ \A i \in 1 .. 11 : prefix[i] \in Digit
      /\ check = (10 - (f[11] % 10)) % 10
  <2>1. DOMAIN prefix = 1 .. 11
    BY <1>4
  <2>2. -1 < 0
    OBVIOUS
  <2>3. ~ \E i \in DOMAIN prefix : prefix[i] \notin Digit
    BY <1>6, <1>7, <2>2
  <2>4. check = (10 - (f[Len(prefix)] % 10)) % 10
    BY <1>6, <2>3
  <2> QED BY <1>4, <2>1, <2>3, <2>4
<1>9. check \in Digit
  <2>1. f[11] \in Int
    BY <1>4
  <2>2. \A x \in Int : (10 - (x % 10)) % 10 \in 0 .. 9
    OBVIOUS
  <2> QED BY <1>8, <2>1, <2>2 DEF Digit
<1>10. prefix \in Seq(Digit)
  <2>1. \A i \in 1 .. Len(prefix) : prefix[i] \in Digit
    BY <1>4, <1>8
  <2> DEFINE Q == Int
  <2>2. prefix \in Seq(Q)
    BY <1>4
  <2> HIDE DEF Q
  <2> QED BY <2>1, <2>2, SeqNarrow
<1>11. /\ number \in Seq(Digit) /\ Len(number) = 12 /\ number[12] = check
       /\ SubSeq(number, 1, 11) = prefix
  <2> DEFINE Q == Digit
  <2>1. prefix \in Seq(Q) /\ check \in Q /\ Len(prefix) = 11
    BY <1>4, <1>9, <1>10
  <2> HIDE DEF Q
  <2>2. /\ number \in Seq(Q) /\ Len(number) = Len(prefix) + 1
        /\ number[Len(prefix) + 1] = check /\ SubSeq(number, 1, Len(prefix)) = prefix
    <3>1. number = With(prefix, check)
      BY <1>7 DEF With
    <3>2. With(prefix, check) \in Seq(Q) /\ Extends(With(prefix, check), prefix, check)
      BY <2>1, WithExtends
    <3> QED BY <3>1, <3>2 DEF Extends
  <2>3. Len(prefix) + 1 = 12
    BY <2>1
  <2> QED BY <2>1, <2>2, <2>3 DEF Q
<1>12. number[12] \in Digit /\ CalculateLuhn(SubSeq(number, 1, 11)) = number[12]
  BY <1>9, <1>11 DEF check
<1>13. ValidateLuhn(number)
  <2>1. Len(number) = 12 /\ 12 - 1 = 11 /\ 12 >= 2
    BY <1>11
  <2> QED BY <1>12, <2>1 DEF ValidateLuhn
<1>14. Len(number) >= 2
  BY <1>11
<1> QED BY <1>11, <1>13, <1>14, SlipIsInvalid, SwapIsInvalid
=============================================================================
