--------------------------- MODULE SwaggerDocProofs ---------------------------
(***************************************************************************)
(* Theorems about SwaggerDoc, for any applications that AppAssumption      *)
(* admits: any routes, actions and classes, however they refer to each     *)
(* other.                                                                  *)
(***************************************************************************)
EXTENDS SwaggerDoc, FiniteSetTheorems, WellFoundedInduction, TLAPS

-----------------------------------------------------------------------------
(* The least element of a set of numbers, and with it: induction up to a   *)
(* number, and functions defined by recursion on the numbers up to one.    *)

UpTo(n) == 0 .. n

LEMMA UpToFacts ==
  /\ \A n \in Nat : UpTo(n) \in FiniteSubsetsOf(Nat)
  /\ \A m, n \in Nat : n < m => <<UpTo(n), UpTo(m)>> \in StrictSubsetOrdering(Nat)
<1>1. ASSUME NEW n \in Nat PROVE UpTo(n) \in FiniteSubsetsOf(Nat)
  <2>1. IsFiniteSet(0 .. n)
    BY FS_Interval
  <2>2. 0 .. n \in SUBSET Nat
    OBVIOUS
  <2> QED
    BY <2>1, <2>2, Zenon DEF FiniteSubsetsOf, UpTo
<1>2. ASSUME NEW m \in Nat, NEW n \in Nat, n < m
      PROVE  <<UpTo(n), UpTo(m)>> \in StrictSubsetOrdering(Nat)
  <2>1. 0 .. n \in SUBSET Nat /\ 0 .. m \in SUBSET Nat /\ 0 .. n \subseteq 0 .. m
    BY <1>2
  <2>2. m \in 0 .. m /\ m \notin 0 .. n
    BY <1>2
  <2> QED
    BY <2>1, <2>2, SMT DEF StrictSubsetOrdering, UpTo
<1> QED
  BY <1>1, <1>2, Zenon

\* A set of numbers that is not empty has a least one.
LEMMA LeastExists ==
  ASSUME NEW S \in SUBSET Nat, S # {}
  PROVE  \E m \in S : \A x \in S : m <= x
<1> DEFINE T == {UpTo(n) : n \in S}
<1>1. T \subseteq FiniteSubsetsOf(Nat) /\ T # {}
  BY UpToFacts, Zenon
<1>2. PICK b \in T : \A c \in T : ~ (<<c, b>> \in StrictSubsetOrdering(Nat))
  <2> HIDE DEF T
  <2> QED
    BY <1>1, FS_StrictSubsetOrderingWellFounded, WFMin
<1>3. PICK m \in S : b = UpTo(m)
  OBVIOUS
<1>4. ASSUME NEW x \in S PROVE ~ (x < m)
  BY <1>2, <1>3, UpToFacts, Zenon
<1> QED
  BY <1>4

\* Induction: T holds the numbers for which something is true.
LEMMA Induction ==
  ASSUME NEW n \in Nat, NEW T, 0 \in T, \A i \in 1 .. n : i - 1 \in T => i \in T
  PROVE  \A i \in 0 .. n : i \in T
<1> DEFINE Wrong == {i \in 0 .. n : i \notin T}
<1>1. SUFFICES ASSUME Wrong # {} PROVE FALSE
  OBVIOUS
<1>2. Wrong \in SUBSET Nat
  OBVIOUS
<1>3. PICK m \in Wrong : \A x \in Wrong : m <= x
  <2> HIDE DEF Wrong
  <2> QED
    BY <1>1, <1>2, LeastExists
<1>4. m \in 0 .. n /\ m \notin T /\ m # 0
  OBVIOUS
<1>5. m \in 1 .. n /\ m - 1 \in 0 .. n /\ m - 1 < m
  BY <1>4
<1>6. m - 1 \in T
  BY <1>3, <1>5
<1> QED
  BY <1>4, <1>5, <1>6

\* Recursion: F takes the number, then the value before it.
Steps(n, S) == [1 .. n -> [S -> S]]
Recursion(g, n, S, base, F) ==
  g \in [0 .. n -> S] /\ g[0] = base /\ \A i \in 1 .. n : g[i] = F[i][g[i - 1]]

LEMMA RecursionExists ==
  ASSUME NEW n \in Nat, NEW S, NEW base \in S, NEW F \in Steps(n, S)
  PROVE  \E g : Recursion(g, n, S, base, F)
<1> DEFINE Good(m, g) == g[0] = base /\ \A i \in 1 .. m : g[i] = F[i][g[i - 1]]
           T == {m \in 0 .. n : \E g \in [0 .. m -> S] : Good(m, g)}
<1>1. 0 \in T
  <2>1. [i \in 0 .. 0 |-> base] \in [0 .. 0 -> S] /\ Good(0, [i \in 0 .. 0 |-> base])
    OBVIOUS
  <2> HIDE DEF Good
  <2> QED
    BY <2>1
<1>2. ASSUME NEW m \in 1 .. n, m - 1 \in T PROVE m \in T
  <2>1. PICK f \in [0 .. m - 1 -> S] : Good(m - 1, f)
    BY <1>2
  <2>2. m \in Nat /\ m - 1 \in Nat /\ m - 1 \in 0 .. m - 1 /\ m \notin 0 .. m - 1 /\ m \in 0 .. n /\ 0 \in 0 .. m /\ 0 # m
    OBVIOUS
  <2> DEFINE v == F[m][f[m - 1]]
             g == [i \in 0 .. m |-> IF i = m THEN v ELSE f[i]]
  <2>3. f[m - 1] \in S
    BY <2>1, <2>2
  <2>4. v \in S
    BY <2>3 DEF Steps
  <2>5. \A i \in 0 .. m : i \in 0 .. m - 1 \/ i = m
    BY <2>2
  <2> HIDE DEF v
  <2>6. g \in [0 .. m -> S]
    BY <2>1, <2>4, <2>5
  <2>7. ASSUME NEW i \in 1 .. m PROVE g[i] = F[i][g[i - 1]]
    <3>1. i \in 0 .. m /\ i - 1 \in 0 .. m /\ i - 1 # m /\ i - 1 \in 0 .. m - 1
      BY <2>2
    <3>2. g[i - 1] = f[i - 1]
      BY <3>1
    <3>3. CASE i = m
      BY <3>1, <3>2, <3>3 DEF v
    <3>4. CASE i # m
      <4>1. i \in 1 .. m - 1
        BY <2>2, <3>4
      <4>2. g[i] = f[i]
        BY <3>1, <3>4
      <4> QED
        BY <2>1, <3>2, <4>1, <4>2
    <3> QED
      BY <3>3, <3>4
  <2>8. g[0] = base
    BY <2>1, <2>2
  <2> HIDE DEF g
  <2> QED
    BY <2>2, <2>6, <2>7, <2>8
<1> HIDE DEF T
<1>3. n \in T
  <2>1. \A i \in 0 .. n : i \in T
    BY <1>1, <1>2, Induction
  <2> QED
    BY <2>1
<1> QED
  BY <1>3 DEF T, Recursion

-----------------------------------------------------------------------------
(* Lists.                                                                  *)

\* What Only keeps, element by element.
OnlyStep(s, good, f, i) ==
  IF i = 0 THEN << >> ELSE IF s[i] \in good THEN Append(f[i - 1], s[i]) ELSE f[i - 1]

LEMMA OnlyUnfolds ==
  ASSUME NEW S, NEW s \in Seq(S), NEW good
  PROVE  \E f \in [0 .. Len(s) -> Seq(S)] :
           /\ Only(s, good) = f[Len(s)]
           /\ \A i \in 0 .. Len(s) : f[i] = OnlyStep(s, good, f, i)
<1> DEFINE n == Len(s)
           F == [i \in 1 .. n |-> [q \in Seq(S) |-> IF s[i] \in good THEN Append(q, s[i]) ELSE q]]
           Good(f) == f = [i \in 0 .. n |-> IF i = 0 THEN << >>
                                            ELSE IF s[i] \in good THEN Append(f[i - 1], s[i]) ELSE f[i - 1]]
<1>1. n \in Nat /\ \A i \in 1 .. n : s[i] \in S
  OBVIOUS
<1>2. F \in Steps(n, Seq(S)) /\ << >> \in Seq(S)
  <2>1. ASSUME NEW i \in 1 .. n, NEW q \in Seq(S) PROVE Append(q, s[i]) \in Seq(S)
    BY <1>1
  <2> HIDE DEF n
  <2> QED
    BY <2>1 DEF Steps
<1>3. PICK g : Recursion(g, n, Seq(S), << >>, F)
  <2> HIDE DEF F, n
  <2> QED
    BY <1>1, <1>2, RecursionExists
<1>4. ASSUME NEW i \in 0 .. n PROVE g[i] = OnlyStep(s, good, g, i)
  <2>1. CASE i = 0
    BY <1>3, <2>1 DEF OnlyStep, Recursion
  <2>2. CASE i # 0
    <3>1. i \in 1 .. n /\ i - 1 \in 0 .. n
      BY <1>1, <2>2
    <3>2. g[i] = F[i][g[i - 1]] /\ g[i - 1] \in Seq(S)
      BY <1>3, <3>1 DEF Recursion
    <3> QED
      BY <2>2, <3>1, <3>2 DEF OnlyStep
  <2> QED
    BY <2>1, <2>2
<1>5. Good(g)
  <2>1. g = [i \in 0 .. n |-> g[i]]
    BY <1>3 DEF Recursion
  <2> HIDE DEF n
  <2> QED
    BY <1>4, <2>1 DEF OnlyStep
<1> DEFINE f == CHOOSE f : Good(f)
<1>6. Good(f)
  <2> HIDE DEF Good
  <2> QED
    BY <1>5
<1>7. Only(s, good) = f[n]
  BY Zenon DEF Only
<1> HIDE DEF f
<1>8. \A i \in 0 .. n : f[i] = OnlyStep(s, good, f, i)
  <2> HIDE DEF n
  <2> QED
    BY <1>6 DEF OnlyStep
<1> DEFINE T == {i \in 0 .. n : f[i] \in Seq(S)}
<1>9. \A i \in 0 .. n : i \in T
  <2>1. 0 \in T
    <3> HIDE DEF n
    <3>1. 0 \in 0 .. n /\ f[0] = << >>
      BY <1>1, <1>8 DEF OnlyStep
    <3> HIDE DEF f
    <3> QED
      BY <1>2, <3>1
  <2>2. ASSUME NEW i \in 1 .. n, i - 1 \in T PROVE i \in T
    <3> HIDE DEF n
    <3>1. i \in 0 .. n /\ i # 0 /\ f[i - 1] \in Seq(S) /\ s[i] \in S
      BY <1>1, <2>2
    <3> HIDE DEF f
    <3>2. Append(f[i - 1], s[i]) \in Seq(S)
      BY <3>1
    <3>3. f[i] = OnlyStep(s, good, f, i)
      BY <1>8, <3>1
    <3>4. f[i] \in Seq(S)
      BY <3>1, <3>2, <3>3, Zenon DEF OnlyStep
    <3> QED
      BY <3>1, <3>4
  <2> HIDE DEF T
  <2> QED
    BY <1>1, <2>1, <2>2, Induction
<1>10. f \in [0 .. n -> Seq(S)]
  <2>1. f = [i \in 0 .. n |-> f[i]]
    <3>1. \A i \in 0 .. n : f[i] = f[i]
      OBVIOUS
    <3> HIDE DEF n
    <3> QED
      BY <1>6
  <2> QED
    BY <1>9, <2>1
<1> QED
  BY <1>7, <1>8, <1>10

LEMMA OnlyFacts ==
  ASSUME NEW S, NEW s \in Seq(S), NEW good
  PROVE  /\ Only(s, good) \in Seq(S)
         /\ ToSet(Only(s, good)) = ToSet(s) \cap good
         /\ s # << >> /\ Last(s) \in good => Only(s, good) # << >> /\ Last(Only(s, good)) = Last(s)
<1> DEFINE n == Len(s)
<1>1. PICK f \in [0 .. n -> Seq(S)] :
        Only(s, good) = f[n] /\ \A i \in 0 .. n : f[i] = OnlyStep(s, good, f, i)
  BY OnlyUnfolds
<1>2. n \in Nat /\ n \in 0 .. n
  OBVIOUS
<1>3. f[n] \in Seq(S)
  BY <1>1, <1>2
<1> DEFINE T == {i \in 0 .. n : ToSet(f[i]) = {s[j] : j \in 1 .. i} \cap good}
<1>4. \A i \in 0 .. n : i \in T
  <2>1. 0 \in T
    BY <1>1, <1>2 DEF OnlyStep, ToSet
  <2>2. ASSUME NEW i \in 1 .. n, i - 1 \in T PROVE i \in T
    <3>1. i \in 0 .. n /\ i # 0 /\ i - 1 \in 0 .. n /\ s[i] \in S
      BY <1>2
    <3>2. {s[j] : j \in 1 .. i} = {s[j] : j \in 1 .. i - 1} \cup {s[i]}
      BY <3>1
    <3>3. f[i - 1] \in Seq(S) /\ ToSet(f[i - 1]) = {s[j] : j \in 1 .. i - 1} \cap good
      BY <1>1, <2>2, <3>1
    <3>4. f[i] = IF s[i] \in good THEN Append(f[i - 1], s[i]) ELSE f[i - 1]
      BY <1>1, <3>1 DEF OnlyStep
    <3>5. ToSet(Append(f[i - 1], s[i])) = ToSet(f[i - 1]) \cup {s[i]}
      <4> DEFINE q == f[i - 1]
                 e == s[i]
      <4>1. q \in Seq(S) /\ e \in S
        BY <3>1, <3>3
      <4> HIDE DEF q, e
      <4>2. Append(q, e) \in Seq(S) /\ Len(Append(q, e)) = Len(q) + 1 /\ Append(q, e)[Len(q) + 1] = e
            /\ \A j \in 1 .. Len(q) : Append(q, e)[j] = q[j]
        BY <4>1
      <4>3. Len(q) \in Nat
        BY <4>1
      <4>4. 1 .. Len(q) + 1 = (1 .. Len(q)) \cup {Len(q) + 1}
        BY <4>3
      <4>5. DOMAIN q = 1 .. Len(q) /\ DOMAIN Append(q, e) = 1 .. Len(q) + 1
        BY <4>1, <4>2
      <4> QED
        BY <4>2, <4>4, <4>5 DEF ToSet, q, e
    <3> QED
      BY <3>1, <3>2, <3>3, <3>4, <3>5
  <2> HIDE DEF T
  <2> QED
    BY <1>2, <2>1, <2>2, Induction
<1>5. ToSet(f[n]) = ToSet(s) \cap good
  <2>1. ToSet(s) = {s[j] : j \in 1 .. n}
    BY DEF ToSet
  <2> HIDE DEF n
  <2>2. ToSet(f[n]) = {s[j] : j \in 1 .. n} \cap good
    BY <1>2, <1>4
  <2> QED
    BY <2>1, <2>2
<1>6. ASSUME s # << >>, Last(s) \in good PROVE f[n] # << >> /\ Last(f[n]) = Last(s)
  <2>1. n \in 1 .. n /\ n - 1 \in 0 .. n /\ n # 0 /\ s[n] \in S
    BY <1>2, <1>6
  <2>2. f[n] = Append(f[n - 1], s[n]) /\ f[n - 1] \in Seq(S)
    BY <1>1, <1>2, <1>6, <2>1 DEF OnlyStep, Last
  <2> DEFINE q == f[n - 1]
             e == s[n]
  <2>3. q \in Seq(S) /\ e \in S /\ f[n] = Append(q, e) /\ e = Last(s)
    BY <2>1, <2>2 DEF Last
  <2> HIDE DEF q, e
  <2>4. Append(q, e) # << >> /\ Last(Append(q, e)) = e
    BY <2>3 DEF Last
  <2> QED
    BY <2>3, <2>4
<1> QED
  BY <1>1, <1>3, <1>5, <1>6


LEMMA ConcatFacts ==
  ASSUME NEW S, NEW s \in Seq(S), NEW t \in Seq(S)
  PROVE  s \o t \in Seq(S) /\ ToSet(s \o t) = ToSet(s) \cup ToSet(t)
<1>1. /\ s \o t \in Seq(S) /\ Len(s \o t) = Len(s) + Len(t) /\ Len(s) \in Nat /\ Len(t) \in Nat
      /\ DOMAIN s = 1 .. Len(s) /\ DOMAIN t = 1 .. Len(t) /\ DOMAIN (s \o t) = 1 .. Len(s) + Len(t)
  OBVIOUS
<1>2. \A i \in 1 .. Len(s) : i \in 1 .. Len(s) + Len(t) /\ (s \o t)[i] = s[i]
  BY <1>1
<1>3. \A i \in 1 .. Len(t) : i + Len(s) \in 1 .. Len(s) + Len(t) /\ (s \o t)[i + Len(s)] = t[i]
  BY <1>1
<1>4. \A i \in 1 .. Len(s) + Len(t) : i \in 1 .. Len(s) \/ (i - Len(s) \in 1 .. Len(t) /\ (i - Len(s)) + Len(s) = i)
  BY <1>1
<1>5. ASSUME NEW x PROVE x \in ToSet(s \o t) <=> x \in ToSet(s) \cup ToSet(t)
  <2>1. ASSUME x \in ToSet(s \o t) PROVE x \in ToSet(s) \cup ToSet(t)
    <3>1. PICK i \in 1 .. Len(s) + Len(t) : (s \o t)[i] = x
      BY <1>1, <2>1 DEF ToSet
    <3>2. CASE i \in 1 .. Len(s)
      BY <1>1, <1>2, <3>1, <3>2 DEF ToSet
    <3>3. CASE i - Len(s) \in 1 .. Len(t) /\ (i - Len(s)) + Len(s) = i
      BY <1>1, <1>3, <3>1, <3>3 DEF ToSet
    <3> QED
      BY <1>4, <3>2, <3>3
  <2>2. ASSUME x \in ToSet(s) PROVE x \in ToSet(s \o t)
    BY <1>1, <1>2, <2>2 DEF ToSet
  <2>3. ASSUME x \in ToSet(t) PROVE x \in ToSet(s \o t)
    BY <1>1, <1>3, <2>3 DEF ToSet
  <2> QED
    BY <2>1, <2>2, <2>3
<1> QED
  BY <1>1, <1>5

\* What FlattenSeq joins.
LEMMA FlattenUnfolds ==
  ASSUME NEW S, NEW ss \in Seq(Seq(S)), ss # << >>
  PROVE  \E f : /\ FlattenSeq(ss) = f[Len(ss)]
                /\ \A i \in 1 .. Len(ss) : f[i] = IF i = 1 THEN ss[i] ELSE f[i - 1] \o ss[i]
<1> DEFINE n == Len(ss)
           F == [i \in 1 .. n |-> [q \in Seq(S) |-> q \o ss[i]]]
           Good(f) == f = [i \in 1 .. n |-> IF i = 1 THEN ss[i] ELSE f[i - 1] \o ss[i]]
<1>1. n \in Nat /\ n > 0 /\ \A i \in 1 .. n : ss[i] \in Seq(S)
  OBVIOUS
<1>2. F \in Steps(n, Seq(S)) /\ << >> \in Seq(S)
  <2>1. ASSUME NEW i \in 1 .. n, NEW q \in Seq(S) PROVE q \o ss[i] \in Seq(S)
    BY <1>1
  <2> HIDE DEF n
  <2> QED
    BY <2>1 DEF Steps
<1>3. PICK g : Recursion(g, n, Seq(S), << >>, F)
  <2> HIDE DEF F, n
  <2> QED
    BY <1>1, <1>2, RecursionExists
<1>4. ASSUME NEW i \in 1 .. n PROVE g[i] = IF i = 1 THEN ss[i] ELSE g[i - 1] \o ss[i]
  <2>1. i - 1 \in 0 .. n /\ g[i] = F[i][g[i - 1]] /\ g[i - 1] \in Seq(S)
    <3>1. i - 1 \in 0 .. n
      BY <1>1
    <3> HIDE DEF F, n
    <3> QED
      BY <1>3, <3>1 DEF Recursion
  <2>2. g[i] = g[i - 1] \o ss[i]
    BY <2>1
  <2>3. i = 1 => g[i - 1] = << >>
    BY <1>3 DEF Recursion
  <2>4. \A q \in Seq(S) : << >> \o q = q
    OBVIOUS
  <2> HIDE DEF n, F
  <2> QED
    BY <1>1, <2>2, <2>3, <2>4
<1> DEFINE h == [i \in 1 .. n |-> g[i]]
<1>5. Good(h)
  <2>1. ASSUME NEW i \in 1 .. n PROVE h[i] = IF i = 1 THEN ss[i] ELSE h[i - 1] \o ss[i]
    <3>1. i # 1 => i - 1 \in 1 .. n
      BY <1>1
    <3> HIDE DEF n
    <3> QED
      BY <1>4, <3>1
  <2> HIDE DEF n
  <2> QED
    BY <2>1
<1> DEFINE f == CHOOSE f : Good(f)
<1>6. Good(f)
  <2> HIDE DEF Good, h
  <2> QED
    BY <1>5
<1>7. FlattenSeq(ss) = f[n]
  <2>1. n # 0
    BY <1>1
  <2> QED
    BY <2>1, Zenon DEF FlattenSeq
<1> HIDE DEF f
<1>8. \A i \in 1 .. n : f[i] = IF i = 1 THEN ss[i] ELSE f[i - 1] \o ss[i]
  <2> HIDE DEF n
  <2> QED
    BY <1>6
<1> QED
  BY <1>7, <1>8

LEMMA FlattenFacts ==
  ASSUME NEW S, NEW ss \in Seq(Seq(S))
  PROVE  /\ FlattenSeq(ss) \in Seq(S)
         /\ ToSet(FlattenSeq(ss)) = UNION {ToSet(ss[i]) : i \in DOMAIN ss}
<1>1. CASE ss = << >>
  <2>1. Len(ss) = 0 /\ DOMAIN ss = {}
    BY <1>1
  <2>2. FlattenSeq(ss) = << >>
    BY <1>1, <2>1, Zenon DEF FlattenSeq
  <2>3. UNION {ToSet(ss[i]) : i \in DOMAIN ss} = {}
    BY <2>1
  <2>4. << >> \in Seq(S) /\ ToSet(<< >>) = {}
    BY DEF ToSet
  <2> QED
    BY <2>2, <2>3, <2>4
<1>2. CASE ss # << >>
  <2> DEFINE n == Len(ss)
  <2>1. PICK f : /\ FlattenSeq(ss) = f[n]
                 /\ \A i \in 1 .. n : f[i] = IF i = 1 THEN ss[i] ELSE f[i - 1] \o ss[i]
    BY <1>2, FlattenUnfolds
  <2>2. n \in Nat /\ n > 0 /\ DOMAIN ss = 1 .. n /\ \A i \in 1 .. n : ss[i] \in Seq(S)
    BY <1>2
  <2> HIDE DEF n
  <2> DEFINE U(i) == UNION {ToSet(ss[j]) : j \in 1 .. i}
             Good(i) == f[i] \in Seq(S) /\ ToSet(f[i]) = U(i)
             T == {i \in 0 .. n : i = 0 \/ Good(i)}
  <2>6. ASSUME NEW i \in 1 .. n PROVE U(i) = U(i - 1) \cup ToSet(ss[i]) /\ (i = 1 => U(i) = ToSet(ss[i]))
    <3>1. \A j : j \in 1 .. i <=> j \in 1 .. i - 1 \/ j = i
      BY <2>2
    <3>2. \A x : x \in U(i) <=> \E j \in 1 .. i : x \in ToSet(ss[j])
      OBVIOUS
    <3>3. \A x : x \in U(i - 1) <=> \E j \in 1 .. i - 1 : x \in ToSet(ss[j])
      OBVIOUS
    <3>4. i = 1 => 1 .. i - 1 = {}
      OBVIOUS
    <3> HIDE DEF U
    <3>5. \A x : x \in U(i) <=> x \in U(i - 1) \/ x \in ToSet(ss[i])
      BY <3>1, <3>2, <3>3, Zenon
    <3>6. U(i) = U(i - 1) \cup ToSet(ss[i])
      BY <3>5
    <3>7. i = 1 => U(i - 1) = {}
      BY <3>3, <3>4
    <3> QED
      BY <3>6, <3>7
  <2> HIDE DEF U
  <2>3. ASSUME NEW i \in 1 .. n, i - 1 \in T PROVE Good(i)
    <3>1. CASE i = 1
      <4>1. f[i] = ss[i]
        BY <2>1, <3>1
      <4> QED
        BY <2>2, <2>6, <3>1, <4>1
    <3>2. CASE i # 1
      <4>1. i - 1 \in 1 .. n /\ i - 1 # 0
        BY <2>2, <3>2
      <4>2. f[i - 1] \in Seq(S) /\ ToSet(f[i - 1]) = U(i - 1)
        BY <2>3, <4>1
      <4>3. f[i] = f[i - 1] \o ss[i] /\ ss[i] \in Seq(S)
        BY <2>1, <2>2, <3>2
      <4>4. f[i] \in Seq(S) /\ ToSet(f[i]) = ToSet(f[i - 1]) \cup ToSet(ss[i])
        BY <4>2, <4>3, ConcatFacts
      <4> QED
        BY <2>6, <4>2, <4>4
    <3> QED
      BY <3>1, <3>2
  <2>4. \A i \in 0 .. n : i \in T
    <3>1. 0 \in T
      BY <2>2
    <3>2. \A i \in 1 .. n : i - 1 \in T => i \in T
      <4>1. \A i \in 1 .. n : i \in 0 .. n
        BY <2>2
      <4> HIDE DEF Good
      <4> QED
        BY <2>3, <4>1
    <3> HIDE DEF T
    <3> QED
      BY <2>2, <3>1, <3>2, Induction
  <2>5. Good(n)
    <3>1. n \in 0 .. n /\ n # 0
      BY <2>2
    <3> HIDE DEF Good
    <3> QED
      BY <2>4, <3>1
  <2> QED
    BY <2>1, <2>2, <2>5 DEF U
<1> QED
  BY <1>1, <1>2

-----------------------------------------------------------------------------
(* Lists: sequences of whatever is in them.                                *)

LEMMA ListFacts ==
  ASSUME NEW s, IsList(s)
  PROVE  /\ Len(s) \in Nat /\ DOMAIN s = 1 .. Len(s)
         /\ \A i \in DOMAIN s : s[i] \in ToSet(s)
         /\ \A x \in ToSet(s) : \E i \in DOMAIN s : s[i] = x
         /\ s = << >> <=> Len(s) = 0
         /\ s = << >> <=> ToSet(s) = {}
<1>1. s \in Seq(ToSet(s))
  BY DEF IsList
<1>2. Len(s) \in Nat /\ DOMAIN s = 1 .. Len(s) /\ (s = << >> <=> Len(s) = 0)
  BY <1>1
<1>3. \A i \in DOMAIN s : s[i] \in ToSet(s)
  BY DEF ToSet
<1>4. \A x \in ToSet(s) : \E i \in DOMAIN s : s[i] = x
  BY DEF ToSet
<1>5. Len(s) # 0 => 1 \in DOMAIN s
  BY <1>2
<1>6. Len(s) = 0 => DOMAIN s = {}
  BY <1>2
<1> QED
  BY <1>2, <1>3, <1>4, <1>5, <1>6

LEMMA SeqIsList ==
  ASSUME NEW S, NEW s \in Seq(S)
  PROVE  IsList(s) /\ ToSet(s) \subseteq S
<1>1. Len(s) \in Nat /\ s \in [1 .. Len(s) -> S] /\ DOMAIN s = 1 .. Len(s)
  OBVIOUS
<1>2. ToSet(s) = {s[i] : i \in 1 .. Len(s)}
  BY <1>1 DEF ToSet
<1>3. s \in [1 .. Len(s) -> ToSet(s)]
  BY <1>1, <1>2
<1>4. s \in Seq(ToSet(s))
  BY <1>1, <1>3
<1> QED
  BY <1>1, <1>2, <1>4 DEF IsList

LEMMA EmptyList == IsList(<< >>) /\ ToSet(<< >>) = {}
BY SeqIsList DEF IsList, ToSet

LEMMA OneList == ASSUME NEW e PROVE IsList(<<e>>) /\ ToSet(<<e>>) = {e} /\ <<e>> # << >>
<1>1. <<e>> \in Seq({e}) /\ Len(<<e>>) = 1 /\ <<e>>[1] = e /\ <<e>> # << >>
  OBVIOUS
<1>2. IsList(<<e>>) /\ ToSet(<<e>>) \subseteq {e}
  BY <1>1, SeqIsList
<1>3. e \in ToSet(<<e>>)
  BY <1>1, <1>2, ListFacts
<1> QED
  BY <1>1, <1>2, <1>3

LEMMA TwoList == ASSUME NEW d, NEW e PROVE IsList(<<d, e>>) /\ ToSet(<<d, e>>) = {d, e}
<1>1. <<d, e>> \in Seq({d, e}) /\ Len(<<d, e>>) = 2 /\ <<d, e>>[1] = d /\ <<d, e>>[2] = e
  OBVIOUS
<1>2. IsList(<<d, e>>) /\ ToSet(<<d, e>>) \subseteq {d, e}
  BY <1>1, SeqIsList
<1>3. 1 \in DOMAIN <<d, e>> /\ 2 \in DOMAIN <<d, e>>
  BY <1>1, <1>2, ListFacts
<1>4. d \in ToSet(<<d, e>>) /\ e \in ToSet(<<d, e>>)
  BY <1>1, <1>2, <1>3, ListFacts
<1> QED
  BY <1>2, <1>4

\* A function on the first n numbers is a list.
LEMMA FunctionIsList ==
  ASSUME NEW n \in Nat, NEW f, f = [i \in 1 .. n |-> f[i]]
  PROVE  IsList(f) /\ Len(f) = n /\ DOMAIN f = 1 .. n /\ ToSet(f) = {f[i] : i \in 1 .. n}
<1> DEFINE S == {f[i] : i \in 1 .. n}
<1>1. f \in [1 .. n -> S]
  OBVIOUS
<1>2. f \in Seq(S)
  BY <1>1
<1>3. Len(f) = n /\ DOMAIN f = 1 .. n
  BY <1>1
<1>4. ToSet(f) = S
  BY <1>3 DEF ToSet
<1> QED
  BY <1>2, <1>3, <1>4, SeqIsList

LEMMA JoinFacts ==
  ASSUME NEW s, NEW t, IsList(s), IsList(t)
  PROVE  IsList(s \o t) /\ ToSet(s \o t) = ToSet(s) \cup ToSet(t)
<1> DEFINE S == ToSet(s) \cup ToSet(t)
<1>1. s \in Seq(S) /\ t \in Seq(S)
  <2>1. s \in Seq(ToSet(s)) /\ t \in Seq(ToSet(t))
    BY DEF IsList
  <2>2. \A A, B : A \subseteq B => Seq(A) \subseteq Seq(B)
    OBVIOUS
  <2> QED
    BY <2>1, <2>2
<1> HIDE DEF S
<1>2. s \o t \in Seq(S) /\ ToSet(s \o t) = ToSet(s) \cup ToSet(t)
  BY <1>1, ConcatFacts
<1> QED
  BY <1>2, SeqIsList

LEMMA HeadTailFacts ==
  ASSUME NEW s, IsList(s), s # << >>
  PROVE  /\ Head(s) \in ToSet(s) /\ Head(s) = s[1] /\ 1 \in DOMAIN s
         /\ IsList(Tail(s)) /\ ToSet(s) = {Head(s)} \cup ToSet(Tail(s))
         /\ Len(Tail(s)) = Len(s) - 1
         /\ \A i \in 1 .. Len(s) - 1 : i + 1 \in DOMAIN s /\ i + 1 # 1 /\ Tail(s)[i] = s[i + 1]
<1>1. s \in Seq(ToSet(s)) /\ Len(s) \in Nat /\ Len(s) # 0 /\ DOMAIN s = 1 .. Len(s)
  BY ListFacts DEF IsList
<1>2. /\ Tail(s) \in Seq(ToSet(s)) /\ Len(Tail(s)) = Len(s) - 1
      /\ \A i \in 1 .. Len(s) - 1 : Tail(s)[i] = s[i + 1]
  BY <1>1
<1>3. Head(s) = s[1] /\ 1 \in DOMAIN s
  BY <1>1
<1>4. \A i \in 1 .. Len(s) - 1 : i + 1 \in DOMAIN s /\ i + 1 # 1
  BY <1>1
<1>5. IsList(Tail(s)) /\ ToSet(Tail(s)) \subseteq ToSet(s)
  BY <1>2, SeqIsList
<1>6. Head(s) \in ToSet(s)
  BY <1>3, ListFacts
<1>7. ASSUME NEW x \in ToSet(s), x # Head(s) PROVE x \in ToSet(Tail(s))
  <2>1. PICK i \in DOMAIN s : s[i] = x
    BY ListFacts
  <2>2. i # 1
    BY <1>3, <1>7, <2>1
  <2>3. i - 1 \in 1 .. Len(s) - 1 /\ (i - 1) + 1 = i
    BY <1>1, <2>1, <2>2
  <2>4. Tail(s)[i - 1] = x /\ i - 1 \in DOMAIN Tail(s)
    BY <1>2, <1>5, <2>1, <2>3, ListFacts
  <2> QED
    BY <1>5, <2>4, ListFacts
<1> QED
  BY <1>2, <1>3, <1>4, <1>5, <1>6, <1>7

LEMMA LastFacts ==
  ASSUME NEW s, IsList(s), s # << >>
  PROVE  Last(s) \in ToSet(s) /\ s[1] \in ToSet(s)
<1>1. Len(s) \in DOMAIN s /\ 1 \in DOMAIN s
  BY ListFacts
<1> QED
  BY <1>1, ListFacts DEF Last

LEMMA FilterFacts ==
  ASSUME NEW s, IsList(s), NEW good
  PROVE  IsList(Only(s, good)) /\ ToSet(Only(s, good)) = ToSet(s) \cap good
<1>1. s \in Seq(ToSet(s))
  BY DEF IsList
<1>2. Only(s, good) \in Seq(ToSet(s)) /\ ToSet(Only(s, good)) = ToSet(s) \cap good
  BY <1>1, OnlyFacts
<1> QED
  BY <1>2, SeqIsList

LEMMA JoinAllFacts ==
  ASSUME NEW n \in Nat, NEW f, f = [i \in 1 .. n |-> f[i]], \A i \in 1 .. n : IsList(f[i])
  PROVE  IsList(FlattenSeq(f)) /\ ToSet(FlattenSeq(f)) = UNION {ToSet(f[i]) : i \in 1 .. n}
<1> DEFINE S == UNION {ToSet(f[i]) : i \in 1 .. n}
<1>1. ASSUME NEW i \in 1 .. n PROVE f[i] \in Seq(S)
  <2>1. f[i] \in Seq(ToSet(f[i])) /\ ToSet(f[i]) \subseteq S
    BY DEF IsList
  <2>2. \A A, B : A \subseteq B => Seq(A) \subseteq Seq(B)
    OBVIOUS
  <2> QED
    BY <2>1, <2>2
<1> HIDE DEF S
<1>2. f \in [1 .. n -> Seq(S)]
  BY <1>1
<1>3. f \in Seq(Seq(S)) /\ DOMAIN f = 1 .. n
  BY <1>2
<1>4. FlattenSeq(f) \in Seq(S) /\ ToSet(FlattenSeq(f)) = S
  BY <1>3, FlattenFacts DEF S
<1> QED
  BY <1>4, SeqIsList DEF S

-----------------------------------------------------------------------------
(* What AppAssumption says of the application, and what rules name.        *)

MembersOf(class) == app.classes[class].members

LEMMA AppFacts ==
  ASSUME app \in Apps
  PROVE  /\ IsList(app.routes)
         /\ \A route \in ToSet(app.routes) : IsList(route.methods) /\ route.action \in DOMAIN app.actions
         /\ \A a \in DOMAIN app.actions :
              /\ AreRules(app.actions[a].rules) /\ IsList(app.actions[a].records)
              /\ \A r \in ToSet(app.actions[a].records) : AreRules(r.rules)
         /\ \A class \in DOMAIN app.classes :
              /\ IsList(MembersOf(class)) /\ \A m \in ToSet(MembersOf(class)) : AreRules(m.rules)
              /\ \A i, j \in DOMAIN MembersOf(class) : MembersOf(class)[i].name = MembersOf(class)[j].name => i = j
         /\ ~IsClass("none") /\ ~IsClass("Array")
<1>1. /\ IsList(app.routes)
      /\ \A route \in ToSet(app.routes) : IsList(route.methods) /\ route.action \in DOMAIN app.actions
  BY AppAssumption, Zenon
<1>2. \A a \in DOMAIN app.actions : AreRules(app.actions[a].rules) /\ AreRuled(app.actions[a].records)
  BY AppAssumption, Zenon
<1>3. \A class \in DOMAIN app.classes :
        /\ AreRuled(MembersOf(class))
        /\ \A i, j \in DOMAIN MembersOf(class) : MembersOf(class)[i].name = MembersOf(class)[j].name => i = j
  BY AppAssumption, Zenon DEF MembersOf
<1>4. DOMAIN app.classes \cap {"none", "Array"} = {}
  BY AppAssumption, Zenon
<1>5. ~IsClass("none") /\ ~IsClass("Array")
  BY <1>4 DEF IsClass
<1> QED
  BY <1>1, <1>2, <1>3, <1>5, Zenon DEF AreRuled

LEMMA NamedFacts ==
  ASSUME NEW rules, AreRules(rules), NEW name
  PROVE  /\ IsList(rules) /\ IsList(GetNamedValidates(rules, name))
         /\ ToSet(GetNamedValidates(rules, name)) = {v \in ToSet(rules) : v.name = name}
         /\ \A v \in ToSet(rules) : IsList(v.args) /\ (v.name = "Response" => v.args # <<>>)
<1>1. IsList(rules) /\ \A v \in ToSet(rules) : IsList(v.args) /\ (v.name = "Response" => v.args # <<>>)
  BY DEF AreRules
<1> DEFINE good == {v \in ToSet(rules) : v.name = name}
<1>2. IsList(Only(rules, good)) /\ ToSet(Only(rules, good)) = ToSet(rules) \cap good
  BY <1>1, FilterFacts, Zenon
<1>3. ToSet(rules) \cap good = good
  OBVIOUS
<1> QED
  BY <1>1, <1>2, <1>3, Zenon DEF GetNamedValidates

LEMMA ArgsFacts ==
  ASSUME NEW rules, AreRules(rules), NEW name
  PROVE  /\ IsList(ArgsOf(rules, name))
         /\ \A x : x \in ToSet(ArgsOf(rules, name)) <=>
                     \E v \in ToSet(rules) : v.name = name /\ x \in ToSet(v.args)
<1> DEFINE validates == GetNamedValidates(rules, name)
           n == Len(validates)
           f == [i \in 1 .. n |-> validates[i].args]
<1>1. /\ IsList(validates) /\ ToSet(validates) = {v \in ToSet(rules) : v.name = name}
      /\ \A v \in ToSet(rules) : IsList(v.args)
  BY NamedFacts
<1> HIDE DEF validates
<1>2. n \in Nat /\ DOMAIN validates = 1 .. n
  BY <1>1, ListFacts
<1>3. \A i \in 1 .. n : validates[i] \in ToSet(rules) /\ validates[i].name = name
  BY <1>1, <1>2, ListFacts
<1>4. \A v \in ToSet(rules) : v.name = name => \E i \in 1 .. n : validates[i] = v
  BY <1>1, <1>2, ListFacts
<1>5. f = [i \in 1 .. n |-> f[i]] /\ \A i \in 1 .. n : f[i] = validates[i].args /\ IsList(f[i])
  BY <1>1, <1>3
<1>6. ArgsOf(rules, name) = FlattenSeq(f)
  BY <1>2, Zenon DEF ArgsOf, validates
<1> HIDE DEF f, n
<1>7. IsList(FlattenSeq(f)) /\ ToSet(FlattenSeq(f)) = UNION {ToSet(f[i]) : i \in 1 .. n}
  BY <1>2, <1>5, JoinAllFacts
<1>8. \A x : x \in UNION {ToSet(f[i]) : i \in 1 .. n} <=> \E i \in 1 .. n : x \in ToSet(validates[i].args)
  BY <1>5
<1>9. \A x : (\E i \in 1 .. n : x \in ToSet(validates[i].args)) <=>
             \E v \in ToSet(rules) : v.name = name /\ x \in ToSet(v.args)
  BY <1>3, <1>4, Zenon
<1> QED
  BY <1>6, <1>7, <1>8, <1>9

\* The classes among the arguments of the rules with a name.
LEMMA NamedClasses ==
  ASSUME NEW rules, AreRules(rules), NEW name
  PROVE  /\ IsList(Only(ArgsOf(rules, name), DOMAIN app.classes))
         /\ ToSet(Only(ArgsOf(rules, name), DOMAIN app.classes)) \subseteq DOMAIN app.classes
         /\ \A v \in ToSet(rules) : \A x \in ToSet(v.args) :
              v.name = name /\ IsClass(x) => x \in ToSet(Only(ArgsOf(rules, name), DOMAIN app.classes))
<1> DEFINE args == ArgsOf(rules, name)
<1>1. /\ IsList(args)
      /\ \A x : x \in ToSet(args) <=> \E v \in ToSet(rules) : v.name = name /\ x \in ToSet(v.args)
  BY ArgsFacts
<1> HIDE DEF args
<1>2. /\ IsList(Only(args, DOMAIN app.classes))
      /\ ToSet(Only(args, DOMAIN app.classes)) = ToSet(args) \cap DOMAIN app.classes
  BY <1>1, FilterFacts
<1> QED
  BY <1>1, <1>2 DEF IsClass, args

\* A class that is among the items of an array is visited.
LEMMA ItemsFacts ==
  ASSUME NEW rules, AreRules(rules)
  PROVE  /\ IsList(ItemClasses(rules)) /\ ToSet(ItemClasses(rules)) \subseteq DOMAIN app.classes
         /\ ItemsOf(rules).ref = None \/ ItemsOf(rules).ref \in ToSet(ItemClasses(rules))
<1>1. /\ IsList(ItemClasses(rules)) /\ ToSet(ItemClasses(rules)) \subseteq DOMAIN app.classes
      /\ \A v \in ToSet(rules) : \A x \in ToSet(v.args) :
           v.name = "Items" /\ IsClass(x) => x \in ToSet(ItemClasses(rules))
  BY NamedClasses, Zenon DEF ItemClasses
<1> DEFINE items == GetNamedValidates(rules, "Items")
<1>2. /\ IsList(items) /\ ToSet(items) = {v \in ToSet(rules) : v.name = "Items"}
      /\ \A v \in ToSet(rules) : IsList(v.args)
  BY NamedFacts
<1>3. ItemsOf(rules) = IF items = <<>> THEN NoItems ELSE ParseArraySchema(Last(items).args, Last(items).nested)
  BY Zenon DEF ItemsOf
<1> HIDE DEF items
<1>4. CASE items = <<>>
  BY <1>1, <1>3, <1>4 DEF NoItems
<1>5. CASE items # <<>>
  <2> DEFINE v == Last(items)
  <2>1. v \in ToSet(rules) /\ v.name = "Items" /\ IsList(v.args)
    BY <1>2, <1>5, LastFacts
  <2> HIDE DEF v
  <2>2. CASE v.args = <<>>
    <3>1. ParseArraySchema(v.args, v.nested).ref = None
      BY <2>2 DEF ParseArraySchema, NoItems
    <3> QED
      BY <1>1, <1>3, <1>5, <3>1 DEF v
  <2>3. CASE v.args # <<>>
    <3>1. Last(v.args) \in ToSet(v.args)
      BY <2>1, <2>3, LastFacts
    <3>2. ParseArraySchema(v.args, v.nested).ref = IF IsClass(Last(v.args)) THEN Last(v.args) ELSE None
      BY <2>3 DEF ParseArraySchema
    <3>3. ItemsOf(rules) = ParseArraySchema(v.args, v.nested)
      BY <1>3, <1>5 DEF v
    <3> QED
      BY <1>1, <2>1, <3>1, <3>2, <3>3
  <2> QED
    BY <2>2, <2>3
<1> QED
  BY <1>4, <1>5

LEMMA ClassesFacts ==
  ASSUME NEW rules, AreRules(rules), NEW type
  PROVE  IsList(ClassesOf(type, rules)) /\ ToSet(ClassesOf(type, rules)) \subseteq DOMAIN app.classes
<1>1. CASE type = "Array"
  BY <1>1, ItemsFacts, Zenon DEF ClassesOf
<1>2. CASE type # "Array" /\ IsClass(type)
  <2>1. ClassesOf(type, rules) = <<type>>
    BY <1>2 DEF ClassesOf
  <2> QED
    BY <1>2, <2>1, OneList DEF IsClass
<1>3. CASE type # "Array" /\ ~IsClass(type)
  <2>1. ClassesOf(type, rules) = <<>>
    BY <1>3 DEF ClassesOf
  <2> QED
    BY <2>1, EmptyList
<1> QED
  BY <1>1, <1>2, <1>3

-----------------------------------------------------------------------------
(* Schemas: which have which fields, and what they refer to.               *)

IsSchema(s) ==
  s = [ref |-> s.ref, opts |-> s.opts, items |-> s.items,
       object |-> s.object, props |-> s.props, required |-> s.required]
\* Two schemas with the same references.
Alike(s, t) == s.ref = t.ref /\ s.items = t.items /\ s.props = t.props /\ s.object = t.object

LEMMA RefsInFacts ==
  ASSUME NEW s
  PROVE  \A x : x \in RefsIn(s) <=>
                  /\ x # None
                  /\ \/ x = s.ref \/ x = s.items.ref
                     \/ \E p \in DOMAIN s.props : x = s.props[p].ref \/ x = s.props[p].items.ref
BY DEF RefsIn

LEMMA AlikeRefs == ASSUME NEW s, NEW t, Alike(s, t) PROVE RefsIn(s) = RefsIn(t)
BY Zenon DEF Alike, RefsIn

LEMMA SchemasMade ==
  ASSUME NEW type, NEW class
  PROVE  /\ IsSchema(Blank) /\ Blank.ref = None /\ Blank.items.ref = None /\ Blank.props = <<>>
         /\ IsSchema(Plain(type)) /\ Plain(type).ref = None /\ Plain(type).items.ref = None /\ Plain(type).props = <<>>
         /\ IsSchema(RefTo(class)) /\ RefTo(class).ref = class /\ RefTo(class).items.ref = None
         /\ RefTo(class).props = <<>>
         /\ IsSchema(EmptyModel) /\ EmptyModel.ref = None /\ EmptyModel.items.ref = None /\ EmptyModel.props = <<>>
         /\ EmptyModel.required = {}
<1>1. IsSchema(Blank) /\ Blank.ref = None /\ Blank.items.ref = None /\ Blank.props = <<>> /\ Blank.required = {}
  BY DEF Blank, NoItems, IsSchema
<1>2. \A t : /\ IsSchema(Plain(t)) /\ Plain(t).ref = None /\ Plain(t).items.ref = None /\ Plain(t).props = <<>>
             /\ Plain(t).required = {}
  <2> SUFFICES ASSUME NEW t
               PROVE  /\ IsSchema(Plain(t)) /\ Plain(t).ref = None /\ Plain(t).items.ref = None
                      /\ Plain(t).props = <<>> /\ Plain(t).required = {}
    OBVIOUS
  <2> DEFINE o == [type |-> <<ApiType(t)>>]
  <2>1. Plain(t) = [Blank EXCEPT !.opts = o]
    BY DEF Plain
  <2> HIDE DEF o
  <2> QED
    BY <1>1, <2>1 DEF IsSchema
<1>3. IsSchema(RefTo(class)) /\ RefTo(class).ref = class /\ RefTo(class).items.ref = None /\ RefTo(class).props = <<>>
  BY <1>1 DEF RefTo, IsSchema
<1>4. /\ IsSchema(EmptyModel) /\ EmptyModel.ref = None /\ EmptyModel.items.ref = None /\ EmptyModel.props = <<>>
      /\ EmptyModel.required = {}
  <2> DEFINE p == Plain("Object")
  <2>1. IsSchema(p) /\ p.ref = None /\ p.items.ref = None /\ p.props = <<>> /\ p.required = {}
    BY <1>2
  <2>2. EmptyModel = [p EXCEPT !.object = TRUE]
    BY DEF EmptyModel
  <2> HIDE DEF p
  <2> QED
    BY <2>1, <2>2 DEF IsSchema
<1> QED
  BY <1>1, <1>2, <1>3, <1>4

LEMMA SchemasChanged ==
  ASSUME NEW s, IsSchema(s), NEW rules, NEW names, NEW class
  PROVE  /\ LET t == SetSchemaValue(s, rules) IN IsSchema(t) /\ Alike(t, s) /\ t.required = s.required
         /\ LET t == WithRequired(s, names) IN IsSchema(t) /\ Alike(t, s) /\ t.required = names
         /\ LET t == BeginModel(class, s) IN IsSchema(t) /\ Alike(t, s) /\ t.required = {}
         /\ LET t == [s EXCEPT !.items = rules]
            IN IsSchema(t) /\ t.ref = s.ref /\ t.items = rules /\ t.props = s.props
<1>1. ASSUME NEW q, IsSchema(q), NEW r
      PROVE  LET t == SetSchemaValue(q, r) IN IsSchema(t) /\ Alike(t, q) /\ t.required = q.required
  BY <1>1 DEF SetSchemaValue, IsSchema, Alike
<1>2. ASSUME NEW q, IsSchema(q), NEW r
      PROVE  LET t == WithRequired(q, r) IN IsSchema(t) /\ Alike(t, q) /\ t.required = r
  <2> DEFINE o == [x \in DOMAIN q.opts \ {"required"} |-> q.opts[x]]
             p == [q EXCEPT !.required = r]
  <2>1. WithRequired(q, r) = [p EXCEPT !.opts = o]
    BY DEF WithRequired
  <2>2. IsSchema(p) /\ Alike(p, q) /\ p.required = r
    BY <1>2 DEF IsSchema, Alike
  <2> HIDE DEF o, p
  <2>3. LET t == [p EXCEPT !.opts = o] IN IsSchema(t) /\ Alike(t, p) /\ t.required = p.required
    BY <2>2 DEF IsSchema, Alike
  <2> QED
    BY <2>1, <2>2, <2>3 DEF Alike
<1>3. LET t == BeginModel(class, s) IN IsSchema(t) /\ Alike(t, s) /\ t.required = {}
  <2> DEFINE q == SetSchemaValue(s, app.classes[class].rules)
  <2>1. IsSchema(q) /\ Alike(q, s)
    BY <1>1
  <2>2. BeginModel(class, s) = WithRequired(q, {})
    BY Zenon DEF BeginModel
  <2> HIDE DEF q
  <2>3. IsSchema(WithRequired(q, {})) /\ Alike(WithRequired(q, {}), q) /\ WithRequired(q, {}).required = {}
    BY <1>2, <2>1
  <2> QED
    BY <2>1, <2>2, <2>3 DEF Alike
<1>4. LET t == [s EXCEPT !.items = rules] IN IsSchema(t) /\ t.ref = s.ref /\ t.items = rules /\ t.props = s.props
  BY DEF IsSchema
<1> QED
  BY <1>1, <1>2, <1>3, <1>4

PropertiesOf(s, x, props) == [s EXCEPT !.object = x, !.props = props]
LEMMA ObjectSet ==
  ASSUME NEW s, IsSchema(s), NEW x, NEW props
  PROVE  /\ IsSchema(PropertiesOf(s, x, props))
         /\ PropertiesOf(s, x, props).ref = s.ref
         /\ PropertiesOf(s, x, props).items = s.items
         /\ PropertiesOf(s, x, props).props = props
<1> DEFINE q == [ref |-> s.ref, opts |-> s.opts, items |-> s.items,
                 object |-> x, props |-> s.props, required |-> s.required]
<1>1. [s EXCEPT !.object = x] = q
  BY DEF IsSchema
<1>2. [s EXCEPT !.object = x, !.props = props] = [q EXCEPT !.props = props]
  BY <1>1
<1>3. /\ IsSchema(q) /\ q.ref = s.ref /\ q.opts = s.opts /\ q.items = s.items
      /\ q.object = x /\ q.props = s.props /\ q.required = s.required
  BY DEF IsSchema
<1> HIDE DEF q
<1>4. [q EXCEPT !.props = props] = [ref |-> q.ref, opts |-> q.opts, items |-> q.items,
                            object |-> q.object, props |-> props, required |-> q.required]
  BY <1>3 DEF IsSchema
<1>5. PICK t : t = [s EXCEPT !.object = x, !.props = props]
  OBVIOUS
<1>6. t = [ref |-> s.ref, opts |-> s.opts, items |-> s.items,
           object |-> x, props |-> props, required |-> s.required]
  BY <1>2, <1>3, <1>4, <1>5
<1>7. IsSchema(t) /\ t.ref = s.ref /\ t.items = s.items /\ t.props = props
  BY <1>6 DEF IsSchema
<1> QED
  BY <1>5, <1>7, Zenon DEF PropertiesOf

PropsGiven(s, props, names) == [s EXCEPT !.props = props, !.required = names]
LEMMA PropsSet ==
  ASSUME NEW s, IsSchema(s), NEW names, NEW props
  PROVE  LET t == PropsGiven(s, props, names)
         IN IsSchema(t) /\ t.ref = s.ref /\ t.items = s.items /\ t.props = props /\ t.required = names
<1> DEFINE q == [ref |-> s.ref, opts |-> s.opts, items |-> s.items,
                 object |-> s.object, props |-> props, required |-> s.required]
<1>1. [s EXCEPT !.props = props] = q
  BY DEF IsSchema
<1>2. [s EXCEPT !.props = props, !.required = names] = [q EXCEPT !.required = names]
  BY <1>1
<1>3. /\ IsSchema(q) /\ q.ref = s.ref /\ q.opts = s.opts /\ q.items = s.items
      /\ q.object = s.object /\ q.props = props /\ q.required = s.required
  BY DEF IsSchema
<1> HIDE DEF q
<1>4. [q EXCEPT !.required = names] = [ref |-> q.ref, opts |-> q.opts, items |-> q.items,
                            object |-> q.object, props |-> q.props, required |-> names]
  BY <1>3 DEF IsSchema
<1>5. PICK t : t = [s EXCEPT !.props = props, !.required = names]
  OBVIOUS
<1>6. t = [ref |-> s.ref, opts |-> s.opts, items |-> s.items,
           object |-> s.object, props |-> props, required |-> names]
  BY <1>2, <1>3, <1>4, <1>5
<1>7. IsSchema(t) /\ t.ref = s.ref /\ t.items = s.items /\ t.props = props /\ t.required = names
  BY <1>6 DEF IsSchema
<1> QED
  BY <1>5, <1>7, Zenon DEF PropsGiven

-----------------------------------------------------------------------------
(* What a parameter, a property or a body refers to is visited.            *)

\* Calls of setComponentModelSchema, and the classes a list of calls has them for.
IsCall(e) ==
  /\ e = [step |-> "component", class |-> e.class, rules |-> e.rules]
  /\ e.class \in DOMAIN app.classes
Calls(s) == IsList(s) /\ \A e \in ToSet(s) : IsCall(e)
Awaits(s) == {e.class : e \in {x \in ToSet(s) : x.step = "component"}}

LEMMA CallsFacts ==
  ASSUME NEW s, Calls(s)
  PROVE  /\ IsList(s) /\ \A e \in ToSet(s) : e.class \in Awaits(s) /\ e.step = "component" /\ e.class \in DOMAIN app.classes
         /\ \A x : x \in Awaits(s) <=> \E e \in ToSet(s) : x = e.class
<1>1. IsList(s) /\ \A e \in ToSet(s) : e.step = "component" /\ e.class \in DOMAIN app.classes
  BY DEF Calls, IsCall
<1> QED
  BY <1>1 DEF Awaits

LEMMA CallOf ==
  ASSUME NEW class \in DOMAIN app.classes, NEW rules
  PROVE  Calls(<<Component(class, rules)>>) /\ Awaits(<<Component(class, rules)>>) = {class}
<1> DEFINE e == Component(class, rules)
<1>1. e.step = "component" /\ e.class = class /\ IsCall(e)
  BY DEF Component, IsCall
<1> HIDE DEF e
<1>2. IsList(<<e>>) /\ ToSet(<<e>>) = {e}
  BY OneList
<1> QED
  BY <1>1, <1>2 DEF Calls, Awaits, e

LEMMA NoCalls == Calls(<<>>) /\ Awaits(<<>>) = {}
BY EmptyList DEF Calls, Awaits

LEMMA AwaitsJoined ==
  ASSUME NEW s, NEW t, IsList(s), IsList(t)
  PROVE  /\ IsList(s \o t) /\ Awaits(s \o t) = Awaits(s) \cup Awaits(t)
         /\ Calls(s) /\ Calls(t) => Calls(s \o t)
<1>1. IsList(s \o t) /\ ToSet(s \o t) = ToSet(s) \cup ToSet(t)
  BY JoinFacts
<1> DEFINE u == s \o t
<1>2. IsList(u) /\ ToSet(u) = ToSet(s) \cup ToSet(t)
  BY <1>1
<1> HIDE DEF u
<1>3. Awaits(u) = Awaits(s) \cup Awaits(t)
  BY <1>2 DEF Awaits
<1>4. Calls(s) /\ Calls(t) => Calls(u)
  BY <1>2 DEF Calls
<1> QED
  BY <1>2, <1>3, <1>4 DEF u

LEMMA ComponentsFacts ==
  ASSUME NEW classes, IsList(classes), ToSet(classes) \subseteq DOMAIN app.classes
  PROVE  Calls(Components(classes)) /\ Awaits(Components(classes)) = ToSet(classes)
<1> DEFINE n == Len(classes)
           f == [i \in 1 .. n |-> Component(classes[i], <<>>)]
<1>1. /\ n \in Nat /\ DOMAIN classes = 1 .. n /\ \A i \in 1 .. n : classes[i] \in ToSet(classes)
      /\ \A x \in ToSet(classes) : \E i \in 1 .. n : classes[i] = x
  BY ListFacts
<1>2. Components(classes) = f
  BY <1>1 DEF Components
<1>3. f = [i \in 1 .. n |-> f[i]]
  OBVIOUS
<1>4. ASSUME NEW i \in 1 .. n PROVE IsCall(f[i]) /\ f[i].class = classes[i] /\ f[i].step = "component"
  <2>1. f[i] = Component(classes[i], <<>>) /\ classes[i] \in DOMAIN app.classes
    BY <1>1
  <2> HIDE DEF f
  <2> QED
    BY <2>1 DEF Component, IsCall
<1> HIDE DEF f, n
<1>5. IsList(f) /\ ToSet(f) = {f[i] : i \in 1 .. n}
  BY <1>1, <1>3, FunctionIsList
<1>6. Calls(f)
  BY <1>4, <1>5 DEF Calls
<1>7. \A x : x \in Awaits(f) <=> \E i \in 1 .. n : x = f[i].class
  BY <1>5, <1>6, CallsFacts
<1>8. \A x : x \in Awaits(f) <=> x \in ToSet(classes)
  BY <1>1, <1>4, <1>7
<1> QED
  BY <1>2, <1>6, <1>8

LEMMA ClassVisits ==
  ASSUME NEW rules, AreRules(rules), NEW type
  PROVE  /\ Calls(Components(ClassesOf(type, rules)))
         /\ Awaits(Components(ClassesOf(type, rules))) = TypesToldBy(type, rules)
         /\ TypesToldBy(type, rules) \subseteq DOMAIN app.classes
BY ClassesFacts, ComponentsFacts, Zenon DEF TypesToldBy

\* A schema without properties refers to what it is of, or to what it is a list of.
LEMMA PlainRefs ==
  ASSUME NEW s, s.props = <<>>, NEW types, s.ref = None \/ s.ref \in types, s.items.ref = None \/ s.items.ref \in types
  PROVE  RefsIn(s) \subseteq types
<1>1. DOMAIN s.props = {}
  OBVIOUS
<1> QED
  BY <1>1, RefsInFacts

LEMMA NoRefs ==
  ASSUME NEW type
  PROVE  /\ IsSchema(Plain(type)) /\ RefsIn(Plain(type)) = {}
         /\ IsSchema(EmptyModel) /\ RefsIn(EmptyModel) = {}
         /\ IsSchema(Blank) /\ RefsIn(Blank) = {}
<1>1. ASSUME NEW s, s.ref = None, s.items.ref = None, s.props = <<>> PROVE RefsIn(s) = {}
  <2>1. RefsIn(s) \subseteq {}
    <3>1. DOMAIN s.props = {}
      BY <1>1
    <3> QED
      BY <1>1, <3>1, RefsInFacts
  <2> QED
    BY <2>1
<1>2. RefsIn(Plain(type)) = {} /\ IsSchema(Plain(type))
  BY <1>1, SchemasMade, Zenon
<1>3. RefsIn(EmptyModel) = {} /\ IsSchema(EmptyModel)
  BY <1>1, SchemasMade, Zenon
<1>4. RefsIn(Blank) = {} /\ IsSchema(Blank)
  BY <1>1, SchemasMade, Zenon
<1> QED
  BY <1>2, <1>3, <1>4

LEMMA AlikeKept ==
  ASSUME NEW s, IsSchema(s), NEW rules
  PROVE  IsSchema(SetSchemaValue(s, rules)) /\ RefsIn(SetSchemaValue(s, rules)) = RefsIn(s)
<1> DEFINE t == SetSchemaValue(s, rules)
<1>1. IsSchema(t) /\ Alike(t, s)
  BY SchemasChanged, Zenon
<1> QED
  BY <1>1, AlikeRefs, Zenon

LEMMA TypeTold ==
  ASSUME app \in Apps, NEW rules, AreRules(rules), NEW type
  PROVE  /\ IsClass(type) => TypesToldBy(type, rules) = {type} /\ type # "Array"
         /\ type = "Array" => /\ TypesToldBy(type, rules) = ToSet(ItemClasses(rules))
                              /\ ItemsOf(rules).ref = None \/ ItemsOf(rules).ref \in TypesToldBy(type, rules)
         /\ type # "Array" /\ ~IsClass(type) => TypesToldBy(type, rules) = {}
<1>1. ~IsClass("Array")
  BY AppFacts
<1>2. ASSUME IsClass(type) PROVE TypesToldBy(type, rules) = {type} /\ type # "Array"
  <2>1. type # "Array" /\ ClassesOf(type, rules) = <<type>>
    BY <1>1, <1>2 DEF ClassesOf
  <2> QED
    BY <2>1, OneList DEF TypesToldBy
<1>3. ASSUME type = "Array" PROVE TypesToldBy(type, rules) = ToSet(ItemClasses(rules))
  BY <1>3 DEF TypesToldBy, ClassesOf
<1>4. ASSUME type # "Array", ~IsClass(type) PROVE TypesToldBy(type, rules) = {}
  <2>1. ClassesOf(type, rules) = <<>>
    BY <1>4 DEF ClassesOf
  <2> QED
    BY <2>1, EmptyList DEF TypesToldBy
<1>5. ItemsOf(rules).ref = None \/ ItemsOf(rules).ref \in ToSet(ItemClasses(rules))
  BY ItemsFacts
<1> QED
  BY <1>2, <1>3, <1>4, <1>5

LEMMA PropertyFacts ==
  ASSUME app \in Apps, NEW rules, AreRules(rules), NEW type
  PROVE  LET p == ModelProperty(type, rules)
         IN /\ IsSchema(p)
            /\ p.ref = None \/ p.ref \in TypesToldBy(type, rules)
            /\ p.items.ref = None \/ p.items.ref \in TypesToldBy(type, rules)
<1> DEFINE p == ModelProperty(type, rules)
           s == Plain(type)
<1>1. IsSchema(s) /\ s.ref = None /\ s.items.ref = None
  BY SchemasMade
<1>2. CASE type = "Array"
  <2>1. p = [s EXCEPT !.items = ItemsOf(rules)]
    BY <1>2 DEF ModelProperty
  <2> HIDE DEF p, s
  <2>2. IsSchema(p) /\ p.ref = s.ref /\ p.items = ItemsOf(rules)
    BY <1>1, <2>1, SchemasChanged
  <2> QED
    BY <1>1, <1>2, <2>2, TypeTold DEF p
<1>3. CASE IsClass(type)
  <2>1. TypesToldBy(type, rules) = {type} /\ type # "Array"
    BY <1>3, TypeTold
  <2>2. p = RefTo(type)
    BY <1>3, <2>1 DEF ModelProperty
  <2> QED
    BY <2>1, <2>2, SchemasMade
<1>4. CASE type # "Array" /\ ~IsClass(type)
  <2>1. p = SetSchemaValue(s, rules)
    BY <1>4 DEF ModelProperty
  <2> HIDE DEF p, s
  <2>2. IsSchema(p) /\ Alike(p, s)
    BY <1>1, <2>1, SchemasChanged
  <2> QED
    BY <1>1, <2>2 DEF Alike, p
<1> QED
  BY <1>2, <1>3, <1>4

\* A set of classes that the members told refer to, and those they refer to, and so on.
Saturated(classes) == \A class \in classes : Successors(class) \subseteq classes

LEMMA ToldFacts ==
  ASSUME app \in Apps, NEW class, IsClass(class)
  PROVE  /\ IsList(Told(MembersOf(class)))
         /\ ToSet(Told(MembersOf(class))) = {m \in ToSet(MembersOf(class)) : ~ExistIgnore(m.rules)}
         /\ \A m \in ToSet(Told(MembersOf(class))) :
              AreRules(m.rules) /\ TypesToldBy(m.type, m.rules) \subseteq Successors(class)
<1> DEFINE members == MembersOf(class)
           good == {m \in ToSet(members) : ~ExistIgnore(m.rules)}
<1>1. IsList(members) /\ \A m \in ToSet(members) : AreRules(m.rules)
  BY AppFacts, Zenon DEF IsClass
<1> HIDE DEF members
<1>2. IsList(Only(members, good)) /\ ToSet(Only(members, good)) = ToSet(members) \cap good
  BY <1>1, FilterFacts, Zenon
<1>3. Told(members) = Only(members, good)
  BY Zenon DEF Told
<1>4. Successors(class) = UNION {TypesToldBy(m.type, m.rules) : m \in ToSet(Told(members))}
  BY Zenon DEF Successors, members, MembersOf
<1>5. ToSet(Told(members)) = good
  BY <1>2, <1>3
<1>6. ASSUME NEW m \in ToSet(Told(members)) PROVE TypesToldBy(m.type, m.rules) \subseteq Successors(class)
  BY <1>4
<1>7. ASSUME NEW m \in ToSet(Told(members)) PROVE AreRules(m.rules)
  BY <1>1, <1>5
<1> QED
  BY <1>2, <1>3, <1>5, <1>6, <1>7 DEF members

LEMMA ParameterFacts ==
  ASSUME app \in Apps, NEW rules, AreRules(rules), NEW type, NEW property, NEW in
  PROVE  /\ Calls(ParameterVisits(rules, type)) /\ Awaits(ParameterVisits(rules, type)) = TypesToldBy(type, rules)
         /\ RefsIn(CreateParameter(property, in, rules, type).schema) \subseteq TypesToldBy(type, rules)
<1> DEFINE visits == ParameterVisits(rules, type)
           s == SetSchemaValue(Plain(type), rules)
           schema == CreateParameter(property, in, rules, type).schema
           told == TypesToldBy(type, rules)
<1>1. schema = IF IsClass(type) THEN RefTo(type) ELSE [s EXCEPT !.items = IF type = "Array" THEN ItemsOf(rules) ELSE @]
  BY DEF CreateParameter
<1>2. IsSchema(s) /\ s.ref = None /\ s.items.ref = None /\ s.props = <<>>
  <2> DEFINE p == Plain(type)
  <2>1. IsSchema(p) /\ p.ref = None /\ p.items.ref = None /\ p.props = <<>>
    BY SchemasMade
  <2> HIDE DEF p
  <2>2. IsSchema(SetSchemaValue(p, rules)) /\ Alike(SetSchemaValue(p, rules), p)
    BY <2>1, SchemasChanged
  <2> QED
    BY <2>1, <2>2 DEF Alike, p
<1> HIDE DEF s, schema
<1>3. CASE IsClass(type)
  <2>1. visits = <<Component(type, rules)>> /\ told = {type} /\ type \in DOMAIN app.classes
    BY <1>3, TypeTold DEF ParameterVisits, IsClass
  <2>2. Calls(visits) /\ Awaits(visits) = told
    BY <2>1, CallOf, Zenon
  <2>3. schema.ref = type /\ schema.items.ref = None /\ schema.props = <<>>
    BY <1>1, <1>3, SchemasMade
  <2>4. RefsIn(schema) \subseteq told
    BY <2>1, <2>3, PlainRefs
  <2> QED
    BY <2>2, <2>4 DEF schema
<1>4. CASE type = "Array"
  <2>1. ~IsClass(type) /\ told = ToSet(ItemClasses(rules)) /\ (ItemsOf(rules).ref = None \/ ItemsOf(rules).ref \in told)
    BY <1>4, TypeTold
  <2>2. visits = Components(ItemClasses(rules))
    BY <1>4, <2>1 DEF ParameterVisits
  <2>3. Calls(visits) /\ Awaits(visits) = told
    BY <2>1, <2>2, ItemsFacts, ComponentsFacts, Zenon
  <2>4. schema = [s EXCEPT !.items = ItemsOf(rules)]
    BY <1>1, <1>4, <2>1
  <2>5. schema.ref = s.ref /\ schema.items = ItemsOf(rules) /\ schema.props = s.props
    BY <1>2, <2>4, SchemasChanged
  <2>6. schema.ref = None /\ (schema.items.ref = None \/ schema.items.ref \in told) /\ schema.props = <<>>
    BY <1>2, <2>1, <2>5
  <2>7. RefsIn(schema) \subseteq told
    BY <2>6, PlainRefs
  <2> QED
    BY <2>3, <2>7 DEF schema
<1>5. CASE type # "Array" /\ ~IsClass(type)
  <2>1. visits = <<>> /\ told = {}
    BY <1>5, TypeTold DEF ParameterVisits
  <2>2. Calls(visits) /\ Awaits(visits) = told
    BY <2>1, NoCalls
  <2>3. schema = s
    BY <1>1, <1>2, <1>5 DEF IsSchema
  <2>4. RefsIn(schema) \subseteq told
    BY <1>2, <2>3, PlainRefs
  <2> QED
    BY <2>2, <2>4 DEF schema
<1> QED
  BY <1>3, <1>4, <1>5

\* The parameters of the members of a class, and the calls they need.
LEMMA MemberParameters ==
  ASSUME app \in Apps, NEW class, IsClass(class), NEW in
  PROVE  LET members == Told(MembersOf(class))
             visits == FlattenSeq([i \in DOMAIN members |-> ParameterVisits(members[i].rules, members[i].type)])
             params == [i \in DOMAIN members |->
                          CreateParameter(members[i].name, in, members[i].rules, members[i].type)]
         IN /\ Calls(visits) /\ Awaits(visits) \subseteq Successors(class)
            /\ IsList(params) /\ \A i \in DOMAIN params : RefsIn(params[i].schema) \subseteq Awaits(visits)
<1> DEFINE members == Told(MembersOf(class))
           n == Len(members)
           f == [i \in 1 .. n |-> ParameterVisits(members[i].rules, members[i].type)]
           params == [i \in 1 .. n |-> CreateParameter(members[i].name, in, members[i].rules, members[i].type)]
<1>1. /\ IsList(members)
      /\ \A m \in ToSet(members) : AreRules(m.rules) /\ TypesToldBy(m.type, m.rules) \subseteq Successors(class)
  BY ToldFacts
<1> HIDE DEF members
<1>2. n \in Nat /\ DOMAIN members = 1 .. n /\ \A i \in 1 .. n : members[i] \in ToSet(members)
  BY <1>1, ListFacts
<1>3. ASSUME NEW i \in 1 .. n
      PROVE  /\ Calls(f[i]) /\ Awaits(f[i]) \subseteq Successors(class)
             /\ RefsIn(params[i].schema) \subseteq Awaits(f[i])
  <2> DEFINE m == members[i]
  <2>1. AreRules(m.rules) /\ TypesToldBy(m.type, m.rules) \subseteq Successors(class)
    BY <1>1, <1>2
  <2>2. f[i] = ParameterVisits(m.rules, m.type) /\ params[i] = CreateParameter(m.name, in, m.rules, m.type)
    OBVIOUS
  <2> HIDE DEF m, f, params
  <2>3. /\ Calls(f[i]) /\ Awaits(f[i]) = TypesToldBy(m.type, m.rules)
        /\ RefsIn(params[i].schema) \subseteq TypesToldBy(m.type, m.rules)
    BY <2>1, <2>2, ParameterFacts
  <2> QED
    BY <2>1, <2>3
<1>4. f = [i \in 1 .. n |-> f[i]] /\ params = [i \in 1 .. n |-> params[i]]
  OBVIOUS
<1>5. \A i \in 1 .. n : IsList(f[i])
  BY <1>3 DEF Calls
<1> DEFINE visits == FlattenSeq(f)
<1>6. visits = FlattenSeq([i \in DOMAIN members |-> ParameterVisits(members[i].rules, members[i].type)])
  BY <1>2
<1>7. params = [i \in DOMAIN members |-> CreateParameter(members[i].name, in, members[i].rules, members[i].type)]
  BY <1>2
<1> HIDE DEF f, params, n
<1>8. IsList(visits) /\ ToSet(visits) = UNION {ToSet(f[i]) : i \in 1 .. n}
  BY <1>2, <1>4, <1>5, JoinAllFacts
<1> HIDE DEF visits
<1>9. \A e \in ToSet(visits) : \E i \in 1 .. n : e \in ToSet(f[i])
  BY <1>8
<1>10. \A i \in 1 .. n : \A e \in ToSet(f[i]) : e \in ToSet(visits)
  BY <1>8
<1>11. Calls(visits)
  BY <1>3, <1>8, <1>9, Zenon DEF Calls
<1>12. \A i \in 1 .. n : Awaits(f[i]) \subseteq Awaits(visits)
  BY <1>10, Zenon DEF Awaits
<1>13. Awaits(visits) \subseteq Successors(class)
  <2> SUFFICES ASSUME NEW x \in Awaits(visits) PROVE x \in Successors(class)
    OBVIOUS
  <2>1. PICK e \in ToSet(visits) : x = e.class
    BY <1>11, CallsFacts
  <2>2. PICK i \in 1 .. n : e \in ToSet(f[i])
    BY <1>9
  <2>3. x \in Awaits(f[i])
    BY <1>3, <2>1, <2>2, CallsFacts
  <2> QED
    BY <1>3, <2>3
<1>14. IsList(params) /\ DOMAIN params = 1 .. n
  BY <1>2, <1>4, FunctionIsList
<1>15. \A i \in DOMAIN params : RefsIn(params[i].schema) \subseteq Awaits(visits)
  BY <1>3, <1>12, <1>14
<1> QED
  BY <1>6, <1>7, <1>11, <1>13, <1>14, <1>15 DEF members

LEMMA RecordParameters ==
  ASSUME app \in Apps, NEW r, AreRules(r.rules)
  PROVE  /\ IsList(ParametersOf(r)) /\ Calls(VisitsOfParam(r))
         /\ \A i \in DOMAIN ParametersOf(r) : RefsIn(ParametersOf(r)[i].schema) \subseteq Awaits(VisitsOfParam(r))
         /\ r.type # "body" => Exchanged(r) \subseteq Awaits(VisitsOfParam(r))
         /\ r.type # "body" => \A classes : Exchanged(r) \subseteq classes /\ Saturated(classes) =>
              Awaits(VisitsOfParam(r)) \subseteq classes
<1> DEFINE visits == VisitsOfParam(r)
           params == ParametersOf(r)
<1>1. CASE r.property # None
  <2> DEFINE p == CreateParameter(r.property, r.type, r.rules, r.key)
  <2>1. visits = ParameterVisits(r.rules, r.key) /\ params = <<p>>
    BY <1>1, Zenon DEF VisitsOfParam, ParametersOf
  <2> HIDE DEF visits, params
  <2>2. /\ Calls(visits) /\ Awaits(visits) = TypesToldBy(r.key, r.rules)
        /\ RefsIn(p.schema) \subseteq TypesToldBy(r.key, r.rules)
    BY <2>1, ParameterFacts
  <2> HIDE DEF p
  <2>3. IsList(params) /\ \A i \in DOMAIN params : params[i] = p
    BY <2>1, OneList
  <2>4. r.type # "body" => Exchanged(r) = TypesToldBy(r.key, r.rules)
    BY <1>1 DEF Exchanged
  <2> QED
    BY <2>2, <2>3, <2>4 DEF visits, params
<1>2. CASE r.property = None /\ IsClass(r.key)
  <2> DEFINE members == Told(MembersOf(r.key))
             rest == FlattenSeq([i \in DOMAIN members |-> ParameterVisits(members[i].rules, members[i].type)])
             ps == [i \in DOMAIN members |->
                      CreateParameter(members[i].name, r.type, members[i].rules, members[i].type)]
             first == <<Component(r.key, <<>>)>>
  <2>1. visits = first \o rest /\ params = ps
    BY <1>2, Zenon DEF VisitsOfParam, ParametersOf, MembersOf
  <2>2. /\ Calls(rest) /\ Awaits(rest) \subseteq Successors(r.key)
        /\ IsList(ps) /\ \A i \in DOMAIN ps : RefsIn(ps[i].schema) \subseteq Awaits(rest)
    BY <1>2, MemberParameters
  <2>3. Calls(first) /\ Awaits(first) = {r.key}
    BY <1>2, CallOf DEF IsClass
  <2> HIDE DEF rest, ps, first, visits, params
  <2>4. Calls(visits) /\ Awaits(visits) = {r.key} \cup Awaits(rest)
    BY <2>1, <2>2, <2>3, AwaitsJoined DEF Calls
  <2>5. r.type # "body" => Exchanged(r) = {r.key}
    BY <1>2, TypeTold DEF Exchanged
  <2>6. \A classes : {r.key} \subseteq classes /\ Saturated(classes) => Awaits(visits) \subseteq classes
    BY <2>2, <2>4 DEF Saturated
  <2>7. \A i \in DOMAIN params : RefsIn(params[i].schema) \subseteq Awaits(visits)
    BY <2>1, <2>2, <2>4
  <2>8. IsList(params)
    BY <2>1, <2>2
  <2> QED
    BY <2>4, <2>5, <2>6, <2>7, <2>8 DEF visits, params
<1>3. CASE r.property = None /\ ~IsClass(r.key)
  <2>1. visits = <<>> /\ params = <<>>
    BY <1>3, Zenon DEF VisitsOfParam, ParametersOf
  <2>2. r.type # "body" => Exchanged(r) = {}
    <3>1. CASE r.key = "Array"
      <4>1. None # "Array" /\ ~IsClass(None)
        BY AppFacts DEF None
      <4>2. TypesToldBy(None, r.rules) = {}
        BY <4>1, TypeTold
      <4> QED
        BY <1>3, <3>1, <4>2 DEF Exchanged
    <3>2. CASE r.key # "Array"
      <4>1. TypesToldBy(r.key, r.rules) = {}
        BY <1>3, <3>2, TypeTold
      <4> QED
        BY <1>3, <3>2, <4>1 DEF Exchanged
    <3> QED
      BY <3>1, <3>2
  <2>3. DOMAIN params = {}
    BY <2>1
  <2> QED
    BY <2>1, <2>2, <2>3, NoCalls, EmptyList
<1> QED
  BY <1>1, <1>2, <1>3

\* A call of setModelSchema for a body's schema.
IsBodyCall(e, into) ==
  e = [step |-> "body", class |-> e.class, into |-> e.into] /\ e.into = into /\ e.class \in DOMAIN app.classes

LEMMA BodyRefs ==
  ASSUME app \in Apps, NEW r, AreRules(r.rules), NEW old, IsSchema(old), NEW into
  PROVE  /\ IsSchema(BodySchema(r, old))
         /\ RefsIn(BodySchema(r, old)) \subseteq RefsIn(old) \cup Awaits(VisitsOfBody(r, into))
         /\ IsList(VisitsOfBody(r, into))
         /\ \A e \in ToSet(VisitsOfBody(r, into)) : IsCall(e) \/ IsBodyCall(e, into)
         /\ r.type = "body" => Exchanged(r) \subseteq Awaits(VisitsOfBody(r, into))
         /\ r.type = "body" => \A e \in ToSet(VisitsOfBody(r, into)) : e.class \in Exchanged(r)
<1> DEFINE schema == BodySchema(r, old)
           visits == VisitsOfBody(r, into)
<1>1. ASSUME NEW v, Calls(v)
      PROVE  /\ IsList(v) /\ \A e \in ToSet(v) : e.class \in Awaits(v) /\ (IsCall(e) \/ IsBodyCall(e, into))
  BY <1>1, CallsFacts DEF Calls
<1>2. CASE r.property # None
  <2> DEFINE told == TypesToldBy(r.member, r.rules)
             prop == ModelProperty(r.member, r.rules)
             base == IF old = Blank THEN Plain("Object") ELSE old
             props == With(base.props, r.property, prop)
             s == [base EXCEPT !.object = TRUE, !.props = props]
  <2>1. schema = WithRequired(s, NotNull(props)) /\ visits = Components(ClassesOf(r.member, r.rules))
    BY <1>2, Zenon DEF BodySchema, VisitsOfBody
  <2>2. Calls(visits) /\ Awaits(visits) = told
    BY <2>1, ClassVisits, Zenon
  <2>3. (prop.ref = None \/ prop.ref \in told) /\ (prop.items.ref = None \/ prop.items.ref \in told)
    BY PropertyFacts, Zenon
  <2>4. IsSchema(base) /\ RefsIn(base) \subseteq RefsIn(old)
    BY NoRefs
  <2> HIDE DEF base
  <2>5. DOMAIN props = {r.property} \cup DOMAIN base.props
        /\ \A p \in DOMAIN props : props[p] = prop \/ (p \in DOMAIN base.props /\ props[p] = base.props[p])
    <3> HIDE DEF prop
    <3> QED
      BY DEF With
  <2> HIDE DEF props, prop, told
  <2>6. IsSchema(s) /\ s.ref = base.ref /\ s.items = base.items /\ s.props = props
    <3>1. PICK yes : yes = TRUE
      OBVIOUS
    <3>2. s = PropertiesOf(base, yes, props)
      BY <3>1 DEF PropertiesOf
    <3> HIDE DEF s
    <3>3. /\ IsSchema(PropertiesOf(base, yes, props)) /\ PropertiesOf(base, yes, props).ref = base.ref
          /\ PropertiesOf(base, yes, props).items = base.items /\ PropertiesOf(base, yes, props).props = props
      BY <2>4, ObjectSet
    <3> QED
      BY <3>2, <3>3
  <2> HIDE DEF s
  <2>7. IsSchema(schema) /\ Alike(schema, s)
    <3>1. IsSchema(WithRequired(s, NotNull(props))) /\ Alike(WithRequired(s, NotNull(props)), s)
      BY <2>6, SchemasChanged
    <3> QED
      BY <2>1, <3>1
  <2>8. RefsIn(s) \subseteq RefsIn(old) \cup told
    <3> SUFFICES ASSUME NEW x \in RefsIn(s) PROVE x \in RefsIn(base) \/ x \in told
      BY <2>4
    <3>1. /\ x # None
          /\ \/ x = s.ref \/ x = s.items.ref
             \/ \E p \in DOMAIN s.props : x = s.props[p].ref \/ x = s.props[p].items.ref
      BY RefsInFacts
    <3>2. CASE x = s.ref \/ x = s.items.ref
      BY <2>6, <3>1, <3>2, RefsInFacts
    <3>3. CASE \E p \in DOMAIN s.props : x = s.props[p].ref \/ x = s.props[p].items.ref
      <4>1. PICK p \in DOMAIN props : x = props[p].ref \/ x = props[p].items.ref
        BY <2>6, <3>3
      <4>2. CASE props[p] = prop
        BY <2>3, <3>1, <4>1, <4>2
      <4>3. CASE p \in DOMAIN base.props /\ props[p] = base.props[p]
        BY <3>1, <4>1, <4>3, RefsInFacts
      <4> QED
        BY <2>5, <4>2, <4>3
    <3> QED
      BY <3>1, <3>2, <3>3
  <2>9. RefsIn(schema) \subseteq RefsIn(old) \cup Awaits(visits)
    BY <2>2, <2>7, <2>8, AlikeRefs
  <2>10. r.type = "body" => Exchanged(r) = told
    BY <1>2 DEF Exchanged, told
  <2> HIDE DEF schema, visits
  <2>11. r.type = "body" => \A e \in ToSet(visits) : e.class \in Exchanged(r)
    BY <1>1, <2>2, <2>10
  <2>12. IsList(visits) /\ \A e \in ToSet(visits) : IsCall(e) \/ IsBodyCall(e, into)
    BY <1>1, <2>2
  <2> QED
    BY <2>2, <2>7, <2>9, <2>10, <2>11, <2>12 DEF schema, visits
<1>3. CASE r.property = None /\ IsClass(r.key)
  <2> DEFINE base == IF old = Blank THEN EmptyModel ELSE old
             body == [step |-> "body", class |-> r.key, into |-> into]
             call == Component(r.key, r.rules)
  <2>1. r.key # "Array" /\ r.key \in DOMAIN app.classes
    BY <1>3, AppFacts DEF IsClass
  <2>2. schema = SetSchemaValue(base, r.rules) /\ visits = <<call, body>>
    BY <1>3, <2>1 DEF BodySchema, VisitsOfBody
  <2>3. IsSchema(base) /\ RefsIn(base) \subseteq RefsIn(old)
    BY NoRefs
  <2> HIDE DEF base
  <2>4. IsSchema(schema) /\ RefsIn(schema) = RefsIn(base)
    BY <2>2, <2>3, AlikeKept
  <2>5. IsBodyCall(body, into) /\ body.class = r.key
    BY <2>1 DEF IsBodyCall
  <2>6. IsCall(call) /\ call.class = r.key /\ call.step = "component"
    BY <2>1 DEF IsCall, Component
  <2> HIDE DEF call, body
  <2>7. IsList(<<call, body>>) /\ ToSet(<<call, body>>) = {call, body}
    BY TwoList
  <2>8. r.key \in Awaits(visits)
    BY <2>2, <2>6, <2>7 DEF Awaits
  <2>9. r.type = "body" => Exchanged(r) = {r.key}
    BY <1>3, TypeTold DEF Exchanged
  <2> HIDE DEF visits, schema
  <2>10. IsList(visits) /\ \A e \in ToSet(visits) : IsCall(e) \/ IsBodyCall(e, into)
    BY <2>2, <2>5, <2>6, <2>7
  <2>11. \A e \in ToSet(visits) : e.class = r.key
    BY <2>2, <2>5, <2>6, <2>7
  <2> QED
    BY <2>3, <2>4, <2>8, <2>9, <2>10, <2>11 DEF visits, schema
<1>4. CASE r.property = None /\ ~IsClass(r.key)
  <2> DEFINE told == TypesToldBy(r.key, r.rules)
  <2>1. visits = Components(ClassesOf(r.key, r.rules))
    BY <1>4 DEF VisitsOfBody
  <2>2. Calls(visits) /\ Awaits(visits) = told
    BY <2>1, ClassVisits, Zenon
  <2>3. IsSchema(schema) /\ RefsIn(schema) \subseteq RefsIn(old) \cup told
    <3>1. CASE r.key = "Array"
      <4> DEFINE p == Plain("Array")
                 q == SetSchemaValue(p, r.rules)
      <4>1. IsSchema(p) /\ p.ref = None /\ p.items.ref = None /\ p.props = <<>>
        BY SchemasMade
      <4>2. schema = [q EXCEPT !.items = ItemsOf(r.rules)]
        BY <1>4, <3>1, Zenon DEF BodySchema
      <4> HIDE DEF p
      <4>3. IsSchema(q) /\ q.ref = None /\ q.props = <<>>
        <5>1. IsSchema(q) /\ Alike(q, p)
          BY <4>1, SchemasChanged, Zenon
        <5> QED
          BY <4>1, <5>1 DEF Alike
      <4> HIDE DEF q, schema
      <4>4. IsSchema(schema) /\ schema.ref = None /\ schema.items = ItemsOf(r.rules) /\ schema.props = <<>>
        BY <4>2, <4>3 DEF IsSchema
      <4>5. ItemsOf(r.rules).ref = None \/ ItemsOf(r.rules).ref \in told
        BY <3>1, TypeTold
      <4>6. RefsIn(schema) \subseteq told
        BY <4>4, <4>5, PlainRefs
      <4> QED
        BY <4>4, <4>6 DEF schema
    <3>2. CASE r.key # "Array"
      <4> DEFINE base == IF old = Blank THEN Plain(r.key) ELSE old
      <4>1. schema = SetSchemaValue(base, r.rules)
        BY <1>4, <3>2 DEF BodySchema
      <4>2. IsSchema(base) /\ RefsIn(base) \subseteq RefsIn(old)
        BY NoRefs
      <4> HIDE DEF base
      <4>3. IsSchema(schema) /\ RefsIn(schema) = RefsIn(base)
        BY <4>1, <4>2, AlikeKept
      <4> QED
        BY <4>2, <4>3
    <3> QED
      BY <3>1, <3>2
  <2>4. r.type = "body" => Exchanged(r) = told
    BY <1>4 DEF Exchanged
  <2> HIDE DEF visits, schema, told
  <2>5. IsList(visits) /\ \A e \in ToSet(visits) : e.class \in told /\ (IsCall(e) \/ IsBodyCall(e, into))
    BY <1>1, <2>2
  <2> QED
    BY <2>2, <2>3, <2>4, <2>5 DEF visits, schema
<1> QED
  BY <1>2, <1>3, <1>4

LEMMA ContentRefs ==
  ASSUME NEW v, IsList(v.args), v.args # <<>>, NEW types, \A x \in ToSet(v.args) : IsClass(x) => x \in types
  PROVE  RefsIn(ContentSchema(v)) \subseteq types
<1>1. Last(v.args) \in ToSet(v.args) /\ v.args[1] \in ToSet(v.args)
  BY LastFacts
<1> DEFINE schema == ContentSchema(v)
<1>2. CASE v.nested
  <2> DEFINE p == Plain("Array")
             items == ParseArraySchema(v.args, FALSE)
  <2>1. IsSchema(p) /\ p.ref = None /\ p.props = <<>>
    BY SchemasMade
  <2>2. schema = [p EXCEPT !.items = items]
    BY <1>2, Zenon DEF ContentSchema
  <2>3. items.ref = None \/ items.ref \in types
    BY <1>1 DEF ParseArraySchema
  <2> HIDE DEF p, items, schema
  <2>4. schema.ref = None /\ schema.items = items /\ schema.props = <<>>
    BY <2>1, <2>2 DEF IsSchema
  <2> QED
    BY <2>3, <2>4, PlainRefs DEF schema
<1>3. CASE ~v.nested /\ IsClass(v.args[1])
  <2> DEFINE class == v.args[1]
  <2>1. schema = RefTo(class)
    BY <1>3, Zenon DEF ContentSchema
  <2>2. class \in types
    BY <1>1, <1>3
  <2> HIDE DEF schema, class
  <2>3. schema.ref = class /\ schema.items.ref = None /\ schema.props = <<>>
    BY <2>1, SchemasMade
  <2> QED
    BY <2>2, <2>3, PlainRefs DEF schema
<1>4. CASE ~v.nested /\ ~IsClass(v.args[1])
  <2>1. schema = Blank
    BY <1>4, Zenon DEF ContentSchema
  <2> QED
    BY <2>1, NoRefs
<1> QED
  BY <1>2, <1>3, <1>4

\* Whatever a response's content refers to is visited with the operation.
LEMMA ResponseRefs ==
  ASSUME app \in Apps, NEW rules, AreRules(rules)
  PROVE  /\ Calls(Components(ResponseClasses(rules)))
         /\ Awaits(Components(ResponseClasses(rules))) = ToSet(ResponseClasses(rules))
         /\ ToSet(ResponseClasses(rules)) \subseteq DOMAIN app.classes
         /\ \A code \in DOMAIN ResponsesOf(rules) : \A type \in DOMAIN ResponsesOf(rules)[code].content :
              RefsIn(ResponsesOf(rules)[code].content[type]) \subseteq ToSet(ResponseClasses(rules))
<1> DEFINE classes == ResponseClasses(rules)
<1>1. /\ IsList(classes) /\ ToSet(classes) \subseteq DOMAIN app.classes
      /\ \A v \in ToSet(rules) : \A x \in ToSet(v.args) :
           v.name = "Response" /\ IsClass(x) => x \in ToSet(classes)
  BY NamedClasses, Zenon DEF ResponseClasses
<1>2. Calls(Components(classes)) /\ Awaits(Components(classes)) = ToSet(classes)
  BY <1>1, ComponentsFacts, Zenon
<1> HIDE DEF classes
<1>3. ASSUME NEW code \in DOMAIN ResponsesOf(rules), NEW type \in DOMAIN ResponsesOf(rules)[code].content
      PROVE  RefsIn(ResponsesOf(rules)[code].content[type]) \subseteq ToSet(classes)
  <2> DEFINE bodies == OfCode(rules, "Response", code)
             content == ResponsesOf(rules)[code].content
             named == GetNamedValidates(rules, "Response")
             types == ToSet(ContentTypes(rules, "ResponseContentTypes"))
  <2>1. ResponsesOf(rules)[code] = ResponseObject(rules, code)
    BY <1>3 DEF ResponsesOf
  <2>2. content = IF bodies = <<>> THEN <<>> ELSE [t \in types |-> ContentSchema(Last(bodies))]
    <3>1. ResponseObject(rules, code).content = IF bodies = <<>> THEN <<>> ELSE [t \in types |-> ContentSchema(Last(bodies))]
      <4> HIDE DEF types
      <4> QED
        BY DEF ResponseObject, types
    <3> QED
      BY <2>1, <3>1
  <2>3. IsList(named) /\ ToSet(named) = {v \in ToSet(rules) : v.name = "Response"}
        /\ \A v \in ToSet(rules) : IsList(v.args) /\ (v.name = "Response" => v.args # <<>>)
    BY NamedFacts
  <2>4. bodies = Only(named, {v \in ToSet(rules) : v.code = code})
    BY Zenon DEF OfCode
  <2> HIDE DEF bodies, named, content, types
  <2>5. IsList(bodies) /\ ToSet(bodies) \subseteq ToSet(named)
    BY <2>3, <2>4, FilterFacts
  <2>6. bodies # <<>>
    BY <1>3, <2>2 DEF content
  <2> DEFINE v == Last(bodies)
  <2>7. v \in ToSet(rules) /\ v.name = "Response"
    BY <2>3, <2>5, <2>6, LastFacts
  <2>8. content[type] = ContentSchema(v)
    BY <1>3, <2>2, <2>6 DEF content
  <2> HIDE DEF v
  <2>9. RefsIn(ContentSchema(v)) \subseteq ToSet(classes)
    BY <1>1, <2>3, <2>7, ContentRefs
  <2>10. RefsIn(content[type]) \subseteq ToSet(classes)
    BY <2>8, <2>9
  <2> QED
    BY <2>10 DEF content
<1> QED
  BY <1>1, <1>2, <1>3 DEF classes

-----------------------------------------------------------------------------
(* The operations to parse are those of the routes that name a method.     *)

LEMMA OperationsFacts ==
  ASSUME NEW route, IsList(route.methods)
  PROVE  /\ IsList(Operations(route))
         /\ \A o \in ToSet(Operations(route)) : o.action = route.action /\ route.methods # <<>>
         /\ route.methods # <<>> => \E o \in ToSet(Operations(route)) : o.action = route.action
<1> DEFINE n == Len(route.methods)
           f == [i \in 1 .. n |-> [url |-> route.url, method |-> route.methods[i], action |-> route.action]]
<1>1. n \in Nat /\ DOMAIN route.methods = 1 .. n /\ (route.methods = <<>> <=> n = 0)
  BY ListFacts
<1>2. Operations(route) = f
  BY <1>1 DEF Operations
<1>3. f = [i \in 1 .. n |-> f[i]] /\ \A i \in 1 .. n : f[i].action = route.action
  OBVIOUS
<1> HIDE DEF f, n
<1>4. IsList(f) /\ ToSet(f) = {f[i] : i \in 1 .. n}
  BY <1>1, <1>3, FunctionIsList
<1>5. \A i \in 1 .. n : n # 0
  BY <1>1
<1>6. n # 0 => 1 \in 1 .. n
  BY <1>1
<1>7. \A o \in ToSet(f) : o.action = route.action /\ route.methods # <<>>
  BY <1>1, <1>3, <1>4, <1>5
<1>8. route.methods # <<>> => \E o \in ToSet(f) : o.action = route.action
  BY <1>1, <1>3, <1>4, <1>6
<1> QED
  BY <1>2, <1>4, <1>7, <1>8

LEMMA OperationsAtFacts ==
  ASSUME app \in Apps, NEW url
  PROVE  /\ IsList(OperationsAt(url))
         /\ \A o \in ToSet(OperationsAt(url)) :
              \E route \in ToSet(app.routes) : route.methods # <<>> /\ route.action = o.action
         /\ \A route \in ToSet(app.routes) :
              route.url = url /\ route.methods # <<>> => \E o \in ToSet(OperationsAt(url)) : o.action = route.action
<1> DEFINE routes == app.routes
           n == Len(routes)
           f == [i \in 1 .. n |-> IF routes[i].url = url THEN Operations(routes[i]) ELSE <<>>]
<1>1. IsList(routes) /\ \A route \in ToSet(routes) : IsList(route.methods)
  BY AppFacts
<1>2. /\ n \in Nat /\ DOMAIN routes = 1 .. n /\ \A i \in 1 .. n : routes[i] \in ToSet(routes)
      /\ \A x \in ToSet(routes) : \E i \in 1 .. n : routes[i] = x
  <2> HIDE DEF routes
  <2> QED
    BY <1>1, ListFacts
<1>3. OperationsAt(url) = FlattenSeq(f)
  BY <1>2 DEF OperationsAt
<1>4. f = [i \in 1 .. n |-> f[i]]
      /\ \A i \in 1 .. n : f[i] = IF routes[i].url = url THEN Operations(routes[i]) ELSE <<>>
  OBVIOUS
<1> HIDE DEF f, n, routes
<1>5. \A i \in 1 .. n : IsList(f[i])
  BY <1>1, <1>2, <1>4, OperationsFacts, EmptyList
<1>6. IsList(FlattenSeq(f)) /\ ToSet(FlattenSeq(f)) = UNION {ToSet(f[i]) : i \in 1 .. n}
  BY <1>2, <1>4, <1>5, JoinAllFacts
<1>7. ASSUME NEW o \in ToSet(FlattenSeq(f))
      PROVE  \E route \in ToSet(routes) : route.methods # <<>> /\ route.action = o.action
  <2>1. PICK i \in 1 .. n : o \in ToSet(f[i])
    BY <1>6
  <2>2. o \in ToSet(Operations(routes[i]))
    BY <1>4, <2>1, EmptyList
  <2> QED
    BY <1>1, <1>2, <2>2, OperationsFacts
<1>8. ASSUME NEW route \in ToSet(routes), route.url = url, route.methods # <<>>
      PROVE  \E o \in ToSet(FlattenSeq(f)) : o.action = route.action
  <2>1. PICK i \in 1 .. n : routes[i] = route
    BY <1>2
  <2>2. PICK o \in ToSet(Operations(route)) : o.action = route.action
    BY <1>1, <1>8, OperationsFacts
  <2>3. f[i] = Operations(route)
    BY <1>4, <1>8, <2>1
  <2> QED
    BY <1>6, <2>2, <2>3
<1> QED
  BY <1>3, <1>6, <1>7, <1>8 DEF routes

LEMMA AllOperationsFacts ==
  ASSUME app \in Apps
  PROVE  /\ IsList(AllOperations)
         /\ \A o \in ToSet(AllOperations) :
              \E route \in ToSet(app.routes) : route.methods # <<>> /\ route.action = o.action
         /\ \A route \in ToSet(app.routes) :
              route.methods # <<>> => \E o \in ToSet(AllOperations) : o.action = route.action
<1> DEFINE routes == app.routes
           n == Len(routes)
           f == [i \in 1 .. n |-> IF OpensUrl(i) THEN OperationsAt(routes[i].url) ELSE <<>>]
<1>1. IsList(routes)
  BY AppFacts
<1>2. /\ n \in Nat /\ DOMAIN routes = 1 .. n /\ \A i \in 1 .. n : routes[i] \in ToSet(routes)
      /\ \A x \in ToSet(routes) : \E i \in 1 .. n : routes[i] = x
  <2> HIDE DEF routes
  <2> QED
    BY <1>1, ListFacts
<1>3. AllOperations = FlattenSeq(f)
  BY <1>2 DEF AllOperations
<1>4. f = [i \in 1 .. n |-> f[i]]
      /\ \A i \in 1 .. n : f[i] = IF OpensUrl(i) THEN OperationsAt(routes[i].url) ELSE <<>>
  OBVIOUS
<1>5. \A i : OpensUrl(i) <=> \A j \in 1 .. i - 1 : routes[j].url # routes[i].url
  BY DEF OpensUrl
<1>6. \A url : /\ IsList(OperationsAt(url))
               /\ \A o \in ToSet(OperationsAt(url)) :
                    \E route \in ToSet(routes) : route.methods # <<>> /\ route.action = o.action
               /\ \A route \in ToSet(routes) :
                    route.url = url /\ route.methods # <<>> =>
                      \E o \in ToSet(OperationsAt(url)) : o.action = route.action
  BY OperationsAtFacts, Zenon
<1> HIDE DEF f, n, routes
<1>7. \A i \in 1 .. n : IsList(f[i])
  BY <1>4, <1>6, EmptyList
<1>8. IsList(FlattenSeq(f)) /\ ToSet(FlattenSeq(f)) = UNION {ToSet(f[i]) : i \in 1 .. n}
  BY <1>2, <1>4, <1>7, JoinAllFacts
<1>9. ASSUME NEW o \in ToSet(FlattenSeq(f))
      PROVE  \E route \in ToSet(routes) : route.methods # <<>> /\ route.action = o.action
  <2>1. PICK i \in 1 .. n : o \in ToSet(f[i])
    BY <1>8
  <2>2. o \in ToSet(OperationsAt(routes[i].url))
    BY <1>4, <2>1, EmptyList
  <2> QED
    BY <1>6, <2>2
<1>10. ASSUME NEW route \in ToSet(routes), route.methods # <<>>
       PROVE  \E o \in ToSet(FlattenSeq(f)) : o.action = route.action
  <2> DEFINE S == {i \in 1 .. n : routes[i].url = route.url}
  <2>1. PICK k \in 1 .. n : routes[k] = route
    BY <1>2
  <2>2. S \subseteq Nat /\ S # {}
    BY <1>2, <2>1
  <2>3. PICK i \in S : \A j \in S : i <= j
    BY <2>2, LeastExists
  <2>4. OpensUrl(i)
    <3> SUFFICES ASSUME NEW j \in 1 .. i - 1, routes[j].url = routes[i].url PROVE FALSE
      BY <1>5
    <3>1. j \in 1 .. n /\ ~ (i <= j)
      BY <1>2, <2>3
    <3> QED
      BY <2>3, <3>1
  <2>5. f[i] = OperationsAt(route.url)
    BY <1>4, <2>3, <2>4
  <2>6. PICK o \in ToSet(OperationsAt(route.url)) : o.action = route.action
    BY <1>6, <1>10
  <2> QED
    BY <1>8, <2>3, <2>5, <2>6
<1> QED
  BY <1>3, <1>8, <1>9, <1>10 DEF routes

-----------------------------------------------------------------------------
(* The inductive invariant.                                                *)

\* What records have which fields.
IsDoc(d) ==
  d = [tags |-> d.tags, urls |-> d.urls, operations |-> d.operations, components |-> d.components]
IsOp(o) == o = [opts |-> o.opts, responses |-> o.responses, params |-> o.params, body |-> o.body]
IsBody(b) == b = [opts |-> b.opts, content |-> b.content]
IsOperation(o) ==
  /\ IsOp(o) /\ IsList(o.params)
  /\ IsBody(o.body) /\ \A type \in DOMAIN o.body.content : IsSchema(o.body.content[type])
DocOK ==
  /\ IsDoc(doc)
  /\ DOMAIN doc.components \subseteq DOMAIN app.classes
  /\ \A class \in DOMAIN doc.components : IsSchema(doc.components[class])
  /\ \A key \in DOMAIN doc.operations : IsOperation(doc.operations[key])

\* A call fills a schema that is there; its class has the members that are
\* left to be looked at behind the ones that were.
Done(e) == Len(MembersOf(e.class)) - Len(e.members)
Placed(into) ==
  /\ into = <<into[1], into[2]>>
  /\ into[1] \in DOMAIN doc.operations /\ into[2] \in DOMAIN doc.operations[into[1]].body.content
MembersLeft(e) ==
  /\ IsList(e.members) /\ Done(e) \in Nat
  /\ \A i \in 1 .. Len(e.members) : e.members[i] = MembersOf(e.class)[Done(e) + i]
EntryOK(e) ==
  /\ e.class \in DOMAIN app.classes
  /\ \/ e.step = "component" /\ e = [step |-> "component", class |-> e.class, rules |-> e.rules]
     \/ e.step = "body" /\ e = [step |-> "body", class |-> e.class, into |-> e.into] /\ Placed(e.into)
     \/ /\ e.step = "model"
        /\ e = [step |-> "model", class |-> e.class, into |-> e.into, members |-> e.members]
        /\ (e.into = InComponent /\ e.class \in DOMAIN doc.components) \/ Placed(e.into)
        /\ MembersLeft(e)
StackOK == IsList(stack) /\ \A e \in ToSet(stack) : EntryOK(e)

\* What is to be parsed comes from the map.
TodoOK ==
  /\ IsList(todo)
  /\ \A o \in ToSet(todo) : \E route \in ToSet(app.routes) : route.methods # <<>> /\ route.action = o.action
RecordsOK ==
  /\ IsList(records)
  /\ records # <<>> =>
       /\ current.key \in DOMAIN doc.operations
       /\ \E route \in ToSet(app.routes) : HasOperations(route) /\ route.action = current.action
       /\ ToSet(records) \subseteq ToSet(app.actions[current.action].records)
Blankness == answer = None => doc = NewDoc /\ todo = <<>> /\ records = <<>> /\ stack = <<>>
Shape == app \in Apps /\ DocOK /\ StackOK /\ TodoOK /\ RecordsOK /\ Blankness

\* The classes that have a component, or will.
Covered == DOMAIN doc.components \cup Awaits(stack)
SchemasIn(d) ==
  {d.components[class] : class \in DOMAIN d.components}
    \cup UNION {SchemasOf(d.operations[key]) : key \in DOMAIN d.operations}
RefsCovered == \A schema \in SchemasIn(doc) : RefsIn(schema) \subseteq Covered

\* The calls that fill a component are for different classes.
Filling(e) == e.step = "model" /\ e.into = InComponent
Apart(s) == \A i, j \in DOMAIN s : Filling(s[i]) /\ Filling(s[j]) /\ s[i].class = s[j].class => i = j

\* What a component has once the first n members of its class were looked at.
Tells(class, i) == ~ExistIgnore(MembersOf(class)[i].rules)
FilledTo(class, n) ==
  LET members == MembersOf(class)
      schema == doc.components[class]
  IN /\ DOMAIN schema.props = {members[i].name : i \in {j \in 1 .. n : Tells(class, j)}}
     /\ schema.required = NotNull(schema.props)
     /\ \A i \in 1 .. n : Tells(class, i) => TypesToldBy(members[i].type, members[i].rules) \subseteq Covered
Unfinished == {e.class : e \in {x \in ToSet(stack) : Filling(x)}}
FillInv ==
  /\ \A e \in ToSet(stack) : Filling(e) => FilledTo(e.class, Done(e))
  /\ \A class \in DOMAIN doc.components \ Unfinished : FilledTo(class, Len(MembersOf(class)))

\* What has a component, or is visited, is in every closed set of classes.
Within(classes) == DOMAIN doc.components \subseteq classes /\ \A e \in ToSet(stack) : e.class \in classes
ReachInv == \A classes \in SUBSET DOMAIN app.classes : Closed(classes) => Within(classes)

\* What an action exchanges is covered once its operation was parsed, record by record.
Exchanges(key) ==
  /\ ToSet(ResponseClasses(app.actions[key].rules)) \subseteq Covered
  /\ \A r \in ToSet(app.actions[key].records) :
       ExistIgnore(r.rules) \/ Exchanged(r) \subseteq Covered \/ (current.action = key /\ r \in ToSet(records))
RootInv ==
  answer \in {"parsing", "document"} =>
    /\ \A route \in ToSet(app.routes) :
         HasOperations(route) => (\E o \in ToSet(todo) : o.action = route.action) \/ Exchanges(route.action)
    /\ answer = "document" => todo = <<>> /\ records = <<>> /\ stack = <<>>

IInv == Shape /\ RefsCovered /\ Apart(stack) /\ FillInv /\ ReachInv /\ RootInv

-----------------------------------------------------------------------------
(* What a step does to the document.                                       *)

LEMMA SchemasOfFacts ==
  ASSUME NEW o
  PROVE  \A s : s \in SchemasOf(o) <=>
                  \/ \E i \in DOMAIN o.params : s = o.params[i].schema
                  \/ \E type \in DOMAIN o.body.content : s = o.body.content[type]
                  \/ \E code \in DOMAIN o.responses : \E type \in DOMAIN o.responses[code].content :
                       s = o.responses[code].content[type]
  BY DEF SchemasOf

LEMMA SchemasInFacts ==
  ASSUME NEW d
  PROVE  \A s : s \in SchemasIn(d) <=>
                  \/ \E class \in DOMAIN d.components : s = d.components[class]
                  \/ \E key \in DOMAIN d.operations : s \in SchemasOf(d.operations[key])
  BY DEF SchemasIn

LEMMA ComponentsPut ==
  ASSUME NEW d, IsDoc(d), NEW x
  PROVE  /\ [d EXCEPT !.components = x] =
              [tags |-> d.tags, urls |-> d.urls, operations |-> d.operations, components |-> x]
         /\ [d EXCEPT !.operations = x] =
              [tags |-> d.tags, urls |-> d.urls, operations |-> x, components |-> d.components]
         /\ [d EXCEPT !.urls = x] =
              [tags |-> d.tags, urls |-> x, operations |-> d.operations, components |-> d.components]
         /\ [d EXCEPT !.tags = x] =
              [tags |-> x, urls |-> d.urls, operations |-> d.operations, components |-> d.components]
  BY DEF IsDoc

LEMMA OperationPut ==
  ASSUME NEW d, IsDoc(d), NEW key \in DOMAIN d.operations, IsOp(d.operations[key]), NEW x
  PROVE  /\ [d EXCEPT !.operations[key].params = x] =
              [d EXCEPT !.operations = [d.operations EXCEPT ![key] = [d.operations[key] EXCEPT !.params = x]]]
         /\ [d EXCEPT !.operations[key].body = x] =
              [d EXCEPT !.operations = [d.operations EXCEPT ![key] = [d.operations[key] EXCEPT !.body = x]]]
  BY Zenon

\* One operation is added or changed.
OperationSet(key, p, ops, urls) ==
  /\ DOMAIN ops = {key} \cup DOMAIN doc.operations /\ ops[key] = p
  /\ \A k \in DOMAIN doc.operations \ {key} : ops[k] = doc.operations[k]
  /\ doc' = [tags |-> doc.tags, urls |-> urls, operations |-> ops, components |-> doc.components]
LEMMA OneOperation ==
  ASSUME DocOK, app' = app, NEW key, NEW p, IsOperation(p), NEW ops, NEW urls, OperationSet(key, p, ops, urls)
  PROVE  /\ DocOK' /\ doc'.components = doc.components
         /\ DOMAIN doc'.operations = {key} \cup DOMAIN doc.operations /\ doc'.operations[key] = p
         /\ \A k \in DOMAIN doc.operations \ {key} : doc'.operations[k] = doc.operations[k]
         /\ \A s \in SchemasIn(doc') : s \in SchemasIn(doc) \/ s \in SchemasOf(p)
<1>1. IsDoc(doc') /\ doc'.components = doc.components /\ doc'.operations = ops
  BY DEF IsDoc, OperationSet
<1>2. /\ DOMAIN ops = {key} \cup DOMAIN doc.operations /\ ops[key] = p
      /\ \A k \in DOMAIN doc.operations \ {key} : ops[k] = doc.operations[k]
      /\ \A k \in DOMAIN ops : ops[k] = p \/ (k \in DOMAIN doc.operations /\ ops[k] = doc.operations[k])
  BY DEF OperationSet
<1>3. DocOK'
  BY <1>1, <1>2 DEF DocOK
<1>4. ASSUME NEW s \in SchemasIn(doc') PROVE s \in SchemasIn(doc) \/ s \in SchemasOf(p)
  <2>1. CASE \E class \in DOMAIN doc'.components : s = doc'.components[class]
    BY <1>1, <2>1, SchemasInFacts
  <2>2. CASE \E k \in DOMAIN doc'.operations : s \in SchemasOf(doc'.operations[k])
    <3>1. PICK k \in DOMAIN ops : s \in SchemasOf(ops[k])
      BY <1>1, <2>2
    <3> QED
      BY <1>2, <3>1, SchemasInFacts
  <2> QED
    BY <1>4, <2>1, <2>2, SchemasInFacts
<1> QED
  BY <1>1, <1>2, <1>3, <1>4

LEMMA ParamsAdded ==
  ASSUME DocOK, app' = app, NEW key \in DOMAIN doc.operations, NEW ps, IsList(ps),
         doc' = [doc EXCEPT !.operations[key].params = @ \o ps]
  PROVE  /\ DocOK' /\ doc'.components = doc.components
         /\ DOMAIN doc'.operations = DOMAIN doc.operations
         /\ \A s \in SchemasIn(doc') : s \in SchemasIn(doc) \/ \E i \in DOMAIN ps : s = ps[i].schema
<1> DEFINE o == doc.operations[key]
           x == o.params \o ps
           p == [o EXCEPT !.params = x]
           ops == [doc.operations EXCEPT ![key] = p]
<1>1. IsDoc(doc) /\ IsOperation(o)
  BY DEF DocOK
<1>2. doc' = [doc EXCEPT !.operations = ops]
  BY Zenon
<1>3. doc' = [tags |-> doc.tags, urls |-> doc.urls, operations |-> ops, components |-> doc.components]
  BY <1>1, <1>2, ComponentsPut, Zenon
<1>4. DOMAIN ops = DOMAIN doc.operations /\ ops[key] = p
      /\ \A k \in DOMAIN doc.operations \ {key} : ops[k] = doc.operations[k]
  <2> HIDE DEF p
  <2> QED
    OBVIOUS
<1>5. IsList(x) /\ ToSet(x) = ToSet(o.params) \cup ToSet(ps)
  <2>1. IsList(o.params)
    BY <1>1 DEF IsOperation
  <2> QED
    BY <2>1, JoinFacts
<1> HIDE DEF x, o, ops
<1>6. IsOp(p) /\ p.params = x /\ p.responses = o.responses /\ p.body = o.body
  BY <1>1 DEF IsOperation, IsOp
<1> HIDE DEF p
<1>7. IsOperation(p)
  BY <1>1, <1>5, <1>6 DEF IsOperation
<1>8. /\ DocOK' /\ doc'.components = doc.components
      /\ DOMAIN doc'.operations = {key} \cup DOMAIN doc.operations
      /\ \A s \in SchemasIn(doc') : s \in SchemasIn(doc) \/ s \in SchemasOf(p)
  <2>1. OperationSet(key, p, ops, doc.urls)
    BY <1>3, <1>4 DEF OperationSet
  <2> QED
    BY <1>7, <2>1, OneOperation
<1>9. ASSUME NEW s \in SchemasOf(p) PROVE s \in SchemasOf(o) \/ \E i \in DOMAIN ps : s = ps[i].schema
  <2>1. CASE \E i \in DOMAIN p.params : s = p.params[i].schema
    <3>1. PICK q \in ToSet(x) : s = q.schema
      BY <1>5, <1>6, <2>1, ListFacts
    <3>2. CASE q \in ToSet(ps)
      BY <3>1, <3>2, ListFacts
    <3>3. CASE q \in ToSet(o.params)
      BY <1>1, <3>1, <3>3, ListFacts, SchemasOfFacts DEF IsOperation
    <3> QED
      BY <1>5, <3>1, <3>2, <3>3
  <2>2. CASE \E type \in DOMAIN p.body.content : s = p.body.content[type]
    BY <1>6, <2>2, SchemasOfFacts
  <2>3. CASE \E code \in DOMAIN p.responses : \E type \in DOMAIN p.responses[code].content :
               s = p.responses[code].content[type]
    BY <1>6, <2>3, SchemasOfFacts
  <2> QED
    BY <1>9, <2>1, <2>2, <2>3, SchemasOfFacts
<1>10. \A s \in SchemasOf(o) : s \in SchemasIn(doc)
  BY SchemasInFacts DEF o
<1> QED
  BY <1>8, <1>9, <1>10

BodyBecomes(key, b) == doc' = [doc EXCEPT !.operations[key].body = b]
LEMMA BodySet ==
  ASSUME DocOK, app' = app, NEW key \in DOMAIN doc.operations,
         NEW b, IsBody(b), \A type \in DOMAIN b.content : IsSchema(b.content[type]), BodyBecomes(key, b)
  PROVE  /\ DocOK' /\ doc'.components = doc.components
         /\ DOMAIN doc'.operations = DOMAIN doc.operations /\ doc'.operations[key].body = b
         /\ \A k \in DOMAIN doc.operations \ {key} : doc'.operations[k] = doc.operations[k]
         /\ \A s \in SchemasIn(doc') : s \in SchemasIn(doc) \/ \E type \in DOMAIN b.content : s = b.content[type]
<1> DEFINE o == doc.operations[key]
           p == [o EXCEPT !.body = b]
           ops == [doc.operations EXCEPT ![key] = p]
<1>1. IsDoc(doc) /\ IsOperation(o)
  BY DEF DocOK
<1>2. doc' = [doc EXCEPT !.operations = ops]
  BY Zenon DEF BodyBecomes
<1>3. doc' = [tags |-> doc.tags, urls |-> doc.urls, operations |-> ops, components |-> doc.components]
  BY <1>1, <1>2, ComponentsPut, Zenon
<1>4. DOMAIN ops = DOMAIN doc.operations /\ ops[key] = p
      /\ \A k \in DOMAIN doc.operations \ {key} : ops[k] = doc.operations[k]
  <2> HIDE DEF p
  <2> QED
    OBVIOUS
<1> HIDE DEF o, ops
<1>5. IsOp(p) /\ p.params = o.params /\ p.responses = o.responses /\ p.body = b
  BY <1>1 DEF IsOperation, IsOp
<1> HIDE DEF p
<1>6. IsOperation(p)
  BY <1>1, <1>5 DEF IsOperation
<1>7. /\ DocOK' /\ doc'.components = doc.components
      /\ DOMAIN doc'.operations = {key} \cup DOMAIN doc.operations /\ doc'.operations[key] = p
      /\ \A k \in DOMAIN doc.operations \ {key} : doc'.operations[k] = doc.operations[k]
      /\ \A s \in SchemasIn(doc') : s \in SchemasIn(doc) \/ s \in SchemasOf(p)
  <2>1. OperationSet(key, p, ops, doc.urls)
    BY <1>3, <1>4 DEF OperationSet
  <2> QED
    BY <1>6, <2>1, OneOperation
<1>8. ASSUME NEW s \in SchemasOf(p) PROVE s \in SchemasOf(o) \/ \E type \in DOMAIN b.content : s = b.content[type]
  BY <1>5, <1>8, SchemasOfFacts
<1>9. \A s \in SchemasOf(o) : s \in SchemasIn(doc)
  BY SchemasInFacts DEF o
<1>10. DOMAIN doc'.operations = DOMAIN doc.operations /\ doc'.operations[key].body = b
  BY <1>5, <1>7
<1>11. \A s \in SchemasIn(doc') : s \in SchemasIn(doc) \/ \E type \in DOMAIN b.content : s = b.content[type]
  BY <1>7, <1>8, <1>9
<1> QED
  BY <1>7, <1>10, <1>11

ContentBecomes(into, schema) == doc' = [doc EXCEPT !.operations[into[1]].body.content[into[2]] = schema]
LEMMA ContentPut ==
  ASSUME DocOK, app' = app, NEW into, Placed(into), NEW schema, IsSchema(schema), ContentBecomes(into, schema)
  PROVE  /\ DocOK' /\ doc'.components = doc.components
         /\ DOMAIN doc'.operations = DOMAIN doc.operations
         /\ \A k \in DOMAIN doc.operations :
              DOMAIN doc'.operations[k].body.content = DOMAIN doc.operations[k].body.content
         /\ \A s \in SchemasIn(doc') : s \in SchemasIn(doc) \/ s = schema
<1> DEFINE key == into[1]
           type == into[2]
           old == doc.operations[key].body
           content == [old.content EXCEPT ![type] = schema]
           b == [old EXCEPT !.content = content]
<1>1. key \in DOMAIN doc.operations /\ type \in DOMAIN old.content
  BY DEF Placed
<1>2. IsOperation(doc.operations[key])
  BY <1>1 DEF DocOK
<1>3. IsBody(old) /\ \A t \in DOMAIN old.content : IsSchema(old.content[t])
  BY <1>2 DEF IsOperation
<1>4. BodyBecomes(key, b)
  BY Zenon DEF BodyBecomes, ContentBecomes
<1>5. /\ DOMAIN content = DOMAIN old.content /\ content[type] = schema
      /\ \A t \in DOMAIN content : t # type => content[t] = old.content[t]
  <2> HIDE DEF old, type
  <2> QED
    BY <1>1
<1> HIDE DEF content
<1>6. IsBody(b) /\ b.content = content
  <2> HIDE DEF old
  <2> QED
    BY <1>3 DEF IsBody
<1> HIDE DEF b
<1>7. \A t \in DOMAIN b.content : IsSchema(b.content[t])
  BY <1>3, <1>5, <1>6
<1>8. /\ DocOK' /\ doc'.components = doc.components
      /\ DOMAIN doc'.operations = DOMAIN doc.operations /\ doc'.operations[key].body = b
      /\ \A k \in DOMAIN doc.operations \ {key} : doc'.operations[k] = doc.operations[k]
      /\ \A s \in SchemasIn(doc') : s \in SchemasIn(doc) \/ \E t \in DOMAIN b.content : s = b.content[t]
  <2> HIDE DEF key, old, type
  <2> QED
    BY <1>1, <1>4, <1>6, <1>7, BodySet
<1>9. \A k \in DOMAIN doc.operations : DOMAIN doc'.operations[k].body.content = DOMAIN doc.operations[k].body.content
  BY <1>5, <1>6, <1>8
<1>10. ASSUME NEW t \in DOMAIN old.content PROVE old.content[t] \in SchemasIn(doc)
  <2>1. old.content[t] \in SchemasOf(doc.operations[key])
    BY <1>10, SchemasOfFacts
  <2> QED
    BY <1>1, <2>1, SchemasInFacts
<1>11. ASSUME NEW t \in DOMAIN b.content PROVE b.content[t] = schema \/ b.content[t] \in SchemasIn(doc)
  BY <1>5, <1>6, <1>10, <1>11
<1>12. \A s \in SchemasIn(doc') : s \in SchemasIn(doc) \/ s = schema
  BY <1>8, <1>11
<1> HIDE DEF key, type, old
<1> QED
  BY <1>8, <1>9, <1>12

ComponentBecomes(class, schema) == doc' = [doc EXCEPT !.components = With(@, class, schema)]
LEMMA ComponentPut ==
  ASSUME DocOK, app' = app, NEW class \in DOMAIN app.classes, NEW schema, IsSchema(schema),
         ComponentBecomes(class, schema)
  PROVE  /\ DocOK' /\ doc'.operations = doc.operations
         /\ DOMAIN doc'.components = {class} \cup DOMAIN doc.components /\ doc'.components[class] = schema
         /\ \A c \in DOMAIN doc.components \ {class} : doc'.components[c] = doc.components[c]
         /\ \A s \in SchemasIn(doc') : s \in SchemasIn(doc) \/ s = schema
<1> DEFINE components == With(doc.components, class, schema)
<1>1. IsDoc(doc)
  BY DEF DocOK
<1>2. doc' = [tags |-> doc.tags, urls |-> doc.urls, operations |-> doc.operations, components |-> components]
  BY <1>1, ComponentsPut, Zenon DEF ComponentBecomes
<1>3. /\ DOMAIN components = {class} \cup DOMAIN doc.components /\ components[class] = schema
      /\ \A c \in DOMAIN doc.components \ {class} : components[c] = doc.components[c]
  BY DEF With
<1> HIDE DEF components
<1>4. IsDoc(doc') /\ doc'.components = components /\ doc'.operations = doc.operations
  BY <1>2 DEF IsDoc
<1>5. \A c \in DOMAIN components : components[c] = schema \/ (c \in DOMAIN doc.components /\ components[c] = doc.components[c])
  BY <1>3
<1>6. DocOK'
  BY <1>3, <1>4, <1>5 DEF DocOK
<1>7. ASSUME NEW s \in SchemasIn(doc') PROVE s \in SchemasIn(doc) \/ s = schema
  <2>1. CASE \E c \in DOMAIN doc'.components : s = doc'.components[c]
    BY <1>4, <1>5, <2>1, SchemasInFacts
  <2>2. CASE \E k \in DOMAIN doc'.operations : s \in SchemasOf(doc'.operations[k])
    BY <1>4, <2>2, SchemasInFacts
  <2> QED
    BY <1>7, <2>1, <2>2, SchemasInFacts
<1> QED
  BY <1>3, <1>4, <1>6, <1>7

OperationBecomes(key, p) == doc' = [doc EXCEPT !.operations = With(@, key, p)]
LEMMA OperationAdded ==
  ASSUME DocOK, app' = app, NEW key, NEW p, IsOperation(p), OperationBecomes(key, p)
  PROVE  /\ DocOK' /\ doc'.components = doc.components
         /\ DOMAIN doc'.operations = {key} \cup DOMAIN doc.operations
         /\ \A s \in SchemasIn(doc') : s \in SchemasIn(doc) \/ s \in SchemasOf(p)
<1> DEFINE ops == With(doc.operations, key, p)
<1>1. IsDoc(doc)
  BY DEF DocOK
<1>2. doc' = [doc EXCEPT !.operations = ops]
  BY Zenon DEF OperationBecomes
<1>3. DOMAIN ops = {key} \cup DOMAIN doc.operations /\ ops[key] = p
      /\ \A k \in DOMAIN doc.operations \ {key} : ops[k] = doc.operations[k]
  BY DEF With
<1> HIDE DEF ops
<1>4. doc' = [tags |-> doc.tags, urls |-> doc.urls, operations |-> ops, components |-> doc.components]
  BY <1>1, <1>2, ComponentsPut, Zenon
<1>5. OperationSet(key, p, ops, doc.urls)
  BY <1>3, <1>4 DEF OperationSet
<1> QED
  BY <1>5, OneOperation

-----------------------------------------------------------------------------
(* What a step that leaves the application as it is cannot change.         *)

LEMMA AppKept ==
  ASSUME app' = app
  PROVE  /\ \A class : MembersOf(class)' = MembersOf(class) /\ Successors(class)' = Successors(class)
         /\ \A type, rules : TypesToldBy(type, rules)' = TypesToldBy(type, rules)
         /\ \A rules : ResponseClasses(rules)' = ResponseClasses(rules)
         /\ \A r : Exchanged(r)' = Exchanged(r)
         /\ \A route : HasOperations(route)' = HasOperations(route)
         /\ \A classes : Closed(classes)' = Closed(classes)
         /\ \A class, i : Tells(class, i)' = Tells(class, i)
         /\ \A e : Done(e)' = Done(e) /\ MembersLeft(e)' = MembersLeft(e)
<1>1. \A class : MembersOf(class)' = MembersOf(class)
  BY DEF MembersOf
<1>2. \A type, rules : TypesToldBy(type, rules)' = TypesToldBy(type, rules)
  BY DEF TypesToldBy, ClassesOf, ItemClasses, IsClass
<1>3. \A class : Successors(class)' = Successors(class)
  BY <1>2 DEF Successors
<1>4. \A rules : ResponseClasses(rules)' = ResponseClasses(rules)
  BY DEF ResponseClasses
<1>5. \A r : Exchanged(r)' = Exchanged(r)
  BY <1>2 DEF Exchanged
<1>6. \A route : HasOperations(route)' = HasOperations(route)
  BY DEF HasOperations, RouteIgnored
<1>7. \A action : RootsOf(action)' = RootsOf(action)
  BY <1>4, <1>5 DEF RootsOf
<1>8. Roots' = Roots
  BY <1>6, <1>7 DEF Roots
<1>9. \A classes : Closed(classes)' = Closed(classes)
  BY <1>3, <1>8 DEF Closed
<1>10. \A class, i : Tells(class, i)' = Tells(class, i)
  BY <1>1 DEF Tells
<1>11. \A e : Done(e)' = Done(e)
  BY <1>1 DEF Done
<1>12. \A e : MembersLeft(e)' = MembersLeft(e)
  BY <1>1, <1>11 DEF MembersLeft
<1> QED
  BY <1>1, <1>2, <1>3, <1>4, <1>5, <1>6, <1>9, <1>10, <1>11, <1>12

LEMMA FilledKept ==
  ASSUME app' = app, Covered \subseteq Covered', NEW class, doc'.components[class] = doc.components[class],
         NEW n, FilledTo(class, n)
  PROVE  FilledTo(class, n)'
  BY AppKept DEF FilledTo

-----------------------------------------------------------------------------
(* The calls that fill a component, as the stack grows and shrinks.        *)

LEMMA ApartTail ==
  ASSUME NEW s, IsList(s), s # <<>>, Apart(s)
  PROVE  /\ Apart(Tail(s))
         /\ Filling(Head(s)) => \A e \in ToSet(Tail(s)) : Filling(e) => e.class # Head(s).class
<1>1. /\ Len(s) \in Nat /\ Len(s) # 0 /\ DOMAIN s = 1 .. Len(s) /\ Head(s) = s[1] /\ 1 \in DOMAIN s
      /\ IsList(Tail(s)) /\ Len(Tail(s)) = Len(s) - 1
      /\ \A i \in 1 .. Len(s) - 1 : i + 1 \in DOMAIN s /\ i + 1 # 1 /\ Tail(s)[i] = s[i + 1]
  BY HeadTailFacts, ListFacts
<1>2. DOMAIN Tail(s) = 1 .. Len(s) - 1
  BY <1>1, ListFacts
<1>3. Apart(Tail(s))
  <2> SUFFICES ASSUME NEW i \in 1 .. Len(s) - 1, NEW j \in 1 .. Len(s) - 1,
                      Filling(Tail(s)[i]), Filling(Tail(s)[j]), Tail(s)[i].class = Tail(s)[j].class
               PROVE  i = j
    BY <1>2 DEF Apart
  <2>1. i + 1 = j + 1
    BY <1>1 DEF Apart
  <2> QED
    BY <1>1, <2>1
<1>4. ASSUME Filling(Head(s)), NEW e \in ToSet(Tail(s)), Filling(e) PROVE e.class # Head(s).class
  <2>1. PICK i \in 1 .. Len(s) - 1 : Tail(s)[i] = e
    BY <1>1, <1>2, <1>4, ListFacts
  <2> QED
    BY <1>1, <1>4, <2>1 DEF Apart
<1> QED
  BY <1>3, <1>4

\* What s \o t is made of.
LEMMA JoinedAt ==
  ASSUME NEW s, NEW t, IsList(s), IsList(t)
  PROVE  /\ Len(s) \in Nat /\ Len(t) \in Nat /\ DOMAIN (s \o t) = 1 .. Len(s) + Len(t)
         /\ \A i \in 1 .. Len(s) : i \in DOMAIN s /\ (s \o t)[i] = s[i]
         /\ \A i \in 1 .. Len(s) + Len(t) :
              i > Len(s) => i - Len(s) \in DOMAIN t /\ (s \o t)[i] = t[i - Len(s)]
<1> DEFINE S == ToSet(s) \cup ToSet(t)
<1>1. s \in Seq(S) /\ t \in Seq(S)
  <2>1. ToSet(s) \subseteq S /\ ToSet(t) \subseteq S
    OBVIOUS
  <2> HIDE DEF S
  <2> QED
    BY <2>1 DEF IsList
<1> HIDE DEF S
<1>2. /\ Len(s) \in Nat /\ Len(t) \in Nat /\ DOMAIN (s \o t) = 1 .. Len(s) + Len(t)
      /\ DOMAIN s = 1 .. Len(s) /\ DOMAIN t = 1 .. Len(t)
  BY <1>1
<1>3. \A i \in 1 .. Len(s) : (s \o t)[i] = s[i]
  BY <1>1
<1>4. ASSUME NEW i \in 1 .. Len(s) + Len(t), i > Len(s)
      PROVE  i - Len(s) \in 1 .. Len(t) /\ (s \o t)[i] = t[i - Len(s)]
  BY <1>1, <1>2, <1>4
<1> QED
  BY <1>2, <1>3, <1>4

LEMMA ApartJoined ==
  ASSUME NEW s, NEW t, IsList(s), IsList(t), Apart(t), \A e \in ToSet(s) : ~Filling(e)
  PROVE  Apart(s \o t)
<1> DEFINE u == s \o t
<1>1. /\ Len(s) \in Nat /\ Len(t) \in Nat /\ DOMAIN u = 1 .. Len(s) + Len(t)
      /\ \A i \in 1 .. Len(s) : i \in DOMAIN s /\ u[i] = s[i]
      /\ \A i \in 1 .. Len(s) + Len(t) : i > Len(s) => i - Len(s) \in DOMAIN t /\ u[i] = t[i - Len(s)]
  BY JoinedAt, Zenon
<1> HIDE DEF u
<1>2. ASSUME NEW i \in DOMAIN u, Filling(u[i])
      PROVE  i \in Int /\ i - Len(s) \in DOMAIN t /\ u[i] = t[i - Len(s)]
  <2>1. i \in Nat /\ ~ (i \in 1 .. Len(s))
    BY <1>1, <1>2, ListFacts
  <2> QED
    BY <1>1, <1>2, <2>1
<1>3. ASSUME NEW i \in DOMAIN u, NEW j \in DOMAIN u, Filling(u[i]), Filling(u[j]), u[i].class = u[j].class
      PROVE  i = j
  <2>1. i - Len(s) = j - Len(s)
    BY <1>2, <1>3 DEF Apart
  <2> QED
    BY <1>1, <1>2, <1>3, <2>1
<1>4. Apart(u)
  BY <1>3 DEF Apart
<1> QED
  BY <1>4 DEF u

LEMMA ApartPushed ==
  ASSUME NEW e, NEW t, IsList(t), Apart(t), Filling(e) => \A x \in ToSet(t) : Filling(x) => x.class # e.class
  PROVE  Apart(<<e>> \o t)
<1> DEFINE s == <<e>>
           u == s \o t
<1>0. IsList(s) /\ Len(s) = 1 /\ s[1] = e
  BY OneList
<1> HIDE DEF s
<1>1. /\ Len(t) \in Nat /\ DOMAIN u = 1 .. 1 + Len(t) /\ u[1] = e
      /\ \A i \in 1 .. 1 + Len(t) : i > 1 => i - 1 \in DOMAIN t /\ u[i] = t[i - 1]
  <2>1. /\ Len(s) \in Nat /\ Len(t) \in Nat /\ DOMAIN u = 1 .. Len(s) + Len(t)
        /\ \A i \in 1 .. Len(s) : i \in DOMAIN s /\ u[i] = s[i]
        /\ \A i \in 1 .. Len(s) + Len(t) : i > Len(s) => i - Len(s) \in DOMAIN t /\ u[i] = t[i - Len(s)]
    BY <1>0, JoinedAt, Zenon
  <2> HIDE DEF u
  <2>2. 1 \in 1 .. Len(s)
    BY <1>0
  <2> QED
    BY <1>0, <2>1, <2>2
<1> HIDE DEF u
<1>2. ASSUME NEW i \in DOMAIN u, NEW j \in DOMAIN u, Filling(u[i]), Filling(u[j]), u[i].class = u[j].class
      PROVE  i = j
  <2>1. i \in Nat /\ j \in Nat /\ i >= 1 /\ j >= 1
    BY <1>1
  <2>2. \A k \in DOMAIN u : k = 1 \/ (k > 1 /\ k - 1 \in DOMAIN t /\ u[k] = t[k - 1] /\ u[k] \in ToSet(t))
    BY <1>1, ListFacts
  <2>3. CASE i = 1 \/ j = 1
    BY <1>1, <1>2, <2>2, <2>3
  <2>4. CASE i # 1 /\ j # 1
    <3>1. i - 1 = j - 1
      BY <1>2, <2>2, <2>4 DEF Apart
    <3> QED
      BY <2>1, <3>1
  <2> QED
    BY <2>3, <2>4
<1>3. Apart(u)
  BY <1>2 DEF Apart
<1> QED
  BY <1>3 DEF u, s

-----------------------------------------------------------------------------
(* The parts of the invariant a step keeps, and what it takes.             *)

LEMMA RefsKept ==
  ASSUME RefsCovered, Covered \subseteq Covered',
         \A s \in SchemasIn(doc') : s \in SchemasIn(doc) \/ RefsIn(s) \subseteq Covered'
  PROVE  RefsCovered'
  BY DEF RefsCovered

LEMMA RootsKept ==
  ASSUME app' = app, Covered \subseteq Covered', RootInv, Parsing, answer' \in {"parsing", "failed"},
         todo' = todo, records' = records, current' = current
  PROVE  RootInv'
<1>1. ASSUME NEW key, Exchanges(key) PROVE Exchanges(key)'
  BY <1>1, AppKept DEF Exchanges
<1>2. \A route : HasOperations(route)' = HasOperations(route)
  BY AppKept
<1>3. answer' # "document"
  OBVIOUS
<1>4. ASSUME NEW route \in ToSet(app.routes), HasOperations(route)
      PROVE  (\E o \in ToSet(todo') : o.action = route.action) \/ Exchanges(route.action)'
  <2>1. (\E o \in ToSet(todo) : o.action = route.action) \/ Exchanges(route.action)
    BY <1>4 DEF RootInv, Parsing
  <2> QED
    BY <1>1, <2>1
<1> QED
  BY <1>2, <1>3, <1>4 DEF RootInv

LEMMA ReachKept ==
  ASSUME app' = app, ReachInv,
         \A classes \in SUBSET DOMAIN app.classes : Closed(classes) /\ Within(classes) => Within(classes)'
  PROVE  ReachInv'
<1>1. \A classes : Closed(classes)' = Closed(classes)
  BY AppKept
<1> QED
  BY <1>1 DEF ReachInv

LEMMA ClosedFacts ==
  ASSUME NEW classes, Closed(classes)
  PROVE  Roots \subseteq classes /\ Saturated(classes)
  BY DEF Closed, Saturated

LEMMA ListsKept ==
  ASSUME app' = app, TodoOK, RecordsOK, todo' = todo, records' = records, current' = current,
         DOMAIN doc.operations \subseteq DOMAIN doc'.operations
  PROVE  TodoOK' /\ RecordsOK'
<1>1. \A route : HasOperations(route)' = HasOperations(route)
  BY AppKept
<1> QED
  BY <1>1 DEF TodoOK, RecordsOK

\* No schema goes that a call is to fill.
Grows ==
  /\ DOMAIN doc.components \subseteq DOMAIN doc'.components
  /\ DOMAIN doc.operations \subseteq DOMAIN doc'.operations
  /\ \A k \in DOMAIN doc.operations :
       DOMAIN doc.operations[k].body.content \subseteq DOMAIN doc'.operations[k].body.content
LEMMA EntryKept ==
  ASSUME app' = app, Grows, NEW e, EntryOK(e)
  PROVE  EntryOK(e)'
<1>1. Placed(e.into) => Placed(e.into)'
  BY DEF Placed, Grows
<1>2. MembersLeft(e)' = MembersLeft(e)
  BY AppKept
<1> QED
  BY <1>1, <1>2 DEF EntryOK, Grows

LEMMA FillKept ==
  ASSUME app' = app, Covered \subseteq Covered', FillInv, doc'.components = doc.components,
         \A e \in ToSet(stack') : Filling(e) => e \in ToSet(stack),
         \A e \in ToSet(stack) : Filling(e) => e \in ToSet(stack') \/ FilledTo(e.class, Len(MembersOf(e.class)))
  PROVE  FillInv'
<1>1. ASSUME NEW class, NEW n, FilledTo(class, n) PROVE FilledTo(class, n)'
  BY <1>1, FilledKept
<1>2. \A class : MembersOf(class)' = MembersOf(class)
  BY AppKept
<1>3. \A e : Done(e)' = Done(e)
  BY AppKept
<1>4. ASSUME NEW e \in ToSet(stack'), Filling(e) PROVE FilledTo(e.class, Done(e))'
  <2>1. FilledTo(e.class, Done(e))
    BY <1>4 DEF FillInv
  <2> QED
    BY <1>1, <1>3, <2>1
<1>5. ASSUME NEW class \in DOMAIN doc.components, class \notin Unfinished'
      PROVE  FilledTo(class, Len(MembersOf(class)))'
  <2>1. FilledTo(class, Len(MembersOf(class)))
    <3>1. CASE class \in Unfinished
      BY <1>5, <3>1 DEF Unfinished
    <3>2. CASE class \notin Unfinished
      BY <1>5, <3>2 DEF FillInv
    <3> QED
      BY <3>1, <3>2
  <2> QED
    BY <1>1, <1>2, <2>1
<1> QED
  BY <1>4, <1>5 DEF FillInv

-----------------------------------------------------------------------------
(* Every step keeps the invariant: first what serves without the parser.   *)

LEMMA NothingParsed ==
  ASSUME IInv, Unparsed
  PROVE  /\ app' \in Apps /\ DocOK' /\ StackOK' /\ TodoOK' /\ RecordsOK'
         /\ RefsCovered' /\ Apart(stack)' /\ FillInv' /\ ReachInv'
<1>1. Shape /\ RefsCovered /\ Apart(stack) /\ FillInv /\ ReachInv
  BY DEF IInv
<1>2. app \in Apps /\ DocOK /\ StackOK /\ TodoOK /\ RecordsOK
  BY <1>1 DEF Shape
<1>3. app' = app /\ doc' = doc /\ todo' = todo /\ current' = current /\ records' = records /\ stack' = stack
  BY DEF Unparsed
<1>4. Covered' = Covered /\ Grows
  BY <1>3 DEF Covered, Grows
<1>5. StackOK'
  BY <1>2, <1>3, <1>4, EntryKept DEF StackOK
<1>6. DocOK' /\ Apart(stack')
  BY <1>1, <1>2, <1>3 DEF DocOK
<1>7. TodoOK' /\ RecordsOK'
  BY <1>2, <1>3, ListsKept
<1>8. RefsCovered'
  BY <1>1, <1>3, <1>4, RefsKept
<1>9. FillInv'
  BY <1>1, <1>3, <1>4, FillKept
<1>10. ReachInv'
  <2>1. \A classes : Within(classes) => Within(classes)'
    BY <1>3 DEF Within
  <2> QED
    BY <1>1, <1>3, <2>1, ReachKept
<1> QED
  BY <1>2, <1>3, <1>5, <1>6, <1>7, <1>8, <1>9, <1>10

LEMMA ServingKeeps ==
  ASSUME IInv, PassOn \/ Redirect \/ Initializer \/ ReplaceBody
  PROVE  IInv'
<1>1. Unparsed /\ answer' \in {"passed", "redirected", "script", "rewritten", "text", "failed"}
  BY DEF PassOn, Redirect, Initializer, ReplaceBody
<1>2. Blankness' /\ RootInv'
  BY <1>1 DEF Blankness, RootInv, None
<1> QED
  BY <1>1, <1>2, NothingParsed DEF IInv, Shape

LEMMA GetSpecKeeps ==
  ASSUME IInv, GetSpec
  PROVE  IInv'
<1>1. /\ Unparsed /\ answer' = "document" /\ answer = "parsing" /\ RootInv
      /\ stack = <<>> /\ records = <<>> /\ todo = <<>>
  BY DEF GetSpec, Parsing, IInv
<1>2. app' = app /\ todo' = todo /\ records' = records /\ stack' = stack /\ current' = current /\ Covered' = Covered
  BY <1>1 DEF Unparsed, Covered
<1>3. Blankness'
  BY <1>1 DEF Blankness, None
<1>4. RootInv'
  <2>1. \A key : Exchanges(key) => Exchanges(key)'
    BY <1>2, AppKept DEF Exchanges
  <2>2. \A route : HasOperations(route)' = HasOperations(route)
    BY <1>2, AppKept
  <2>3. \A route \in ToSet(app.routes) :
          HasOperations(route) => (\E o \in ToSet(todo) : o.action = route.action) \/ Exchanges(route.action)
    BY <1>1 DEF RootInv
  <2>4. todo' = <<>> /\ records' = <<>> /\ stack' = <<>>
    BY <1>1, <1>2
  <2> QED
    BY <1>2, <2>1, <2>2, <2>3, <2>4 DEF RootInv
<1> QED
  BY <1>1, <1>3, <1>4, NothingParsed DEF IInv, Shape

\* The loops begin with the operations of all routes, and no component.
LEMMA ParseKeeps ==
  ASSUME IInv, Parse
  PROVE  IInv'
<1>1. /\ answer = None /\ answer' = "parsing" /\ todo' = AllOperations /\ app' = app
      /\ current' = current /\ records' = records /\ stack' = stack
  BY DEF Parse
<1>2. app \in Apps /\ doc = NewDoc /\ records = <<>> /\ stack = <<>>
  BY <1>1 DEF IInv, Shape, Blankness
<1>3. IsDoc(doc') /\ doc'.components = <<>> /\ doc'.operations = <<>>
  <2> DEFINE tags == TagsOf
             urls == {DocUrl(route.url) : route \in ToSet(app.routes)}
  <2>1. doc' = [NewDoc EXCEPT !.tags = tags, !.urls = urls]
    BY DEF Parse
  <2> HIDE DEF tags, urls
  <2>2. IsDoc(NewDoc) /\ NewDoc.components = <<>> /\ NewDoc.operations = <<>>
    BY DEF IsDoc, NewDoc
  <2> QED
    BY <2>1, <2>2 DEF IsDoc
<1>4. DOMAIN doc'.components = {} /\ DOMAIN doc'.operations = {} /\ stack' = <<>> /\ records' = <<>>
  BY <1>1, <1>2, <1>3
<1>5. ToSet(stack') = {} /\ IsList(stack') /\ IsList(records')
  BY <1>4, EmptyList
<1>6. DocOK' /\ StackOK' /\ RecordsOK'
  BY <1>3, <1>4, <1>5 DEF DocOK, StackOK, RecordsOK
<1>7. TodoOK'
  BY <1>1, <1>2, AllOperationsFacts DEF TodoOK
<1>8. SchemasIn(doc') = {}
  BY <1>4 DEF SchemasIn
<1>9. RefsCovered' /\ Apart(stack') /\ FillInv' /\ ReachInv'
  BY <1>4, <1>5, <1>8 DEF RefsCovered, Apart, FillInv, ReachInv, Within
<1>10. RootInv'
  <2>1. \A route \in ToSet(app.routes) :
          route.methods # <<>> => \E o \in ToSet(todo') : o.action = route.action
    BY <1>1, <1>2, AllOperationsFacts
  <2>2. \A route : HasOperations(route)' => route.methods # <<>>
    BY DEF HasOperations
  <2> QED
    BY <1>1, <2>1, <2>2 DEF RootInv
<1>11. Blankness'
  BY <1>1 DEF Blankness, None
<1> QED
  BY <1>1, <1>2, <1>6, <1>7, <1>9, <1>10, <1>11 DEF IInv, Shape

\* Between two operations or records no call is under way; then calls begin
\* that fill nothing yet.
LEMMA VisitsBegin ==
  ASSUME app' = app, stack = <<>>, doc'.components = doc.components,
         IsList(stack'), \A e \in ToSet(stack') : ~Filling(e)
  PROVE  /\ Covered \subseteq Covered' /\ Covered' = DOMAIN doc.components \cup Awaits(stack')
         /\ Apart(stack') /\ (FillInv => FillInv')
<1>1. ToSet(stack) = {}
  BY EmptyList
<1>2. Covered \subseteq Covered' /\ Covered' = DOMAIN doc.components \cup Awaits(stack')
  BY <1>1 DEF Covered, Awaits
<1>3. Apart(stack')
  BY ListFacts DEF Apart
<1>4. FillInv => FillInv'
  BY <1>1, <1>2, FillKept
<1> QED
  BY <1>2, <1>3, <1>4

LEMMA CallFacts ==
  ASSUME NEW e, IsCall(e)
  PROVE  EntryOK(e) /\ ~Filling(e) /\ e.step = "component" /\ e.class \in DOMAIN app.classes
  BY DEF IsCall, EntryOK, Filling

\* The routes that have an operation tell what there is to be covered.
LEMMA RouteFacts ==
  ASSUME app \in Apps, NEW route \in ToSet(app.routes), HasOperations(route)
  PROVE  /\ route.action \in DOMAIN app.actions
         /\ ToSet(ResponseClasses(app.actions[route.action].rules)) \subseteq Roots
         /\ \A r \in ToSet(app.actions[route.action].records) :
              AreRules(r.rules) /\ (~ExistIgnore(r.rules) => Exchanged(r) \subseteq Roots)
<1> DEFINE action == app.actions[route.action]
<1>1. route.action \in DOMAIN app.actions /\ \A r \in ToSet(action.records) : AreRules(r.rules)
  BY AppFacts
<1>2. RootsOf(action) \subseteq Roots
  BY DEF Roots
<1> HIDE DEF action
<1>3. /\ ToSet(ResponseClasses(action.rules)) \subseteq RootsOf(action)
      /\ \A r \in ToSet(action.records) : ~ExistIgnore(r.rules) => Exchanged(r) \subseteq RootsOf(action)
  BY DEF RootsOf
<1> QED
  BY <1>1, <1>2, <1>3 DEF action

LEMMA ParseUrlMethodItemKeeps ==
  ASSUME IInv, ParseUrlMethodItem
  PROVE  IInv'
<1> DEFINE operation == Head(todo)
           action == app.actions[operation.action]
           key == KeyOf(operation)
           opts == DynamicSetValue(<<>>, action.rules, ActionRows)
           p == [opts |-> opts, responses |-> ResponsesOf(action.rules), params |-> <<>>, body |-> NoBody]
           visits == Components(ResponseClasses(action.rules))
<1>1. /\ app \in Apps /\ DocOK /\ TodoOK /\ RefsCovered /\ FillInv /\ ReachInv /\ RootInv
      /\ Parsing /\ stack = <<>> /\ records = <<>> /\ todo # <<>> /\ app' = app /\ answer' = answer
      /\ todo' = Tail(todo)
  BY DEF IInv, Shape, ParseUrlMethodItem
<1>2. /\ \/ ExistIgnore(action.rules) /\ UNCHANGED <<doc, current, records, stack>>
         \/ /\ ~ExistIgnore(action.rules) /\ OperationBecomes(key, p)
            /\ current' = [key |-> key, action |-> operation.action] /\ records' = action.records
            /\ stack' = visits
  BY Zenon DEF ParseUrlMethodItem, OperationBecomes
<1>3. /\ operation \in ToSet(todo) /\ IsList(todo') /\ ToSet(todo) = {operation} \cup ToSet(todo')
  BY <1>1, HeadTailFacts DEF TodoOK
<1>4. PICK route \in ToSet(app.routes) : route.methods # <<>> /\ route.action = operation.action
  BY <1>1, <1>3 DEF TodoOK
<1>5. operation.action \in DOMAIN app.actions /\ AreRules(action.rules) /\ IsList(action.records)
  BY <1>1, <1>4, AppFacts
<1>6. HasOperations(route) <=> ~ExistIgnore(action.rules)
  BY <1>4 DEF HasOperations, RouteIgnored
<1> HIDE DEF operation, key, opts
<1>7. TodoOK'
  BY <1>1, <1>3 DEF TodoOK
<1>8. Blankness'
  BY <1>1 DEF Blankness, Parsing, None
<1>9. CASE ExistIgnore(action.rules)
  <2>1. doc' = doc /\ current' = current /\ records' = records /\ stack' = stack
    BY <1>2, <1>9
  <2>2. /\ DocOK' /\ doc'.components = doc.components /\ doc'.operations = doc.operations
        /\ SchemasIn(doc') = SchemasIn(doc)
    BY <1>1, <2>1 DEF DocOK
  <2>3. IsList(stack') /\ ToSet(stack') = {} /\ IsList(records') /\ records' = <<>>
    BY <1>1, <2>1, EmptyList
  <2>4. Covered \subseteq Covered' /\ Apart(stack') /\ FillInv'
    BY <1>1, <2>2, <2>3, VisitsBegin
  <2>5. StackOK' /\ RecordsOK'
    BY <2>3 DEF StackOK, RecordsOK
  <2>6. RefsCovered'
    BY <1>1, <2>2, <2>4, RefsKept
  <2>7. ReachInv'
    <3>1. \A classes : Within(classes) => Within(classes)'
      BY <2>1, <2>2 DEF Within
    <3> QED
      BY <1>1, <3>1, ReachKept
  <2>8. RootInv'
    <3>1. \A k : Exchanges(k) => Exchanges(k)'
      BY <1>1, <2>1, <2>4, AppKept DEF Exchanges
    <3>2. \A r : HasOperations(r)' = HasOperations(r)
      BY <1>1, AppKept
    <3>3. ASSUME NEW r \in ToSet(app.routes), HasOperations(r)
          PROVE  (\E o \in ToSet(todo') : o.action = r.action) \/ Exchanges(r.action)'
      <4>1. (\E o \in ToSet(todo) : o.action = r.action) \/ Exchanges(r.action)
        BY <1>1, <3>3 DEF RootInv, Parsing
      <4>2. r.action # operation.action
        BY <1>9, <3>3 DEF HasOperations, RouteIgnored
      <4> QED
        BY <1>3, <3>1, <4>1, <4>2
    <3> QED
      BY <1>1, <3>2, <3>3 DEF RootInv, Parsing
  <2> QED
    BY <1>1, <1>7, <1>8, <2>2, <2>4, <2>5, <2>6, <2>7, <2>8 DEF IInv, Shape
<1>10. CASE ~ExistIgnore(action.rules)
  <2> DEFINE classes == ToSet(ResponseClasses(action.rules))
  <2>1. /\ OperationBecomes(key, p) /\ current'.key = key /\ current'.action = operation.action
        /\ records' = action.records /\ stack' = visits
    BY <1>2, <1>10
  <2>2. /\ Calls(visits) /\ Awaits(visits) = classes
        /\ \A code \in DOMAIN p.responses : \A type \in DOMAIN p.responses[code].content :
             RefsIn(p.responses[code].content[type]) \subseteq classes
    BY <1>1, <1>5, ResponseRefs
  <2>3. /\ IsOp(p) /\ p.params = <<>> /\ p.body = NoBody /\ NoBody.content = <<>>
        /\ IsBody(NoBody)
    BY DEF IsOp, NoBody, IsBody
  <2> HIDE DEF action, classes, visits, p
  <2>4. IsOperation(p)
    BY <2>3, EmptyList DEF IsOperation
  <2>5. /\ DocOK' /\ doc'.components = doc.components
        /\ DOMAIN doc'.operations = {key} \cup DOMAIN doc.operations
        /\ \A s \in SchemasIn(doc') : s \in SchemasIn(doc) \/ s \in SchemasOf(p)
    BY <1>1, <2>1, <2>4, OperationAdded
  <2>6. IsList(stack') /\ \A e \in ToSet(stack') : IsCall(e)
    BY <2>1, <2>2 DEF Calls
  <2>7. Covered \subseteq Covered' /\ classes \subseteq Covered' /\ Apart(stack') /\ FillInv'
    BY <1>1, <2>1, <2>2, <2>5, <2>6, VisitsBegin, CallFacts
  <2>8. StackOK'
    <3>1. ASSUME NEW e, IsCall(e) PROVE EntryOK(e)'
      BY <1>1, <3>1 DEF IsCall, EntryOK
    <3> QED
      BY <2>6, <3>1 DEF StackOK
  <2>9. RecordsOK'
    <3>1. \A r : HasOperations(r)' = HasOperations(r)
      BY <1>1, AppKept
    <3> QED
      BY <1>1, <1>4, <1>5, <1>6, <1>10, <2>1, <2>5, <3>1 DEF RecordsOK, action
  <2>10. RefsCovered'
    <3>1. ASSUME NEW s \in SchemasOf(p) PROVE RefsIn(s) \subseteq classes
      <4>1. \E code \in DOMAIN p.responses : \E type \in DOMAIN p.responses[code].content :
              s = p.responses[code].content[type]
        BY <2>3, <3>1, SchemasOfFacts
      <4> QED
        BY <2>2, <4>1
    <3> QED
      BY <1>1, <2>5, <2>7, <3>1, RefsKept
  <2>11. ReachInv'
    <3>1. classes \subseteq Roots
      BY <1>1, <1>4, <1>6, <1>10, RouteFacts DEF classes, action
    <3>2. ASSUME NEW c, Closed(c), Within(c) PROVE Within(c)'
      <4>1. Roots \subseteq c /\ DOMAIN doc.components \subseteq c
        BY <3>2, ClosedFacts DEF Within
      <4>2. \A e \in ToSet(stack') : e.class \in classes
        BY <2>1, <2>2, CallsFacts
      <4> QED
        BY <2>5, <3>1, <4>1, <4>2 DEF Within
    <3> QED
      BY <1>1, <3>2, ReachKept
  <2>12. RootInv'
    <3>1. \A r : HasOperations(r)' = HasOperations(r)
      BY <1>1, AppKept
    <3>2. ASSUME NEW k, Exchanges(k) PROVE Exchanges(k)'
      <4>1. \A r \in ToSet(app.actions[k].records) : ExistIgnore(r.rules) \/ Exchanged(r) \subseteq Covered
        <5>1. ToSet(records) = {}
          BY <1>1, EmptyList
        <5> QED
          BY <3>2, <5>1 DEF Exchanges
      <4>2. ToSet(ResponseClasses(app.actions[k].rules)) \subseteq Covered
        BY <3>2 DEF Exchanges
      <4> QED
        BY <1>1, <2>7, <4>1, <4>2, AppKept DEF Exchanges
    <3>3. PICK a : a = operation.action
      OBVIOUS
    <3>4. Exchanges(a)'
      <4>1. ToSet(ResponseClasses(app.actions[a].rules)) \subseteq Covered'
        BY <2>7, <3>3 DEF classes, action
      <4>2. records' = app.actions[a].records /\ current'.action = a
        BY <2>1, <3>3 DEF action
      <4> QED
        BY <1>1, <4>1, <4>2, AppKept DEF Exchanges
    <3>5. ASSUME NEW r \in ToSet(app.routes), HasOperations(r)
          PROVE  (\E o \in ToSet(todo') : o.action = r.action) \/ Exchanges(r.action)'
      <4>1. (\E o \in ToSet(todo) : o.action = r.action) \/ Exchanges(r.action)
        BY <1>1, <3>5 DEF RootInv, Parsing
      <4> QED
        BY <1>3, <3>2, <3>3, <3>4, <4>1
    <3> QED
      BY <1>1, <3>1, <3>5 DEF RootInv, Parsing
  <2> QED
    BY <1>1, <1>7, <1>8, <2>5, <2>7, <2>8, <2>9, <2>10, <2>11, <2>12 DEF IInv, Shape
<1> QED
  BY <1>9, <1>10

\* A record of an operation is looked at: it has its parameters or its body,
\* and the calls begin that its classes need.
Looked(r) ==
  /\ doc'.components = doc.components /\ DOMAIN doc'.operations = DOMAIN doc.operations
  /\ IsList(stack') /\ \A e \in ToSet(stack') : ~Filling(e)
  /\ \A s \in SchemasIn(doc') : s \in SchemasIn(doc) \/ RefsIn(s) \subseteq Covered \cup Awaits(stack')
  /\ ExistIgnore(r.rules) \/ Exchanged(r) \subseteq Awaits(stack')
  /\ \A classes : Roots \subseteq classes /\ Saturated(classes) => \A e \in ToSet(stack') : e.class \in classes

LEMMA RecordFacts ==
  ASSUME IInv, NextRecord
  PROVE  /\ app \in Apps /\ DocOK /\ TodoOK /\ RefsCovered /\ FillInv /\ ReachInv /\ RootInv
         /\ Parsing /\ stack = <<>> /\ records' = Tail(records)
         /\ IsList(records') /\ ToSet(records) = {Head(records)} \cup ToSet(records')
         /\ current.key \in DOMAIN doc.operations
         /\ current.action \in DOMAIN app.actions
         /\ \E route \in ToSet(app.routes) : HasOperations(route) /\ route.action = current.action
         /\ ToSet(records) \subseteq ToSet(app.actions[current.action].records)
         /\ AreRules(Head(records).rules)
         /\ ExistIgnore(Head(records).rules) \/ Exchanged(Head(records)) \subseteq Roots
<1>1. /\ app \in Apps /\ DocOK /\ TodoOK /\ RefsCovered /\ FillInv /\ ReachInv /\ RootInv /\ RecordsOK
      /\ Parsing /\ stack = <<>> /\ records # <<>> /\ records' = Tail(records)
  BY DEF IInv, Shape, NextRecord
<1>2. /\ IsList(records) /\ current.key \in DOMAIN doc.operations
      /\ \E route \in ToSet(app.routes) : HasOperations(route) /\ route.action = current.action
      /\ ToSet(records) \subseteq ToSet(app.actions[current.action].records)
  BY <1>1 DEF RecordsOK
<1>3. IsList(records') /\ ToSet(records) = {Head(records)} \cup ToSet(records')
  BY <1>1, <1>2, HeadTailFacts
<1>4. PICK route \in ToSet(app.routes) : HasOperations(route) /\ route.action = current.action
  BY <1>2
<1>5. /\ route.action \in DOMAIN app.actions
      /\ \A r \in ToSet(app.actions[route.action].records) :
           AreRules(r.rules) /\ (~ExistIgnore(r.rules) => Exchanged(r) \subseteq Roots)
  BY <1>1, <1>4, RouteFacts
<1> QED
  BY <1>1, <1>2, <1>3, <1>4, <1>5

LEMMA RecordKeeps ==
  ASSUME IInv, NextRecord, UNCHANGED <<app, request, answer, todo, current>>, DocOK', StackOK',
         Looked(Head(records))
  PROVE  IInv'
<1> DEFINE r == Head(records)
<1>1. /\ app \in Apps /\ TodoOK /\ RefsCovered /\ FillInv /\ ReachInv /\ RootInv
      /\ Parsing /\ stack = <<>>
      /\ IsList(records') /\ ToSet(records) = {r} \cup ToSet(records')
      /\ current.key \in DOMAIN doc.operations
      /\ \E route \in ToSet(app.routes) : HasOperations(route) /\ route.action = current.action
      /\ ToSet(records) \subseteq ToSet(app.actions[current.action].records)
  BY RecordFacts
<1> HIDE DEF r
<1>2. app' = app /\ answer' = answer /\ todo' = todo /\ current' = current
  OBVIOUS
<1>3. Looked(r)
  BY DEF r
<1>4. doc'.components = doc.components /\ DOMAIN doc'.operations = DOMAIN doc.operations
  BY <1>3 DEF Looked
<1>5. \A route : HasOperations(route)' = HasOperations(route)
  BY <1>2, AppKept
<1>6. TodoOK' /\ RecordsOK'
  BY <1>1, <1>2, <1>4, <1>5 DEF TodoOK, RecordsOK
<1>7. Blankness'
  BY <1>1, <1>2 DEF Blankness, Parsing, None
<1>8. Covered \subseteq Covered' /\ Awaits(stack') \subseteq Covered' /\ Apart(stack') /\ FillInv'
  BY <1>1, <1>2, <1>3, <1>4, VisitsBegin DEF Looked
<1>9. RefsCovered'
  <2>1. \A s \in SchemasIn(doc') : s \in SchemasIn(doc) \/ RefsIn(s) \subseteq Covered'
    BY <1>3, <1>8 DEF Looked
  <2> QED
    BY <1>1, <1>8, <2>1, RefsKept
<1>10. ReachInv'
  <2>1. ASSUME NEW c, Closed(c), Within(c) PROVE Within(c)'
    <3>1. \A e \in ToSet(stack') : e.class \in c
      BY <1>3, <2>1, ClosedFacts DEF Looked
    <3> QED
      BY <1>4, <2>1, <3>1 DEF Within
  <2> QED
    BY <1>1, <1>2, <2>1, ReachKept
<1>11. RootInv'
  <2>1. ASSUME NEW k, Exchanges(k) PROVE Exchanges(k)'
    <3>1. ToSet(ResponseClasses(app.actions[k].rules)) \subseteq Covered'
      BY <1>8, <2>1 DEF Exchanges
    <3>2. ASSUME NEW x \in ToSet(app.actions[k].records)
          PROVE  ExistIgnore(x.rules) \/ Exchanged(x) \subseteq Covered' \/ (current'.action = k /\ x \in ToSet(records'))
      <4>1. ExistIgnore(x.rules) \/ Exchanged(x) \subseteq Covered \/ (current.action = k /\ x \in ToSet(records))
        BY <2>1, <3>2 DEF Exchanges
      <4>2. ExistIgnore(r.rules) \/ Exchanged(r) \subseteq Covered'
        BY <1>3, <1>8 DEF Looked
      <4> QED
        BY <1>1, <1>2, <1>8, <4>1, <4>2
    <3> QED
      BY <1>2, <3>1, <3>2, AppKept DEF Exchanges
  <2>2. \A route \in ToSet(app.routes) :
          HasOperations(route) => (\E o \in ToSet(todo) : o.action = route.action) \/ Exchanges(route.action)
    BY <1>1 DEF RootInv, Parsing
  <2> QED
    BY <1>1, <1>2, <1>5, <2>1, <2>2 DEF RootInv, Parsing
<1> QED
  BY <1>1, <1>2, <1>6, <1>7, <1>8, <1>9, <1>10, <1>11 DEF IInv, Shape

LEMMA ParseParamKeeps ==
  ASSUME IInv, ParseParam
  PROVE  IInv'
<1> DEFINE r == Head(records)
           ps == ParametersOf(r)
           visits == VisitsOfParam(r)
           key == current.key
<1>1. /\ NextRecord /\ UNCHANGED <<app, request, answer, todo, current>> /\ r.type # "body"
      /\ \/ ExistIgnore(r.rules) /\ UNCHANGED <<doc, stack>>
         \/ /\ ~ExistIgnore(r.rules) /\ stack' = visits
            /\ doc' = [doc EXCEPT !.operations[key].params = @ \o ps]
  BY Zenon DEF ParseParam
<1>2. /\ app \in Apps /\ DocOK /\ stack = <<>> /\ key \in DOMAIN doc.operations /\ AreRules(r.rules)
      /\ ExistIgnore(r.rules) \/ Exchanged(r) \subseteq Roots
  BY <1>1, RecordFacts
<1>3. app' = app
  BY <1>1
<1>4. CASE ExistIgnore(r.rules)
  <2>1. doc' = doc /\ stack' = <<>>
    BY <1>1, <1>2, <1>4
  <2>2. IsList(stack') /\ ToSet(stack') = {}
    BY <2>1, EmptyList
  <2>3. DocOK' /\ StackOK'
    BY <1>2, <1>3, <2>1, <2>2 DEF DocOK, StackOK
  <2>4. Looked(r)
    BY <1>4, <2>1, <2>2 DEF Looked
  <2> QED
    BY <1>1, <2>3, <2>4, RecordKeeps
<1>5. CASE ~ExistIgnore(r.rules)
  <2>1. /\ IsList(ps) /\ Calls(visits)
        /\ \A i \in DOMAIN ps : RefsIn(ps[i].schema) \subseteq Awaits(visits)
        /\ Exchanged(r) \subseteq Awaits(visits)
        /\ \A classes : Exchanged(r) \subseteq classes /\ Saturated(classes) => Awaits(visits) \subseteq classes
    BY <1>1, <1>2, RecordParameters
  <2> HIDE DEF ps, visits, key
  <2>2. stack' = visits /\ doc' = [doc EXCEPT !.operations[key].params = @ \o ps]
    BY <1>1, <1>5
  <2>3. /\ DocOK' /\ doc'.components = doc.components /\ DOMAIN doc'.operations = DOMAIN doc.operations
        /\ \A s \in SchemasIn(doc') : s \in SchemasIn(doc) \/ \E i \in DOMAIN ps : s = ps[i].schema
    BY <1>2, <1>3, <2>1, <2>2, ParamsAdded
  <2>4. stack' = visits
    BY <2>2
  <2>5. IsList(stack') /\ \A e \in ToSet(stack') : IsCall(e) /\ e.class \in Awaits(visits)
    BY <2>1, <2>4, CallsFacts DEF Calls
  <2>6. StackOK'
    <3>1. ASSUME NEW e, IsCall(e) PROVE EntryOK(e)'
      BY <1>3, <3>1 DEF IsCall, EntryOK
    <3> QED
      BY <2>5, <3>1 DEF StackOK
  <2>7. Looked(r)
    <3>1. \A classes : Roots \subseteq classes /\ Saturated(classes) => \A e \in ToSet(stack') : e.class \in classes
      BY <1>2, <1>5, <2>1, <2>5
    <3>2. \A e \in ToSet(stack') : ~Filling(e)
      BY <2>5, CallFacts
    <3>3. \A s \in SchemasIn(doc') : s \in SchemasIn(doc) \/ RefsIn(s) \subseteq Covered \cup Awaits(stack')
      BY <2>1, <2>3, <2>4
    <3> QED
      BY <2>1, <2>3, <2>4, <2>5, <3>1, <3>2, <3>3 DEF Looked
  <2> QED
    BY <1>1, <2>3, <2>6, <2>7, RecordKeeps
<1> QED
  BY <1>4, <1>5

LEMMA ContentTypesFacts ==
  ASSUME NEW rules, AreRules(rules), NEW name
  PROVE  IsList(ContentTypes(rules, name)) /\ ContentTypes(rules, name) # <<>>
  BY ArgsFacts, OneList DEF ContentTypes

\* The body a record makes of the one there was.
OldContent(body, type) == IF type \in DOMAIN body.content THEN body.content[type] ELSE Blank
NewContent(r, body, types) ==
  [type \in ToSet(types) \cup DOMAIN body.content |->
     IF type \in ToSet(types) THEN BodySchema(r, OldContent(body, type)) ELSE body.content[type]]
BodyCalls(r, key, types) == FlattenSeq([i \in DOMAIN types |-> VisitsOfBody(r, InBody(key, types[i]))])

LEMMA BodyCallsFacts ==
  ASSUME app \in Apps, NEW r, AreRules(r.rules), r.type = "body", NEW key, NEW types, IsList(types), types # <<>>
  PROVE  /\ IsList(BodyCalls(r, key, types))
         /\ \A e \in ToSet(BodyCalls(r, key, types)) :
              /\ e.class \in Exchanged(r)
              /\ IsCall(e) \/ \E type \in ToSet(types) : IsBodyCall(e, InBody(key, type))
         /\ Exchanged(r) \subseteq Awaits(BodyCalls(r, key, types))
         /\ \A type \in ToSet(types) : \A old : IsSchema(old) =>
              /\ IsSchema(BodySchema(r, old))
              /\ RefsIn(BodySchema(r, old)) \subseteq RefsIn(old) \cup Awaits(BodyCalls(r, key, types))
<1> DEFINE n == Len(types)
           f == [i \in 1 .. n |-> VisitsOfBody(r, InBody(key, types[i]))]
           calls == BodyCalls(r, key, types)
<1>1. /\ n \in Nat /\ DOMAIN types = 1 .. n /\ n # 0 /\ \A i \in 1 .. n : types[i] \in ToSet(types)
      /\ \A x \in ToSet(types) : \E i \in 1 .. n : types[i] = x
  BY ListFacts
<1>2. calls = FlattenSeq(f)
  BY <1>1 DEF BodyCalls
<1>3. f = [i \in 1 .. n |-> f[i]] /\ \A i \in 1 .. n : f[i] = VisitsOfBody(r, InBody(key, types[i]))
  OBVIOUS
<1>4. ASSUME NEW into
      PROVE  /\ IsList(VisitsOfBody(r, into))
             /\ \A e \in ToSet(VisitsOfBody(r, into)) :
                  e.class \in Exchanged(r) /\ (IsCall(e) \/ IsBodyCall(e, into))
             /\ Exchanged(r) \subseteq Awaits(VisitsOfBody(r, into))
             /\ \A old : IsSchema(old) =>
                  /\ IsSchema(BodySchema(r, old))
                  /\ RefsIn(BodySchema(r, old)) \subseteq RefsIn(old) \cup Awaits(VisitsOfBody(r, into))
  <2>1. IsSchema(Blank)
    BY SchemasMade
  <2>2. ASSUME NEW old, IsSchema(old)
        PROVE  /\ IsSchema(BodySchema(r, old))
               /\ RefsIn(BodySchema(r, old)) \subseteq RefsIn(old) \cup Awaits(VisitsOfBody(r, into))
    BY <2>2, BodyRefs
  <2> QED
    BY <2>1, <2>2, BodyRefs
<1> HIDE DEF f, n, calls
<1>5. \A i \in 1 .. n : IsList(f[i])
  BY <1>3, <1>4
<1>6. IsList(calls) /\ ToSet(calls) = UNION {ToSet(f[i]) : i \in 1 .. n}
  BY <1>1, <1>2, <1>3, <1>5, JoinAllFacts
<1>7. ASSUME NEW e \in ToSet(calls)
      PROVE  e.class \in Exchanged(r) /\ (IsCall(e) \/ \E type \in ToSet(types) : IsBodyCall(e, InBody(key, type)))
  <2>1. PICK i \in 1 .. n : e \in ToSet(f[i])
    BY <1>6
  <2> QED
    BY <1>1, <1>3, <1>4, <2>1
<1>8. \A i \in 1 .. n : Awaits(f[i]) \subseteq Awaits(calls)
  BY <1>6 DEF Awaits
<1>9. 1 \in 1 .. n
  BY <1>1
<1>10. Exchanged(r) \subseteq Awaits(calls)
  <2>1. Exchanged(r) \subseteq Awaits(f[1])
    BY <1>3, <1>4, <1>9
  <2> QED
    BY <1>8, <1>9, <2>1
<1>11. ASSUME NEW old, IsSchema(old)
       PROVE  /\ IsSchema(BodySchema(r, old))
              /\ RefsIn(BodySchema(r, old)) \subseteq RefsIn(old) \cup Awaits(calls)
  <2>1. /\ IsSchema(BodySchema(r, old))
        /\ RefsIn(BodySchema(r, old)) \subseteq RefsIn(old) \cup Awaits(f[1])
    BY <1>3, <1>4, <1>9, <1>11
  <2> QED
    BY <1>8, <1>9, <2>1
<1> QED
  BY <1>6, <1>7, <1>10, <1>11 DEF calls

LEMMA ParseBodyKeeps ==
  ASSUME IInv, ParseBody
  PROVE  IInv'
<1> DEFINE r == Head(records)
           key == current.key
           body == doc.operations[key].body
           types == ContentTypes(app.actions[current.action].rules, "ContentTypes")
           content == NewContent(r, body, types)
           opts == DynamicSetValue(body.opts, r.rules, BodyRows)
           b == [opts |-> opts, content |-> content]
           calls == BodyCalls(r, key, types)
<1>1. /\ NextRecord /\ UNCHANGED <<app, request, answer, todo, current>> /\ r.type = "body"
      /\ \/ ExistIgnore(r.rules) /\ UNCHANGED <<doc, stack>>
         \/ ~ExistIgnore(r.rules) /\ stack' = calls /\ BodyBecomes(key, b)
  BY Zenon DEF ParseBody, BodyBecomes, BodyCalls, NewContent, OldContent
<1>2. /\ app \in Apps /\ DocOK /\ RefsCovered /\ stack = <<>>
      /\ key \in DOMAIN doc.operations /\ AreRules(r.rules) /\ current.action \in DOMAIN app.actions
      /\ ExistIgnore(r.rules) \/ Exchanged(r) \subseteq Roots
  BY <1>1, RecordFacts
<1>3. app' = app
  BY <1>1
<1>4. CASE ExistIgnore(r.rules)
  <2>1. doc' = doc /\ stack' = <<>>
    BY <1>1, <1>2, <1>4
  <2>2. IsList(stack') /\ ToSet(stack') = {}
    BY <2>1, EmptyList
  <2>3. DocOK' /\ StackOK'
    BY <1>2, <1>3, <2>1, <2>2 DEF DocOK, StackOK
  <2>4. Looked(r)
    BY <1>4, <2>1, <2>2 DEF Looked
  <2> QED
    BY <1>1, <2>3, <2>4, RecordKeeps
<1>5. CASE ~ExistIgnore(r.rules)
  <2>1. stack' = calls /\ BodyBecomes(key, b) /\ Exchanged(r) \subseteq Roots
    BY <1>1, <1>2, <1>5
  <2>2. IsList(types) /\ types # <<>>
    <3>1. AreRules(app.actions[current.action].rules)
      BY <1>2, AppFacts
    <3> QED
      BY <3>1, ContentTypesFacts
  <2>3. \A type \in DOMAIN body.content : IsSchema(body.content[type]) /\ RefsIn(body.content[type]) \subseteq Covered
    <3>1. IsOperation(doc.operations[key])
      BY <1>2 DEF DocOK
    <3>2. ASSUME NEW type \in DOMAIN body.content PROVE body.content[type] \in SchemasIn(doc)
      <4>1. body.content[type] \in SchemasOf(doc.operations[key])
        BY <3>2, SchemasOfFacts
      <4> QED
        BY <1>2, <4>1, SchemasInFacts
    <3> QED
      BY <1>2, <3>1, <3>2 DEF IsOperation, RefsCovered
  <2>4. /\ IsList(calls)
        /\ \A e \in ToSet(calls) :
             /\ e.class \in Exchanged(r)
             /\ IsCall(e) \/ \E type \in ToSet(types) : IsBodyCall(e, InBody(key, type))
        /\ Exchanged(r) \subseteq Awaits(calls)
        /\ \A type \in ToSet(types) : \A old : IsSchema(old) =>
             /\ IsSchema(BodySchema(r, old))
             /\ RefsIn(BodySchema(r, old)) \subseteq RefsIn(old) \cup Awaits(calls)
    <3> HIDE DEF types, r
    <3> QED
      BY <1>1, <1>2, <2>2, BodyCallsFacts
  <2>5. \A type : /\ IsSchema(OldContent(body, type))
                  /\ RefsIn(OldContent(body, type)) \subseteq Covered
    <3>1. IsSchema(Blank) /\ RefsIn(Blank) = {}
      BY NoRefs
    <3> HIDE DEF body
    <3> QED
      BY <2>3, <3>1 DEF OldContent
  <2>6. \A type \in DOMAIN content : IsSchema(content[type]) /\ RefsIn(content[type]) \subseteq Covered \cup Awaits(calls)
    <3> HIDE DEF calls, types, body, r
    <3>1. DOMAIN content = ToSet(types) \cup DOMAIN body.content
      BY DEF NewContent
    <3>2. ASSUME NEW type \in DOMAIN content, type \in ToSet(types)
          PROVE  IsSchema(content[type]) /\ RefsIn(content[type]) \subseteq Covered \cup Awaits(calls)
      <4>1. content[type] = BodySchema(r, OldContent(body, type))
        BY <3>1, <3>2 DEF NewContent
      <4> QED
        BY <2>4, <2>5, <3>2, <4>1
    <3>3. ASSUME NEW type \in DOMAIN content, type \notin ToSet(types)
          PROVE  IsSchema(content[type]) /\ RefsIn(content[type]) \subseteq Covered
      <4>1. type \in DOMAIN body.content /\ content[type] = body.content[type]
        BY <3>1, <3>3 DEF NewContent
      <4> QED
        BY <2>3, <4>1
    <3> QED
      BY <3>2, <3>3
  <2>7. ToSet(types) \subseteq DOMAIN content
    BY DEF NewContent
  <2> HIDE DEF content, opts
  <2>8. IsBody(b) /\ b.content = content
    BY DEF IsBody
  <2> HIDE DEF b, calls, types, key, r
  <2>9. /\ DocOK' /\ doc'.components = doc.components
        /\ DOMAIN doc'.operations = DOMAIN doc.operations /\ doc'.operations[key].body = b
        /\ \A s \in SchemasIn(doc') : s \in SchemasIn(doc) \/ \E type \in DOMAIN b.content : s = b.content[type]
    BY <1>2, <1>3, <2>1, <2>6, <2>8, BodySet
  <2>10. StackOK'
    <3>1. ASSUME NEW e, IsCall(e) PROVE EntryOK(e)'
      BY <1>3, <3>1 DEF IsCall, EntryOK
    <3>2. ASSUME NEW type \in ToSet(types), NEW e, IsBodyCall(e, InBody(key, type)) PROVE EntryOK(e)'
      <4>1. e = [step |-> "body", class |-> e.class, into |-> e.into] /\ e.class \in DOMAIN app.classes
        BY <3>2 DEF IsBodyCall
      <4>2. e.into = <<key, type>>
        BY <3>2 DEF IsBodyCall, InBody
      <4>3. e.into[1] = key /\ e.into[2] = type /\ e.into = <<e.into[1], e.into[2]>>
        BY <4>2
      <4>4. Placed(e.into)'
        BY <1>2, <2>7, <2>8, <2>9, <4>3 DEF Placed
      <4>5. e.step = "body"
        BY <4>1
      <4> QED
        BY <1>3, <4>1, <4>4, <4>5 DEF EntryOK
    <3> QED
      BY <2>1, <2>4, <3>1, <3>2 DEF StackOK
  <2>11. Looked(r)
    <3>1. \A e \in ToSet(stack') : ~Filling(e) /\ e.class \in Exchanged(r)
      <4>1. \A e, into : IsBodyCall(e, into) => e.step = "body"
        BY DEF IsBodyCall
      <4> QED
        BY <2>1, <2>4, <4>1, CallFacts DEF Filling
    <3>2. \A s \in SchemasIn(doc') : s \in SchemasIn(doc) \/ RefsIn(s) \subseteq Covered \cup Awaits(stack')
      BY <2>1, <2>6, <2>8, <2>9
    <3>3. IsList(stack') /\ Exchanged(r) \subseteq Awaits(stack')
      BY <2>1, <2>4
    <3>4. \A classes : Roots \subseteq classes /\ Saturated(classes) => \A e \in ToSet(stack') : e.class \in classes
      BY <2>1, <3>1
    <3> QED
      BY <2>9, <3>1, <3>2, <3>3, <3>4 DEF Looked
  <2> QED
    BY <1>1, <2>9, <2>10, <2>11, RecordKeeps DEF r
<1> QED
  BY <1>4, <1>5

-----------------------------------------------------------------------------
(* The steps of the calls on the stack.                                    *)

LEMMA TopFacts ==
  ASSUME IInv, Parsing, stack # <<>>
  PROVE  /\ app \in Apps /\ DocOK /\ StackOK /\ TodoOK /\ RecordsOK
         /\ RefsCovered /\ Apart(stack) /\ FillInv /\ ReachInv /\ RootInv
         /\ IsList(stack) /\ IsList(Tail(stack)) /\ ToSet(stack) = {Top} \cup ToSet(Tail(stack))
         /\ EntryOK(Top) /\ \A e \in ToSet(Tail(stack)) : EntryOK(e)
         /\ Apart(Tail(stack))
         /\ Filling(Top) => \A e \in ToSet(Tail(stack)) : Filling(e) => e.class # Top.class
<1>1. /\ app \in Apps /\ DocOK /\ StackOK /\ TodoOK /\ RecordsOK
      /\ RefsCovered /\ Apart(stack) /\ FillInv /\ ReachInv /\ RootInv
  BY DEF IInv, Shape
<1>2. IsList(stack) /\ \A e \in ToSet(stack) : EntryOK(e)
  BY <1>1 DEF StackOK
<1>3. IsList(Tail(stack)) /\ ToSet(stack) = {Top} \cup ToSet(Tail(stack))
  BY <1>2, HeadTailFacts DEF Top
<1>4. Apart(Tail(stack)) /\ (Filling(Top) => \A e \in ToSet(Tail(stack)) : Filling(e) => e.class # Top.class)
  BY <1>1, <1>2, ApartTail DEF Top
<1> QED
  BY <1>1, <1>2, <1>3, <1>4

LEMMA CallsKeep ==
  ASSUME IInv, Parsing, stack # <<>>, UNCHANGED <<app, todo, current, records>>, answer' \in {"parsing", "failed"},
         DocOK', StackOK', Grows, Covered \subseteq Covered', Apart(stack'), FillInv',
         \A s \in SchemasIn(doc') : s \in SchemasIn(doc) \/ RefsIn(s) \subseteq Covered',
         \A classes : Saturated(classes) /\ Within(classes) => Within(classes)'
  PROVE  IInv'
<1>1. /\ app \in Apps /\ TodoOK /\ RecordsOK /\ RefsCovered /\ ReachInv /\ RootInv
  BY TopFacts
<1>2. app' = app /\ todo' = todo /\ current' = current /\ records' = records
  OBVIOUS
<1>3. TodoOK' /\ RecordsOK'
  BY <1>1, <1>2, ListsKept DEF Grows
<1>4. RefsCovered' /\ RootInv'
  BY <1>1, <1>2, RefsKept, RootsKept
<1>5. ReachInv'
  BY <1>1, <1>2, ReachKept, ClosedFacts
<1>6. Blankness'
  BY DEF Blankness, None
<1> QED
  BY <1>1, <1>2, <1>3, <1>4, <1>5, <1>6 DEF IInv, Shape

\* A call takes the place of the top one.
LEMMA PushedFacts ==
  ASSUME NEW e, NEW t, IsList(t), Apart(t), Filling(e) => \A x \in ToSet(t) : Filling(x) => x.class # e.class
  PROVE  /\ IsList(<<e>> \o t) /\ ToSet(<<e>> \o t) = {e} \cup ToSet(t) /\ Apart(<<e>> \o t)
         /\ e.step # "component" => Awaits(<<e>> \o t) = Awaits(t)
<1> DEFINE s == <<e>>
           u == s \o t
<1>1. IsList(s) /\ ToSet(s) = {e}
  BY OneList
<1>2. Apart(u)
  BY ApartPushed
<1> HIDE DEF s
<1>3. IsList(u) /\ ToSet(u) = ToSet(s) \cup ToSet(t)
  BY <1>1, JoinFacts
<1> HIDE DEF u
<1>4. ToSet(u) = {e} \cup ToSet(t)
  BY <1>1, <1>3
<1>5. e.step # "component" => Awaits(u) = Awaits(t)
  BY <1>4 DEF Awaits
<1> QED
  BY <1>2, <1>3, <1>4, <1>5 DEF u, s

LEMMA EntriesKept ==
  ASSUME app' = app, Grows, StackOK, \A e \in ToSet(stack') : e \in ToSet(stack) \/ EntryOK(e)', IsList(stack')
  PROVE  StackOK'
  BY EntryKept DEF StackOK

\* The top call ends, with nothing written.
LEMMA PoppedKeeps ==
  ASSUME IInv, Parsing, stack # <<>>, UNCHANGED <<app, answer, doc, todo, current, records>>, stack' = Tail(stack),
         Top.step = "component" => Top.class \in DOMAIN doc.components,
         Filling(Top) => Top.members = <<>>
  PROVE  IInv'
<1>1. /\ app \in Apps /\ DocOK /\ StackOK /\ FillInv
      /\ IsList(Tail(stack)) /\ ToSet(stack) = {Top} \cup ToSet(Tail(stack)) /\ EntryOK(Top) /\ Apart(Tail(stack))
  BY TopFacts
<1>2. app' = app /\ doc' = doc /\ answer' = "parsing"
  BY DEF Parsing
<1>3. Grows /\ DocOK'
  BY <1>1, <1>2 DEF Grows, DocOK
<1>4. Covered \subseteq Covered'
  BY <1>1, <1>2 DEF Covered, Awaits
<1>5. StackOK'
  BY <1>1, <1>2, <1>3, EntriesKept
<1>6. FillInv'
  <2>1. ASSUME Filling(Top) PROVE FilledTo(Top.class, Len(MembersOf(Top.class)))
    <3>1. Top.class \in DOMAIN app.classes /\ Len(Top.members) = 0
      BY <1>1, <2>1 DEF EntryOK
    <3>2. Len(MembersOf(Top.class)) \in Nat
      BY <1>1, <3>1, AppFacts, ListFacts
    <3>3. Done(Top) = Len(MembersOf(Top.class))
      BY <3>1, <3>2 DEF Done
    <3> QED
      BY <1>1, <2>1, <3>3 DEF FillInv
  <2> QED
    BY <1>1, <1>2, <1>4, <2>1, FillKept
<1>7. \A classes : Within(classes) => Within(classes)'
  BY <1>1, <1>2 DEF Within
<1> QED
  BY <1>1, <1>2, <1>3, <1>4, <1>5, <1>6, <1>7, CallsKeep

LEMMA EndModelKeeps ==
  ASSUME IInv, EndModel
  PROVE  IInv'
<1>1. /\ Parsing /\ stack # <<>> /\ Top.step = "model" /\ Top.members = <<>> /\ stack' = Tail(stack)
      /\ UNCHANGED <<app, answer, doc, todo, current, records>>
  BY DEF EndModel, Unfilled
<1> QED
  BY <1>1, PoppedKeeps

LEMMA ModelFacts ==
  ASSUME app \in Apps, NEW class \in DOMAIN app.classes, NEW into
  PROVE  LET e == ModelOf(class, into)
         IN /\ e = [step |-> "model", class |-> class, into |-> into, members |-> MembersOf(class)]
            /\ e.step = "model" /\ e.class = class /\ e.into = into
            /\ Done(e) = 0 /\ MembersLeft(e)
<1> DEFINE e == ModelOf(class, into)
<1>1. e = [step |-> "model", class |-> class, into |-> into, members |-> MembersOf(class)]
  BY DEF ModelOf, MembersOf
<1>2. e.step = "model" /\ e.class = class /\ e.into = into /\ e.members = MembersOf(class)
  BY <1>1
<1>3. IsList(MembersOf(class)) /\ Len(MembersOf(class)) \in Nat
  BY AppFacts, ListFacts
<1> HIDE DEF e
<1>4. Done(e) = 0
  BY <1>2, <1>3 DEF Done
<1>5. MembersLeft(e)
  BY <1>2, <1>3, <1>4 DEF MembersLeft
<1> QED
  BY <1>1, <1>2, <1>4, <1>5 DEF e

LEMMA SetComponentKeeps ==
  ASSUME IInv, SetComponent
  PROVE  IInv'
<1> DEFINE class == Top.class
           empty == SetSchemaValue(EmptyModel, Top.rules)
           schema == BeginModel(class, empty)
           e == ModelOf(class, InComponent)
<1>1. /\ Parsing /\ stack # <<>> /\ Top.step = "component"
      /\ UNCHANGED <<app, answer, todo, current, records>>
      /\ \/ class \in DOMAIN doc.components /\ stack' = Tail(stack) /\ UNCHANGED doc
         \/ /\ class \notin DOMAIN doc.components /\ ComponentBecomes(class, schema)
            /\ stack' = <<e>> \o Tail(stack)
  BY Zenon DEF SetComponent, WithSchema, ComponentBecomes, Unfilled, InComponent
<1>2. CASE class \in DOMAIN doc.components
  <2>1. ~Filling(Top)
    BY <1>1 DEF Filling
  <2> QED
    BY <1>1, <1>2, <2>1, PoppedKeeps
<1>3. CASE class \notin DOMAIN doc.components
  <2>1. /\ app \in Apps /\ DocOK /\ StackOK /\ FillInv
        /\ IsList(Tail(stack)) /\ ToSet(stack) = {Top} \cup ToSet(Tail(stack))
        /\ EntryOK(Top) /\ (\A x \in ToSet(Tail(stack)) : EntryOK(x)) /\ Apart(Tail(stack))
    BY <1>1, TopFacts
  <2>2. class \in DOMAIN app.classes /\ ~Filling(Top)
    BY <1>1, <2>1 DEF EntryOK, Filling
  <2>3. IsSchema(schema) /\ schema.props = <<>> /\ schema.required = {} /\ RefsIn(schema) = {}
    <3>1. IsSchema(EmptyModel) /\ EmptyModel.props = <<>> /\ RefsIn(EmptyModel) = {}
      BY SchemasMade, NoRefs
    <3>2. IsSchema(empty) /\ Alike(empty, EmptyModel)
      BY <3>1, SchemasChanged, Zenon
    <3> HIDE DEF empty
    <3>3. IsSchema(schema) /\ Alike(schema, empty) /\ schema.required = {}
      BY <3>2, SchemasChanged, Zenon
    <3> HIDE DEF schema
    <3>4. RefsIn(schema) = {}
      BY <3>1, <3>2, <3>3, AlikeRefs
    <3>5. schema.props = <<>>
      BY <3>1, <3>2, <3>3 DEF Alike
    <3> QED
      BY <3>3, <3>4, <3>5
  <2> HIDE DEF schema
  <2>4. /\ e = [step |-> "model", class |-> class, into |-> InComponent, members |-> MembersOf(class)]
        /\ e.step = "model" /\ e.class = class /\ e.into = InComponent /\ Done(e) = 0 /\ MembersLeft(e)
    BY <2>1, <2>2, ModelFacts, Zenon
  <2>5. e = [step |-> "model", class |-> e.class, into |-> e.into, members |-> e.members]
    <3> HIDE DEF class
    <3> QED
      BY <2>4
  <2> HIDE DEF e, class
  <2>6. ComponentBecomes(class, schema) /\ app' = app /\ stack' = <<e>> \o Tail(stack)
    BY <1>1, <1>3
  <2>7. /\ DocOK' /\ doc'.operations = doc.operations
        /\ DOMAIN doc'.components = {class} \cup DOMAIN doc.components /\ doc'.components[class] = schema
        /\ \A c \in DOMAIN doc.components \ {class} : doc'.components[c] = doc.components[c]
        /\ \A s \in SchemasIn(doc') : s \in SchemasIn(doc) \/ s = schema
    BY <2>1, <2>2, <2>3, <2>6, ComponentPut
  <2>8. Grows
    BY <2>7 DEF Grows
  <2>9. ASSUME NEW x \in ToSet(Tail(stack)), Filling(x) PROVE x.class \in DOMAIN doc.components
    <3>1. ~Placed(<<>>)
      BY DEF Placed
    <3> QED
      BY <2>1, <2>9, <3>1 DEF EntryOK, Filling, InComponent
  <2>10. /\ IsList(stack') /\ ToSet(stack') = {e} \cup ToSet(Tail(stack)) /\ Apart(stack')
         /\ Awaits(stack') = Awaits(Tail(stack))
    BY <1>3, <2>1, <2>4, <2>6, <2>9, PushedFacts
  <2>11. Covered \subseteq Covered'
    <3>1. \A x \in Awaits(stack) : x = class \/ x \in Awaits(Tail(stack))
      BY <2>1 DEF Awaits, class
    <3> QED
      BY <2>7, <2>10, <3>1 DEF Covered
  <2>12. StackOK'
    <3>1. PICK x : x = e
      OBVIOUS
    <3>2. MembersLeft(x)'
      BY <2>4, <2>6, <3>1, AppKept
    <3>3. EntryOK(x)'
      BY <2>2, <2>4, <2>5, <2>6, <2>7, <3>1, <3>2 DEF EntryOK
    <3> QED
      BY <2>1, <2>6, <2>8, <2>10, <3>1, <3>3, EntriesKept
  <2>13. FillInv'
    <3>1. ASSUME NEW c, NEW n, c # class, c \in DOMAIN doc.components, FilledTo(c, n) PROVE FilledTo(c, n)'
      BY <2>6, <2>7, <2>11, <3>1, FilledKept
    <3>2. \A x : Done(x)' = Done(x)
      BY <2>6, AppKept
    <3>3. \A c : MembersOf(c)' = MembersOf(c)
      BY <2>6, AppKept
    <3>4. PICK k : k = class
      OBVIOUS
    <3>5. FilledTo(k, 0)'
      <4>1. NotNull(<<>>) = {} /\ DOMAIN <<>> = {}
        BY DEF NotNull
      <4>2. doc'.components[k].props = <<>> /\ doc'.components[k].required = {}
        BY <2>3, <2>7, <3>4
      <4> QED
        BY <4>1, <4>2 DEF FilledTo
    <3>6. ASSUME NEW x \in ToSet(stack'), Filling(x) PROVE FilledTo(x.class, Done(x))'
      <4>1. CASE x = e
        <5>1. x.class = k /\ Done(x)' = 0
          BY <2>4, <3>2, <3>4, <4>1
        <5> QED
          BY <3>5, <5>1
      <4>2. CASE x \in ToSet(Tail(stack))
        <5>1. x.class \in DOMAIN doc.components /\ x.class # class /\ FilledTo(x.class, Done(x))
          BY <1>3, <2>1, <2>9, <3>6, <4>2 DEF FillInv
        <5> QED
          BY <3>1, <3>2, <5>1
      <4> QED
        BY <2>10, <3>6, <4>1, <4>2
    <3>7. ASSUME NEW c \in DOMAIN doc'.components, c \notin Unfinished' PROVE FilledTo(c, Len(MembersOf(c)))'
      <4>1. c # class
        BY <2>4, <2>10, <3>7 DEF Unfinished, Filling
      <4>2. c \notin Unfinished
        BY <2>1, <2>2, <2>10, <3>7 DEF Unfinished
      <4>3. c \in DOMAIN doc.components /\ FilledTo(c, Len(MembersOf(c)))
        BY <2>1, <2>7, <3>7, <4>1, <4>2 DEF FillInv
      <4> QED
        BY <3>1, <3>3, <4>1, <4>3
    <3> QED
      BY <3>6, <3>7 DEF FillInv
  <2>14. ASSUME NEW classes, Within(classes) PROVE Within(classes)'
    <3>1. class \in classes
      BY <2>1, <2>14 DEF Within, class
    <3> QED
      BY <2>1, <2>4, <2>7, <2>10, <2>14, <3>1 DEF Within
  <2>15. \A s \in SchemasIn(doc') : s \in SchemasIn(doc) \/ RefsIn(s) \subseteq Covered'
    BY <2>3, <2>7
  <2>16. answer' \in {"parsing", "failed"}
    BY <1>1 DEF Parsing
  <2> QED
    BY <1>1, <2>7, <2>8, <2>10, <2>11, <2>12, <2>13, <2>14, <2>15, <2>16, CallsKeep
<1> QED
  BY <1>2, <1>3

\* A body's schema is no component's.
LEMMA PlacedFacts ==
  ASSUME DocOK, RefsCovered, NEW into, Placed(into)
  PROVE  /\ into # InComponent
         /\ IsSchema(doc.operations[into[1]].body.content[into[2]])
         /\ RefsIn(doc.operations[into[1]].body.content[into[2]]) \subseteq Covered
<1> DEFINE key == into[1]
           type == into[2]
<1>1. key \in DOMAIN doc.operations /\ type \in DOMAIN doc.operations[key].body.content
  BY DEF Placed
<1>2. into # InComponent
  BY DEF Placed, InComponent
<1> HIDE DEF key, type
<1>3. IsOperation(doc.operations[key])
  BY <1>1 DEF DocOK
<1>4. doc.operations[key].body.content[type] \in SchemasOf(doc.operations[key])
  BY <1>1, SchemasOfFacts
<1>5. doc.operations[key].body.content[type] \in SchemasIn(doc)
  BY <1>1, <1>4, SchemasInFacts
<1> QED
  BY <1>1, <1>2, <1>3, <1>5 DEF IsOperation, RefsCovered, key, type

LEMMA SetBodyModelKeeps ==
  ASSUME IInv, SetBodyModel
  PROVE  IInv'
<1> DEFINE class == Top.class
           into == Top.into
           old == doc.operations[into[1]].body.content[into[2]]
           schema == BeginModel(class, old)
           e == ModelOf(class, into)
<1>1. /\ Parsing /\ stack # <<>> /\ Top.step = "body" /\ UNCHANGED <<app, answer, todo, current, records>>
      /\ stack' = <<e>> \o Tail(stack)
      /\ doc' = WithSchema(class, into, BeginModel(class, SchemaAt(class, into)))
  BY DEF SetBodyModel, Unfilled
<1>2. /\ app \in Apps /\ DocOK /\ StackOK /\ FillInv /\ RefsCovered
      /\ IsList(Tail(stack)) /\ ToSet(stack) = {Top} \cup ToSet(Tail(stack))
      /\ EntryOK(Top) /\ (\A x \in ToSet(Tail(stack)) : EntryOK(x)) /\ Apart(Tail(stack))
  BY <1>1, TopFacts
<1>3. class \in DOMAIN app.classes /\ Placed(into)
  BY <1>1, <1>2 DEF EntryOK
<1>4. into # InComponent /\ IsSchema(old) /\ RefsIn(old) \subseteq Covered
  BY <1>2, <1>3, PlacedFacts, Zenon
<1>5. ContentBecomes(into, schema)
  BY <1>1, <1>4, Zenon DEF WithSchema, SchemaAt, ContentBecomes
<1>6. IsSchema(schema) /\ RefsIn(schema) = RefsIn(old)
  <2> HIDE DEF old
  <2>1. IsSchema(schema) /\ Alike(schema, old)
    BY <1>4, SchemasChanged, Zenon
  <2> HIDE DEF schema
  <2> QED
    BY <2>1, AlikeRefs
<1> HIDE DEF schema, old
<1>7. /\ e = [step |-> "model", class |-> class, into |-> into, members |-> MembersOf(class)]
      /\ e.step = "model" /\ e.class = class /\ e.into = into /\ Done(e) = 0 /\ MembersLeft(e)
  <2> HIDE DEF class, into
  <2> QED
    BY <1>2, <1>3, ModelFacts
<1>8. e = [step |-> "model", class |-> e.class, into |-> e.into, members |-> e.members]
  <2> HIDE DEF class, into
  <2> QED
    BY <1>7
<1> HIDE DEF e, class, into
<1>9. app' = app /\ stack' = <<e>> \o Tail(stack) /\ ~Filling(e) /\ ~Filling(Top)
  BY <1>1, <1>4, <1>7 DEF Filling
<1>10. /\ DocOK' /\ doc'.components = doc.components
       /\ DOMAIN doc'.operations = DOMAIN doc.operations
       /\ \A k \in DOMAIN doc.operations :
            DOMAIN doc'.operations[k].body.content = DOMAIN doc.operations[k].body.content
       /\ \A s \in SchemasIn(doc') : s \in SchemasIn(doc) \/ s = schema
  BY <1>2, <1>3, <1>5, <1>6, <1>9, ContentPut
<1>11. Grows
  BY <1>10 DEF Grows
<1>12. /\ IsList(stack') /\ ToSet(stack') = {e} \cup ToSet(Tail(stack)) /\ Apart(stack')
       /\ Awaits(stack') = Awaits(Tail(stack))
  BY <1>2, <1>7, <1>9, PushedFacts
<1>13. Covered' = Covered
  <2>1. Awaits(stack) = Awaits(Tail(stack))
    BY <1>1, <1>2 DEF Awaits
  <2> QED
    BY <1>10, <1>12, <2>1 DEF Covered
<1>14. StackOK'
  <2>1. PICK x : x = e
    OBVIOUS
  <2>2. MembersLeft(x)'
    BY <1>7, <1>9, <2>1, AppKept
  <2>3. Placed(x.into)'
    BY <1>3, <1>7, <1>10, <2>1 DEF Placed
  <2>4. EntryOK(x)'
    BY <1>3, <1>7, <1>8, <1>9, <2>1, <2>2, <2>3 DEF EntryOK
  <2> QED
    BY <1>2, <1>9, <1>11, <1>12, <2>1, <2>4, EntriesKept
<1>15. FillInv'
  BY <1>2, <1>9, <1>10, <1>12, <1>13, FillKept
<1>16. ASSUME NEW classes, Within(classes) PROVE Within(classes)'
  <2>1. e.class \in classes
    BY <1>2, <1>7, <1>16 DEF Within, class
  <2> QED
    BY <1>2, <1>10, <1>12, <1>16, <2>1 DEF Within
<1>17. \A s \in SchemasIn(doc') : s \in SchemasIn(doc) \/ RefsIn(s) \subseteq Covered'
  BY <1>4, <1>6, <1>10, <1>13
<1>18. answer' \in {"parsing", "failed"}
  BY <1>1 DEF Parsing
<1> QED
  BY <1>1, <1>10, <1>11, <1>12, <1>13, <1>14, <1>15, <1>16, <1>17, <1>18, CallsKeep

\* The next member of a class, and the call once it was looked at.
LEMMA NextMember ==
  ASSUME app \in Apps, NEW t, EntryOK(t), t.step = "model", t.members # <<>>
  PROVE  LET e == [t EXCEPT !.members = Tail(@)]
             members == MembersOf(t.class)
             n == Done(t) + 1
         IN /\ e = [step |-> "model", class |-> e.class, into |-> e.into, members |-> e.members]
            /\ e.step = "model" /\ e.class = t.class /\ e.into = t.into /\ Done(e) = n /\ MembersLeft(e)
            /\ Done(t) \in Nat /\ n \in 1 .. Len(members) /\ Head(t.members) = members[n]
            /\ Head(t.members) \in ToSet(members)
<1> DEFINE e == [t EXCEPT !.members = Tail(@)]
           members == MembersOf(t.class)
           n == Done(t) + 1
           left == t.members
<1>1. /\ t = [step |-> "model", class |-> t.class, into |-> t.into, members |-> t.members]
      /\ MembersLeft(t) /\ t.class \in DOMAIN app.classes
  BY DEF EntryOK
<1>2. e = [step |-> "model", class |-> t.class, into |-> t.into, members |-> Tail(left)]
  <2>1. PICK x : x = Tail(t.members)
    OBVIOUS
  <2>2. e = [t EXCEPT !.members = x]
    BY <2>1
  <2>3. [t EXCEPT !.members = x] = [step |-> "model", class |-> t.class, into |-> t.into, members |-> x]
    BY <1>1
  <2> HIDE DEF e
  <2> QED
    BY <2>1, <2>2, <2>3
<1>3. e.step = "model" /\ e.class = t.class /\ e.into = t.into /\ e.members = Tail(left)
  BY <1>2
<1>4. IsList(members) /\ Len(members) \in Nat /\ DOMAIN members = 1 .. Len(members)
  BY <1>1, AppFacts, ListFacts
<1>5. IsList(left) /\ Done(t) \in Nat /\ \A i \in 1 .. Len(left) : left[i] = members[Done(t) + i]
  BY <1>1 DEF MembersLeft
<1> HIDE DEF e
<1>6. Done(t) = Len(members) - Len(left)
  BY DEF Done
<1>7. /\ Len(left) \in Nat /\ Len(left) # 0 /\ Head(left) = left[1]
      /\ IsList(Tail(left)) /\ Len(Tail(left)) = Len(left) - 1
      /\ \A i \in 1 .. Len(left) - 1 : i + 1 \in DOMAIN left /\ Tail(left)[i] = left[i + 1]
      /\ DOMAIN left = 1 .. Len(left)
  BY <1>5, HeadTailFacts, ListFacts
<1>8. Done(e) = Len(members) - Len(Tail(left))
  BY <1>3 DEF Done
<1> HIDE DEF members, left
<1>9. n \in 1 .. Len(members) /\ 1 \in 1 .. Len(left) /\ Done(e) = n
  BY <1>4, <1>5, <1>6, <1>7, <1>8
<1>10. Head(left) = members[n] /\ Head(left) \in ToSet(members)
  BY <1>4, <1>5, <1>7, <1>9, ListFacts
<1>11. MembersLeft(e)
  <2>1. ASSUME NEW i \in 1 .. Len(Tail(left)) PROVE Tail(left)[i] = members[Done(e) + i]
    <3>1. i \in 1 .. Len(left) - 1 /\ i + 1 \in 1 .. Len(left) /\ i \in Nat
      BY <1>7, <2>1
    <3>2. Tail(left)[i] = members[Done(t) + (i + 1)]
      BY <1>5, <1>7, <3>1
    <3>3. Done(t) + (i + 1) = Done(e) + i
      BY <1>5, <1>9, <3>1
    <3> QED
      BY <3>2, <3>3
  <2>2. Done(e) \in Nat
    BY <1>5, <1>9
  <2> QED
    BY <1>3, <1>7, <2>1, <2>2 DEF MembersLeft, members
<1>12. e = [step |-> "model", class |-> e.class, into |-> e.into, members |-> e.members]
  BY <1>2, <1>3 DEF left
<1> QED
  BY <1>3, <1>5, <1>9, <1>10, <1>11, <1>12 DEF e, members, left

\* What cannot be null, with one property more.
PropertyOnly(name, prop) == [n \in {name} |-> prop]
LEMMA NotNullFacts ==
  ASSUME NEW props, NEW name, name \notin DOMAIN props, NEW prop
  PROVE  NotNull(With(props, name, prop)) = NotNull(props) \cup NotNull(PropertyOnly(name, prop))
<1> DEFINE one == PropertyOnly(name, prop)
           all == With(props, name, prop)
           Bad(p) == "nullable" \in DOMAIN p.opts /\ p.opts["nullable"] = <<"false">>
<1>1. DOMAIN one = {name} /\ one[name] = prop
  BY DEF PropertyOnly
<1>2. DOMAIN all = {name} \cup DOMAIN props /\ all[name] = prop /\ \A p \in DOMAIN props : all[p] = props[p]
  BY DEF With
<1>3. /\ NotNull(all) = {p \in DOMAIN all : Bad(all[p])} /\ NotNull(props) = {p \in DOMAIN props : Bad(props[p])}
      /\ NotNull(one) = {p \in DOMAIN one : Bad(one[p])}
  BY DEF NotNull
<1> HIDE DEF one, all, Bad
<1>4. NotNull(all) = NotNull(props) \cup NotNull(one)
  BY <1>1, <1>2, <1>3
<1> QED
  BY <1>4 DEF one, all

\* A component with a member more, told or ignored.
LEMMA FilledIgnored ==
  ASSUME NEW class, NEW n \in Nat, FilledTo(class, n), ~Tells(class, n + 1)
  PROVE  FilledTo(class, n + 1)
<1>1. {j \in 1 .. n + 1 : Tells(class, j)} = {j \in 1 .. n : Tells(class, j)}
  OBVIOUS
<1>2. \A j \in 1 .. n + 1 : Tells(class, j) => j \in 1 .. n
  OBVIOUS
<1> QED
  BY <1>1, <1>2 DEF FilledTo

LEMMA FilledTold ==
  ASSUME app \in Apps, app' = app, Covered \subseteq Covered', NEW class \in DOMAIN app.classes, NEW n \in Nat,
         n + 1 \in 1 .. Len(MembersOf(class)), FilledTo(class, n), Tells(class, n + 1),
         NEW m, m = MembersOf(class)[n + 1], NEW prop, TypesToldBy(m.type, m.rules) \subseteq Covered',
         doc'.components[class].props = With(doc.components[class].props, m.name, prop),
         doc'.components[class].required =
           doc.components[class].required \cup NotNull(PropertyOnly(m.name, prop))
  PROVE  FilledTo(class, n + 1)'
<1> DEFINE members == MembersOf(class)
           old == doc.components[class]
           new == doc'.components[class]
           told(k) == {j \in 1 .. k : Tells(class, j)}
<1>1. /\ DOMAIN old.props = {members[i].name : i \in told(n)} /\ old.required = NotNull(old.props)
      /\ \A i \in 1 .. n : Tells(class, i) => TypesToldBy(members[i].type, members[i].rules) \subseteq Covered
  BY DEF FilledTo
<1>2. /\ DOMAIN members = 1 .. Len(members) /\ Len(members) \in Nat
      /\ \A i, j \in DOMAIN members : members[i].name = members[j].name => i = j
  BY AppFacts, ListFacts
<1>3. m.name \notin DOMAIN old.props
  <2>1. \A i \in 1 .. n : i \in DOMAIN members /\ i # n + 1
    BY <1>2
  <2>2. \A i \in 1 .. n : members[i].name # m.name
    BY <1>2, <2>1
  <2> QED
    BY <1>1, <2>2
<1>4. new.props = With(old.props, m.name, prop) /\ new.required = old.required \cup NotNull(PropertyOnly(m.name, prop))
  OBVIOUS
<1> HIDE DEF old, new
<1>5. new.required = NotNull(new.props)
  <2>1. NotNull(With(old.props, m.name, prop)) = NotNull(old.props) \cup NotNull(PropertyOnly(m.name, prop))
    BY <1>3, NotNullFacts
  <2> QED
    BY <1>1, <1>4, <2>1, Zenon
<1>6. told(n + 1) = told(n) \cup {n + 1}
  OBVIOUS
<1>7. DOMAIN new.props = {members[i].name : i \in told(n + 1)}
  <2>1. DOMAIN new.props = {m.name} \cup DOMAIN old.props
    BY <1>4 DEF With
  <2>2. m.name = members[n + 1].name
    OBVIOUS
  <2> HIDE DEF told, members
  <2> QED
    BY <1>1, <1>6, <2>1, <2>2
<1>8. ASSUME NEW i \in 1 .. n + 1, Tells(class, i)
      PROVE  TypesToldBy(members[i].type, members[i].rules) \subseteq Covered'
  <2>1. i \in 1 .. n \/ i = n + 1
    OBVIOUS
  <2> QED
    BY <1>1, <1>8, <2>1
<1>9. /\ DOMAIN doc'.components[class].props = {members[i].name : i \in {j \in 1 .. n + 1 : Tells(class, j)}}
      /\ doc'.components[class].required = NotNull(doc'.components[class].props)
  BY <1>5, <1>7 DEF new
<1> HIDE DEF members, told
<1>10. /\ MembersOf(class)' = members
       /\ \A j : Tells(class, j)' = Tells(class, j)
       /\ \A type, rules : TypesToldBy(type, rules)' = TypesToldBy(type, rules)
  BY AppKept DEF members
<1> QED
  BY <1>8, <1>9, <1>10 DEF FilledTo

LEMMA FillOn ==
  ASSUME app' = app, FillInv, Filling(Top), NEW e, e.class = Top.class, Filling(e),
         Top.class \in DOMAIN doc.components,
         ToSet(stack) = {Top} \cup ToSet(Tail(stack)),
         \A x \in ToSet(Tail(stack)) : Filling(x) => x.class # Top.class /\ x.class \in DOMAIN doc.components,
         \A x \in ToSet(stack') : Filling(x) => x = e \/ x \in ToSet(Tail(stack)),
         e \in ToSet(stack'), ToSet(Tail(stack)) \subseteq ToSet(stack'),
         Covered \subseteq Covered', DOMAIN doc'.components = DOMAIN doc.components,
         \A c \in DOMAIN doc.components \ {e.class} : doc'.components[c] = doc.components[c],
         FilledTo(e.class, Done(e))'
  PROVE  FillInv'
<1>1. ASSUME NEW c, NEW n, c # e.class, c \in DOMAIN doc.components, FilledTo(c, n) PROVE FilledTo(c, n)'
  BY <1>1, FilledKept
<1>2. \A x : Done(x)' = Done(x)
  BY AppKept
<1>3. \A c : MembersOf(c)' = MembersOf(c)
  BY AppKept
<1>4. ASSUME NEW x \in ToSet(stack'), Filling(x), x # e
      PROVE  FilledTo(x.class, Done(x))'
  <2>1. x.class # e.class /\ x.class \in DOMAIN doc.components /\ FilledTo(x.class, Done(x))
    BY <1>4 DEF FillInv
  <2> QED
    BY <1>1, <1>2, <1>4, <2>1
<1>5. ASSUME NEW c \in DOMAIN doc'.components, c \notin Unfinished' PROVE FilledTo(c, Len(MembersOf(c)))'
  <2>1. c # e.class
    BY <1>5 DEF Unfinished
  <2>2. c \notin Unfinished
    BY <1>5, <2>1 DEF Unfinished
  <2>3. FilledTo(c, Len(MembersOf(c)))
    BY <1>5, <2>2 DEF FillInv
  <2> QED
    BY <1>1, <1>3, <1>5, <2>1, <2>3
<1> QED
  BY <1>4, <1>5 DEF FillInv

\* The top call goes on to its next member: e is what is left of it.
Onward(e) ==
  /\ e = [step |-> "model", class |-> e.class, into |-> e.into, members |-> e.members]
  /\ e.step = "model" /\ e.class = Top.class /\ e.into = Top.into /\ Done(e) = Done(Top) + 1 /\ MembersLeft(e)

LEMMA OnwardFacts ==
  ASSUME IInv, Parsing, stack # <<>>, Top.step = "model", NEW e, Onward(e)
  PROVE  /\ EntryOK(e) /\ (Filling(e) <=> Filling(Top))
         /\ IsList(<<e>> \o Tail(stack)) /\ ToSet(<<e>> \o Tail(stack)) = {e} \cup ToSet(Tail(stack))
         /\ Apart(<<e>> \o Tail(stack)) /\ Awaits(<<e>> \o Tail(stack)) = Awaits(stack)
         /\ \A x \in ToSet(Tail(stack)) : Filling(x) => x.class \in DOMAIN doc.components
         /\ Filling(Top) => Top.class \in DOMAIN doc.components
<1>1. /\ ToSet(stack) = {Top} \cup ToSet(Tail(stack)) /\ IsList(Tail(stack)) /\ Apart(Tail(stack))
      /\ EntryOK(Top) /\ (\A x \in ToSet(Tail(stack)) : EntryOK(x))
      /\ Filling(Top) => \A x \in ToSet(Tail(stack)) : Filling(x) => x.class # Top.class
  BY TopFacts
<1>2. EntryOK(e)
  BY <1>1 DEF EntryOK, Onward
<1>3. Filling(e) <=> Filling(Top)
  BY DEF Filling, Onward
<1>4. ASSUME NEW x, EntryOK(x), Filling(x) PROVE x.class \in DOMAIN doc.components
  <2>1. ~Placed(<<>>)
    BY DEF Placed
  <2> QED
    BY <1>4, <2>1 DEF EntryOK, Filling, InComponent
<1>5. Awaits(stack) = Awaits(Tail(stack))
  BY <1>1 DEF Awaits
<1>6. /\ IsList(<<e>> \o Tail(stack)) /\ ToSet(<<e>> \o Tail(stack)) = {e} \cup ToSet(Tail(stack))
      /\ Apart(<<e>> \o Tail(stack)) /\ Awaits(<<e>> \o Tail(stack)) = Awaits(Tail(stack))
  <2>1. e.class = Top.class /\ e.step # "component"
    BY DEF Onward
  <2> QED
    BY <1>1, <1>3, <2>1, PushedFacts
<1> QED
  BY <1>1, <1>2, <1>3, <1>4, <1>5, <1>6

\* A member that is ignored.
LEMMA IgnoredKeeps ==
  ASSUME IInv, Parsing, stack # <<>>, Top.step = "model", UNCHANGED <<app, answer, doc, todo, current, records>>,
         NEW e, Onward(e), stack' = <<e>> \o Tail(stack), ~Tells(e.class, Done(Top) + 1), Done(Top) \in Nat
  PROVE  IInv'
<1>1. /\ DocOK /\ StackOK /\ FillInv /\ ToSet(stack) = {Top} \cup ToSet(Tail(stack))
      /\ Filling(Top) => \A x \in ToSet(Tail(stack)) : Filling(x) => x.class # Top.class
  BY TopFacts
<1>2. /\ EntryOK(e) /\ (Filling(e) <=> Filling(Top))
      /\ IsList(stack') /\ ToSet(stack') = {e} \cup ToSet(Tail(stack)) /\ Apart(stack') /\ Awaits(stack') = Awaits(stack)
      /\ \A x \in ToSet(Tail(stack)) : Filling(x) => x.class \in DOMAIN doc.components
      /\ Filling(Top) => Top.class \in DOMAIN doc.components
  BY OnwardFacts
<1>3. app' = app /\ doc' = doc /\ answer' = "parsing" /\ e.class = Top.class /\ Done(e) = Done(Top) + 1
  BY DEF Parsing, Onward
<1>4. Covered' = Covered /\ Grows /\ DocOK'
  BY <1>1, <1>2, <1>3 DEF Covered, Grows, DocOK
<1>5. StackOK'
  BY <1>1, <1>2, <1>3, <1>4, EntryKept, EntriesKept
<1>6. FillInv'
  <2>1. CASE Filling(Top)
    <3>1. PICK n \in Nat : n = Done(Top)
      OBVIOUS
    <3>2. FilledTo(e.class, n)
      BY <1>1, <1>3, <2>1, <3>1 DEF FillInv
    <3>3. FilledTo(e.class, n + 1)
      BY <3>1, <3>2, FilledIgnored
    <3>4. FilledTo(e.class, n + 1)'
      BY <1>3, <1>4, <3>3, FilledKept
    <3>5. Done(e)' = n + 1
      BY <1>3, <3>1, AppKept
    <3>6. FilledTo(e.class, Done(e))'
      BY <3>4, <3>5
    <3> QED
      BY <1>1, <1>2, <1>3, <1>4, <2>1, <3>6, FillOn
  <2>2. CASE ~Filling(Top)
    BY <1>1, <1>2, <1>3, <1>4, <2>2, FillKept
  <2> QED
    BY <2>1, <2>2
<1>7. \A classes : Within(classes) => Within(classes)'
  BY <1>1, <1>2, <1>3 DEF Within
<1> QED
  BY <1>2, <1>3, <1>4, <1>5, <1>6, <1>7, CallsKeep

\* A member that is told: its class is visited, its property is set.
MemberSet(m, prop, old, schema) ==
  schema = PropsGiven(old, With(old.props, m.name, prop), old.required \cup NotNull(PropertyOnly(m.name, prop)))
LEMMA MemberRefs ==
  ASSUME NEW s, IsSchema(s), NEW m, NEW prop, NEW told, NEW t, MemberSet(m, prop, s, t),
         prop.ref = None \/ prop.ref \in told, prop.items.ref = None \/ prop.items.ref \in told
  PROVE  /\ IsSchema(t) /\ t.props = With(s.props, m.name, prop)
         /\ t.required = s.required \cup NotNull(PropertyOnly(m.name, prop))
         /\ RefsIn(t) \subseteq RefsIn(s) \cup told
<1> DEFINE name == m.name
           props == With(s.props, name, prop)
           names == s.required \cup NotNull(PropertyOnly(name, prop))
<1>1. /\ DOMAIN props = {name} \cup DOMAIN s.props
      /\ \A p \in DOMAIN props : props[p] = prop \/ (p \in DOMAIN s.props /\ props[p] = s.props[p])
  BY DEF With
<1>0. t = PropsGiven(s, props, names)
  BY Zenon DEF MemberSet
<1>4. props = With(s.props, m.name, prop) /\ names = s.required \cup NotNull(PropertyOnly(m.name, prop))
  OBVIOUS
<1> HIDE DEF props, names, name
<1>2. IsSchema(t) /\ t.ref = s.ref /\ t.items = s.items /\ t.props = props /\ t.required = names
  BY <1>0, PropsSet
<1>3. ASSUME NEW x \in RefsIn(t) PROVE x \in RefsIn(s) \/ x \in told
  <2>1. /\ x # None
        /\ \/ x = t.ref \/ x = t.items.ref
           \/ \E p \in DOMAIN t.props : x = t.props[p].ref \/ x = t.props[p].items.ref
    BY <1>3, RefsInFacts
  <2>2. CASE x = t.ref \/ x = t.items.ref
    BY <1>2, <2>1, <2>2, RefsInFacts
  <2>3. CASE \E p \in DOMAIN t.props : x = t.props[p].ref \/ x = t.props[p].items.ref
    <3>1. PICK p \in DOMAIN props : x = props[p].ref \/ x = props[p].items.ref
      BY <1>2, <2>3
    <3>2. CASE props[p] = prop
      BY <2>1, <3>1, <3>2
    <3>3. CASE p \in DOMAIN s.props /\ props[p] = s.props[p]
      BY <2>1, <3>1, <3>3, RefsInFacts
    <3> QED
      BY <1>1, <3>2, <3>3
  <2> QED
    BY <2>1, <2>2, <2>3
<1>5. RefsIn(t) \subseteq RefsIn(s) \cup told
  BY <1>3
<1> QED
  BY <1>2, <1>4, <1>5, Zenon

LEMMA VisitedOnward ==
  ASSUME IInv, Parsing, stack # <<>>, Top.step = "model", NEW e, Onward(e), NEW visits, Calls(visits)
  PROVE  LET s == visits \o (<<e>> \o Tail(stack))
         IN /\ IsList(s) /\ ToSet(s) = ToSet(visits) \cup {e} \cup ToSet(Tail(stack))
            /\ Apart(s) /\ Awaits(s) = Awaits(visits) \cup Awaits(stack)
            /\ \A x \in ToSet(visits) : EntryOK(x) /\ ~Filling(x) /\ x.class \in Awaits(visits)
<1> DEFINE t == <<e>> \o Tail(stack)
           s == visits \o t
<1>1. IsList(t) /\ ToSet(t) = {e} \cup ToSet(Tail(stack)) /\ Apart(t) /\ Awaits(t) = Awaits(stack)
  BY OnwardFacts
<1> HIDE DEF t
<1>2. IsList(visits) /\ \A x \in ToSet(visits) : IsCall(x)
  BY DEF Calls
<1>3. \A x \in ToSet(visits) : EntryOK(x) /\ ~Filling(x) /\ x.class \in Awaits(visits)
  BY <1>2, CallFacts, CallsFacts
<1>4. IsList(s) /\ ToSet(s) = ToSet(visits) \cup ToSet(t)
  BY <1>1, <1>2, JoinFacts
<1>5. Awaits(s) = Awaits(visits) \cup Awaits(t)
  BY <1>1, <1>2, AwaitsJoined
<1>6. Apart(s)
  BY <1>1, <1>2, <1>3, ApartJoined
<1> HIDE DEF s
<1> QED
  BY <1>1, <1>3, <1>4, <1>5, <1>6 DEF s, t

\* m is the member after the first n, as the schema of the class has it.
Telling(class, n, m, prop) ==
  /\ n = Done(Top) /\ n + 1 \in 1 .. Len(MembersOf(class))
  /\ m = MembersOf(class)[n + 1] /\ m \in ToSet(MembersOf(class))
  /\ Tells(class, n + 1) /\ prop = ModelProperty(m.type, m.rules)
LEMMA ToldKeeps ==
  ASSUME IInv, Parsing, stack # <<>>, Top.step = "model", UNCHANGED <<app, answer, todo, current, records>>,
         NEW e, Onward(e), NEW m, NEW n \in Nat, NEW prop, Telling(e.class, n, m, prop),
         stack' = Components(ClassesOf(m.type, m.rules)) \o (<<e>> \o Tail(stack)), NEW old, NEW schema,
         MemberSet(m, prop, old, schema),
         \/ Filling(Top) /\ old = doc.components[Top.class] /\ ComponentBecomes(Top.class, schema)
         \/ /\ Placed(Top.into) /\ old = doc.operations[Top.into[1]].body.content[Top.into[2]]
            /\ ContentBecomes(Top.into, schema)
  PROVE  IInv'
<1> DEFINE told == TypesToldBy(m.type, m.rules)
           visits == Components(ClassesOf(m.type, m.rules))
<1>1. /\ app \in Apps /\ DocOK /\ StackOK /\ FillInv /\ RefsCovered /\ EntryOK(Top)
      /\ ToSet(stack) = {Top} \cup ToSet(Tail(stack))
      /\ Filling(Top) => \A x \in ToSet(Tail(stack)) : Filling(x) => x.class # Top.class
  BY TopFacts
<1>2. /\ EntryOK(e) /\ (Filling(e) <=> Filling(Top))
      /\ \A x \in ToSet(Tail(stack)) : Filling(x) => x.class \in DOMAIN doc.components
      /\ Filling(Top) => Top.class \in DOMAIN doc.components
  BY OnwardFacts
<1>3. e.class = Top.class /\ e.into = Top.into /\ Done(e) = n + 1 /\ app' = app /\ answer' = "parsing"
  BY DEF Onward, Parsing, Telling
<1>4. e.class \in DOMAIN app.classes
  BY <1>1, <1>3 DEF EntryOK
<1>5. AreRules(m.rules) /\ told \subseteq Successors(e.class)
  <2>1. ~ExistIgnore(m.rules) /\ IsClass(e.class)
    BY <1>4 DEF Telling, Tells, IsClass
  <2>2. m \in ToSet(Told(MembersOf(e.class)))
    BY <1>1, <2>1, ToldFacts DEF Telling
  <2> QED
    BY <1>1, <2>1, <2>2, ToldFacts
<1>6. Calls(visits) /\ Awaits(visits) = told /\ told \subseteq DOMAIN app.classes
  BY <1>5, ClassVisits
<1>7. /\ IsSchema(prop) /\ (prop.ref = None \/ prop.ref \in told)
      /\ (prop.items.ref = None \/ prop.items.ref \in told)
  BY <1>1, <1>5, PropertyFacts DEF Telling
<1> HIDE DEF told, visits
<1>8. /\ IsList(stack') /\ ToSet(stack') = ToSet(visits) \cup {e} \cup ToSet(Tail(stack)) /\ Apart(stack')
      /\ Awaits(stack') = told \cup Awaits(stack)
      /\ \A x \in ToSet(visits) : EntryOK(x) /\ ~Filling(x) /\ x.class \in told
  <2>1. stack' = visits \o (<<e>> \o Tail(stack))
    BY DEF visits
  <2> QED
    BY <1>6, <2>1, VisitedOnward
<1>9. IsSchema(old) /\ RefsIn(old) \subseteq Covered
  <2>1. CASE Filling(Top) /\ old = doc.components[Top.class]
    <3>1. old \in SchemasIn(doc)
      BY <1>2, <2>1, SchemasInFacts
    <3> QED
      BY <1>1, <1>2, <2>1, <3>1 DEF DocOK, RefsCovered
  <2>2. CASE Placed(Top.into) /\ old = doc.operations[Top.into[1]].body.content[Top.into[2]]
    BY <1>1, <2>2, PlacedFacts
  <2> QED
    BY <2>1, <2>2
<1>10. /\ IsSchema(schema) /\ schema.props = With(old.props, m.name, prop)
       /\ schema.required = old.required \cup NotNull(PropertyOnly(m.name, prop))
       /\ RefsIn(schema) \subseteq RefsIn(old) \cup told
  BY <1>7, <1>9, MemberRefs
<1>11. /\ DocOK' /\ Grows /\ DOMAIN doc'.components = DOMAIN doc.components
       /\ \A s \in SchemasIn(doc') : s \in SchemasIn(doc) \/ s = schema
       /\ \/ /\ Filling(Top) /\ old = doc.components[Top.class] /\ doc'.components[Top.class] = schema
             /\ \A c \in DOMAIN doc.components \ {Top.class} : doc'.components[c] = doc.components[c]
          \/ ~Filling(Top) /\ doc'.components = doc.components
  <2>1. CASE Filling(Top) /\ old = doc.components[Top.class] /\ ComponentBecomes(Top.class, schema)
    <3>1. /\ DocOK' /\ doc'.operations = doc.operations
          /\ DOMAIN doc'.components = {Top.class} \cup DOMAIN doc.components /\ doc'.components[Top.class] = schema
          /\ \A c \in DOMAIN doc.components \ {Top.class} : doc'.components[c] = doc.components[c]
          /\ \A s \in SchemasIn(doc') : s \in SchemasIn(doc) \/ s = schema
      <4> DEFINE class == Top.class
      <4>1. class \in DOMAIN app.classes /\ ComponentBecomes(class, schema)
        BY <1>3, <1>4, <2>1
      <4> HIDE DEF class
      <4>2. /\ DocOK' /\ doc'.operations = doc.operations
            /\ DOMAIN doc'.components = {class} \cup DOMAIN doc.components /\ doc'.components[class] = schema
            /\ \A c \in DOMAIN doc.components \ {class} : doc'.components[c] = doc.components[c]
            /\ \A s \in SchemasIn(doc') : s \in SchemasIn(doc) \/ s = schema
        BY <1>1, <1>3, <1>10, <4>1, ComponentPut
      <4> QED
        BY <4>2 DEF class
    <3>2. DOMAIN doc'.components = DOMAIN doc.components
      BY <1>2, <2>1, <3>1
    <3> QED
      BY <2>1, <3>1, <3>2 DEF Grows
  <2>2. CASE Placed(Top.into) /\ ContentBecomes(Top.into, schema)
    <3> DEFINE into == Top.into
    <3>1. Placed(into) /\ ContentBecomes(into, schema) /\ into # InComponent
      BY <1>1, <2>2, PlacedFacts
    <3>2. ~Filling(Top)
      BY <3>1 DEF Filling
    <3> HIDE DEF into
    <3>3. /\ DocOK' /\ doc'.components = doc.components
          /\ DOMAIN doc'.operations = DOMAIN doc.operations
          /\ \A k \in DOMAIN doc.operations :
               DOMAIN doc'.operations[k].body.content = DOMAIN doc.operations[k].body.content
          /\ \A s \in SchemasIn(doc') : s \in SchemasIn(doc) \/ s = schema
      BY <1>1, <1>3, <1>10, <3>1, ContentPut
    <3> QED
      BY <3>2, <3>3 DEF Grows
  <2> QED
    BY <2>1, <2>2
<1>12. Covered \subseteq Covered' /\ told \subseteq Covered'
  BY <1>8, <1>11 DEF Covered
<1>13. StackOK'
  <2>1. \A x \in ToSet(stack') : x \in ToSet(stack) \/ EntryOK(x)'
    BY <1>1, <1>2, <1>3, <1>8, <1>11, EntryKept
  <2> QED
    BY <1>1, <1>3, <1>8, <1>11, <2>1, EntriesKept
<1>14. FillInv'
  <2>1. CASE Filling(Top)
    <3>1. /\ old = doc.components[e.class] /\ doc'.components[e.class] = schema
          /\ \A c \in DOMAIN doc.components \ {e.class} : doc'.components[c] = doc.components[c]
      BY <1>3, <1>11, <2>1
    <3>2. FilledTo(e.class, n)
      BY <1>1, <1>3, <2>1 DEF FillInv, Telling
    <3>3. PICK c : c = e.class
      OBVIOUS
    <3>4. /\ doc'.components[c].props = With(doc.components[c].props, m.name, prop)
          /\ doc'.components[c].required = doc.components[c].required \cup NotNull(PropertyOnly(m.name, prop))
      BY <1>10, <3>1, <3>3
    <3>5. /\ c \in DOMAIN app.classes /\ n + 1 \in 1 .. Len(MembersOf(c)) /\ FilledTo(c, n) /\ Tells(c, n + 1)
          /\ m = MembersOf(c)[n + 1]
      BY <1>4, <3>2, <3>3 DEF Telling
    <3>6. FilledTo(c, n + 1)'
      <4>1. TypesToldBy(m.type, m.rules) \subseteq Covered'
        BY <1>12 DEF told
      <4> QED
        BY <1>1, <1>3, <1>12, <3>4, <3>5, <4>1, FilledTold
    <3>7. Done(e)' = n + 1
      BY <1>3, AppKept
    <3>8. FilledTo(e.class, Done(e))'
      BY <3>3, <3>6, <3>7
    <3>9. \A x \in ToSet(stack') : Filling(x) => x = e \/ x \in ToSet(Tail(stack))
      BY <1>8
    <3> QED
      BY <1>1, <1>2, <1>3, <1>8, <1>11, <1>12, <2>1, <3>1, <3>8, <3>9, FillOn
  <2>2. CASE ~Filling(Top)
    BY <1>1, <1>2, <1>3, <1>8, <1>11, <1>12, <2>2, FillKept
  <2> QED
    BY <2>1, <2>2
<1>15. ASSUME NEW classes, Saturated(classes), Within(classes) PROVE Within(classes)'
  <2>1. e.class \in classes
    BY <1>1, <1>3, <1>15 DEF Within
  <2>2. told \subseteq classes
    BY <1>5, <1>15, <2>1 DEF Saturated
  <2> QED
    BY <1>1, <1>8, <1>11, <1>15, <2>1, <2>2 DEF Within
<1>16. \A s \in SchemasIn(doc') : s \in SchemasIn(doc) \/ RefsIn(s) \subseteq Covered'
  BY <1>9, <1>10, <1>11, <1>12
<1> QED
  BY <1>3, <1>8, <1>11, <1>12, <1>13, <1>14, <1>15, <1>16, CallsKeep

\* There is no properties object to write the member to.
LEMMA FailedKeeps ==
  ASSUME IInv, Parsing, stack # <<>>, UNCHANGED <<app, doc, todo, current, records, stack>>, answer' = "failed"
  PROVE  IInv'
<1>1. DocOK /\ StackOK /\ FillInv /\ Apart(stack)
  BY TopFacts
<1>2. Covered' = Covered /\ Grows /\ DocOK'
  BY <1>1 DEF Covered, Grows, DocOK
<1>3. StackOK'
  BY <1>1, <1>2, EntriesKept DEF StackOK
<1>4. FillInv'
  BY <1>1, <1>2, FillKept
<1>5. \A classes : Within(classes) => Within(classes)'
  BY DEF Within
<1>6. Apart(stack')
  BY <1>1
<1> QED
  BY <1>2, <1>3, <1>4, <1>5, <1>6, CallsKeep

LEMMA SetMemberKeeps ==
  ASSUME IInv, SetMember
  PROVE  IInv'
<1> DEFINE m == Head(Top.members)
           class == Top.class
           into == Top.into
           old == SchemaAt(class, into)
           prop == ModelProperty(m.type, m.rules)
           e == [Top EXCEPT !.members = Tail(@)]
           schema == [old EXCEPT !.props = With(@, m.name, prop),
                                 !.required = @ \cup NotNull([name \in {m.name} |-> prop])]
           n == Done(Top)
<1>1. /\ Parsing /\ stack # <<>> /\ Top.step = "model" /\ Top.members # <<>>
      /\ UNCHANGED <<app, todo, current, records>>
      /\ \/ ExistIgnore(m.rules) /\ stack' = <<e>> \o Tail(stack) /\ UNCHANGED <<doc, answer>>
         \/ answer' = "failed" /\ UNCHANGED <<doc, stack>>
         \/ /\ ~ExistIgnore(m.rules) /\ doc' = WithSchema(class, into, schema)
            /\ stack' = Components(ClassesOf(m.type, m.rules)) \o (<<e>> \o Tail(stack))
            /\ UNCHANGED answer
  BY Zenon DEF SetMember
<1>2. app \in Apps /\ EntryOK(Top) /\ DocOK /\ RefsCovered
  BY <1>1, TopFacts
<1>3. /\ e = [step |-> "model", class |-> e.class, into |-> e.into, members |-> e.members]
      /\ e.step = "model" /\ e.class = Top.class /\ e.into = Top.into /\ Done(e) = n + 1 /\ MembersLeft(e)
      /\ n \in Nat /\ n + 1 \in 1 .. Len(MembersOf(class)) /\ m = MembersOf(class)[n + 1]
      /\ m \in ToSet(MembersOf(class))
  BY <1>1, <1>2, NextMember, Zenon
<1>4. Onward(e)
  BY <1>3, Zenon DEF Onward
<1>5. Tells(class, n + 1) <=> ~ExistIgnore(m.rules)
  BY <1>3, Zenon DEF Tells
<1>6. CASE ExistIgnore(m.rules) /\ stack' = <<e>> \o Tail(stack) /\ UNCHANGED <<doc, answer>>
  <2>1. e.class = class
    BY <1>3
  <2> HIDE DEF e, m, class, into
  <2> QED
    BY <1>1, <1>3, <1>4, <1>5, <1>6, <2>1, IgnoredKeeps
<1>7. CASE answer' = "failed" /\ UNCHANGED <<doc, stack>>
  BY <1>1, <1>7, FailedKeeps
<1>8. CASE /\ ~ExistIgnore(m.rules) /\ doc' = WithSchema(class, into, schema)
           /\ stack' = Components(ClassesOf(m.type, m.rules)) \o (<<e>> \o Tail(stack))
           /\ UNCHANGED answer
  <2>1. MemberSet(m, prop, old, schema)
    <3>1. schema = PropsGiven(old, With(old.props, m.name, prop),
                              old.required \cup NotNull(PropertyOnly(m.name, prop)))
      BY Zenon DEF PropsGiven, PropertyOnly
    <3> QED
      BY <3>1, Zenon DEF MemberSet
  <2>2. \/ Filling(Top) /\ old = doc.components[Top.class] /\ ComponentBecomes(Top.class, schema)
        \/ /\ Placed(Top.into) /\ old = doc.operations[Top.into[1]].body.content[Top.into[2]]
           /\ ContentBecomes(Top.into, schema)
    <3>1. doc' = WithSchema(class, into, schema)
      BY <1>8
    <3> HIDE DEF schema, old
    <3>2. CASE into = InComponent
      <4>1. Filling(Top)
        BY <1>1, <3>2 DEF Filling
      <4>2. old = doc.components[Top.class]
        BY <3>2, Zenon DEF SchemaAt, old
      <4>3. ComponentBecomes(Top.class, schema)
        BY <3>1, <3>2, Zenon DEF WithSchema, ComponentBecomes
      <4> QED
        BY <4>1, <4>2, <4>3, Zenon
    <3>3. CASE into # InComponent
      <4>1. Placed(Top.into)
        BY <1>1, <1>2, <3>3 DEF EntryOK
      <4>2. old = doc.operations[Top.into[1]].body.content[Top.into[2]]
        BY <3>3, Zenon DEF SchemaAt, old
      <4>3. ContentBecomes(Top.into, schema)
        BY <3>1, <3>3, Zenon DEF WithSchema, ContentBecomes
      <4> QED
        BY <4>1, <4>2, <4>3, Zenon
    <3> QED
      BY <3>2, <3>3
  <2>3. Telling(e.class, n, m, prop)
    BY <1>3, <1>5, <1>8, Zenon DEF Telling
  <2>4. stack' = Components(ClassesOf(m.type, m.rules)) \o (<<e>> \o Tail(stack)) /\ answer' = answer
    BY <1>8
  <2> HIDE DEF e, m, class, into, old, schema, prop, n
  <2> QED
    BY <1>1, <1>3, <1>4, <2>1, <2>2, <2>3, <2>4, ToldKeeps
<1> QED
  BY <1>1, <1>6, <1>7, <1>8, Zenon

-----------------------------------------------------------------------------
(* The invariant holds throughout.                                         *)

LEMMA InitIInv ==
  ASSUME Init
  PROVE  IInv
<1>1. /\ app \in Apps /\ answer = "none" /\ doc = NewDoc /\ todo = <<>> /\ records = <<>> /\ stack = <<>>
  BY DEF Init, None
<1>2. IsList(<<>>) /\ ToSet(<<>>) = {} /\ DOMAIN <<>> = {}
  BY EmptyList
<1>3. /\ doc = [tags |-> doc.tags, urls |-> doc.urls, operations |-> doc.operations, components |-> doc.components]
      /\ doc.operations = <<>> /\ doc.components = <<>>
  BY <1>1 DEF NewDoc
<1>4. DocOK
  BY <1>2, <1>3 DEF DocOK, IsDoc
<1>5. StackOK /\ TodoOK /\ RecordsOK /\ Blankness
  BY <1>1, <1>2 DEF StackOK, TodoOK, RecordsOK, Blankness
<1>6. Apart(stack)
  BY <1>1, <1>2 DEF Apart
<1>7. RefsCovered
  BY <1>2, <1>3, SchemasInFacts DEF RefsCovered
<1>8. FillInv
  BY <1>1, <1>2, <1>3 DEF FillInv
<1>9. ReachInv
  BY <1>1, <1>2, <1>3 DEF ReachInv, Within
<1>10. RootInv
  BY <1>1 DEF RootInv
<1> QED
  BY <1>1, <1>4, <1>5, <1>6, <1>7, <1>8, <1>9, <1>10 DEF IInv, Shape

LEMMA StutterKeeps ==
  ASSUME IInv, UNCHANGED vars
  PROVE  IInv'
<1>1. UNCHANGED <<app, request, answer, doc, todo, current, records, stack>>
  BY DEF vars
<1>2. Unparsed
  BY <1>1 DEF Unparsed
<1>3. Covered' = Covered /\ answer' = answer
  BY <1>1 DEF Covered
<1>4. \A key : Exchanges(key)' = Exchanges(key)
  BY <1>1, <1>3, AppKept DEF Exchanges
<1>5. RootInv'
  BY <1>1, <1>4, AppKept DEF RootInv, IInv
<1>6. Blankness'
  BY <1>1 DEF Blankness, IInv, Shape
<1> QED
  BY <1>2, <1>5, <1>6, NothingParsed DEF IInv, Shape

LEMMA NextKeeps ==
  ASSUME IInv, [Next]_vars
  PROVE  IInv'
<1>1. CASE Next
  BY <1>1, ServingKeeps, ParseKeeps, ParseUrlMethodItemKeeps, ParseParamKeeps, ParseBodyKeeps,
     SetComponentKeeps, SetBodyModelKeeps, SetMemberKeeps, EndModelKeeps, GetSpecKeeps DEF Next
<1> QED
  BY <1>1, StutterKeeps

LEMMA Invariant == Spec => []IInv
BY InitIInv, NextKeeps, PTL DEF Spec

-----------------------------------------------------------------------------
(* What the document promises.                                             *)

LEMMA CoveredIs ==
  ASSUME IInv
  PROVE  Covered = DOMAIN doc.components \cup Awaited
<1>1. IsList(stack)
  BY DEF IInv, Shape, StackOK
<1>2. Awaited = Awaits(stack)
  BY <1>1, ListFacts DEF Awaited, Awaits
<1> QED
  BY <1>2 DEF Covered

LEMMA IInvRefs ==
  ASSUME IInv
  PROVE  RefsResolve
<1>1. ASSUME NEW x \in RefsOf(doc) PROVE x \in Covered
  <2>1. \E s \in SchemasIn(doc) : x \in RefsIn(s)
    <3>1. \/ \E class \in DOMAIN doc.components : x \in RefsIn(doc.components[class])
          \/ \E key \in DOMAIN doc.operations : \E s \in SchemasOf(doc.operations[key]) : x \in RefsIn(s)
      BY <1>1 DEF RefsOf
    <3> QED
      BY <3>1, SchemasInFacts
  <2> QED
    BY <2>1 DEF IInv, RefsCovered
<1> QED
  BY <1>1, CoveredIs DEF RefsResolve

LEMMA IInvReentry ==
  ASSUME IInv
  PROVE  NoReentry
BY DEF NoReentry, BeingFilled, Filling, IInv, Apart

LEMMA ToldIs ==
  ASSUME app \in Apps, NEW class, IsClass(class)
  PROVE  /\ ToSet(Told(MembersOf(class))) =
              {MembersOf(class)[i] : i \in {j \in 1 .. Len(MembersOf(class)) : Tells(class, j)}}
<1>1. IsList(MembersOf(class)) /\ DOMAIN MembersOf(class) = 1 .. Len(MembersOf(class))
  BY AppFacts, ListFacts DEF IsClass
<1>2. ToSet(Told(MembersOf(class))) = {m \in ToSet(MembersOf(class)) : ~ExistIgnore(m.rules)}
  BY ToldFacts
<1> QED
  BY <1>1, <1>2, ListFacts DEF Tells

\* A component whose class was gone through to the end.
LEMMA FilledWhole ==
  ASSUME app \in Apps, NEW class, IsClass(class), FilledTo(class, Len(MembersOf(class)))
  PROVE  /\ DOMAIN doc.components[class].props = {m.name : m \in ToSet(Told(MembersOf(class)))}
         /\ doc.components[class].required = NotNull(doc.components[class].props)
         /\ Successors(class) \subseteq Covered
<1> DEFINE members == MembersOf(class)
           told == {j \in 1 .. Len(members) : Tells(class, j)}
<1>1. /\ DOMAIN doc.components[class].props = {members[i].name : i \in told}
      /\ doc.components[class].required = NotNull(doc.components[class].props)
      /\ \A i \in told : TypesToldBy(members[i].type, members[i].rules) \subseteq Covered
  BY DEF FilledTo
<1>2. ToSet(Told(members)) = {members[i] : i \in told}
  BY ToldIs
<1>3. Successors(class) = UNION {TypesToldBy(m.type, m.rules) : m \in ToSet(Told(members))}
  BY DEF Successors, MembersOf
<1> HIDE DEF members, told
<1>4. {m.name : m \in ToSet(Told(members))} = {members[i].name : i \in told}
  BY <1>2
<1>5. Successors(class) \subseteq Covered
  BY <1>1, <1>2, <1>3
<1> QED
  BY <1>1, <1>4, <1>5 DEF members

LEMMA IInvWhole ==
  ASSUME IInv
  PROVE  ComponentsAreWhole
<1>1. app \in Apps /\ DocOK /\ FillInv /\ IsList(stack)
  BY DEF IInv, Shape, StackOK
<1>2. {stack[i].class : i \in BeingFilled} = Unfinished
  BY <1>1, ListFacts DEF BeingFilled, Unfinished, Filling
<1>3. ASSUME NEW class \in DOMAIN doc.components, class \notin Unfinished
      PROVE  LET schema == doc.components[class]
             IN /\ DOMAIN schema.props = {m.name : m \in ToSet(Told(app.classes[class].members))}
                /\ schema.required = NotNull(schema.props)
  <2>1. IsClass(class) /\ FilledTo(class, Len(MembersOf(class)))
    BY <1>1, <1>3 DEF IsClass, FillInv, DocOK
  <2>2. MembersOf(class) = app.classes[class].members
    BY DEF MembersOf
  <2>3. /\ DOMAIN doc.components[class].props = {m.name : m \in ToSet(Told(MembersOf(class)))}
        /\ doc.components[class].required = NotNull(doc.components[class].props)
    BY <1>1, <2>1, FilledWhole
  <2> QED
    BY <2>2, <2>3
<1> QED
  BY <1>2, <1>3 DEF ComponentsAreWhole

LEMMA IInvReached ==
  ASSUME IInv
  PROVE  ComponentsAreReached
<1> DEFINE classes == DOMAIN doc.components
<1>1. SUFFICES ASSUME answer = "document"
               PROVE  Closed(classes) /\ \A other \in SUBSET classes : Closed(other) => other = classes
  BY DEF ComponentsAreReached
<1>2. app \in Apps /\ DocOK /\ FillInv /\ ReachInv /\ RootInv
  BY DEF IInv, Shape
<1>3. todo = <<>> /\ records = <<>> /\ stack = <<>>
  BY <1>1, <1>2 DEF RootInv
<1>4. Covered = classes /\ ToSet(stack) = {} /\ ToSet(todo) = {} /\ ToSet(records) = {}
  BY <1>3, EmptyList DEF Covered, Awaits
<1>5. classes \subseteq DOMAIN app.classes
  BY <1>2 DEF DocOK
<1>6. ASSUME NEW class \in classes PROVE Successors(class) \subseteq classes
  <2>1. class \notin Unfinished
    BY <1>4 DEF Unfinished
  <2>2. IsClass(class) /\ FilledTo(class, Len(MembersOf(class)))
    BY <1>2, <1>5, <1>6, <2>1 DEF FillInv, IsClass
  <2> QED
    BY <1>2, <1>4, <2>2, FilledWhole
<1>7. ASSUME NEW route \in ToSet(app.routes), HasOperations(route)
      PROVE  RootsOf(app.actions[route.action]) \subseteq classes
  <2>1. Exchanges(route.action)
    BY <1>1, <1>2, <1>4, <1>7 DEF RootInv
  <2>2. /\ ToSet(ResponseClasses(app.actions[route.action].rules)) \subseteq classes
        /\ \A r \in ToSet(app.actions[route.action].records) : ExistIgnore(r.rules) \/ Exchanged(r) \subseteq classes
    BY <1>4, <2>1 DEF Exchanges
  <2> QED
    BY <2>2 DEF RootsOf
<1>8. Roots \subseteq classes
  BY <1>7 DEF Roots
<1>9. ASSUME NEW other \in SUBSET classes, Closed(other) PROVE other = classes
  BY <1>2, <1>5, <1>9 DEF ReachInv, Within
<1> QED
  BY <1>6, <1>8, <1>9 DEF Closed

\* Every $ref in the document the swagger middleware serves names a component
\* that is there, or that a call of the parser under way is about to add: for
\* any routes, pipes and classes, whichever of them refer to each other.
THEOREM ReferencesResolve == Spec => []RefsResolve
BY Invariant, IInvRefs, PTL

\* setComponentModelSchema never begins a component that an outer call of it
\* is still filling, however the classes refer to each other: its look into
\* the builder's components comes first, and the component is there by then.
THEOREM NoModelReentered == Spec => []NoReentry
BY Invariant, IInvReentry, PTL

\* A component no call is filling has a property for each member of its class
\* that is not ignored and for nothing else, and the "required" that follows
\* from them, wherever in a cycle of classes the parser came upon it first.
THEOREM WholeComponents == Spec => []ComponentsAreWhole
BY Invariant, IInvWhole, PTL

\* The components of a document are the least set of classes that has what the
\* operations exchange and is closed under the members that are not ignored.
THEOREM ReachedComponents == Spec => []ComponentsAreReached
BY Invariant, IInvReached, PTL

=============================================================================
