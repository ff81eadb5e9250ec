-------------------------- MODULE HttpServerProofs --------------------------
(***************************************************************************)
(* Theorems about HttpServer, for any startups, requests, actions, filters *)
(* and thrown values that the assumptions of that module admit.            *)
(***************************************************************************)
EXTENDS HttpServer, FiniteSetTheorems, WellFoundedInduction, TLAPS

-----------------------------------------------------------------------------
(* The least element of a set of numbers, and with it: induction up to a   *)
(* number, and functions defined by recursion on the numbers up to one.    *)

UpTo(n) == 0 .. n

LEMMA UpToFacts ==
  /\ \A n \in Nat : UpTo(n) \in FiniteSubsetsOf(Nat)
  /\ \A m, n \in Nat : n < m => <<UpTo(n), UpTo(m)>> \in StrictSubsetOrdering(Nat)
<1>1. ASSUME NEW n \in Nat PROVE UpTo(n) \in FiniteSubsetsOf(Nat)
  <2>1. IsFiniteSet(0 .. n)
    BY FS_Interval
  <2>2. 0 .. n \in SUBSET Nat
    OBVIOUS
  <2> QED
    BY <2>1, <2>2, Zenon DEF FiniteSubsetsOf, UpTo
<1>2. ASSUME NEW m \in Nat, NEW n \in Nat, n < m
      PROVE  <<UpTo(n), UpTo(m)>> \in StrictSubsetOrdering(Nat)
  <2>1. 0 .. n \in SUBSET Nat /\ 0 .. m \in SUBSET Nat /\ 0 .. n \subseteq 0 .. m
    BY <1>2
  <2>2. m \in 0 .. m /\ m \notin 0 .. n
    BY <1>2
  <2> QED
    BY <2>1, <2>2, SMT DEF StrictSubsetOrdering, UpTo
<1> QED
  BY <1>1, <1>2, Zenon

\* A set of numbers that is not empty has a least one.
LEMMA LeastExists ==
  ASSUME NEW S \in SUBSET Nat, S # {}
  PROVE  \E m \in S : \A x \in S : m <= x
<1> DEFINE T == {UpTo(n) : n \in S}
<1>1. T \subseteq FiniteSubsetsOf(Nat) /\ T # {}
  BY UpToFacts, Zenon
<1>2. PICK b \in T : \A c \in T : ~ (<<c, b>> \in StrictSubsetOrdering(Nat))
  <2> HIDE DEF T
  <2> QED
    BY <1>1, FS_StrictSubsetOrderingWellFounded, WFMin
<1>3. PICK m \in S : b = UpTo(m)
  OBVIOUS
<1>4. ASSUME NEW x \in S PROVE ~ (x < m)
  BY <1>2, <1>3, UpToFacts, Zenon
<1> QED
  BY <1>4

\* Induction: T holds the numbers for which something is true.
LEMMA Induction ==
  ASSUME NEW n \in Nat, NEW T, 0 \in T, \A i \in 1 .. n : i - 1 \in T => i \in T
  PROVE  \A i \in 0 .. n : i \in T
<1> DEFINE Wrong == {i \in 0 .. n : i \notin T}
<1>1. SUFFICES ASSUME Wrong # {} PROVE FALSE
  OBVIOUS
<1>2. Wrong \in SUBSET Nat
  OBVIOUS
<1>3. PICK m \in Wrong : \A x \in Wrong : m <= x
  <2> HIDE DEF Wrong
  <2> QED
    BY <1>1, <1>2, LeastExists
<1>4. m \in 0 .. n /\ m \notin T /\ m # 0
  OBVIOUS
<1>5. m \in 1 .. n /\ m - 1 \in 0 .. n /\ m - 1 < m
  BY <1>4
<1>6. m - 1 \in T
  BY <1>3, <1>5
<1> QED
  BY <1>4, <1>5, <1>6

\* Recursion: F takes the number, then the value before it.
Steps(n, S) == [1 .. n -> [S -> S]]
Recursion(g, n, S, base, F) ==
  g \in [0 .. n -> S] /\ g[0] = base /\ \A i \in 1 .. n : g[i] = F[i][g[i - 1]]

LEMMA RecursionExists ==
  ASSUME NEW n \in Nat, NEW S, NEW base \in S, NEW F \in Steps(n, S)
  PROVE  \E g : Recursion(g, n, S, base, F)
<1> DEFINE Good(m, g) == g[0] = base /\ \A i \in 1 .. m : g[i] = F[i][g[i - 1]]
           T == {m \in 0 .. n : \E g \in [0 .. m -> S] : Good(m, g)}
<1>1. 0 \in T
  <2>1. [i \in 0 .. 0 |-> base] \in [0 .. 0 -> S] /\ Good(0, [i \in 0 .. 0 |-> base])
    OBVIOUS
  <2> HIDE DEF Good
  <2> QED
    BY <2>1
<1>2. ASSUME NEW m \in 1 .. n, m - 1 \in T PROVE m \in T
  <2>1. PICK f \in [0 .. m - 1 -> S] : Good(m - 1, f)
    BY <1>2
  <2>2. m \in Nat /\ m - 1 \in Nat /\ m - 1 \in 0 .. m - 1 /\ m \notin 0 .. m - 1 /\ m \in 0 .. n /\ 0 \in 0 .. m /\ 0 # m
    OBVIOUS
  <2> DEFINE v == F[m][f[m - 1]]
             g == [i \in 0 .. m |-> IF i = m THEN v ELSE f[i]]
  <2>3. f[m - 1] \in S
    BY <2>1, <2>2
  <2>4. v \in S
    BY <2>3 DEF Steps
  <2>5. \A i \in 0 .. m : i \in 0 .. m - 1 \/ i = m
    BY <2>2
  <2> HIDE DEF v
  <2>6. g \in [0 .. m -> S]
    BY <2>1, <2>4, <2>5
  <2>7. ASSUME NEW i \in 1 .. m PROVE g[i] = F[i][g[i - 1]]
    <3>1. i \in 0 .. m /\ i - 1 \in 0 .. m /\ i - 1 # m /\ i - 1 \in 0 .. m - 1
      BY <2>2
    <3>2. g[i - 1] = f[i - 1]
      BY <3>1
    <3>3. CASE i = m
      BY <3>1, <3>2, <3>3 DEF v
    <3>4. CASE i # m
      <4>1. i \in 1 .. m - 1
        BY <2>2, <3>4
      <4>2. g[i] = f[i]
        BY <3>1, <3>4
      <4> QED
        BY <2>1, <3>2, <4>1, <4>2
    <3> QED
      BY <3>3, <3>4
  <2>8. g[0] = base
    BY <2>1, <2>2
  <2> HIDE DEF g
  <2> QED
    BY <2>2, <2>6, <2>7, <2>8
<1> HIDE DEF T
<1>3. n \in T
  <2>1. \A i \in 0 .. n : i \in T
    BY <1>1, <1>2, Induction
  <2> QED
    BY <2>1
<1> QED
  BY <1>3 DEF T, Recursion

-----------------------------------------------------------------------------
(* Lists.                                                                  *)

\* What Only keeps, element by element.
OnlyStep(s, good, f, i) ==
  IF i = 0 THEN << >> ELSE IF s[i] \in good THEN Append(f[i - 1], s[i]) ELSE f[i - 1]

LEMMA OnlyUnfolds ==
  ASSUME NEW S, NEW s \in Seq(S), NEW good
  PROVE  \E f \in [0 .. Len(s) -> Seq(S)] :
           /\ Only(s, good) = f[Len(s)]
           /\ \A i \in 0 .. Len(s) : f[i] = OnlyStep(s, good, f, i)
<1> DEFINE n == Len(s)
           F == [i \in 1 .. n |-> [q \in Seq(S) |-> IF s[i] \in good THEN Append(q, s[i]) ELSE q]]
           Good(f) == f = [i \in 0 .. n |-> IF i = 0 THEN << >>
                                            ELSE IF s[i] \in good THEN Append(f[i - 1], s[i]) ELSE f[i - 1]]
<1>1. n \in Nat /\ \A i \in 1 .. n : s[i] \in S
  OBVIOUS
<1>2. F \in Steps(n, Seq(S)) /\ << >> \in Seq(S)
  <2>1. ASSUME NEW i \in 1 .. n, NEW q \in Seq(S) PROVE Append(q, s[i]) \in Seq(S)
    BY <1>1
  <2> HIDE DEF n
  <2> QED
    BY <2>1 DEF Steps
<1>3. PICK g : Recursion(g, n, Seq(S), << >>, F)
  <2> HIDE DEF F, n
  <2> QED
    BY <1>1, <1>2, RecursionExists
<1>4. ASSUME NEW i \in 0 .. n PROVE g[i] = OnlyStep(s, good, g, i)
  <2>1. CASE i = 0
    BY <1>3, <2>1 DEF OnlyStep, Recursion
  <2>2. CASE i # 0
    <3>1. i \in 1 .. n /\ i - 1 \in 0 .. n
      BY <1>1, <2>2
    <3>2. g[i] = F[i][g[i - 1]] /\ g[i - 1] \in Seq(S)
      BY <1>3, <3>1 DEF Recursion
    <3> QED
      BY <2>2, <3>1, <3>2 DEF OnlyStep
  <2> QED
    BY <2>1, <2>2
<1>5. Good(g)
  <2>1. g = [i \in 0 .. n |-> g[i]]
    BY <1>3 DEF Recursion
  <2> HIDE DEF n
  <2> QED
    BY <1>4, <2>1 DEF OnlyStep
<1> DEFINE f == CHOOSE f : Good(f)
<1>6. Good(f)
  <2> HIDE DEF Good
  <2> QED
    BY <1>5
<1>7. Only(s, good) = f[n]
  BY Zenon DEF Only
<1> HIDE DEF f
<1>8. \A i \in 0 .. n : f[i] = OnlyStep(s, good, f, i)
  <2> HIDE DEF n
  <2> QED
    BY <1>6 DEF OnlyStep
<1> DEFINE T == {i \in 0 .. n : f[i] \in Seq(S)}
<1>9. \A i \in 0 .. n : i \in T
  <2>1. 0 \in T
    <3> HIDE DEF n
    <3>1. 0 \in 0 .. n /\ f[0] = << >>
      BY <1>1, <1>8 DEF OnlyStep
    <3> HIDE DEF f
    <3> QED
      BY <1>2, <3>1
  <2>2. ASSUME NEW i \in 1 .. n, i - 1 \in T PROVE i \in T
    <3> HIDE DEF n
    <3>1. i \in 0 .. n /\ i # 0 /\ f[i - 1] \in Seq(S) /\ s[i] \in S
      BY <1>1, <2>2
    <3> HIDE DEF f
    <3>2. Append(f[i - 1], s[i]) \in Seq(S)
      BY <3>1
    <3>3. f[i] = OnlyStep(s, good, f, i)
      BY <1>8, <3>1
    <3>4. f[i] \in Seq(S)
      BY <3>1, <3>2, <3>3, Zenon DEF OnlyStep
    <3> QED
      BY <3>1, <3>4
  <2> HIDE DEF T
  <2> QED
    BY <1>1, <2>1, <2>2, Induction
<1>10. f \in [0 .. n -> Seq(S)]
  <2>1. f = [i \in 0 .. n |-> f[i]]
    <3>1. \A i \in 0 .. n : f[i] = f[i]
      OBVIOUS
    <3> HIDE DEF n
    <3> QED
      BY <1>6
  <2> QED
    BY <1>9, <2>1
<1> QED
  BY <1>7, <1>8, <1>10

LEMMA OnlyFacts ==
  ASSUME NEW S, NEW s \in Seq(S), NEW good
  PROVE  /\ Only(s, good) \in Seq(S)
         /\ ToSet(Only(s, good)) = ToSet(s) \cap good
         /\ s # << >> /\ Last(s) \in good => Only(s, good) # << >> /\ Last(Only(s, good)) = Last(s)
<1> DEFINE n == Len(s)
<1>1. PICK f \in [0 .. n -> Seq(S)] :
        Only(s, good) = f[n] /\ \A i \in 0 .. n : f[i] = OnlyStep(s, good, f, i)
  BY OnlyUnfolds
<1>2. n \in Nat /\ n \in 0 .. n
  OBVIOUS
<1>3. f[n] \in Seq(S)
  BY <1>1, <1>2
<1> DEFINE T == {i \in 0 .. n : ToSet(f[i]) = {s[j] : j \in 1 .. i} \cap good}
<1>4. \A i \in 0 .. n : i \in T
  <2>1. 0 \in T
    BY <1>1, <1>2 DEF OnlyStep, ToSet
  <2>2. ASSUME NEW i \in 1 .. n, i - 1 \in T PROVE i \in T
    <3>1. i \in 0 .. n /\ i # 0 /\ i - 1 \in 0 .. n /\ s[i] \in S
      BY <1>2
    <3>2. {s[j] : j \in 1 .. i} = {s[j] : j \in 1 .. i - 1} \cup {s[i]}
      BY <3>1
    <3>3. f[i - 1] \in Seq(S) /\ ToSet(f[i - 1]) = {s[j] : j \in 1 .. i - 1} \cap good
      BY <1>1, <2>2, <3>1
    <3>4. f[i] = IF s[i] \in good THEN Append(f[i - 1], s[i]) ELSE f[i - 1]
      BY <1>1, <3>1 DEF OnlyStep
    <3>5. ToSet(Append(f[i - 1], s[i])) = ToSet(f[i - 1]) \cup {s[i]}
      <4> DEFINE q == f[i - 1]
                 e == s[i]
      <4>1. q \in Seq(S) /\ e \in S
        BY <3>1, <3>3
      <4> HIDE DEF q, e
      <4>2. Append(q, e) \in Seq(S) /\ Len(Append(q, e)) = Len(q) + 1 /\ Append(q, e)[Len(q) + 1] = e
            /\ \A j \in 1 .. Len(q) : Append(q, e)[j] = q[j]
        BY <4>1
      <4>3. Len(q) \in Nat
        BY <4>1
      <4>4. 1 .. Len(q) + 1 = (1 .. Len(q)) \cup {Len(q) + 1}
        BY <4>3
      <4>5. DOMAIN q = 1 .. Len(q) /\ DOMAIN Append(q, e) = 1 .. Len(q) + 1
        BY <4>1, <4>2
      <4> QED
        BY <4>2, <4>4, <4>5 DEF ToSet, q, e
    <3> QED
      BY <3>1, <3>2, <3>3, <3>4, <3>5
  <2> HIDE DEF T
  <2> QED
    BY <1>2, <2>1, <2>2, Induction
<1>5. ToSet(f[n]) = ToSet(s) \cap good
  <2>1. ToSet(s) = {s[j] : j \in 1 .. n}
    BY DEF ToSet
  <2> HIDE DEF n
  <2>2. ToSet(f[n]) = {s[j] : j \in 1 .. n} \cap good
    BY <1>2, <1>4
  <2> QED
    BY <2>1, <2>2
<1>6. ASSUME s # << >>, Last(s) \in good PROVE f[n] # << >> /\ Last(f[n]) = Last(s)
  <2>1. n \in 1 .. n /\ n - 1 \in 0 .. n /\ n # 0 /\ s[n] \in S
    BY <1>2, <1>6
  <2>2. f[n] = Append(f[n - 1], s[n]) /\ f[n - 1] \in Seq(S)
    BY <1>1, <1>2, <1>6, <2>1 DEF OnlyStep, Last
  <2> DEFINE q == f[n - 1]
             e == s[n]
  <2>3. q \in Seq(S) /\ e \in S /\ f[n] = Append(q, e) /\ e = Last(s)
    BY <2>1, <2>2 DEF Last
  <2> HIDE DEF q, e
  <2>4. Append(q, e) # << >> /\ Last(Append(q, e)) = e
    BY <2>3 DEF Last
  <2> QED
    BY <2>3, <2>4
<1> QED
  BY <1>1, <1>3, <1>5, <1>6

-----------------------------------------------------------------------------
(* The header dictionary.                                                  *)

Keys == Strings \X Strings
DistinctKeys(dict) == \A i, j \in DOMAIN dict : dict[i].key = dict[j].key => i = j
KeyOf(dict, key) == \E e \in ToSet(dict) : e.key = key

\* What a sequence of SetHeader makes of a dictionary: the entries are old
\* ones or news, and every key stays.
Written(dict, made, news) ==
  /\ made \in Seq(Entry)
  /\ DistinctKeys(dict) => DistinctKeys(made)
  /\ ToSet(made) \subseteq ToSet(dict) \cup news
  /\ \A key \in Keys : KeyOf(dict, key) => KeyOf(made, key)

\* The number of an entry, or 0.
LEMMA HasHeaderFacts ==
  ASSUME NEW dict \in Seq(Entry), NEW key
  PROVE  LET i == HasHeader(dict, key)
         IN \/ i = 0 /\ \A j \in DOMAIN dict : ~SameHeader(dict[j].key, key)
            \/ i \in DOMAIN dict /\ SameHeader(dict[i].key, key)
<1> DEFINE I == {i \in 1 .. Len(dict) : SameHeader(dict[i].key, key)}
<1>1. HasHeader(dict, key) = IF I # {} THEN Min(I) ELSE 0
  BY DEF HasHeader, SelectInSeq
<1>2. I \in SUBSET Nat /\ DOMAIN dict = 1 .. Len(dict)
  OBVIOUS
<1>3. CASE I = {}
  BY <1>1, <1>2, <1>3
<1>4. CASE I # {}
  <2>1. \E m \in I : \A x \in I : m <= x
    <3> HIDE DEF I
    <3> QED
      BY <1>2, <1>4, LeastExists
  <2>2. Min(I) \in I
    BY <2>1 DEF Min
  <2> QED
    BY <1>1, <1>2, <1>4, <2>2
<1> QED
  BY <1>3, <1>4

LEMMA KeyFacts ==
  ASSUME NEW dict \in Seq(Entry), NEW key
  PROVE  LET i == SelectInSeq(dict, LAMBDA e : e.key = key)
         IN \/ i = 0 /\ \A j \in DOMAIN dict : dict[j].key # key
            \/ i \in DOMAIN dict /\ dict[i].key = key
<1> DEFINE I == {i \in 1 .. Len(dict) : dict[i].key = key}
<1>1. SelectInSeq(dict, LAMBDA e : e.key = key) = IF I # {} THEN Min(I) ELSE 0
  BY DEF SelectInSeq
<1>2. I \in SUBSET Nat /\ DOMAIN dict = 1 .. Len(dict)
  OBVIOUS
<1>3. CASE I = {}
  BY <1>1, <1>2, <1>3
<1>4. CASE I # {}
  <2>1. \E m \in I : \A x \in I : m <= x
    <3> HIDE DEF I
    <3> QED
      BY <1>2, <1>4, LeastExists
  <2>2. Min(I) \in I
    BY <2>1 DEF Min
  <2> QED
    BY <1>1, <1>2, <1>4, <2>2
<1> QED
  BY <1>3, <1>4

LEMMA SetHeaderWrites ==
  ASSUME NEW dict \in Seq(Entry), NEW key \in Keys, NEW value \in Seq(Strings)
  PROVE  /\ Written(dict, SetHeader(dict, key, value), {[key |-> key, value |-> value]})
         /\ value # << >> => KeyOf(SetHeader(dict, key, value), key)
<1> DEFINE i == SelectInSeq(dict, LAMBDA e : e.key = key)
           new == [key |-> key, value |-> value]
<1>1. new \in Entry
  BY DEF Entry, Keys
<1>2. \/ i = 0 /\ \A j \in DOMAIN dict : dict[j].key # key
      \/ i \in DOMAIN dict /\ dict[i].key = key
  BY KeyFacts
<1>3. SetHeader(dict, key, value) =
        CASE value = << >> -> dict
          [] value # << >> /\ i = 0 -> Append(dict, new)
          [] OTHER -> [dict EXCEPT ![i].value = value]
  BY DEF SetHeader
<1>4. DOMAIN dict = 1 .. Len(dict) /\ Len(dict) \in Nat /\ \A j \in DOMAIN dict : dict[j] \in Entry
  OBVIOUS
<1>5. CASE value = << >>
  <2>1. SetHeader(dict, key, value) = dict
    BY <1>3, <1>5
  <2> QED
    BY <1>5, <2>1 DEF Written
<1>6. CASE value # << >> /\ i = 0
  <2> DEFINE made == Append(dict, new)
  <2>1. SetHeader(dict, key, value) = made
    BY <1>3, <1>6
  <2> HIDE DEF new, i
  <2>2. made \in Seq(Entry) /\ Len(made) = Len(dict) + 1 /\ DOMAIN made = 1 .. Len(dict) + 1
    BY <1>1
  <2>3. made[Len(dict) + 1] = new /\ \A j \in DOMAIN dict : made[j] = dict[j]
    BY <1>1, <1>4
  <2>4. \A j \in DOMAIN made : j \in DOMAIN dict \/ j = Len(dict) + 1
    BY <1>4, <2>2
  <2>5. \A j \in DOMAIN dict : j \in DOMAIN made
    BY <1>4, <2>2
  <2>6. Len(dict) + 1 \in DOMAIN made
    BY <1>4, <2>2
  <2> HIDE DEF made
  <2>7. ToSet(made) = ToSet(dict) \cup {new}
    BY <2>3, <2>4, <2>5, <2>6 DEF ToSet
  <2>8. \A j \in DOMAIN dict : made[j].key # key
    BY <1>2, <1>6, <2>3, <1>4
  <2>9. DistinctKeys(dict) => DistinctKeys(made)
    BY <2>3, <2>4, <2>8 DEF DistinctKeys, new
  <2>10. \A k \in Keys : KeyOf(dict, k) => KeyOf(made, k)
    BY <2>7 DEF KeyOf
  <2>11. KeyOf(made, key)
    <3>1. new.key = key
      BY DEF new
    <3> QED
      BY <2>7, <3>1, Zenon DEF KeyOf
  <2> QED
    <3>1. Written(dict, made, {new})
      BY <2>2, <2>7, <2>9, <2>10, Zenon DEF Written
    <3> QED
      BY <2>1, <2>11, <3>1 DEF new
<1>7. CASE value # << >> /\ i # 0
  <2> DEFINE made == [dict EXCEPT ![i].value = value]
  <2>1. SetHeader(dict, key, value) = made
    BY <1>3, <1>7
  <2>2. i \in DOMAIN dict /\ dict[i].key = key
    BY <1>2, <1>7
  <2> HIDE DEF i
  <2>3. [dict[i] EXCEPT !.value = value] = new
    BY <1>4, <2>2 DEF Entry
  <2>4. DOMAIN made = DOMAIN dict /\ made[i] = new /\ \A j \in DOMAIN dict : j # i => made[j] = dict[j]
    BY <2>2, <2>3
  <2>5. made = [j \in 1 .. Len(dict) |-> IF j = i THEN new ELSE dict[j]]
    BY <1>4, <2>2, <2>3
  <2>6. \A j \in 1 .. Len(dict) : (IF j = i THEN new ELSE dict[j]) \in Entry
    BY <1>1, <1>4
  <2> HIDE DEF new
  <2>7. made \in Seq(Entry)
    <3> HIDE DEF made
    <3> QED
      BY <1>4, <2>5, <2>6, SMTT(30)
  <2> HIDE DEF made
  <2>8. ToSet(made) \subseteq ToSet(dict) \cup {new}
    BY <2>4 DEF ToSet
  <2>9. \A j \in DOMAIN dict : made[j].key = dict[j].key
    BY <2>2, <2>4 DEF new
  <2>10. DistinctKeys(dict) => DistinctKeys(made)
    BY <2>4, <2>9 DEF DistinctKeys
  <2>11. \A k \in Keys : KeyOf(dict, k) => KeyOf(made, k)
    BY <2>4, <2>9 DEF KeyOf, ToSet
  <2>12. KeyOf(made, key)
    BY <2>2, <2>4, <2>9 DEF KeyOf, ToSet
  <2> QED
    BY <2>1, <2>7, <2>8, <2>10, <2>11, <2>12 DEF Written, new
<1> QED
  BY <1>5, <1>6, <1>7

LEMMA WrittenOnce ==
  ASSUME NEW dict \in Seq(Entry), NEW key \in Keys, NEW value \in Seq(Strings),
         NEW news, [key |-> key, value |-> value] \in news
  PROVE  Written(dict, SetHeader(dict, key, value), news)
<1>1. Written(dict, SetHeader(dict, key, value), {[key |-> key, value |-> value]})
  BY SetHeaderWrites, Zenon
<1> QED
  BY <1>1, Zenon DEF Written

LEMMA WrittenTwice ==
  ASSUME NEW a \in Seq(Entry), NEW b, NEW c, NEW news, Written(a, b, news), Written(b, c, news)
  PROVE  Written(a, c, news)
BY Zenon DEF Written

LEMMA WrittenNothing ==
  ASSUME NEW dict \in Seq(Entry), NEW news
  PROVE  Written(dict, dict, news)
BY Zenon DEF Written

\* SetHeaders, header by header.
LEMMA SetHeadersUnfolds ==
  ASSUME NEW dict \in Seq(Entry), NEW headers \in Seq(Entry)
  PROVE  \E f : /\ SetHeaders(dict, headers) = f[Len(headers)]
                /\ f[0] = dict
                /\ \A i \in 1 .. Len(headers) : f[i] = SetHeader(f[i - 1], headers[i].key, headers[i].value)
<1> DEFINE n == Len(headers)
           Good(f) == f = [i \in 0 .. n |-> IF i = 0 THEN dict
                                            ELSE SetHeader(f[i - 1], headers[i].key, headers[i].value)]
           F == [i \in 1 .. n |-> [q \in Seq(Entry) |-> SetHeader(q, headers[i].key, headers[i].value)]]
<1>1. n \in Nat /\ \A i \in 1 .. n : headers[i].key \in Keys /\ headers[i].value \in Seq(Strings)
  <2>1. \A i \in 1 .. n : headers[i] \in Entry
    OBVIOUS
  <2> QED
    BY <2>1 DEF Entry, Keys
<1>2. F \in Steps(n, Seq(Entry))
  <2>1. ASSUME NEW i \in 1 .. n, NEW q \in Seq(Entry)
        PROVE  SetHeader(q, headers[i].key, headers[i].value) \in Seq(Entry)
    <3>1. headers[i].key \in Keys /\ headers[i].value \in Seq(Strings)
      BY <1>1
    <3> QED
      BY <3>1, SetHeaderWrites, Zenon DEF Written
  <2> HIDE DEF n
  <2> QED
    BY <2>1 DEF Steps
<1>3. PICK g : Recursion(g, n, Seq(Entry), dict, F)
  <2> HIDE DEF F, n
  <2> QED
    BY <1>1, <1>2, RecursionExists
<1> DEFINE Step(f, i) == IF i = 0 THEN dict ELSE SetHeader(f[i - 1], headers[i].key, headers[i].value)
<1>4. ASSUME NEW i \in 0 .. n PROVE g[i] = Step(g, i)
  <2>1. CASE i = 0
    BY <1>3, <2>1 DEF Recursion
  <2>2. CASE i # 0
    <3>1. i \in 1 .. n /\ i - 1 \in 0 .. n
      BY <1>1, <2>2
    <3>2. g[i] = F[i][g[i - 1]] /\ g[i - 1] \in Seq(Entry)
      BY <1>3, <3>1 DEF Recursion
    <3> QED
      BY <2>2, <3>1, <3>2
  <2> QED
    BY <2>1, <2>2
<1>5. Good(g)
  <2>1. g = [i \in 0 .. n |-> g[i]]
    BY <1>3 DEF Recursion
  <2> HIDE DEF n
  <2> QED
    BY <1>4, <2>1
<1> DEFINE f == CHOOSE f : Good(f)
<1>6. Good(f)
  <2> HIDE DEF Good
  <2> QED
    BY <1>5
<1>7. SetHeaders(dict, headers) = f[n]
  BY Zenon DEF SetHeaders
<1> HIDE DEF f
<1>8. \A i \in 0 .. n : f[i] = Step(f, i)
  <2> HIDE DEF n
  <2> QED
    BY <1>6
<1>9. f[0] = dict
  BY <1>1, <1>8
<1>10. ASSUME NEW i \in 1 .. n PROVE f[i] = SetHeader(f[i - 1], headers[i].key, headers[i].value)
  <2>1. i \in 0 .. n /\ i # 0
    BY <1>1
  <2> QED
    BY <1>8, <2>1
<1> QED
  BY <1>7, <1>9, <1>10

LEMMA SetHeadersWrites ==
  ASSUME NEW dict \in Seq(Entry), NEW headers \in Seq(Entry)
  PROVE  Written(dict, SetHeaders(dict, headers), ToSet(headers))
<1> DEFINE n == Len(headers)
           news == ToSet(headers)
<1>1. PICK f : /\ SetHeaders(dict, headers) = f[n]
               /\ f[0] = dict
               /\ \A i \in 1 .. n : f[i] = SetHeader(f[i - 1], headers[i].key, headers[i].value)
  BY SetHeadersUnfolds
<1>2. n \in Nat /\ n \in 0 .. n /\ DOMAIN headers = 1 .. n
  OBVIOUS
<1> DEFINE T == {i \in 0 .. n : Written(dict, f[i], news)}
<1>3. 0 \in T
  BY <1>1, <1>2, WrittenNothing
<1>4. ASSUME NEW i \in 1 .. n, i - 1 \in T PROVE i \in T
  <2>1. i \in 0 .. n /\ headers[i] \in Entry /\ headers[i] \in news
    BY <1>2 DEF ToSet
  <2>2. headers[i].key \in Keys /\ headers[i].value \in Seq(Strings)
        /\ [key |-> headers[i].key, value |-> headers[i].value] = headers[i]
    BY <2>1 DEF Entry, Keys
  <2>3. Written(dict, f[i - 1], news) /\ f[i] = SetHeader(f[i - 1], headers[i].key, headers[i].value)
    BY <1>1, <1>4
  <2>4. f[i - 1] \in Seq(Entry)
    BY <2>3 DEF Written
  <2> HIDE DEF news
  <2>5. Written(f[i - 1], f[i], news)
    <3> DEFINE q == f[i - 1]
    <3> HIDE DEF q
    <3>1. q \in Seq(Entry)
      BY <2>4 DEF q
    <3>2. Written(q, SetHeader(q, headers[i].key, headers[i].value), news)
      BY <2>1, <2>2, <3>1, WrittenOnce, ZenonT(30)
    <3> QED
      BY <2>3, <3>2 DEF q
  <2>6. Written(dict, f[i], news)
    BY <2>3, <2>5, WrittenTwice
  <2> QED
    BY <2>1, <2>6
<1>5. \A i \in 0 .. n : i \in T
  <2> HIDE DEF T, n
  <2> QED
    BY <1>2, <1>3, <1>4, Induction
<1> QED
  BY <1>1, <1>2, <1>5

-----------------------------------------------------------------------------
(* The route.                                                              *)

\* x stands before y in s.
Follows(s, x, y) == \E i, j \in DOMAIN s : i < j /\ s[i] = x /\ s[j] = y

\* q has elements of s up to i, in their order.
Drawn(q, s, i) ==
  /\ \A a \in DOMAIN q : \E c \in 1 .. i : q[a] = s[c]
  /\ \A a, b \in DOMAIN q : a < b => \E c, d \in 1 .. i : c < d /\ q[a] = s[c] /\ q[b] = s[d]

LEMMA DrawnFurther ==
  ASSUME NEW q, NEW s, NEW i \in Nat, i # 0, Drawn(q, s, i - 1)
  PROVE  Drawn(q, s, i)
<1>1. \A c \in 1 .. i - 1 : c \in 1 .. i
  OBVIOUS
<1>2. ASSUME NEW a \in DOMAIN q PROVE \E c \in 1 .. i : q[a] = s[c]
  BY <1>1, Zenon DEF Drawn
<1>3. ASSUME NEW a \in DOMAIN q, NEW b \in DOMAIN q, a < b
      PROVE  \E c, d \in 1 .. i : c < d /\ q[a] = s[c] /\ q[b] = s[d]
  <2>1. PICK c \in 1 .. i - 1, d \in 1 .. i - 1 : c < d /\ q[a] = s[c] /\ q[b] = s[d]
    BY <1>3, Zenon DEF Drawn
  <2> QED
    BY <1>1, <2>1, Zenon
<1> QED
  BY <1>2, <1>3, Zenon DEF Drawn

LEMMA DrawnOneMore ==
  ASSUME NEW S, NEW q \in Seq(S), NEW e \in S, NEW s, NEW i \in Nat, i # 0, s[i] = e,
         Drawn(q, s, i - 1)
  PROVE  Drawn(Append(q, e), s, i)
<1> DEFINE p == Append(q, e)
<1>1. /\ DOMAIN q = 1 .. Len(q) /\ DOMAIN p = 1 .. Len(q) + 1 /\ Len(q) \in Nat
      /\ p[Len(q) + 1] = e /\ \A a \in DOMAIN q : p[a] = q[a]
  OBVIOUS
<1>2. \A a \in DOMAIN p : a \in DOMAIN q \/ a = Len(q) + 1
  BY <1>1
<1>3. i \in 1 .. i /\ \A c \in 1 .. i - 1 : c \in 1 .. i /\ c < i
  OBVIOUS
<1> HIDE DEF p
<1>4. Drawn(q, s, i)
  BY DrawnFurther
<1>5. ASSUME NEW a \in DOMAIN p PROVE \E c \in 1 .. i : p[a] = s[c]
  <2>1. CASE a \in DOMAIN q
    <3>1. PICK c \in 1 .. i : q[a] = s[c]
      BY <1>4, <2>1, Zenon DEF Drawn
    <3> QED
      BY <1>1, <2>1, <3>1, Zenon
  <2>2. CASE a = Len(q) + 1
    BY <1>1, <1>3, <2>2, Zenon
  <2> QED
    BY <1>2, <2>1, <2>2, Zenon
<1>6. ASSUME NEW a \in DOMAIN p, NEW b \in DOMAIN p, a < b
      PROVE  \E c, d \in 1 .. i : c < d /\ p[a] = s[c] /\ p[b] = s[d]
  <2>1. a \in DOMAIN q
    BY <1>1, <1>2, <1>6
  <2>2. CASE b \in DOMAIN q
    <3>1. PICK c \in 1 .. i, d \in 1 .. i : c < d /\ q[a] = s[c] /\ q[b] = s[d]
      BY <1>4, <1>6, <2>1, <2>2, Zenon DEF Drawn
    <3> QED
      BY <1>1, <2>1, <2>2, <3>1, Zenon
  <2>3. CASE b = Len(q) + 1
    <3>1. PICK c \in 1 .. i - 1 : q[a] = s[c]
      BY <2>1, Zenon DEF Drawn
    <3> QED
      BY <1>1, <1>3, <2>1, <2>3, <3>1, Zenon
  <2> QED
    BY <1>2, <2>2, <2>3, Zenon
<1> QED
  BY <1>5, <1>6, Zenon DEF Drawn, p

LEMMA OnlyOrder ==
  ASSUME NEW S, NEW s \in Seq(S), NEW good, NEW x, NEW y, Follows(Only(s, good), x, y)
  PROVE  Follows(s, x, y)
<1> DEFINE n == Len(s)
<1>1. PICK f \in [0 .. n -> Seq(S)] :
        Only(s, good) = f[n] /\ \A i \in 0 .. n : f[i] = OnlyStep(s, good, f, i)
  BY OnlyUnfolds
<1>2. n \in Nat /\ n \in 0 .. n /\ DOMAIN s = 1 .. n
  OBVIOUS
<1> DEFINE T == {i \in 0 .. n : Drawn(f[i], s, i)}
<1>3. 0 \in T
  <2>1. f[0] = << >>
    BY <1>1, <1>2 DEF OnlyStep
  <2> QED
    BY <1>2, <2>1 DEF Drawn
<1>4. ASSUME NEW i \in 1 .. n, i - 1 \in T PROVE i \in T
  <2> DEFINE q == f[i - 1]
             e == s[i]
  <2>1. i \in 0 .. n /\ i # 0 /\ i \in Nat /\ i - 1 \in 0 .. n /\ s[i] \in S
    BY <1>2
  <2>2. q \in Seq(S) /\ e \in S /\ Drawn(q, s, i - 1) /\ s[i] = e
    BY <1>1, <1>4, <2>1
  <2>3. f[i] = IF e \in good THEN Append(q, e) ELSE q
    BY <1>1, <2>1 DEF OnlyStep
  <2> HIDE DEF q, e
  <2>4. CASE e \notin good
    BY <2>1, <2>2, <2>3, <2>4, DrawnFurther
  <2>5. CASE e \in good
    <3>1. Drawn(Append(q, e), s, i)
      BY <2>1, <2>2, DrawnOneMore
    <3> QED
      BY <2>1, <2>3, <2>5, <3>1
  <2> QED
    BY <2>4, <2>5
<1>5. \A i \in 0 .. n : i \in T
  <2> HIDE DEF T, n
  <2> QED
    BY <1>2, <1>3, <1>4, Induction
<1> DEFINE q == Only(s, good)
<1>6. Drawn(q, s, n)
  BY <1>1, <1>2, <1>5
<1>7. PICK a \in DOMAIN q, b \in DOMAIN q : a < b /\ q[a] = x /\ q[b] = y
  BY Zenon DEF Follows
<1> HIDE DEF n, q
<1>8. PICK c \in 1 .. n, d \in 1 .. n : c < d /\ q[a] = s[c] /\ q[b] = s[d]
  BY <1>6, <1>7, Zenon DEF Drawn
<1> QED
  BY <1>2, <1>7, <1>8, Zenon DEF Follows

\* What Prefer leaves.
LEMMA PreferFacts ==
  ASSUME NEW S, NEW items \in Seq(S), items # << >>, NEW good
  PROVE  /\ Prefer(items, good) \in Seq(S) /\ Prefer(items, good) # << >>
         /\ ToSet(Prefer(items, good)) = IF ToSet(items) \cap good # {} THEN ToSet(items) \cap good
                                         ELSE ToSet(items)
         /\ \A x, y : Follows(Prefer(items, good), x, y) => Follows(items, x, y)
<1>1. CASE ToSet(items) \cap good # {}
  <2>1. Prefer(items, good) = Only(items, good)
    BY <1>1 DEF Prefer
  <2>2. Only(items, good) \in Seq(S) /\ ToSet(Only(items, good)) = ToSet(items) \cap good
    BY OnlyFacts, Zenon
  <2>3. Only(items, good) # << >>
    BY <1>1, <2>2 DEF ToSet
  <2>4. \A x, y : Follows(Only(items, good), x, y) => Follows(items, x, y)
    BY OnlyOrder, Zenon
  <2> QED
    BY <1>1, <2>1, <2>2, <2>3, <2>4, Zenon
<1>2. CASE ToSet(items) \cap good = {}
  <2>1. Prefer(items, good) = items
    BY <1>2 DEF Prefer
  <2> QED
    BY <1>2, <2>1
<1> QED
  BY <1>1, <1>2

Literal(items, i) == {m \in ToSet(items) : ~HasCaret(m.url[i])}
NotAny(items) == {m \in ToSet(items) : AnyMethod \notin m.methods}
\* m and n have their placeholders in the same places, up to k.
Alike(m, n, k) == \A j \in 1 .. k : HasCaret(m.url[j]) <=> HasCaret(n.url[j])

LEMMA MostLikeUnfolds ==
  ASSUME NEW S, NEW items \in Seq(S), items # << >>, Len(items[1].url) \in Nat
  PROVE  \E f : /\ MostLike(items) =
                     Head(Prefer(f[Len(items[1].url)], NotAny(f[Len(items[1].url)])))
                /\ f[0] = items
                /\ \A i \in 1 .. Len(items[1].url) : f[i] = Prefer(f[i - 1], Literal(f[i - 1], i))
<1> DEFINE n == Len(items[1].url)
           Good(f) == f = [i \in 0 .. n |-> IF i = 0 THEN items
                                            ELSE Prefer(f[i - 1], {m \in ToSet(f[i - 1]) : ~HasCaret(m.url[i])})]
           V == Seq(S) \ {<< >>}
           F == [i \in 1 .. n |-> [q \in V |-> Prefer(q, {m \in ToSet(q) : ~HasCaret(m.url[i])})]]
<1>1. n \in Nat
  OBVIOUS
<1>2. F \in Steps(n, V)
  <2>1. ASSUME NEW i \in 1 .. n, NEW q \in V
        PROVE  Prefer(q, {m \in ToSet(q) : ~HasCaret(m.url[i])}) \in V
    <3>1. q \in Seq(S) /\ q # << >>
      OBVIOUS
    <3> QED
      BY <3>1, PreferFacts, Zenon
  <2> HIDE DEF n, V
  <2> QED
    BY <2>1 DEF Steps
<1>3. PICK g : Recursion(g, n, V, items, F)
  <2>1. items \in V
    OBVIOUS
  <2> HIDE DEF F, n, V
  <2> QED
    BY <1>1, <1>2, <2>1, RecursionExists
<1> DEFINE Step(f, i) == IF i = 0 THEN items
                         ELSE Prefer(f[i - 1], {m \in ToSet(f[i - 1]) : ~HasCaret(m.url[i])})
<1>4. ASSUME NEW i \in 0 .. n PROVE g[i] = Step(g, i)
  <2>1. CASE i = 0
    BY <1>3, <2>1 DEF Recursion
  <2>2. CASE i # 0
    <3>1. i \in 1 .. n /\ i - 1 \in 0 .. n
      BY <1>1, <2>2
    <3> HIDE DEF V
    <3>2. g[i] = F[i][g[i - 1]] /\ g[i - 1] \in V
      BY <1>3, <3>1 DEF Recursion
    <3> QED
      BY <2>2, <3>1, <3>2
  <2> QED
    BY <2>1, <2>2
<1>5. Good(g)
  <2>1. g = [i \in 0 .. n |-> g[i]]
    BY <1>3 DEF Recursion
  <2> HIDE DEF n
  <2> QED
    BY <1>4, <2>1
<1> DEFINE f == CHOOSE f : Good(f)
<1>6. Good(f)
  <2> HIDE DEF Good
  <2> QED
    BY <1>5
<1>7. MostLike(items) = Head(Prefer(f[n], NotAny(f[n])))
  BY Zenon DEF MostLike, NotAny
<1> HIDE DEF f
<1>8. \A i \in 0 .. n : f[i] = Step(f, i)
  <2> HIDE DEF n
  <2> QED
    BY <1>6
<1>9. f[0] = items
  <2>1. 0 \in 0 .. n
    BY <1>1
  <2> HIDE DEF n
  <2> QED
    BY <1>8, <2>1, Zenon
<1>10. ASSUME NEW i \in 1 .. n PROVE f[i] = Prefer(f[i - 1], Literal(f[i - 1], i))
  <2>1. i \in 0 .. n /\ i # 0
    BY <1>1
  <2> QED
    BY <1>8, <2>1 DEF Literal
<1> QED
  BY <1>7, <1>9, <1>10
\* q has the items that are literal for longest, looking at i segments.
LiteralUpTo(q, items, i) ==
  /\ q # << >> /\ ToSet(q) \subseteq ToSet(items)
  /\ \A x, y : Follows(q, x, y) => Follows(items, x, y)
  /\ \A x, y \in ToSet(q) : Alike(x, y, i)
  /\ \A x \in ToSet(q), m \in ToSet(items), j \in 1 .. i :
       Alike(m, x, j - 1) /\ ~HasCaret(m.url[j]) => ~HasCaret(x.url[j])
  /\ \A x \in ToSet(q), m \in ToSet(items) : Alike(m, x, i) => m \in ToSet(q)

LEMMA LiteralFurther ==
  ASSUME NEW S, NEW items, NEW q \in Seq(S), NEW i \in Nat, i # 0, LiteralUpTo(q, items, i - 1)
  PROVE  /\ Prefer(q, Literal(q, i)) \in Seq(S)
         /\ LiteralUpTo(Prefer(q, Literal(q, i)), items, i)
<1> DEFINE p == Prefer(q, Literal(q, i))
           L == Literal(q, i)
<1>1. q # << >>
  BY Zenon DEF LiteralUpTo
<1>2. L \subseteq ToSet(q)
  BY DEF Literal
<1>3. /\ p \in Seq(S) /\ p # << >>
      /\ ToSet(p) = IF L # {} THEN L ELSE ToSet(q)
      /\ \A x, y : Follows(p, x, y) => Follows(q, x, y)
  <2>1. ToSet(q) \cap L = L
    BY <1>2
  <2>2. /\ p \in Seq(S) /\ p # << >>
        /\ ToSet(p) = IF ToSet(q) \cap L # {} THEN ToSet(q) \cap L ELSE ToSet(q)
        /\ \A x, y : Follows(p, x, y) => Follows(q, x, y)
    BY <1>1, PreferFacts, Zenon
  <2> QED
    BY <2>1, <2>2
<1>4. \A m \in ToSet(q) : m \in L <=> ~HasCaret(m.url[i])
  BY DEF Literal
<1> HIDE DEF p, L
<1>5. ToSet(p) \subseteq ToSet(q) /\ ToSet(q) \subseteq ToSet(items)
  BY <1>2, <1>3 DEF LiteralUpTo
<1>6. \A x, y \in ToSet(p) : HasCaret(x.url[i]) <=> HasCaret(y.url[i])
  <2>1. CASE L # {}
    BY <1>2, <1>3, <1>4, <2>1, Zenon
  <2>2. CASE L = {}
    <3>1. \A m \in ToSet(q) : HasCaret(m.url[i])
      BY <1>4, <2>2, Zenon
    <3> QED
      BY <1>5, <3>1, Zenon
  <2> QED
    BY <2>1, <2>2
<1>7. \A m, x : Alike(m, x, i) <=> Alike(m, x, i - 1) /\ (HasCaret(m.url[i]) <=> HasCaret(x.url[i]))
  <2>1. \A j \in 1 .. i : j \in 1 .. i - 1 \/ j = i
    OBVIOUS
  <2>2. i \in 1 .. i /\ \A j \in 1 .. i - 1 : j \in 1 .. i
    OBVIOUS
  <2> QED
    BY <2>1, <2>2, Zenon DEF Alike
<1>8. \A x, y \in ToSet(p) : Alike(x, y, i)
  BY <1>5, <1>6, <1>7, Zenon DEF LiteralUpTo
<1>9. ASSUME NEW x \in ToSet(p), NEW m \in ToSet(items), NEW j \in 1 .. i,
             Alike(m, x, j - 1), ~HasCaret(m.url[j])
      PROVE  ~HasCaret(x.url[j])
  <2>1. x \in ToSet(q)
    BY <1>5
  <2>2. CASE j # i
    <3>1. j \in 1 .. i - 1
      BY <2>2
    <3> QED
      BY <1>9, <2>1, <3>1, Zenon DEF LiteralUpTo
  <2>3. CASE j = i
    <3>1. m \in ToSet(q)
      BY <1>9, <2>1, <2>3, Zenon DEF LiteralUpTo
    <3>2. m \in L
      BY <1>4, <1>9, <2>3, <3>1, Zenon
    <3>3. x \in L
      BY <1>3, <3>2, Zenon
    <3> QED
      BY <1>4, <2>1, <2>3, <3>3, Zenon
  <2> QED
    BY <2>2, <2>3
<1>10. ASSUME NEW x \in ToSet(p), NEW m \in ToSet(items), Alike(m, x, i)
       PROVE  m \in ToSet(p)
  <2>1. x \in ToSet(q) /\ Alike(m, x, i - 1) /\ (HasCaret(m.url[i]) <=> HasCaret(x.url[i]))
    BY <1>5, <1>7, <1>10, Zenon
  <2>2. m \in ToSet(q)
    BY <2>1, Zenon DEF LiteralUpTo
  <2>3. CASE L # {}
    BY <1>3, <1>4, <2>1, <2>2, <2>3, Zenon
  <2>4. CASE L = {}
    BY <1>3, <2>2, <2>4, Zenon
  <2> QED
    BY <2>3, <2>4
<1>11. \A x, y : Follows(p, x, y) => Follows(items, x, y)
  BY <1>3, Zenon DEF LiteralUpTo
<1>12. ToSet(p) \subseteq ToSet(items)
  BY <1>5, Zenon
<1>13. LiteralUpTo(p, items, i)
  BY <1>3, <1>8, <1>9, <1>10, <1>11, <1>12, Zenon DEF LiteralUpTo
<1> QED
  BY <1>3, <1>13 DEF p, L

\* The item MostLike takes.
Taken(x, items, n) ==
  /\ x \in ToSet(items)
  /\ \A m \in ToSet(items), j \in 1 .. n :
       Alike(m, x, j - 1) /\ ~HasCaret(m.url[j]) => ~HasCaret(x.url[j])
  /\ \A m \in ToSet(items) : Alike(m, x, n) =>
       /\ AnyMethod \in x.methods => AnyMethod \in m.methods
       /\ m # x /\ AnyMethod \notin m.methods => Follows(items, x, m)

LEMMA MostLikeFacts ==
  ASSUME NEW S, NEW items \in Seq(S), items # << >>, Len(items[1].url) \in Nat
  PROVE  Taken(MostLike(items), items, Len(items[1].url))
<1> DEFINE n == Len(items[1].url)
<1>1. PICK f : /\ MostLike(items) = Head(Prefer(f[n], NotAny(f[n])))
               /\ f[0] = items
               /\ \A i \in 1 .. n : f[i] = Prefer(f[i - 1], Literal(f[i - 1], i))
  BY MostLikeUnfolds
<1>2. n \in Nat /\ n \in 0 .. n /\ 0 \in 0 .. n
  OBVIOUS
<1> DEFINE T == {i \in 0 .. n : f[i] \in Seq(S) /\ LiteralUpTo(f[i], items, i)}
<1> HIDE DEF n
<1>3. 0 \in T
  <2>1. \A x, y : Alike(x, y, 0)
    BY DEF Alike
  <2>2. \A j \in 1 .. 0 : FALSE
    OBVIOUS
  <2>3. LiteralUpTo(items, items, 0)
    BY <2>1, <2>2, Zenon DEF LiteralUpTo
  <2> QED
    BY <1>1, <1>2, <2>3
<1>4. ASSUME NEW i \in 1 .. n, i - 1 \in T PROVE i \in T
  <2> DEFINE q == f[i - 1]
  <2>1. i \in Nat /\ i # 0 /\ i \in 0 .. n
    BY <1>2
  <2>2. q \in Seq(S) /\ LiteralUpTo(q, items, i - 1)
    BY <1>4
  <2>3. f[i] = Prefer(q, Literal(q, i))
    BY <1>1
  <2> HIDE DEF q
  <2>4. f[i] \in Seq(S) /\ LiteralUpTo(f[i], items, i)
    BY <2>1, <2>2, <2>3, LiteralFurther, Zenon
  <2> QED
    BY <2>1, <2>4
<1>5. n \in T
  <2>1. \A i \in 0 .. n : i \in T
    <3> HIDE DEF T
    <3> QED
      BY <1>2, <1>3, <1>4, Induction
  <2> QED
    BY <1>2, <2>1
<1> DEFINE q == f[n]
           p == Prefer(q, NotAny(q))
           x == Head(p)
<1>6. q \in Seq(S) /\ LiteralUpTo(q, items, n) /\ q # << >>
  <2>1. q \in Seq(S) /\ LiteralUpTo(q, items, n)
    BY <1>5
  <2> QED
    BY <2>1, Zenon DEF LiteralUpTo
<1> HIDE DEF q
<1>7. /\ p \in Seq(S) /\ p # << >>
      /\ ToSet(p) = IF ToSet(q) \cap NotAny(q) # {} THEN ToSet(q) \cap NotAny(q) ELSE ToSet(q)
      /\ \A y, z : Follows(p, y, z) => Follows(q, y, z)
  BY <1>6, PreferFacts, Zenon
<1>8. \A m \in ToSet(q) : m \in NotAny(q) <=> AnyMethod \notin m.methods
  BY DEF NotAny
<1> HIDE DEF p
<1>9. x \in ToSet(p) /\ x = p[1] /\ 1 \in DOMAIN p
  BY <1>7 DEF ToSet
<1> HIDE DEF x
<1>10. x \in ToSet(q) /\ x \in ToSet(items)
  BY <1>6, <1>7, <1>9 DEF LiteralUpTo
<1>11. \A m \in ToSet(items), j \in 1 .. n :
         Alike(m, x, j - 1) /\ ~HasCaret(m.url[j]) => ~HasCaret(x.url[j])
  BY <1>6, <1>10, Zenon DEF LiteralUpTo
<1>12. ASSUME NEW m \in ToSet(items), Alike(m, x, n)
       PROVE  /\ AnyMethod \in x.methods => AnyMethod \in m.methods
              /\ m # x /\ AnyMethod \notin m.methods => Follows(items, x, m)
  <2>1. m \in ToSet(q)
    BY <1>6, <1>10, <1>12, Zenon DEF LiteralUpTo
  <2>2. ASSUME AnyMethod \notin m.methods
        PROVE  AnyMethod \notin x.methods /\ m \in ToSet(p)
    <3>1. m \in ToSet(q) \cap NotAny(q)
      BY <1>8, <2>1, <2>2
    <3>2. ToSet(p) = ToSet(q) \cap NotAny(q)
      BY <1>7, <3>1
    <3> QED
      BY <1>8, <1>9, <1>10, <3>1, <3>2
  <2>3. ASSUME m # x, AnyMethod \notin m.methods PROVE Follows(items, x, m)
    <3>1. PICK j \in DOMAIN p : p[j] = m
      BY <2>2, <2>3 DEF ToSet
    <3>2. 1 < j
      BY <1>7, <1>9, <2>3, <3>1
    <3>3. Follows(p, x, m)
      BY <1>9, <3>1, <3>2, Zenon DEF Follows
    <3> QED
      BY <1>6, <1>7, <3>3, Zenon DEF LiteralUpTo
  <2> QED
    BY <2>2, <2>3, Zenon
<1>13. Taken(x, items, n)
  BY <1>10, <1>11, <1>12, Zenon DEF Taken
<1>14. MostLike(items) = x
  BY <1>1 DEF p, q, x
<1> QED
  BY <1>13, <1>14 DEF n

LEMMA ConcatFacts ==
  ASSUME NEW S, NEW s \in Seq(S), NEW t \in Seq(S)
  PROVE  /\ s \o t \in Seq(S) /\ ToSet(s \o t) = ToSet(s) \cup ToSet(t)
         /\ DOMAIN (s \o t) = 1 .. Len(s) + Len(t)
         /\ \A i \in 1 .. Len(s) + Len(t) : (s \o t)[i] = IF i <= Len(s) THEN s[i] ELSE t[i - Len(s)]
<1> DEFINE u == s \o t
<1>1. u \in Seq(S) /\ Len(s) \in Nat /\ Len(t) \in Nat /\ DOMAIN s = 1 .. Len(s) /\ DOMAIN t = 1 .. Len(t)
  OBVIOUS
<1>2. DOMAIN u = 1 .. Len(s) + Len(t)
      /\ \A i \in 1 .. Len(s) + Len(t) : u[i] = IF i <= Len(s) THEN s[i] ELSE t[i - Len(s)]
  OBVIOUS
<1> HIDE DEF u
<1>3. \A i \in DOMAIN s : i \in DOMAIN u /\ u[i] = s[i]
  BY <1>1, <1>2
<1>4. \A i \in DOMAIN t : Len(s) + i \in DOMAIN u /\ u[Len(s) + i] = t[i]
  BY <1>1, <1>2
<1>5. \A i \in DOMAIN u : i \in DOMAIN s \/ i - Len(s) \in DOMAIN t
  BY <1>1, <1>2
<1>6. \A i \in DOMAIN u : u[i] \in ToSet(s) \cup ToSet(t)
  BY <1>1, <1>2, <1>5 DEF ToSet
<1>7. ToSet(u) = ToSet(s) \cup ToSet(t)
  <2>1. ToSet(u) \subseteq ToSet(s) \cup ToSet(t)
    BY <1>6, Zenon DEF ToSet
  <2>2. \A x \in ToSet(s) : x \in ToSet(u)
    BY <1>3, Zenon DEF ToSet
  <2>3. \A x \in ToSet(t) : x \in ToSet(u)
    BY <1>4, Zenon DEF ToSet
  <2> QED
    BY <2>1, <2>2, <2>3
<1> QED
  BY <1>1, <1>2, <1>7 DEF u

Accepting(map, path, method, custom) ==
  {m \in ToSet(map) : FitsPath(m, path) /\ (m.methods = {} \/ AcceptsMethod(m, method, custom))}

LEMMA MatchedFacts ==
  ASSUME NEW S, NEW map \in Seq(S), NEW path, NEW method, NEW custom
  PROVE  LET items == MatchedItems(map, path, method, custom)
         IN /\ items \in Seq(S) /\ ToSet(items) = Accepting(map, path, method, custom)
            /\ \A x, m : Follows(items, x, m) /\ x.methods = {} => m.methods = {} \/ AnyMethod \in m.methods
<1> DEFINE fitting == {m \in ToSet(map) : FitsPath(m, path)}
           G == {m \in fitting : m.methods # {} /\ AcceptsMethod(m, method, custom)}
           H == {m \in fitting : m.methods = {} \/ AnyMethod \in m.methods}
           s == Only(map, G)
           t == Only(map, H)
           items == MatchedItems(map, path, method, custom)
<1>1. items = s \o t
  BY Zenon DEF MatchedItems
<1>2. /\ s \in Seq(S) /\ ToSet(s) = ToSet(map) \cap G
      /\ t \in Seq(S) /\ ToSet(t) = ToSet(map) \cap H
  <2> HIDE DEF G, H
  <2> QED
    BY OnlyFacts, Zenon
<1>3. (ToSet(map) \cap G) \cup (ToSet(map) \cap H) = Accepting(map, path, method, custom)
  <2>1. \A m \in ToSet(map) : m \in G \/ m \in H <=> m \in Accepting(map, path, method, custom)
    BY Zenon DEF Accepting, AcceptsMethod
  <2>2. Accepting(map, path, method, custom) \subseteq ToSet(map)
    BY Zenon DEF Accepting
  <2> HIDE DEF G, H
  <2> QED
    BY <2>1, <2>2
<1>4. \A m \in ToSet(s) : m.methods # {}
  BY <1>2, Zenon
<1>5. \A m \in ToSet(t) : m.methods = {} \/ AnyMethod \in m.methods
  BY <1>2, Zenon
<1> HIDE DEF s, t, items
<1>6. /\ items \in Seq(S) /\ ToSet(items) = ToSet(s) \cup ToSet(t)
      /\ DOMAIN items = 1 .. Len(s) + Len(t)
      /\ \A i \in 1 .. Len(s) + Len(t) : items[i] = IF i <= Len(s) THEN s[i] ELSE t[i - Len(s)]
  <2>1. s \in Seq(S) /\ t \in Seq(S)
    BY <1>2
  <2>2. /\ s \o t \in Seq(S) /\ ToSet(s \o t) = ToSet(s) \cup ToSet(t)
        /\ DOMAIN (s \o t) = 1 .. Len(s) + Len(t)
        /\ \A i \in 1 .. Len(s) + Len(t) : (s \o t)[i] = IF i <= Len(s) THEN s[i] ELSE t[i - Len(s)]
    BY <2>1, ConcatFacts
  <2> QED
    BY <1>1, <2>2, Zenon
<1>7. ASSUME NEW x, NEW m, Follows(items, x, m), x.methods = {}
      PROVE  m.methods = {} \/ AnyMethod \in m.methods
  <2>1. PICK i \in DOMAIN items, j \in DOMAIN items : i < j /\ items[i] = x /\ items[j] = m
    BY <1>7, Zenon DEF Follows
  <2>2. Len(s) \in Nat /\ Len(t) \in Nat /\ DOMAIN s = 1 .. Len(s) /\ DOMAIN t = 1 .. Len(t)
    BY <1>2
  <2>3. i \in DOMAIN s \/ (i > Len(s) /\ j > Len(s))
    BY <1>6, <2>1, <2>2
  <2>4. CASE i \in DOMAIN s
    <3>1. x = s[i]
      BY <1>6, <2>1, <2>2, <2>4
    <3> QED
      BY <1>4, <1>7, <2>4, <3>1 DEF ToSet
  <2>5. CASE i > Len(s) /\ j > Len(s)
    <3>1. j - Len(s) \in DOMAIN t /\ m = t[j - Len(s)]
      BY <1>6, <2>1, <2>2, <2>5
    <3> QED
      BY <1>5, <3>1 DEF ToSet
  <2> QED
    BY <2>3, <2>4, <2>5
<1>8. ToSet(items) = Accepting(map, path, method, custom)
  BY <1>2, <1>3, <1>6
<1> QED
  BY <1>6, <1>7, <1>8, Zenon DEF items

\* No item that takes the request is better than the one of the route.
LEMMA RouteFacts ==
  ASSUME NEW map \in Seq(MapItems), NEW prefix, NEW custom, NEW r
  PROVE  LET route == Route(map, prefix, custom, r)
             path == Unprefixed(r.path, prefix)
             accepting == Accepting(map, path, r.method, custom)
         IN \/ /\ route.found = "route" /\ route.item \in MapItems /\ route.item \in accepting
               /\ \A m \in accepting : ~Better(m, route.item)
            \/ /\ route.found = "methodNotAllowed" /\ accepting = {}
               /\ {m \in ToSet(map) : FitsPath(m, path)} # {}
            \/ route.found = "notFound" /\ {m \in ToSet(map) : FitsPath(m, path)} = {}
<1> DEFINE route == Route(map, prefix, custom, r)
           path == Unprefixed(r.path, prefix)
           accepting == Accepting(map, path, r.method, custom)
           items == MatchedItems(map, path, r.method, custom)
<1>1. /\ items \in Seq(MapItems) /\ ToSet(items) = accepting
      /\ \A x, m : Follows(items, x, m) /\ x.methods = {} => m.methods = {} \/ AnyMethod \in m.methods
  BY MatchedFacts, Zenon
<1>2. route = CASE items # << >> -> [found |-> "route", item |-> MostLike(items)]
                [] items = << >> /\ \E i \in DOMAIN map : FitsPath(map[i], path) ->
                     [found |-> "methodNotAllowed"]
                [] OTHER -> [found |-> "notFound"]
  BY Zenon DEF Route
<1>3. accepting \subseteq {m \in ToSet(map) : FitsPath(m, path)}
  BY DEF Accepting
<1>4. ToSet(map) \subseteq MapItems
  BY DEF ToSet
<1> HIDE DEF route, items
<1>5. CASE items = << >>
  <2>1. accepting = {}
    BY <1>1, <1>5 DEF ToSet
  <2>2. CASE \E i \in DOMAIN map : FitsPath(map[i], path)
    <3>1. route = [found |-> "methodNotAllowed"]
      BY <1>2, <1>5, <2>2
    <3>2. {m \in ToSet(map) : FitsPath(m, path)} # {}
      BY <2>2 DEF ToSet
    <3>3. route.found = "methodNotAllowed"
      BY <3>1
    <3> QED
      BY <2>1, <3>2, <3>3, Zenon DEF route
  <2>3. CASE ~ \E i \in DOMAIN map : FitsPath(map[i], path)
    <3>1. route = [found |-> "notFound"]
      BY <1>2, <1>5, <2>3
    <3>2. {m \in ToSet(map) : FitsPath(m, path)} = {}
      BY <2>3 DEF ToSet
    <3>3. route.found = "notFound"
      BY <3>1
    <3> QED
      BY <3>2, <3>3, Zenon DEF route
  <2> QED
    BY <2>2, <2>3
<1>6. CASE items # << >>
  <2> DEFINE x == MostLike(items)
             n == Len(items[1].url)
  <2>1. route.found = "route" /\ route.item = x
    BY <1>2, <1>6
  <2>2. \A m \in accepting : m \in MapItems /\ Len(path) = Len(m.url)
    BY <1>3, <1>4 DEF FitsPath
  <2>3. items[1] \in accepting
    BY <1>1, <1>6 DEF ToSet
  <2>4. \A m \in MapItems : m.url \in Seq(Seq(Strings)) /\ m.methods \in SUBSET Strings
    BY DEF MapItems
  <2>5. n \in Nat /\ \A m \in accepting : DOMAIN m.url = 1 .. n /\ Len(m.url) = n
    BY <2>2, <2>3, <2>4
  <2>6. Taken(x, items, n)
    BY <1>1, <1>6, <2>5, MostLikeFacts
  <2> HIDE DEF x, n, accepting
  <2>7. x \in accepting /\ x \in MapItems
    BY <1>1, <2>2, <2>6 DEF Taken
  <2>8. ASSUME NEW m \in accepting PROVE ~Better(m, x)
    <3>1. \A k : (\A j \in 1 .. k : HasCaret(m.url[j]) = HasCaret(x.url[j])) <=> Alike(m, x, k)
      BY DEF Alike, HasCaret, Contains
    <3>2. m \in ToSet(items)
      BY <1>1
    <3>3. ~ \E i \in DOMAIN m.url : Alike(m, x, i - 1) /\ ~HasCaret(m.url[i]) /\ HasCaret(x.url[i])
      BY <2>5, <2>6, <3>2, Zenon DEF Taken
    <3>4. ASSUME Alike(m, x, n), Rank(m) < Rank(x) PROVE FALSE
      <4>1. /\ AnyMethod \in x.methods => AnyMethod \in m.methods
            /\ m # x /\ AnyMethod \notin m.methods => Follows(items, x, m)
        BY <2>6, <3>2, <3>4, Zenon DEF Taken
      <4>2. m # x
        <5>1. \A k : Rank(k) \in {0, 1, 2}
          BY DEF Rank
        <5>2. Rank(m) \in Int /\ Rank(x) \in Int
          BY <5>1
        <5> QED
          BY <3>4, <5>2
      <4>3. CASE AnyMethod \in m.methods
        <5>1. Rank(m) = 2 /\ Rank(x) \in {0, 1, 2}
          BY <4>3 DEF Rank
        <5> QED
          BY <3>4, <5>1
      <4>4. CASE AnyMethod \notin m.methods
        <5>1. AnyMethod \notin x.methods /\ Follows(items, x, m)
          BY <4>1, <4>2, <4>4
        <5>2. x.methods = {} => m.methods = {}
          BY <1>1, <4>4, <5>1, Zenon
        <5>3. Rank(x) = IF x.methods = {} THEN 1 ELSE 0
          BY <5>1 DEF Rank
        <5>4. Rank(m) = IF m.methods = {} THEN 1 ELSE 0
          BY <4>4 DEF Rank
        <5> QED
          BY <3>4, <5>2, <5>3, <5>4
      <4> QED
        BY <4>3, <4>4
    <3>5. Len(m.url) = n
      BY <2>5
    <3> QED
      BY <3>1, <3>3, <3>4, <3>5, Zenon DEF Better
  <2> QED
    BY <2>1, <2>7, <2>8, Zenon DEF route, accepting
<1> QED
  BY <1>5, <1>6

LEMMA SubSeqFacts ==
  ASSUME NEW S, NEW s \in Seq(S), NEW a \in Nat, NEW b \in Nat, 1 <= a, b <= Len(s), a <= b + 1
  PROVE  /\ SubSeq(s, a, b) \in Seq(S) /\ ToSet(SubSeq(s, a, b)) = {s[j] : j \in a .. b}
         /\ Len(SubSeq(s, a, b)) = b - a + 1
         /\ \A j \in 1 .. b - a + 1 : SubSeq(s, a, b)[j] = s[a + j - 1]
<1> DEFINE u == SubSeq(s, a, b)
<1>1. Len(s) \in Nat /\ \A j \in 1 .. Len(s) : s[j] \in S
  OBVIOUS
<1>2. /\ Len(u) = b - a + 1 /\ DOMAIN u = 1 .. b - a + 1
      /\ \A j \in 1 .. b - a + 1 : u[j] = s[a + j - 1]
  OBVIOUS
<1>3. u \in Seq(S)
  <2>1. \A j \in a .. b : s[j] \in S
    BY <1>1
  <2> QED
    BY <2>1
<1> HIDE DEF u
<1>4. \A j \in 1 .. b - a + 1 : a + j - 1 \in a .. b
  OBVIOUS
<1>5. \A j \in a .. b : j - a + 1 \in 1 .. b - a + 1 /\ j = a + (j - a + 1) - 1
  OBVIOUS
<1>6. ASSUME NEW x \in ToSet(u) PROVE x \in {s[j] : j \in a .. b}
  <2>1. PICK j \in DOMAIN u : x = u[j]
    BY Zenon DEF ToSet
  <2>2. a + j - 1 \in a .. b /\ x = s[a + j - 1]
    BY <1>2, <1>4, <2>1
  <2> QED
    BY <2>2, Zenon
<1>7. ASSUME NEW j \in a .. b PROVE s[j] \in ToSet(u)
  <2>1. j - a + 1 \in DOMAIN u /\ u[j - a + 1] = s[j]
    BY <1>2, <1>5
  <2> QED
    BY <2>1, Zenon DEF ToSet
<1>8. ToSet(u) = {s[j] : j \in a .. b}
  BY <1>6, <1>7
<1> QED
  BY <1>2, <1>3, <1>8 DEF u

LEMMA InsertAtFacts ==
  ASSUME NEW S, NEW s \in Seq(S), NEW i \in 1 .. Len(s) + 1, NEW e \in S
  PROVE  InsertAt(s, i, e) \in Seq(S) /\ ToSet(InsertAt(s, i, e)) = ToSet(s) \cup {e}
<1> DEFINE a == SubSeq(s, 1, i - 1)
           b == SubSeq(s, i, Len(s))
           n == Len(s)
<1>1. n \in Nat /\ i \in Nat /\ i - 1 \in Nat /\ 1 <= i /\ i - 1 <= n /\ 1 <= i - 1 + 1 /\ n <= n /\ i <= n + 1
      /\ DOMAIN s = 1 .. n
  OBVIOUS
<1>2. a \in Seq(S) /\ ToSet(a) = {s[j] : j \in 1 .. i - 1}
  <2> DEFINE k == i - 1
  <2>1. k \in Nat /\ k <= Len(s) /\ 1 <= k + 1 /\ 1 \in Nat /\ 1 <= 1
    BY <1>1
  <2> HIDE DEF k
  <2>2. SubSeq(s, 1, k) \in Seq(S) /\ ToSet(SubSeq(s, 1, k)) = {s[j] : j \in 1 .. k}
    BY <2>1, SubSeqFacts, SMTT(20)
  <2> QED
    BY <2>2 DEF k
<1>3. b \in Seq(S) /\ ToSet(b) = {s[j] : j \in i .. n}
  BY <1>1, SubSeqFacts
<1>4. <<e>> \in Seq(S) /\ ToSet(<<e>>) = {e}
  BY DEF ToSet
<1>5. InsertAt(s, i, e) = a \o <<e>> \o b
  BY DEF InsertAt
<1> HIDE DEF a, b, n
<1>6. a \o <<e>> \in Seq(S) /\ ToSet(a \o <<e>>) = ToSet(a) \cup {e}
  <2> DEFINE d == <<e>>
  <2> HIDE DEF d
  <2>1. d \in Seq(S) /\ ToSet(d) = {e}
    BY <1>4 DEF d
  <2>2. a \o d \in Seq(S) /\ ToSet(a \o d) = ToSet(a) \cup ToSet(d)
    BY <1>2, <2>1, ConcatFacts
  <2> QED
    BY <2>1, <2>2 DEF d
<1> DEFINE c == a \o <<e>>
<1> HIDE DEF c
<1>7. c \o b \in Seq(S) /\ ToSet(c \o b) = ToSet(c) \cup ToSet(b)
  <2>1. c \in Seq(S)
    BY <1>6 DEF c
  <2> QED
    BY <1>3, <2>1, ConcatFacts
<1>8. 1 .. n = (1 .. i - 1) \cup (i .. n)
  BY <1>1
<1>9. ToSet(s) = {s[j] : j \in 1 .. i - 1} \cup {s[j] : j \in i .. n}
  BY <1>1, <1>8 DEF ToSet
<1> QED
  BY <1>2, <1>3, <1>5, <1>6, <1>7, <1>9 DEF c

LEMMA RemoveAtFacts ==
  ASSUME NEW S, NEW s \in Seq(S), NEW i \in DOMAIN s
  PROVE  /\ RemoveAt(s, i) \in Seq(S) /\ DOMAIN RemoveAt(s, i) = 1 .. Len(s) - 1
         /\ \A j \in 1 .. Len(s) - 1 : RemoveAt(s, i)[j] = IF j < i THEN s[j] ELSE s[j + 1]
<1> DEFINE n == Len(s)
           a == SubSeq(s, 1, i - 1)
           b == SubSeq(s, i + 1, n)
<1>1. n \in Nat /\ i \in 1 .. n /\ DOMAIN s = 1 .. n
  OBVIOUS
<1>2. i \in Nat /\ i - 1 \in Nat /\ i + 1 \in Nat /\ 1 <= i + 1 /\ i - 1 <= n /\ 1 <= i - 1 + 1 /\ n <= n /\ i + 1 <= n + 1
  BY <1>1
<1>3. a \in Seq(S) /\ Len(a) = i - 1 /\ \A j \in 1 .. i - 1 : a[j] = s[j]
  <2>1. a \in Seq(S) /\ Len(a) = i - 1 - 1 + 1 /\ \A j \in 1 .. i - 1 - 1 + 1 : a[j] = s[1 + j - 1]
    <3> HIDE DEF n
    <3> QED
      BY <1>2, SubSeqFacts DEF n
  <2> QED
    BY <1>2, <2>1
<1>4. b \in Seq(S) /\ Len(b) = n - i /\ \A j \in 1 .. n - i : b[j] = s[i + j]
  <2>1. b \in Seq(S) /\ Len(b) = n - (i + 1) + 1 /\ \A j \in 1 .. n - (i + 1) + 1 : b[j] = s[i + 1 + j - 1]
    BY <1>2, SubSeqFacts
  <2> HIDE DEF n, a, b
  <2>2. n - (i + 1) + 1 = n - i
    BY <1>1, <1>2
  <2>3. ASSUME NEW j \in 1 .. n - i PROVE b[j] = s[i + j]
    <3>1. j \in Int /\ i + 1 + j - 1 = i + j
      BY <1>2
    <3> QED
      BY <2>1, <2>2, <3>1
  <2> QED
    BY <2>1, <2>2, <2>3
<1>5. RemoveAt(s, i) = a \o b
  BY DEF RemoveAt
<1> HIDE DEF a, b, n
<1>10. a \in Seq(S) /\ b \in Seq(S)
  BY <1>3, <1>4
<1>6. /\ a \o b \in Seq(S) /\ DOMAIN (a \o b) = 1 .. Len(a) + Len(b)
      /\ \A j \in 1 .. Len(a) + Len(b) : (a \o b)[j] = IF j <= Len(a) THEN a[j] ELSE b[j - Len(a)]
  BY <1>10, ConcatFacts, Zenon
<1>7. Len(a) + Len(b) = n - 1
  BY <1>1, <1>2, <1>3, <1>4
<1>8. ASSUME NEW j \in 1 .. n - 1 PROVE (a \o b)[j] = IF j < i THEN s[j] ELSE s[j + 1]
  <2>1. (a \o b)[j] = IF j <= i - 1 THEN a[j] ELSE b[j - (i - 1)]
    BY <1>3, <1>6, <1>7
  <2>2. CASE j < i
    <3>1. j \in 1 .. i - 1 /\ j <= i - 1
      BY <1>1, <2>2
    <3> QED
      BY <1>3, <2>1, <2>2, <3>1
  <2>3. CASE ~(j < i)
    <3>1. ~(j <= i - 1) /\ j - (i - 1) \in 1 .. n - i /\ i + (j - (i - 1)) = j + 1
      BY <1>1, <2>3
    <3>2. b[j - (i - 1)] = s[j + 1]
      BY <1>4, <3>1
    <3> QED
      BY <2>1, <2>3, <3>1, <3>2
  <2> QED
    BY <2>2, <2>3
<1> QED
  BY <1>5, <1>6, <1>7, <1>8 DEF n

-----------------------------------------------------------------------------
(* The filters that run.                                                   *)

LEMMA InsertedFacts ==
  ASSUME NEW S, NEW s \in Seq(S), NEW f \in S, NEW less
  PROVE  Inserted(s, f, less) \in Seq(S) /\ ToSet(Inserted(s, f, less)) = ToSet(s) \cup {f}
<1> DEFINE I == {i \in DOMAIN s : <<f, s[i]>> \notin less}
           n == Len(s)
<1>1. n \in Nat /\ DOMAIN s = 1 .. n
  OBVIOUS
<1>2. IsFiniteSet(1 .. n) /\ Cardinality(1 .. n) = n
  <2>1. IsFiniteSet(1 .. n) /\ Cardinality(1 .. n) = IF 1 > n THEN 0 ELSE n - 1 + 1
    BY <1>1, FS_Interval
  <2> QED
    BY <1>1, <2>1
<1>3. Cardinality(I) \in Nat /\ Cardinality(I) <= n
  <2>1. I \in SUBSET (1 .. n)
    BY <1>1
  <2>2. IsFiniteSet(I) /\ Cardinality(I) <= n
    BY <1>2, <2>1, FS_Subset
  <2> QED
    BY <2>2, FS_CardinalityType
<1>4. 1 + Cardinality(I) \in 1 .. Len(s) + 1
  BY <1>1, <1>3
<1>5. Inserted(s, f, less) = InsertAt(s, 1 + Cardinality(I), f)
  BY DEF Inserted
<1> HIDE DEF I
<1> QED
  BY <1>4, <1>5, InsertAtFacts

LEMMA StableSortUnfolds ==
  ASSUME NEW S, NEW s \in Seq(S), NEW less
  PROVE  \E f : /\ StableSort(s, less) = f[Len(s)] /\ f[0] = << >>
                /\ \A i \in 1 .. Len(s) : f[i] = Inserted(f[i - 1], s[i], less)
<1> DEFINE n == Len(s)
           Good(f) == f = [i \in 0 .. n |-> IF i = 0 THEN << >> ELSE Inserted(f[i - 1], s[i], less)]
           F == [i \in 1 .. n |-> [q \in Seq(S) |-> Inserted(q, s[i], less)]]
<1>1. n \in Nat /\ \A i \in 1 .. n : s[i] \in S
  OBVIOUS
<1>2. F \in Steps(n, Seq(S)) /\ << >> \in Seq(S)
  <2>1. ASSUME NEW i \in 1 .. n, NEW q \in Seq(S) PROVE Inserted(q, s[i], less) \in Seq(S)
    BY <1>1, InsertedFacts, Zenon
  <2> HIDE DEF n
  <2> QED
    BY <2>1 DEF Steps
<1>3. PICK g : Recursion(g, n, Seq(S), << >>, F)
  <2> HIDE DEF F, n
  <2> QED
    BY <1>1, <1>2, RecursionExists
<1> DEFINE Step(f, i) == IF i = 0 THEN << >> ELSE Inserted(f[i - 1], s[i], less)
<1>4. ASSUME NEW i \in 0 .. n PROVE g[i] = Step(g, i)
  <2>1. CASE i = 0
    BY <1>3, <2>1 DEF Recursion
  <2>2. CASE i # 0
    <3>1. i \in 1 .. n /\ i - 1 \in 0 .. n
      BY <1>1, <2>2
    <3>2. g[i] = F[i][g[i - 1]] /\ g[i - 1] \in Seq(S)
      BY <1>3, <3>1 DEF Recursion
    <3> QED
      BY <2>2, <3>1, <3>2
  <2> QED
    BY <2>1, <2>2
<1>5. Good(g)
  <2>1. g = [i \in 0 .. n |-> g[i]]
    BY <1>3 DEF Recursion
  <2> HIDE DEF n
  <2> QED
    BY <1>4, <2>1
<1> DEFINE f == CHOOSE f : Good(f)
<1>6. Good(f)
  <2> HIDE DEF Good
  <2> QED
    BY <1>5
<1>7. StableSort(s, less) = f[n]
  BY Zenon DEF StableSort
<1> HIDE DEF f
<1>8. \A i \in 0 .. n : f[i] = Step(f, i)
  <2> HIDE DEF n
  <2> QED
    BY <1>6
<1>9. f[0] = << >>
  <2>1. 0 \in 0 .. n
    BY <1>1
  <2> HIDE DEF n
  <2> QED
    BY <1>8, <2>1, Zenon
<1>10. ASSUME NEW i \in 1 .. n PROVE f[i] = Inserted(f[i - 1], s[i], less)
  <2>1. i \in 0 .. n /\ i # 0
    BY <1>1
  <2> QED
    BY <1>8, <2>1
<1> QED
  BY <1>7, <1>9, <1>10

LEMMA StableSortFacts ==
  ASSUME NEW S, NEW s \in Seq(S), NEW less
  PROVE  StableSort(s, less) \in Seq(S) /\ ToSet(StableSort(s, less)) = ToSet(s)
<1> DEFINE n == Len(s)
<1>1. PICK f : /\ StableSort(s, less) = f[n] /\ f[0] = << >>
               /\ \A i \in 1 .. n : f[i] = Inserted(f[i - 1], s[i], less)
  BY StableSortUnfolds
<1>2. n \in Nat /\ n \in 0 .. n /\ 0 \in 0 .. n /\ DOMAIN s = 1 .. n
  OBVIOUS
<1> DEFINE T == {i \in 0 .. n : f[i] \in Seq(S) /\ ToSet(f[i]) = {s[j] : j \in 1 .. i}}
<1>3. 0 \in T
  <2>1. ToSet(<< >>) = {} /\ {s[j] : j \in 1 .. 0} = {} /\ << >> \in Seq(S)
    BY DEF ToSet
  <2> HIDE DEF n
  <2> QED
    BY <1>1, <1>2, <2>1
<1>4. ASSUME NEW i \in 1 .. n, i - 1 \in T PROVE i \in T
  <2> DEFINE q == f[i - 1]
             e == s[i]
  <2>1. i \in 0 .. n /\ s[i] \in S
    BY <1>2
  <2>2. {s[j] : j \in 1 .. i} = {s[j] : j \in 1 .. i - 1} \cup {s[i]}
    BY <2>1
  <2>3. q \in Seq(S) /\ ToSet(q) = {s[j] : j \in 1 .. i - 1} /\ e \in S
    BY <1>4, <2>1
  <2>4. f[i] = Inserted(q, e, less)
    BY <1>1
  <2> HIDE DEF q, e
  <2>5. f[i] \in Seq(S) /\ ToSet(f[i]) = ToSet(q) \cup {e}
    <3>1. q \in Seq(S) /\ e \in S
      BY <2>3
    <3>2. Inserted(q, e, less) \in Seq(S) /\ ToSet(Inserted(q, e, less)) = ToSet(q) \cup {e}
      BY <3>1, InsertedFacts
    <3> QED
      BY <2>4, <3>2, Zenon
  <2> QED
    BY <2>1, <2>2, <2>3, <2>5 DEF e
<1>5. \A i \in 0 .. n : i \in T
  <2> HIDE DEF T, n
  <2> QED
    BY <1>2, <1>3, <1>4, Induction
<1>6. f[n] \in Seq(S) /\ ToSet(f[n]) = {s[j] : j \in 1 .. n}
  BY <1>2, <1>5
<1> QED
  BY <1>1, <1>2, <1>6 DEF ToSet

LEMMA ReverseFacts ==
  ASSUME NEW S, NEW s \in Seq(S)
  PROVE  Reverse(s) \in Seq(S) /\ ToSet(Reverse(s)) = ToSet(s)
<1> DEFINE n == Len(s)
           r == Reverse(s)
<1>1. n \in Nat /\ DOMAIN s = 1 .. n /\ \A i \in 1 .. n : s[i] \in S
  OBVIOUS
<1>2. r = [i \in 1 .. n |-> s[(n - i) + 1]]
  BY DEF Reverse
<1> HIDE DEF n, r
<1>3. \A i \in 1 .. n : (n - i) + 1 \in 1 .. n /\ (n - ((n - i) + 1)) + 1 = i
  BY <1>1
<1>4. r \in Seq(S) /\ DOMAIN r = 1 .. n /\ \A i \in 1 .. n : r[i] = s[(n - i) + 1]
  BY <1>1, <1>2, <1>3
<1>5. \A i \in 1 .. n : s[i] = r[(n - i) + 1]
  BY <1>3, <1>4
<1>6. ToSet(r) = ToSet(s)
  <2>1. \A i \in DOMAIN r : \E j \in DOMAIN s : r[i] = s[j]
    BY <1>1, <1>3, <1>4
  <2>2. \A i \in DOMAIN s : \E j \in DOMAIN r : s[i] = r[j]
    BY <1>1, <1>3, <1>4, <1>5
  <2>3. ToSet(r) \subseteq ToSet(s)
    BY <2>1, Zenon DEF ToSet
  <2>4. ToSet(s) \subseteq ToSet(r)
    BY <2>2, Zenon DEF ToSet
  <2> QED
    BY <2>3, <2>4
<1> QED
  BY <1>4, <1>6 DEF r

\* The filters of the application and of the action that have the function.
LEMMA GetFiltersFacts ==
  ASSUME NEW S, NEW globals \in Seq(S), NEW used \in Seq(S), NEW orders, NEW has, NEW func,
         NEW executing
  PROVE  LET queue == GetFilters(globals, used, orders, has, func, executing)
         IN /\ queue \in Seq(S)
            /\ ToSet(queue) = {f \in ToSet(globals) \cup ToSet(used) : func \in has[f]}
<1> DEFINE s == globals \o used
           all == Selected(s, has, func)
           queue == GetFilters(globals, used, orders, has, func, executing)
<1>1. s \in Seq(S) /\ ToSet(s) = ToSet(globals) \cup ToSet(used)
  BY ConcatFacts
<1>2. all \in Seq(S) /\ ToSet(all) = {f \in ToSet(s) : func \in has[f]}
  <2> DEFINE G == {f \in ToSet(s) : func \in has[f]}
  <2>1. all = Only(s, G) /\ ToSet(s) \cap G = G
    BY DEF Selected
  <2> HIDE DEF s, G, all
  <2> QED
    BY <1>1, <2>1, OnlyFacts DEF G
<1>3. queue = IF executing THEN StableSort(all, Earlier(orders, all))
              ELSE StableSort(Reverse(all), Later(orders, all))
  BY Zenon DEF GetFilters
<1> HIDE DEF s, all, queue
<1>4. queue \in Seq(S) /\ ToSet(queue) = ToSet(all)
  <2>1. CASE executing
    BY <1>2, <1>3, <2>1, StableSortFacts, Zenon
  <2>2. CASE ~executing
    <3>1. Reverse(all) \in Seq(S) /\ ToSet(Reverse(all)) = ToSet(all)
      BY <1>2, ReverseFacts
    <3> QED
      BY <1>3, <2>2, <3>1, StableSortFacts, Zenon
  <2> QED
    BY <2>1, <2>2
<1> QED
  BY <1>1, <1>2, <1>4 DEF queue

-----------------------------------------------------------------------------
(* The response.                                                           *)

\* A response whose headers had news written to them.
Rewritten(r, made, news) == made \in Response /\ Written(r.headers, made.headers, news)

LEMMA ResponseFields ==
  ASSUME NEW r \in Response
  PROVE  /\ r.status \in Nat /\ r.headers \in Seq(Entry) /\ r.body \in Bodies
         /\ r = [status |-> r.status, headers |-> r.headers, body |-> r.body]
BY DEF Response

LEMMA SetStatus ==
  ASSUME NEW r \in Response, NEW n \in Nat, NEW news
  PROVE  /\ Rewritten(r, [r EXCEPT !.status = n], news)
         /\ [r EXCEPT !.status = n].headers = r.headers
<1> DEFINE q == [r EXCEPT !.status = n]
<1>1. q \in Response /\ q.headers = r.headers
  BY DEF Response
<1>2. r.headers \in Seq(Entry)
  BY ResponseFields
<1> QED
  BY <1>1, <1>2, WrittenNothing DEF Rewritten

LEMMA SetBody ==
  ASSUME NEW r \in Response, NEW b \in Bodies, NEW news
  PROVE  /\ Rewritten(r, [r EXCEPT !.body = b], news)
         /\ [r EXCEPT !.body = b].headers = r.headers
<1> DEFINE q == [r EXCEPT !.body = b]
<1>1. q \in Response /\ q.headers = r.headers
  BY DEF Response
<1>2. r.headers \in Seq(Entry)
  BY ResponseFields
<1> QED
  BY <1>1, <1>2, WrittenNothing DEF Rewritten

LEMMA RewriteHeaders ==
  ASSUME NEW r \in Response, NEW h, NEW news, Written(r.headers, h, news)
  PROVE  /\ Rewritten(r, [r EXCEPT !.headers = h], news)
         /\ [r EXCEPT !.headers = h].headers = h
         /\ [r EXCEPT !.headers = h].status = r.status /\ [r EXCEPT !.headers = h].body = r.body
<1> DEFINE q == [r EXCEPT !.headers = h]
<1>1. h \in Seq(Entry)
  BY Zenon DEF Written
<1>2. q \in Response /\ q.headers = h /\ q.status = r.status /\ q.body = r.body
  BY <1>1 DEF Response
<1> QED
  BY <1>2, Zenon DEF Rewritten

LEMMA StatusSet ==
  ASSUME NEW r \in Response, NEW n \in Nat, NEW news, NEW q, q = [r EXCEPT !.status = n]
  PROVE  Rewritten(r, q, news)
BY SetStatus, Zenon

LEMMA RewrittenNothing ==
  ASSUME NEW r \in Response, NEW news
  PROVE  Rewritten(r, r, news)
BY ResponseFields, WrittenNothing DEF Rewritten

LEMMA RewrittenTwice ==
  ASSUME NEW r \in Response, NEW p, NEW q, NEW news, Rewritten(r, p, news), Rewritten(p, q, news)
  PROVE  Rewritten(r, q, news)
<1>1. r.headers \in Seq(Entry)
  BY ResponseFields
<1> QED
  BY <1>1, WrittenTwice, Zenon DEF Rewritten

LEMMA SetResultFacts ==
  ASSUME NEW r \in Response, NEW n \in Nat, NEW b \in Bodies, NEW news
  PROVE  Rewritten(r, SetResult(r, n, b), news) /\ SetResult(r, n, b).headers = r.headers
<1> DEFINE q == SetResult(r, n, b)
<1>1. q \in Response /\ q.headers = r.headers
  BY DEF Response, SetResult
<1>2. r.headers \in Seq(Entry)
  BY ResponseFields
<1> QED
  BY <1>1, <1>2, WrittenNothing DEF Rewritten

LEMMA SetErrorFacts ==
  ASSUME NEW r \in Response, NEW n \in Nat, NEW news
  PROVE  /\ Rewritten(r, SetError(r, n), news) /\ SetError(r, n).headers = r.headers
         /\ SetError(r, n).status = n /\ SetError(r, n).body = Body("object", "error")
<1> DEFINE q == SetError(r, n)
<1>1. /\ q \in Response /\ q.headers = r.headers /\ q.status = n
      /\ q.body = Body("object", "error")
  <2> DEFINE error == Body("object", "error")
  <2>1. error \in Bodies
    BY TextAssumption DEF Body, Bodies, Texts
  <2>2. q = [r EXCEPT !.status = n, !.body = error]
    BY DEF SetError
  <2> HIDE DEF error, q
  <2>3. q \in Response /\ q.headers = r.headers /\ q.status = n /\ q.body = error
    BY <2>1, <2>2 DEF Response
  <2> QED
    BY <2>3 DEF error
<1>2. r.headers \in Seq(Entry)
  BY ResponseFields
<1> QED
  BY <1>1, <1>2, WrittenNothing DEF Rewritten

LEMMA StatusFacts ==
  /\ \A name \in DOMAIN SuccessStatus : SuccessStatus[name] \in Nat
  /\ \A name \in DOMAIN ErrorStatus : ErrorStatus[name] \in Nat
<1>1. \A name \in DOMAIN SuccessStatus : SuccessStatus[name] \in Nat
  BY DEF SuccessStatus
<1>2. \A name \in DOMAIN ErrorStatus : ErrorStatus[name] \in Nat
  BY DEF ErrorStatus
<1> QED
  BY <1>1, <1>2

LEMMA ConstantsTyped ==
  /\ Location \in Keys /\ ContentType \in Keys /\ ContentLength \in Keys
  /\ Vary \in Keys /\ Origin \in Keys /\ Allow \in Keys /\ Expose \in Keys /\ Stale \in Keys
  /\ <<"x", "X">> \in Keys /\ <<"allow", "Allow">> \in Keys
  /\ Undefined \in Bodies
<1>1. \A a, b : a \in Texts /\ b \in Texts => <<a, b>> \in Keys
  BY TextAssumption DEF Keys
<1>2. Location \in Keys /\ ContentType \in Keys /\ ContentLength \in Keys
  <2>1. "location" \in Texts /\ "content-type" \in Texts /\ "content-length" \in Texts
    BY DEF Texts
  <2> QED
    BY <1>1, <2>1, Zenon DEF Location, ContentType, ContentLength
<1>3. Vary \in Keys /\ Origin \in Keys
  <2>1. /\ "vary" \in Texts /\ "Vary" \in Texts
        /\ "access-control-allow-origin" \in Texts /\ "Access-Control-Allow-Origin" \in Texts
    BY DEF Texts
  <2> QED
    BY <1>1, <2>1, Zenon DEF Vary, Origin
<1>4. Allow \in Keys /\ Expose \in Keys
  <2>1. /\ "access-control-allow-methods" \in Texts /\ "Access-Control-Allow-Methods" \in Texts
        /\ "access-control-expose-headers" \in Texts /\ "Access-Control-Expose-Headers" \in Texts
    BY DEF Texts
  <2> QED
    BY <1>1, <2>1, Zenon DEF Allow, Expose
<1>5. Stale \in Keys /\ <<"x", "X">> \in Keys /\ <<"allow", "Allow">> \in Keys
  <2>1. /\ "content-length" \in Texts /\ "Content-Length" \in Texts
        /\ "x" \in Texts /\ "X" \in Texts /\ "allow" \in Texts /\ "Allow" \in Texts
    BY DEF Texts
  <2> QED
    BY <1>1, <2>1, Zenon DEF Stale
<1>6. Undefined \in Bodies
  BY TextAssumption DEF Undefined, Bodies, Texts
<1> QED
  BY <1>2, <1>3, <1>4, <1>5, <1>6, Zenon

LEMMA SuccessFacts ==
  ASSUME NEW r \in Response, NEW name \in DOMAIN SuccessStatus, NEW b \in Bodies,
         NEW location \in Seq(Strings), NEW news,
         name \in {"created", "redirect"} => [key |-> Location, value |-> location] \in news
  PROVE  Rewritten(r, Success(r, name, b, location), news)
<1> DEFINE c == IF name = "noContent" THEN Undefined ELSE b
           base == IF name = "redirect" THEN [r EXCEPT !.status = 302]
                   ELSE SetResult(r, SuccessStatus[name], c)
           h == SetHeader(base.headers, Location, location)
<1>1. c \in Bodies
  BY ConstantsTyped
<1>2. Rewritten(r, base, news)
  <2> HIDE DEF c
  <2>1. CASE name = "redirect"
    <3>1. 302 \in Nat /\ base = [r EXCEPT !.status = 302]
      BY <2>1
    <3> HIDE DEF base
    <3> QED
      BY <3>1, StatusSet, Zenon
  <2>2. CASE name # "redirect"
    BY <1>1, <2>2, SetResultFacts, StatusFacts
  <2> QED
    BY <2>1, <2>2
<1>3. Success(r, name, b, location) =
        IF name \in {"created", "redirect"} THEN [base EXCEPT !.headers = h] ELSE base
  BY DEF Success
<1> HIDE DEF base
<1>4. base \in Response
  BY <1>2 DEF Rewritten
<1>5. CASE name \in {"created", "redirect"}
  <2>1. base.headers \in Seq(Entry) /\ Location \in Keys
    BY <1>4, ResponseFields, ConstantsTyped
  <2>2. Written(base.headers, h, news)
    BY <1>5, <2>1, WrittenOnce
  <2> HIDE DEF h
  <2>3. Rewritten(base, [base EXCEPT !.headers = h], news)
    BY <1>4, <2>2, RewriteHeaders
  <2>4. Rewritten(r, [base EXCEPT !.headers = h], news)
    BY <1>2, <2>3, RewrittenTwice
  <2> QED
    BY <1>3, <1>5, <2>4
<1>6. CASE name \notin {"created", "redirect"}
  BY <1>2, <1>3, <1>6
<1> QED
  BY <1>5, <1>6

LEMMA NoContentFacts ==
  ASSUME NEW r \in Response, NEW news
  PROVE  Rewritten(r, NoContent(r), news)
<1>1. "noContent" \in DOMAIN SuccessStatus /\ << >> \in Seq(Strings)
  BY DEF SuccessStatus
<1>2. Undefined \in Bodies
  BY ConstantsTyped
<1> QED
  BY <1>1, <1>2, SuccessFacts DEF NoContent

LEMMA FailureFacts ==
  ASSUME NEW r \in Response, NEW name \in DOMAIN ErrorStatus, NEW news
  PROVE  /\ \A b \in Bodies : Rewritten(r, Failure(r, name, b), news)
         /\ Rewritten(r, FailureMsg(r, name), news)
<1>1. ErrorStatus[name] \in Nat
  BY StatusFacts
<1>2. \A b \in Bodies : Rewritten(r, Failure(r, name, b), news)
  BY <1>1, SetResultFacts, Zenon DEF Failure
<1>3. Rewritten(r, FailureMsg(r, name), news)
  BY <1>1, SetErrorFacts, Zenon DEF FailureMsg
<1> QED
  BY <1>2, <1>3, Zenon

LEMMA ToldFacts ==
  ASSUME NEW e \in Thrown
  PROVE  /\ Told(e) \in Thrown /\ (Told(e) = e \/ Told(e).headers = << >>)
         /\ InternalServerError \in Thrown /\ InternalServerError.headers = << >>
         /\ \A class \in Strings : OtherError(class) \in Thrown /\ OtherError(class).headers = << >>
         /\ \A n \in Nat : HttpException(n, << >>) \in Thrown /\ HttpException(n, << >>).headers = << >>
<1>1. << >> \in Seq(Entry)
  OBVIOUS
<1>2. \A n \in Nat : HttpException(n, << >>) \in Thrown /\ HttpException(n, << >>).headers = << >>
  <2> SUFFICES ASSUME NEW n \in Nat
               PROVE  HttpException(n, << >>) \in Thrown /\ HttpException(n, << >>).headers = << >>
    OBVIOUS
  <2> QED
    BY <1>1, TextAssumption DEF HttpException, Thrown, Texts
<1>3. \A class \in Strings : OtherError(class) \in Thrown /\ OtherError(class).headers = << >>
  BY <1>1 DEF OtherError, Thrown
<1>4. InternalServerError \in Thrown /\ InternalServerError.headers = << >>
  BY <1>2 DEF InternalServerError
<1>5. Told(e) \in Thrown /\ (Told(e) = e \/ Told(e).headers = << >>)
  BY <1>4, Zenon DEF Told
<1> QED
  BY <1>2, <1>3, <1>4, <1>5

LEMMA CatchResponseFacts ==
  ASSUME NEW r \in Response, NEW e \in Thrown, NEW news, ToSet(Told(e).headers) \subseteq news
  PROVE  /\ Rewritten(r, CatchResponse(r, e), news)
         /\ CatchResponse(r, e).status = Told(e).status
         /\ CatchResponse(r, e).body = Body("object", "error")
<1> DEFINE t == Told(e)
           q == SetError(r, t.status)
           h == SetHeaders(q.headers, t.headers)
<1>1. t.status \in Nat /\ t.headers \in Seq(Entry)
  <2>1. t \in Thrown
    BY ToldFacts
  <2> HIDE DEF t
  <2> QED
    BY <2>1 DEF Thrown
<1>2. CatchResponse(r, e) = [q EXCEPT !.headers = h]
  BY DEF CatchResponse
<1> HIDE DEF t
<1>3. /\ Rewritten(r, q, news) /\ q.headers = r.headers /\ q.status = t.status
      /\ q.body = Body("object", "error")
  BY <1>1, SetErrorFacts
<1> HIDE DEF q
<1>4. q \in Response
  BY <1>3 DEF Rewritten
<1>5. Written(q.headers, h, ToSet(t.headers))
  BY <1>1, <1>4, ResponseFields, SetHeadersWrites
<1> HIDE DEF h
<1>6. Written(q.headers, h, news)
  <2>1. ToSet(t.headers) \subseteq news
    BY DEF t
  <2> QED
    BY <1>5, <2>1, Zenon DEF Written
<1>7. /\ Rewritten(q, [q EXCEPT !.headers = h], news)
      /\ [q EXCEPT !.headers = h].status = q.status /\ [q EXCEPT !.headers = h].body = q.body
  BY <1>4, <1>6, RewriteHeaders
<1>8. Rewritten(r, [q EXCEPT !.headers = h], news)
  BY <1>3, <1>7, RewrittenTwice
<1> QED
  BY <1>2, <1>3, <1>7, <1>8 DEF t

LEMMA RemoveHeaderFacts ==
  ASSUME NEW dict \in Seq(Entry), NEW key
  PROVE  /\ RemoveHeader(dict, key) \in Seq(Entry)
         /\ DistinctKeys(dict) => DistinctKeys(RemoveHeader(dict, key))
         /\ ToSet(RemoveHeader(dict, key)) \subseteq ToSet(dict)
         /\ \A e \in ToSet(dict) : ~SameHeader(e.key, key) => e \in ToSet(RemoveHeader(dict, key))
         /\ DistinctKeys(dict) /\ (\A e, f \in ToSet(dict) : SameHeader(e.key, key) /\ SameHeader(f.key, key) => e.key = f.key)
              => \A e \in ToSet(RemoveHeader(dict, key)) : ~SameHeader(e.key, key)
<1> DEFINE i == HasHeader(dict, key)
           made == RemoveHeader(dict, key)
<1>1. \/ i = 0 /\ \A j \in DOMAIN dict : ~SameHeader(dict[j].key, key)
      \/ i \in DOMAIN dict /\ SameHeader(dict[i].key, key)
  BY HasHeaderFacts
<1>2. made = IF i = 0 THEN dict ELSE RemoveAt(dict, i)
  BY DEF RemoveHeader
<1>3. DOMAIN dict = 1 .. Len(dict) /\ Len(dict) \in Nat
  OBVIOUS
<1> HIDE DEF i, made
<1>4. CASE i = 0
  <2>1. made = dict /\ \A e \in ToSet(dict) : ~SameHeader(e.key, key)
    BY <1>1, <1>2, <1>3, <1>4 DEF ToSet
  <2> QED
    BY <2>1, Zenon DEF made
<1>5. CASE i # 0
  <2> DEFINE From(j) == IF j < i THEN j ELSE j + 1
  <2>1. i \in DOMAIN dict /\ SameHeader(dict[i].key, key) /\ made = RemoveAt(dict, i)
    BY <1>1, <1>2, <1>5
  <2>2. /\ made \in Seq(Entry) /\ DOMAIN made = 1 .. Len(dict) - 1
        /\ \A j \in 1 .. Len(dict) - 1 : made[j] = IF j < i THEN dict[j] ELSE dict[j + 1]
    BY <2>1, RemoveAtFacts
  <2>3. \A j \in DOMAIN made : From(j) \in DOMAIN dict /\ From(j) # i /\ made[j] = dict[From(j)]
    BY <1>3, <2>1, <2>2
  <2>4. \A j, k \in DOMAIN made : From(j) = From(k) => j = k
    BY <1>3, <2>1, <2>2
  <2>5. \A k \in DOMAIN dict : k # i => \E j \in DOMAIN made : made[j] = dict[k]
    <3> SUFFICES ASSUME NEW k \in DOMAIN dict, k # i PROVE \E j \in DOMAIN made : made[j] = dict[k]
      OBVIOUS
    <3>1. CASE k < i
      <4>1. k \in DOMAIN made /\ made[k] = dict[k]
        BY <1>3, <2>1, <2>2, <3>1
      <4> QED
        BY <4>1
    <3>2. CASE k > i
      <4>1. k - 1 \in DOMAIN made /\ ~(k - 1 < i) /\ (k - 1) + 1 = k
        BY <1>3, <2>1, <2>2, <3>2
      <4>2. made[k - 1] = dict[k]
        BY <2>2, <4>1
      <4> QED
        BY <4>1, <4>2
    <3> QED
      BY <1>3, <2>1, <3>1, <3>2
  <2> HIDE DEF From
  <2>6. DistinctKeys(dict) => DistinctKeys(made)
    BY <2>3, <2>4, ZenonT(30) DEF DistinctKeys
  <2>7. ToSet(made) \subseteq ToSet(dict)
    BY <2>3, Zenon DEF ToSet
  <2>8. \A e \in ToSet(dict) : ~SameHeader(e.key, key) => e \in ToSet(made)
    <3> SUFFICES ASSUME NEW e \in ToSet(dict), ~SameHeader(e.key, key) PROVE e \in ToSet(made)
      BY Zenon
    <3>1. PICK k \in DOMAIN dict : e = dict[k]
      BY Zenon DEF ToSet
    <3>2. k # i
      BY <2>1, <3>1
    <3> QED
      BY <2>5, <3>1, <3>2, Zenon DEF ToSet
  <2>9. ASSUME DistinctKeys(dict), \A e, f \in ToSet(dict) : SameHeader(e.key, key) /\ SameHeader(f.key, key) => e.key = f.key,
               NEW e \in ToSet(made)
        PROVE  ~SameHeader(e.key, key)
    <3>1. PICK j \in DOMAIN made : e = made[j]
      BY Zenon DEF ToSet
    <3>2. From(j) \in DOMAIN dict /\ From(j) # i /\ e = dict[From(j)]
      BY <2>3, <3>1
    <3>3. e.key # dict[i].key
      BY <2>1, <2>9, <3>2, Zenon DEF DistinctKeys
    <3>4. e \in ToSet(dict) /\ dict[i] \in ToSet(dict)
      BY <2>1, <3>2, Zenon DEF ToSet
    <3> QED
      BY <2>1, <2>9, <3>3, <3>4, Zenon
  <2> QED
    BY <2>2, <2>6, <2>7, <2>8, <2>9, Zenon DEF made
<1> QED
  BY <1>4, <1>5

LEMMA BodyTexts ==
  ASSUME NEW b \in Bodies
  PROVE  LengthOf(b) \in Seq(Strings) /\ <<TypeOf(b)>> \in Seq(Strings)
<1> DEFINE types == {"undefined", "null", "zero", "string", "number", "object", "buffer", "stream"}
<1>1. b.t \in Strings /\ b.v \in Strings
  <2>1. types \subseteq Texts
    BY DEF Texts
  <2>2. b.t \in types /\ b.v \in Strings
    BY DEF Bodies
  <2>3. b.t \in Texts
    BY <2>1, <2>2, Zenon
  <2> QED
    BY <2>2, <2>3, TextAssumption
<1>2. TypeOf(b) \in Strings
  <2>1. TypeOf(b) \in {"bin", "html", "text", "json"}
    BY DEF TypeOf
  <2> QED
    BY <2>1, TextAssumption DEF Texts
<1> QED
  BY <1>1, <1>2 DEF LengthOf

LEMMA SetTypeTyped ==
  ASSUME NEW r \in Response
  PROVE  SetType(r) \in Response /\ SetType(r).status = r.status /\ SetType(r).body = r.body
<1> DEFINE b == r.body
           bare == RemoveHeader(RemoveHeader(r.headers, ContentType), ContentLength)
           sized == IF b.t = "stream" \/ HasHeader(r.headers, ContentLength) # 0 THEN r.headers
                    ELSE SetHeader(r.headers, ContentLength, LengthOf(b))
           typed == IF HasHeader(r.headers, ContentType) # 0 THEN sized
                    ELSE SetHeader(sized, ContentType, <<TypeOf(b)>>)
           h == IF Falsy(b) THEN bare ELSE typed
<1>1. r.headers \in Seq(Entry) /\ b \in Bodies /\ ContentType \in Keys /\ ContentLength \in Keys
  BY ResponseFields, ConstantsTyped
<1>2. LengthOf(b) \in Seq(Strings) /\ <<TypeOf(b)>> \in Seq(Strings)
  BY <1>1, BodyTexts, Zenon
<1>3. bare \in Seq(Entry)
  BY <1>1, RemoveHeaderFacts, Zenon
<1>4. sized \in Seq(Entry)
  BY <1>1, <1>2, SetHeaderWrites, Zenon DEF Written
<1> HIDE DEF sized
<1>5. typed \in Seq(Entry)
  BY <1>1, <1>2, <1>4, SetHeaderWrites, Zenon DEF Written
<1>6. SetType(r) = [r EXCEPT !.headers = h]
  BY DEF SetType, sized
<1> HIDE DEF bare, typed
<1>7. h \in Seq(Entry)
  BY <1>3, <1>5
<1> HIDE DEF h
<1> QED
  BY <1>6, <1>7 DEF Response

-----------------------------------------------------------------------------
(* What is written to the headers, and the type invariant.                 *)

Pair(key, value) == [key |-> key, value |-> value]
OriginOf(item) == IF item.origin = "reflect" THEN req.origin ELSE <<item.origin>>
AllowedHeader == Pair(<<"allow", "Allow">>, <<"GET", "HEAD">>)
OwnHeaders == {Pair(Vary, <<"Origin">>), Pair(Allow, <<"GET", "POST">>), AllowedHeader,
               Pair(ContentType, <<"file">>), Pair(Location, <<"here">>)}
Length == Pair(Stale, <<"string", "declared">>)
Blank == Pair(<<"x", "X">>, <<"">>)

\* The middlewares of the packages and the values thrown write these headers,
\* those of the application two more, which the trail tells of.
Fixed(e) ==
  \/ e \in OwnHeaders
  \/ \E k \in Behind("cors") : e \in {Pair(Origin, OriginOf(chain[k])), Pair(Expose, chain[k].expose)}
  \/ \E x \in Throws : e \in ToSet(x.headers)
Noted(e) == (e = Length /\ Wrote("length")) \/ (e = Blank /\ Wrote("blank"))
FixedNews == {e \in Entry : Fixed(e)}
News == {e \in Entry : Fixed(e) \/ Noted(e)}

LEMMA ChainFacts ==
  ASSUME TypeOK
  PROVE  CaseAssumption(chain, req) /\ DOMAIN chain = 1 .. Len(chain) /\ Len(chain) \in Nat
<1>1. PICK c \in Cases : chain = c.chain /\ req = c.req
  BY Zenon DEF TypeOK
<1>3. CaseAssumption(c.chain, c.req)
  BY <1>1, HttpAssumption, Zenon
<1>4. CaseAssumption(chain, req)
  BY <1>1, <1>3
<1>5. chain \in Seq(ToSet(chain))
  BY <1>4, Zenon DEF CaseAssumption
<1> QED
  BY <1>4, <1>5

LEMMA TextPairs ==
  ASSUME NEW a \in Texts, NEW b \in Texts
  PROVE  <<a>> \in Seq(Strings) /\ <<a, b>> \in Seq(Strings)
<1>1. a \in Strings /\ b \in Strings
  BY TextAssumption
<1> QED
  BY <1>1

LEMMA PairTyped ==
  ASSUME NEW key \in Keys, NEW value \in Seq(Strings)
  PROVE  Pair(key, value) \in Entry
BY DEF Pair, Entry, Keys

LEMMA OwnTyped ==
  OwnHeaders \subseteq Entry /\ Length \in Entry /\ Blank \in Entry
<1>1. /\ "Origin" \in Texts /\ "GET" \in Texts /\ "POST" \in Texts /\ "HEAD" \in Texts
      /\ "file" \in Texts /\ "here" \in Texts /\ "string" \in Texts /\ "declared" \in Texts
      /\ "" \in Texts
  BY DEF Texts
<1>2. /\ <<"Origin">> \in Seq(Strings) /\ <<"GET", "POST">> \in Seq(Strings)
      /\ <<"GET", "HEAD">> \in Seq(Strings)
  BY <1>1, TextPairs, Zenon
<1>3. /\ <<"file">> \in Seq(Strings) /\ <<"here">> \in Seq(Strings)
      /\ <<"string", "declared">> \in Seq(Strings) /\ <<"">> \in Seq(Strings)
  BY <1>1, TextPairs, Zenon
<1>4. Pair(Vary, <<"Origin">>) \in Entry /\ Pair(Allow, <<"GET", "POST">>) \in Entry /\ AllowedHeader \in Entry
  BY <1>2, ConstantsTyped, PairTyped, Zenon DEF AllowedHeader
<1>5. Pair(ContentType, <<"file">>) \in Entry /\ Pair(Location, <<"here">>) \in Entry
  BY <1>3, ConstantsTyped, PairTyped, Zenon
<1>6. Length \in Entry /\ Blank \in Entry
  BY <1>3, ConstantsTyped, PairTyped, Zenon DEF Length, Blank
<1> QED
  BY <1>4, <1>5, <1>6, Zenon DEF OwnHeaders

LEMMA CorsItem ==
  ASSUME TypeOK, NEW k \in Behind("cors")
  PROVE  /\ OriginOf(chain[k]) \in Seq(Strings) /\ chain[k].expose \in Seq(Strings)
         /\ Pair(Origin, OriginOf(chain[k])) \in FixedNews
         /\ Pair(Expose, chain[k].expose) \in FixedNews
<1>1. CaseAssumption(chain, req)
  BY ChainFacts
<1>2. ItemAssumption(chain[k]) /\ chain[k].kind = "cors" /\ req.origin \in Seq(Strings)
  BY <1>1 DEF CaseAssumption, Behind
<1>3. chain[k].origin \in Strings /\ chain[k].expose \in Seq(Strings)
  BY <1>2, Zenon DEF ItemAssumption
<1>4. OriginOf(chain[k]) \in Seq(Strings)
  BY <1>2, <1>3 DEF OriginOf
<1>5. Pair(Origin, OriginOf(chain[k])) \in Entry /\ Pair(Expose, chain[k].expose) \in Entry
  BY <1>3, <1>4, ConstantsTyped, PairTyped, Zenon
<1> QED
  BY <1>3, <1>4, <1>5, Zenon DEF FixedNews, Fixed

LEMMA FixedFacts ==
  /\ OwnHeaders \subseteq FixedNews
  /\ \A x \in Throws : ToSet(x.headers) \subseteq FixedNews
<1>1. OwnHeaders \subseteq FixedNews
  BY OwnTyped, Zenon DEF FixedNews, Fixed
<1>2. ASSUME NEW x \in Throws PROVE ToSet(x.headers) \subseteq FixedNews
  <2>1. x \in Thrown
    BY HttpAssumption, Zenon
  <2>2. x.headers \in Seq(Entry)
    BY <2>1 DEF Thrown
  <2>3. ToSet(x.headers) \subseteq Entry
    BY <2>2 DEF ToSet
  <2> QED
    BY <2>3, Zenon DEF FixedNews, Fixed
<1> QED
  BY <1>1, <1>2

LEMMA RewrittenMore ==
  ASSUME NEW r, NEW q, NEW a, NEW b, Rewritten(r, q, a), a \subseteq b
  PROVE  Rewritten(r, q, b)
BY Zenon DEF Rewritten, Written

\* Where the request is, and which route it has, in every mode.
Place ==
  /\ mode \in {"invoke", "filters", "act"} => at # 0
  /\ mode \in {"filters", "act"} => ctx.route.found = "route"
Routed ==
  /\ ctx.made => ctx.route.found = "route"
  /\ ctx.route = NoRoute \/ \E k \in Behind("match") :
       ctx.route = Route(chain[k].map, chain[k].prefix, chain[k].custom, Asked)
ErrKnown == err \in Throws \/ err.headers = << >>
TInv == TypeOK /\ Place /\ Routed /\ ErrKnown

LEMMA ErrHeaders ==
  ASSUME TInv PROVE err \in Thrown /\ ToSet(Told(err).headers) \subseteq FixedNews
<1>1. err \in Thrown /\ (err \in Throws \/ err.headers = << >>)
  BY Zenon DEF TInv, TypeOK, ErrKnown
<1>2. Told(err) = err \/ Told(err).headers = << >>
  BY <1>1, ToldFacts, Zenon
<1>3. ToSet(<< >>) = {}
  BY DEF ToSet
<1>4. CASE Told(err).headers = << >>
  BY <1>1, <1>3, <1>4
<1>5. CASE Told(err) = err /\ err \in Throws
  BY <1>1, <1>5, FixedFacts
<1> QED
  BY <1>1, <1>2, <1>4, <1>5

LEMMA EffectFacts ==
  ASSUME TypeOK, NEW e \in Effects, NEW news, FixedNews \subseteq news,
         e = "length" => Length \in news, e = "blank" => Blank \in news
  PROVE  Rewritten(res, Effect(e), news)
<1>1. res \in Response /\ res.headers \in Seq(Entry)
  BY ResponseFields DEF TypeOK
<1>2. CASE e = "none"
  <2>1. Effect(e) = res
    BY <1>2 DEF Effect
  <2> QED
    BY <1>1, <2>1, RewrittenNothing, Zenon
<1>3. CASE e = "length"
  <2> DEFINE h == SetHeader(res.headers, Stale, <<"string", "declared">>)
  <2>1. Effect(e) = [res EXCEPT !.headers = h]
    BY <1>3 DEF Effect
  <2>2. Stale \in Keys /\ <<"string", "declared">> \in Seq(Strings)
    <3>1. "string" \in Texts /\ "declared" \in Texts
      BY DEF Texts
    <3> QED
      BY <3>1, ConstantsTyped, TextPairs, Zenon
  <2>3. Written(res.headers, h, news)
    BY <1>1, <1>3, <2>2, WrittenOnce, Zenon DEF Length, Pair
  <2> HIDE DEF h
  <2> QED
    BY <1>1, <2>1, <2>3, RewriteHeaders
<1>4. CASE e = "blank"
  <2> DEFINE h == SetHeader(res.headers, <<"x", "X">>, <<"">>)
  <2>1. Effect(e) = [res EXCEPT !.headers = h]
    BY <1>4 DEF Effect
  <2>2. <<"x", "X">> \in Keys /\ <<"">> \in Seq(Strings)
    <3>1. "" \in Texts
      BY DEF Texts
    <3> QED
      BY <3>1, ConstantsTyped, TextPairs, Zenon
  <2>3. Written(res.headers, h, news)
    BY <1>1, <1>4, <2>2, WrittenOnce, Zenon DEF Blank, Pair
  <2> HIDE DEF h
  <2> QED
    BY <1>1, <2>1, <2>3, RewriteHeaders
<1>5. CASE e = "drop"
  <2>1. Effect(e) = [res EXCEPT !.body = Undefined]
    BY <1>5 DEF Effect
  <2>2. Undefined \in Bodies
    BY ConstantsTyped
  <2>3. Rewritten(res, [res EXCEPT !.body = Undefined], news)
    BY <1>1, <2>2, SetBody
  <2> QED
    BY <2>1, <2>3, Zenon
<1>6. CASE e = "ok"
  <2>1. Effect(e) = Success(res, "ok", Body("string", "text"), << >>)
    BY <1>6 DEF Effect
  <2>2. "ok" \in DOMAIN SuccessStatus /\ << >> \in Seq(Strings)
    BY DEF SuccessStatus
  <2>3. Body("string", "text") \in Bodies
    BY TextAssumption DEF Body, Bodies, Texts
  <2> QED
    BY <1>1, <2>1, <2>2, <2>3, SuccessFacts
<1> QED
  BY <1>2, <1>3, <1>4, <1>5, <1>6 DEF Effects

LEMMA RefusedFacts ==
  ASSUME TypeOK, NEW item, NEW news
  PROVE  Rewritten(res, Refused(item), news) /\ Rewritten(res, Unauthorized(res), news)
<1>1. res \in Response /\ "unauthorized" \in DOMAIN ErrorStatus
  BY DEF TypeOK, ErrorStatus
<1>2. Rewritten(res, Unauthorized(res), news)
  BY <1>1, FailureFacts, Zenon DEF Unauthorized
<1>3. Rewritten(res, res, news)
  BY <1>1, RewrittenNothing, Zenon
<1> QED
  BY <1>2, <1>3, Zenon DEF Refused

LEMMA FileFacts ==
  ASSUME TypeOK, NEW n \in Nat, NEW b \in Bodies
  PROVE  Rewritten(res, FileResult(res, n, b), FixedNews)
<1> DEFINE q == [res EXCEPT !.status = n]
           p == [q EXCEPT !.body = b]
           h == SetHeader(p.headers, ContentType, <<"file">>)
<1>1. res \in Response
  BY DEF TypeOK
<1>2. Rewritten(res, q, FixedNews)
  BY <1>1, SetStatus
<1>3. q \in Response
  BY <1>2 DEF Rewritten
<1>4. FileResult(res, n, b) = [p EXCEPT !.headers = h]
  BY <1>1, <1>3 DEF FileResult, Response
<1> HIDE DEF q
<1>5. Rewritten(q, p, FixedNews)
  BY <1>3, SetBody
<1>6. p \in Response
  BY <1>5 DEF Rewritten
<1> HIDE DEF p
<1>7. Written(p.headers, h, FixedNews)
  <2>1. p.headers \in Seq(Entry)
    BY <1>6, ResponseFields
  <2>2. <<"file">> \in Seq(Strings)
    <3>1. "file" \in Texts
      BY DEF Texts
    <3> QED
      BY <3>1, TextPairs, Zenon
  <2>3. Pair(ContentType, <<"file">>) \in FixedNews
    BY FixedFacts, Zenon DEF OwnHeaders
  <2> QED
    BY <2>1, <2>2, <2>3, ConstantsTyped, WrittenOnce, Zenon DEF Pair
<1> HIDE DEF h
<1>8. Rewritten(p, [p EXCEPT !.headers = h], FixedNews)
  BY <1>6, <1>7, RewriteHeaders
<1>9. Rewritten(res, p, FixedNews)
  BY <1>1, <1>2, <1>5, RewrittenTwice
<1> QED
  BY <1>1, <1>4, <1>8, <1>9, RewrittenTwice

LEMMA MethodNotAllowedFacts ==
  ASSUME TypeOK
  PROVE  Rewritten(res, MethodNotAllowed(res), FixedNews)
<1> DEFINE p == Failure(res, "methodNotAllowed", Undefined)
           h == SetHeader(p.headers, <<"allow", "Allow">>, <<"GET", "HEAD">>)
<1>1. res \in Response /\ "methodNotAllowed" \in DOMAIN ErrorStatus
  BY DEF TypeOK, ErrorStatus
<1>2. Rewritten(res, p, FixedNews)
  BY <1>1, ConstantsTyped, FailureFacts
<1>3. p \in Response
  BY <1>2 DEF Rewritten
<1>4. MethodNotAllowed(res) = [p EXCEPT !.headers = h]
  BY DEF MethodNotAllowed
<1> HIDE DEF p
<1>5. Written(p.headers, h, FixedNews)
  <2>1. p.headers \in Seq(Entry)
    BY <1>3, ResponseFields
  <2>2. <<"GET", "HEAD">> \in Seq(Strings)
    <3>1. "GET" \in Texts /\ "HEAD" \in Texts
      BY DEF Texts
    <3> QED
      BY <3>1, TextPairs, Zenon
  <2>3. AllowedHeader \in FixedNews
    BY FixedFacts, Zenon DEF OwnHeaders
  <2> QED
    BY <2>1, <2>2, <2>3, ConstantsTyped, WrittenOnce, Zenon DEF Pair, AllowedHeader
<1> HIDE DEF h
<1>6. Rewritten(p, [p EXCEPT !.headers = h], FixedNews)
  BY <1>3, <1>5, RewriteHeaders
<1> QED
  BY <1>1, <1>2, <1>4, <1>6, RewrittenTwice

\* The headers the CorsMiddleware at hand sets.
LEMMA CorsFacts ==
  ASSUME TypeOK, at \in Behind("cors")
  PROVE  LET varied == SetHeader(res.headers, Vary, <<"Origin">>)
             full == CorsHeaders(varied)
         IN /\ Written(res.headers, varied, FixedNews) /\ Written(varied, full, FixedNews)
            /\ KeyOf(varied, Vary)
            /\ OriginOf(Item) # << >> => KeyOf(full, Origin)
<1> DEFINE varied == SetHeader(res.headers, Vary, <<"Origin">>)
           v == OriginOf(Item)
           origin == SetHeader(varied, Origin, v)
           w == IF IsPreflight THEN <<"GET", "POST">> ELSE Item.expose
           key == IF IsPreflight THEN Allow ELSE Expose
           full == CorsHeaders(varied)
<1>1. res.headers \in Seq(Entry)
  BY ResponseFields DEF TypeOK
<1>2. /\ v \in Seq(Strings) /\ Item.expose \in Seq(Strings)
      /\ Pair(Origin, v) \in FixedNews /\ Pair(Expose, Item.expose) \in FixedNews
  BY CorsItem DEF Item
<1>3. /\ <<"Origin">> \in Seq(Strings) /\ <<"GET", "POST">> \in Seq(Strings)
  <2>1. "GET" \in Texts /\ "POST" \in Texts /\ "Origin" \in Texts
    BY DEF Texts
  <2> QED
    BY <2>1, TextPairs, Zenon
<1>4. Pair(Vary, <<"Origin">>) \in FixedNews /\ Pair(Allow, <<"GET", "POST">>) \in FixedNews
  BY FixedFacts, Zenon DEF OwnHeaders
<1>5. Written(res.headers, varied, FixedNews)
  BY <1>1, <1>3, <1>4, ConstantsTyped, WrittenOnce, Zenon DEF Pair
<1>6. KeyOf(varied, Vary)
  <2>1. <<"Origin">> # << >>
    OBVIOUS
  <2> QED
    BY <1>1, <1>3, <2>1, ConstantsTyped, SetHeaderWrites, Zenon
<1>7. full = SetHeader(origin, key, w)
  BY DEF CorsHeaders, OriginOf
<1>8. key \in Keys /\ w \in Seq(Strings) /\ Pair(key, w) \in FixedNews
  BY <1>2, <1>3, <1>4, ConstantsTyped, Zenon
<1> HIDE DEF varied, v, key, w, full
<1>9. varied \in Seq(Entry)
  BY <1>5 DEF Written
<1>10. Written(varied, origin, FixedNews) /\ (v # << >> => KeyOf(origin, Origin))
  <2>1. Written(varied, origin, FixedNews)
    BY <1>2, <1>9, ConstantsTyped, WrittenOnce, Zenon DEF Pair
  <2>2. v # << >> => KeyOf(origin, Origin)
    BY <1>2, <1>9, ConstantsTyped, SetHeaderWrites, Zenon
  <2> QED
    BY <2>1, <2>2
<1> HIDE DEF origin
<1>11. Written(origin, full, FixedNews)
  <2>1. origin \in Seq(Entry)
    BY <1>10 DEF Written
  <2> QED
    BY <1>7, <1>8, <2>1, WrittenOnce, Zenon DEF Pair
<1>12. Written(varied, full, FixedNews)
  BY <1>9, <1>10, <1>11, WrittenTwice
<1>13. v # << >> => KeyOf(full, Origin)
  BY <1>10, <1>11, ConstantsTyped, Zenon DEF Written
<1> QED
  BY <1>5, <1>6, <1>12, <1>13, Zenon DEF varied, v, full

-----------------------------------------------------------------------------
(* A step keeps the types, and writes news to the headers.                 *)

CtxOK ==
  /\ DOMAIN ctx = DOMAIN NewContext /\ ctx.globals \in Seq(DOMAIN Has) /\ ctx.hooks \in Nat
  /\ ctx.route.found \in {"none", "route", "methodNotAllowed", "notFound"}
  /\ ctx.route.found = "route" => ctx.route.item \in MapItems
  /\ Routed
Known(e) == e \in Thrown /\ (e \in Throws \/ e.headers = << >>)
Moved ==
  /\ mode' \in Modes /\ at' \in 0 .. Len(chain) /\ Known(err')
  /\ mode' \in {"invoke", "filters", "act"} => at' # 0
  /\ mode' \in {"filters", "act"} => ctx'.route.found = "route"
Grown == trail' = trail \/ \E e, fn, by : Note(e, fn, by)
TodoOK == /\ DOMAIN todo = DOMAIN Idle /\ todo.queue \in Seq(DOMAIN Has)
          /\ todo.ran \in Nat /\ todo.left \in Nat
Kept == TInv' /\ Rewritten(res, res', News')

LEMMA SameFacts ==
  ASSUME Same
  PROVE  /\ chain' = chain /\ req' = req /\ Asked' = Asked
         /\ \A kind : Behind(kind)' = Behind(kind)
BY DEF Same, Asked, Method, Behind

LEMMA GrownFacts ==
  ASSUME TypeOK, Grown
  PROVE  /\ trail' \in Seq(ToSet(trail'))
         /\ Len(trail') \in {Len(trail), Len(trail) + 1}
         /\ \A i \in DOMAIN trail : i \in DOMAIN trail' /\ trail'[i] = trail[i]
         /\ \A what : Wrote(what) => Wrote(what)'
<1>1. trail \in Seq(ToSet(trail))
  BY Zenon DEF TypeOK
<1>2. CASE trail' = trail
  BY <1>1, <1>2 DEF Wrote
<1>3. CASE \E e, fn, by : Note(e, fn, by)
  <2>1. PICK x : trail' = Append(trail, x)
    BY <1>3, Zenon DEF Note
  <2> DEFINE S == ToSet(trail) \cup {x}
  <2>2. trail \in Seq(S) /\ x \in S
    BY <1>1
  <2>3. /\ trail' \in Seq(S) /\ Len(trail') = Len(trail) + 1
        /\ \A i \in DOMAIN trail : i \in DOMAIN trail' /\ trail'[i] = trail[i]
    BY <2>1, <2>2
  <2>4. trail' \in Seq(ToSet(trail'))
    BY <2>3 DEF ToSet
  <2> QED
    BY <2>3, <2>4 DEF Wrote
<1> QED
  BY <1>2, <1>3 DEF Grown

LEMMA NewsStay ==
  ASSUME TypeOK, Same, Grown
  PROVE  News \subseteq News' /\ FixedNews \subseteq News'
<1>1. \A what : Wrote(what) => Wrote(what)'
  BY GrownFacts
<1>2. \A e : Fixed(e)' <=> Fixed(e)
  BY SameFacts, Zenon DEF Fixed, OriginOf, Same
<1>3. \A e : Noted(e) => Noted(e)'
  BY <1>1, Zenon DEF Noted
<1> QED
  BY <1>2, <1>3, Zenon DEF News, FixedNews

LEMMA KeptIf ==
  ASSUME TInv, Same, Moved, CtxOK', Grown, again' \subseteq 1 .. Len(chain),
         TodoOK', errors' \in Seq(Thrown),
         NEW news, Rewritten(res, res', news), news \subseteq News'
  PROVE  Kept
<1>1. chain' = chain /\ req' = req
  BY DEF Same
<1>2. Rewritten(res, res', News') /\ res' \in Response
  BY RewrittenMore, Zenon DEF Rewritten
<1>3. trail' \in Seq(ToSet(trail'))
  BY GrownFacts DEF TInv
<1>4. \E c \in Cases : chain' = c.chain /\ req' = c.req
  BY <1>1, Zenon DEF TInv, TypeOK
<1>5. TypeOK'
  BY <1>1, <1>2, <1>3, <1>4, Zenon DEF TypeOK, Moved, Known, CtxOK, TodoOK
<1>6. Place' /\ ErrKnown' /\ Routed'
  BY Zenon DEF Place, ErrKnown, Moved, Known, CtxOK
<1> QED
  BY <1>2, <1>5, <1>6, Zenon DEF Kept, TInv

LEMMA TFacts ==
  ASSUME TInv
  PROVE  /\ CtxOK /\ Known(err) /\ mode \in Modes /\ at \in 0 .. Len(chain) /\ Len(chain) \in Nat
         /\ again \subseteq 1 .. Len(chain) /\ res \in Response
         /\ TodoOK /\ errors \in Seq(Thrown)
         /\ mode \in {"invoke", "filters", "act"} => at # 0
         /\ mode \in {"filters", "act"} => ctx.route.found = "route"
<1>1. Len(chain) \in Nat
  BY ChainFacts DEF TInv
<1> QED
  BY <1>1, Zenon DEF TInv, TypeOK, Place, Routed, ErrKnown, CtxOK, Known, TodoOK

\* What a middleware does next.
LEMMA Onward ==
  ASSUME TInv, at # 0, CallNext \/ Return \/ \E x : Known(x) /\ Throw(x)
  PROVE  Moved /\ mode' \in {"enter", "leave", "caught"}
<1>1. at \in 0 .. Len(chain) /\ Len(chain) \in Nat /\ Known(err)
  BY TFacts
<1>2. at \in 0 .. Len(chain) /\ at - 1 \in 0 .. Len(chain)
  BY <1>1
<1>3. CASE CallNext
  BY <1>1, <1>2, <1>3, Zenon DEF CallNext, Moved, Modes
<1>4. CASE Return
  BY <1>1, <1>2, <1>4, Zenon DEF Return, Moved, Modes
<1>5. CASE \E x : Known(x) /\ Throw(x)
  BY <1>1, <1>2, <1>5, Zenon DEF Throw, Moved, Modes
<1> QED
  BY <1>3, <1>4, <1>5

LEMMA ErrorsKnown ==
  /\ \A x \in Throws : Known(x)
  /\ Known(InternalServerError) /\ Known(OtherError("error")) /\ Known(HttpException(400, << >>))
<1>1. \A x \in Throws : Known(x)
  BY HttpAssumption, Zenon DEF Known
<1>2. "error" \in Strings
  BY TextAssumption DEF Texts
<1>3. 400 \in Nat
  OBVIOUS
<1>4. InternalServerError \in Thrown
  <2>1. "http" \in Strings
    BY TextAssumption DEF Texts
  <2>2. 500 \in Nat /\ << >> \in Seq(Entry)
    OBVIOUS
  <2> QED
    BY <2>1, <2>2 DEF InternalServerError, HttpException, Thrown
<1>5. OtherError("error") \in Thrown /\ OtherError("error").headers = << >>
  BY <1>2, <1>4, ToldFacts, Zenon
<1>6. HttpException(400, << >>) \in Thrown /\ HttpException(400, << >>).headers = << >>
  BY <1>3, <1>4, ToldFacts, ZenonT(30)
<1>7. InternalServerError.headers = << >>
  BY DEF InternalServerError, HttpException
<1> QED
  BY <1>1, <1>4, <1>5, <1>6, <1>7, Zenon DEF Known

LEMMA CtxSame ==
  ASSUME CtxOK, Same, UNCHANGED ctx
  PROVE  CtxOK'
BY SameFacts, Zenon DEF CtxOK, Routed

LEMMA CtxOther ==
  ASSUME CtxOK, Same, DOMAIN ctx' = DOMAIN ctx, ctx'.route = ctx.route, ctx'.made = ctx.made,
         ctx'.globals \in Seq(DOMAIN Has), ctx'.hooks \in Nat
  PROVE  CtxOK'
BY SameFacts, Zenon DEF CtxOK, Routed

\* The items that prepare the context.
Prepares ==
  \/ ctx' = [ctx EXCEPT !.inject = TRUE] \/ ctx' = [ctx EXCEPT !.inject = TRUE, !.hooks = @ + 1]
  \/ \E f : f \in DOMAIN Has /\ ctx' = [ctx EXCEPT !.globals = Append(@, f)]
  \/ \E v : ctx' = [ctx EXCEPT !.orders = v] \/ ctx' = [ctx EXCEPT !.pipes = v]
            \/ ctx' = [ctx EXCEPT !.jwt = v] \/ ctx' = [ctx EXCEPT !.params = v]
            \/ ctx' = [[ctx EXCEPT !.read = TRUE] EXCEPT !.body = v]
  \/ ctx' = [ctx EXCEPT !.read = TRUE]

LEMMA PreparesFacts ==
  ASSUME TInv, Same, Prepares
  PROVE  CtxOK'
<1>1. CtxOK
  BY TFacts
<1>2. /\ DOMAIN ctx = DOMAIN NewContext /\ ctx.globals \in Seq(DOMAIN Has) /\ ctx.hooks \in Nat
  BY <1>1 DEF CtxOK
<1>3. /\ "inject" \in DOMAIN ctx /\ "hooks" \in DOMAIN ctx /\ "globals" \in DOMAIN ctx
      /\ "route" \in DOMAIN ctx /\ "made" \in DOMAIN ctx
  BY <1>2 DEF NewContext
<1>4. /\ DOMAIN ctx' = DOMAIN ctx /\ ctx'.route = ctx.route /\ ctx'.made = ctx.made
      /\ ctx'.globals \in Seq(DOMAIN Has) /\ ctx'.hooks \in Nat
  <2>1. CASE \E f : f \in DOMAIN Has /\ ctx' = [ctx EXCEPT !.globals = Append(@, f)]
    BY <1>2, <1>3, <2>1
  <2>2. CASE ctx' = [ctx EXCEPT !.inject = TRUE, !.hooks = @ + 1]
    BY <1>2, <1>3, <2>2
  <2>3. CASE ctx' = [ctx EXCEPT !.inject = TRUE] \/ ctx' = [ctx EXCEPT !.read = TRUE]
    BY <1>2, <1>3, <2>3
  <2>4. ASSUME NEW v, \/ ctx' = [ctx EXCEPT !.orders = v] \/ ctx' = [ctx EXCEPT !.pipes = v]
                      \/ ctx' = [ctx EXCEPT !.jwt = v] \/ ctx' = [ctx EXCEPT !.params = v]
        PROVE  /\ DOMAIN ctx' = DOMAIN ctx /\ ctx'.route = ctx.route /\ ctx'.made = ctx.made
               /\ ctx'.globals \in Seq(DOMAIN Has) /\ ctx'.hooks \in Nat
    BY <1>2, <1>3, <2>4
  <2>5. ASSUME NEW v, ctx' = [[ctx EXCEPT !.read = TRUE] EXCEPT !.body = v]
        PROVE  /\ DOMAIN ctx' = DOMAIN ctx /\ ctx'.route = ctx.route /\ ctx'.made = ctx.made
               /\ ctx'.globals \in Seq(DOMAIN Has) /\ ctx'.hooks \in Nat
    BY <1>2, <1>3, <2>5
  <2> QED
    BY <2>1, <2>2, <2>3, <2>4, <2>5, Zenon DEF Prepares
<1> QED
  BY <1>1, <1>4, CtxOther

-----------------------------------------------------------------------------
(* One lemma per kind of step.                                             *)

\* A step that goes on, returns or throws, and leaves filters and errors alone.
LEMMA PlainStep ==
  ASSUME TInv, Same, at # 0, CallNext \/ Return \/ \E x : Known(x) /\ Throw(x),
         UNCHANGED ctx \/ Prepares, Grown, again' \subseteq 1 .. Len(chain), UNCHANGED <<todo, errors>>,
         Rewritten(res, res', News')
  PROVE  Kept
<1>1. Moved
  BY Onward
<1>2. CtxOK'
  BY TFacts, CtxSame, PreparesFacts
<1>3. TodoOK' /\ errors' \in Seq(Thrown)
  BY TFacts, Zenon DEF TodoOK
<1> QED
  BY <1>1, <1>2, <1>3, KeptIf, Zenon

LEMMA Untouched ==
  ASSUME TInv, UNCHANGED res, NEW news PROVE Rewritten(res, res', news)
BY TFacts, RewrittenNothing

LEMMA PrepareKeeps ==
  ASSUME TInv, Inject \/ UseFilter \/ UseGlobalFilter \/ UseFilterOrder \/ UseGlobalPipe
  PROVE  Kept
<1>1. at # 0
  BY TFacts DEF Inject, UseFilter, UseGlobalFilter, UseFilterOrder, UseGlobalPipe, Running
<1>2. /\ CallNext /\ Same /\ UNCHANGED <<again, todo, errors, trail, res>>
  BY Zenon DEF Inject, UseFilter, UseGlobalFilter, UseFilterOrder, UseGlobalPipe, Quiet
<1>3. Prepares
  <2>1. CASE UseGlobalFilter
    <3>1. CaseAssumption(chain, req) /\ at \in DOMAIN chain
      BY <1>1, ChainFacts, TFacts DEF TInv
    <3>2. ItemAssumption(Item)
      BY <3>1, Zenon DEF CaseAssumption, Item
    <3>3. Item.filter \in DOMAIN Has
      BY <2>1, <3>2, Zenon DEF ItemAssumption, UseGlobalFilter, Running
    <3> QED
      BY <2>1, <3>3, Zenon DEF UseGlobalFilter, Prepares
  <2>2. CASE ~UseGlobalFilter
    BY <2>2, Zenon DEF Inject, UseFilter, UseFilterOrder, UseGlobalPipe, Prepares
  <2> QED
    BY <2>1, <2>2
<1>4. Grown /\ again' \subseteq 1 .. Len(chain)
  BY <1>2, TFacts, Zenon DEF Grown
<1>5. Rewritten(res, res', News')
  BY <1>2, Untouched, Zenon
<1> QED
  BY <1>1, <1>2, <1>3, <1>4, <1>5, PlainStep, Zenon

LEMMA UseJwtKeeps ==
  ASSUME TInv, UseJwt
  PROVE  Kept
<1>1. at # 0 /\ again \subseteq 1 .. Len(chain)
  BY TFacts DEF UseJwt, Running
<1>2. /\ Same /\ UNCHANGED <<res, again, todo, errors>>
      /\ UNCHANGED ctx \/ Prepares
      /\ CallNext \/ Throw(OtherError("error"))
      /\ Grown
  BY Zenon DEF UseJwt, Prepares, Grown
<1>3. CallNext \/ Return \/ \E x : Known(x) /\ Throw(x)
  BY <1>2, ErrorsKnown, Zenon
<1>4. Rewritten(res, res', News')
  BY <1>2, Untouched, Zenon
<1> QED
  BY <1>1, <1>2, <1>3, <1>4, PlainStep, Zenon

LEMMA CorsKeeps ==
  ASSUME TInv, Cors
  PROVE  Kept
<1> DEFINE varied == SetHeader(res.headers, Vary, <<"Origin">>)
           fullHeaders == CorsHeaders(varied)
           p == [res EXCEPT !.headers = varied]
           full == [res EXCEPT !.headers = fullHeaders]
<1>1. /\ at # 0 /\ at \in DOMAIN chain /\ Item.kind = "cors"
  BY ChainFacts, TFacts DEF Cors, Running, TInv
<1>2. at \in Behind("cors")
  BY <1>1 DEF Behind, Item
<1>3. Same /\ UNCHANGED <<ctx, todo, errors, trail>> /\ TypeOK
  BY Zenon DEF Cors, TInv
<1>4. /\ Written(res.headers, varied, FixedNews) /\ Written(varied, fullHeaders, FixedNews)
  BY <1>2, <1>3, CorsFacts, Zenon
<1>5. /\ res' = p \/ res' = full \/ res' = NoContent(full)
      /\ CallNext \/ Return
      /\ again' = again \/ again' = again \cup {at}
  BY Zenon DEF Cors
<1> HIDE DEF varied, fullHeaders
<1>6. res \in Response /\ res.headers \in Seq(Entry)
  BY TFacts, ResponseFields
<1>7. Rewritten(res, p, FixedNews)
  BY <1>4, <1>6, RewriteHeaders
<1>8. Rewritten(res, full, FixedNews)
  <2>1. Written(res.headers, fullHeaders, FixedNews)
    BY <1>4, <1>6, WrittenTwice
  <2> QED
    BY <1>6, <2>1, RewriteHeaders
<1>9. Rewritten(res, NoContent(full), FixedNews)
  <2>1. full \in Response
    BY <1>8, Zenon DEF Rewritten
  <2> HIDE DEF full
  <2>2. Rewritten(full, NoContent(full), FixedNews)
    BY <2>1, NoContentFacts
  <2> QED
    BY <1>6, <1>8, <2>2, RewrittenTwice, Zenon
<1>10. Grown /\ again' \subseteq 1 .. Len(chain)
  <2>1. again \subseteq 1 .. Len(chain) /\ at \in 1 .. Len(chain)
    BY <1>1, <1>3, TFacts, ChainFacts
  <2> QED
    BY <1>3, <1>5, <2>1, Zenon DEF Grown
<1>11. Rewritten(res, res', News')
  <2>1. FixedNews \subseteq News'
    BY <1>3, <1>10, NewsStay
  <2>2. Rewritten(res, res', FixedNews)
    BY <1>5, <1>7, <1>8, <1>9, Zenon
  <2> QED
    BY <2>1, <2>2, RewrittenMore, Zenon
<1> QED
  BY <1>1, <1>3, <1>5, <1>10, <1>11, PlainStep, Zenon

LEMMA CorsAgainKeeps ==
  ASSUME TInv, CorsAgain
  PROVE  Kept
<1>1. /\ at # 0 /\ again \subseteq 1 .. Len(chain) /\ res \in Response
  BY TFacts, ChainFacts DEF CorsAgain
<1>2. /\ Same /\ UNCHANGED <<ctx, todo, errors>> /\ again' \subseteq again
      /\ Grown /\ (CallNext \/ Return)
      /\ res' = NoContent(res) \/ UNCHANGED res
  BY DEF CorsAgain, Grown
<1>2a. Grown /\ (CallNext \/ Return)
  BY Zenon DEF CorsAgain, Grown
<1>3. Rewritten(res, res', News')
  BY <1>1, <1>2, NoContentFacts, RewrittenNothing
<1> QED
  BY <1>1, <1>2, <1>2a, <1>3, PlainStep, Zenon

LEMMA BodyParserKeeps ==
  ASSUME TInv, BodyParser
  PROVE  Kept
<1>1. at # 0 /\ res \in Response /\ again \subseteq 1 .. Len(chain)
  BY TFacts DEF BodyParser, Running
<1>2. /\ Same /\ UNCHANGED <<again, todo, errors>>
      /\ UNCHANGED ctx \/ Prepares
      /\ CallNext \/ Return \/ Throw(OtherError("error"))
      /\ Grown
      /\ UNCHANGED res \/ res' = [res EXCEPT !.status = 400]
  BY Zenon DEF BodyParser, Prepares, Grown
<1>3. Rewritten(res, res', News')
  <2>1. 400 \in Nat
    OBVIOUS
  <2>2. CASE UNCHANGED res
    BY <1>1, <2>2, RewrittenNothing, Zenon
  <2>3. CASE res' = [res EXCEPT !.status = 400]
    BY <1>1, <2>1, <2>3, StatusSet, Zenon
  <2> QED
    BY <1>2, <2>2, <2>3, Zenon
<1>4. CallNext \/ Return \/ \E x : Known(x) /\ Throw(x)
  BY <1>2, ErrorsKnown, Zenon
<1> QED
  BY <1>1, <1>2, <1>3, <1>4, PlainStep, Zenon

LEMMA VerifyKeeps ==
  ASSUME TInv, JwtVerify \/ JwtExtraAuth
  PROVE  Kept
<1>1. at # 0 /\ again \subseteq 1 .. Len(chain)
  BY TFacts DEF JwtVerify, JwtExtraAuth, Running
<1>2. /\ Same /\ UNCHANGED <<ctx, again, todo, errors>>
      /\ CallNext \/ Return
      /\ Grown
      /\ UNCHANGED res \/ res' = Refused(Item) \/ res' = Unauthorized(res)
  BY Zenon DEF JwtVerify, JwtExtraAuth, Grown
<1>3. Rewritten(res, res', News')
  BY <1>2, RefusedFacts, Untouched, Zenon DEF TInv
<1> QED
  BY <1>1, <1>2, <1>3, PlainStep, Zenon

Contents == {"whole", "decoded", "broken"}
FileGiven == \E n \in Nat, content \in Contents : res' = FileResult(res, n, Body("stream", content))

LEMMA FileGivenFacts ==
  /\ \A n \in Nat : \A content \in Contents :
       res' = FileResult(res, n, Body("stream", content)) => FileGiven
  /\ 200 \in Nat /\ 404 \in Nat /\ Content(Item) \in Contents /\ "broken" \in Contents
<1>1. 200 \in Nat /\ 404 \in Nat /\ Content(Item) \in Contents /\ "broken" \in Contents
  BY DEF Content, Contents
<1> QED
  BY <1>1, Zenon DEF FileGiven

LEMMA StaticKeeps ==
  ASSUME TInv, Static \/ StaticFile
  PROVE  Kept
<1>1. at # 0 /\ again \subseteq 1 .. Len(chain) /\ TypeOK
  BY TFacts DEF Static, StaticFile, Running, TInv
<1>2. /\ Same /\ UNCHANGED <<ctx, again, todo, errors>>
      /\ CallNext \/ Return
      /\ Grown
  BY Zenon DEF Static, StaticFile, Grown
<1>3. \/ UNCHANGED res \/ res' = MethodNotAllowed(res)
      \/ FileGiven
  <2>1. CASE Static
    <3>1. \/ res' = MethodNotAllowed(res) \/ UNCHANGED res
          \/ \E content \in {Content(Item), "broken"} : res' = FileResult(res, 200, Body("stream", content))
          \/ res' = FileResult(res, 404, Body("stream", Content(Item)))
      BY <2>1, Zenon DEF Static
    <3>2. \A content \in {Content(Item), "broken"} : content \in Contents
      BY FileGivenFacts
    <3> QED
      BY <3>1, <3>2, FileGivenFacts, Zenon
  <2>2. CASE StaticFile
    <3>1. \/ res' = MethodNotAllowed(res) \/ UNCHANGED res
          \/ res' = FileResult(res, 200, Body("stream", Content(Item)))
      BY <2>2, Zenon DEF StaticFile
    <3> QED
      BY <3>1, FileGivenFacts, Zenon
  <2> QED
    BY <2>1, <2>2, Zenon
<1>4. Rewritten(res, res', News')
  <2>1. FixedNews \subseteq News'
    BY <1>1, <1>2, NewsStay
  <2>2. CASE UNCHANGED res
    BY <2>2, Untouched, Zenon
  <2>3. CASE res' = MethodNotAllowed(res)
    BY <1>1, <2>1, <2>3, MethodNotAllowedFacts, RewrittenMore, Zenon
  <2>4. ASSUME NEW n \in Nat, NEW content \in Contents,
               res' = FileResult(res, n, Body("stream", content))
        PROVE  Rewritten(res, res', News')
    <3>1. content \in Strings
      BY TextAssumption DEF Texts, Contents
    <3>2. Body("stream", content) \in Bodies
      BY <3>1 DEF Body, Bodies
    <3> QED
      BY <1>1, <2>1, <2>4, <3>2, FileFacts, RewrittenMore, Zenon
  <2> QED
    BY <1>3, <2>2, <2>3, <2>4, Zenon DEF FileGiven
<1> QED
  BY <1>1, <1>2, <1>4, PlainStep, Zenon

\* Effect tells the trail of what it writes.
LEMMA EffectNoted ==
  ASSUME TypeOK, Same, NEW e \in Effects, res' = Effect(e),
         IF e = "none" THEN UNCHANGED trail ELSE Note("wrote", e, "-")
  PROVE  Rewritten(res, res', News')
<1>1. Grown
  BY Zenon DEF Grown
<1>2. FixedNews \subseteq News'
  BY <1>1, NewsStay
<1>3. e # "none" => Wrote(e)'
  <2>1. ASSUME e # "none" PROVE Wrote(e)'
    <3>1. trail' = Append(trail, Event("wrote", e, "-")) /\ trail \in Seq(ToSet(trail))
      BY <2>1, Zenon DEF Note, TypeOK
    <3> DEFINE x == Event("wrote", e, "-")
    <3>2. x.e = "wrote" /\ x.fn = e
      BY DEF Event
    <3> HIDE DEF x
    <3>3. Len(trail) + 1 \in DOMAIN trail' /\ trail'[Len(trail) + 1] = x
      <4>1. trail \in Seq(ToSet(trail) \cup {x}) /\ trail' = Append(trail, x)
        BY <3>1 DEF x
      <4> QED
        BY <4>1
    <3> QED
      BY <3>2, <3>3, Zenon DEF Wrote
  <2> QED
    BY <2>1
<1>4. (e = "length" => Length \in News') /\ (e = "blank" => Blank \in News')
  <2>1. Length \in Entry /\ Blank \in Entry
    BY OwnTyped
  <2>2. e = "length" => e # "none"
    OBVIOUS
  <2>3. e = "blank" => e # "none"
    OBVIOUS
  <2>4. e = "length" => Noted(Length)'
    BY <1>3, <2>2, Zenon DEF Noted
  <2>5. e = "blank" => Noted(Blank)'
    BY <1>3, <2>3, Zenon DEF Noted
  <2> QED
    BY <2>1, <2>4, <2>5, Zenon DEF News
<1> QED
  BY <1>2, <1>4, EffectFacts, Zenon

LEMMA UseKeeps ==
  ASSUME TInv, Use
  PROVE  Kept
<1>1. /\ at # 0 /\ again \subseteq 1 .. Len(chain) /\ TypeOK /\ at \in DOMAIN chain
      /\ Item.kind = "use" /\ CaseAssumption(chain, req)
  BY TFacts, ChainFacts DEF Use, Running, TInv
<1>2. /\ Same /\ UNCHANGED <<ctx, again, todo, errors>>
  BY Zenon DEF Use
<1>3. Item.before \subseteq Effects \cup {"throw", "stop"}
  BY <1>1, Zenon DEF CaseAssumption, ItemAssumption, Item
<1>4. PICK e \in Item.before :
       \/ /\ e = "throw" /\ \E x \in Throws : Throw(x)
          /\ Note("threw", "use", "-") /\ UNCHANGED res
       \/ /\ e = "stop" /\ Return /\ UNCHANGED <<res, trail>>
       \/ /\ e \notin {"throw", "stop"} /\ res' = Effect(e) /\ CallNext
          /\ IF e = "none" THEN UNCHANGED trail ELSE Note("wrote", e, "-")
  BY DEF Use
<1>5. CASE UNCHANGED res
  <2>1. Grown /\ (CallNext \/ Return \/ \E x : Known(x) /\ Throw(x))
    BY <1>4, ErrorsKnown, Zenon DEF Grown
  <2> QED
    BY <1>1, <1>2, <1>5, <2>1, Untouched, PlainStep, Zenon
<1>6. CASE /\ e \notin {"throw", "stop"} /\ res' = Effect(e) /\ CallNext
           /\ IF e = "none" THEN UNCHANGED trail ELSE Note("wrote", e, "-")
  <2>1. Grown /\ e \in Effects
    BY <1>3, <1>6, Zenon DEF Grown
  <2>2. Rewritten(res, res', News')
    BY <1>1, <1>2, <1>6, <2>1, EffectNoted
  <2> QED
    BY <1>1, <1>2, <1>6, <2>1, <2>2, PlainStep, Zenon
<1> QED
  BY <1>4, <1>5, <1>6, Zenon

LEMMA LeaveKeeps ==
  ASSUME TInv, Leave
  PROVE  Kept
<1>1. /\ at # 0 /\ again \subseteq 1 .. Len(chain) /\ TypeOK /\ at \in DOMAIN chain
      /\ CaseAssumption(chain, req)
  BY TFacts, ChainFacts DEF Leave, TInv
<1>2. /\ Same /\ UNCHANGED <<ctx, again, todo, errors>>
  BY Zenon DEF Leave
<1>3. Item.kind = "use" => Item.after \subseteq Effects \cup {"throw"}
  BY <1>1, Zenon DEF CaseAssumption, ItemAssumption, Item
<1>4. PICK e \in IF Item.kind = "use" THEN Item.after ELSE {"none"} :
       \/ /\ e = "throw" /\ \E x \in Throws : Throw(x)
          /\ Note("threw", "use", "-") /\ UNCHANGED res
       \/ /\ e # "throw" /\ res' = Effect(e) /\ Return
          /\ IF e = "none" THEN UNCHANGED trail ELSE Note("wrote", e, "-")
  BY DEF Leave
<1>5. CASE UNCHANGED res /\ Note("threw", "use", "-") /\ \E x \in Throws : Throw(x)
  <2>1. Grown /\ (CallNext \/ Return \/ \E x : Known(x) /\ Throw(x))
    BY <1>5, ErrorsKnown, Zenon DEF Grown
  <2> QED
    BY <1>1, <1>2, <1>5, <2>1, Untouched, PlainStep, Zenon
<1>6. CASE /\ e # "throw" /\ res' = Effect(e) /\ Return
           /\ IF e = "none" THEN UNCHANGED trail ELSE Note("wrote", e, "-")
  <2>1. Grown
    BY <1>6, Zenon DEF Grown
  <2>2. e \in Effects
    BY <1>3, <1>4, <1>6 DEF Effects
  <2>3. Rewritten(res, res', News')
    BY <1>1, <1>2, <1>6, <2>1, <2>2, EffectNoted
  <2> QED
    BY <1>1, <1>2, <1>6, <2>1, <2>3, PlainStep, Zenon
<1> QED
  BY <1>4, <1>5, <1>6, Zenon

\* There is one useRouter: what Match finds is what it found before.
LEMMA MatchOnce ==
  ASSUME TInv, Running("match")
  PROVE  /\ at \in Behind("match") /\ Item.map \in Seq(MapItems)
         /\ \A k \in Behind("match") : k = at
         /\ ctx.route = NoRoute \/ ctx.route = Route(Item.map, Item.prefix, Item.custom, Asked)
<1>1. /\ at \in DOMAIN chain /\ Item.kind = "match" /\ CaseAssumption(chain, req)
  BY TFacts, ChainFacts DEF Running, TInv
<1>2. at \in Behind("match")
  BY <1>1 DEF Behind, Item
<1>3. \A k \in Behind("match") : k = at
  BY <1>1, <1>2, Zenon DEF CaseAssumption, Behind
<1>4. Item.map \in Seq(MapItems)
  BY <1>1, Zenon DEF CaseAssumption, ItemAssumption, Item
<1>5. ctx.route = NoRoute \/ \E k \in Behind("match") :
        ctx.route = Route(chain[k].map, chain[k].prefix, chain[k].custom, Asked)
  BY Zenon DEF TInv, Routed
<1> QED
  BY <1>2, <1>3, <1>4, <1>5, Zenon DEF Item

LEMMA MatchKeeps ==
  ASSUME TInv, Match
  PROVE  Kept
<1> DEFINE r == Route(Item.map, Item.prefix, Item.custom, Asked)
<1>1. /\ Running("match") /\ ctx' = [ctx EXCEPT !.route = r] /\ CallNext /\ Same
      /\ UNCHANGED <<again, todo, errors>>
      /\ UNCHANGED <<res, trail>> \/ (r.found # "route" /\ res' = FailureMsg(res, r.found))
      /\ Grown
  BY Zenon DEF Match, Grown
<1>2. /\ at \in Behind("match") /\ Item.map \in Seq(MapItems)
      /\ \A k \in Behind("match") : k = at
      /\ ctx.route = NoRoute \/ ctx.route = r
  BY <1>1, MatchOnce
<1>3. /\ r.found \in {"route", "methodNotAllowed", "notFound"}
      /\ r.found = "route" => r.item \in MapItems
  BY <1>2, RouteFacts, Zenon
<1>4. /\ CtxOK /\ Known(err) /\ at \in 0 .. Len(chain) /\ again \subseteq 1 .. Len(chain) /\ at # 0
      /\ res \in Response
  BY <1>1, TFacts DEF Running
<1> HIDE DEF r
<1>5. /\ ctx'.route = r /\ ctx'.made = ctx.made /\ ctx'.globals = ctx.globals
      /\ ctx'.hooks = ctx.hooks /\ DOMAIN ctx' = DOMAIN ctx
  <2>1. {"route", "made", "globals", "hooks"} \subseteq DOMAIN ctx
    BY <1>4 DEF CtxOK, NewContext
  <2> QED
    BY <1>1, <2>1
<1>6. ctx.made => r.found = "route"
  <2>1. NoRoute.found # "route"
    BY DEF NoRoute
  <2> QED
    BY <1>2, <1>4, <2>1, Zenon DEF CtxOK, Routed
<1>7. CtxOK'
  <2>1. \E k \in Behind("match")' : ctx'.route = Route(chain[k].map, chain[k].prefix, chain[k].custom, Asked)
    BY <1>1, <1>2, <1>5, SameFacts, Zenon DEF Item, r
  <2>2. Routed'
    BY <1>1, <1>5, <1>6, <2>1, SameFacts, Zenon DEF Routed
  <2>3. r.found \in {"none", "route", "methodNotAllowed", "notFound"}
    BY <1>3
  <2> QED
    BY <1>3, <1>4, <1>5, <2>2, <2>3, Zenon DEF CtxOK
<1>8. Rewritten(res, res', News')
  <2>1. CASE r.found # "route" /\ res' = FailureMsg(res, r.found)
    <3>1. r.found \in DOMAIN ErrorStatus
      BY <1>3, <2>1 DEF ErrorStatus
    <3> QED
      BY <1>4, <2>1, <3>1, FailureFacts, Zenon
  <2> QED
    BY <1>1, <2>1, Untouched, Zenon
<1>9. Moved
  BY <1>1, <1>4, Onward, Zenon
<1>10. TodoOK' /\ errors' \in Seq(Thrown)
  BY <1>1, TFacts, Zenon DEF TodoOK
<1> QED
  BY <1>1, <1>4, <1>7, <1>8, <1>9, <1>10, KeptIf, Zenon

LEMMA SetParamsKeeps ==
  ASSUME TInv, SetParams
  PROVE  Kept
<1>1. at # 0 /\ again \subseteq 1 .. Len(chain)
  BY TFacts DEF SetParams, Running
<1>2. /\ Same /\ UNCHANGED <<again, todo, errors, res>>
      /\ UNCHANGED ctx \/ Prepares
      /\ CallNext \/ Throw(OtherError("error"))
      /\ Grown
  BY Zenon DEF SetParams, Prepares, Grown
<1>3. CallNext \/ Return \/ \E x : Known(x) /\ Throw(x)
  BY <1>2, ErrorsKnown, Zenon
<1>4. Grown /\ again' \subseteq 1 .. Len(chain)
  BY <1>1, <1>2, Zenon
<1>5. Rewritten(res, res', News')
  BY <1>2, Untouched, Zenon
<1> QED
  BY <1>1, <1>2, <1>3, <1>4, <1>5, PlainStep, Zenon

\* The filters for an action of the router.
LEMMA ClassFacts ==
  ASSUME TypeOK, ctx.route.found = "route"
  PROVE  ctx.route.item.action \in DOMAIN Actions /\ ClassAssumption(Class)
<1>1. ctx.route.item \in MapItems
  BY Zenon DEF TypeOK
<1>2. ctx.route.item.action \in DOMAIN Actions
  BY <1>1 DEF MapItems
<1> QED
  BY <1>2, HttpAssumption, Zenon DEF Class

LEMMA ExecFacts ==
  ASSUME TypeOK, ctx.route.found = "route", NEW fn, NEW executing, NEW left
  PROVE  /\ Exec(fn, executing, left).fn = fn /\ Exec(fn, executing, left).ran = 0
         /\ Exec(fn, executing, left).left = left
         /\ Exec(fn, executing, left).queue \in Seq(DOMAIN Has)
         /\ ToSet(Exec(fn, executing, left).queue) =
              {f \in ToSet(ctx.globals) \cup ToSet(Class.used) : fn \in Has[f]}
<1>1. ctx.globals \in Seq(DOMAIN Has) /\ Class.used \in Seq(DOMAIN Has)
  BY ClassFacts, Zenon DEF TypeOK, ClassAssumption
<1>2. /\ FiltersFor(fn, executing) \in Seq(DOMAIN Has)
      /\ ToSet(FiltersFor(fn, executing)) = {f \in ToSet(ctx.globals) \cup ToSet(Class.used) : fn \in Has[f]}
  BY <1>1, GetFiltersFacts DEF FiltersFor
<1>3. /\ Exec(fn, executing, left).fn = fn /\ Exec(fn, executing, left).ran = 0
      /\ Exec(fn, executing, left).left = left
      /\ Exec(fn, executing, left).queue = FiltersFor(fn, executing)
  BY DEF Exec
<1> QED
  BY <1>2, <1>3, Zenon

LEMMA ExecTodo ==
  ASSUME TypeOK, ctx.route.found = "route", NEW fn, NEW executing, NEW left \in Nat,
         todo' = Exec(fn, executing, left)
  PROVE  TodoOK'
<1>1. /\ Exec(fn, executing, left).queue \in Seq(DOMAIN Has) /\ Exec(fn, executing, left).ran = 0
      /\ Exec(fn, executing, left).left = left /\ 0 \in Nat
  BY ExecFacts
<1>2. DOMAIN Exec(fn, executing, left) = DOMAIN Idle
  BY DEF Exec, Idle
<1> QED
  BY <1>1, <1>2, Zenon DEF TodoOK

LEMMA PredFacts == ASSUME NEW n \in Nat, n > 0 PROVE n - 1 \in Nat
OBVIOUS

LEMMA BlankActionKeeps ==
  ASSUME TInv, BlankAction
  PROVE  Kept
<1>1. /\ at \in 0 .. Len(chain) /\ Len(chain) \in Nat /\ CtxOK /\ Known(err) /\ again \subseteq 1 .. Len(chain)
      /\ TodoOK /\ errors \in Seq(Thrown)
  BY TFacts
<1>2. /\ Same /\ UNCHANGED <<ctx, again, todo, errors, trail, res>>
      /\ mode' = "enter" /\ at' = at + 1 /\ at < Len(chain) /\ err' = err
  BY Zenon DEF BlankAction, ToAction, Quiet
<1>3. at' \in 0 .. Len(chain)
  BY <1>1, <1>2
<1>4. Moved
  BY <1>1, <1>2, <1>3 DEF Moved, Modes
<1>5. CtxOK' /\ Grown
  BY <1>1, <1>2, CtxSame, Zenon DEF Grown
<1>6. Rewritten(res, res', News')
  BY <1>2, Untouched, Zenon
<1>7. TodoOK' /\ errors' \in Seq(Thrown) /\ again' \subseteq 1 .. Len(chain)
  BY <1>1, <1>2, Zenon DEF TodoOK
<1> QED
  BY <1>2, <1>4, <1>5, <1>6, <1>7, KeptIf, Zenon

LEMMA MakeActionKeeps ==
  ASSUME TInv, MakeAction
  PROVE  Kept
<1>1. /\ at \in 0 .. Len(chain) /\ Len(chain) \in Nat /\ CtxOK /\ Known(err) /\ again \subseteq 1 .. Len(chain)
      /\ TodoOK /\ errors \in Seq(Thrown) /\ TypeOK
  BY TFacts, Zenon DEF TInv
<1>2. /\ Same /\ UNCHANGED <<again, errors, res>> /\ at < Len(chain) /\ Grown
      /\ ctx.route.found = "route"
  BY Zenon DEF MakeAction, ToAction, Grown
<1>3. /\ \E v, w : ctx' = [ctx EXCEPT !.made = v, !.args = w]
      /\ \/ mode' = "caught" /\ (\E o : err' = ErrorOf(o)) /\ UNCHANGED <<at, todo>>
         \/ /\ at' = at + 1 /\ UNCHANGED err
            /\ \/ ctx.hooks > 0 /\ mode' = "filters" /\ todo' = Exec(Before3[1], TRUE, ctx.hooks - 1)
               \/ mode' = "act" /\ UNCHANGED todo
  BY Zenon DEF MakeAction
<1>4. /\ DOMAIN ctx' = DOMAIN ctx /\ ctx'.route = ctx.route /\ ctx'.globals = ctx.globals
      /\ ctx'.hooks = ctx.hooks
  <2>1. {"route", "made", "globals", "args", "hooks"} \subseteq DOMAIN ctx
    BY <1>1 DEF CtxOK, NewContext
  <2>2. \E v, w : ctx' = [ctx EXCEPT !.made = v, !.args = w]
    BY <1>3, Zenon
  <2> QED
    BY <2>1, <2>2
<1>5. CtxOK'
  BY <1>1, <1>2, <1>4, SameFacts, Zenon DEF CtxOK, Routed
<1>6. Known(err')
  <2>1. ASSUME NEW o PROVE Known(ErrorOf(o))
    BY ErrorsKnown, Zenon DEF ErrorOf
  <2> QED
    BY <1>1, <1>3, <2>1, Zenon
<1>7. at' \in 0 .. Len(chain) /\ (mode' # "caught" => at' # 0)
  <2>1. CASE mode' = "caught" /\ UNCHANGED at
    BY <1>1, <2>1
  <2>2. CASE at' = at + 1
    BY <1>1, <1>2, <2>2
  <2> QED
    BY <1>3, <2>1, <2>2, Zenon
<1>8. Moved
  BY <1>2, <1>3, <1>4, <1>6, <1>7 DEF Moved, Modes
<1>9. TodoOK'
  <2>1. ctx.hooks > 0 => ctx.hooks - 1 \in Nat
    BY <1>1, PredFacts DEF CtxOK
  <2> QED
    BY <1>1, <1>2, <1>3, <2>1, ExecTodo, Zenon DEF TodoOK
<1>10. Rewritten(res, res', News')
  BY <1>2, Untouched, Zenon
<1>11. Grown /\ again' \subseteq 1 .. Len(chain) /\ errors' \in Seq(Thrown)
  BY <1>1, <1>2, Zenon
<1> QED
  BY <1>2, <1>5, <1>8, <1>9, <1>10, <1>11, KeptIf, Zenon

LEMMA InvokeKeeps ==
  ASSUME TInv, Invoke
  PROVE  Kept
<1>1. /\ at \in 0 .. Len(chain) /\ at # 0 /\ CtxOK /\ Known(err) /\ again \subseteq 1 .. Len(chain)
      /\ TodoOK /\ errors \in Seq(Thrown) /\ TypeOK
      /\ ctx.route.found = "route" /\ res \in Response
  BY TFacts DEF TInv, Invoke
<1>2. /\ Same /\ UNCHANGED <<ctx, again, errors>> /\ Grown
  BY Zenon DEF Invoke, Invoked, Grown
<1>3. PICK does \in Class.does :
       \/ /\ does.call = "throw" /\ \E x \in Throws : Throw(x)
          /\ UNCHANGED <<res, todo>>
       \/ /\ does.call \in DOMAIN SuccessStatus
          /\ res' = Success(res, does.call, does.body, <<"here">>)
          /\ Invoked
       \/ /\ does.call \in DOMAIN ErrorStatus
          /\ res' = Failure(res, does.call, does.body)
          /\ Invoked
  BY DEF Invoke
<1>4. does.body \in Bodies
  BY <1>1, <1>3, ClassFacts DEF ClassAssumption
<1>5. Moved /\ (todo' = todo \/ (ctx.hooks > 0 /\ todo' = Exec(After2[1], FALSE, ctx.hooks - 1)))
  <2>1. CASE \E x \in Throws : Throw(x) /\ UNCHANGED todo
    BY <1>1, <2>1, ErrorsKnown, Onward, Zenon
  <2>2. CASE Invoked
    <3>1. CASE /\ ctx.hooks > 0
               /\ mode' = "filters" /\ todo' = Exec(After2[1], FALSE, ctx.hooks - 1) /\ UNCHANGED <<at, err>>
      BY <1>1, <1>2, <3>1 DEF Moved, Modes
    <3>2. CASE Return /\ UNCHANGED todo
      BY <1>1, <3>2, Onward
    <3> QED
      BY <2>2, <3>1, <3>2, Zenon DEF Invoked
  <2> QED
    BY <1>3, <2>1, <2>2
<1>6. TodoOK'
  <2>1. ctx.hooks > 0 => ctx.hooks - 1 \in Nat
    BY <1>1, PredFacts DEF CtxOK
  <2> QED
    BY <1>1, <1>5, <2>1, ExecTodo, Zenon DEF TodoOK
<1>7. Rewritten(res, res', News')
  <2>1. FixedNews \subseteq News'
    BY <1>1, <1>2, NewsStay
  <2>2. [key |-> Location, value |-> <<"here">>] \in News' /\ <<"here">> \in Seq(Strings)
    <3>1. "here" \in Texts
      BY DEF Texts
    <3>2. <<"here">> \in Seq(Strings)
      BY <3>1, TextPairs
    <3>3. Pair(Location, <<"here">>) \in FixedNews
      BY FixedFacts, Zenon DEF OwnHeaders
    <3> QED
      BY <2>1, <3>2, <3>3, Zenon DEF Pair
  <2>3. CASE UNCHANGED res
    BY <2>3, Untouched
  <2>4. CASE does.call \in DOMAIN SuccessStatus /\ res' = Success(res, does.call, does.body, <<"here">>)
    BY <1>1, <1>4, <2>2, <2>4, SuccessFacts, Zenon
  <2>5. CASE does.call \in DOMAIN ErrorStatus /\ res' = Failure(res, does.call, does.body)
    BY <1>1, <1>4, <2>5, FailureFacts, Zenon
  <2> QED
    BY <1>3, <2>3, <2>4, <2>5, Zenon
<1>8. CtxOK' /\ again' \subseteq 1 .. Len(chain) /\ errors' \in Seq(Thrown)
  BY <1>1, <1>2, CtxSame, Zenon
<1> QED
  BY <1>2, <1>5, <1>6, <1>7, <1>8, KeptIf, Zenon

LEMMA SeqConcat ==
  ASSUME NEW S, NEW s \in Seq(S), NEW e \in S, NEW d \in S
  PROVE  s \o <<e>> \in Seq(S) /\ s \o <<d, e>> \in Seq(S)
OBVIOUS

LEMMA UnhandledFacts ==
  ASSUME TInv, Unhandled, Same
  PROVE  /\ Grown /\ Known(err') /\ errors' \in Seq(Thrown) /\ Rewritten(res, res', News')
         /\ res'.status = Told(err).status /\ res'.body = Body("object", "error")
         /\ mode' = "leave" /\ at' = at
<1>1. /\ mode' = "leave" /\ at' = at /\ err' = err /\ Grown
      /\ res' = CatchResponse(res, err) /\ errors' = CatchErrors(errors, err)
  BY Zenon DEF Unhandled, CatchError, Grown
<1>2. /\ Known(err) /\ err \in Thrown /\ errors \in Seq(Thrown) /\ res \in Response /\ TypeOK
      /\ ToSet(Told(err).headers) \subseteq FixedNews
  BY TFacts, ErrHeaders, Zenon DEF TInv
<1>3. FixedNews \subseteq News'
  BY <1>1, <1>2, NewsStay
<1>4. /\ Rewritten(res, res', FixedNews)
      /\ res'.status = Told(err).status /\ res'.body = Body("object", "error")
  BY <1>1, <1>2, CatchResponseFacts, Zenon
<1>5. InternalServerError \in Thrown
  BY <1>2, ToldFacts
<1>6. errors' \in Seq(Thrown)
  BY <1>1, <1>2, <1>5, SeqConcat, Zenon DEF CatchErrors
<1> QED
  BY <1>1, <1>2, <1>3, <1>4, <1>6, RewrittenMore, Zenon

LEMMA ThrowOutFacts ==
  ASSUME TInv, NEW e, Known(e), at # 0, NEW noted, ThrowOut(e, noted), Same,
         noted = trail \/ \E a, fn, by : noted = Append(trail, Event(a, fn, by))
  PROVE  /\ Moved /\ Grown /\ errors' = errors /\ Rewritten(res, res', News')
         /\ mode' \in {"leave", "caught"}
<1>1. \/ res' = Refused(Item) /\ Return /\ Note("refused", "verify", "error") /\ errors' = errors
      \/ Throw(e) /\ UNCHANGED <<res, errors>> /\ trail' = noted
  BY Zenon DEF ThrowOut
<1>2. Grown /\ errors' = errors
  BY <1>1, Zenon DEF Grown, Note
<1>3. Moved /\ mode' \in {"leave", "caught"}
  BY <1>1, Onward, Zenon DEF Return, Throw
<1>4. Rewritten(res, res', News')
  BY <1>1, RefusedFacts, Untouched, Zenon DEF TInv
<1> QED
  BY <1>2, <1>3, <1>4

LEMMA RunFilterKeeps ==
  ASSUME TInv, RunFilter
  PROVE  Kept
<1>1. /\ CtxOK /\ Known(err) /\ again \subseteq 1 .. Len(chain) /\ at # 0 /\ at \in 0 .. Len(chain)
      /\ TodoOK /\ errors \in Seq(Thrown)
      /\ ctx.route.found = "route"
  BY TFacts DEF RunFilter
<1>2. Same /\ UNCHANGED <<ctx, again>> /\ todo.queue # << >>
  BY Zenon DEF RunFilter
<1> DEFINE f == Head(todo.queue)
<1>3. PICK r \in Behaves[f] :
          \/ /\ r = "throw" /\ todo.fn # "onException"
             /\ \E x \in Throws : Throw(x)
             /\ Note("threw", todo.fn, f) /\ UNCHANGED <<res, errors, todo>>
          \/ /\ r = "throw" /\ todo.fn = "onException"
             /\ \E x \in Throws : ThrowOut(x, Append(trail, Event("threw", todo.fn, f)))
             /\ UNCHANGED todo
          \/ /\ r = "refuse" /\ todo.fn \in {Before3[i] : i \in 1 .. 3}
             /\ Return /\ Note("refused", todo.fn, f) /\ UNCHANGED <<res, errors, todo>>
          \/ /\ r = "refuse" /\ todo.fn = "onException" /\ todo.left = 0
             /\ Unhandled /\ UNCHANGED todo
          \/ /\ r = "refuse" /\ todo.fn = "onException" /\ todo.left > 0
             /\ todo' = Exec("onException", TRUE, todo.left - 1)
             /\ UNCHANGED <<mode, at, err, res, errors, trail>>
          \/ /\ r = "pass" \/ (r = "refuse" /\ ~Executing(todo.fn))
             /\ todo' = [todo EXCEPT !.queue = Tail(@), !.ran = @ + 1]
             /\ Note("filter", todo.fn, f) /\ UNCHANGED <<mode, at, err, res, errors>>
  BY DEF RunFilter, Note
<1>4. CtxOK' /\ again' \subseteq 1 .. Len(chain)
  BY <1>1, <1>2, CtxSame, Zenon
<1> HIDE DEF f
<1>5. CASE (\E x \in Throws : Throw(x)) /\ Note("threw", todo.fn, f) /\ UNCHANGED <<res, errors, todo>>
  <2>1. CallNext \/ Return \/ \E x : Known(x) /\ Throw(x)
    BY <1>5, ErrorsKnown, Zenon
  <2>2. Grown /\ Rewritten(res, res', News')
    BY <1>5, Untouched, Zenon DEF Grown
  <2> QED
    BY <1>1, <1>2, <1>4, <1>5, <2>1, <2>2, PlainStep, Zenon
<1> DEFINE noted == Append(trail, Event("threw", todo.fn, f))
<1>6. CASE (\E x \in Throws : ThrowOut(x, noted)) /\ UNCHANGED todo
  <2>1. PICK x \in Throws : ThrowOut(x, noted)
    BY <1>6
  <2> HIDE DEF noted
  <2>4. noted = trail \/ \E a, fn, by : noted = Append(trail, Event(a, fn, by))
    BY DEF noted
  <2>2. Known(x)
    BY ErrorsKnown
  <2>3. Moved /\ Grown /\ errors' = errors /\ Rewritten(res, res', News')
    BY <1>1, <1>2, <2>1, <2>2, <2>4, ThrowOutFacts
  <2> QED
    BY <1>1, <1>2, <1>4, <1>6, <2>3, KeptIf, Zenon DEF TodoOK
<1>7. CASE Return /\ Note("refused", todo.fn, f) /\ UNCHANGED <<res, errors, todo>>
  <2>2. Grown /\ Rewritten(res, res', News')
    BY <1>7, Untouched, Zenon DEF Grown
  <2> QED
    BY <1>1, <1>2, <1>4, <1>7, <2>2, PlainStep, Zenon
<1>8. CASE Unhandled /\ UNCHANGED todo
  <2>1. /\ Grown /\ Known(err') /\ errors' \in Seq(Thrown) /\ Rewritten(res, res', News')
        /\ mode' = "leave" /\ at' = at
    BY <1>2, <1>8, UnhandledFacts
  <2>2. Moved
    BY <1>1, <2>1 DEF Moved, Modes
  <2> QED
    BY <1>1, <1>2, <1>4, <1>8, <2>1, <2>2, KeptIf, Zenon DEF TodoOK
<1>9. CASE /\ todo' = [todo EXCEPT !.queue = Tail(@), !.ran = @ + 1]
           /\ Note("filter", todo.fn, f) /\ UNCHANGED <<mode, at, err, res, errors>>
  <2>1. TodoOK'
    <3>1. {"queue", "ran", "left"} \subseteq DOMAIN todo
      BY <1>1 DEF TodoOK, Idle
    <3> QED
      BY <1>1, <1>2, <1>9, <3>1 DEF TodoOK
  <2>2. Moved
    BY <1>1, <1>2, <1>9, TFacts DEF Moved
  <2>3. Grown /\ Rewritten(res, res', News')
    BY <1>9, Untouched, Zenon DEF Grown
  <2> QED
    BY <1>1, <1>2, <1>4, <1>9, <2>1, <2>2, <2>3, KeptIf, Zenon
<1>10. CASE /\ todo.left > 0 /\ todo' = Exec("onException", TRUE, todo.left - 1)
            /\ UNCHANGED <<mode, at, err, res, errors, trail>>
  <2>1. TodoOK'
    <3>1. todo.left - 1 \in Nat
      BY <1>1, <1>10, PredFacts DEF TodoOK
    <3> QED
      BY <1>1, <1>10, <3>1, ExecTodo DEF TInv
  <2>2. Moved
    BY <1>1, <1>2, <1>10, TFacts DEF Moved
  <2>3. Grown /\ Rewritten(res, res', News')
    BY <1>10, Untouched, Zenon DEF Grown
  <2> QED
    BY <1>1, <1>2, <1>4, <1>10, <2>1, <2>2, <2>3, KeptIf, Zenon
<1> QED
  BY <1>3, <1>5, <1>6, <1>7, <1>8, <1>9, <1>10, Zenon DEF noted

LEMMA FiltersDoneKeeps ==
  ASSUME TInv, FiltersDone
  PROVE  Kept
<1>1. /\ CtxOK /\ Known(err) /\ again \subseteq 1 .. Len(chain) /\ at # 0 /\ at \in 0 .. Len(chain)
      /\ TodoOK /\ errors \in Seq(Thrown) /\ ctx.route.found = "route" /\ mode \in Modes /\ TypeOK
  BY TFacts DEF FiltersDone, TInv
<1>2. Same /\ UNCHANGED <<ctx, again>>
  BY Zenon DEF FiltersDone
<1>3. CtxOK' /\ again' \subseteq 1 .. Len(chain)
  BY <1>1, <1>2, CtxSame, Zenon
<1>4. CASE /\ \E fn : todo' = Exec(fn, Executing(todo.fn), todo.left)
                        \/ (todo.left > 0 /\ todo' = Exec(fn, Executing(todo.fn), todo.left - 1))
           /\ UNCHANGED <<mode, at, err, res, errors, trail>>
  <2>1. Moved
    BY <1>1, <1>2, <1>4, TFacts DEF Moved
  <2>2. Grown /\ Rewritten(res, res', News')
    BY <1>4, Untouched, Zenon DEF Grown
  <2>3. TodoOK'
    <3>1. todo.left \in Nat /\ (todo.left > 0 => todo.left - 1 \in Nat)
      BY <1>1, PredFacts DEF TodoOK
    <3> QED
      BY <1>1, <1>4, <3>1, ExecTodo, Zenon
  <2> QED
    BY <1>1, <1>2, <1>3, <1>4, <2>1, <2>2, <2>3, KeptIf, Zenon
<1>5. CASE mode' \in {"act", "leave"} /\ UNCHANGED <<at, err, res, errors, todo>> /\ Grown
  <2>1. Moved
    BY <1>1, <1>2, <1>5 DEF Moved, Modes
  <2>2. Grown /\ Rewritten(res, res', News') /\ TodoOK'
    BY <1>1, <1>5, Untouched, Zenon DEF TodoOK
  <2> QED
    BY <1>1, <1>2, <1>3, <1>5, <2>1, <2>2, KeptIf, Zenon
<1>6. CASE Return /\ UNCHANGED <<res, errors, todo, trail>>
  <2>2. Grown /\ Rewritten(res, res', News')
    BY <1>6, Untouched, Zenon DEF Grown
  <2> QED
    BY <1>1, <1>2, <1>3, <1>6, <2>2, PlainStep, Zenon
<1>7. CASE Unhandled /\ UNCHANGED todo
  <2>1. /\ Grown /\ Known(err') /\ errors' \in Seq(Thrown) /\ Rewritten(res, res', News')
        /\ mode' = "leave" /\ at' = at
    BY <1>2, <1>7, UnhandledFacts
  <2>2. Moved
    BY <1>1, <2>1 DEF Moved, Modes
  <2> QED
    BY <1>1, <1>2, <1>3, <1>7, <2>1, <2>2, KeptIf, Zenon DEF TodoOK
<1>8. \/ /\ \/ todo' = Exec(NextFunction(todo.fn), Executing(todo.fn), todo.left)
            \/ todo.left > 0 /\ todo' = Exec(FirstFunction(todo.fn), Executing(todo.fn), todo.left - 1)
         /\ UNCHANGED <<mode, at, err, res, errors, trail>>
      \/ mode' = "act" /\ UNCHANGED <<at, err, res, errors, todo, trail>>
      \/ Return /\ UNCHANGED <<res, errors, todo, trail>>
      \/ mode' = "leave" /\ Note("handled", "onException", "-") /\ UNCHANGED <<at, err, res, errors, todo>>
      \/ Unhandled /\ UNCHANGED todo
  BY Zenon DEF FiltersDone
<1>9. "act" \in {"act", "leave"} /\ "leave" \in {"act", "leave"}
  OBVIOUS
<1> QED
  BY <1>4, <1>5, <1>6, <1>7, <1>8, <1>9, Zenon DEF Grown

LEMMA EnterKeeps ==
  ASSUME TInv, Enter
  PROVE  Kept
<1>1. /\ CtxOK /\ Known(err) /\ again \subseteq 1 .. Len(chain) /\ at \in 0 .. Len(chain)
      /\ Len(chain) \in Nat /\ TodoOK /\ errors \in Seq(Thrown)
  BY TFacts
<1>2. /\ Same /\ UNCHANGED <<ctx, again, todo, errors, trail, res, err>>
      /\ \/ at < Len(chain) /\ mode' = "invoke" /\ at' = at + 1
         \/ mode' = "leave" /\ at' = at
  BY Zenon DEF Enter, Quiet
<1>3. at' \in 0 .. Len(chain) /\ (mode' = "invoke" => at' # 0)
  <2>1. CASE at < Len(chain) /\ at' = at + 1
    BY <1>1, <2>1
  <2>2. CASE mode' = "leave" /\ at' = at
    BY <1>1, <2>2
  <2> QED
    BY <1>2, <2>1, <2>2
<1>4. Moved
  BY <1>1, <1>2, <1>3 DEF Moved, Modes
<1>5. CtxOK' /\ TodoOK' /\ again' \subseteq 1 .. Len(chain) /\ errors' \in Seq(Thrown)
  BY <1>1, <1>2, CtxSame, Zenon DEF TodoOK
<1>6. Grown /\ Rewritten(res, res', News')
  BY <1>2, Untouched, Zenon DEF Grown
<1> QED
  BY <1>2, <1>4, <1>5, <1>6, KeptIf, Zenon

LEMMA CaughtKeeps ==
  ASSUME TInv, CaughtByStartup \/ PassesThrough \/ CaughtByNext
  PROVE  Kept
<1>1. /\ CtxOK /\ Known(err) /\ again \subseteq 1 .. Len(chain) /\ at \in 0 .. Len(chain)
      /\ TodoOK /\ errors \in Seq(Thrown) /\ mode \in Modes /\ TypeOK
  BY TFacts DEF TInv
<1>2. Same /\ UNCHANGED <<ctx, again>>
  BY Zenon DEF CaughtByStartup, PassesThrough, CaughtByNext
<1>3. CtxOK' /\ again' \subseteq 1 .. Len(chain)
  BY <1>1, <1>2, CtxSame, Zenon
<1>4. CASE Unhandled /\ UNCHANGED todo
  <2>1. /\ Grown /\ Known(err') /\ errors' \in Seq(Thrown) /\ Rewritten(res, res', News')
        /\ mode' = "leave" /\ at' = at
    BY <1>2, <1>4, UnhandledFacts
  <2>2. Moved
    BY <1>1, <2>1 DEF Moved, Modes
  <2> QED
    BY <1>1, <1>2, <1>3, <1>4, <2>1, <2>2, KeptIf, Zenon DEF TodoOK
<1>5. CASE PassesThrough
  <2>1. /\ at # 0 /\ UNCHANGED todo
        /\ \/ ThrowOut(err, trail)
           \/ ThrowOut(OtherError("error"), Append(trail, Event("threw", "next", "-")))
    BY <1>1, <1>5 DEF PassesThrough
  <2>2. Known(err) /\ Known(OtherError("error"))
    BY <1>1, ErrorsKnown
  <2>3. Moved /\ Grown /\ errors' = errors /\ Rewritten(res, res', News')
    BY <1>2, <2>1, <2>2, ThrowOutFacts
  <2> QED
    BY <1>1, <1>2, <1>3, <2>1, <2>3, KeptIf, Zenon DEF TodoOK
<1>6. CASE /\ ctx.hooks > 0 /\ OfAction /\ at > 0
           /\ mode' = "filters" /\ todo' = Exec("onException", TRUE, ctx.hooks - 1)
           /\ UNCHANGED <<at, err, res, errors, trail>>
  <2>1. ctx.route.found = "route"
    BY <1>1, <1>6, Zenon DEF OfAction, CtxOK, Routed
  <2>2. Moved
    BY <1>1, <1>2, <1>6, <2>1 DEF Moved, Modes
  <2>3. TodoOK' /\ Grown /\ Rewritten(res, res', News')
    <3>1. ctx.hooks - 1 \in Nat
      BY <1>1, <1>6, PredFacts DEF CtxOK
    <3> QED
      BY <1>1, <1>6, <2>1, <3>1, ExecTodo, Untouched, Zenon DEF Grown
  <2> QED
    BY <1>1, <1>2, <1>3, <1>6, <2>2, <2>3, KeptIf, Zenon
<1> QED
  BY <1>4, <1>5, <1>6, Zenon DEF CaughtByStartup, CaughtByNext

\* The steps before the last one.
Serves ==
  \/ Inject \/ UseFilter \/ UseGlobalFilter \/ UseFilterOrder \/ UseGlobalPipe
  \/ Cors \/ CorsAgain \/ BodyParser \/ UseJwt \/ JwtVerify \/ JwtExtraAuth
  \/ Static \/ StaticFile \/ Use
  \/ Match \/ SetParams \/ BlankAction \/ MakeAction \/ Invoke
  \/ RunFilter \/ FiltersDone
  \/ Enter \/ Leave \/ CaughtByStartup \/ PassesThrough \/ CaughtByNext

LEMMA ServesKeeps ==
  ASSUME TInv, Serves
  PROVE  Kept
BY PrepareKeeps, UseJwtKeeps, CorsKeeps, CorsAgainKeeps, BodyParserKeeps, VerifyKeeps, StaticKeeps, UseKeeps,
   MatchKeeps, SetParamsKeeps, BlankActionKeeps, MakeActionKeeps, InvokeKeeps, RunFilterKeeps,
   FiltersDoneKeeps, EnterKeeps, LeaveKeeps, CaughtKeeps, Zenon DEF Serves

LEMMA NextCases ==
  ASSUME [Next]_vars PROVE Serves \/ Finish \/ UNCHANGED vars
BY Zenon DEF Next, Serves, Done, BodyWaits

LEMMA FinishFacts ==
  ASSUME TInv, Finish
  PROVE  /\ TInv' /\ mode' = "done" /\ res' = SetType(res) /\ News' = News /\ Same
         /\ UNCHANGED <<at, ctx, err, again, todo, errors, trail>>
<1>1. /\ mode' = "done" /\ res' = SetType(res) /\ Same
      /\ UNCHANGED <<at, ctx, err, again, todo, errors, trail>>
  BY Zenon DEF Finish, Quiet
<1>2. res' \in Response /\ CtxOK'
  BY <1>1, TFacts, SetTypeTyped, CtxSame, Zenon
<1>3. "done" \in Modes /\ "done" \notin {"invoke", "filters", "act"}
  BY DEF Modes
<1>4. chain' = chain /\ req' = req /\ \E c \in Cases : chain' = c.chain /\ req' = c.req
  BY <1>1, Zenon DEF Same, TInv, TypeOK
<1>5. TypeOK'
  BY <1>1, <1>2, <1>3, <1>4, Zenon DEF TypeOK, TInv, CtxOK
<1>6. Place' /\ ErrKnown' /\ Routed'
  BY <1>1, <1>2, <1>3 DEF Place, ErrKnown, CtxOK, TInv
<1>7. \A e : Noted(e)' <=> Noted(e)
  BY <1>1, Zenon DEF Noted, Wrote
<1>8. \A e : Fixed(e)' <=> Fixed(e)
  BY <1>4, Zenon DEF Fixed, Behind, OriginOf
<1>9. News' = News
  BY <1>7, <1>8 DEF News
<1> QED
  BY <1>1, <1>5, <1>6, <1>9, Zenon DEF TInv

LEMMA TInvInit ==
  ASSUME Init PROVE TInv
<1>1. PICK c \in Cases : chain = c.chain /\ req = c.req
  BY DEF Init
<1>2. CaseAssumption(c.chain, c.req)
  BY <1>1, HttpAssumption, Zenon
<1>3. Len(chain) \in Nat
  BY <1>1, <1>2 DEF CaseAssumption
<1>4. \E k \in Cases : chain = k.chain /\ req = k.req
  BY <1>1
<1>5. CtxOK /\ ctx.made = FALSE
  BY DEF Init, CtxOK, Routed, NewContext, NoRoute
<1>6. NewResponse \in Response
  <2>1. 404 \in Nat /\ << >> \in Seq(Entry)
    OBVIOUS
  <2> QED
    BY <2>1, ConstantsTyped DEF NewResponse, Response
<1>7. Known(err)
  BY ErrorsKnown, Zenon DEF Init
<1>8. TodoOK
  BY DEF Init, TodoOK, Idle
<1>9. trail = << >> /\ errors = << >> /\ again = {} /\ at = 0 /\ mode = "enter" /\ res = NewResponse
  BY DEF Init
<1>10. TypeOK
  <2>1. trail \in Seq(ToSet(trail)) /\ errors \in Seq(Thrown)
    BY <1>9
  <2>2. mode \in Modes /\ at \in 0 .. Len(chain) /\ again \subseteq 1 .. Len(chain)
    BY <1>3, <1>9 DEF Modes
  <2> QED
    BY <1>4, <1>5, <1>6, <1>7, <1>8, <1>9, <2>1, <2>2, Zenon DEF TypeOK, CtxOK, TodoOK, Known
<1>11. Place
  BY <1>9 DEF Place
<1> QED
  BY <1>5, <1>7, <1>10, <1>11, Zenon DEF TInv, ErrKnown, Known, CtxOK

\* Types, and the place of a request.
THEOREM TypesHold == Spec => []TInv
<1>1. Init => TInv
  BY TInvInit
<1>2. TInv /\ [Next]_vars => TInv'
  <2> SUFFICES ASSUME TInv, [Next]_vars PROVE TInv'
    OBVIOUS
  <2>1. CASE Serves
    BY <2>1, ServesKeeps, Zenon DEF Kept
  <2>2. CASE Finish
    BY <2>2, FinishFacts, Zenon
  <2>3. CASE UNCHANGED vars
    BY <2>3 DEF vars, TInv, TypeOK, Place, Routed, ErrKnown, Behind, Asked, Method
  <2> QED
    BY <2>1, <2>2, <2>3, NextCases
<1> QED
  BY <1>1, <1>2, PTL DEF Spec

\* The types, place and reach of every variable (TypeOK).
THEOREM TypeCorrect == Spec => []TypeOK
<1>1. TInv => TypeOK
  BY DEF TInv
<1> QED
  BY <1>1, TypesHold, PTL

-----------------------------------------------------------------------------
(* The headers that leave.                                                 *)

LEMMA SetTypeHeaders ==
  ASSUME NEW r \in Response
  PROVE  LET b == r.body
             h == SetType(r).headers
             length == Pair(ContentLength, LengthOf(b))
             type == Pair(ContentType, <<TypeOf(b)>>)
         IN /\ Falsy(b) => h = RemoveHeader(RemoveHeader(r.headers, ContentType), ContentLength)
            /\ ~Falsy(b) => Written(r.headers, h, {length, type})
            /\ ~Falsy(b) /\ b.t = "stream" => Written(r.headers, h, {type})
            /\ ~Falsy(b) /\ b.t # "stream" /\ HasHeader(r.headers, ContentLength) = 0
                 => KeyOf(h, ContentLength)
<1> DEFINE b == r.body
           length == Pair(ContentLength, LengthOf(b))
           type == Pair(ContentType, <<TypeOf(b)>>)
           noted == HasHeader(r.headers, ContentLength) # 0
           sized == IF b.t = "stream" \/ noted THEN r.headers
                    ELSE SetHeader(r.headers, ContentLength, LengthOf(b))
           set == SetHeader(sized, ContentType, <<TypeOf(b)>>)
           typed == IF HasHeader(r.headers, ContentType) # 0 THEN sized ELSE set
           h == SetType(r).headers
<1>1. r.headers \in Seq(Entry) /\ b \in Bodies /\ ContentType \in Keys /\ ContentLength \in Keys
  BY ResponseFields, ConstantsTyped
<1>2. LengthOf(b) \in Seq(Strings) /\ <<TypeOf(b)>> \in Seq(Strings)
  BY <1>1, BodyTexts, Zenon
<1>3. LengthOf(b) # << >> /\ <<TypeOf(b)>> # << >>
  BY DEF LengthOf
<1>4. /\ Falsy(b) => h = RemoveHeader(RemoveHeader(r.headers, ContentType), ContentLength)
      /\ ~Falsy(b) => h = typed
  BY DEF SetType, Response
<1> HIDE DEF b, h
<1>5. /\ Written(r.headers, sized, {length, type})
      /\ b.t = "stream" => Written(r.headers, sized, {type})
      /\ b.t # "stream" /\ ~noted => KeyOf(sized, ContentLength)
  <2>1. Written(r.headers, r.headers, {length, type}) /\ Written(r.headers, r.headers, {type})
    BY <1>1, WrittenNothing, Zenon
  <2>2. length \in {length, type}
    OBVIOUS
  <2>3. Written(r.headers, SetHeader(r.headers, ContentLength, LengthOf(b)), {length, type})
    BY <1>1, <1>2, <2>2, WrittenOnce, Zenon DEF Pair
  <2>4. KeyOf(SetHeader(r.headers, ContentLength, LengthOf(b)), ContentLength)
    BY <1>1, <1>2, <1>3, SetHeaderWrites, Zenon
  <2> QED
    BY <2>1, <2>3, <2>4, Zenon
<1> HIDE DEF sized
<1>6. /\ Written(sized, set, {length, type}) /\ Written(sized, set, {type})
      /\ Written(sized, sized, {length, type}) /\ Written(sized, sized, {type})
  <2>1. sized \in Seq(Entry)
    BY <1>5 DEF Written
  <2>2. type \in {length, type} /\ type \in {type}
    OBVIOUS
  <2> QED
    BY <1>1, <1>2, <2>1, <2>2, WrittenOnce, WrittenNothing, Zenon DEF Pair
<1> HIDE DEF set
<1>7. /\ Written(sized, typed, {length, type}) /\ Written(sized, typed, {type})
  BY <1>6, Zenon
<1> HIDE DEF typed, length, type
<1>8. /\ Written(r.headers, typed, {length, type})
      /\ b.t = "stream" => Written(r.headers, typed, {type})
  BY <1>1, <1>5, <1>7, WrittenTwice, Zenon
<1>9. b.t # "stream" /\ ~noted => KeyOf(typed, ContentLength)
  BY <1>1, <1>5, <1>7, Zenon DEF Written
<1> QED
  BY <1>4, <1>8, <1>9, Zenon DEF b, h, length, type

\* Before and after #setType.
HeadersOK(r) == r \in Response /\ DistinctKeys(r.headers) /\ ToSet(r.headers) \subseteq News
HInv == IF mode = "done" THEN \E r : HeadersOK(r) /\ res = SetType(r) ELSE HeadersOK(res)

LEMMA ServesIsNotDone ==
  ASSUME TInv, Serves PROVE mode # "done" /\ mode' # "done"
<1>1. mode # "done"
  BY DEF Serves, Inject, UseFilter, UseGlobalFilter, UseFilterOrder, UseGlobalPipe, Running,
     Cors, CorsAgain, BodyParser, UseJwt, JwtVerify, JwtExtraAuth, Static, StaticFile, Use,
     Match, SetParams, BlankAction, MakeAction, ToAction, Invoke, RunFilter, FiltersDone,
     Enter, Leave, CaughtByStartup, PassesThrough, CaughtByNext
<1>2. CASE Inject \/ UseFilter \/ UseGlobalFilter \/ UseFilterOrder \/ UseGlobalPipe
           \/ Cors \/ CorsAgain \/ BodyParser \/ UseJwt \/ JwtVerify \/ JwtExtraAuth
           \/ Static \/ StaticFile \/ Use \/ Match \/ SetParams \/ Leave
  <2>1. CallNext \/ Return \/ \E x : Throw(x)
    BY <1>2, Zenon DEF Inject, UseFilter, UseGlobalFilter, UseFilterOrder, UseGlobalPipe,
       Cors, CorsAgain, BodyParser, UseJwt, JwtVerify, JwtExtraAuth, Static, StaticFile, Use,
       Match, SetParams, Leave
  <2> QED
    BY <1>1, <2>1 DEF CallNext, Return, Throw
<1>3. CASE BlankAction \/ MakeAction \/ Invoke \/ RunFilter \/ FiltersDone
           \/ Enter \/ CaughtByStartup \/ PassesThrough \/ CaughtByNext
  BY <1>1, <1>3 DEF BlankAction, ToAction, MakeAction, Invoke, Invoked, RunFilter, FiltersDone,
     Enter, CaughtByStartup, PassesThrough, CaughtByNext, ThrowOut, Unhandled, Return, Throw
<1> QED
  BY <1>1, <1>2, <1>3, Zenon DEF Serves

LEMMA ServesGrow ==
  ASSUME Serves PROVE Same /\ Grown
<1>1. CASE Inject \/ UseFilter \/ UseGlobalFilter \/ UseFilterOrder \/ UseGlobalPipe
           \/ Cors \/ BlankAction \/ Enter
  BY <1>1, Zenon DEF Inject, UseFilter, UseGlobalFilter, UseFilterOrder, UseGlobalPipe, Cors,
     BlankAction, Enter, Quiet, Grown
<1>2. CASE UseJwt \/ SetParams \/ MakeAction \/ CorsAgain \/ BodyParser \/ JwtVerify \/ JwtExtraAuth \/ Static \/ StaticFile
           \/ Match \/ Invoke
  BY <1>2, Zenon DEF UseJwt, SetParams, MakeAction, CorsAgain, BodyParser, JwtVerify, JwtExtraAuth,
     Static, StaticFile, Match, Invoke, Invoked, Grown
<1>3. CASE Use \/ Leave
  BY <1>3, Zenon DEF Use, Leave, Grown
<1>4. CASE RunFilter
  BY <1>4, Zenon DEF RunFilter, ThrowOut, Unhandled, Grown, Note
<1>5. CASE FiltersDone \/ CaughtByStartup \/ PassesThrough \/ CaughtByNext
  BY <1>5, Zenon DEF FiltersDone, CaughtByStartup, PassesThrough, CaughtByNext,
     ThrowOut, Unhandled, Grown, Note
<1> QED
  BY <1>1, <1>2, <1>3, <1>4, <1>5, Zenon DEF Serves

LEMMA HInvSteps ==
  ASSUME TInv, HInv, [Next]_vars
  PROVE  HInv'
<1>1. CASE Serves
  <2>1. mode # "done" /\ mode' # "done"
    BY <1>1, ServesIsNotDone
  <2>2. HeadersOK(res) /\ res \in Response
    BY <2>1, Zenon DEF HInv, HeadersOK
  <2>3. Rewritten(res, res', News')
    BY <1>1, ServesKeeps, Zenon DEF Kept
  <2>4. News \subseteq News'
    BY <1>1, ServesGrow, NewsStay, Zenon DEF TInv
  <2>5. HeadersOK(res)'
    BY <2>2, <2>3, <2>4, Zenon DEF HeadersOK, Rewritten, Written
  <2> QED
    BY <2>1, <2>5, Zenon DEF HInv
<1>2. CASE Finish
  <2>1. mode' = "done" /\ res' = SetType(res) /\ News' = News
    BY <1>2, FinishFacts
  <2>2. HeadersOK(res) /\ mode # "done"
    BY <1>2 DEF Finish, HInv
  <2> QED
    BY <2>1, <2>2, Zenon DEF HInv, HeadersOK
<1>3. CASE UNCHANGED vars
  BY <1>3 DEF vars, HInv, HeadersOK, News, Fixed, Noted, Wrote, Behind, OriginOf
<1> QED
  BY <1>1, <1>2, <1>3, NextCases

LEMMA OwnNames ==
  ASSUME NEW e \in OwnHeaders
  PROVE  e.key[1] \in {"vary", "access-control-allow-methods", "allow", "content-type", "location"}
BY DEF OwnHeaders, AllowedHeader, Pair, Vary, Allow, ContentType, Location

LEMMA CorsNames ==
  ASSUME NEW v
  PROVE  /\ Pair(Origin, v).key[1] = "access-control-allow-origin"
         /\ Pair(Expose, v).key[1] = "access-control-expose-headers"
BY DEF Origin, Expose, Pair

LEMMA NotedFields ==
  /\ Blank.key[1] = "x" /\ Length.key[1] = "content-length" /\ Length.value # <<"">>
<1>1. Blank.key = <<"x", "X">> /\ Length.key = Stale /\ Length.value = <<"string", "declared">>
  BY DEF Blank, Length, Pair
<1>2. <<"string", "declared">> # <<"">>
  OBVIOUS
<1> QED
  BY <1>1, <1>2 DEF Stale

LEMMA PairFields ==
  ASSUME NEW key, NEW value PROVE Pair(key, value).key = key /\ Pair(key, value).value = value
BY DEF Pair

LEMMA OwnValues ==
  ASSUME NEW e \in OwnHeaders PROVE e.value # <<"">>
<1>1. /\ <<"Origin">> # <<"">> /\ <<"GET", "POST">> # <<"">> /\ <<"GET", "HEAD">> # <<"">>
      /\ <<"file">> # <<"">> /\ <<"here">> # <<"">>
  OBVIOUS
<1>2. /\ Pair(Vary, <<"Origin">>).value # <<"">> /\ Pair(Allow, <<"GET", "POST">>).value # <<"">>
      /\ AllowedHeader.value # <<"">>
      /\ Pair(ContentType, <<"file">>).value # <<"">> /\ Pair(Location, <<"here">>).value # <<"">>
  BY <1>1 DEF AllowedHeader, Pair
<1> QED
  BY <1>2 DEF OwnHeaders

LEMMA LengthNews ==
  ASSUME NoThrownLength, NEW e \in News, e.key[1] = "content-length"
  PROVE  e = Length /\ Wrote("length")
<1>1. CASE Noted(e)
  <2>1. e # Blank
    BY NotedFields
  <2> QED
    BY <1>1, <2>1, Zenon DEF Noted
<1>2. CASE Fixed(e)
  <2>1. e \notin OwnHeaders
    BY OwnNames
  <2>2. \A v : e # Pair(Origin, v) /\ e # Pair(Expose, v)
    BY CorsNames
  <2>3. \A x \in Throws : e \notin ToSet(x.headers)
    BY Zenon DEF NoThrownLength
  <2> QED
    BY <1>2, <2>1, <2>2, <2>3, Zenon DEF Fixed
<1> QED
  BY <1>1, <1>2 DEF News

LEMMA NoHeader ==
  ASSUME NEW dict \in Seq(Entry), NEW key, \A e \in ToSet(dict) : ~SameHeader(e.key, key)
  PROVE  HasHeader(dict, key) = 0 /\ GetHeader(dict, key) = << >>
<1>1. \A j \in DOMAIN dict : ~SameHeader(dict[j].key, key)
  BY Zenon DEF ToSet
<1>2. HasHeader(dict, key) = 0
  BY <1>1, HasHeaderFacts, Zenon
<1> QED
  BY <1>2, Zenon DEF GetHeader

LEMMA OneHeader ==
  ASSUME NEW dict \in Seq(Entry), NEW key, NEW v, KeyOf(dict, key),
         \A e \in ToSet(dict) : SameHeader(e.key, key) => e.value = v
  PROVE  GetHeader(dict, key) = v
<1> DEFINE i == HasHeader(dict, key)
<1>1. PICK j \in DOMAIN dict : dict[j].key = key
  BY Zenon DEF KeyOf, ToSet
<1>2. SameHeader(dict[j].key, key)
  BY <1>1, Zenon DEF SameHeader
<1>3. i \in DOMAIN dict /\ SameHeader(dict[i].key, key)
  BY <1>1, <1>2, HasHeaderFacts, Zenon
<1>4. i # 0
  BY <1>3
<1>5. dict[i].value = v
  BY <1>3, Zenon DEF ToSet
<1> QED
  BY <1>4, <1>5, Zenon DEF GetHeader

LEMMA LengthOfSent ==
  ASSUME TypeOK, HInv, NoThrownLength
  PROVE  LengthFitsBody
<1> SUFFICES ASSUME mode = "done"
             PROVE  LET length == GetHeader(res.headers, ContentLength)
                    IN /\ Falsy(res.body) => length = << >>
                       /\ ~Falsy(res.body) /\ ~Declared =>
                            length = IF res.body.t = "stream" THEN << >> ELSE LengthOf(res.body)
  BY Zenon DEF LengthFitsBody
<1> DEFINE b == res.body
           h == res.headers
           size == Pair(ContentLength, LengthOf(b))
           type == Pair(ContentType, <<TypeOf(b)>>)
<1>1. PICK r : HeadersOK(r) /\ res = SetType(r)
  BY Zenon DEF HInv
<1>2. r \in Response /\ DistinctKeys(r.headers) /\ ToSet(r.headers) \subseteq News
  BY <1>1, Zenon DEF HeadersOK
<1>3. r.body = b /\ r.headers \in Seq(Entry) /\ h \in Seq(Entry)
  BY <1>1, <1>2, SetTypeTyped, ResponseFields
<1>4. /\ Falsy(b) => h = RemoveHeader(RemoveHeader(r.headers, ContentType), ContentLength)
      /\ ~Falsy(b) => Written(r.headers, h, {size, type})
      /\ ~Falsy(b) /\ b.t = "stream" => Written(r.headers, h, {type})
      /\ ~Falsy(b) /\ b.t # "stream" /\ HasHeader(r.headers, ContentLength) = 0 => KeyOf(h, ContentLength)
  BY <1>1, <1>2, <1>3, SetTypeHeaders, Zenon
<1>5. \A e : SameHeader(e.key, ContentLength) <=> e.key[1] = "content-length"
  BY DEF SameHeader, ContentLength
<1>6. size.key[1] = "content-length" /\ size.value = LengthOf(b) /\ type.key[1] = "content-type"
  BY DEF Pair, ContentLength, ContentType
<1>7. \A e \in ToSet(r.headers) : e.key[1] = "content-length" => e = Length /\ Wrote("length")
  BY <1>2, LengthNews
<1> HIDE DEF b, h, size, type
<1>8. CASE Falsy(b)
  <2> DEFINE d == RemoveHeader(r.headers, ContentType)
  <2>1. d \in Seq(Entry) /\ DistinctKeys(d) /\ ToSet(d) \subseteq ToSet(r.headers)
    BY <1>2, <1>3, RemoveHeaderFacts, Zenon
  <2>2. h = RemoveHeader(d, ContentLength)
    BY <1>4, <1>8
  <2> HIDE DEF d
  <2>3. \A e, f \in ToSet(d) : SameHeader(e.key, ContentLength) /\ SameHeader(f.key, ContentLength) => e.key = f.key
    BY <1>5, <1>7, <2>1
  <2>4. \A e \in ToSet(h) : ~SameHeader(e.key, ContentLength)
    BY <2>1, <2>2, <2>3, RemoveHeaderFacts, Zenon
  <2>5. GetHeader(h, ContentLength) = << >>
    BY <1>3, <2>4, NoHeader
  <2> QED
    BY <1>8, <2>5 DEF b, h
<1>9. CASE ~Falsy(b) /\ ~Declared
  <2>1. \A e \in ToSet(r.headers) : e.key[1] # "content-length"
    BY <1>7, <1>9, Zenon DEF Declared
  <2>2. HasHeader(r.headers, ContentLength) = 0
    BY <1>3, <1>5, <2>1, NoHeader
  <2>3. CASE b.t = "stream"
    <3>1. ToSet(h) \subseteq ToSet(r.headers) \cup {type}
      BY <1>4, <1>9, <2>3, Zenon DEF Written
    <3>2. \A e \in ToSet(h) : ~SameHeader(e.key, ContentLength)
      BY <1>5, <1>6, <2>1, <3>1
    <3>3. GetHeader(h, ContentLength) = << >>
      BY <1>3, <3>2, NoHeader
    <3> QED
      BY <1>9, <2>3, <3>3 DEF b, h
  <2>4. CASE b.t # "stream"
    <3>1. ToSet(h) \subseteq ToSet(r.headers) \cup {size, type} /\ KeyOf(h, ContentLength)
      BY <1>4, <1>9, <2>2, <2>4, Zenon DEF Written
    <3>2. \A e \in ToSet(h) : SameHeader(e.key, ContentLength) => e.value = LengthOf(b)
      BY <1>5, <1>6, <2>1, <3>1
    <3>3. GetHeader(h, ContentLength) = LengthOf(b)
      BY <1>3, <3>1, <3>2, OneHeader
    <3> QED
      BY <1>9, <2>4, <3>3 DEF b, h
  <2> QED
    BY <2>3, <2>4
<1> QED
  BY <1>8, <1>9 DEF b, h

LEMMA BlankNews ==
  ASSUME TypeOK, NoBlankHeader, ~Wrote("blank"), NEW e \in News
  PROVE  e.value # <<"">>
<1>1. CASE Noted(e)
  BY <1>1, NotedFields, Zenon DEF Noted
<1>2. CASE e \in OwnHeaders
  BY <1>2, OwnValues, Zenon
<1>3. ASSUME NEW k \in Behind("cors"),
             e = Pair(Origin, OriginOf(chain[k])) \/ e = Pair(Expose, chain[k].expose)
      PROVE  e.value # <<"">>
  <2>1. /\ chain[k].origin # "" /\ chain[k].expose # <<"">>
        /\ chain[k].origin = "reflect" => req.origin # <<"">>
    <3>1. PICK c \in Cases : chain = c.chain /\ req = c.req
      BY Zenon DEF TypeOK
    <3> QED
      BY <3>1, Zenon DEF NoBlankHeader, Behind
  <2>2. OriginOf(chain[k]) # <<"">>
    <3>1. \A v : v # "" => <<v>> # <<"">>
      OBVIOUS
    <3> QED
      BY <2>1, <3>1, Zenon DEF OriginOf
  <2> QED
    <3>1. /\ Pair(Origin, OriginOf(chain[k])).value # <<"">>
          /\ Pair(Expose, chain[k].expose).value # <<"">>
      <4>1. \A v : Pair(Origin, v).value = v /\ Pair(Expose, v).value = v
        BY PairFields
      <4> QED
        BY <2>1, <2>2, <4>1, Zenon
    <3> QED
      BY <1>3, <3>1
<1>4. ASSUME NEW x \in Throws, e \in ToSet(x.headers) PROVE e.value # <<"">>
  BY <1>4, Zenon DEF NoBlankHeader
<1>5. Fixed(e) \/ Noted(e)
  BY DEF News
<1> QED
  BY <1>1, <1>2, <1>3, <1>4, <1>5, Zenon DEF Fixed

LEMMA AnswersAgree ==
  ASSUME TypeOK, HInv, NoBlankHeader
  PROVE  HostsAgree
<1> SUFFICES ASSUME mode = "done", ~Falsy(res.body), res.body.t # "number", ~Broken(res.body)
             PROVE  /\ ~Decoded(res.body) => NativeAnswer(res, req.method)
                                                = Seen(AlifcAnswer(res), Bodiless(res, req.method))
                    /\ ~Wrote("blank") => NativeAnswer(res, req.method)
                                             = Seen(LambdaAnswer(res), Bodiless(res, req.method))
  BY Zenon DEF HostsAgree
<1> DEFINE b == res.body
           h == res.headers
           sent == Wire("sent", res, NonEmpty(h),
                        IF b.t \in {"stream", "buffer", "string"} THEN "raw" ELSE "json", b.v)
           size == Pair(ContentLength, LengthOf(b))
           type == Pair(ContentType, <<TypeOf(b)>>)
<1>1. PICK r : HeadersOK(r) /\ res = SetType(r)
  BY Zenon DEF HInv
<1>2. r \in Response /\ DistinctKeys(r.headers) /\ ToSet(r.headers) \subseteq News
  BY <1>1, Zenon DEF HeadersOK
<1>3. r.body = b /\ b \in Bodies /\ h \in Seq(Entry)
  BY <1>1, <1>2, SetTypeTyped, ResponseFields
<1>10. NativeAnswer(res, req.method) = Seen(sent, Bodiless(res, req.method))
  BY Zenon DEF NativeAnswer
<1>4. ~Decoded(b) => AlifcAnswer(res) = sent
  <2>1. b.t \notin {"stream", "buffer", "string"} <=> ~(b.t \in {"stream", "buffer", "string"})
    OBVIOUS
  <2> QED
    BY <2>1 DEF AlifcAnswer
<1>5. ASSUME ~Wrote("blank") PROVE NonEmpty(h) = DOMAIN h
  <2>1. Written(r.headers, h, {size, type})
    BY <1>1, <1>2, <1>3, SetTypeHeaders, Zenon
  <2>2. ToSet(h) \subseteq ToSet(r.headers) \cup {size, type}
    BY <2>1, Zenon DEF Written
  <2>3. \A e \in ToSet(r.headers) : e.value # <<"">>
    BY <1>2, <1>5, BlankNews, Zenon
  <2>4. size.value # <<"">> /\ type.value # <<"">>
    <3>1. TypeOf(b) # ""
      BY DEF TypeOf
    <3> QED
      BY <3>1 DEF Pair, LengthOf
  <2>5. \A e \in ToSet(h) : e.value # <<"">>
    BY <2>2, <2>3, <2>4, Zenon
  <2> QED
    BY <2>5 DEF NonEmpty, ToSet
<1>6. ASSUME ~Wrote("blank") PROVE LambdaAnswer(res) = sent
  <2>1. NonEmpty(res.headers) = DOMAIN res.headers
    BY <1>5, <1>6
  <2>2. b.t \in {"string", "object", "buffer", "stream"} /\ ~Falsy(b) /\ ~Broken(b)
    BY <1>3 DEF Bodies, Falsy
  <2>3. b.t = "object" <=> b.t \notin {"stream", "buffer", "string"}
    BY <2>2
  <2>4. b.t \notin {"undefined", "null"}
    BY <2>2
  <2> QED
    BY <2>1, <2>2, <2>3, <2>4, Zenon DEF LambdaAnswer
<1> HIDE DEF sent
<1> QED
  BY <1>4, <1>6, <1>10, Zenon DEF b

LEMMA HeadersHold == Spec => [](TInv /\ HInv)
<1>1. Init => HInv
  <2>1. ToSet(NewResponse.headers) = {} /\ DistinctKeys(NewResponse.headers)
    BY DEF NewResponse, ToSet, DistinctKeys
  <2> QED
    BY <2>1, TInvInit, TFacts DEF Init, HInv, HeadersOK
<1>2. TInv /\ HInv /\ [Next]_vars => HInv'
  BY HInvSteps
<1> QED
  BY <1>1, <1>2, TypesHold, PTL DEF Spec

\* The length that leaves is that of the body that leaves (LengthFitsBody).
THEOREM LengthIsRight == ASSUME NoThrownLength PROVE Spec => []LengthFitsBody
<1>1. TInv /\ HInv => LengthFitsBody
  BY LengthOfSent DEF TInv
<1> QED
  BY <1>1, HeadersHold, PTL

\* native, alifc and lambda send the same answer (HostsAgree).
THEOREM SameAnswer == ASSUME NoBlankHeader PROVE Spec => []HostsAgree
<1>1. TInv /\ HInv => HostsAgree
  BY AnswersAgree DEF TInv
<1> QED
  BY <1>1, HeadersHold, PTL

-----------------------------------------------------------------------------
(* The headers of a startup that begins with useCors.                      *)

CorsFirst == chain # << >> /\ chain[1].kind = "cors"
Answered == chain[1].origin # "rejects" /\ (IsPreflight => req.acrm)
Passed == ~(mode = "enter" /\ at = 0) /\ ~(mode = "invoke" /\ at = 1)
Readable(headers) ==
  /\ KeyOf(headers, Vary)
  /\ Answered /\ OriginOf(chain[1]) # << >> => KeyOf(headers, Origin)
OInv == CorsFirst /\ Passed =>
  IF mode = "done" THEN \E r : HeadersOK(r) /\ res = SetType(r) /\ Readable(r.headers)
  ELSE Readable(res.headers)

LEMMA WrittenStays ==
  ASSUME NEW a, NEW b, NEW news, Written(a, b, news), Readable(a)
  PROVE  Readable(b)
BY ConstantsTyped, Zenon DEF Readable, Written

LEMMA FirstSteps ==
  ASSUME TInv, Serves, CorsFirst, ~Passed
  PROVE  (Cors /\ at = 1) \/ ~Passed'
<1>1. Len(chain) \in Nat /\ Len(chain) # 0
  BY ChainFacts DEF TInv, CorsFirst, CaseAssumption
<1>2. CASE mode = "enter" /\ at = 0
  <2>1. chain[at + 1].kind = "cors" /\ at < Len(chain)
    BY <1>1, <1>2 DEF CorsFirst
  <2>2. Enter
    BY <1>2, <2>1 DEF Serves, Inject, UseFilter, UseGlobalFilter, UseFilterOrder, UseGlobalPipe, Running,
       Cors, CorsAgain, BodyParser, UseJwt, JwtVerify, JwtExtraAuth, Static, StaticFile, Use,
       Match, SetParams, BlankAction, MakeAction, ToAction, Invoke, RunFilter, FiltersDone,
       Enter, Leave, CaughtByStartup, PassesThrough, CaughtByNext
  <2>3. mode' = "invoke" /\ at' = 1
    BY <1>1, <1>2, <2>1, <2>2 DEF Enter
  <2> QED
    BY <2>3 DEF Passed
<1>3. CASE mode = "invoke" /\ at = 1
  <2>1. Item.kind = "cors"
    BY <1>3 DEF CorsFirst, Item
  <2>2. Cors
    BY <1>3, <2>1 DEF Serves, Inject, UseFilter, UseGlobalFilter, UseFilterOrder, UseGlobalPipe, Running,
       Cors, CorsAgain, BodyParser, UseJwt, JwtVerify, JwtExtraAuth, Static, StaticFile, Use,
       Match, SetParams, BlankAction, MakeAction, ToAction, Invoke, RunFilter, FiltersDone,
       Enter, Leave, CaughtByStartup, PassesThrough, CaughtByNext
  <2> QED
    BY <1>3, <2>2
<1> QED
  BY <1>2, <1>3 DEF Passed

LEMMA CorsWrites ==
  ASSUME TInv, CorsFirst, Cors, at = 1
  PROVE  Readable(res'.headers)
<1> DEFINE varied == SetHeader(res.headers, Vary, <<"Origin">>)
           fullHeaders == CorsHeaders(varied)
           full == [res EXCEPT !.headers = fullHeaders]
<1>1. at \in Behind("cors") /\ TypeOK /\ res \in Response
  BY ChainFacts, TFacts DEF Behind, CorsFirst, TInv, CaseAssumption
<1>2. /\ Written(res.headers, varied, FixedNews) /\ Written(varied, fullHeaders, FixedNews)
      /\ KeyOf(varied, Vary)
      /\ OriginOf(Item) # << >> => KeyOf(fullHeaders, Origin)
  BY <1>1, CorsFacts, Zenon
<1>3. Item = chain[1]
  BY DEF Item
<1>4. \/ ~Answered /\ res' = [res EXCEPT !.headers = varied]
      \/ res' = NoContent(full)
      \/ res' = full
  BY <1>3, Zenon DEF Cors, Answered
<1> HIDE DEF varied, fullHeaders
<1>5. KeyOf(fullHeaders, Vary) /\ KeyOf(varied, Vary) /\ (OriginOf(chain[1]) # << >> => KeyOf(fullHeaders, Origin))
  BY <1>2, <1>3, ConstantsTyped, Zenon DEF Written
<1>6. Readable(fullHeaders) /\ (~Answered => Readable(varied))
  BY <1>5, Zenon DEF Readable
<1>7. /\ full \in Response /\ full.headers = fullHeaders
      /\ [res EXCEPT !.headers = varied].headers = varied
  <2>1. res.headers \in Seq(Entry)
    BY <1>1, ResponseFields
  <2>2. Written(res.headers, fullHeaders, FixedNews)
    BY <1>2, <2>1, WrittenTwice
  <2> QED
    BY <1>1, <1>2, <2>2, RewriteHeaders DEF Rewritten
<1> HIDE DEF full
<1>8. Readable(NoContent(full).headers)
  <2>1. Rewritten(full, NoContent(full), {})
    BY <1>7, NoContentFacts
  <2> QED
    BY <1>6, <1>7, <2>1, WrittenStays, Zenon DEF Rewritten
<1> QED
  BY <1>4, <1>6, <1>7, <1>8, Zenon

LEMMA OInvSteps ==
  ASSUME TInv, HInv, OInv, [Next]_vars
  PROVE  OInv'
<1>1. CASE Serves
  <2> SUFFICES ASSUME CorsFirst', Passed'
               PROVE  Readable(res.headers)'
    BY <1>1, ServesIsNotDone, Zenon DEF OInv
  <2>1. chain' = chain /\ req' = req /\ Same
    BY <1>1, ServesGrow DEF Same
  <2>2. CorsFirst
    BY <2>1 DEF CorsFirst
  <2>3. ASSUME Readable(res'.headers) PROVE Readable(res.headers)'
    BY <2>1, <2>3, Zenon DEF Readable, Answered, OriginOf, IsPreflight, Method
  <2>4. CASE Passed
    <3>1. Readable(res.headers)
      BY <1>1, <2>2, <2>4, ServesIsNotDone, Zenon DEF OInv
    <3>2. Rewritten(res, res', News')
      BY <1>1, ServesKeeps, Zenon DEF Kept
    <3> QED
      BY <2>3, <3>1, <3>2, WrittenStays, Zenon DEF Rewritten
  <2>5. CASE ~Passed
    BY <1>1, <2>2, <2>3, <2>5, FirstSteps, CorsWrites, Zenon
  <2> QED
    BY <2>4, <2>5
<1>2. CASE Finish
  <2> SUFFICES ASSUME CorsFirst'
               PROVE  (\E r : HeadersOK(r) /\ res = SetType(r) /\ Readable(r.headers))'
    BY <1>2, FinishFacts, Zenon DEF OInv
  <2>1. mode = "leave" /\ mode' = "done" /\ res' = SetType(res) /\ chain' = chain /\ req' = req /\ News' = News
    BY <1>2, FinishFacts DEF Finish, Same
  <2>2. CorsFirst /\ Passed /\ mode # "done"
    BY <2>1 DEF CorsFirst, Passed
  <2>3. Readable(res.headers) /\ HeadersOK(res)
    BY <2>2, Zenon DEF OInv, HInv
  <2>4. \A h : Readable(h) => Readable(h)'
    BY <2>1, Zenon DEF Readable, Answered, OriginOf, IsPreflight, Method
  <2> QED
    BY <2>1, <2>3, <2>4, Zenon DEF HeadersOK
<1>3. CASE UNCHANGED vars
  BY <1>3 DEF vars, OInv, HeadersOK, News, Fixed, Noted, Wrote, Behind, OriginOf, CorsFirst, Passed,
     Readable, Answered, IsPreflight, Method
<1> QED
  BY <1>1, <1>2, <1>3, NextCases

LEMMA RemovedOther ==
  ASSUME NEW dict \in Seq(Entry), NEW key, NEW other, KeyOf(dict, other), ~SameHeader(other, key)
  PROVE  KeyOf(RemoveHeader(dict, key), other)
<1>1. PICK e \in ToSet(dict) : e.key = other
  BY Zenon DEF KeyOf
<1>2. e \in ToSet(RemoveHeader(dict, key))
  BY <1>1, RemoveHeaderFacts, Zenon
<1> QED
  BY <1>1, <1>2, Zenon DEF KeyOf

\* #setType removes and adds other headers.
LEMMA SentKeys ==
  ASSUME NEW r \in Response, NEW key \in {Vary, Origin}, KeyOf(r.headers, key)
  PROVE  KeyOf(SetType(r).headers, key)
<1> DEFINE d == RemoveHeader(r.headers, ContentType)
<1>1. r.headers \in Seq(Entry) /\ key \in Keys
  BY ResponseFields, ConstantsTyped
<1>2. ~SameHeader(key, ContentType) /\ ~SameHeader(key, ContentLength)
  BY DEF SameHeader, ContentType, ContentLength, Vary, Origin
<1>3. d \in Seq(Entry) /\ KeyOf(d, key)
  BY <1>1, <1>2, RemoveHeaderFacts, RemovedOther, Zenon
<1>4. CASE Falsy(r.body)
  <2>1. SetType(r).headers = RemoveHeader(d, ContentLength)
    BY <1>4, SetTypeHeaders, Zenon
  <2> HIDE DEF d
  <2> QED
    BY <1>2, <1>3, <2>1, RemovedOther, Zenon
<1>5. CASE ~Falsy(r.body)
  <2>1. Written(r.headers, SetType(r).headers,
          {Pair(ContentLength, LengthOf(r.body)), Pair(ContentType, <<TypeOf(r.body)>>)})
    BY <1>5, SetTypeHeaders, Zenon
  <2> QED
    BY <1>1, <2>1, Zenon DEF Written
<1> QED
  BY <1>4, <1>5

LEMMA SentEntries ==
  ASSUME NEW r \in Response, NEW e \in ToSet(SetType(r).headers), NEW key \in {Vary, Origin},
         SameHeader(e.key, key)
  PROVE  e \in ToSet(r.headers)
<1>1. r.headers \in Seq(Entry)
  BY ResponseFields
<1>2. CASE Falsy(r.body)
  <2> DEFINE d == RemoveHeader(r.headers, ContentType)
  <2>1. SetType(r).headers = RemoveHeader(d, ContentLength)
    BY <1>2, SetTypeHeaders, Zenon
  <2>2. d \in Seq(Entry) /\ ToSet(d) \subseteq ToSet(r.headers)
    BY <1>1, RemoveHeaderFacts, Zenon
  <2> HIDE DEF d
  <2>3. ToSet(RemoveHeader(d, ContentLength)) \subseteq ToSet(d)
    BY <2>2, RemoveHeaderFacts, Zenon
  <2> QED
    BY <2>1, <2>2, <2>3, Zenon
<1>3. CASE ~Falsy(r.body)
  <2> DEFINE a == Pair(ContentLength, LengthOf(r.body))
             b == Pair(ContentType, <<TypeOf(r.body)>>)
  <2>1. Written(r.headers, SetType(r).headers, {a, b})
    BY <1>3, SetTypeHeaders, Zenon
  <2>2. a.key = ContentLength /\ b.key = ContentType
    BY PairFields
  <2>3. ~SameHeader(ContentLength, key) /\ ~SameHeader(ContentType, key)
    BY DEF SameHeader, ContentType, ContentLength, Vary, Origin
  <2> HIDE DEF a, b
  <2>4. e # a /\ e # b
    BY <2>2, <2>3, Zenon
  <2>5. e \in ToSet(r.headers) \cup {a, b}
    BY <2>1, Zenon DEF Written
  <2> QED
    BY <2>4, <2>5
<1> QED
  BY <1>2, <1>3

LEMMA OriginNews ==
  ASSUME TypeOK, CorsFirst, NoThrownOrigin, OneCors, NEW e \in News
  PROVE  /\ SameHeader(e.key, Vary) => e.value = <<"Origin">>
         /\ SameHeader(e.key, Origin) => e.value = OriginOf(chain[1])
<1>1. /\ SameHeader(e.key, Vary) <=> e.key[1] = "vary"
      /\ SameHeader(e.key, Origin) <=> e.key[1] = "access-control-allow-origin"
  BY DEF SameHeader, Vary, Origin
<1>2. CASE Noted(e)
  <2>1. e.key[1] \in {"x", "content-length"}
    BY <1>2, NotedFields DEF Noted
  <2> QED
    BY <1>1, <2>1
<1>3. CASE e \in OwnHeaders
  <2>1. CASE e = Pair(Vary, <<"Origin">>)
    <3>1. e.value = <<"Origin">> /\ e.key = Vary
      BY <2>1, PairFields, Zenon
    <3>2. e.key[1] # "access-control-allow-origin"
      BY <3>1 DEF Vary
    <3> QED
      BY <1>1, <3>1, <3>2
  <2>2. CASE e # Pair(Vary, <<"Origin">>)
    <3>1. e.key[1] \in {"access-control-allow-methods", "allow", "content-type", "location"}
      BY <1>3, <2>2 DEF OwnHeaders, AllowedHeader, Pair, Allow, ContentType, Location
    <3> QED
      BY <1>1, <3>1
  <2> QED
    BY <2>1, <2>2
<1>4. ASSUME NEW k \in Behind("cors"), e = Pair(Origin, OriginOf(chain[k]))
      PROVE  /\ e.key[1] # "vary" /\ e.value = OriginOf(chain[1])
  <2>1. k = 1
    <3>1. PICK c \in Cases : chain = c.chain /\ req = c.req
      BY Zenon DEF TypeOK
    <3>2. 1 \in DOMAIN chain /\ chain[1].kind = "cors"
      BY ChainFacts DEF CorsFirst
    <3>3. k \in DOMAIN chain /\ chain[k].kind = "cors"
      BY Zenon DEF Behind
    <3> QED
      BY <3>1, <3>2, <3>3, Zenon DEF OneCors
  <2>2. e.key[1] = "access-control-allow-origin"
    BY <1>4, CorsNames
  <2>3. e.value = OriginOf(chain[k])
    BY <1>4, PairFields, Zenon
  <2> QED
    BY <2>1, <2>2, <2>3
<1>5. ASSUME NEW k \in Behind("cors"), e = Pair(Expose, chain[k].expose)
      PROVE  e.key[1] = "access-control-expose-headers"
  BY <1>5, CorsNames
<1>6. ASSUME NEW x \in Throws, e \in ToSet(x.headers)
      PROVE  e.key[1] \notin {"vary", "access-control-allow-origin"}
  BY <1>6, Zenon DEF NoThrownOrigin
<1>7. CASE \E k \in Behind("cors") : e = Pair(Origin, OriginOf(chain[k]))
  BY <1>1, <1>4, <1>7
<1>8. CASE \E k \in Behind("cors") : e = Pair(Expose, chain[k].expose)
  BY <1>1, <1>5, <1>8
<1>9. CASE \E x \in Throws : e \in ToSet(x.headers)
  BY <1>1, <1>6, <1>9
<1>10. Fixed(e) \/ Noted(e)
  BY DEF News
<1> QED
  BY <1>2, <1>3, <1>7, <1>8, <1>9, <1>10, Zenon DEF Fixed

LEMMA OriginOfSent ==
  ASSUME TypeOK, OInv, NoThrownOrigin, OneCors
  PROVE  OriginOnEveryAnswer
<1> SUFFICES ASSUME mode = "done", CorsFirst
             PROVE  /\ GetHeader(res.headers, Vary) = <<"Origin">>
                    /\ Answered => GetHeader(res.headers, Origin) = OriginOf(chain[1])
  BY Zenon DEF OriginOnEveryAnswer, CorsFirst, Answered, OriginOf
<1>1. Passed
  BY DEF Passed
<1>2. PICK r : HeadersOK(r) /\ res = SetType(r) /\ Readable(r.headers)
  BY <1>1, Zenon DEF OInv
<1>3. r \in Response /\ ToSet(r.headers) \subseteq News
  BY <1>2, Zenon DEF HeadersOK
<1>4. res.headers \in Seq(Entry) /\ r.headers \in Seq(Entry)
  BY <1>2, <1>3, SetTypeTyped, ResponseFields, Zenon
<1>5. /\ \A e \in ToSet(res.headers) : SameHeader(e.key, Vary) => e.value = <<"Origin">>
      /\ \A e \in ToSet(res.headers) : SameHeader(e.key, Origin) => e.value = OriginOf(chain[1])
  <2>1. Vary \in {Vary, Origin} /\ Origin \in {Vary, Origin}
    OBVIOUS
  <2> QED
    BY <1>2, <1>3, <2>1, SentEntries, OriginNews, Zenon
<1>6. KeyOf(r.headers, Vary) /\ (Answered /\ OriginOf(chain[1]) # << >> => KeyOf(r.headers, Origin))
  BY <1>2, Zenon DEF Readable
<1>7. KeyOf(res.headers, Vary) /\ (Answered /\ OriginOf(chain[1]) # << >> => KeyOf(res.headers, Origin))
  <2>1. Vary \in {Vary, Origin} /\ Origin \in {Vary, Origin}
    OBVIOUS
  <2> QED
    BY <1>2, <1>3, <1>6, <2>1, SentKeys, Zenon
<1>8. GetHeader(res.headers, Vary) = <<"Origin">>
  BY <1>4, <1>5, <1>7, OneHeader, Zenon
<1>9. CASE Answered /\ OriginOf(chain[1]) # << >>
  BY <1>4, <1>5, <1>7, <1>8, <1>9, OneHeader, Zenon
<1>10. CASE OriginOf(chain[1]) = << >>
  <2>1. CASE KeyOf(res.headers, Origin)
    BY <1>4, <1>5, <1>8, <2>1, OneHeader, Zenon
  <2>2. CASE HasHeader(res.headers, Origin) = 0
    BY <1>8, <1>10, <2>2, Zenon DEF GetHeader
  <2>3. CASE HasHeader(res.headers, Origin) # 0
    <3> DEFINE i == HasHeader(res.headers, Origin)
    <3>1. i \in DOMAIN res.headers /\ SameHeader(res.headers[i].key, Origin)
      BY <1>4, <2>3, HasHeaderFacts, Zenon
    <3>2. res.headers[i].value = OriginOf(chain[1])
      BY <1>5, <3>1, Zenon DEF ToSet
    <3> QED
      BY <1>8, <2>3, <3>2, Zenon DEF GetHeader
  <2> QED
    BY <2>2, <2>3
<1> QED
  BY <1>8, <1>9, <1>10

LEMMA OriginHolds == Spec => []OInv
<1>1. Init => OInv
  BY DEF Init, OInv, Passed
<1>2. TInv /\ HInv /\ OInv /\ [Next]_vars => OInv'
  BY OInvSteps
<1> QED
  BY <1>1, <1>2, HeadersHold, PTL DEF Spec

\* The headers of useCors are on every answer (OriginOnEveryAnswer).
THEOREM OriginIsSent ==
  ASSUME NoThrownOrigin, OneCors PROVE Spec => []OriginOnEveryAnswer
<1>1. TInv /\ OInv => OriginOnEveryAnswer
  BY OriginOfSent DEF TInv
<1> QED
  BY <1>1, TypesHold, OriginHolds, PTL

-----------------------------------------------------------------------------
(* The last error the client is told of.                                   *)

\* A step that writes to the response tells the trail, but for the answer to
\* a preflight on the way in, behind which nothing was told.
Untold == ~\E i \in DOMAIN trail : trail[i].e = "told"
Shows(e) == /\ e \in {"wrote", "refused", "act"} /\ \E fn, by : Note(e, fn, by)
Silent ==
  /\ res'.status = res.status /\ res'.body = res.body /\ errors' = errors
  /\ trail' = trail \/ \E e \in {"threw", "filter", "handled"} : \E fn, by : Note(e, fn, by)
FInv ==
  /\ IsPreflight /\ mode \in {"enter", "invoke"} => Untold
  /\ ToldLast => /\ errors # << >> /\ res.status = Told(Last(errors)).status
                 /\ res.body = Body("object", "error")

LEMMA TrailFacts ==
  ASSUME TypeOK, NEW e, NEW fn, NEW by, Note(e, fn, by)
  PROVE  /\ DOMAIN trail = 1 .. Len(trail) /\ Len(trail) \in Nat /\ Len(trail') = Len(trail) + 1
         /\ DOMAIN trail' = 1 .. Len(trail) + 1
         /\ \A i \in 1 .. Len(trail) : trail'[i] = trail[i]
         /\ trail'[Len(trail) + 1] = Event(e, fn, by)
         /\ trail'[Len(trail) + 1].e = e
<1> DEFINE x == Event(e, fn, by)
<1>1. trail \in Seq(ToSet(trail) \cup {x}) /\ trail' = Append(trail, x)
  <2> HIDE DEF x
  <2>1. trail \in Seq(ToSet(trail))
    BY Zenon DEF TypeOK
  <2>2. trail \in Seq(ToSet(trail) \cup {x})
    BY <2>1
  <2> QED
    BY <2>2, Zenon DEF Note, x
<1>2. x.e = e
  BY DEF Event
<1> HIDE DEF x
<1>3. /\ DOMAIN trail = 1 .. Len(trail) /\ Len(trail) \in Nat /\ Len(trail') = Len(trail) + 1
      /\ DOMAIN trail' = 1 .. Len(trail) + 1
      /\ \A i \in 1 .. Len(trail) : trail'[i] = trail[i]
      /\ trail'[Len(trail) + 1] = x
  BY <1>1
<1> QED
  BY <1>2, <1>3 DEF x

LEMMA ToldGrows ==
  ASSUME TypeOK, NEW e, NEW fn, NEW by, Note(e, fn, by)
  PROVE  /\ e \in {"wrote", "refused", "act"} => ~ToldLast'
         /\ e \in {"threw", "filter", "handled"} => (ToldLast' => ToldLast)
         /\ e # "told" => (Untold => Untold')
<1> DEFINE n == Len(trail)
<1>1. /\ DOMAIN trail = 1 .. n /\ n \in Nat /\ Len(trail') = n + 1 /\ DOMAIN trail' = 1 .. n + 1
      /\ \A i \in 1 .. n : trail'[i] = trail[i]
      /\ trail'[n + 1].e = e
  BY TrailFacts
<1>0. n \in Nat
  BY <1>1
<1> HIDE DEF n
<1>2. ASSUME e # "told", ToldLast'
      PROVE  \E i \in 1 .. n : trail[i].e = "told" /\ \A j \in i + 1 .. n + 1 :
               trail'[j].e \notin {"wrote", "refused", "act"}
  <2>1. PICK i \in 1 .. n + 1 : /\ trail'[i].e = "told"
                                /\ \A j \in i + 1 .. n + 1 : trail'[j].e \notin {"wrote", "refused", "act"}
    BY <1>1, <1>2, Zenon DEF ToldLast
  <2>2. i # n + 1
    BY <1>1, <1>2, <2>1
  <2>3. i \in 1 .. n
    BY <1>0, <2>1, <2>2
  <2> QED
    BY <1>1, <2>1, <2>3
<1>3. e \in {"wrote", "refused", "act"} => ~ToldLast'
  <2> SUFFICES ASSUME e \in {"wrote", "refused", "act"}, ToldLast' PROVE FALSE
    OBVIOUS
  <2>1. e # "told"
    OBVIOUS
  <2>2. PICK i \in 1 .. n : \A j \in i + 1 .. n + 1 : trail'[j].e \notin {"wrote", "refused", "act"}
    BY <1>2, <2>1
  <2>3. n + 1 \in i + 1 .. n + 1
    BY <1>0
  <2> QED
    BY <1>1, <2>2, <2>3
<1>4. e \in {"threw", "filter", "handled"} => (ToldLast' => ToldLast)
  <2> SUFFICES ASSUME e \in {"threw", "filter", "handled"}, ToldLast' PROVE ToldLast
    OBVIOUS
  <2>1. e # "told"
    OBVIOUS
  <2>2. PICK i \in 1 .. n : trail[i].e = "told" /\ \A j \in i + 1 .. n + 1 :
               trail'[j].e \notin {"wrote", "refused", "act"}
    BY <1>2, <2>1
  <2>3. \A j \in i + 1 .. n : trail[j].e \notin {"wrote", "refused", "act"}
    <3> SUFFICES ASSUME NEW j \in i + 1 .. n PROVE trail[j].e \notin {"wrote", "refused", "act"}
      OBVIOUS
    <3>1. j \in i + 1 .. n + 1 /\ j \in 1 .. n
      BY <1>0
    <3> QED
      BY <1>1, <2>2, <3>1
  <2> QED
    BY <1>1, <2>2, <2>3 DEF ToldLast, n
<1>5. e # "told" => (Untold => Untold')
  <2> SUFFICES ASSUME e # "told", Untold, NEW i \in DOMAIN trail', trail'[i].e = "told" PROVE FALSE
    BY Zenon DEF Untold
  <2>1. i \in 1 .. n
    <3>1. i \in 1 .. n + 1 /\ i # n + 1
      BY <1>1
    <3> QED
      BY <1>0, <3>1
  <2> QED
    BY <1>1, <2>1 DEF Untold
<1> QED
  BY <1>3, <1>4, <1>5

\* What a step does to the response and the errors.
LEMMA UnhandledTold ==
  ASSUME TInv, Same, Unhandled, FInv
  PROVE  FInv'
<1>1. /\ res'.status = Told(err).status /\ res'.body = Body("object", "error") /\ mode' = "leave"
  BY UnhandledFacts
<1>2. /\ errors' = CatchErrors(errors, err) /\ errors \in Seq(Thrown) /\ err \in Thrown
      /\ InternalServerError \in Thrown
  BY TFacts, ToldFacts, Zenon DEF Unhandled, CatchError, Known
<1>3. errors' # << >> /\ Last(errors') = err
  BY <1>2 DEF CatchErrors, Last
<1> QED
  BY <1>1, <1>3 DEF FInv

LEMMA Kinds ==
  ASSUME TInv, Serves
  PROVE  \/ Unhandled
         \/ \E e : Shows(e)
         \/ Silent
         \/ Cors /\ IsPreflight
<1>1. CASE Inject \/ UseFilter \/ UseGlobalFilter \/ UseFilterOrder \/ UseGlobalPipe
           \/ UseJwt \/ SetParams \/ BlankAction \/ Enter
  BY <1>1, Zenon DEF Inject, UseFilter, UseGlobalFilter, UseFilterOrder, UseGlobalPipe,
     UseJwt, SetParams, BlankAction, Enter, Quiet, Silent
<1>2. CASE Cors
  <2>1. CASE ~IsPreflight
    <3>1. (\E h : res' = [res EXCEPT !.headers = h]) /\ errors' = errors /\ trail' = trail
      BY <1>2, <2>1, Zenon DEF Cors
    <3>2. res'.status = res.status /\ res'.body = res.body
      BY <3>1, TFacts DEF Response
    <3> QED
      BY <3>1, <3>2, Zenon DEF Silent
  <2> QED
    BY <1>2, <2>1
<1>3. CASE CorsAgain
  BY <1>3, Zenon DEF CorsAgain, Shows, Silent
<1>4. CASE BodyParser \/ JwtVerify \/ JwtExtraAuth \/ Static \/ StaticFile \/ Match \/ Invoke
  BY <1>4, Zenon DEF BodyParser, JwtVerify, JwtExtraAuth, Static, StaticFile, Match, Invoke, Invoked, Shows, Silent
<1>5. CASE Use \/ Leave
  <2>1. Effect("none") = res
    BY DEF Effect
  <2> QED
    BY <1>5, <2>1, Zenon DEF Use, Leave, Shows, Silent
<1>6. CASE MakeAction
  BY <1>6, Zenon DEF MakeAction, Silent
<1>7. CASE FiltersDone \/ CaughtByStartup \/ CaughtByNext
  BY <1>7, Zenon DEF FiltersDone, CaughtByStartup, CaughtByNext, Shows, Silent
<1>8. ASSUME NEW e, NEW fn, NEW by, NEW x, ThrowOut(x, Append(trail, Event("threw", fn, by)))
      PROVE  (\E s : Shows(s)) \/ Silent
  BY <1>8, Zenon DEF ThrowOut, Shows, Silent, Note
<1>9. CASE PassesThrough
  <2>1. CASE err.class = "primitive"
    BY <1>8, <1>9, <2>1, Zenon DEF PassesThrough
  <2>2. CASE err.class # "primitive"
    BY <1>9, <2>2, Zenon DEF PassesThrough, ThrowOut, Shows, Silent
  <2> QED
    BY <2>1, <2>2
<1>10. CASE RunFilter
  <2> DEFINE f == Head(todo.queue)
             threw == Append(trail, Event("threw", todo.fn, f))
  <2>1. \/ \E x : ThrowOut(x, threw)
        \/ trail' = threw /\ UNCHANGED <<res, errors>>
        \/ UNCHANGED <<res, errors, trail>>
        \/ Unhandled
        \/ UNCHANGED <<res, errors>> /\ Note("filter", todo.fn, f)
        \/ Note("refused", todo.fn, f)
    BY <1>10, Zenon DEF RunFilter
  <2> QED
    BY <1>8, <2>1, Zenon DEF Shows, Silent, Note
<1> QED
  BY <1>1, <1>2, <1>3, <1>4, <1>5, <1>6, <1>7, <1>9, <1>10, Zenon DEF Serves

\* Into the chain go the steps on the way in, and CorsAgain of a request that
\* is no preflight.
LEMMA GoesIn ==
  ASSUME TInv, Serves, mode' \in {"enter", "invoke"}
  PROVE  \/ mode \in {"enter", "invoke"} /\ ~Unhandled
         \/ mode = "leave" /\ CorsAgain /\ ~IsPreflight
<1>1. ~Unhandled
  BY DEF Unhandled
<1>2. CASE Inject \/ UseFilter \/ UseGlobalFilter \/ UseFilterOrder \/ UseGlobalPipe \/ Cors
           \/ BodyParser \/ UseJwt \/ JwtVerify \/ JwtExtraAuth \/ Static \/ StaticFile \/ Use
           \/ Match \/ SetParams \/ BlankAction \/ MakeAction \/ Enter
  <2>1. mode \in {"enter", "invoke"}
    BY <1>2 DEF Inject, UseFilter, UseGlobalFilter, UseFilterOrder, UseGlobalPipe, Running,
       Cors, BodyParser, UseJwt, JwtVerify, JwtExtraAuth, Static, StaticFile, Use,
       Match, SetParams, BlankAction, MakeAction, ToAction, Enter
  <2> QED
    BY <1>1, <2>1
<1>3. CASE CorsAgain
  BY <1>3 DEF CorsAgain, Return
<1>4. CASE Invoke \/ RunFilter \/ FiltersDone \/ Leave \/ CaughtByStartup \/ PassesThrough \/ CaughtByNext
  BY <1>4 DEF Invoke, Invoked, RunFilter, FiltersDone, Leave, CaughtByStartup, PassesThrough,
     CaughtByNext, ThrowOut, Unhandled, Return, Throw
<1> QED
  BY <1>2, <1>3, <1>4, Zenon DEF Serves

LEMMA FInvSteps ==
  ASSUME TInv, FInv, [Next]_vars
  PROVE  FInv'
<1>1. CASE Serves
  <2>1. TypeOK /\ Same /\ Grown /\ IsPreflight' = IsPreflight
    BY <1>1, ServesGrow, Zenon DEF TInv, IsPreflight, Method, Same
  <2>2. ASSUME ~Unhandled, ~(Cors /\ IsPreflight)
        PROVE  /\ ToldLast' => ToldLast /\ Silent
               /\ Untold => Untold'
    <3>1. CASE \E e : Shows(e)
      <4>1. PICK e \in {"wrote", "refused", "act"} : \E fn, by : Note(e, fn, by)
        BY <3>1, Zenon DEF Shows
      <4>2. e # "told"
        BY <4>1
      <4> QED
        BY <2>1, <4>1, <4>2, ToldGrows, Zenon
    <3>2. CASE Silent
      <4>1. CASE trail' = trail
        BY <3>2, <4>1 DEF ToldLast, Untold
      <4>2. CASE \E e \in {"threw", "filter", "handled"} : \E fn, by : Note(e, fn, by)
        <5>1. PICK e \in {"threw", "filter", "handled"} : \E fn, by : Note(e, fn, by)
          BY <4>2, Zenon
        <5>2. e # "told"
          BY <5>1
        <5> QED
          BY <2>1, <3>2, <5>1, <5>2, ToldGrows, Zenon
      <4> QED
        BY <3>2, <4>1, <4>2, Zenon DEF Silent
    <3> QED
      BY <1>1, <2>2, <3>1, <3>2, Kinds
  <2>3. CASE Unhandled
    BY <2>1, <2>3, UnhandledTold
  <2>4. CASE Cors /\ IsPreflight
    <3>1. mode = "invoke" /\ trail' = trail
      BY <2>4, Zenon DEF Cors, Running
    <3>2. Untold
      BY <2>4, <3>1 DEF FInv
    <3>3. Untold' /\ ~ToldLast'
      BY <3>1, <3>2 DEF Untold, ToldLast
    <3> QED
      BY <3>3, Zenon DEF FInv
  <2>5. CASE ~Unhandled /\ ~(Cors /\ IsPreflight)
    <3>1. (ToldLast' => ToldLast /\ Silent) /\ (Untold => Untold')
      BY <2>2, <2>5
    <3>2. ASSUME IsPreflight', mode' \in {"enter", "invoke"} PROVE Untold'
      BY <1>1, <2>1, <3>1, <3>2, GoesIn, Zenon DEF FInv
    <3>3. ASSUME ToldLast'
          PROVE  /\ errors' # << >> /\ res'.status = Told(Last(errors')).status
                 /\ res'.body = Body("object", "error")
      <4>1. ToldLast /\ Silent
        BY <3>1, <3>3
      <4>2. errors' = errors /\ res'.status = res.status /\ res'.body = res.body
        BY <4>1, Zenon DEF Silent
      <4> QED
        BY <4>1, <4>2, Zenon DEF FInv
    <3> QED
      BY <3>2, <3>3, Zenon DEF FInv
  <2> QED
    BY <2>3, <2>4, <2>5
<1>2. CASE Finish
  <2>1. /\ mode' = "done" /\ errors' = errors /\ trail' = trail
        /\ res'.status = res.status /\ res'.body = res.body
    BY <1>2, FinishFacts, TFacts, SetTypeTyped
  <2>2. ToldLast' <=> ToldLast
    BY <2>1 DEF ToldLast
  <2>3. mode' \notin {"enter", "invoke"}
    BY <2>1
  <2> QED
    BY <2>1, <2>2, <2>3, Zenon DEF FInv
<1>3. CASE UNCHANGED vars
  BY <1>3 DEF vars, FInv, Untold, ToldLast, IsPreflight, Method
<1> QED
  BY <1>1, <1>2, <1>3, NextCases

\* The client is told the last error nobody handled (FailureIsTold).
THEOREM ErrorIsTold == Spec => []FailureIsTold
<1>1. Init => FInv
  BY DEF Init, FInv, Untold, ToldLast
<1>2. TInv /\ FInv /\ [Next]_vars => FInv'
  BY FInvSteps
<1>3. FInv => FailureIsTold
  BY Zenon DEF FInv, FailureIsTold
<1> QED
  BY <1>1, <1>2, <1>3, TypesHold, PTL DEF Spec

-----------------------------------------------------------------------------
(* The route and its parameters.                                           *)

LEMMA GreatestExists ==
  ASSUME NEW n \in Nat, NEW S \in SUBSET (1 .. n), S # {}
  PROVE  \E m \in S : \A x \in S : x <= m
<1> DEFINE U == {b \in Nat : \A x \in S : x <= b}
<1>1. n \in U
  OBVIOUS
<1>2. U \in SUBSET Nat /\ U # {}
  BY <1>1
<1> HIDE DEF U
<1>3. PICK m \in U : \A b \in U : m <= b
  BY <1>2, LeastExists
<1>4. m \in Nat /\ \A x \in S : x <= m
  BY <1>3 DEF U
<1>5. m \in S
  <2> SUFFICES ASSUME m \notin S PROVE FALSE
    OBVIOUS
  <2>1. PICK y \in S : TRUE
    OBVIOUS
  <2>2. m # 0
    BY <1>4, <2>1
  <2>3. m - 1 \in Nat /\ \A x \in S : x <= m - 1
    BY <1>4, <2>2
  <2>4. m - 1 \in U
    BY <2>3 DEF U
  <2> QED
    BY <1>3, <1>4, <2>4
<1> QED
  BY <1>4, <1>5

LEMMA TailFacts ==
  ASSUME NEW s \in Seq(Strings), NEW t \in Seq(Strings), IsPlaceholder(s), IsPlaceholder(t),
         Tail(s) = Tail(t)
  PROVE  s = t
<1>1. s # << >> /\ t # << >> /\ s[1] = t[1]
  BY DEF IsPlaceholder
<1>2. /\ Len(s) \in Nat /\ Len(t) \in Nat /\ Len(s) # 0 /\ Len(t) # 0
      /\ Len(Tail(s)) = Len(s) - 1 /\ Len(Tail(t)) = Len(t) - 1
  BY <1>1
<1> DEFINE a == Tail(s)
           b == Tail(t)
<1>3. Len(s) = Len(t)
  <2> DEFINE n == Len(s)
             p == Len(t)
             q == Len(a)
  <2>1. n \in Nat /\ p \in Nat
    OBVIOUS
  <2>2. q = n - 1 /\ q = p - 1
    BY <1>2
  <2> HIDE DEF n, p, q
  <2>3. n = p
    BY <2>1, <2>2
  <2> QED
    BY <2>3 DEF n, p
<1>4. \A i \in 2 .. Len(s) : s[i] = a[i - 1]
  BY <1>1
<1>5. \A i \in 2 .. Len(s) : t[i] = b[i - 1]
  BY <1>1, <1>3
<1>6. a = b
  OBVIOUS
<1> HIDE DEF a, b
<1>7. \A i \in 2 .. Len(s) : s[i] = t[i]
  BY <1>4, <1>5, <1>6, Zenon
<1>8. \A i \in 1 .. Len(s) : s[i] = t[i]
  <2> SUFFICES ASSUME NEW i \in 1 .. Len(s) PROVE s[i] = t[i]
    OBVIOUS
  <2>1. i = 1 \/ i \in 2 .. Len(s)
    <3> DEFINE n == Len(s)
    <3>1. n \in Nat /\ i \in 1 .. n
      OBVIOUS
    <3> HIDE DEF n
    <3>2. i = 1 \/ i \in 2 .. n
      BY <3>1
    <3> QED
      BY <3>2 DEF n
  <2> QED
    BY <1>1, <1>7, <2>1
<1> QED
  BY <1>3, <1>8

LEMMA ParamsFacts ==
  ASSUME NEW item \in MapItems, NEW path, FitsPath(item, path),
         NEW i \in DOMAIN item.url, IsPlaceholder(item.url[i])
  PROVE  \E j \in DOMAIN item.url :
           item.url[j] = item.url[i] /\ Params(item, path)[Tail(item.url[i])] = Decode(path[j])
<1> DEFINE url == item.url
           n == Len(url)
           places == ParamPlaces(item, path)
           Key(l) == Tail(item.url[l])
           k == Key(i)
           S == {l \in places : Key(l) = k}
           best == CHOOSE l \in places : Key(l) = k /\ \A j \in places : Key(j) = k => j <= l
<1>1. url \in Seq(Seq(Strings)) /\ n \in Nat /\ DOMAIN url = 1 .. n /\ Len(path) = n
  BY DEF MapItems, FitsPath
<1>2. places = {l \in 1 .. n : IsPlaceholder(url[l])}
  BY <1>1 DEF ParamPlaces
<1> HIDE DEF places
<1>3. i \in places /\ i \in S
  BY <1>1, <1>2
<1>4. S \in SUBSET (1 .. n) /\ S # {}
  BY <1>2, <1>3
<1>5. \E l \in places : Key(l) = k /\ \A j \in places : Key(j) = k => j <= l
  <2> HIDE DEF n
  <2>1. \E m \in S : \A x \in S : x <= m
    <3> HIDE DEF S
    <3> QED
      BY <1>1, <1>4, GreatestExists
  <2> QED
    BY <2>1
<1>6. best \in places /\ Key(best) = k
  BY <1>5
<1>7. Params(item, path)[k] = Decode(path[best])
  <2>1. k \in {Key(l) : l \in places}
    BY <1>3
  <2> QED
    BY <2>1 DEF Params, places
<1> HIDE DEF best
<1>8. best \in DOMAIN url /\ IsPlaceholder(url[best])
  BY <1>1, <1>2, <1>6
<1>9. url[best] = url[i]
  <2>1. url[best] \in Seq(Strings) /\ url[i] \in Seq(Strings)
    BY <1>1, <1>8
  <2> QED
    BY <1>6, <1>8, <2>1, TailFacts
<1> QED
  BY <1>7, <1>8, <1>9

PInv == ctx.params = << >> \/ (ctx.route.found = "route" /\ ctx.params = Params(ctx.route.item, req.path))

\* What a step does to the context.
LEMMA CtxSteps ==
  ASSUME TInv, Serves
  PROVE  \/ Match \/ MakeAction
         \/ UNCHANGED ctx \/ Prepares
<1>1. CASE Inject \/ UseFilter \/ UseGlobalFilter \/ UseFilterOrder \/ UseGlobalPipe \/ UseJwt
  <2>1. CASE UseGlobalFilter
    <3>1. CaseAssumption(chain, req) /\ at \in DOMAIN chain
      BY <2>1, ChainFacts, TFacts DEF TInv, UseGlobalFilter, Running
    <3>2. ItemAssumption(Item)
      BY <3>1, Zenon DEF CaseAssumption, Item
    <3>3. Item.filter \in DOMAIN Has
      BY <2>1, <3>2, Zenon DEF ItemAssumption, UseGlobalFilter, Running
    <3> QED
      BY <2>1, <3>3, Zenon DEF UseGlobalFilter, Prepares
  <2> QED
    BY <1>1, <2>1, Zenon DEF Inject, UseFilter, UseFilterOrder, UseGlobalPipe, UseJwt, Prepares
<1>2. CASE Cors \/ CorsAgain \/ BodyParser \/ JwtVerify \/ JwtExtraAuth \/ Static \/ StaticFile
           \/ Use \/ Match \/ SetParams \/ BlankAction \/ MakeAction \/ Invoke
  BY <1>2, Zenon DEF Cors, CorsAgain, BodyParser, JwtVerify, JwtExtraAuth, Static, StaticFile, Use,
     SetParams, BlankAction, Invoke, Prepares
<1>3. CASE RunFilter \/ FiltersDone \/ Enter \/ Leave \/ CaughtByStartup \/ PassesThrough \/ CaughtByNext
  BY <1>3, Zenon DEF RunFilter, FiltersDone, Enter, Leave, CaughtByStartup, PassesThrough, CaughtByNext
<1> QED
  BY <1>1, <1>2, <1>3, Zenon DEF Serves

LEMMA PInvSteps ==
  ASSUME TInv, PInv, [Next]_vars
  PROVE  PInv'
<1>1. {"route", "params", "made", "args", "inject", "hooks", "globals", "orders", "pipes", "jwt", "body", "read"} \subseteq DOMAIN ctx
  BY TFacts DEF CtxOK, NewContext
<1>2. CASE SetParams
  <2>1. \/ UNCHANGED ctx
        \/ ctx.route.found = "route" /\ ctx' = [ctx EXCEPT !.params = Params(ctx.route.item, req.path)]
    BY <1>2, Zenon DEF SetParams
  <2>2. req' = req
    BY <1>2, Zenon DEF SetParams, Quiet, Same
  <2>3. CASE UNCHANGED ctx
    BY <2>2, <2>3 DEF PInv
  <2>4. CASE ctx.route.found = "route" /\ ctx' = [ctx EXCEPT !.params = Params(ctx.route.item, req.path)]
    <3>1. ctx'.route = ctx.route /\ ctx'.params = Params(ctx.route.item, req.path)
      BY <1>1, <2>4
    <3> QED
      BY <2>2, <2>4, <3>1 DEF PInv
  <2> QED
    BY <2>1, <2>3, <2>4
<1>3. CASE Match
  <2> DEFINE r == Route(Item.map, Item.prefix, Item.custom, Asked)
  <2>1. ctx' = [ctx EXCEPT !.route = r] /\ Running("match") /\ req' = req
    BY <1>3, Zenon DEF Match, Same
  <2>2. ctx.route = NoRoute \/ ctx.route = r
    BY <2>1, MatchOnce, Zenon
  <2> HIDE DEF r
  <2>3. ctx'.route = r /\ ctx'.params = ctx.params
    BY <1>1, <2>1
  <2>4. NoRoute.found # "route"
    BY DEF NoRoute
  <2> QED
    BY <2>1, <2>2, <2>3, <2>4, Zenon DEF PInv
<1>4. CASE Serves /\ ~SetParams /\ ~Match
  <2>1. UNCHANGED ctx \/ (ctx'.route = ctx.route /\ ctx'.params = ctx.params)
    <3>1. CASE MakeAction
      <4>1. \E v, w : ctx' = [ctx EXCEPT !.made = v, !.args = w]
        BY <3>1, Zenon DEF MakeAction
      <4> QED
        BY <1>1, <4>1
    <3>2. CASE Inject \/ UseFilter \/ UseGlobalFilter \/ UseFilterOrder \/ UseGlobalPipe \/ UseJwt \/ BodyParser
      <4>1. \/ UNCHANGED ctx
            \/ ctx' = [ctx EXCEPT !.inject = TRUE] \/ ctx' = [ctx EXCEPT !.inject = TRUE, !.hooks = @ + 1]
            \/ ctx' = [ctx EXCEPT !.read = TRUE]
            \/ \E v : \/ ctx' = [ctx EXCEPT !.orders = v] \/ ctx' = [ctx EXCEPT !.pipes = v]
                      \/ ctx' = [ctx EXCEPT !.jwt = v]
                      \/ ctx' = [[ctx EXCEPT !.read = TRUE] EXCEPT !.body = v]
                      \/ ctx' = [ctx EXCEPT !.globals = Append(@, v)]
        BY <3>2, Zenon DEF Inject, UseFilter, UseGlobalFilter, UseFilterOrder, UseGlobalPipe, UseJwt, BodyParser
      <4> QED
        BY <1>1, <4>1
    <3>3. CASE Cors \/ CorsAgain \/ JwtVerify \/ JwtExtraAuth \/ Static \/ StaticFile
           \/ Use \/ BlankAction \/ Invoke \/ RunFilter \/ FiltersDone \/ Enter \/ Leave
           \/ CaughtByStartup \/ PassesThrough \/ CaughtByNext
      BY <3>3, Zenon DEF Cors, CorsAgain, JwtVerify, JwtExtraAuth, Static, StaticFile, Use,
        BlankAction, Invoke, RunFilter, FiltersDone, Enter, Leave, CaughtByStartup, PassesThrough, CaughtByNext
    <3> QED
      BY <1>4, <3>1, <3>2, <3>3, Zenon DEF Serves
  <2>2. req' = req
    BY <1>4, ServesGrow, Zenon DEF Same
  <2> QED
    BY <2>1, <2>2 DEF PInv
<1>5. CASE Finish
  BY <1>5, FinishFacts DEF PInv, Same
<1>6. CASE UNCHANGED vars
  BY <1>6 DEF vars, PInv
<1> QED
  BY <1>2, <1>3, <1>4, <1>5, <1>6, NextCases

LEMMA RouteOfRequest ==
  ASSUME TInv, PInv
  PROVE  RouteIsBest
<1> SUFFICES ASSUME ctx.route # NoRoute PROVE RouteIsBest
  BY Zenon DEF RouteIsBest
<1>1. PICK k \in Behind("match") :
        ctx.route = Route(chain[k].map, chain[k].prefix, chain[k].custom, Asked)
  BY Zenon DEF TInv, Routed
<1>2. CaseAssumption(chain, req) /\ chain[k].kind = "match" /\ k \in DOMAIN chain
  BY ChainFacts DEF TInv, Behind
<1>3. chain[k].map \in Seq(MapItems) /\ \A l \in Behind("match") : l = k
  BY <1>2, Zenon DEF CaseAssumption, ItemAssumption, Behind
<1>4. (CHOOSE l \in Behind("match") : TRUE) = k
  BY <1>3
<1> DEFINE item == chain[k]
           path == Unprefixed(req.path, item.prefix)
           fitting == {m \in ToSet(item.map) : FitsPath(m, path)}
           accepting == {m \in fitting : m.methods = {} \/ AcceptsMethod(m, Method, item.custom)}
<1>5. Asked.path = req.path /\ Asked.method = Method
  BY DEF Asked
<1>6. accepting = Accepting(item.map, path, Method, item.custom)
  BY DEF Accepting
<1>7. \/ /\ ctx.route.found = "route" /\ ctx.route.item \in MapItems /\ ctx.route.item \in accepting
         /\ \A m \in accepting : ~Better(m, ctx.route.item)
      \/ ctx.route.found = "methodNotAllowed" /\ accepting = {} /\ fitting # {}
      \/ ctx.route.found = "notFound" /\ fitting = {}
  <2>1. \/ /\ ctx.route.found = "route" /\ ctx.route.item \in MapItems
           /\ ctx.route.item \in Accepting(item.map, Unprefixed(Asked.path, item.prefix), Asked.method, item.custom)
           /\ \A m \in Accepting(item.map, Unprefixed(Asked.path, item.prefix), Asked.method, item.custom) :
                ~Better(m, ctx.route.item)
        \/ /\ ctx.route.found = "methodNotAllowed"
           /\ Accepting(item.map, Unprefixed(Asked.path, item.prefix), Asked.method, item.custom) = {}
           /\ {m \in ToSet(item.map) : FitsPath(m, Unprefixed(Asked.path, item.prefix))} # {}
        \/ /\ ctx.route.found = "notFound"
           /\ {m \in ToSet(item.map) : FitsPath(m, Unprefixed(Asked.path, item.prefix))} = {}
    <3> DEFINE map == item.map
               rt == Route(map, item.prefix, item.custom, Asked)
               p == Unprefixed(Asked.path, item.prefix)
    <3>1. ctx.route = rt /\ map \in Seq(MapItems)
      BY <1>1, <1>3, Zenon
    <3>2. \/ /\ rt.found = "route" /\ rt.item \in MapItems
             /\ rt.item \in Accepting(map, p, Asked.method, item.custom)
             /\ \A m \in Accepting(map, p, Asked.method, item.custom) : ~Better(m, rt.item)
          \/ /\ rt.found = "methodNotAllowed"
             /\ Accepting(map, p, Asked.method, item.custom) = {}
             /\ {m \in ToSet(map) : FitsPath(m, p)} # {}
          \/ /\ rt.found = "notFound"
             /\ {m \in ToSet(map) : FitsPath(m, p)} = {}
      <4> HIDE DEF map, item
      <4> QED
        BY <3>1, RouteFacts, Zenon
    <3> HIDE DEF rt
    <3> QED
      BY <3>1, <3>2, Zenon
  <2> HIDE DEF accepting
  <2> QED
    BY <1>5, <1>6, <2>1
<1>8. ASSUME ctx.route.found = "route", ctx.params # << >>, path = req.path
      PROVE  ParamsFit(ctx.route.item.url, path)
  <2>1. ctx.params = Params(ctx.route.item, path)
    BY <1>8, Zenon DEF PInv
  <2>2. ctx.route.item \in MapItems /\ FitsPath(ctx.route.item, path)
    BY <1>7, <1>8
  <2> DEFINE it == ctx.route.item
  <2> HIDE DEF path
  <2>3. \A i \in DOMAIN it.url : IsPlaceholder(it.url[i]) =>
          \E j \in DOMAIN it.url : it.url[j] = it.url[i] /\ Params(it, path)[Tail(it.url[i])] = Decode(path[j])
    BY <2>2, ParamsFacts
  <2>4. ctx.params = Params(it, path)
    BY <2>1
  <2> HIDE DEF it
  <2>5. ParamsFit(it.url, path)
    <3> SUFFICES ASSUME NEW i \in DOMAIN it.url, IsPlaceholder(it.url[i])
                 PROVE  \E j \in DOMAIN it.url : it.url[j] = it.url[i] /\ ctx.params[Tail(it.url[i])] = Decode(path[j])
      BY Zenon DEF ParamsFit
    <3>1. PICK j \in DOMAIN it.url : it.url[j] = it.url[i] /\ Params(it, path)[Tail(it.url[i])] = Decode(path[j])
      BY <2>3, Zenon
    <3> QED
      BY <2>4, <3>1
  <2> QED
    BY <2>5 DEF it
<1>9. /\ ctx.route.found = "route" =>
            /\ ctx.route.item \in accepting
            /\ \A m \in accepting : ~Better(m, ctx.route.item)
            /\ ctx.params # << >> /\ path = req.path => ParamsFit(ctx.route.item.url, path)
      /\ ctx.route.found = "methodNotAllowed" => fitting # {} /\ accepting = {}
      /\ ctx.route.found = "notFound" => fitting = {}
      /\ ctx.route.found \in {"route", "methodNotAllowed", "notFound"}
  BY <1>7, <1>8
<1> HIDE DEF path, fitting, accepting
<1>10. CASE ctx.route.found = "route"
  BY <1>4, <1>9, <1>10 DEF RouteIsBest, path, fitting, accepting
<1>11. CASE ctx.route.found = "methodNotAllowed"
  BY <1>4, <1>9, <1>11 DEF RouteIsBest, path, fitting, accepting
<1>12. CASE ctx.route.found = "notFound"
  BY <1>4, <1>9, <1>12 DEF RouteIsBest, path, fitting, accepting
<1> QED
  BY <1>9, <1>10, <1>11, <1>12

\* The route is the best one, and its parameters fit (RouteIsBest).
THEOREM BestRoute == Spec => []RouteIsBest
<1>1. Init => PInv
  BY DEF Init, PInv, NewContext
<1>2. TInv /\ PInv /\ [Next]_vars => PInv'
  BY PInvSteps
<1>3. TInv /\ PInv => RouteIsBest
  BY RouteOfRequest
<1> QED
  BY <1>1, <1>2, <1>3, TypesHold, PTL DEF Spec

-----------------------------------------------------------------------------
(* The pipes and the arguments.                                            *)

\* What the n-th pipe makes of the outcome before it.
PipeStep(pipes, input, value, f, i) ==
  IF i = 0 THEN Gives(value)
  ELSE IF f[i - 1].error # "none" THEN f[i - 1]
  ELSE Transform(input, pipes[i], f[i - 1].value)

Solves(f, n, pipes, input, value) == f = [i \in 0 .. n |-> PipeStep(pipes, input, value, f, i)]

\* The recursion of ExecPipes has a solution, whatever the values are.
LEMMA OutcomesExist ==
  ASSUME NEW n \in Nat, NEW pipes, NEW input, NEW value
  PROVE  \E f : Solves(f, n, pipes, input, value)
<1> DEFINE Good(m, g) == g = [i \in 0 .. m |-> g[i]]
                         /\ \A i \in 0 .. m : g[i] = PipeStep(pipes, input, value, g, i)
           T == {m \in 0 .. n : \E g : Good(m, g)}
<1>1. 0 \in T
  <2> DEFINE g == [i \in 0 .. 0 |-> Gives(value)]
  <2>1. g[0] = Gives(value) /\ \A i \in 0 .. 0 : i = 0
    OBVIOUS
  <2>2. \A i \in 0 .. 0 : g[i] = PipeStep(pipes, input, value, g, i)
    <3> HIDE DEF g
    <3> QED
      BY <2>1 DEF PipeStep
  <2>3. Good(0, g)
    BY <2>1, <2>2
  <2> HIDE DEF Good
  <2> QED
    BY <2>3
<1>2. ASSUME NEW m \in 1 .. n, m - 1 \in T PROVE m \in T
  <2>1. PICK f : Good(m - 1, f)
    BY <1>2
  <2>2. /\ m - 1 \in 0 .. m - 1 /\ m \notin 0 .. m - 1 /\ m \in 0 .. n /\ 0 \in 0 .. m /\ 0 # m
        /\ m \in 0 .. m
    OBVIOUS
  <2> DEFINE v == PipeStep(pipes, input, value, f, m)
             g == [i \in 0 .. m |-> IF i = m THEN v ELSE f[i]]
  <2>3. g[m] = v /\ \A i \in 0 .. m - 1 : g[i] = f[i]
    <3>1. \A i \in 0 .. m - 1 : i \in 0 .. m /\ i # m
      OBVIOUS
    <3> HIDE DEF v
    <3> QED
      BY <2>2, <3>1
  <2>4. g = [i \in 0 .. m |-> g[i]]
    OBVIOUS
  <2> HIDE DEF g, Good
  <2>5. ASSUME NEW i \in 0 .. m PROVE g[i] = PipeStep(pipes, input, value, g, i)
    <3>1. CASE i = m
      BY <2>2, <2>3, <3>1, Zenon DEF PipeStep, v
    <3>2. CASE i # m
      <4>1. i \in 0 .. m - 1 /\ (i # 0 => i - 1 \in 0 .. m - 1)
        BY <3>2
      <4>2. g[i] = f[i] /\ (i # 0 => g[i - 1] = f[i - 1])
        BY <2>3, <4>1, Zenon
      <4>3. f[i] = PipeStep(pipes, input, value, f, i)
        BY <2>1, <4>1, Zenon DEF Good
      <4> QED
        BY <4>2, <4>3, Zenon DEF PipeStep
    <3> QED
      BY <3>1, <3>2
  <2>6. Good(m, g)
    BY <2>4, <2>5, Zenon DEF Good
  <2> QED
    BY <2>2, <2>6
<1> HIDE DEF T
<1>3. n \in T
  <2>1. \A i \in 0 .. n : i \in T
    BY <1>1, <1>2, Induction
  <2> QED
    BY <2>1
<1>4. PICK f : Good(n, f)
  BY <1>3 DEF T
<1>5. [i \in 0 .. n |-> f[i]] = [i \in 0 .. n |-> PipeStep(pipes, input, value, f, i)]
  BY <1>4
<1>6. f = [i \in 0 .. n |-> f[i]]
  BY <1>4
<1>7. f = [i \in 0 .. n |-> PipeStep(pipes, input, value, f, i)]
  BY <1>5, <1>6, Zenon
<1> QED
  BY <1>7, Zenon DEF Solves

\* An outcome without an error went through the last pipe.
LEMMA ExecPipesLast ==
  ASSUME NEW globals, NEW input, NEW value, Len(PipesOf(globals, input)) \in Nat \ {0},
         ExecPipes(globals, input, value).error = "none"
  PROVE  \E v : ExecPipes(globals, input, value) = Transform(input, Last(PipesOf(globals, input)), v)
<1> DEFINE pipes == PipesOf(globals, input)
           n == Len(pipes)
           Good(f) == f = [i \in 0 .. n |-> IF i = 0 THEN Gives(value)
                                            ELSE IF f[i - 1].error # "none" THEN f[i - 1]
                                            ELSE Transform(input, pipes[i], f[i - 1].value)]
           f == CHOOSE f : Good(f)
<1>1. n \in Nat /\ n # 0 /\ n \in 0 .. n
  OBVIOUS
<1>2. \E g : Good(g)
  <2> HIDE DEF n, pipes
  <2>1. \E g : Solves(g, n, pipes, input, value)
    BY <1>1, OutcomesExist
  <2> QED
    BY <2>1, Zenon DEF Solves, PipeStep
<1>3. Good(f)
  <2> HIDE DEF Good
  <2> QED
    BY <1>2
<1>4. ExecPipes(globals, input, value) = f[n]
  BY Zenon DEF ExecPipes
<1> HIDE DEF f, n, pipes
<1>5. f[n] = IF f[n - 1].error # "none" THEN f[n - 1] ELSE Transform(input, pipes[n], f[n - 1].value)
  <2> HIDE DEF Good
  <2>1. f = [i \in 0 .. n |-> IF i = 0 THEN Gives(value)
                              ELSE IF f[i - 1].error # "none" THEN f[i - 1]
                              ELSE Transform(input, pipes[i], f[i - 1].value)]
    BY <1>3, Zenon DEF Good
  <2>2. f[n] = IF n = 0 THEN Gives(value)
               ELSE IF f[n - 1].error # "none" THEN f[n - 1]
               ELSE Transform(input, pipes[n], f[n - 1].value)
    BY <1>1, <2>1, Zenon
  <2> QED
    BY <1>1, <2>2, Zenon
<1>6. f[n] = Transform(input, pipes[n], f[n - 1].value)
  BY <1>4, <1>5
<1> QED
  BY <1>4, <1>6, Zenon DEF Last, n, pipes

LEMMA ValidatedFacts ==
  ASSUME NEW input, NEW value, ValidatePipe(input, value).error = "none"
  PROVE  LET v == ValidatePipe(input, value).value
         IN \/ input.disabled /\ v.t = "object"
            \/ ValidParent(input, v) /\ ValidModel(input, v)
<1>1. BadRequest.error # "none" /\ TypeError.error # "none" /\ Gives(value).value = value
  BY DEF BadRequest, TypeError, Gives
<1>2. \/ ValidatePipe(input, value) \in {BadRequest, TypeError}
      \/ /\ ValidatePipe(input, value) = Gives(value)
         /\ \/ input.disabled /\ value.t = "object"
            \/ ValidParent(input, value) /\ ValidModel(input, value)
  BY Zenon DEF ValidatePipe
<1> QED
  BY <1>1, <1>2, Zenon

\* The last of the pipes is that of the startup that runs after the others.
LEMMA PipesOfLast ==
  ASSUME NEW S, NEW globals \in Seq(S), NEW input, input.pipes \in Seq(ToSet(input.pipes)),
         globals # << >>, Last(globals).type = "after"
  PROVE  Len(PipesOf(globals, input)) \in Nat \ {0} /\ Last(PipesOf(globals, input)) = Last(globals)
<1> DEFINE a == Only(globals, {g \in ToSet(globals) : g.type = "before"})
           b == input.pipes
           good == {g \in ToSet(globals) : g.type = "after"}
           c == Only(globals, good)
           U == S \cup ToSet(b)
<1>1. PipesOf(globals, input) = a \o b \o c
  BY Zenon DEF PipesOf
<1>2. Last(globals) \in good
  BY DEF Last, ToSet
<1>3. a \in Seq(S) /\ c \in Seq(S)
  <2> HIDE DEF good
  <2> QED
    BY OnlyFacts
<1>4. c # << >> /\ Last(c) = Last(globals)
  <2> HIDE DEF good
  <2> QED
    BY <1>2, OnlyFacts
<1>5. b \in Seq(ToSet(b))
  OBVIOUS
<1> HIDE DEF a, b, c, good
<1>6. a \in Seq(U) /\ c \in Seq(U) /\ b \in Seq(U)
  BY <1>3, <1>5
<1> DEFINE ab == a \o b
<1>7. ab \in Seq(U)
  BY <1>6
<1> HIDE DEF ab, U
<1>8. Len(ab \o c) \in Nat \ {0} /\ Last(ab \o c) = Last(c)
  <2>1. Len(c) \in Nat \ {0} /\ Len(ab) \in Nat
    BY <1>4, <1>6, <1>7
  <2>2. Len(ab \o c) = Len(ab) + Len(c) /\ (ab \o c)[Len(ab) + Len(c)] = c[Len(c)]
    BY <1>6, <1>7, <2>1
  <2> DEFINE k == Len(c)
             l == Len(ab)
  <2>3. k \in Nat \ {0} /\ l \in Nat
    BY <2>1
  <2>4. l + k \in Nat \ {0}
    <3> HIDE DEF k, l
    <3> QED
      BY <2>3
  <2> QED
    BY <2>2, <2>4 DEF Last
<1> QED
  BY <1>1, <1>4, <1>8 DEF ab

-----------------------------------------------------------------------------
(* Where filters and the action run.                                       *)

Befores == {Before3[1], Before3[2], Before3[3]}

LEMMA NameFacts ==
  /\ Before3[1] = "onAuthorization" /\ Before3[2] = "onResourceExecuting" /\ Before3[3] = "onActionExecuting"
  /\ After2[1] = "onActionExecuted" /\ After2[2] = "onResourceExecuted"
  /\ After2[1] \notin Befores /\ After2[2] \notin Befores /\ "onException" \notin Befores /\ "-" \notin Befores
  /\ NextFunction(Before3[1]) = Before3[2] /\ NextFunction(Before3[2]) = Before3[3]
  /\ NextFunction(Before3[3]) = "-"
  /\ NextFunction(After2[1]) = After2[2] /\ NextFunction(After2[2]) = "-" /\ NextFunction("onException") = "-"
  /\ \A fn : NextFunction(fn) \in {Before3[2], Before3[3], After2[2], "-"}
  /\ \A fn : NextFunction(fn) \in Befores => fn \in Befores
  /\ FirstFunction(Before3[3]) = Before3[1] /\ FirstFunction(After2[2]) = After2[1]
  /\ FirstFunction("onException") = "onException"
  /\ \A fn : NextFunction(fn) = "-" =>
       \/ fn = Before3[3]
       \/ fn = After2[2]
       \/ FirstFunction(fn) = fn /\ fn \notin Befores /\ fn # After2[1] /\ fn # After2[2]
BY DEF Befores, Before3, After2, NextFunction, FirstFunction

\* A function of a filter runs and lets the request pass.
RunsOne ==
  /\ mode = "filters" /\ todo.queue # << >> /\ mode' = mode /\ at' = at
  /\ todo' = [todo EXCEPT !.queue = Tail(@), !.ran = @ + 1]
  /\ Note("filter", todo.fn, Head(todo.queue))

\* The functions of the next kind, those of the next hook, or the exception filters.
Starts(fn, executing, left) ==
  mode' = "filters" /\ UNCHANGED <<at, trail>> /\ todo' = Exec(fn, executing, left)

LEMMA StartsFacts ==
  ASSUME NEW fn, NEW executing, NEW left, Starts(fn, executing, left)
  PROVE  /\ mode' = "filters" /\ at' = at /\ trail' = trail
         /\ todo'.fn = fn /\ todo'.queue = FiltersFor(fn, executing) /\ todo'.left = left
BY DEF Starts, Exec

LEMMA RunFilterCases ==
  ASSUME RunFilter
  PROVE  /\ mode = "filters" /\ todo.queue # << >>
         /\ \/ mode' \in {"leave", "caught"}
            \/ RunsOne
            \/ todo.fn = "onException" /\ Starts("onException", TRUE, todo.left - 1)
BY Zenon DEF RunFilter, RunsOne, Starts, ThrowOut, Unhandled, Throw, Return

LEMMA FiltersDoneCases ==
  ASSUME FiltersDone
  PROVE  /\ mode = "filters" /\ todo.queue = << >>
         /\ \/ mode' = "leave"
            \/ mode' = "act" /\ todo.fn = Before3[3] /\ todo.left = 0 /\ UNCHANGED <<at, todo, trail>>
            \/ /\ NextFunction(todo.fn) # "-"
               /\ Starts(NextFunction(todo.fn), Executing(todo.fn), todo.left)
            \/ /\ NextFunction(todo.fn) = "-" /\ todo.left > 0
               /\ Starts(FirstFunction(todo.fn), Executing(todo.fn), todo.left - 1)
BY Zenon DEF FiltersDone, Starts, Unhandled, Return

LEMMA CaughtByNextCases ==
  ASSUME CaughtByNext
  PROVE  mode' = "leave" \/ Starts("onException", TRUE, ctx.hooks - 1)
BY Zenon DEF CaughtByNext, Starts, Unhandled

LEMMA InvokeCases ==
  ASSUME Invoke
  PROVE  /\ mode = "act" /\ UNCHANGED ctx /\ (\E fn, by : Note("act", fn, by))
         /\ \/ mode' \in {"leave", "caught"}
            \/ /\ mode' = "filters" /\ UNCHANGED at /\ ctx.hooks > 0
               /\ todo' = Exec(After2[1], FALSE, ctx.hooks - 1)
BY Zenon DEF Invoke, Invoked, Throw, Return

LEMMA MakeActionCases ==
  ASSUME MakeAction
  PROVE  /\ ToAction /\ ctx.route.found = "route"
         /\ \E v, w : ctx' = [ctx EXCEPT !.made = v, !.args = w]
         /\ \/ mode' = "caught" /\ at' = at /\ \E fn, by : Note("threw", fn, by)
            \/ /\ ctx.hooks > 0 /\ mode' = "filters" /\ at' = at + 1 /\ UNCHANGED trail
               /\ todo' = Exec(Before3[1], TRUE, ctx.hooks - 1)
            \/ ~(ctx.hooks > 0) /\ mode' = "act" /\ at' = at + 1 /\ UNCHANGED trail
BY Zenon DEF MakeAction

\* Only these steps run filters or the action.
Works == MakeAction \/ Invoke \/ RunFilter \/ FiltersDone \/ CaughtByNext

LEMMA OthersLeave ==
  ASSUME TInv, Serves, ~Works
  PROVE  mode' \in {"enter", "invoke", "leave", "caught"}
<1>1. CASE Inject \/ UseFilter \/ UseGlobalFilter \/ UseFilterOrder \/ UseGlobalPipe
           \/ Cors \/ CorsAgain \/ BodyParser \/ UseJwt \/ JwtVerify \/ JwtExtraAuth
           \/ Static \/ StaticFile \/ Use \/ Match \/ SetParams \/ Leave
  <2>1. CallNext \/ Return \/ \E x : Throw(x)
    BY <1>1, Zenon DEF Inject, UseFilter, UseGlobalFilter, UseFilterOrder, UseGlobalPipe,
       Cors, CorsAgain, BodyParser, UseJwt, JwtVerify, JwtExtraAuth, Static, StaticFile, Use,
       Match, SetParams, Leave
  <2> QED
    BY <2>1, Zenon DEF CallNext, Return, Throw
<1>2. CASE BlankAction \/ Enter \/ CaughtByStartup
  BY <1>2 DEF BlankAction, ToAction, Enter, CaughtByStartup, Unhandled
<1>3. CASE PassesThrough
  <2>1. Return \/ \E x : Throw(x)
    BY <1>3, Zenon DEF PassesThrough, ThrowOut
  <2> QED
    BY <2>1, Zenon DEF Return, Throw
<1> QED
  BY <1>1, <1>2, <1>3, Zenon DEF Serves, Works

\* The action, or a function ahead of it, runs after the same or after MakeAction.
Ready == mode = "act" \/ (mode = "filters" /\ todo.fn \in Befores)

LEMMA ReadyStays ==
  ASSUME TInv, Serves, Ready'
  PROVE  MakeAction \/ (Ready /\ (RunFilter \/ FiltersDone))
<1>1. Works
  BY OthersLeave DEF Ready
<1>2. ~CaughtByNext
  <2>1. mode' = "leave" \/ (mode' = "filters" /\ todo'.fn = "onException") => ~Ready'
    BY NameFacts DEF Ready
  <2> QED
    BY <2>1, CaughtByNextCases, StartsFacts, Zenon
<1>3. ~Invoke
  <2> SUFFICES ASSUME Invoke PROVE FALSE
    OBVIOUS
  <2>1. Exec(After2[1], FALSE, ctx.hooks - 1).fn = After2[1]
    BY DEF Exec
  <2>2. mode' \in {"caught", "leave"} \/ (mode' = "filters" /\ todo'.fn = After2[1])
    BY <2>1, InvokeCases, Zenon
  <2> QED
    BY <2>2, NameFacts DEF Ready
<1>4. ASSUME RunFilter PROVE Ready
  <2>1. CASE RunsOne
    <3>1. todo'.fn = todo.fn /\ mode' = mode
      BY <2>1 DEF RunsOne
    <3> QED
      BY <3>1 DEF Ready
  <2>2. CASE Starts("onException", TRUE, todo.left - 1)
    <3>1. mode' = "filters" /\ todo'.fn = "onException"
      BY <2>2, StartsFacts, Zenon
    <3> QED
      BY <3>1, NameFacts DEF Ready
  <2>3. CASE mode' \in {"leave", "caught"}
    BY <2>3 DEF Ready
  <2> QED
    BY <1>4, <2>1, <2>2, <2>3, RunFilterCases, Zenon
<1>5. ASSUME FiltersDone PROVE Ready
  <2>1. mode = "filters"
    BY <1>5 DEF FiltersDone
  <2>2. CASE mode' = "leave"
    BY <2>2 DEF Ready
  <2>3. CASE mode' = "act" /\ todo.fn = Before3[3]
    BY <2>1, <2>3 DEF Ready, Befores
  <2>4. CASE Starts(NextFunction(todo.fn), Executing(todo.fn), todo.left)
    <3>1. mode' = "filters" /\ todo'.fn = NextFunction(todo.fn)
      BY <2>4, StartsFacts, Zenon
    <3>2. todo'.fn \in Befores
      BY <3>1 DEF Ready
    <3> QED
      BY <2>1, <3>1, <3>2, NameFacts, Zenon DEF Ready
  <2>5. CASE /\ NextFunction(todo.fn) = "-"
             /\ Starts(FirstFunction(todo.fn), Executing(todo.fn), todo.left - 1)
    <3>1. mode' = "filters" /\ todo'.fn = FirstFunction(todo.fn)
      BY <2>5, StartsFacts, Zenon
    <3>2. FirstFunction(todo.fn) \in Befores
      BY <3>1 DEF Ready
    <3>3. todo.fn = Before3[3]
      BY <2>5, <3>2, NameFacts, Zenon
    <3> QED
      BY <2>1, <3>3 DEF Ready, Befores
  <2> QED
    BY <1>5, <2>2, <2>3, <2>4, <2>5, FiltersDoneCases, Zenon
<1> QED
  BY <1>1, <1>2, <1>3, <1>4, <1>5, Zenon DEF Works

-----------------------------------------------------------------------------
(* What a request went through.                                            *)

\* What item k asks of a request that goes on behind it, and leaves in the context.
Whole(payload) == payload.t # "bad" /\ payload \notin {Nothing, Null}
LetsPass(k) ==
  LET item == chain[k]
  IN /\ item.kind = "verify" => item.skip \/ Verified(ctx.jwt, req.token)
     /\ item.kind = "access" => item.granted
     /\ item.kind = "body" => (req.type = item.type => Whole(req.payload))
     /\ item.kind = "cors" => (IsPreflight /\ req.acrm => item.origin = "rejects")
     /\ item.kind = "global" => item.filter \in ToSet(ctx.globals)
     /\ item.kind = "filters" => ctx.hooks > 0
Reach == IF mode = "invoke" THEN at - 1 ELSE at
OneToken == ctx.jwt = << >> \/ \E k \in Behind("jwt") : ctx.jwt = <<chain[k].options>>

LEMMA CtxGrows ==
  ASSUME TInv, OneToken, Serves
  PROVE  /\ OneToken' /\ (ctx.jwt # << >> => ctx'.jwt = ctx.jwt)
         /\ ToSet(ctx.globals) \subseteq ToSet(ctx'.globals)
         /\ ctx.hooks > 0 => ctx'.hooks > 0
<1>1. /\ {"route", "params", "made", "args", "inject", "hooks", "globals", "orders", "pipes", "jwt", "body", "read"} \subseteq DOMAIN ctx
      /\ ctx.globals \in Seq(DOMAIN Has) /\ ctx.hooks \in Nat
  BY TFacts DEF CtxOK, NewContext
<1>2. Same
  BY ServesGrow
<1>3. CASE UseJwt /\ ctx.jwt = << >>
  <2>1. ctx' = [ctx EXCEPT !.jwt = <<Item.options>>] /\ Running("jwt")
    BY <1>3, Zenon DEF UseJwt
  <2>2. ctx'.jwt = <<Item.options>> /\ ctx'.globals = ctx.globals /\ ctx'.hooks = ctx.hooks
    BY <1>1, <2>1
  <2>3. at \in DOMAIN chain /\ CaseAssumption(chain, req) /\ Item.kind = "jwt"
    BY <2>1, TFacts, ChainFacts DEF Running, TInv
  <2>4. at \in Behind("jwt")
    BY <2>3 DEF Behind, Item
  <2>5. \A k \in Behind("jwt") : k = at
    BY <2>3, <2>4, Zenon DEF CaseAssumption, Behind
  <2>6. ctx.jwt # << >> => ctx.jwt = <<Item.options>>
    BY <2>5, Zenon DEF OneToken, Item
  <2>7. OneToken'
    BY <1>2, <2>2, <2>4, SameFacts, Zenon DEF OneToken, Item
  <2> QED
    BY <2>2, <2>6, <2>7, Zenon
<1>4. CASE ~(UseJwt /\ ctx.jwt = << >>)
  <2>1. \/ UNCHANGED ctx
        \/ ctx' = [ctx EXCEPT !.inject = TRUE] \/ ctx' = [ctx EXCEPT !.inject = TRUE, !.hooks = @ + 1]
        \/ ctx' = [ctx EXCEPT !.read = TRUE]
        \/ \E x : \/ ctx' = [ctx EXCEPT !.orders = x] \/ ctx' = [ctx EXCEPT !.pipes = x]
                  \/ ctx' = [[ctx EXCEPT !.read = TRUE] EXCEPT !.body = x] \/ ctx' = [ctx EXCEPT !.route = x]
                  \/ ctx' = [ctx EXCEPT !.params = x] \/ ctx' = [ctx EXCEPT !.made = x]
                  \/ x \in DOMAIN Has /\ ctx' = [ctx EXCEPT !.globals = Append(@, x)]
        \/ \E x, y : ctx' = [ctx EXCEPT !.made = x, !.args = y]
    <3>1. CASE UseGlobalFilter
      <4>1. at \in DOMAIN chain /\ CaseAssumption(chain, req) /\ Item.kind = "global"
        BY <3>1, TFacts, ChainFacts DEF UseGlobalFilter, Running, TInv
      <4>2. Item.filter \in DOMAIN Has
        BY <4>1, Zenon DEF CaseAssumption, ItemAssumption, Item
      <4> QED
        BY <3>1, <4>2, Zenon DEF UseGlobalFilter
    <3>2. CASE Inject \/ UseFilter \/ UseFilterOrder \/ UseGlobalPipe \/ BodyParser
               \/ Match \/ SetParams \/ MakeAction
      <4>1. CASE Inject \/ UseFilter \/ UseFilterOrder \/ UseGlobalPipe
        BY <4>1, Zenon DEF Inject, UseFilter, UseFilterOrder, UseGlobalPipe
      <4>2. CASE BodyParser
        BY <4>2, Zenon DEF BodyParser
      <4>3. CASE Match \/ SetParams
        BY <4>3, Zenon DEF Match, SetParams
      <4>4. CASE MakeAction
        BY <4>4, MakeActionCases, Zenon
      <4> QED
        BY <3>2, <4>1, <4>2, <4>3, <4>4
    <3>3. CASE UseJwt
      BY <1>4, <3>3, Zenon DEF UseJwt
    <3>4. CASE Cors \/ CorsAgain \/ JwtVerify \/ JwtExtraAuth \/ Static \/ StaticFile
           \/ Use \/ BlankAction \/ Invoke \/ RunFilter \/ FiltersDone \/ Enter \/ Leave
           \/ CaughtByStartup \/ PassesThrough \/ CaughtByNext
      BY <3>4, Zenon DEF Cors, CorsAgain, JwtVerify, JwtExtraAuth, Static, StaticFile, Use,
        BlankAction, Invoke, RunFilter, FiltersDone, Enter, Leave, CaughtByStartup, PassesThrough,
        CaughtByNext
    <3> QED
      BY <3>1, <3>2, <3>3, <3>4, Zenon DEF Serves
  <2>2. /\ ctx'.jwt = ctx.jwt /\ (ctx.hooks > 0 => ctx'.hooks > 0)
        /\ ctx'.globals = ctx.globals \/ \E x \in DOMAIN Has : ctx'.globals = Append(ctx.globals, x)
    <3>1. CASE UNCHANGED ctx \/ ctx' = [ctx EXCEPT !.inject = TRUE] \/ ctx' = [ctx EXCEPT !.read = TRUE]
      BY <1>1, <3>1
    <3>2. CASE ctx' = [ctx EXCEPT !.inject = TRUE, !.hooks = @ + 1]
      <4>1. ctx'.hooks = ctx.hooks + 1 /\ ctx'.jwt = ctx.jwt /\ ctx'.globals = ctx.globals
        BY <1>1, <3>2
      <4> QED
        BY <1>1, <4>1
    <3>3. CASE \E x : \/ ctx' = [ctx EXCEPT !.orders = x] \/ ctx' = [ctx EXCEPT !.pipes = x]
                      \/ ctx' = [ctx EXCEPT !.route = x] \/ ctx' = [ctx EXCEPT !.params = x]
                      \/ ctx' = [ctx EXCEPT !.made = x]
      BY <1>1, <3>3
    <3>4. CASE \E x : ctx' = [[ctx EXCEPT !.read = TRUE] EXCEPT !.body = x]
      BY <1>1, <3>4
    <3>5. CASE \E x \in DOMAIN Has : ctx' = [ctx EXCEPT !.globals = Append(@, x)]
      BY <1>1, <3>5
    <3>6. CASE \E x, y : ctx' = [ctx EXCEPT !.made = x, !.args = y]
      BY <1>1, <3>6
    <3> QED
      BY <2>1, <3>1, <3>2, <3>3, <3>4, <3>5, <3>6, Zenon
  <2>3. ToSet(ctx.globals) \subseteq ToSet(ctx'.globals)
    <3>1. CASE \E x \in DOMAIN Has : ctx'.globals = Append(ctx.globals, x)
      <4> DEFINE s == ctx.globals
                 t == ctx'.globals
      <4>1. PICK x \in DOMAIN Has : t = Append(s, x)
        BY <3>1
      <4>2. s \in Seq(DOMAIN Has)
        BY <1>1
      <4> HIDE DEF s, t
      <4>3. \A i \in DOMAIN s : i \in DOMAIN t /\ t[i] = s[i]
        BY <4>1, <4>2
      <4>4. ToSet(s) \subseteq ToSet(t)
        BY <4>3 DEF ToSet
      <4> QED
        BY <4>4 DEF s, t
    <3> QED
      BY <2>2, <3>1
  <2>4. OneToken'
    BY <1>2, <2>2, SameFacts, Zenon DEF OneToken, Same
  <2> QED
    BY <2>2, <2>3, <2>4
<1> QED
  BY <1>3, <1>4

LEMMA PassStays ==
  ASSUME TInv, OneToken, Serves, NEW k, LetsPass(k)
  PROVE  LetsPass(k)'
<1>1. /\ ctx.jwt # << >> => ctx'.jwt = ctx.jwt
      /\ ToSet(ctx.globals) \subseteq ToSet(ctx'.globals)
      /\ ctx.hooks > 0 => ctx'.hooks > 0
  BY CtxGrows
<1>2. chain' = chain /\ req' = req /\ IsPreflight' = IsPreflight
  BY ServesGrow, Zenon DEF Same, IsPreflight, Method
<1>3. Verified(ctx.jwt, req.token) => Verified(ctx.jwt, req.token)'
  BY <1>1, <1>2, Zenon DEF Verified
<1>4. chain[k].filter \in ToSet(ctx.globals) => chain[k].filter \in ToSet(ctx'.globals)
  BY <1>1
<1>5. ToSet(ctx.globals)' = ToSet(ctx'.globals)
  BY DEF ToSet
<1> QED
  BY <1>1, <1>2, <1>3, <1>4, <1>5, Zenon DEF LetsPass

\* One item further goes a request that the item lets pass.
LEMMA ReachSteps ==
  ASSUME TInv, Serves
  PROVE  Reach' <= Reach \/ \E k : k = Reach + 1 /\ Reach' = k /\ LetsPass(k)'
<1> DEFINE n == Len(chain)
<1>1. /\ n \in Nat /\ at \in 0 .. n /\ at \in Nat /\ chain' = chain /\ req' = req
      /\ IsPreflight' = IsPreflight /\ Same
      /\ {"inject", "hooks", "globals"} \subseteq DOMAIN ctx
      /\ (mode = "invoke" => at # 0)
  <2>1. Len(chain) \in Nat /\ at \in 0 .. Len(chain) /\ (mode = "invoke" => at # 0)
    BY TFacts
  <2>2. {"inject", "hooks", "globals"} \subseteq DOMAIN ctx
    BY TFacts DEF CtxOK, NewContext
  <2>3. at \in Nat
    BY <2>1
  <2> QED
    BY <2>1, <2>2, <2>3, ServesGrow, Zenon DEF Same, IsPreflight, Method
<1> HIDE DEF n
<1>2. ASSUME mode = "invoke", Return \/ \E x : Throw(x)
      PROVE  Reach' <= Reach
  <2>1. at' = at - 1 /\ mode' \in {"leave", "caught"}
    BY <1>2, Zenon DEF Return, Throw
  <2>2. Reach' = at - 1 /\ Reach = at - 1
    BY <1>2, <2>1 DEF Reach
  <2> QED
    BY <1>1, <2>2
<1>3. ASSUME mode = "invoke", CallNext, NEW a, a = at, LetsPass(a)'
      PROVE  \E k : k = Reach + 1 /\ Reach' = k /\ LetsPass(k)'
  <2>1. at' = at /\ mode' = "enter"
    BY <1>3, Zenon DEF CallNext
  <2>2. Reach' = a /\ Reach = at - 1 /\ Reach + 1 = a
    BY <1>1, <1>3, <2>1 DEF Reach
  <2> QED
    BY <1>3, <2>2, Zenon
<1>4. CASE Inject \/ UseFilterOrder \/ UseGlobalPipe \/ UseJwt \/ Static \/ StaticFile \/ Use
           \/ Match \/ SetParams
  <2>1. /\ mode = "invoke" /\ (CallNext \/ Return \/ \E x : Throw(x))
        /\ Item.kind \in {"inject", "order", "pipe", "jwt", "static", "file", "use", "match", "params"}
    BY <1>4 DEF Inject, UseFilterOrder, UseGlobalPipe, UseJwt, Static, StaticFile, Use,
       Match, SetParams, Running
  <2>2. CASE CallNext
    <3>1. PICK a : a = at
      OBVIOUS
    <3>2. chain[a].kind \notin {"verify", "access", "body", "cors", "global", "filters"}
      BY <2>1, <3>1 DEF Item
    <3>3. LetsPass(a)'
      BY <1>1, <3>2, Zenon DEF LetsPass
    <3> QED
      BY <1>3, <2>1, <2>2, <3>1, <3>3, Zenon
  <2> QED
    BY <1>2, <2>1, <2>2, Zenon
<1>5. CASE UseFilter
  <2>1. /\ mode = "invoke" /\ CallNext /\ Item.kind = "filters"
        /\ ctx' = [ctx EXCEPT !.inject = TRUE, !.hooks = @ + 1]
    BY <1>5, Zenon DEF UseFilter, Running
  <2>2. ctx'.hooks > 0
    <3>1. ctx.hooks \in Nat /\ {"inject", "hooks"} \subseteq DOMAIN ctx
      BY TFacts DEF CtxOK, NewContext
    <3>2. ctx'.hooks = ctx.hooks + 1
      BY <2>1, <3>1
    <3> QED
      BY <3>1, <3>2
  <2>3. PICK a : a = at
    OBVIOUS
  <2>4. chain'[a].kind = "filters"
    BY <1>1, <2>1, <2>3, Zenon DEF Item
  <2>5. LetsPass(a)'
    BY <2>2, <2>4 DEF LetsPass
  <2> QED
    BY <1>3, <2>1, <2>3, <2>5, Zenon
<1>6. CASE UseGlobalFilter
  <2>1. /\ mode = "invoke" /\ CallNext /\ Item.kind = "global"
        /\ ctx' = [ctx EXCEPT !.globals = Append(@, Item.filter)]
    BY <1>6, Zenon DEF UseGlobalFilter, Running
  <2>2. ctx'.globals = Append(ctx.globals, Item.filter)
    BY <1>1, <2>1
  <2>3. Item.filter \in ToSet(ctx'.globals)
    <3>1. at \in DOMAIN chain /\ CaseAssumption(chain, req) /\ Item.kind = "global"
      BY <2>1, TFacts, ChainFacts DEF TInv
    <3>2. Item.filter \in DOMAIN Has /\ ctx.globals \in Seq(DOMAIN Has)
      BY <3>1, TFacts, Zenon DEF CaseAssumption, ItemAssumption, Item, CtxOK
    <3> DEFINE s == ctx.globals
               x == Item.filter
               t == Append(s, x)
    <3>3. s \in Seq(DOMAIN Has) /\ x \in DOMAIN Has
      BY <3>2
    <3> HIDE DEF s, x
    <3>4. Len(s) + 1 \in DOMAIN t /\ t[Len(s) + 1] = x
      BY <3>3
    <3>5. x \in ToSet(t)
      BY <3>4 DEF ToSet
    <3> QED
      BY <2>2, <3>5, Zenon DEF s, x
  <2>4. PICK a : a = at
    OBVIOUS
  <2>5. chain'[a].kind = "global" /\ chain'[a].filter \in ToSet(ctx'.globals)
    BY <1>1, <2>1, <2>3, <2>4, Zenon DEF Item
  <2>6. ToSet(ctx.globals)' = ToSet(ctx'.globals)
    BY DEF ToSet
  <2>7. LetsPass(a)'
    BY <2>5, <2>6 DEF LetsPass
  <2> QED
    BY <1>3, <2>1, <2>4, <2>7, Zenon
<1>7. CASE Cors
  <2>1. /\ mode = "invoke" /\ (CallNext \/ Return) /\ Item.kind = "cors"
        /\ CallNext => (IsPreflight /\ req.acrm => Item.origin = "rejects")
    BY <1>7 DEF Cors, Running, CallNext, Return
  <2>2. CASE CallNext
    <3>1. PICK a : a = at
      OBVIOUS
    <3>2. chain'[a].kind = "cors" /\ (IsPreflight' /\ req'.acrm => chain'[a].origin = "rejects")
      BY <1>1, <2>1, <2>2, <3>1, Zenon DEF Item
    <3>3. LetsPass(a)'
      BY <3>2 DEF LetsPass
    <3> QED
      BY <1>3, <2>1, <2>2, <3>1, <3>3, Zenon
  <2> QED
    BY <1>2, <2>1, <2>2, Zenon
<1>8. CASE BodyParser
  <2>1. /\ mode = "invoke" /\ Item.kind = "body"
        /\ \/ CallNext /\ (req.type = Item.type => Whole(req.payload))
           \/ Return \/ \E x : Throw(x)
    BY <1>8, Zenon DEF BodyParser, Running, Whole
  <2>2. CASE CallNext /\ (req.type = Item.type => Whole(req.payload))
    <3>1. PICK a : a = at
      OBVIOUS
    <3>2. chain'[a].kind = "body" /\ (req'.type = chain'[a].type => Whole(req'.payload))
      BY <1>1, <2>1, <2>2, <3>1, Zenon DEF Item
    <3>3. LetsPass(a)'
      BY <3>2 DEF LetsPass
    <3> QED
      BY <1>3, <2>1, <2>2, <3>1, <3>3, Zenon
  <2> QED
    BY <1>2, <2>1, <2>2, Zenon
<1>9. CASE JwtVerify
  <2>1. /\ mode = "invoke" /\ Item.kind = "verify" /\ ctx' = ctx
        /\ Return \/ (CallNext /\ (Item.skip \/ Verified(ctx.jwt, req.token)))
    BY <1>9, Zenon DEF JwtVerify, Running
  <2>2. CASE CallNext /\ (Item.skip \/ Verified(ctx.jwt, req.token))
    <3>1. PICK a : a = at
      OBVIOUS
    <3>2. Verified(ctx.jwt, req.token)' <=> Verified(ctx.jwt, req.token)
      BY <1>1, <2>1, Zenon DEF Verified
    <3>3. chain'[a].kind = "verify" /\ (chain'[a].skip \/ Verified(ctx.jwt, req.token)')
      BY <1>1, <2>1, <2>2, <3>1, <3>2, Zenon DEF Item
    <3>4. LetsPass(a)'
      BY <3>3 DEF LetsPass
    <3> QED
      BY <1>3, <2>1, <2>2, <3>1, <3>4, Zenon
  <2> QED
    BY <1>2, <2>1, <2>2, Zenon
<1>10. CASE JwtExtraAuth
  <2>1. /\ mode = "invoke" /\ Item.kind = "access" /\ (Return \/ (CallNext /\ Item.granted))
    BY <1>10, Zenon DEF JwtExtraAuth, Running
  <2>2. CASE CallNext /\ Item.granted
    <3>1. PICK a : a = at
      OBVIOUS
    <3>2. chain'[a].kind = "access" /\ chain'[a].granted
      BY <1>1, <2>1, <2>2, <3>1, Zenon DEF Item
    <3>3. LetsPass(a)'
      BY <3>2 DEF LetsPass
    <3> QED
      BY <1>3, <2>1, <2>2, <3>1, <3>3, Zenon
  <2> QED
    BY <1>2, <2>1, <2>2, Zenon
<1>11. CASE BlankAction \/ MakeAction
  <2>1. /\ mode = "enter" /\ at < Len(chain) /\ chain[at + 1].kind = "action" /\ mode' # "invoke"
        /\ at' = at \/ at' = at + 1
    BY <1>11 DEF BlankAction, MakeAction, ToAction
  <2>2. CASE at' = at
    <3>1. Reach' = Reach /\ Reach = at
      BY <2>1, <2>2 DEF Reach
    <3> QED
      BY <1>1, <3>1
  <2>3. CASE at' = at + 1
    <3>1. PICK a : a = at + 1
      OBVIOUS
    <3>2. chain'[a].kind = "action"
      BY <1>1, <2>1, <3>1
    <3>3. LetsPass(a)'
      BY <3>2 DEF LetsPass
    <3>4. a = Reach + 1 /\ Reach' = a
      BY <2>1, <2>3, <3>1 DEF Reach
    <3> QED
      BY <3>3, <3>4
  <2> QED
    BY <2>1, <2>2, <2>3
<1>12. CASE Enter
  <2>1. /\ mode = "enter"
        /\ (mode' = "invoke" /\ at' = at + 1) \/ (mode' = "leave" /\ at' = at)
    BY <1>12, Zenon DEF Enter
  <2>2. CASE mode' = "invoke" /\ at' = at + 1
    <3>1. Reach' = (at + 1) - 1 /\ Reach = at
      BY <2>1, <2>2 DEF Reach
    <3> QED
      BY <1>1, <3>1
  <2>3. CASE mode' = "leave" /\ at' = at
    <3>1. Reach' = at /\ Reach = at
      BY <2>1, <2>3 DEF Reach
    <3> QED
      BY <1>1, <3>1
  <2> QED
    BY <2>1, <2>2, <2>3
<1>13. CASE CorsAgain \/ Leave \/ Invoke \/ RunFilter \/ FiltersDone
            \/ CaughtByStartup \/ PassesThrough \/ CaughtByNext
  <2>1. mode # "invoke"
    BY <1>13 DEF CorsAgain, Leave, Invoke, RunFilter, FiltersDone, CaughtByStartup, PassesThrough,
       CaughtByNext
  <2>2. \/ CallNext \/ Return \/ \E x : Throw(x)
        \/ UNCHANGED <<mode, at>>
        \/ UNCHANGED at /\ mode' \in {"leave", "act", "filters"}
    BY <1>13, Zenon DEF CorsAgain, Leave, Invoke, Invoked, RunFilter, FiltersDone, CaughtByStartup,
       PassesThrough, CaughtByNext, ThrowOut, Unhandled
  <2>3. mode' # "invoke" /\ (at' = at \/ at' = at - 1)
    BY <2>1, <2>2 DEF CallNext, Return, Throw
  <2>4. Reach = at /\ Reach' = at'
    BY <2>1, <2>3 DEF Reach
  <2> QED
    BY <1>1, <2>3, <2>4
<1> QED
  BY <1>4, <1>5, <1>6, <1>7, <1>8, <1>9, <1>10, <1>11, <1>12, <1>13, Zenon DEF Serves

-----------------------------------------------------------------------------
(* How often the action and the functions of the filters ran.              *)

RanTo(f, fn, i) == {j \in 1 .. i : trail[j] = Event("filter", fn, f)}
RanAll(f, fn) == RanTo(f, fn, Len(trail))

LEMMA EventFields ==
  ASSUME NEW e, NEW fn, NEW by
  PROVE  Event(e, fn, by).e = e /\ Event(e, fn, by).fn = fn /\ Event(e, fn, by).by = by
BY DEF Event

LEMMA IntervalFacts ==
  ASSUME NEW n \in Nat, NEW S, S \subseteq 1 .. n
  PROVE  /\ IsFiniteSet(S) /\ Cardinality(S) \in Nat
         /\ n + 1 \notin S /\ Cardinality(S \cup {n + 1}) = Cardinality(S) + 1
<1>1. IsFiniteSet(1 .. n)
  BY FS_Interval
<1>2. IsFiniteSet(S)
  BY <1>1, FS_Subset, Zenon
<1>3. Cardinality(S) \in Nat
  BY <1>2, FS_CardinalityType
<1>4. n + 1 \notin S
  OBVIOUS
<1>5. Cardinality(S \cup {n + 1}) = Cardinality(S) + 1
  BY <1>2, <1>4, FS_AddElement
<1> QED
  BY <1>2, <1>3, <1>4, <1>5

\* An event of the trail counts once.
LEMMA CountFacts ==
  ASSUME TypeOK, NEW e, NEW g, NEW by, Note(e, g, by), NEW f, NEW fn
  PROVE  /\ Cardinality(Acts) \in Nat /\ Cardinality(RanAll(f, fn)) \in Nat
         /\ e # "act" => Acts' = Acts
         /\ e = "act" => Cardinality(Acts)' = Cardinality(Acts) + 1
         /\ e # "filter" => Cardinality(RanAll(f, fn))' = Cardinality(RanAll(f, fn))
         /\ Cardinality(RanAll(f, fn))' \in {Cardinality(RanAll(f, fn)), Cardinality(RanAll(f, fn)) + 1}
         /\ e = "filter" /\ g = fn /\ by = f => Cardinality(RanAll(f, fn))' = Cardinality(RanAll(f, fn)) + 1
         /\ \A i \in Acts : PassedBefore(f, fn, i) => PassedBefore(f, fn, i)'
         /\ e = "act" /\ Cardinality(RanAll(f, fn)) >= Cardinality(Acts) + 1 =>
              \A i \in Acts' : i \in Acts \/ PassedBefore(f, fn, i)'
<1> DEFINE n == Len(trail)
           A == Acts
           R == RanAll(f, fn)
<1>1. /\ DOMAIN trail = 1 .. n /\ n \in Nat /\ Len(trail') = n + 1 /\ DOMAIN trail' = 1 .. n + 1
      /\ \A i \in 1 .. n : trail'[i] = trail[i]
      /\ trail'[n + 1] = Event(e, g, by) /\ trail'[n + 1].e = e
  BY TrailFacts
<1>2. n \in Nat
  BY <1>1
<1>3. A = {i \in 1 .. n : trail[i].e = "act"} /\ R = {j \in 1 .. n : trail[j] = Event("filter", fn, f)}
  BY <1>1, Zenon DEF Acts, RanAll, RanTo
<1>4. /\ Acts' = {i \in 1 .. n + 1 : trail'[i].e = "act"}
      /\ RanAll(f, fn)' = {j \in 1 .. n + 1 : trail'[j] = Event("filter", fn, f)}
  BY <1>1, Zenon DEF Acts, RanAll, RanTo
<1>5. A \subseteq 1 .. n /\ R \subseteq 1 .. n
  BY <1>3
<1> HIDE DEF n, A, R
<1>6. /\ 1 .. n + 1 = (1 .. n) \cup {n + 1} /\ n + 1 \notin 1 .. n
  BY <1>2
<1>7. e # "act" => Acts' = A
  BY <1>1, <1>3, <1>4, <1>6
<1>8. e = "act" => Acts' = A \cup {n + 1}
  BY <1>1, <1>3, <1>4, <1>6
<1>9. Event(e, g, by) # Event("filter", fn, f) => RanAll(f, fn)' = R
  BY <1>1, <1>3, <1>4, <1>6
<1>10. Event(e, g, by) = Event("filter", fn, f) => RanAll(f, fn)' = R \cup {n + 1}
  BY <1>1, <1>3, <1>4, <1>6
<1>11. /\ IsFiniteSet(A) /\ Cardinality(A) \in Nat /\ Cardinality(A \cup {n + 1}) = Cardinality(A) + 1
       /\ IsFiniteSet(R) /\ Cardinality(R) \in Nat /\ Cardinality(R \cup {n + 1}) = Cardinality(R) + 1
  BY <1>2, <1>5, IntervalFacts
<1>12. /\ e # "filter" => Event(e, g, by) # Event("filter", fn, f)
       /\ e = "filter" /\ g = fn /\ by = f => Event(e, g, by) = Event("filter", fn, f)
  <2>1. Event(e, g, by).e = e /\ Event("filter", fn, f).e = "filter"
    BY EventFields
  <2>2. e # "filter" => Event(e, g, by) # Event("filter", fn, f)
    BY <2>1, Zenon
  <2> QED
    BY <2>2, Zenon
<1>13. Cardinality(Acts)' = Cardinality(Acts') /\ Cardinality(RanAll(f, fn))' = Cardinality(RanAll(f, fn)')
  OBVIOUS
<1>14. ASSUME NEW i \in A, PassedBefore(f, fn, i) PROVE PassedBefore(f, fn, i)'
  <2>1. i \in 1 .. n
    BY <1>5
  <2>2. {j \in 1 .. i : trail[j] = Event("filter", fn, f)} = {j \in 1 .. i : trail'[j] = Event("filter", fn, f)}
    <3>1. \A j \in 1 .. i : j \in 1 .. n
      BY <1>2, <2>1
    <3> QED
      BY <1>1, <3>1
  <2>3. {j \in A : j <= i} = {j \in Acts' : j <= i}
    BY <1>2, <1>5, <1>7, <1>8, <2>1
  <2> QED
    BY <1>14, <2>2, <2>3, Zenon DEF PassedBefore, A
<1>15. ASSUME e = "act", Cardinality(R) >= Cardinality(A) + 1, NEW m, m = n + 1
       PROVE  PassedBefore(f, fn, m)'
  <2>1. RanAll(f, fn)' = R /\ Acts' = A \cup {n + 1}
    BY <1>8, <1>9, <1>12, <1>15
  <2>2. {j \in 1 .. m : trail'[j] = Event("filter", fn, f)} = R
    BY <1>4, <1>15, <2>1
  <2>3. {j \in Acts' : j <= m} = A \cup {n + 1}
    <3> DEFINE B == A \cup {n + 1}
    <3>1. \A j \in B : j <= n + 1
      BY <1>2, <1>5
    <3>2. Acts' = B
      BY <2>1
    <3> HIDE DEF B
    <3>3. {j \in B : j <= n + 1} = B
      BY <3>1
    <3> QED
      BY <1>15, <3>2, <3>3, Zenon DEF B
  <2>4. Cardinality(R) >= Cardinality(A \cup {n + 1})
    BY <1>11, <1>15
  <2> QED
    BY <2>2, <2>3, <2>4, Zenon DEF PassedBefore
<1>16. e = "act" /\ Cardinality(R) >= Cardinality(A) + 1 =>
         \A i \in Acts' : i \in A \/ PassedBefore(f, fn, i)'
  BY <1>8, <1>15
<1>17. e = "act" => Cardinality(Acts') = Cardinality(A) + 1
  BY <1>8, <1>11
<1>18. /\ e # "filter" => Cardinality(RanAll(f, fn)') = Cardinality(R)
       /\ Cardinality(RanAll(f, fn)') \in {Cardinality(R), Cardinality(R) + 1}
       /\ e = "filter" /\ g = fn /\ by = f => Cardinality(RanAll(f, fn)') = Cardinality(R) + 1
  BY <1>9, <1>10, <1>11, <1>12
<1> QED
  BY <1>7, <1>11, <1>13, <1>14, <1>16, <1>17, <1>18, Zenon DEF A, R

OtherKinds == {"threw", "told", "wrote", "refused", "handled"}

LEMMA TrailKinds ==
  ASSUME TInv, Serves
  PROVE  \/ trail' = trail
         \/ \E e \in OtherKinds : \E fn, by : Note(e, fn, by)
         \/ RunFilter /\ RunsOne
         \/ Invoke /\ \E fn, by : Note("act", fn, by)
<1>1. {"threw", "told", "wrote", "refused", "handled"} \subseteq OtherKinds
  BY DEF OtherKinds
<1>2. CASE Inject \/ UseFilter \/ UseGlobalFilter \/ UseFilterOrder \/ UseGlobalPipe
           \/ Cors \/ UseJwt \/ SetParams \/ BlankAction \/ Enter
  BY <1>1, <1>2, Zenon DEF Inject, UseFilter, UseGlobalFilter, UseFilterOrder, UseGlobalPipe, Cors,
     UseJwt, SetParams, BlankAction, Enter, Quiet, OtherKinds
<1>3. CASE CorsAgain \/ BodyParser \/ JwtVerify \/ JwtExtraAuth \/ Static \/ StaticFile \/ Match \/ Use \/ Leave
  BY <1>3, Zenon DEF CorsAgain, BodyParser, JwtVerify, JwtExtraAuth, Static, StaticFile, Match, Use, Leave,
     OtherKinds
<1>4. CASE RunFilter
  BY <1>4, Zenon DEF RunFilter, ThrowOut, Unhandled, RunsOne, Note, OtherKinds
<1>5. CASE FiltersDone \/ CaughtByStartup \/ PassesThrough \/ CaughtByNext
  BY <1>5, Zenon DEF FiltersDone, CaughtByStartup, PassesThrough, CaughtByNext, ThrowOut, Unhandled, Note,
     OtherKinds
<1>6. CASE Invoke \/ MakeAction
  BY <1>6, InvokeCases, MakeActionCases, Zenon DEF OtherKinds
<1> QED
  BY <1>2, <1>3, <1>4, <1>5, <1>6, Zenon DEF Serves

LEMMA RouteStays ==
  ASSUME TInv, Serves, ctx.route.found = "route"
  PROVE  ctx'.route = ctx.route
<1>1. {"route", "params", "made", "args", "inject", "hooks", "globals", "orders", "pipes", "jwt", "body", "read"} \subseteq DOMAIN ctx
  BY TFacts DEF CtxOK, NewContext
<1>2. CASE Match
  <2> DEFINE r == Route(Item.map, Item.prefix, Item.custom, Asked)
  <2>1. ctx' = [ctx EXCEPT !.route = r] /\ Running("match")
    BY <1>2, Zenon DEF Match
  <2>2. ctx.route = NoRoute \/ ctx.route = r
    BY <2>1, MatchOnce, Zenon
  <2> HIDE DEF r
  <2>3. NoRoute.found # "route"
    BY DEF NoRoute
  <2>4. ctx'.route = r
    BY <1>1, <2>1
  <2> QED
    BY <2>2, <2>3, <2>4, Zenon
<1>3. CASE MakeAction
  <2>1. \E v, w : ctx' = [ctx EXCEPT !.made = v, !.args = w]
    BY <1>3, MakeActionCases
  <2> QED
    BY <1>1, <2>1
<1>4. CASE UNCHANGED ctx
  BY <1>4
<1>5. CASE Prepares
  BY <1>1, <1>5 DEF Prepares
<1> QED
  BY <1>2, <1>3, <1>4, <1>5, CtxSteps

LEMMA ActionIsOne ==
  ASSUME TInv, NEW k \in Behind("action")
  PROVE  ActionAt = k /\ k \in 1 .. Len(chain) /\ Len(chain) \in Nat
<1>1. CaseAssumption(chain, req) /\ DOMAIN chain = 1 .. Len(chain) /\ Len(chain) \in Nat
  BY ChainFacts DEF TInv
<1>2. \A l \in Behind("action") : l = k
  BY <1>1, Zenon DEF CaseAssumption, Behind
<1>3. ActionAt \in Behind("action")
  BY Zenon DEF ActionAt
<1>4. k \in DOMAIN chain
  BY Zenon DEF Behind
<1> QED
  BY <1>1, <1>2, <1>3, <1>4

GInv == \A k \in 1 .. Reach : LetsPass(k)
WInv == mode = "act" \/ (mode = "filters" /\ todo.fn # "onException") => at \in Behind("action")
ActedInv == Acts # {} =>
  /\ ctx.route.found = "route" /\ Behind("action") # {}
  /\ \A k \in 1 .. ActionAt - 1 : LetsPass(k)

LEMMA GInvSteps ==
  ASSUME TInv, OneToken, GInv, Serves
  PROVE  GInv'
<1>1. Reach \in Int /\ Reach' \in Int
  <2>1. at \in 0 .. Len(chain) /\ Len(chain) \in Nat
    BY TFacts
  <2>2. at' \in 0 .. Len(chain')
    BY ServesKeeps, Zenon DEF Kept, TInv, TypeOK
  <2>3. Len(chain') \in Nat
    BY <2>1, ServesGrow DEF Same
  <2>4. at \in Int
    BY <2>1
  <2>5. at' \in Int
    BY <2>2, <2>3
  <2> QED
    BY <2>4, <2>5 DEF Reach
<1>2. \A k : LetsPass(k) => LetsPass(k)'
  BY PassStays
<1>3. CASE Reach' <= Reach
  <2>1. \A k \in 1 .. Reach' : k \in 1 .. Reach
    BY <1>1, <1>3
  <2>2. \A k \in 1 .. Reach' : LetsPass(k)'
    BY <1>2, <2>1, Zenon DEF GInv
  <2> QED
    BY <2>2, Zenon DEF GInv
<1>4. CASE \E k : k = Reach + 1 /\ Reach' = k /\ LetsPass(k)'
  <2>1. PICK a : a = Reach + 1 /\ Reach' = a /\ LetsPass(a)'
    BY <1>4
  <2>2. \A k \in 1 .. Reach' : k \in 1 .. Reach \/ k = a
    BY <1>1, <2>1
  <2>3. \A k \in 1 .. Reach' : LetsPass(k)'
    BY <1>2, <2>1, <2>2, Zenon DEF GInv
  <2> QED
    BY <2>3, Zenon DEF GInv
<1> QED
  BY <1>3, <1>4, ReachSteps

LEMMA WInvSteps ==
  ASSUME TInv, WInv, Serves
  PROVE  WInv'
<1>1. Behind("action")' = Behind("action")
  BY ServesGrow, SameFacts
<1>2. CASE ~Works
  BY <1>2, OthersLeave DEF WInv
<1>3. CASE MakeAction
  <2>1. /\ at < Len(chain) /\ chain[at + 1].kind = "action"
        /\ mode' = "caught" \/ at' = at + 1
    BY <1>3, Zenon DEF MakeAction, ToAction
  <2>2. at + 1 \in Behind("action")
    <3>1. at \in 0 .. Len(chain) /\ Len(chain) \in Nat /\ DOMAIN chain = 1 .. Len(chain)
      BY TFacts, ChainFacts DEF TInv
    <3>2. at + 1 \in DOMAIN chain
      BY <2>1, <3>1
    <3> QED
      BY <2>1, <3>2 DEF Behind
  <2> QED
    BY <1>1, <2>1, <2>2 DEF WInv
<1>4. CASE Invoke
  <2>1. mode = "act" /\ (mode' \in {"caught", "leave"} \/ at' = at)
    BY <1>4, InvokeCases, Zenon
  <2> QED
    BY <1>1, <2>1 DEF WInv
<1>5. CASE RunFilter
  <2>1. CASE RunsOne
    <3>1. todo'.fn = todo.fn /\ mode' = mode /\ at' = at
      BY <2>1 DEF RunsOne
    <3> QED
      BY <1>1, <2>1, <3>1, Zenon DEF WInv
  <2>2. CASE Starts("onException", TRUE, todo.left - 1)
    <3>1. mode' = "filters" /\ todo'.fn = "onException"
      BY <2>2, StartsFacts, Zenon
    <3> QED
      BY <3>1 DEF WInv
  <2>3. CASE mode' \in {"leave", "caught"}
    BY <2>3 DEF WInv
  <2> QED
    BY <1>5, <2>1, <2>2, <2>3, RunFilterCases, Zenon
<1>6. CASE FiltersDone
  <2>1. CASE mode' = "leave"
    BY <2>1 DEF WInv
  <2>2. CASE mode = "filters" /\ at' = at /\ todo.fn # "onException"
    BY <1>1, <2>2 DEF WInv
  <2>3. CASE /\ todo.fn = "onException"
             /\ Starts(FirstFunction(todo.fn), Executing(todo.fn), todo.left - 1)
    <3>1. mode' = "filters" /\ todo'.fn = "onException"
      BY <2>3, StartsFacts, NameFacts, Zenon
    <3> QED
      BY <3>1 DEF WInv
  <2>4. mode = "filters" /\ Before3[3] # "onException" /\ NextFunction("onException") = "-"
    BY <1>6, FiltersDoneCases, NameFacts
  <2> QED
    BY <1>6, <2>1, <2>2, <2>3, <2>4, FiltersDoneCases, Zenon DEF Starts
<1>7. CASE CaughtByNext
  <2>1. mode' = "leave" \/ (mode' = "filters" /\ todo'.fn = "onException")
    BY <1>7, CaughtByNextCases, StartsFacts, Zenon
  <2> QED
    BY <2>1 DEF WInv
<1> QED
  BY <1>2, <1>3, <1>4, <1>5, <1>6, <1>7, Zenon DEF Works

\* All guards ahead of the action that runs let the request pass.
LEMMA AllPassed ==
  ASSUME TInv, GInv, at \in Behind("action"), mode # "invoke"
  PROVE  ActionAt = at /\ \A k \in 1 .. ActionAt - 1 : LetsPass(k)
<1>1. ActionAt = at /\ at \in Nat
  BY ActionIsOne
<1>2. Reach = at
  BY DEF Reach
<1> QED
  BY <1>1, <1>2 DEF GInv

LEMMA ActedSteps ==
  ASSUME TInv, OneToken, GInv, WInv, ActedInv, Serves
  PROVE  ActedInv'
<1> SUFFICES ASSUME Acts' # {}
             PROVE  /\ ctx'.route.found = "route" /\ Behind("action")' # {}
                    /\ \A k \in 1 .. (ActionAt - 1)' : LetsPass(k)'
  BY Zenon DEF ActedInv
<1>1. ActionAt' = ActionAt
  <2>1. Behind("action")' = Behind("action")
    BY ServesGrow, SameFacts
  <2> QED
    BY <2>1, Zenon DEF ActionAt
<1>2. /\ ctx.route.found = "route" /\ Behind("action") # {}
      /\ \A k \in 1 .. ActionAt - 1 : LetsPass(k)
  <2>1. CASE Acts # {}
    BY <2>1, Zenon DEF ActedInv
  <2>2. CASE Acts = {}
    <3>1. ASSUME NEW e, NEW fn, NEW by, Note(e, fn, by) PROVE e # "act" => Acts' = Acts
      <4>1. TypeOK
        BY Zenon DEF TInv
      <4> QED
        BY <3>1, <4>1, CountFacts
    <3>2. trail' = trail => Acts' = Acts
      BY Zenon DEF Acts
    <3>3. Invoke
      <4>1. (\A e \in OtherKinds : e # "act" /\ e # "filter") /\ "filter" # "act"
        BY DEF OtherKinds
      <4>2. ~\E e \in OtherKinds : \E fn, by : Note(e, fn, by)
        BY <2>2, <3>1, <4>1
      <4>3. ~RunsOne
        BY <2>2, <3>1, <4>1, Zenon DEF RunsOne
      <4> QED
        BY <2>2, <3>2, <4>2, <4>3, TrailKinds
    <3>4. mode = "act" /\ ctx.route.found = "route"
      BY <3>3, TFacts DEF Invoke
    <3>5. at \in Behind("action")
      BY <3>4 DEF WInv
    <3>6. \A k \in 1 .. ActionAt - 1 : LetsPass(k)
      BY <3>4, <3>5, AllPassed
    <3> QED
      BY <3>4, <3>5, <3>6, Zenon
  <2> QED
    BY <2>1, <2>2
<1>3. ctx'.route = ctx.route
  BY <1>2, RouteStays
<1>4. \A k : LetsPass(k) => LetsPass(k)'
  BY PassStays
<1>5. Behind("action")' = Behind("action")
  BY ServesGrow, SameFacts
<1>6. \A k \in 1 .. (ActionAt - 1)' : k \in 1 .. ActionAt - 1
  BY <1>1
<1> QED
  BY <1>2, <1>3, <1>4, <1>5, <1>6, Zenon

LEMMA AheadPassed ==
  ASSUME TInv, Behind("action") # {}, \A k \in 1 .. ActionAt - 1 : LetsPass(k),
         NEW kind, NEW k \in Ahead(kind)
  PROVE  LetsPass(k) /\ chain[k].kind = kind
<1>1. PICK a \in Behind("action") : TRUE
  OBVIOUS
<1>2. ActionAt = a /\ a \in Nat
  BY ActionIsOne
<1>3. k \in Behind(kind) /\ k < ActionAt
  BY Zenon DEF Ahead
<1>4. k \in DOMAIN chain /\ chain[k].kind = kind
  BY <1>3, Zenon DEF Behind
<1>5. DOMAIN chain = 1 .. Len(chain) /\ Len(chain) \in Nat
  BY ChainFacts DEF TInv
<1>6. k \in 1 .. ActionAt - 1
  <2>1. k \in 1 .. Len(chain)
    BY <1>4, <1>5
  <2> QED
    BY <1>2, <1>3, <2>1
<1> QED
  BY <1>4, <1>6

\* Every filter that applies is in the list of its functions.
LEMMA Queued ==
  ASSUME TInv, ctx.route.found = "route", Behind("action") # {},
         \A k \in 1 .. ActionAt - 1 : LetsPass(k),
         NEW f, Applies(f), NEW fn, fn \in Has[f], NEW executing
  PROVE  f \in ToSet(FiltersFor(fn, executing))
<1>1. f \in ToSet(ctx.globals) \cup ToSet(Class.used)
  <2>1. CASE \E k \in Ahead("global") : chain[k].filter = f
    <3>1. PICK k \in Ahead("global") : chain[k].filter = f
      BY <2>1
    <3>2. LetsPass(k) /\ chain[k].kind = "global"
      BY AheadPassed
    <3>3. f \in ToSet(ctx.globals)
      BY <3>1, <3>2, Zenon DEF LetsPass
    <3> QED
      BY <3>3
  <2>2. CASE \E k \in DOMAIN Class.used : Class.used[k] = f
    BY <2>2 DEF ToSet
  <2> QED
    BY <2>1, <2>2, Zenon DEF Applies
<1>2. ToSet(FiltersFor(fn, executing)) = {g \in ToSet(ctx.globals) \cup ToSet(Class.used) : fn \in Has[g]}
  <2> DEFINE x == Exec(fn, executing, 0)
  <2>1. x.queue = FiltersFor(fn, executing)
    BY DEF Exec
  <2>2. ToSet(x.queue) = {g \in ToSet(ctx.globals) \cup ToSet(Class.used) : fn \in Has[g]}
    BY ExecFacts DEF TInv
  <2> QED
    BY <2>1, <2>2, Zenon
<1> QED
  BY <1>1, <1>2

\* The function n of filter f ran once more than the action did.
Due(f, n) ==
  \/ mode = "act"
  \/ mode = "filters" /\ \E m \in 1 .. 3 :
       todo.fn = Before3[m] /\ (n < m \/ (n = m /\ f \notin ToSet(todo.queue)))

LEMMA BeforeNames ==
  /\ \A m, n \in 1 .. 3 : Before3[m] = Before3[n] => m = n
  /\ \A m \in 1 .. 3 : Before3[m] \in Befores
  /\ \A m \in 1 .. 3 : NextFunction(Before3[m]) # "-" =>
       m + 1 \in 1 .. 3 /\ NextFunction(Before3[m]) = Before3[m + 1]
<1>1. 1 .. 3 = {1, 2, 3}
  OBVIOUS
<1>2. /\ Before3[1] = "onAuthorization" /\ Before3[2] = "onResourceExecuting" /\ Before3[3] = "onActionExecuting"
  BY DEF Before3
<1> QED
  BY <1>1, <1>2, NameFacts DEF Befores

LEMMA TailOnly ==
  ASSUME NEW S, NEW s \in Seq(S), s # << >>, NEW x \in ToSet(s), x # Head(s)
  PROVE  x \in ToSet(Tail(s))
<1>1. PICK i \in 1 .. Len(s) : s[i] = x
  BY DEF ToSet
<1>2. i # 1 /\ Len(s) \in Nat
  BY <1>1
<1>3. Tail(s) \in Seq(S) /\ Len(Tail(s)) = Len(s) - 1 /\ \A j \in 1 .. Len(s) - 1 : Tail(s)[j] = s[j + 1]
  OBVIOUS
<1>4. i - 1 \in 1 .. Len(s) - 1 /\ (i - 1) + 1 = i
  <2> DEFINE n == Len(s)
  <2>1. n \in Nat /\ i \in 1 .. n
    BY <1>2
  <2> HIDE DEF n
  <2>2. i - 1 \in 1 .. n - 1 /\ (i - 1) + 1 = i
    BY <1>2, <2>1
  <2> QED
    BY <2>2 DEF n
<1>5. Tail(s)[i - 1] = x /\ i - 1 \in DOMAIN Tail(s)
  BY <1>1, <1>3, <1>4
<1> QED
  BY <1>5, Zenon DEF ToSet

LEMMA DueSteps ==
  ASSUME TInv, GInv, WInv, Serves, ctx.route.found = "route", Ahead("filters") # {},
         NEW f, NEW n \in 1 .. 3, Applies(f), Before3[n] \in Has[f], Due(f, n)'
  PROVE  \/ Due(f, n) /\ (RunFilter \/ FiltersDone)
         \/ RunFilter /\ RunsOne /\ todo.fn = Before3[n] /\ Head(todo.queue) = f
<1>1. Ready'
  BY BeforeNames, Zenon DEF Due, Ready
<1>2. CASE MakeAction
  <2>1. /\ at < Len(chain) /\ chain[at + 1].kind = "action" /\ mode = "enter"
        /\ mode' # "caught"
    BY <1>1, <1>2 DEF MakeAction, ToAction, Ready
  <2>2. at + 1 \in Behind("action") /\ at \in Nat
    <3>1. at \in 0 .. Len(chain) /\ Len(chain) \in Nat /\ DOMAIN chain = 1 .. Len(chain)
      BY TFacts, ChainFacts DEF TInv
    <3>2. at + 1 \in DOMAIN chain
      BY <2>1, <3>1
    <3> QED
      BY <2>1, <3>1, <3>2 DEF Behind
  <2>3. ActionAt = at + 1
    BY <2>2, ActionIsOne
  <2>4. \A k \in 1 .. ActionAt - 1 : LetsPass(k)
    BY <2>1, <2>2, <2>3 DEF GInv, Reach
  <2>5. ctx.hooks > 0
    <3>1. PICK k \in Ahead("filters") : TRUE
      OBVIOUS
    <3>2. LetsPass(k) /\ chain[k].kind = "filters"
      BY <2>2, <2>4, AheadPassed
    <3> QED
      BY <3>2 DEF LetsPass
  <2>6. mode' = "filters" /\ todo' = Exec(Before3[1], TRUE, ctx.hooks - 1)
    BY <1>2, <2>1, <2>5, MakeActionCases, Zenon
  <2>7. todo'.fn = Before3[1] /\ todo'.queue = FiltersFor(Before3[1], TRUE)
    BY <2>6 DEF Exec
  <2>8. PICK m \in 1 .. 3 : Before3[1] = Before3[m] /\ (n < m \/ (n = m /\ f \notin ToSet(todo'.queue)))
    <3>1. ToSet(todo.queue)' = ToSet(todo'.queue)
      BY DEF ToSet
    <3>2. "filters" # "act"
      OBVIOUS
    <3> QED
      BY <2>6, <2>7, <3>1, <3>2, Zenon DEF Due
  <2>9. m = 1
    BY <2>8, BeforeNames
  <2>10. n = 1 /\ f \notin ToSet(todo'.queue)
    BY <2>8, <2>9
  <2>11. f \in ToSet(todo'.queue)
    <3>1. Before3[1] \in Has[f] /\ Behind("action") # {}
      BY <2>2, <2>10
    <3>2. f \in ToSet(FiltersFor(Before3[1], TRUE))
      BY <2>4, <3>1, Queued
    <3> QED
      BY <2>7, <3>2
  <2> QED
    BY <2>10, <2>11
<1>3. CASE Ready /\ RunFilter
  <2>1. RunsOne
    <3>1. mode' \in {"leave", "caught"} \/ RunsOne \/ (mode' = "filters" /\ todo'.fn = "onException")
      BY <1>3, RunFilterCases, StartsFacts, Zenon
    <3> QED
      BY <1>1, <3>1, NameFacts DEF Ready
  <2>2. TodoOK
    BY TFacts
  <2>3. todo'.fn = todo.fn /\ todo'.queue = Tail(todo.queue) /\ mode = "filters" /\ mode' = "filters"
    <3>1. {"queue", "ran"} \subseteq DOMAIN todo
      BY <2>2 DEF TodoOK, Idle
    <3> QED
      BY <2>1, <3>1 DEF RunsOne
  <2>4. PICK m \in 1 .. 3 : todo.fn = Before3[m] /\ (n < m \/ (n = m /\ f \notin ToSet(Tail(todo.queue))))
    <3>1. ToSet(todo.queue)' = ToSet(todo'.queue)
      BY DEF ToSet
    <3>2. "filters" # "act"
      OBVIOUS
    <3> QED
      BY <2>3, <3>1, <3>2, Zenon DEF Due
  <2>5. CASE n < m \/ (n = m /\ f \notin ToSet(todo.queue))
    BY <1>3, <2>3, <2>4, <2>5, Zenon DEF Due
  <2>6. CASE n = m /\ f \notin ToSet(Tail(todo.queue)) /\ f \in ToSet(todo.queue)
    <3> DEFINE q == todo.queue
    <3>1. q \in Seq(DOMAIN Has) /\ q # << >>
      BY <2>1, <2>2 DEF TodoOK, RunsOne
    <3>2. f \in ToSet(q) /\ f \notin ToSet(Tail(q))
      BY <2>6
    <3> HIDE DEF q
    <3>3. f = Head(q)
      BY <3>1, <3>2, TailOnly, Zenon
    <3> QED
      BY <1>3, <2>1, <2>4, <2>6, <3>3 DEF q
  <2> QED
    BY <2>4, <2>5, <2>6
<1>4. CASE Ready /\ FiltersDone
  <2>1. mode = "filters" /\ todo.queue = << >> /\ at # 0
    BY <1>4, TFacts DEF FiltersDone
  <2>2. PICK m \in 1 .. 3 : todo.fn = Before3[m]
    BY <1>4, <2>1, NameFacts DEF Ready, Befores
  <2>3. n <= m => Due(f, n)
    <3>1. ToSet(todo.queue) = {}
      BY <2>1 DEF ToSet
    <3> QED
      BY <2>1, <2>2, <3>1 DEF Due
  <2>4. CASE mode' = "act" /\ todo.fn = Before3[3]
    <3>1. 3 \in 1 .. 3 /\ Before3[m] = Before3[3]
      BY <2>2, <2>4
    <3>2. m = 3
      BY <3>1, BeforeNames, Zenon
    <3> QED
      BY <1>4, <2>3, <3>2
  <2>5. at \in Behind("action")
    <3>1. todo.fn # "onException"
      BY <2>2, BeforeNames, NameFacts
    <3> QED
      BY <2>1, <3>1 DEF WInv
  <2>6. \A k \in 1 .. ActionAt - 1 : LetsPass(k)
    BY <2>1, <2>5, AllPassed
  <2>7. ASSUME NEW k \in 1 .. 3, NEW executing, NEW left, Starts(Before3[k], executing, left)
        PROVE  n < k
    <3>1. mode' = "filters" /\ todo'.fn = Before3[k] /\ todo'.queue = FiltersFor(Before3[k], executing)
      BY <2>7, StartsFacts, Zenon
    <3>2. PICK l \in 1 .. 3 : todo'.fn = Before3[l] /\ (n < l \/ (n = l /\ f \notin ToSet(todo'.queue)))
      <4>1. ToSet(todo.queue)' = ToSet(todo'.queue)
        BY DEF ToSet
      <4>2. "filters" # "act"
        OBVIOUS
      <4> QED
        BY <3>1, <4>1, <4>2, Zenon DEF Due
    <3>3. l = k
      BY <3>1, <3>2, BeforeNames
    <3>4. n = k => f \in ToSet(todo'.queue)
      BY <2>5, <2>6, <3>1, Queued
    <3> QED
      BY <3>2, <3>3, <3>4
  <2>8. CASE /\ NextFunction(todo.fn) # "-"
             /\ Starts(NextFunction(todo.fn), Executing(todo.fn), todo.left)
    <3>1. m + 1 \in 1 .. 3 /\ NextFunction(todo.fn) = Before3[m + 1]
      BY <2>2, <2>8, BeforeNames
    <3>2. n < m + 1
      BY <2>7, <2>8, <3>1
    <3> QED
      BY <1>4, <2>3, <3>2
  <2>9. CASE /\ NextFunction(todo.fn) = "-"
             /\ Starts(FirstFunction(todo.fn), Executing(todo.fn), todo.left - 1)
    <3>1. FirstFunction(todo.fn) = Before3[1]
      <4>1. todo.fn \in Befores
        BY <2>2, BeforeNames
      <4> QED
        BY <2>9, <4>1, NameFacts, Zenon
    <3>2. n < 1
      BY <2>7, <2>9, <3>1
    <3> QED
      BY <3>2
  <2>10. mode' # "leave"
    BY <1>1 DEF Ready
  <2> QED
    BY <1>4, <2>4, <2>8, <2>9, <2>10, FiltersDoneCases, Zenon
<1> QED
  BY <1>1, <1>2, <1>3, <1>4, ReadyStays

\* Function n of filter f ran for every time the action did, and ahead of it.
Enough(f, n) ==
  /\ Cardinality(RanAll(f, Before3[n])) >= Cardinality(Acts)
  /\ Due(f, n) => Cardinality(RanAll(f, Before3[n])) >= Cardinality(Acts) + 1
  /\ \A i \in Acts : PassedBefore(f, Before3[n], i)
CInv == ctx.route.found = "route" /\ Ahead("filters") # {} =>
  \A f \in DOMAIN Has : \A n \in 1 .. 3 : Applies(f) /\ Before3[n] \in Has[f] => Enough(f, n)

LEMMA CountStays ==
  ASSUME TypeOK, NEW e, NEW g, NEW by, Note(e, g, by), e # "act", e # "filter", NEW f, NEW fn
  PROVE  /\ Acts' = Acts /\ Cardinality(RanAll(f, fn))' = Cardinality(RanAll(f, fn))
         /\ \A i \in Acts : PassedBefore(f, fn, i) => PassedBefore(f, fn, i)'
<1>1. Acts' = Acts
  BY CountFacts
<1>2. Cardinality(RanAll(f, fn))' = Cardinality(RanAll(f, fn))
  BY CountFacts
<1>3. \A i \in Acts : PassedBefore(f, fn, i) => PassedBefore(f, fn, i)'
  BY CountFacts
<1> QED
  BY <1>1, <1>2, <1>3

LEMMA EnoughStays ==
  ASSUME TInv, GInv, WInv, Serves, ctx.route.found = "route", Ahead("filters") # {},
         NEW f, NEW n \in 1 .. 3, Applies(f), Before3[n] \in Has[f], Enough(f, n)
  PROVE  Enough(f, n)'
<1> DEFINE fn == Before3[n]
           R == Cardinality(RanAll(f, fn))
           A == Cardinality(Acts)
<1>1. TypeOK /\ fn' = fn
  BY Zenon DEF TInv, Before3
<1>2. /\ R >= A /\ (Due(f, n) => R >= A + 1) /\ \A i \in Acts : PassedBefore(f, fn, i)
  BY Zenon DEF Enough
<1>3. ASSUME NEW r, NEW a, r = R', a = A', r >= a, Due(f, n)' => r >= a + 1,
             \A i \in Acts' : PassedBefore(f, fn, i)'
      PROVE  Enough(f, n)'
  BY <1>1, <1>3, Zenon DEF Enough
<1>4. Due(f, n)' => \/ Due(f, n) /\ (RunFilter \/ FiltersDone)
                    \/ RunFilter /\ RunsOne /\ todo.fn = fn /\ Head(todo.queue) = f
  BY DueSteps
<1> HIDE DEF fn
<1>5. CASE ~RunsOne /\ ~Invoke
  <2>1. Acts' = Acts /\ R' = R /\ \A i \in Acts : PassedBefore(f, fn, i)'
    <3>1. CASE trail' = trail
      <4>1. Acts' = Acts
        BY <3>1, Zenon DEF Acts
      <4>2. RanAll(f, fn)' = RanAll(f, fn)
        BY <1>1, <3>1, Zenon DEF RanAll, RanTo
      <4>3. \A i \in Acts : PassedBefore(f, fn, i)'
        BY <1>1, <1>2, <3>1, <4>1, Zenon DEF PassedBefore
      <4> QED
        BY <4>1, <4>2, <4>3, Zenon
    <3>2. CASE \E e \in OtherKinds : \E g, by : Note(e, g, by)
      <4>1. PICK e \in OtherKinds : \E g, by : Note(e, g, by)
        BY <3>2
      <4>2. PICK g, by : Note(e, g, by)
        BY <4>1
      <4>3. e # "act" /\ e # "filter"
        BY <4>1 DEF OtherKinds
      <4>4. Acts' = Acts /\ Cardinality(RanAll(f, fn))' = Cardinality(RanAll(f, fn))
            /\ \A i \in Acts : PassedBefore(f, fn, i) => PassedBefore(f, fn, i)'
        BY <1>1, <4>2, <4>3, CountStays, Zenon
      <4> QED
        BY <1>2, <4>4, Zenon
    <3> QED
      BY <1>5, <3>1, <3>2, TrailKinds, Zenon
  <2>2. Due(f, n)' => Due(f, n)
    BY <1>4, <1>5
  <2>3. A' = A
    BY <2>1, Zenon
  <2> QED
    BY <1>2, <1>3, <2>1, <2>2, <2>3, Zenon
<1>6. CASE RunsOne
  <2>1. Note("filter", todo.fn, Head(todo.queue))
    BY <1>6 DEF RunsOne
  <2>2. /\ A \in Nat /\ R \in Nat /\ Acts' = Acts /\ R' \in {R, R + 1}
        /\ todo.fn = fn /\ Head(todo.queue) = f => R' = R + 1
        /\ \A i \in Acts : PassedBefore(f, fn, i) => PassedBefore(f, fn, i)'
    <3>1. PICK e, g, by : e = "filter" /\ g = todo.fn /\ by = Head(todo.queue)
      OBVIOUS
    <3>2. Note(e, g, by) /\ e # "act"
      BY <2>1, <3>1
    <3>3. /\ A \in Nat /\ R \in Nat /\ Acts' = Acts /\ R' \in {R, R + 1}
          /\ g = fn /\ by = f => R' = R + 1
          /\ \A i \in Acts : PassedBefore(f, fn, i) => PassedBefore(f, fn, i)'
      <4>1. /\ Cardinality(Acts) \in Nat /\ Cardinality(RanAll(f, fn)) \in Nat
            /\ e # "act" => Acts' = Acts
            /\ e = "act" => Cardinality(Acts)' = Cardinality(Acts) + 1
            /\ e # "filter" => Cardinality(RanAll(f, fn))' = Cardinality(RanAll(f, fn))
            /\ Cardinality(RanAll(f, fn))' \in {Cardinality(RanAll(f, fn)), Cardinality(RanAll(f, fn)) + 1}
            /\ e = "filter" /\ g = fn /\ by = f => Cardinality(RanAll(f, fn))' = Cardinality(RanAll(f, fn)) + 1
            /\ \A i \in Acts : PassedBefore(f, fn, i) => PassedBefore(f, fn, i)'
            /\ e = "act" /\ Cardinality(RanAll(f, fn)) >= Cardinality(Acts) + 1 =>
                 \A i \in Acts' : i \in Acts \/ PassedBefore(f, fn, i)'
        BY <1>1, <3>2, CountFacts, Zenon
      <4> QED
        BY <3>1, <3>2, <4>1
    <3> QED
      BY <3>1, <3>3
  <2>3. A' = A
    BY <2>2, Zenon
  <2>4. PICK r : r = R'
    OBVIOUS
  <2>5. r >= A /\ (Due(f, n)' => r >= A + 1)
    <3>1. /\ A \in Nat /\ R \in Nat /\ (r = R \/ r = R + 1) /\ R >= A
          /\ Due(f, n) => R >= A + 1
          /\ todo.fn = fn /\ Head(todo.queue) = f => r = R + 1
      BY <1>2, <2>2, <2>4, Zenon
    <3>2. Due(f, n)' => Due(f, n) \/ (todo.fn = fn /\ Head(todo.queue) = f)
      BY <1>4
    <3> HIDE DEF A, R
    <3>3. r >= A
      BY <3>1
    <3>4. Due(f, n) => r >= A + 1
      BY <3>1
    <3>5. todo.fn = fn /\ Head(todo.queue) = f => r >= A + 1
      BY <3>1
    <3> QED
      BY <3>2, <3>3, <3>4, <3>5, Zenon
  <2> QED
    BY <1>2, <1>3, <2>2, <2>3, <2>4, <2>5, Zenon
<1>7. CASE Invoke
  <2>1. mode = "act"
    BY <1>7 DEF Invoke
  <2>2. Due(f, n) /\ ~Due(f, n)'
    <3>1. "act" # "filters"
      OBVIOUS
    <3>2. ~RunFilter /\ ~FiltersDone
      BY <2>1, <3>1 DEF RunFilter, FiltersDone
    <3> QED
      BY <1>4, <2>1, <3>2 DEF Due
  <2>3. PICK g, by : Note("act", g, by)
    BY <1>7, InvokeCases, Zenon
  <2>4. /\ A \in Nat /\ R \in Nat /\ A' = A + 1 /\ R' = R
        /\ \A i \in Acts : PassedBefore(f, fn, i) => PassedBefore(f, fn, i)'
        /\ R >= A + 1 => \A i \in Acts' : i \in Acts \/ PassedBefore(f, fn, i)'
    <3>1. "filter" # "act"
      OBVIOUS
    <3> QED
      BY <1>1, <2>3, <3>1, CountFacts
  <2>5. R >= A + 1
    BY <1>2, <2>2
  <2>6. \A i \in Acts' : PassedBefore(f, fn, i)'
    BY <1>2, <2>4, <2>5, Zenon
  <2> QED
    BY <1>3, <2>2, <2>4, <2>5, <2>6, Zenon
<1> QED
  BY <1>5, <1>6, <1>7

LEMMA CInvSteps ==
  ASSUME TInv, GInv, WInv, ActedInv, CInv, Serves
  PROVE  CInv'
<1> SUFFICES ASSUME ctx'.route.found = "route", Ahead("filters")' # {},
                    NEW f \in DOMAIN Has, NEW n \in 1 .. 3, Applies(f)', Before3[n] \in Has[f]
             PROVE  Enough(f, n)'
  BY Zenon DEF CInv, Before3
<1>1. chain' = chain /\ \A kind : Behind(kind)' = Behind(kind)
  BY ServesGrow, SameFacts
<1>2. ActionAt' = ActionAt
  BY <1>1, Zenon DEF ActionAt
<1>3. \A kind : Ahead(kind)' = Ahead(kind)
  BY <1>1, <1>2, Zenon DEF Ahead
<1>4. CASE ctx.route.found = "route"
  <2>1. ctx'.route = ctx.route
    BY <1>4, RouteStays
  <2>2. Applies(f)
    <3>1. Class' = Class
      BY <2>1, Zenon DEF Class
    <3> QED
      BY <1>1, <1>3, <3>1, Zenon DEF Applies
  <2>3. Ahead("filters") # {}
    BY <1>3, Zenon
  <2>4. Enough(f, n)
    BY <1>4, <2>2, <2>3, Zenon DEF CInv
  <2> QED
    BY <1>4, <2>2, <2>3, <2>4, EnoughStays
<1>5. CASE ctx.route.found # "route"
  <2>1. Acts = {}
    BY <1>5 DEF ActedInv
  <2>2. mode \notin {"filters", "act"}
    BY <1>5, TFacts
  <2>3. ~MakeAction /\ ~Invoke /\ ~RunFilter /\ ~Ready
    BY <1>5, <2>2 DEF MakeAction, Invoke, RunFilter, Ready
  <2>4. ~Ready'
    BY <2>3, ReadyStays
  <2>5. ~Due(f, n)'
    <3>1. \A m \in 1 .. 3 : Before3[m] \in Befores
      BY BeforeNames
    <3> QED
      BY <2>4, <3>1, Zenon DEF Due, Ready
  <2>6. TypeOK
    BY Zenon DEF TInv
  <2>7. \A e, g, by : Note(e, g, by) /\ e # "act" => Acts' = Acts
    BY <2>6, CountFacts
  <2>8. Acts' = {}
    <3>1. \A e \in OtherKinds : e # "act" /\ e # "filter"
      BY DEF OtherKinds
    <3>2. trail' = trail \/ \E e \in OtherKinds : \E g, by : Note(e, g, by)
      BY <2>3, TrailKinds, Zenon
    <3>3. trail' = trail => Acts' = Acts
      BY Zenon DEF Acts
    <3> QED
      BY <2>1, <2>7, <3>1, <3>2, <3>3
  <2>9. Cardinality(RanAll(f, Before3[n]))' \in Nat
    <3>1. TypeOK'
      BY ServesKeeps, Zenon DEF Kept, TInv
    <3> DEFINE t == trail'
               fn == Before3[n]
               S == {j \in 1 .. Len(t) : t[j] = Event("filter", fn, f)}
    <3>2. Len(t) \in Nat
      <4>1. t \in Seq(ToSet(t))
        BY <3>1 DEF TypeOK, ToSet
      <4> HIDE DEF t
      <4> QED
        BY <4>1
    <3>3. RanAll(f, Before3[n])' = S
      BY DEF RanAll, RanTo, Event, Before3
    <3> HIDE DEF t, fn
    <3>4. Cardinality(S) \in Nat
      BY <3>2, IntervalFacts
    <3> QED
      BY <3>3, <3>4, Zenon
  <2>10. Cardinality(Acts)' = 0
    <3>1. Cardinality({}) = 0
      BY FS_EmptySet
    <3> QED
      BY <2>8, <3>1, Zenon
  <2> QED
    BY <2>5, <2>8, <2>9, <2>10 DEF Enough
<1> QED
  BY <1>4, <1>5

GuardInv == TInv /\ OneToken /\ GInv /\ WInv /\ ActedInv /\ CInv

LEMMA GuardRests ==
  ASSUME GuardInv, UNCHANGED <<chain, req, at, ctx, todo, trail>>, TInv',
         mode' = mode \/ (mode = "leave" /\ mode' = "done")
  PROVE  GuardInv'
<1>1. /\ chain' = chain /\ req' = req /\ at' = at /\ ctx' = ctx /\ todo' = todo /\ trail' = trail
  OBVIOUS
<1>2. OneToken' /\ Acts' = Acts /\ ActionAt' = ActionAt /\ (\A kind : Behind(kind)' = Behind(kind))
  BY <1>1, Zenon DEF GuardInv, OneToken, Acts, ActionAt, Behind
<1>3. \A kind : Ahead(kind)' = Ahead(kind)
  BY <1>2, Zenon DEF Ahead
<1>4. Reach' = Reach /\ (\A k : LetsPass(k)' = LetsPass(k)) /\ \A f : Applies(f)' = Applies(f)
  <2>1. Reach' = Reach
    BY <1>1 DEF Reach
  <2>2. \A k : LetsPass(k)' = LetsPass(k)
    BY <1>1 DEF LetsPass, Verified, IsPreflight, Method, ToSet, Whole
  <2>3. \A f : Applies(f)' = Applies(f)
    BY <1>1, <1>3, Zenon DEF Applies, Class
  <2> QED
    BY <2>1, <2>2, <2>3
<1>5. GInv' /\ ActedInv'
  <2>1. GInv'
    BY <1>4, Zenon DEF GuardInv, GInv
  <2>2. (ActionAt - 1)' = ActionAt - 1
    BY <1>2, Zenon
  <2>3. ActedInv'
    BY <1>1, <1>2, <1>4, <2>2, Zenon DEF GuardInv, ActedInv
  <2> QED
    BY <2>1, <2>3
<1>6. WInv'
  <2>1. "done" # "act" /\ "done" # "filters"
    OBVIOUS
  <2> QED
    BY <1>1, <1>2, <2>1, Zenon DEF GuardInv, WInv
<1>7. ASSUME NEW f, NEW n \in 1 .. 3, Enough(f, n) PROVE Enough(f, n)'
  <2>1. Due(f, n)' => Due(f, n)
    <3>1. "done" # "act" /\ "done" # "filters"
      OBVIOUS
    <3>2. Before3' = Before3 /\ ToSet(todo.queue)' = ToSet(todo.queue)
      BY <1>1 DEF Before3, ToSet
    <3> QED
      BY <1>1, <3>1, <3>2, Zenon DEF Due
  <2>2. RanAll(f, Before3[n])' = RanAll(f, Before3[n])
    BY <1>1 DEF RanAll, RanTo, Before3, Event
  <2>3. \A i \in Acts : PassedBefore(f, Before3[n], i)' = PassedBefore(f, Before3[n], i)
    BY <1>1, <1>2 DEF PassedBefore, Event, Before3
  <2> QED
    BY <1>2, <1>7, <2>1, <2>2, <2>3, Zenon DEF Enough
<1>8. CInv'
  BY <1>1, <1>3, <1>4, <1>7, Zenon DEF GuardInv, CInv, Before3
<1> QED
  BY <1>2, <1>5, <1>6, <1>8 DEF GuardInv

LEMMA GuardSteps ==
  ASSUME GuardInv, TInv', [Next]_vars
  PROVE  GuardInv'
<1>1. CASE Serves
  <2>1. TInv /\ OneToken /\ GInv /\ WInv /\ ActedInv /\ CInv
    BY Zenon DEF GuardInv
  <2>2. TInv'
    OBVIOUS
  <2>3. OneToken'
    BY <1>1, <2>1, CtxGrows
  <2>4. GInv' /\ WInv'
    BY <1>1, <2>1, GInvSteps, WInvSteps
  <2>5. ActedInv' /\ CInv'
    BY <1>1, <2>1, ActedSteps, CInvSteps
  <2> QED
    BY <2>2, <2>3, <2>4, <2>5, Zenon DEF GuardInv
<1>2. CASE Finish
  <2>1. TInv' /\ mode' = "done" /\ Same /\ UNCHANGED <<at, ctx, todo, trail>> /\ mode = "leave"
    BY <1>2, FinishFacts DEF GuardInv, Finish
  <2> QED
    BY <2>1, GuardRests DEF Same
<1>3. CASE UNCHANGED vars
  <2>1. TInv' /\ UNCHANGED <<chain, req, at, ctx, todo, trail, mode>>
    BY <1>3 DEF vars
  <2> QED
    BY <2>1, GuardRests
<1> QED
  BY <1>1, <1>2, <1>3, NextCases

LEMMA GuardInit ==
  ASSUME Init, TInv PROVE GuardInv
<1>1. trail = << >> /\ at = 0 /\ mode = "enter" /\ ctx = NewContext
  BY DEF Init
<1>2. ctx.jwt = << >> /\ ctx.route.found # "route"
  BY <1>1 DEF NewContext, NoRoute
<1>3. Acts = {}
  BY <1>1 DEF Acts
<1>4. Reach = 0
  BY <1>1 DEF Reach
<1>5. GInv
  BY <1>4 DEF GInv
<1>6. WInv
  BY <1>1 DEF WInv
<1> QED
  BY <1>2, <1>3, <1>5, <1>6 DEF GuardInv, OneToken, ActedInv, CInv

LEMMA GuardShows ==
  ASSUME GuardInv PROVE ActionIsGuarded
<1> SUFFICES ASSUME Acts # {} PROVE
      /\ \A k \in Ahead("verify") : chain[k].skip \/ Verified(ctx.jwt, req.token)
      /\ \A k \in Ahead("access") : chain[k].granted
      /\ \A k \in Ahead("body") : req.type = chain[k].type => Whole(req.payload)
      /\ \A k \in Ahead("cors") : IsPreflight /\ req.acrm => chain[k].origin = "rejects"
      /\ Ahead("filters") # {} => \A i \in Acts : \A f \in DOMAIN Has :
           Applies(f) => \A n \in DOMAIN Before3 :
             Before3[n] \in Has[f] => PassedBefore(f, Before3[n], i)
  BY Zenon DEF ActionIsGuarded, Whole
<1>1. ctx.route.found = "route" /\ Behind("action") # {} /\ TInv
      /\ \A k \in 1 .. ActionAt - 1 : LetsPass(k)
  BY Zenon DEF GuardInv, ActedInv
<1>2. \A kind : \A k \in Ahead(kind) : LetsPass(k) /\ chain[k].kind = kind
  BY <1>1, AheadPassed
<1>3. /\ \A k \in Ahead("verify") : chain[k].skip \/ Verified(ctx.jwt, req.token)
      /\ \A k \in Ahead("access") : chain[k].granted
      /\ \A k \in Ahead("body") : req.type = chain[k].type => Whole(req.payload)
      /\ \A k \in Ahead("cors") : IsPreflight /\ req.acrm => chain[k].origin = "rejects"
  BY <1>2, Zenon DEF LetsPass
<1>4. DOMAIN Before3 = 1 .. 3
  BY DEF Before3
<1>5. ASSUME Ahead("filters") # {}, NEW i \in Acts, NEW f \in DOMAIN Has, Applies(f),
             NEW n \in DOMAIN Before3, Before3[n] \in Has[f]
      PROVE  PassedBefore(f, Before3[n], i)
  BY <1>1, <1>4, <1>5, Zenon DEF GuardInv, CInv, Enough
<1> QED
  BY <1>3, <1>5, Zenon

\* Nothing but a request that all guards let pass reaches the action (ActionIsGuarded).
THEOREM ActionsAreGuarded == Spec => []ActionIsGuarded
<1>1. Init /\ TInv => GuardInv
  BY GuardInit
<1>2. GuardInv /\ TInv' /\ [Next]_vars => GuardInv'
  BY GuardSteps
<1>3. GuardInv => ActionIsGuarded
  BY GuardShows
<1> QED
  BY <1>1, <1>2, <1>3, TypesHold, PTL DEF Spec

-----------------------------------------------------------------------------
(* What is injected into an action, once and again.                        *)

\* The last pipe of a startup, once its item ran, is the last pipe there is.
LastPipe(k) == k \in Behind("pipe") /\ \A l \in Behind("pipe") : l <= k
PipeInv ==
  /\ ctx.pipes \in Seq(ToSet(ctx.pipes))
  /\ ctx.pipes # << >> => Behind("pipe") # {}
  /\ \A k : LastPipe(k) /\ k <= Reach => ctx.pipes # << >> /\ Last(ctx.pipes) = chain[k].pipe

\* Where that is the validator, what was injected is valid.
Validator(pipe) == pipe.pipe = "validate" /\ pipe.type = "after"
ValidatorEnds == \E k : LastPipe(k) /\ Validator(chain[k].pipe)
Fits(input, value) ==
  \/ input.disabled /\ value.t = "object"
  \/ ValidParent(input, value) /\ ValidModel(input, value)
ArgsInv ==
  /\ ctx.args # << >> => ctx.route.found = "route"
  /\ ValidatorEnds => \A i \in DOMAIN ctx.args : Fits(Class.inputs[i], ctx.args[i])

\* Only useGlobalPipe goes past an item of its kind.
LEMMA PipeReach ==
  ASSUME TInv, Serves, NEW k, k \in Behind("pipe"), k <= Reach', ~(k <= Reach)
  PROVE  UseGlobalPipe /\ k = at
<1>1. /\ at \in Nat /\ k \in Nat /\ chain[k].kind = "pipe"
      /\ (mode = "invoke" => at # 0)
  <2>1. DOMAIN chain = 1 .. Len(chain) /\ Len(chain) \in Nat /\ at \in 0 .. Len(chain)
        /\ (mode = "invoke" => at # 0)
    BY TFacts, ChainFacts DEF TInv
  <2>2. k \in DOMAIN chain /\ chain[k].kind = "pipe"
    BY Zenon DEF Behind
  <2> QED
    BY <2>1, <2>2
<1>2. ASSUME mode = "invoke", CallNext \/ Return \/ \E x : Throw(x)
      PROVE  k = at
  <2>1. mode' # "invoke" /\ (at' = at \/ at' = at - 1)
    BY <1>2, Zenon DEF CallNext, Return, Throw
  <2>2. Reach' = at' /\ Reach = at - 1
    BY <1>2, <2>1 DEF Reach
  <2> QED
    BY <1>1, <2>1, <2>2
<1>3. CASE UseGlobalPipe
  BY <1>2, <1>3, Zenon DEF UseGlobalPipe, Running
<1>4. CASE Inject \/ UseFilter \/ UseGlobalFilter \/ UseFilterOrder \/ Cors \/ BodyParser \/ UseJwt
           \/ JwtVerify \/ JwtExtraAuth \/ Static \/ StaticFile \/ Use \/ Match \/ SetParams
  <2>1. mode = "invoke" /\ Item.kind # "pipe"
    BY <1>4 DEF Inject, UseFilter, UseGlobalFilter, UseFilterOrder, Cors, BodyParser, UseJwt,
       JwtVerify, JwtExtraAuth, Static, StaticFile, Use, Match, SetParams, Running
  <2>2. CallNext \/ Return \/ \E x : Throw(x)
    BY <1>4, Zenon DEF Inject, UseFilter, UseGlobalFilter, UseFilterOrder, Cors, BodyParser, UseJwt,
       JwtVerify, JwtExtraAuth, Static, StaticFile, Use, Match, SetParams
  <2> QED
    BY <1>1, <1>2, <2>1, <2>2, Zenon DEF Item
<1>5. CASE BlankAction \/ MakeAction
  <2>1. /\ mode = "enter" /\ chain[at + 1].kind = "action" /\ mode' # "invoke"
        /\ at' = at \/ at' = at + 1
    BY <1>5 DEF BlankAction, MakeAction, ToAction
  <2>2. Reach' = at' /\ Reach = at
    BY <2>1 DEF Reach
  <2>3. k = at + 1
    BY <1>1, <2>1, <2>2
  <2> QED
    BY <1>1, <2>1, <2>3
<1>6. CASE Enter
  <2>1. /\ mode = "enter"
        /\ (mode' = "invoke" /\ at' = at + 1) \/ (mode' = "leave" /\ at' = at)
    BY <1>6, Zenon DEF Enter
  <2>2. Reach' = at /\ Reach = at
    BY <1>1, <2>1 DEF Reach
  <2> QED
    BY <2>2
<1>7. CASE CorsAgain \/ Leave \/ Invoke \/ RunFilter \/ FiltersDone
           \/ CaughtByStartup \/ PassesThrough \/ CaughtByNext
  <2>1. mode # "invoke"
    BY <1>7 DEF CorsAgain, Leave, Invoke, RunFilter, FiltersDone, CaughtByStartup, PassesThrough,
       CaughtByNext
  <2>2. \/ CallNext \/ Return \/ \E x : Throw(x)
        \/ UNCHANGED <<mode, at>>
        \/ UNCHANGED at /\ mode' \in {"leave", "act", "filters"}
    BY <1>7, Zenon DEF CorsAgain, Leave, Invoke, Invoked, RunFilter, FiltersDone, CaughtByStartup,
       PassesThrough, CaughtByNext, ThrowOut, Unhandled
  <2>3. mode' # "invoke" /\ (at' = at \/ at' = at - 1)
    BY <2>1, <2>2 DEF CallNext, Return, Throw
  <2>4. Reach = at /\ Reach' = at'
    BY <2>1, <2>3 DEF Reach
  <2> QED
    BY <1>1, <2>3, <2>4
<1> QED
  BY <1>3, <1>4, <1>5, <1>6, <1>7, Zenon DEF Serves

\* The pipes and the arguments that a step leaves.
LEMMA PipesStay ==
  ASSUME TInv, Serves, ~UseGlobalPipe
  PROVE  ctx'.pipes = ctx.pipes /\ (~MakeAction => ctx'.args = ctx.args)
<1>1. {"route", "params", "made", "args", "inject", "hooks", "globals", "orders", "pipes", "jwt", "body", "read"} \subseteq DOMAIN ctx
  BY TFacts DEF CtxOK, NewContext
<1>2. CASE MakeAction
  <2>1. \E v, w : ctx' = [ctx EXCEPT !.made = v, !.args = w]
    BY <1>2, MakeActionCases
  <2> QED
    BY <1>1, <1>2, <2>1
<1>3. CASE Inject \/ UseFilter \/ UseGlobalFilter \/ UseFilterOrder \/ UseJwt \/ Match \/ SetParams
  <2>1. \/ UNCHANGED ctx
        \/ ctx' = [ctx EXCEPT !.inject = TRUE] \/ ctx' = [ctx EXCEPT !.inject = TRUE, !.hooks = @ + 1]
        \/ \E x : \/ ctx' = [ctx EXCEPT !.orders = x] \/ ctx' = [ctx EXCEPT !.jwt = x]
                  \/ ctx' = [ctx EXCEPT !.route = x] \/ ctx' = [ctx EXCEPT !.params = x]
                  \/ ctx' = [ctx EXCEPT !.globals = Append(@, x)]
    BY <1>3, Zenon DEF Inject, UseFilter, UseGlobalFilter, UseFilterOrder, UseJwt, Match, SetParams
  <2> QED
    BY <1>1, <2>1
<1>4. CASE BodyParser
  <2>1. \/ UNCHANGED ctx \/ ctx' = [ctx EXCEPT !.read = TRUE]
        \/ \E x : ctx' = [[ctx EXCEPT !.read = TRUE] EXCEPT !.body = x]
    BY <1>4, Zenon DEF BodyParser
  <2>2. CASE UNCHANGED ctx \/ ctx' = [ctx EXCEPT !.read = TRUE]
    BY <1>1, <2>2
  <2>3. CASE \E x : ctx' = [[ctx EXCEPT !.read = TRUE] EXCEPT !.body = x]
    BY <1>1, <2>3
  <2> QED
    BY <2>1, <2>2, <2>3
<1>5. CASE Cors \/ CorsAgain \/ JwtVerify \/ JwtExtraAuth \/ Static \/ StaticFile
           \/ Use \/ BlankAction \/ Invoke \/ RunFilter \/ FiltersDone \/ Enter \/ Leave
           \/ CaughtByStartup \/ PassesThrough \/ CaughtByNext
  BY <1>5, Zenon DEF Cors, CorsAgain, JwtVerify, JwtExtraAuth, Static, StaticFile, Use,
    BlankAction, Invoke, RunFilter, FiltersDone, Enter, Leave, CaughtByStartup, PassesThrough,
    CaughtByNext, Quiet
<1> QED
  BY <1>2, <1>3, <1>4, <1>5, Zenon DEF Serves

LEMMA PipeSteps ==
  ASSUME TInv, PipeInv, Serves
  PROVE  PipeInv'
<1>1. chain' = chain /\ Behind("pipe")' = Behind("pipe")
  BY ServesGrow, SameFacts, Zenon DEF Same
<1>2. \A k : LastPipe(k)' <=> LastPipe(k)
  BY <1>1, Zenon DEF LastPipe
<1>3. CASE UseGlobalPipe
  <2>1. ctx' = [ctx EXCEPT !.pipes = Append(@, Item.pipe)] /\ mode = "invoke" /\ Item.kind = "pipe"
    BY <1>3, Zenon DEF UseGlobalPipe, Running
  <2>2. ctx'.pipes = Append(ctx.pipes, Item.pipe)
    <3>1. {"pipes", "args", "route"} \subseteq DOMAIN ctx
      BY TFacts DEF CtxOK, NewContext
    <3> QED
      BY <2>1, <3>1
  <2> DEFINE s == ctx.pipes
             t == ctx'.pipes
             p == Item.pipe
             S == ToSet(s) \cup {p}
  <2>3. s \in Seq(S) /\ p \in S /\ t = Append(s, p)
    <3>1. s \in Seq(ToSet(s))
      BY Zenon DEF PipeInv
    <3> QED
      BY <2>2, <3>1
  <2> HIDE DEF s, t, p, S
  <2>4. t \in Seq(S) /\ t # << >> /\ Last(t) = p
    BY <2>3 DEF Last
  <2>5. t \in Seq(ToSet(t))
    BY <2>4 DEF ToSet
  <2>6. at \in Behind("pipe")
    <3>1. at \in DOMAIN chain
      <4>1. mode = "invoke" => at # 0
        BY TFacts
      <4>2. at \in 0 .. Len(chain) /\ Len(chain) \in Nat /\ DOMAIN chain = 1 .. Len(chain)
        BY TFacts, ChainFacts DEF TInv
      <4> QED
        BY <2>1, <4>1, <4>2
    <3> QED
      BY <2>1, <3>1, Zenon DEF Behind, Item
  <2>7. ASSUME NEW k, LastPipe(k), k <= Reach' PROVE k = at
    <3>1. at <= k /\ k \in Behind("pipe")
      BY <2>6, <2>7, Zenon DEF LastPipe
    <3>2. Reach' = at
      BY <1>3 DEF UseGlobalPipe, CallNext, Reach
    <3>3. at \in Nat /\ k \in Nat
      <4>1. DOMAIN chain = 1 .. Len(chain) /\ Len(chain) \in Nat
        BY ChainFacts DEF TInv
      <4>2. at \in DOMAIN chain /\ k \in DOMAIN chain
        BY <2>6, <3>1, Zenon DEF Behind
      <4> QED
        BY <4>1, <4>2
    <3> QED
      BY <2>7, <3>1, <3>2, <3>3
  <2>8. \A k : LastPipe(k) /\ k <= Reach' => chain[k].pipe = p
    BY <2>7, Zenon DEF p, Item
  <2> QED
    BY <1>1, <1>2, <2>4, <2>5, <2>6, <2>8, Zenon DEF PipeInv, t
<1>4. CASE ~UseGlobalPipe
  <2>1. ctx'.pipes = ctx.pipes
    BY <1>4, PipesStay
  <2>2. ASSUME NEW k, LastPipe(k), k <= Reach' PROVE k <= Reach
    BY <1>4, <2>2, PipeReach, Zenon DEF LastPipe
  <2> QED
    BY <1>1, <1>2, <2>1, <2>2, Zenon DEF PipeInv
<1> QED
  BY <1>3, <1>4

\* The outcomes before the first failure, or all if there is none.
LEMMA NoFailure ==
  ASSUME NEW n \in Nat, DOMAIN Outcomes = 1 .. n
  PROVE  /\ FirstFailure = 0 => \A i \in 1 .. n : Outcomes[i].error = "none"
         /\ FirstFailure # 0 => \A i \in 1 .. FirstFailure - 1 : i \in 1 .. n /\ Outcomes[i].error = "none"
<1> DEFINE O == Outcomes
           I == {i \in 1 .. Len(O) : O[i].error # "none"}
<1>1. Len(O) = n
  <2>1. O = [i \in 1 .. n |-> O[i]]
    BY Zenon DEF Outcomes
  <2> HIDE DEF O
  <2> QED
    BY <2>1
<1>2. FirstFailure = IF I # {} THEN Min(I) ELSE 0
  BY DEF FirstFailure, SelectInSeq
<1> HIDE DEF O
<1>3. ASSUME I # {} PROVE Min(I) \in I /\ \A x \in I : Min(I) <= x
  <2>1. I \in SUBSET Nat
    BY <1>1
  <2> HIDE DEF I
  <2>2. \E m \in I : \A x \in I : m <= x
    BY <1>3, <2>1, LeastExists
  <2> QED
    BY <2>2 DEF Min
<1>4. I \in SUBSET (1 .. n) /\ \A i \in 1 .. n : i \in I \/ O[i].error = "none"
  BY <1>1
<1> HIDE DEF I
<1>5. CASE I = {}
  BY <1>2, <1>4, <1>5 DEF O
<1>6. CASE I # {}
  <2> DEFINE m == Min(I)
  <2>1. FirstFailure = m /\ m \in 1 .. n /\ \A x \in I : m <= x
    BY <1>2, <1>3, <1>4, <1>6
  <2> HIDE DEF m
  <2>2. \A i \in 1 .. m - 1 : i \in 1 .. n /\ i \notin I
    BY <1>4, <2>1
  <2>3. \A i \in 1 .. m - 1 : i \in 1 .. n /\ O[i].error = "none"
    BY <1>4, <2>2, Zenon
  <2>4. m # 0
    BY <2>1
  <2> QED
    BY <2>1, <2>3, <2>4, Zenon DEF O
<1> QED
  BY <1>5, <1>6

\* What leaves the validator without an error keeps the rules.
LEMMA ValidOutcome ==
  ASSUME NEW pipes, pipes \in Seq(ToSet(pipes)), pipes # << >>, Validator(Last(pipes)),
         NEW input, input.pipes \in Seq(ToSet(input.pipes)), NEW sources,
         Argument(pipes, sources, input).error = "none"
  PROVE  Fits(input, Argument(pipes, sources, input).value)
<1> DEFINE v == ReadInput(sources, input)
           S == ToSet(pipes)
<1>1. Argument(pipes, sources, input) = ExecPipes(pipes, input, v)
  BY DEF Argument
<1> HIDE DEF v
<1>2. Last(pipes).type = "after" /\ Last(pipes).pipe = "validate"
  BY DEF Validator
<1>3. Len(PipesOf(pipes, input)) \in Nat \ {0} /\ Last(PipesOf(pipes, input)) = Last(pipes)
  <2>1. pipes \in Seq(S)
    OBVIOUS
  <2> HIDE DEF S
  <2> QED
    BY <1>2, <2>1, PipesOfLast
<1>4. PICK w : ExecPipes(pipes, input, v) = Transform(input, Last(PipesOf(pipes, input)), w)
  <2>1. Len(PipesOf(pipes, input)) \in Nat \ {0} /\ ExecPipes(pipes, input, v).error = "none"
    BY <1>1, <1>3, Zenon
  <2> QED
    BY <2>1, ExecPipesLast
<1>5. Transform(input, Last(pipes), w) = ValidatePipe(input, w)
  BY <1>2 DEF Transform
<1>6. Argument(pipes, sources, input) = ValidatePipe(input, w)
  BY <1>1, <1>3, <1>4, <1>5, Zenon
<1> QED
  BY <1>6, ValidatedFacts, Zenon DEF Fits

\* Where an action is made, the last pipe of the startup is at work.
LEMMA ActionPipes ==
  ASSUME ActionLast, TInv, PipeInv, NEW a \in Behind("action"), a <= Reach + 1, NEW k, LastPipe(k)
  PROVE  ctx.pipes # << >> /\ Last(ctx.pipes) = chain[k].pipe
<1>1. DOMAIN chain = 1 .. Len(chain) /\ Len(chain) \in Nat
  BY ChainFacts DEF TInv
<1>2. a \in DOMAIN chain /\ chain[a].kind = "action" /\ k \in DOMAIN chain /\ chain[k].kind = "pipe"
  BY Zenon DEF Behind, LastPipe
<1>3. a = Len(chain)
  <2>1. \E c \in Cases : chain = c.chain
    BY Zenon DEF TInv, TypeOK
  <2> QED
    BY <1>2, <2>1, Zenon DEF ActionLast
<1>4. k # a
  BY <1>2
<1>5. Reach \in Int
  <2>1. at \in 0 .. Len(chain)
    BY TFacts
  <2> QED
    BY <1>1, <2>1 DEF Reach
<1>6. k <= Reach
  BY <1>1, <1>2, <1>3, <1>4, <1>5
<1> QED
  BY <1>6, Zenon DEF PipeInv

\* MakeAction injects what is valid, and keeps what it injected before.
LEMMA MakeActionArgs ==
  ASSUME ActionLast, TInv, PipeInv, ArgsInv, MakeAction, ValidatorEnds, NEW i \in DOMAIN ctx'.args
  PROVE  Fits(Class.inputs[i], ctx'.args[i])
<1>1. /\ {"made", "args", "pipes", "inject", "route"} \subseteq DOMAIN ctx /\ TypeOK
      /\ ctx.route.found = "route" /\ ToAction
  <2>1. {"made", "args", "pipes", "inject", "route"} \subseteq DOMAIN ctx
    BY TFacts DEF CtxOK, NewContext
  <2> QED
    BY <2>1, Zenon DEF TInv, MakeAction
<1>2. ClassAssumption(Class)
  BY <1>1, ClassFacts
<1> DEFINE n == Len(Class.inputs)
<1>3. n \in Nat /\ DOMAIN Outcomes = 1 .. n /\ Class.inputs \in Seq(ToSet(Class.inputs))
      /\ DOMAIN Class.inputs = 1 .. n
  <2>1. Class.inputs \in Seq(ToSet(Class.inputs))
    BY <1>2, Zenon DEF ClassAssumption
  <2>2. DOMAIN Outcomes = DOMAIN Class.inputs
    BY DEF Outcomes
  <2> QED
    BY <2>1, <2>2
<1>4. \/ ctx'.args = ctx.args
      \/ i \in 1 .. n /\ Outcomes[i].error = "none" /\ ctx'.args[i] = Outcomes[i].value
  <2> DEFINE all == [j \in DOMAIN Outcomes |-> Outcomes[j].value]
             some == [j \in 1 .. FirstFailure - 1 |-> Outcomes[j].value]
  <2>1. \/ ~ctx.inject /\ \E v : ctx' = [ctx EXCEPT !.made = v, !.args = @]
        \/ FirstFailure = 0 /\ \E v : ctx' = [ctx EXCEPT !.made = v, !.args = all]
        \/ FirstFailure # 0 /\ \E v : ctx' = [ctx EXCEPT !.made = v, !.args = some]
    <3>1. CASE ctx.inject /\ FirstFailure # 0
      BY <3>1, Zenon DEF MakeAction
    <3>2. CASE ~(ctx.inject /\ FirstFailure # 0)
      <4> DEFINE w == IF ctx.inject THEN all ELSE ctx.args
      <4>1. ctx' = [ctx EXCEPT !.made = TRUE, !.args = w]
        BY <3>2, Zenon DEF MakeAction
      <4>2. CASE ctx.inject
        <5>1. w = all
          BY <4>2
        <5> HIDE DEF w, all
        <5> QED
          BY <3>2, <4>1, <4>2, <5>1, Zenon
      <4>3. CASE ~ctx.inject
        <5>1. w = ctx.args
          BY <4>3
        <5> HIDE DEF w, all
        <5> QED
          BY <4>1, <4>3, <5>1, Zenon
      <4> QED
        BY <4>2, <4>3
    <3> QED
      BY <3>1, <3>2
  <2> HIDE DEF all, some
  <2>2. \/ ctx'.args = ctx.args
        \/ FirstFailure = 0 /\ ctx'.args = all
        \/ FirstFailure # 0 /\ ctx'.args = some
    <3>1. CASE \E v : ctx' = [ctx EXCEPT !.made = v, !.args = @]
      BY <1>1, <3>1
    <3>2. CASE FirstFailure = 0 /\ \E v : ctx' = [ctx EXCEPT !.made = v, !.args = all]
      BY <1>1, <3>2
    <3>3. CASE FirstFailure # 0 /\ \E v : ctx' = [ctx EXCEPT !.made = v, !.args = some]
      BY <1>1, <3>3
    <3> QED
      BY <2>1, <3>1, <3>2, <3>3, Zenon
  <2> HIDE DEF n
  <2>3. /\ FirstFailure = 0 => \A j \in 1 .. n : Outcomes[j].error = "none"
        /\ FirstFailure # 0 => \A j \in 1 .. FirstFailure - 1 : j \in 1 .. n /\ Outcomes[j].error = "none"
    BY <1>3, NoFailure
  <2>4. CASE FirstFailure = 0 /\ ctx'.args = all
    <3>1. i \in DOMAIN all
      BY <2>4
    <3>2. i \in 1 .. n /\ all[i] = Outcomes[i].value
      BY <1>3, <3>1, Zenon DEF all
    <3> QED
      BY <2>3, <2>4, <3>2, Zenon
  <2>5. CASE FirstFailure # 0 /\ ctx'.args = some
    <3>1. i \in DOMAIN some
      BY <2>5
    <3>2. i \in 1 .. FirstFailure - 1 /\ some[i] = Outcomes[i].value
      BY <3>1, Zenon DEF some
    <3> QED
      BY <2>3, <2>5, <3>2, Zenon
  <2> QED
    BY <2>2, <2>4, <2>5
<1>5. CASE ctx'.args = ctx.args
  BY <1>5, Zenon DEF ArgsInv
<1>6. CASE i \in 1 .. n /\ Outcomes[i].error = "none" /\ ctx'.args[i] = Outcomes[i].value
  <2>1. Outcomes[i] = IF i \in DOMAIN ctx.args THEN Gives(ctx.args[i])
                      ELSE Argument(ctx.pipes, Sources, Class.inputs[i])
    <3>1. i \in DOMAIN Class.inputs
      BY <1>3, <1>6
    <3> QED
      BY <3>1, Zenon DEF Outcomes
  <2>2. CASE i \in DOMAIN ctx.args
    <3>1. ctx'.args[i] = ctx.args[i]
      BY <1>6, <2>1, <2>2 DEF Gives
    <3> QED
      BY <2>2, <3>1, Zenon DEF ArgsInv
  <2>3. CASE i \notin DOMAIN ctx.args
    <3> DEFINE input == Class.inputs[i]
               pipes == ctx.pipes
               sources == Sources
    <3>1. input.pipes \in Seq(ToSet(input.pipes))
      <4>1. input \in ToSet(Class.inputs)
        BY <1>3, <1>6 DEF ToSet
      <4> QED
        BY <1>2, <4>1, Zenon DEF ClassAssumption
    <3>2. pipes # << >> /\ Validator(Last(pipes))
      <4>1. PICK k : LastPipe(k) /\ Validator(chain[k].pipe)
        BY Zenon DEF ValidatorEnds
      <4>2. PICK a : a = at + 1
        OBVIOUS
      <4>3. a \in Behind("action") /\ a <= Reach + 1
        <5>1. at \in 0 .. Len(chain) /\ Len(chain) \in Nat /\ DOMAIN chain = 1 .. Len(chain)
          BY TFacts, ChainFacts DEF TInv
        <5>2. Reach = at /\ at < Len(chain) /\ chain[at + 1].kind = "action"
          BY <1>1 DEF ToAction, Reach
        <5>3. a \in DOMAIN chain /\ a <= Reach + 1 /\ chain[a].kind = "action"
          BY <4>2, <5>1, <5>2
        <5> QED
          BY <5>3, Zenon DEF Behind
      <4>4. pipes # << >> /\ Last(pipes) = chain[k].pipe
        BY <4>1, <4>3, ActionPipes
      <4> QED
        BY <4>1, <4>4, Zenon
    <3>3. pipes \in Seq(ToSet(pipes))
      BY Zenon DEF PipeInv
    <3>4. Outcomes[i] = Argument(pipes, sources, input)
      BY <2>1, <2>3
    <3>5. Argument(pipes, sources, input).error = "none"
      BY <1>6, <3>4, Zenon
    <3> HIDE DEF input, pipes, sources
    <3>6. Fits(input, Argument(pipes, sources, input).value)
      BY <3>1, <3>2, <3>3, <3>5, ValidOutcome
    <3> QED
      BY <1>6, <3>4, <3>6, Zenon DEF input
  <2> QED
    BY <2>2, <2>3
<1> QED
  BY <1>4, <1>5, <1>6

LEMMA ArgsSteps ==
  ASSUME ActionLast, TInv, PipeInv, ArgsInv, Serves
  PROVE  ArgsInv'
<1>1. chain' = chain /\ Behind("pipe")' = Behind("pipe")
  BY ServesGrow, SameFacts, Zenon DEF Same
<1>2. ValidatorEnds' <=> ValidatorEnds
  BY <1>1, Zenon DEF ValidatorEnds, LastPipe
<1>3. ctx.route.found = "route" => ctx'.route = ctx.route
  BY RouteStays
<1>4. ctx.route.found = "route" => Class' = Class
  BY <1>3, Zenon DEF Class
<1>5. CASE MakeAction
  <2>1. ctx.route.found = "route"
    BY <1>5, Zenon DEF MakeAction
  <2>2. ValidatorEnds => \A i \in DOMAIN ctx'.args : Fits(Class.inputs[i], ctx'.args[i])
    BY <1>5, MakeActionArgs
  <2> QED
    BY <1>2, <1>3, <1>4, <2>1, <2>2, Zenon DEF ArgsInv
<1>6. CASE ~MakeAction
  <2>1. ctx'.args = ctx.args
    <3>1. CASE UseGlobalPipe
      <4>1. {"pipes", "args", "route"} \subseteq DOMAIN ctx
        BY TFacts DEF CtxOK, NewContext
      <4>2. ctx' = [ctx EXCEPT !.pipes = Append(@, Item.pipe)]
        BY <3>1, Zenon DEF UseGlobalPipe
      <4> QED
        BY <4>1, <4>2
    <3> QED
      BY <1>6, <3>1, PipesStay
  <2>2. CASE ctx.args = << >>
    <3>1. ctx'.args = << >> /\ DOMAIN << >> = {}
      BY <2>1, <2>2
    <3> QED
      BY <3>1, Zenon DEF ArgsInv
  <2>3. CASE ctx.args # << >>
    <3>1. ctx.route.found = "route"
      BY <2>3, Zenon DEF ArgsInv
    <3> QED
      BY <1>2, <1>3, <1>4, <2>1, <3>1, Zenon DEF ArgsInv
  <2> QED
    BY <2>2, <2>3
<1> QED
  BY <1>5, <1>6

InjectInv == PipeInv /\ ArgsInv

LEMMA InjectRests ==
  ASSUME TInv, InjectInv, Finish \/ UNCHANGED vars
  PROVE  InjectInv'
<1>1. chain' = chain /\ ctx' = ctx /\ Reach' = Reach
  <2>1. CASE Finish
    <3>1. mode = "leave" /\ mode' = "done" /\ at' = at /\ ctx' = ctx /\ chain' = chain
      BY <2>1, FinishFacts, Zenon DEF Finish, Same
    <3> QED
      BY <3>1 DEF Reach
  <2>2. CASE UNCHANGED vars
    BY <2>2 DEF vars, Reach
  <2> QED
    BY <2>1, <2>2
<1>2. Behind("pipe")' = Behind("pipe") /\ Class' = Class
  BY <1>1, Zenon DEF Behind, Class
<1>3. (\A k : LastPipe(k)' <=> LastPipe(k)) /\ (ValidatorEnds' <=> ValidatorEnds)
  BY <1>1, <1>2, Zenon DEF ValidatorEnds, LastPipe
<1> QED
  BY <1>1, <1>2, <1>3, Zenon DEF InjectInv, PipeInv, ArgsInv

LEMMA ArgumentsShow ==
  ASSUME ActionLast, GuardInv, InjectInv
  PROVE  ArgumentsAreValid
<1> SUFFICES ASSUME mode = "act", ValidatorLast, NEW i \in DOMAIN ctx.args
             PROVE  Fits(Class.inputs[i], ctx.args[i])
  BY Zenon DEF ArgumentsAreValid, Fits
<1>1. TInv /\ at \in Behind("action") /\ Reach = at
  <2>1. TInv /\ at \in Behind("action")
    BY Zenon DEF GuardInv, WInv
  <2> QED
    BY <2>1 DEF Reach
<1>2. PICK k : LastPipe(k)
  <2>1. Behind("pipe") # {}
    BY Zenon DEF InjectInv, PipeInv, ValidatorLast
  <2>2. Behind("pipe") \in SUBSET (1 .. Len(chain)) /\ Len(chain) \in Nat
    <3>1. DOMAIN chain = 1 .. Len(chain) /\ Len(chain) \in Nat
      BY <1>1, ChainFacts DEF TInv
    <3> QED
      BY <3>1, Zenon DEF Behind
  <2> DEFINE S == Behind("pipe")
             m == Len(chain)
  <2>3. S \in SUBSET (1 .. m) /\ m \in Nat /\ S # {}
    BY <2>1, <2>2
  <2> HIDE DEF S, m
  <2>4. \E k \in S : \A l \in S : l <= k
    BY <2>3, GreatestExists
  <2> QED
    BY <2>4, Zenon DEF LastPipe, S
<1>3. Last(ctx.pipes) = chain[k].pipe
  <2>1. PICK a : a = at
    OBVIOUS
  <2>2. a \in Behind("action") /\ a <= Reach + 1
    <3>1. at \in Nat
      BY <1>1, ActionIsOne
    <3> QED
      BY <1>1, <2>1, <3>1
  <2> QED
    BY <1>1, <1>2, <2>2, ActionPipes, Zenon DEF InjectInv
<1>4. ValidatorEnds
  BY <1>2, <1>3, Zenon DEF ValidatorEnds, Validator, ValidatorLast
<1> QED
  BY <1>4, Zenon DEF InjectInv, ArgsInv

\* Of a startup that ends with the router, the action runs with valid arguments
\* only, those injected on an earlier next() included (ArgumentsAreValid).
THEOREM ValidArguments == ASSUME ActionLast PROVE Spec => []ArgumentsAreValid
<1>1. Init /\ TInv => GuardInv
  BY GuardInit
<1>2. GuardInv /\ TInv' /\ [Next]_vars => GuardInv'
  BY GuardSteps
<1>3. Init /\ TInv => InjectInv
  <2> SUFFICES ASSUME Init, TInv PROVE InjectInv
    OBVIOUS
  <2>1. ctx.pipes = << >> /\ ctx.args = << >> /\ Reach = 0
    BY DEF Init, NewContext, Reach
  <2>2. << >> \in Seq(ToSet(<< >>)) /\ DOMAIN << >> = {}
    OBVIOUS
  <2>3. ASSUME NEW k, LastPipe(k), k <= Reach PROVE FALSE
    <3>1. k \in DOMAIN chain /\ DOMAIN chain = 1 .. Len(chain) /\ Len(chain) \in Nat
      BY <2>3, ChainFacts, Zenon DEF LastPipe, Behind, TInv
    <3> QED
      BY <2>1, <2>3, <3>1
  <2> QED
    BY <2>1, <2>2, <2>3, Zenon DEF InjectInv, PipeInv, ArgsInv
<1>4. GuardInv /\ InjectInv /\ [Next]_vars => InjectInv'
  <2> SUFFICES ASSUME GuardInv, InjectInv, [Next]_vars PROVE InjectInv'
    OBVIOUS
  <2>1. TInv
    BY Zenon DEF GuardInv
  <2>2. CASE Serves
    BY <2>1, <2>2, PipeSteps, ArgsSteps, Zenon DEF InjectInv
  <2> QED
    BY <2>1, <2>2, NextCases, InjectRests
<1>5. GuardInv /\ InjectInv => ArgumentsAreValid
  BY ArgumentsShow
<1> QED
  BY <1>1, <1>2, <1>3, <1>4, <1>5, TypesHold, PTL DEF Spec

-----------------------------------------------------------------------------
(* FiltersNest.  What Only and Reverse make of lists that grow or are      *)
(* joined.                                                                 *)

LEMMA SeqLast ==
  ASSUME NEW S, NEW s \in Seq(S), s # << >>
  PROVE  \E q \in Seq(S), x \in S : s = Append(q, x) /\ Len(q) = Len(s) - 1
<1> DEFINE n == Len(s)
           q == [i \in 1 .. n - 1 |-> s[i]]
<1>1. n \in Nat /\ n # 0 /\ \A i \in 1 .. n : s[i] \in S
  OBVIOUS
<1>2. n - 1 \in Nat /\ n \in 1 .. n /\ \A i \in 1 .. n - 1 : i \in 1 .. n
  BY <1>1
<1>3. q \in Seq(S) /\ Len(q) = n - 1
  <2> HIDE DEF n
  <2> QED
    BY <1>1, <1>2
<1>4. s = Append(q, s[n])
  BY <1>1, <1>2, <1>3
<1> QED
  BY <1>1, <1>2, <1>3, <1>4

LEMMA AppendFacts ==
  ASSUME NEW S, NEW s \in Seq(S), NEW x \in S
  PROVE  /\ Append(s, x) \in Seq(S) /\ Len(Append(s, x)) = Len(s) + 1 /\ Len(s) \in Nat
         /\ Append(s, x)[Len(s) + 1] = x /\ \A i \in 1 .. Len(s) : Append(s, x)[i] = s[i]
         /\ Append(s, x) # << >> /\ ToSet(Append(s, x)) = ToSet(s) \cup {x}
         /\ Append(s, x) = s \o <<x>> /\ <<x>> \in Seq(S) /\ ToSet(<<x>>) = {x}
         /\ Append(<< >>, x) = <<x>>
<1>1. /\ Append(s, x) \in Seq(S) /\ Len(Append(s, x)) = Len(s) + 1 /\ Len(s) \in Nat
      /\ Append(s, x)[Len(s) + 1] = x /\ \A i \in 1 .. Len(s) : Append(s, x)[i] = s[i]
      /\ Append(s, x) # << >> /\ <<x>> \in Seq(S)
  OBVIOUS
<1>2. Append(s, x) = s \o <<x>>
  OBVIOUS
<1>3. Append(<< >>, x) = <<x>>
  OBVIOUS
<1>4. ToSet(<<x>>) = {x}
  BY DEF ToSet
<1>5. ToSet(Append(s, x)) = ToSet(s) \cup {x}
  <2> DEFINE e == <<x>>
  <2>1. e \in Seq(S) /\ ToSet(e) = {x} /\ Append(s, x) = s \o e
    BY <1>1, <1>2, <1>4
  <2> HIDE DEF e
  <2> QED
    BY <2>1, ConcatFacts
<1> QED
  BY <1>1, <1>2, <1>3, <1>4, <1>5

\* Induction on a sequence: T holds those for which something is true.
LEMMA SeqInduction ==
  ASSUME NEW S, NEW T, << >> \in T, \A s \in Seq(S) : \A x \in S : s \in T => Append(s, x) \in T
  PROVE  \A s \in Seq(S) : s \in T
<1> SUFFICES ASSUME NEW t \in Seq(S) PROVE t \in T
  OBVIOUS
<1> DEFINE U == {k \in Nat : \A s \in Seq(S) : Len(s) = k => s \in T}
           n == Len(t)
<1>1. n \in Nat /\ n \in 0 .. n
  OBVIOUS
<1>2. 0 \in U
  <2>1. \A s \in Seq(S) : Len(s) = 0 => s = << >>
    OBVIOUS
  <2> QED
    BY <2>1
<1>3. ASSUME NEW i \in 1 .. n, i - 1 \in U PROVE i \in U
  <2>1. i \in Nat /\ i # 0
    BY <1>1
  <2>2. ASSUME NEW s \in Seq(S), Len(s) = i PROVE s \in T
    <3>1. s # << >>
      BY <2>1, <2>2
    <3>2. PICK q \in Seq(S), x \in S : s = Append(q, x) /\ Len(q) = Len(s) - 1
      BY <3>1, SeqLast
    <3>3. q \in T
      BY <1>3, <2>2, <3>2
    <3> QED
      BY <3>2, <3>3
  <2> QED
    BY <2>1, <2>2
<1> HIDE DEF U, n
<1>4. n \in U
  BY <1>1, <1>2, <1>3, Induction
<1> QED
  BY <1>4 DEF U, n

Unfolded(S, s, good) ==
  \E f \in [0 .. Len(s) -> Seq(S)] :
    Only(s, good) = f[Len(s)] /\ \A i \in 0 .. Len(s) : f[i] = OnlyStep(s, good, f, i)

LEMMA OnlyUnfolding ==
  ASSUME NEW S, NEW s \in Seq(S), NEW good PROVE Unfolded(S, s, good)
<1>1. PICK f \in [0 .. Len(s) -> Seq(S)] :
        Only(s, good) = f[Len(s)] /\ \A i \in 0 .. Len(s) : f[i] = OnlyStep(s, good, f, i)
  BY OnlyUnfolds
<1> QED
  BY <1>1 DEF Unfolded

LEMMA OnlyEmpty == ASSUME NEW good PROVE Only(<< >>, good) = << >>
<1> DEFINE e == << >>
<1>1. e \in Seq({0}) /\ Len(e) = 0
  OBVIOUS
<1> HIDE DEF e
<1>2. Unfolded({0}, e, good)
  BY <1>1, OnlyUnfolding
<1>3. PICK h : Only(e, good) = h[Len(e)] /\ \A i \in 0 .. Len(e) : h[i] = OnlyStep(e, good, h, i)
  BY <1>2, Zenon DEF Unfolded
<1>4. Only(e, good) = << >>
  BY <1>1, <1>3 DEF OnlyStep
<1> QED
  BY <1>4 DEF e

LEMMA OnlyAppend ==
  ASSUME NEW S, NEW s \in Seq(S), NEW x \in S, NEW good
  PROVE  Only(Append(s, x), good) = IF x \in good THEN Append(Only(s, good), x) ELSE Only(s, good)
<1> DEFINE n == Len(s)
           t == Append(s, x)
<1>1. n \in Nat /\ t \in Seq(S) /\ Len(t) = n + 1 /\ t[n + 1] = x /\ \A i \in 1 .. n : t[i] = s[i]
  BY AppendFacts
<1> HIDE DEF t
<1>2. Unfolded(S, t, good)
  <2>1. t \in Seq(S)
    BY <1>1
  <2> QED
    BY <2>1, OnlyUnfolding
<1>3. PICK f \in [0 .. n -> Seq(S)] :
        Only(s, good) = f[n] /\ \A i \in 0 .. n : f[i] = OnlyStep(s, good, f, i)
  BY OnlyUnfolds
<1> HIDE DEF n
<1>4. PICK g \in [0 .. n + 1 -> Seq(S)] :
        Only(t, good) = g[n + 1] /\ \A i \in 0 .. n + 1 : g[i] = OnlyStep(t, good, g, i)
  BY <1>1, <1>2 DEF Unfolded
<1> DEFINE T == {i \in 0 .. n : f[i] = g[i]}
<1>5. 0 \in T
  BY <1>1, <1>3, <1>4 DEF OnlyStep
<1>6. ASSUME NEW i \in 1 .. n, i - 1 \in T PROVE i \in T
  <2>1. i \in 0 .. n /\ i \in 0 .. n + 1 /\ i # 0
    BY <1>1
  <2>2. f[i] = OnlyStep(s, good, f, i) /\ g[i] = OnlyStep(t, good, g, i)
    BY <1>3, <1>4, <2>1
  <2>3. f[i - 1] = g[i - 1] /\ t[i] = s[i]
    BY <1>1, <1>6
  <2>4. f[i] = g[i]
    BY <2>1, <2>2, <2>3 DEF OnlyStep
  <2> QED
    BY <2>1, <2>4
<1>7. \A i \in 0 .. n : i \in T
  <2> HIDE DEF T
  <2> QED
    BY <1>1, <1>5, <1>6, Induction
<1>8. n \in 0 .. n /\ n + 1 \in 0 .. n + 1 /\ n + 1 # 0 /\ (n + 1) - 1 = n
  BY <1>1
<1>9. g[n + 1] = IF x \in good THEN Append(Only(s, good), x) ELSE Only(s, good)
  BY <1>1, <1>3, <1>4, <1>7, <1>8 DEF OnlyStep
<1> QED
  BY <1>4, <1>9 DEF t

LEMMA OnlyConcat ==
  ASSUME NEW S, NEW s \in Seq(S), NEW t \in Seq(S), NEW good
  PROVE  Only(s \o t, good) = Only(s, good) \o Only(t, good)
<1> DEFINE T == {q \in Seq(S) : Only(s \o q, good) = Only(s, good) \o Only(q, good)}
<1>1. << >> \in T
  <2>1. Only(s, good) \in Seq(S) /\ << >> \in Seq(S) /\ s \o << >> = s
    BY OnlyFacts
  <2>2. Only(s, good) \o << >> = Only(s, good)
    BY <2>1
  <2> QED
    BY <2>1, <2>2, OnlyEmpty
<1>2. ASSUME NEW q \in Seq(S), NEW x \in S, q \in T PROVE Append(q, x) \in T
  <2>1. s \o Append(q, x) = Append(s \o q, x) /\ s \o q \in Seq(S) /\ Append(q, x) \in Seq(S)
    OBVIOUS
  <2>2. Only(s \o Append(q, x), good) =
          IF x \in good THEN Append(Only(s \o q, good), x) ELSE Only(s \o q, good)
    <3> DEFINE u == s \o q
    <3> HIDE DEF u
    <3>1. u \in Seq(S) /\ s \o Append(q, x) = Append(u, x)
      BY <2>1 DEF u
    <3>2. Only(Append(u, x), good) = IF x \in good THEN Append(Only(u, good), x) ELSE Only(u, good)
      BY <3>1, OnlyAppend
    <3> QED
      BY <3>1, <3>2 DEF u
  <2>3. Only(Append(q, x), good) = IF x \in good THEN Append(Only(q, good), x) ELSE Only(q, good)
    BY OnlyAppend
  <2>4. Only(s, good) \in Seq(S) /\ Only(q, good) \in Seq(S)
    BY OnlyFacts
  <2>5. Only(s, good) \o Append(Only(q, good), x) = Append(Only(s, good) \o Only(q, good), x)
    BY <2>4
  <2>6. Only(s \o q, good) = Only(s, good) \o Only(q, good)
    BY <1>2
  <2> QED
    BY <2>1, <2>2, <2>3, <2>5, <2>6
<1> HIDE DEF T
<1>3. t \in T
  BY <1>1, <1>2, SeqInduction
<1> QED
  BY <1>3 DEF T

LEMMA OnlyNone ==
  ASSUME NEW S, NEW s \in Seq(S), NEW good, \A x \in ToSet(s) : x \notin good
  PROVE  Only(s, good) = << >>
<1>1. Only(s, good) \in Seq(S) /\ ToSet(Only(s, good)) = {}
  BY OnlyFacts
<1> DEFINE q == Only(s, good)
<1> HIDE DEF q
<1>2. q \in Seq(S) /\ ToSet(q) = {}
  BY <1>1 DEF q
<1>3. Len(q) = 0
  <2> SUFFICES ASSUME Len(q) # 0 PROVE FALSE
    OBVIOUS
  <2>1. 1 \in DOMAIN q
    BY <1>2
  <2> QED
    BY <1>2, <2>1 DEF ToSet
<1>4. q = << >>
  BY <1>2, <1>3
<1> QED
  BY <1>4 DEF q

LEMMA OnlyTwice ==
  ASSUME NEW S, NEW s \in Seq(S), NEW A, NEW B
  PROVE  Only(Only(s, A), B) = Only(s, A \cap B)
<1> DEFINE T == {q \in Seq(S) : Only(Only(q, A), B) = Only(q, A \cap B)}
<1>1. << >> \in T
  BY OnlyEmpty
<1>2. ASSUME NEW q \in Seq(S), NEW x \in S, q \in T PROVE Append(q, x) \in T
  <2>1. Append(q, x) \in Seq(S) /\ Only(q, A) \in Seq(S)
    BY OnlyFacts, AppendFacts
  <2>2. Only(Append(q, x), A) = IF x \in A THEN Append(Only(q, A), x) ELSE Only(q, A)
    BY OnlyAppend
  <2>3. Only(Append(Only(q, A), x), B) =
          IF x \in B THEN Append(Only(Only(q, A), B), x) ELSE Only(Only(q, A), B)
    BY <2>1, OnlyAppend
  <2>4. Only(Append(q, x), A \cap B) =
          IF x \in A \cap B THEN Append(Only(q, A \cap B), x) ELSE Only(q, A \cap B)
    BY OnlyAppend
  <2>5. Only(Only(q, A), B) = Only(q, A \cap B)
    BY <1>2
  <2>6. ASSUME x \in A PROVE Only(Only(Append(q, x), A), B) = Only(Append(q, x), A \cap B)
    <3>1. x \in A \cap B <=> x \in B
      BY <2>6
    <3> QED
      BY <2>2, <2>3, <2>4, <2>5, <2>6, <3>1, Zenon
  <2>7. ASSUME x \notin A PROVE Only(Only(Append(q, x), A), B) = Only(Append(q, x), A \cap B)
    <3>1. x \notin A \cap B
      BY <2>7
    <3> QED
      BY <2>2, <2>4, <2>5, <2>7, <3>1, Zenon
  <2> QED
    BY <2>1, <2>6, <2>7
<1> HIDE DEF T
<1>3. s \in T
  BY <1>1, <1>2, SeqInduction
<1> QED
  BY <1>3 DEF T

LEMMA ReverseAppend ==
  ASSUME NEW S, NEW s \in Seq(S), NEW x \in S
  PROVE  Reverse(Append(s, x)) = <<x>> \o Reverse(s) /\ Reverse(<< >>) = << >>
<1>1. Reverse(<< >>) = << >>
  BY DEF Reverse
<1> DEFINE t == Append(s, x)
           n == Len(s)
           r == Reverse(s)
           u == Reverse(t)
           v == <<x>> \o r
<1>2. n \in Nat /\ t \in Seq(S) /\ Len(t) = n + 1 /\ t[n + 1] = x /\ \A i \in 1 .. n : t[i] = s[i]
  BY AppendFacts
<1> HIDE DEF t
<1>3. u = [i \in 1 .. n + 1 |-> t[((n + 1) - i) + 1]]
  BY <1>2 DEF Reverse
<1>4. r \in Seq(S) /\ Len(r) = n /\ \A i \in 1 .. n : r[i] = s[(n - i) + 1]
  <2>1. r = [i \in 1 .. n |-> s[(n - i) + 1]]
    BY DEF Reverse
  <2>2. r \in Seq(S)
    BY ReverseFacts
  <2> HIDE DEF n, r
  <2> QED
    BY <1>2, <2>1, <2>2
<1> HIDE DEF n, u, r
<1>5. /\ v \in Seq(S) /\ Len(v) = n + 1 /\ v[1] = x
      /\ \A i \in 1 .. n + 1 : i # 1 => v[i] = r[i - 1]
  BY <1>2, <1>4
<1>6. u \in Seq(S) /\ Len(u) = n + 1
  <2>1. u \in Seq(S)
    BY <1>2, ReverseFacts DEF u
  <2> QED
    BY <1>2, <1>3, <2>1
<1> HIDE DEF v
<1>7. ASSUME NEW i \in 1 .. n + 1 PROVE u[i] = v[i]
  <2>1. u[i] = t[((n + 1) - i) + 1]
    BY <1>3
  <2>2. CASE i = 1
    <3>1. ((n + 1) - i) + 1 = n + 1
      BY <1>2, <2>2
    <3> QED
      BY <1>2, <1>5, <2>1, <2>2, <3>1
  <2>3. CASE i # 1
    <3>1. /\ i - 1 \in 1 .. n /\ ((n + 1) - i) + 1 \in 1 .. n
          /\ ((n + 1) - i) + 1 = (n - (i - 1)) + 1
      BY <1>2, <2>3
    <3>2. u[i] = s[((n + 1) - i) + 1]
      BY <1>2, <2>1, <3>1
    <3>3. v[i] = r[i - 1] /\ r[i - 1] = s[(n - (i - 1)) + 1]
      BY <1>4, <1>5, <2>3, <3>1
    <3> QED
      BY <3>1, <3>2, <3>3
  <2> QED
    BY <2>2, <2>3
<1>8. u = v
  BY <1>5, <1>6, <1>7
<1> QED
  BY <1>1, <1>8 DEF u, v, t, r

LEMMA OnlyReverse ==
  ASSUME NEW S, NEW s \in Seq(S), NEW good
  PROVE  Only(Reverse(s), good) = Reverse(Only(s, good))
<1> DEFINE T == {q \in Seq(S) : Only(Reverse(q), good) = Reverse(Only(q, good))}
<1>1. << >> \in T
  <2>1. Reverse(<< >>) = << >>
    BY DEF Reverse
  <2> QED
    BY <2>1, OnlyEmpty
<1>2. ASSUME NEW q \in Seq(S), NEW x \in S, q \in T PROVE Append(q, x) \in T
  <2>1. Append(q, x) \in Seq(S) /\ Only(q, good) \in Seq(S) /\ Reverse(q) \in Seq(S) /\ <<x>> \in Seq(S)
    BY OnlyFacts, AppendFacts, ReverseFacts
  <2>2. Reverse(Append(q, x)) = <<x>> \o Reverse(q)
    BY ReverseAppend
  <2>3. Only(<<x>> \o Reverse(q), good) = Only(<<x>>, good) \o Only(Reverse(q), good)
    <3> DEFINE e == <<x>>
               r == Reverse(q)
    <3>1. e \in Seq(S) /\ r \in Seq(S)
      BY <2>1
    <3> HIDE DEF e, r
    <3>2. Only(e \o r, good) = Only(e, good) \o Only(r, good)
      BY <3>1, OnlyConcat
    <3> QED
      BY <3>2 DEF e, r
  <2>4. Only(<<x>>, good) = IF x \in good THEN <<x>> ELSE << >>
    <3>1. << >> \in Seq(S) /\ Append(<< >>, x) = <<x>>
      BY AppendFacts
    <3>2. Only(Append(<< >>, x), good) = IF x \in good THEN Append(Only(<< >>, good), x) ELSE Only(<< >>, good)
      BY <3>1, OnlyAppend
    <3> QED
      BY <3>1, <3>2, OnlyEmpty
  <2>5. Only(Append(q, x), good) = IF x \in good THEN Append(Only(q, good), x) ELSE Only(q, good)
    BY OnlyAppend
  <2>6. Reverse(Append(Only(q, good), x)) = <<x>> \o Reverse(Only(q, good))
    BY <2>1, ReverseAppend
  <2>7. Only(Reverse(q), good) = Reverse(Only(q, good)) /\ Reverse(Only(q, good)) \in Seq(S)
    BY <1>2, <2>1, ReverseFacts
  <2>8. CASE x \in good
    BY <2>1, <2>2, <2>3, <2>4, <2>5, <2>6, <2>7, <2>8
  <2>9. CASE x \notin good
    <3>1. << >> \o Reverse(Only(q, good)) = Reverse(Only(q, good))
      BY <2>7
    <3> QED
      BY <2>1, <2>2, <2>3, <2>4, <2>5, <2>7, <2>9, <3>1
  <2> QED
    BY <2>8, <2>9
<1> HIDE DEF T
<1>3. s \in T
  BY <1>1, <1>2, SeqInduction
<1> QED
  BY <1>3 DEF T

-----------------------------------------------------------------------------
(* Sorted lists.  What is not ordered is equal; a sort keeps equals in     *)
(* their order.                                                            *)

\* An order in which different elements may be equal, as those of Array.sort.
WeakOrder(W, S) ==
  /\ \A x, y \in S : <<x, y>> \in W => <<y, x>> \notin W
  /\ \A x, y, z \in S : <<x, z>> \in W => <<x, y>> \in W \/ <<y, z>> \in W
Equals(W, S, x) == {y \in S : <<x, y>> \notin W /\ <<y, x>> \notin W}
Sorted(s, W) == \A i, j \in DOMAIN s : i < j => <<s[j], s[i]>> \notin W
Backwards(W, S) == {p \in S \X S : <<p[2], p[1]>> \in W}

LEMMA EqualsFacts ==
  ASSUME NEW S, NEW W, WeakOrder(W, S), NEW x \in S
  PROVE  /\ x \in Equals(W, S, x)
         /\ \A y \in Equals(W, S, x) : Equals(W, S, y) = Equals(W, S, x)
<1>1. x \in Equals(W, S, x)
  BY Zenon DEF Equals, WeakOrder
<1>2. ASSUME NEW y \in Equals(W, S, x) PROVE Equals(W, S, y) = Equals(W, S, x)
  <2>1. y \in S /\ <<x, y>> \notin W /\ <<y, x>> \notin W
    BY Zenon DEF Equals
  <2>2. \A z \in S : (<<y, z>> \notin W /\ <<z, y>> \notin W) <=> (<<x, z>> \notin W /\ <<z, x>> \notin W)
    BY <2>1, Zenon DEF WeakOrder
  <2> QED
    BY <2>2, Zenon DEF Equals
<1> QED
  BY <1>1, <1>2

LEMMA BackwardsFacts ==
  ASSUME NEW S, NEW W, WeakOrder(W, S)
  PROVE  /\ WeakOrder(Backwards(W, S), S)
         /\ \A x \in S : Equals(Backwards(W, S), S, x) = Equals(W, S, x)
         /\ \A x, y \in S : <<x, y>> \in Backwards(W, S) <=> <<y, x>> \in W
<1>1. \A x, y \in S : <<x, y>> \in Backwards(W, S) <=> <<y, x>> \in W
  BY DEF Backwards
<1>2. WeakOrder(Backwards(W, S), S)
  BY <1>1, Zenon DEF WeakOrder
<1>3. ASSUME NEW x \in S PROVE Equals(Backwards(W, S), S, x) = Equals(W, S, x)
  BY <1>1, Zenon DEF Equals
<1> QED
  BY <1>1, <1>2, <1>3

LEMMA SortedConcat ==
  ASSUME NEW S, NEW s \in Seq(S), NEW t \in Seq(S), NEW W
  PROVE  Sorted(s \o t, W) <=> /\ Sorted(s, W) /\ Sorted(t, W)
                               /\ \A x \in ToSet(s), y \in ToSet(t) : <<y, x>> \notin W
<1> DEFINE u == s \o t
           m == Len(s)
           n == Len(t)
<1>1. /\ DOMAIN u = 1 .. m + n /\ \A i \in 1 .. m + n : u[i] = IF i <= m THEN s[i] ELSE t[i - m]
  BY ConcatFacts
<1>2. m \in Nat /\ n \in Nat /\ DOMAIN s = 1 .. m /\ DOMAIN t = 1 .. n
  OBVIOUS
<1> HIDE DEF u, m, n
<1>3. \A i \in 1 .. m : i \in 1 .. m + n /\ u[i] = s[i]
  BY <1>1, <1>2
<1>4. \A i \in 1 .. n : m + i \in 1 .. m + n /\ u[m + i] = t[i]
  BY <1>1, <1>2
<1>5. ASSUME Sorted(u, W)
      PROVE  Sorted(s, W) /\ Sorted(t, W) /\ \A x \in ToSet(s), y \in ToSet(t) : <<y, x>> \notin W
  <2>1. Sorted(s, W)
    BY <1>1, <1>2, <1>3, <1>5, Zenon DEF Sorted
  <2>2. \A i, j \in 1 .. n : i < j => m + i < m + j
    BY <1>2
  <2>3. Sorted(t, W)
    BY <1>1, <1>2, <1>4, <1>5, <2>2, Zenon DEF Sorted
  <2>4. \A i \in 1 .. m, j \in 1 .. n : i < m + j
    BY <1>2
  <2>5. \A i \in 1 .. m, j \in 1 .. n : <<t[j], s[i]>> \notin W
    BY <1>1, <1>3, <1>4, <1>5, <2>4, Zenon DEF Sorted
  <2> QED
    BY <1>2, <2>1, <2>3, <2>5, Zenon DEF ToSet
<1>6. ASSUME Sorted(s, W), Sorted(t, W), \A x \in ToSet(s), y \in ToSet(t) : <<y, x>> \notin W,
             NEW i \in 1 .. m + n, NEW j \in 1 .. m + n, i < j
      PROVE  <<u[j], u[i]>> \notin W
  <2>1. CASE j <= m
    <3>1. i \in 1 .. m /\ j \in 1 .. m
      BY <1>2, <1>6, <2>1
    <3> QED
      BY <1>2, <1>3, <1>6, <3>1, Zenon DEF Sorted
  <2>2. CASE i <= m /\ ~(j <= m)
    <3>1. i \in 1 .. m /\ j - m \in 1 .. n /\ u[j] = t[j - m]
      BY <1>1, <1>2, <2>2
    <3>2. s[i] \in ToSet(s) /\ t[j - m] \in ToSet(t)
      BY <1>2, <3>1, Zenon DEF ToSet
    <3> QED
      BY <1>3, <1>6, <3>1, <3>2, Zenon
  <2>3. CASE ~(i <= m) /\ ~(j <= m)
    <3>1. i - m \in 1 .. n /\ j - m \in 1 .. n /\ i - m < j - m /\ u[j] = t[j - m] /\ u[i] = t[i - m]
      BY <1>1, <1>2, <1>6, <2>3
    <3> QED
      BY <1>2, <1>6, <3>1, Zenon DEF Sorted
  <2>4. ~(i <= m) => ~(j <= m)
    BY <1>2, <1>6
  <2> QED
    BY <2>1, <2>2, <2>3, <2>4
<1>7. Sorted(u, W) <=> /\ Sorted(s, W) /\ Sorted(t, W)
                       /\ \A x \in ToSet(s), y \in ToSet(t) : <<y, x>> \notin W
  <2>1. Sorted(s, W) /\ Sorted(t, W) /\ (\A x \in ToSet(s), y \in ToSet(t) : <<y, x>> \notin W) => Sorted(u, W)
    BY <1>1, <1>6, Zenon DEF Sorted
  <2> QED
    BY <1>5, <2>1, Zenon
<1> QED
  BY <1>7 DEF u

LEMMA SortedAppend ==
  ASSUME NEW S, NEW s \in Seq(S), NEW x \in S, NEW W, <<x, x>> \notin W
  PROVE  /\ Sorted(Append(s, x), W) <=> Sorted(s, W) /\ \A y \in ToSet(s) : <<x, y>> \notin W
         /\ Sorted(<<x>>, W) /\ Sorted(<< >>, W)
<1> DEFINE e == <<x>>
<1>1. Append(s, x) = s \o e /\ e \in Seq(S) /\ ToSet(e) = {x}
  BY AppendFacts
<1>2. Sorted(e, W) /\ Sorted(<< >>, W)
  BY DEF Sorted
<1> HIDE DEF e
<1>3. Sorted(s \o e, W) <=> Sorted(s, W) /\ Sorted(e, W) /\ \A y \in ToSet(s), z \in ToSet(e) : <<z, y>> \notin W
  BY <1>1, SortedConcat
<1>4. Sorted(Append(s, x), W) <=> Sorted(s, W) /\ \A y \in ToSet(s) : <<x, y>> \notin W
  BY <1>1, <1>2, <1>3
<1> QED
  BY <1>2, <1>4 DEF e

LEMMA SortedOnly ==
  ASSUME NEW S, NEW s \in Seq(S), NEW W, WeakOrder(W, S), Sorted(s, W), NEW good
  PROVE  Sorted(Only(s, good), W)
<1> DEFINE T == {q \in Seq(S) : Sorted(q, W) => Sorted(Only(q, good), W)}
<1>1. << >> \in T
  BY OnlyEmpty
<1>2. ASSUME NEW q \in Seq(S), NEW x \in S, q \in T PROVE Append(q, x) \in T
  <2> HIDE DEF T
  <2>1. Append(q, x) \in Seq(S) /\ Only(q, good) \in Seq(S) /\ <<x, x>> \notin W
    BY OnlyFacts, AppendFacts DEF WeakOrder
  <2>2. Only(Append(q, x), good) = IF x \in good THEN Append(Only(q, good), x) ELSE Only(q, good)
    BY OnlyAppend
  <2>3. ASSUME Sorted(Append(q, x), W) PROVE Sorted(Only(Append(q, x), good), W)
    <3>1. Sorted(q, W) /\ \A y \in ToSet(q) : <<x, y>> \notin W
      BY <2>1, <2>3, SortedAppend
    <3>2. Sorted(Only(q, good), W)
      BY <1>2, <3>1 DEF T
    <3>3. \A y \in ToSet(Only(q, good)) : <<x, y>> \notin W
      <4>1. ToSet(Only(q, good)) = ToSet(q) \cap good
        BY OnlyFacts
      <4> QED
        BY <3>1, <4>1
    <3>4. Sorted(Append(Only(q, good), x), W)
      BY <2>1, <3>2, <3>3, SortedAppend
    <3> QED
      BY <2>2, <3>2, <3>4, Zenon
  <2> QED
    BY <2>1, <2>3 DEF T
<1> HIDE DEF T
<1>3. s \in T
  BY <1>1, <1>2, SeqInduction
<1> QED
  BY <1>3 DEF T

LEMMA SortedReverse ==
  ASSUME NEW S, NEW s \in Seq(S), NEW W, WeakOrder(W, S), Sorted(s, W)
  PROVE  Sorted(Reverse(s), Backwards(W, S))
<1> DEFINE n == Len(s)
           r == Reverse(s)
<1>1. n \in Nat /\ DOMAIN s = 1 .. n /\ \A i \in 1 .. n : s[i] \in S
  OBVIOUS
<1>2. r = [i \in 1 .. n |-> s[(n - i) + 1]]
  BY DEF Reverse
<1> HIDE DEF n, r
<1>3. ASSUME NEW i \in DOMAIN r, NEW j \in DOMAIN r, i < j
      PROVE  <<r[j], r[i]>> \notin Backwards(W, S)
  <2>1. i \in 1 .. n /\ j \in 1 .. n /\ r[i] = s[(n - i) + 1] /\ r[j] = s[(n - j) + 1]
    BY <1>2
  <2>2. (n - i) + 1 \in 1 .. n /\ (n - j) + 1 \in 1 .. n /\ (n - j) + 1 < (n - i) + 1
    BY <1>1, <1>3, <2>1
  <2>3. <<r[i], r[j]>> \notin W /\ r[i] \in S /\ r[j] \in S
    BY <1>1, <2>1, <2>2, Zenon DEF Sorted
  <2> QED
    BY <2>3, BackwardsFacts, Zenon
<1> QED
  BY <1>3 DEF Sorted, r

\* An element comes between those it is not ordered before and those it is.
Between(q, f, W, a, b) ==
  /\ q = a \o b /\ Inserted(q, f, W) = (a \o <<f>>) \o b
  /\ \A x \in ToSet(a) : <<f, x>> \notin W
  /\ \A x \in ToSet(b) : <<f, x>> \in W
LEMMA InsertedBetween ==
  ASSUME NEW S, NEW q \in Seq(S), NEW f \in S, NEW W, WeakOrder(W, S), Sorted(q, W)
  PROVE  \E a, b \in Seq(S) : Between(q, f, W, a, b)
<1> DEFINE n == Len(q)
           I == {i \in DOMAIN q : <<f, q[i]>> \notin W}
           k == Cardinality(I)
           a == SubSeq(q, 1, k)
           b == SubSeq(q, k + 1, n)
<1>1. n \in Nat /\ DOMAIN q = 1 .. n /\ \A i \in 1 .. n : q[i] \in S
  OBVIOUS
<1>2. ASSUME NEW i \in I, NEW j \in 1 .. n, j < i PROVE j \in I
  <2>1. i \in 1 .. n /\ <<f, q[i]>> \notin W
    BY <1>1
  <2>2. <<q[i], q[j]>> \notin W
    BY <1>1, <1>2, <2>1, Zenon DEF Sorted
  <2>3. q[i] \in S /\ q[j] \in S
    BY <1>1, <2>1
  <2>4. <<f, q[j]>> \notin W
    BY <2>1, <2>2, <2>3, Zenon DEF WeakOrder
  <2> QED
    BY <1>1, <2>4
<1> HIDE DEF I
<1>3. I \subseteq 1 .. n /\ IsFiniteSet(I)
  <2>1. I \subseteq 1 .. n
    BY <1>1 DEF I
  <2> QED
    BY <1>1, <2>1, IntervalFacts
<1>4. I = 1 .. k /\ k \in 0 .. n
  <2>1. CASE I = {}
    <3>1. k = 0
      BY <2>1, FS_EmptySet
    <3> QED
      BY <1>1, <2>1, <3>1
  <2>2. CASE I # {}
    <3>1. \E m \in I : \A i \in I : i <= m
      BY <1>1, <1>3, <2>2, GreatestExists
    <3>2. PICK m \in I : \A i \in I : i <= m
      BY <3>1
    <3>3. I = 1 .. m /\ m \in 1 .. n
      <4>1. m \in 1 .. n
        BY <1>3
      <4>2. \A j \in I : j \in 1 .. m
        BY <1>3, <3>2, <4>1
      <4>3. \A j \in 1 .. m : j \in 1 .. n /\ (j = m \/ j < m)
        BY <4>1
      <4>4. \A j \in 1 .. m : j \in I
        BY <1>2, <4>3
      <4> QED
        BY <4>1, <4>2, <4>4
    <3>4. Cardinality(1 .. m) = m
      <4>1. Cardinality(1 .. m) = IF 1 > m THEN 0 ELSE m - 1 + 1
        BY <3>3, FS_Interval
      <4> QED
        BY <3>3, <4>1
    <3> QED
      BY <1>1, <3>3, <3>4
  <2> QED
    BY <2>1, <2>2
<1>5. Inserted(q, f, W) = InsertAt(q, 1 + k, f)
  BY DEF Inserted, I
<1> HIDE DEF k, n
<1>6. Inserted(q, f, W) = (a \o <<f>>) \o b
  <2>1. (1 + k) - 1 = k /\ 1 + k = k + 1
    BY <1>1, <1>4
  <2> QED
    BY <1>5, <2>1 DEF InsertAt, n
<1>7. /\ a \in Seq(S) /\ ToSet(a) = {q[j] : j \in 1 .. k} /\ Len(a) = k
      /\ \A j \in 1 .. k : a[j] = q[j]
  <2>1. /\ SubSeq(q, 1, k) \in Seq(S) /\ ToSet(SubSeq(q, 1, k)) = {q[j] : j \in 1 .. k}
        /\ Len(SubSeq(q, 1, k)) = k - 1 + 1
        /\ \A j \in 1 .. k - 1 + 1 : SubSeq(q, 1, k)[j] = q[1 + j - 1]
    BY <1>1, <1>4, SubSeqFacts DEF n
  <2> HIDE DEF a
  <2>2. k - 1 + 1 = k /\ \A j \in 1 .. k : 1 + j - 1 = j
    BY <1>4
  <2> QED
    BY <2>1, <2>2 DEF a
<1>8. /\ b \in Seq(S) /\ ToSet(b) = {q[j] : j \in k + 1 .. n} /\ Len(b) = n - k
      /\ \A j \in 1 .. n - k : b[j] = q[k + j]
  <2> DEFINE l == k + 1
  <2>1. l \in Nat /\ 1 <= l /\ n <= n /\ l <= n + 1 /\ n \in Nat
    BY <1>1, <1>4
  <2> HIDE DEF l
  <2>2. /\ SubSeq(q, l, n) \in Seq(S) /\ ToSet(SubSeq(q, l, n)) = {q[j] : j \in l .. n}
        /\ Len(SubSeq(q, l, n)) = n - l + 1
        /\ \A j \in 1 .. n - l + 1 : SubSeq(q, l, n)[j] = q[l + j - 1]
    BY <2>1, SubSeqFacts DEF n
  <2>3. n - l + 1 = n - k /\ \A j \in 1 .. n - k : l + j - 1 = k + j
    BY <1>1, <1>4 DEF l
  <2> QED
    BY <2>2, <2>3 DEF l
<1> HIDE DEF a, b
<1>9. q = a \o b
  <2>1. /\ a \o b \in Seq(S) /\ DOMAIN (a \o b) = 1 .. Len(a) + Len(b)
        /\ \A i \in 1 .. Len(a) + Len(b) : (a \o b)[i] = IF i <= Len(a) THEN a[i] ELSE b[i - Len(a)]
    BY <1>7, <1>8, ConcatFacts
  <2>2. Len(a) + Len(b) = n
    BY <1>1, <1>4, <1>7, <1>8
  <2>3. ASSUME NEW i \in 1 .. n PROVE (a \o b)[i] = q[i]
    <3>1. (a \o b)[i] = IF i <= k THEN a[i] ELSE b[i - k]
      BY <1>7, <2>1, <2>2, <2>3, Zenon
    <3>2. CASE i <= k
      <4>1. i \in 1 .. k
        BY <1>4, <3>2
      <4> QED
        BY <1>7, <3>1, <3>2, <4>1
    <3>3. CASE ~(i <= k)
      <4>1. i - k \in 1 .. n - k /\ k + (i - k) = i
        BY <1>1, <1>4, <3>3
      <4>2. b[i - k] = q[k + (i - k)]
        BY <1>8, <4>1
      <4> QED
        BY <3>1, <3>3, <4>1, <4>2
    <3> QED
      BY <3>2, <3>3
  <2> DEFINE u == a \o b
  <2>4. u \in Seq(S) /\ DOMAIN u = 1 .. n /\ \A i \in 1 .. n : u[i] = q[i]
    BY <2>1, <2>2, <2>3
  <2> HIDE DEF u
  <2>5. u = q
    BY <1>1, <2>4
  <2> QED
    BY <2>5 DEF u
<1>10. \A x \in ToSet(a) : <<f, x>> \notin W
  <2>1. \A j \in 1 .. k : <<f, q[j]>> \notin W
    BY <1>4 DEF I
  <2> QED
    BY <1>7, <2>1
<1>11. \A x \in ToSet(b) : <<f, x>> \in W
  <2>1. ASSUME NEW j \in k + 1 .. n PROVE <<f, q[j]>> \in W
    <3>1. j \in 1 .. n /\ j \notin 1 .. k
      BY <1>1, <1>4
    <3> QED
      BY <1>1, <1>4, <3>1 DEF I
  <2> QED
    BY <1>8, <2>1
<1> QED
  BY <1>6, <1>7, <1>8, <1>9, <1>10, <1>11, Zenon DEF Between

\* It keeps the order, and comes behind its equals.
LEMMA InsertedSorted ==
  ASSUME NEW S, NEW q \in Seq(S), NEW f \in S, NEW W, WeakOrder(W, S), Sorted(q, W)
  PROVE  /\ Inserted(q, f, W) \in Seq(S) /\ Sorted(Inserted(q, f, W), W)
         /\ \A x \in S : Only(Inserted(q, f, W), Equals(W, S, x)) = Only(Append(q, f), Equals(W, S, x))
<1>11. PICK a \in Seq(S), b \in Seq(S) : Between(q, f, W, a, b)
  BY InsertedBetween
<1>1. /\ q = a \o b /\ Inserted(q, f, W) = (a \o <<f>>) \o b
      /\ \A x \in ToSet(a) : <<f, x>> \notin W
      /\ \A x \in ToSet(b) : <<f, x>> \in W
  BY <1>11, Zenon DEF Between
<1> DEFINE e == <<f>>
<1>10. q = a \o b /\ Inserted(q, f, W) = (a \o e) \o b
  BY <1>1
<1>2. e \in Seq(S) /\ ToSet(e) = {f} /\ Append(q, f) = q \o e /\ Sorted(e, W) /\ <<f, f>> \notin W
  <2>1. <<f, f>> \notin W
    BY DEF WeakOrder
  <2> QED
    BY <2>1, AppendFacts, SortedAppend
<1> HIDE DEF e
<1> DEFINE c == a \o e
<1>3. c \in Seq(S) /\ ToSet(c) = ToSet(a) \cup {f}
  BY <1>1, <1>2, ConcatFacts
<1>4. Sorted(a, W) /\ Sorted(b, W) /\ \A x \in ToSet(a), y \in ToSet(b) : <<y, x>> \notin W
  BY <1>1, SortedConcat
<1>5. Sorted(c, W)
  BY <1>1, <1>2, <1>4, SortedConcat
<1>6. \A x \in ToSet(b) : x \in S
  BY DEF ToSet
<1> HIDE DEF c
<1>7. Sorted(c \o b, W)
  <2>1. \A y \in ToSet(b) : <<y, f>> \notin W
    BY <1>1, <1>6, Zenon DEF WeakOrder
  <2>2. \A x \in ToSet(c), y \in ToSet(b) : <<y, x>> \notin W
    BY <1>3, <1>4, <2>1
  <2> QED
    BY <1>3, <1>4, <1>5, <2>2, SortedConcat
<1>8. c \o b \in Seq(S)
  BY <1>3, ConcatFacts
<1>9. ASSUME NEW x \in S
      PROVE  Only(c \o b, Equals(W, S, x)) = Only(Append(q, f), Equals(W, S, x))
  <2> DEFINE C == Equals(W, S, x)
             A == Only(a, C)
             B == Only(b, C)
             E == Only(e, C)
  <2>1. f \in C => \A y \in ToSet(b) : y \notin C
    <3> SUFFICES ASSUME f \in C, NEW y \in ToSet(b), y \in C PROVE FALSE
      OBVIOUS
    <3>1. Equals(W, S, f) = C
      BY EqualsFacts
    <3>2. <<f, y>> \notin W
      BY <3>1 DEF Equals
    <3> QED
      BY <1>1, <3>2
  <2> HIDE DEF C
  <2>2. A \in Seq(S) /\ B \in Seq(S) /\ E \in Seq(S)
    BY <1>2, OnlyFacts
  <2>3. Only(c \o b, C) = (A \o E) \o B
    <3>1. Only(c \o b, C) = Only(c, C) \o B
      BY <1>3, OnlyConcat
    <3>2. Only(c, C) = A \o E
      <4>1. a \in Seq(S) /\ e \in Seq(S)
        BY <1>2
      <4>2. Only(a \o e, C) = Only(a, C) \o Only(e, C)
        BY <4>1, OnlyConcat, SMTT(60)
      <4> QED
        BY <4>2, Zenon DEF c
    <3> QED
      BY <3>1, <3>2
  <2>4. Only(q \o e, C) = (A \o B) \o E
    <3>1. q \in Seq(S) /\ Only(q \o e, C) = Only(q, C) \o E
      BY <1>2, OnlyConcat
    <3>2. Only(q, C) = A \o B
      BY <1>1, OnlyConcat
    <3> QED
      BY <3>1, <3>2
  <2> HIDE DEF A, B, E
  <2>5. CASE f \in C
    <3>1. B = << >>
      BY <2>1, <2>5, OnlyNone DEF B
    <3>2. (A \o E) \o << >> = A \o E /\ A \o << >> = A
      BY <2>2
    <3> QED
      BY <1>2, <2>3, <2>4, <3>1, <3>2 DEF C
  <2>6. CASE f \notin C
    <3>1. E = << >>
      BY <1>2, <2>6, OnlyNone DEF E
    <3>2. A \o << >> = A /\ (A \o B) \o << >> = A \o B
      BY <2>2
    <3> QED
      BY <1>2, <2>3, <2>4, <3>1, <3>2 DEF C
  <2> QED
    BY <2>5, <2>6
<1> QED
  BY <1>7, <1>8, <1>9, <1>10 DEF c

LEMMA AppendSet ==
  ASSUME NEW S, NEW s \in Seq(S), NEW x \in S
  PROVE  Append(s, x) \in Seq(S) /\ ToSet(Append(s, x)) = ToSet(s) \cup {x}
<1> DEFINE e == <<x>>
<1>1. e \in Seq(S) /\ Append(s, x) = s \o e
  OBVIOUS
<1>2. ToSet(e) = {x}
  BY DEF ToSet
<1> HIDE DEF e
<1> QED
  BY <1>1, <1>2, ConcatFacts

LEMMA InsertedSame ==
  ASSUME NEW q, NEW f, NEW L, NEW W, \A x \in ToSet(q) : <<f, x>> \in L <=> <<f, x>> \in W
  PROVE  Inserted(q, f, L) = Inserted(q, f, W)
<1>1. {i \in DOMAIN q : <<f, q[i]>> \notin L} = {i \in DOMAIN q : <<f, q[i]>> \notin W}
  BY DEF ToSet
<1> QED
  BY <1>1, Zenon DEF Inserted

LEMMA SortKeeps ==
  ASSUME NEW S, NEW s \in Seq(S), NEW W, WeakOrder(W, S), NEW L,
         \A x, y \in ToSet(s) : <<x, y>> \in L <=> <<x, y>> \in W
  PROVE  /\ StableSort(s, L) \in Seq(S) /\ Sorted(StableSort(s, L), W)
         /\ \A x \in S : Only(StableSort(s, L), Equals(W, S, x)) = Only(s, Equals(W, S, x))
<1> DEFINE n == Len(s)
           p(i) == SubSeq(s, 1, i)
<1>1. PICK f : /\ StableSort(s, L) = f[n] /\ f[0] = << >>
               /\ \A i \in 1 .. n : f[i] = Inserted(f[i - 1], s[i], L)
  BY StableSortUnfolds
<1>2. n \in Nat /\ n \in 0 .. n /\ 0 \in 0 .. n /\ DOMAIN s = 1 .. n /\ \A i \in 1 .. n : s[i] \in S
  OBVIOUS
<1>3. p(0) = << >> /\ p(n) = s
  OBVIOUS
<1>4. ASSUME NEW i \in 1 .. n
      PROVE  p(i) = Append(p(i - 1), s[i]) /\ p(i - 1) \in Seq(S) /\ s[i] \in S
  OBVIOUS
<1>5. \A i \in 0 .. n : ToSet(p(i)) \subseteq ToSet(s)
  <2>1. \A i \in 0 .. n : Len(p(i)) = i /\ DOMAIN p(i) = 1 .. i /\ \A j \in 1 .. i : p(i)[j] = s[j] /\ j \in 1 .. n
    OBVIOUS
  <2> HIDE DEF p, n
  <2> QED
    BY <1>2, <2>1, Zenon DEF ToSet
<1> DEFINE Good(q, i) == /\ q \in Seq(S) /\ Sorted(q, W) /\ ToSet(q) = ToSet(p(i))
                         /\ \A x \in S : Only(q, Equals(W, S, x)) = Only(p(i), Equals(W, S, x))
           T == {i \in 0 .. n : Good(f[i], i)}
<1>6. Good(<< >>, 0)
  <2>1. << >> \in Seq(S) /\ Sorted(<< >>, W)
    BY DEF Sorted
  <2> HIDE DEF p
  <2> QED
    BY <1>3, <2>1, Zenon
<1>7. ASSUME NEW i \in 1 .. n, NEW q, Good(q, i - 1) PROVE Good(Inserted(q, s[i], L), i)
  <2> DEFINE e == s[i]
             h == Inserted(q, e, W)
             o == p(i - 1)
             b == p(i)
  <2>1. b = Append(o, e) /\ o \in Seq(S) /\ e \in S
    BY <1>4
  <2>2. q \in Seq(S) /\ Sorted(q, W) /\ ToSet(q) = ToSet(o)
        /\ \A x \in S : Only(q, Equals(W, S, x)) = Only(o, Equals(W, S, x))
    BY <1>7
  <2>3. ToSet(o) \subseteq ToSet(s) /\ e \in ToSet(s)
    <3>1. i - 1 \in 0 .. n
      BY <1>2
    <3> HIDE DEF p
    <3> QED
      BY <1>2, <1>5, <3>1, Zenon DEF ToSet
  <2>4. Inserted(q, e, L) = h
    <3> HIDE DEF o, e
    <3>1. \A x \in ToSet(q) : <<e, x>> \in L <=> <<e, x>> \in W
      BY <2>2, <2>3
    <3> QED
      BY <3>1, InsertedSame
  <2> HIDE DEF e, o, b, Good, T, p
  <2>5. h \in Seq(S) /\ Sorted(h, W) /\ ToSet(h) = ToSet(q) \cup {e}
    <3>1. h \in Seq(S) /\ Sorted(h, W)
      BY <2>1, <2>2, InsertedSorted
    <3>2. ToSet(h) = ToSet(q) \cup {e}
      BY <2>1, <2>2, InsertedFacts
    <3> QED
      BY <3>1, <3>2
  <2>6. ToSet(b) = ToSet(o) \cup {e}
    <3>1. ToSet(Append(o, e)) = ToSet(o) \cup {e}
      BY <2>1, AppendSet
    <3> QED
      BY <2>1, <3>1
  <2>7. ASSUME NEW x \in S PROVE Only(h, Equals(W, S, x)) = Only(b, Equals(W, S, x))
    <3> DEFINE C == Equals(W, S, x)
    <3>1. Only(h, C) = Only(Append(q, e), C)
      BY <2>1, <2>2, InsertedSorted
    <3> HIDE DEF C
    <3>2. Only(Append(q, e), C) = IF e \in C THEN Append(Only(q, C), e) ELSE Only(q, C)
      BY <2>1, <2>2, OnlyAppend
    <3>3. Only(Append(o, e), C) = IF e \in C THEN Append(Only(o, C), e) ELSE Only(o, C)
      BY <2>1, OnlyAppend
    <3>4. Only(q, C) = Only(o, C)
      BY <2>2 DEF C
    <3>5. Only(h, C) = Only(b, C)
      BY <2>1, <3>1, <3>2, <3>3, <3>4, Zenon
    <3> QED
      BY <3>5 DEF C
  <2> HIDE DEF h
  <2>8. Good(h, i)
    <3>1. ToSet(h) = ToSet(b)
      BY <2>2, <2>5, <2>6
    <3> QED
      BY <2>5, <2>7, <3>1, Zenon DEF Good, b
  <2> QED
    BY <2>4, <2>8 DEF e
<1> HIDE DEF Good
<1>8. \A i \in 0 .. n : i \in T
  <2>1. 0 \in T
    BY <1>1, <1>2, <1>6, Zenon
  <2>2. ASSUME NEW i \in 1 .. n, i - 1 \in T PROVE i \in T
    <3>1. i \in 0 .. n /\ Good(f[i - 1], i - 1)
      BY <2>2
    <3>2. f[i] = Inserted(f[i - 1], s[i], L)
      BY <1>1
    <3>3. Good(f[i], i)
      BY <1>7, <3>1, <3>2, Zenon
    <3> QED
      BY <3>1, <3>3
  <2> HIDE DEF T, n
  <2> QED
    BY <1>2, <2>1, <2>2, Induction
<1>9. Good(f[n], n)
  BY <1>2, <1>8
<1> QED
  BY <1>1, <1>3, <1>9, Zenon DEF Good

LEMMA AppendOnce ==
  ASSUME NEW S, NEW a \in Seq(S), NEW b \in Seq(S), NEW x \in S, NEW y \in S, Append(a, x) = Append(b, y)
  PROVE  a = b /\ x = y
<1>1. /\ Len(a) \in Nat /\ Len(Append(a, x)) = Len(a) + 1 /\ Append(a, x)[Len(a) + 1] = x
      /\ \A i \in 1 .. Len(a) : Append(a, x)[i] = a[i]
  OBVIOUS
<1>2. /\ Len(b) \in Nat /\ Len(Append(b, y)) = Len(b) + 1 /\ Append(b, y)[Len(b) + 1] = y
      /\ \A i \in 1 .. Len(b) : Append(b, y)[i] = b[i]
  OBVIOUS
<1>3. Len(a) = Len(b)
  BY <1>1, <1>2
<1>4. x = y /\ \A i \in 1 .. Len(a) : a[i] = b[i]
  BY <1>1, <1>2, <1>3
<1> QED
  BY <1>3, <1>4

\* Lists that keep each class of equals alike.
SameEquals(W, S, p, q) == \A x \in S : Only(p, Equals(W, S, x)) = Only(q, Equals(W, S, x))

LEMMA EqualFound ==
  ASSUME NEW S, NEW W, WeakOrder(W, S), NEW p \in Seq(S), NEW q \in Seq(S), SameEquals(W, S, p, q),
         NEW x \in S, x \in ToSet(p)
  PROVE  \E y \in ToSet(q) : y \in Equals(W, S, x)
<1>1. x \in Equals(W, S, x)
  BY EqualsFacts
<1>2. Only(p, Equals(W, S, x)) = Only(q, Equals(W, S, x))
  BY Zenon DEF SameEquals
<1>3. /\ ToSet(Only(p, Equals(W, S, x))) = ToSet(p) \cap Equals(W, S, x)
      /\ ToSet(Only(q, Equals(W, S, x))) = ToSet(q) \cap Equals(W, S, x)
  BY OnlyFacts
<1> QED
  BY <1>1, <1>2, <1>3

LEMMA SortedLast ==
  ASSUME NEW S, NEW W, WeakOrder(W, S), NEW p \in Seq(S), NEW r \in Seq(S), NEW x \in S, NEW y \in S,
         Sorted(Append(p, x), W), Sorted(Append(r, y), W), SameEquals(W, S, Append(p, x), Append(r, y))
  PROVE  x = y /\ SameEquals(W, S, p, r) /\ Sorted(p, W) /\ Sorted(r, W)
<1> DEFINE px == Append(p, x)
           q == Append(r, y)
<1>1. px \in Seq(S) /\ ToSet(px) = ToSet(p) \cup {x} /\ q \in Seq(S) /\ ToSet(q) = ToSet(r) \cup {y}
  <2>1. px \in Seq(S) /\ ToSet(px) = ToSet(p) \cup {x}
    BY AppendSet
  <2>2. q \in Seq(S) /\ ToSet(q) = ToSet(r) \cup {y}
    BY AppendSet
  <2> QED
    BY <2>1, <2>2
<1>2. <<x, x>> \notin W /\ <<y, y>> \notin W
  BY DEF WeakOrder
<1>3. /\ Sorted(p, W) /\ \A z \in ToSet(p) : <<x, z>> \notin W
      /\ Sorted(r, W) /\ \A z \in ToSet(r) : <<y, z>> \notin W
  BY <1>2, SortedAppend
<1>4. SameEquals(W, S, px, q) /\ SameEquals(W, S, q, px)
  BY DEF SameEquals
<1> HIDE DEF px, q
<1>5. \A z \in ToSet(px) : z \in S /\ <<x, z>> \notin W
  <2>1. \A z \in ToSet(p) : z \in S
    BY DEF ToSet
  <2> QED
    BY <1>1, <1>2, <1>3, <2>1
<1>6. \A z \in ToSet(q) : z \in S /\ <<y, z>> \notin W
  <2>1. \A z \in ToSet(r) : z \in S
    BY DEF ToSet
  <2> QED
    BY <1>1, <1>2, <1>3, <2>1
<1>7. <<y, x>> \notin W
  <2>1. PICK z \in ToSet(q) : z \in Equals(W, S, x)
    BY <1>1, <1>4, EqualFound
  <2>2. z \in S /\ <<y, z>> \notin W /\ <<z, x>> \notin W
    BY <1>6, <2>1 DEF Equals
  <2> QED
    BY <2>2, Zenon DEF WeakOrder
<1>8. <<x, y>> \notin W
  <2>1. PICK z \in ToSet(px) : z \in Equals(W, S, y)
    BY <1>1, <1>4, EqualFound
  <2>2. z \in S /\ <<x, z>> \notin W /\ <<z, y>> \notin W
    BY <1>5, <2>1 DEF Equals
  <2> QED
    BY <2>2, Zenon DEF WeakOrder
<1>9. ASSUME NEW z \in S
      PROVE  /\ x \in Equals(W, S, z) => x = y
             /\ Only(p, Equals(W, S, z)) = Only(r, Equals(W, S, z))
  <2> DEFINE C == Equals(W, S, z)
  <2>1. Only(px, C) = Only(q, C)
    BY <1>4, Zenon DEF SameEquals
  <2>2. x \in C <=> y \in C
    BY <1>7, <1>8, Zenon DEF Equals, WeakOrder
  <2> HIDE DEF C
  <2>3. Only(px, C) = IF x \in C THEN Append(Only(p, C), x) ELSE Only(p, C)
    BY OnlyAppend DEF px
  <2>4. Only(q, C) = IF y \in C THEN Append(Only(r, C), y) ELSE Only(r, C)
    BY OnlyAppend DEF q
  <2>5. Only(p, C) \in Seq(S) /\ Only(r, C) \in Seq(S)
    BY OnlyFacts
  <2>6. ASSUME x \in C PROVE x = y /\ Only(p, C) = Only(r, C)
    <3>1. Append(Only(p, C), x) = Append(Only(r, C), y)
      BY <2>1, <2>2, <2>3, <2>4, <2>6, Zenon
    <3> QED
      BY <2>5, <3>1, AppendOnce
  <2>7. ASSUME x \notin C PROVE Only(p, C) = Only(r, C)
    BY <2>1, <2>2, <2>3, <2>4, <2>7, Zenon
  <2> QED
    BY <2>6, <2>7 DEF C
<1>10. x = y
  BY <1>9, EqualsFacts
<1> QED
  BY <1>3, <1>9, <1>10, Zenon DEF SameEquals

\* There is one list that is sorted and keeps each class of equals.
LEMMA SortedOnce ==
  ASSUME NEW S, NEW W, WeakOrder(W, S), NEW s \in Seq(S), NEW t \in Seq(S),
         Sorted(s, W), Sorted(t, W), SameEquals(W, S, s, t)
  PROVE  s = t
<1> DEFINE T == {p \in Seq(S) : Sorted(p, W) =>
                   \A q \in Seq(S) : Sorted(q, W) /\ SameEquals(W, S, p, q) => p = q}
<1>1. << >> \in Seq(S) /\ ToSet(<< >>) = {}
  BY DEF ToSet
<1>2. ASSUME NEW p \in Seq(S), NEW q \in Seq(S), SameEquals(W, S, p, q), p # << >> PROVE q # << >>
  <2> HIDE DEF T
  <2>1. PICK r \in Seq(S), y \in S : p = Append(r, y)
    BY <1>2, SeqLast
  <2>2. y \in ToSet(p)
    <3>1. ToSet(Append(r, y)) = ToSet(r) \cup {y}
      BY AppendSet
    <3> QED
      BY <2>1, <3>1
  <2>3. \E z \in ToSet(q) : z \in Equals(W, S, y)
    BY <1>2, <2>2, EqualFound
  <2> QED
    BY <1>1, <2>3
<1>3. << >> \in T
  <2>1. ASSUME NEW q \in Seq(S), SameEquals(W, S, << >>, q) PROVE << >> = q
    <3>1. SameEquals(W, S, q, << >>)
      BY <2>1 DEF SameEquals
    <3> QED
      BY <1>1, <1>2, <3>1
  <2> QED
    BY <1>1, <2>1
<1>4. ASSUME NEW p \in Seq(S), NEW x \in S, p \in T PROVE Append(p, x) \in T
  <2>1. Append(p, x) \in Seq(S) /\ Append(p, x) # << >>
    OBVIOUS
  <2>2. ASSUME Sorted(Append(p, x), W), NEW q \in Seq(S), Sorted(q, W), SameEquals(W, S, Append(p, x), q)
        PROVE  Append(p, x) = q
    <3> HIDE DEF T
    <3>1. q # << >>
      BY <1>2, <2>1, <2>2
    <3>2. PICK r \in Seq(S), y \in S : q = Append(r, y)
      BY <3>1, SeqLast
    <3>3. x = y /\ SameEquals(W, S, p, r) /\ Sorted(p, W) /\ Sorted(r, W)
      BY <2>2, <3>2, SortedLast
    <3>4. p = r
      BY <1>4, <3>3 DEF T
    <3> QED
      BY <3>2, <3>3, <3>4
  <2> QED
    BY <2>1, <2>2
<1> HIDE DEF T
<1>5. s \in T
  BY <1>3, <1>4, SeqInduction
<1> QED
  BY <1>5 DEF T

-----------------------------------------------------------------------------
(* Two lists with the same elements in common, sorted in opposite orders.  *)

\* What two lists have in common comes out of the sort of the one and of the
\* sort of the other reversed in opposite orders.
LEMMA SortMirrors ==
  ASSUME NEW S, NEW s \in Seq(S), NEW t \in Seq(S), NEW B, Only(s, B) = Only(t, B),
         NEW W, WeakOrder(W, S), NEW K, NEW L,
         \A x, y \in ToSet(s) : <<x, y>> \in K <=> <<x, y>> \in W,
         \A x, y \in ToSet(t) : <<x, y>> \in L <=> <<y, x>> \in W
  PROVE  Only(StableSort(Reverse(t), L), B) = Reverse(Only(StableSort(s, K), B))
<1> DEFINE V == Backwards(W, S)
           r == Reverse(t)
           p == StableSort(s, K)
           q == StableSort(r, L)
           pB == Only(p, B)
           qB == Only(q, B)
<1>1. /\ WeakOrder(V, S) /\ \A x \in S : Equals(V, S, x) = Equals(W, S, x)
      /\ \A x, y \in S : <<x, y>> \in V <=> <<y, x>> \in W
  BY BackwardsFacts
<1>2. r \in Seq(S) /\ ToSet(r) = ToSet(t) /\ \A x \in ToSet(t) : x \in S
  <2>1. \A x \in ToSet(t) : x \in S
    BY DEF ToSet
  <2> QED
    BY <2>1, ReverseFacts
<1> HIDE DEF V, r
<1>3. /\ p \in Seq(S) /\ Sorted(p, W)
      /\ \A x \in S : Only(p, Equals(W, S, x)) = Only(s, Equals(W, S, x))
  BY SortKeeps
<1>4. /\ q \in Seq(S) /\ Sorted(q, V)
      /\ \A x \in S : Only(q, Equals(V, S, x)) = Only(r, Equals(V, S, x))
  <2>1. \A x, y \in ToSet(r) : <<x, y>> \in L <=> <<x, y>> \in V
    BY <1>1, <1>2
  <2> QED
    BY <1>1, <1>2, <2>1, SortKeeps
<1> HIDE DEF p, q
<1>5. pB \in Seq(S) /\ qB \in Seq(S) /\ Sorted(pB, W) /\ Sorted(qB, V)
  BY <1>1, <1>3, <1>4, OnlyFacts, SortedOnly
<1> HIDE DEF pB, qB
<1>6. Reverse(pB) \in Seq(S) /\ Sorted(Reverse(pB), V)
  BY <1>5, ReverseFacts, SortedReverse DEF V
<1>7. ASSUME NEW x \in S PROVE Only(qB, Equals(V, S, x)) = Only(Reverse(pB), Equals(V, S, x))
  <2> DEFINE C == Equals(W, S, x)
  <2>1. Equals(V, S, x) = C
    BY <1>1
  <2>2. Only(p, C) = Only(s, C) /\ Only(q, C) = Only(r, C)
    BY <1>3, <1>4, <2>1
  <2> HIDE DEF C
  <2>3. C \cap B = B \cap C
    OBVIOUS
  <2>4. Only(qB, C) = Only(r, B \cap C)
    <3>1. Only(Only(q, B), C) = Only(q, B \cap C)
      BY <1>4, OnlyTwice
    <3>2. Only(Only(q, C), B) = Only(q, C \cap B)
      BY <1>4, OnlyTwice
    <3>3. Only(Only(r, C), B) = Only(r, C \cap B)
      BY <1>2, OnlyTwice
    <3> QED
      BY <2>2, <2>3, <3>1, <3>2, <3>3 DEF qB
  <2>5. Only(pB, C) = Only(s, B \cap C)
    <3>1. Only(Only(p, B), C) = Only(p, B \cap C)
      BY <1>3, OnlyTwice
    <3>2. Only(Only(p, C), B) = Only(p, C \cap B)
      BY <1>3, OnlyTwice
    <3>3. Only(Only(s, C), B) = Only(s, C \cap B)
      BY OnlyTwice
    <3> QED
      BY <2>2, <2>3, <3>1, <3>2, <3>3 DEF pB
  <2>6. Only(s, B \cap C) = Only(t, B \cap C)
    <3>1. Only(Only(s, B), C) = Only(s, B \cap C)
      BY OnlyTwice
    <3>2. Only(Only(t, B), C) = Only(t, B \cap C)
      BY OnlyTwice
    <3> QED
      BY <3>1, <3>2
  <2>7. Only(r, B \cap C) = Reverse(Only(t, B \cap C))
    BY OnlyReverse DEF r
  <2>8. Only(Reverse(pB), C) = Reverse(Only(pB, C))
    BY <1>5, OnlyReverse
  <2> QED
    BY <2>1, <2>4, <2>5, <2>6, <2>7, <2>8
<1>8. SameEquals(V, S, qB, Reverse(pB))
  BY <1>7, Zenon DEF SameEquals
<1>9. qB = Reverse(pB)
  BY <1>1, <1>5, <1>6, <1>8, SortedOnce
<1> QED
  BY <1>9 DEF pB, qB, p, q, r

\* The order of filters: one has an order, a number, or none.
Ranked(orders) == \A o \in ToSet(orders) : o.order \in Int
Precedence(orders, S) == {p \in S \X S : Before(orders, p[1], p[2])}

LEMMA OrderFacts ==
  ASSUME NEW orders, orders \in Seq(ToSet(orders)), Ranked(orders), NEW f
  PROVE  OrderOf(orders, f) = {} \/ \E n \in Int : OrderOf(orders, f) = {n}
<1> DEFINE I == {i \in 1 .. Len(orders) : orders[i].filter = f}
           i == IF I # {} THEN Min(I) ELSE 0
<1>1. OrderOf(orders, f) = IF i = 0 THEN {} ELSE {orders[i].order}
  BY DEF OrderOf, SelectInSeq
<1>2. CASE I = {}
  BY <1>1, <1>2
<1>3. CASE I # {}
  <2>1. I \in SUBSET Nat /\ I \subseteq 1 .. Len(orders)
    OBVIOUS
  <2>2. \E m \in I : \A x \in I : m <= x
    <3> HIDE DEF I
    <3> QED
      BY <1>3, <2>1, LeastExists
  <2>3. Min(I) \in I
    <3> HIDE DEF I
    <3> QED
      BY <2>2, Zenon DEF Min
  <2>4. i \in 1 .. Len(orders)
    BY <1>3, <2>1, <2>3
  <2> HIDE DEF i
  <2>5. orders[i] \in ToSet(orders) /\ i # 0
    BY <2>4 DEF ToSet
  <2>6. orders[i].order \in Int
    BY <2>5 DEF Ranked
  <2>7. OrderOf(orders, f) = {orders[i].order}
    BY <1>1, <2>5, Zenon
  <2> QED
    BY <2>6, <2>7, Zenon
<1> QED
  BY <1>2, <1>3

LEMMA BeforeOrders ==
  ASSUME NEW orders, orders \in Seq(ToSet(orders)), Ranked(orders), NEW S
  PROVE  /\ WeakOrder(Precedence(orders, S), S)
         /\ \A x, y \in S : <<x, y>> \in Precedence(orders, S) <=> Before(orders, x, y)
<1> DEFINE m(f) == OrderOf(orders, f)
<1>1. \A f : m(f) = {} \/ \E n \in Int : m(f) = {n}
  BY OrderFacts
<1>2. \A f, g : Before(orders, f, g) <=> m(f) # {} /\ (m(g) = {} \/ \E x \in m(f), y \in m(g) : x < y)
  BY Zenon DEF Before
<1> HIDE DEF m
<1>3. ASSUME NEW f, NEW g, Before(orders, f, g) PROVE ~Before(orders, g, f)
  <2>1. PICK a \in Int : m(f) = {a}
    BY <1>1, <1>2, <1>3
  <2>2. CASE m(g) = {}
    BY <1>2, <2>2
  <2>3. ASSUME NEW b \in Int, m(g) = {b} PROVE ~Before(orders, g, f)
    <3>1. a < b
      BY <1>2, <1>3, <2>1, <2>3
    <3> QED
      BY <1>2, <2>1, <2>3, <3>1
  <2> QED
    BY <1>1, <2>2, <2>3
<1>4. ASSUME NEW f, NEW g, NEW h, Before(orders, f, h), ~Before(orders, f, g) PROVE Before(orders, g, h)
  <2>1. PICK a \in Int : m(f) = {a}
    BY <1>1, <1>2, <1>4
  <2>2. m(g) # {}
    BY <1>2, <1>4, <2>1
  <2>3. PICK b \in Int : m(g) = {b}
    BY <1>1, <2>2
  <2>4. ~(a < b)
    BY <1>2, <1>4, <2>1, <2>3
  <2>5. CASE m(h) = {}
    BY <1>2, <2>3, <2>5
  <2>6. ASSUME NEW c \in Int, m(h) = {c} PROVE Before(orders, g, h)
    <3>1. a < c
      BY <1>2, <1>4, <2>1, <2>6
    <3>2. b < c
      BY <2>4, <3>1
    <3> QED
      BY <1>2, <2>3, <2>6, <3>2
  <2> QED
    BY <1>1, <2>5, <2>6
<1>5. \A x, y \in S : <<x, y>> \in Precedence(orders, S) <=> Before(orders, x, y)
  BY DEF Precedence
<1>6. WeakOrder(Precedence(orders, S), S)
  BY <1>3, <1>4, <1>5, Zenon DEF WeakOrder
<1> QED
  BY <1>5, <1>6

\* The filters that have both functions, and what one list is of the other.
Both(B, S, has, executing, executed) ==
  \A f \in S : f \in B <=> executing \in has[f] /\ executed \in has[f]
Mirrored(globals, used, orders, has, executing, executed, B) ==
  Only(GetFilters(globals, used, orders, has, executed, FALSE), B) =
    Reverse(Only(GetFilters(globals, used, orders, has, executing, TRUE), B))

LEMMA FiltersMirror ==
  ASSUME NEW S, NEW globals \in Seq(S), NEW used \in Seq(S), NEW orders, orders \in Seq(ToSet(orders)),
         Ranked(orders), NEW has, NEW executing, NEW executed,
         NEW B, Both(B, S, has, executing, executed)
  PROVE  Mirrored(globals, used, orders, has, executing, executed, B)
<1> USE DEF Both
<1> DEFINE u == globals \o used
           G(fn) == {f \in ToSet(u) : fn \in has[f]}
           s == Selected(u, has, executing)
           t == Selected(u, has, executed)
           W == Precedence(orders, S)
           K == Earlier(orders, s)
           L == Later(orders, t)
<1>1. u \in Seq(S) /\ \A f \in ToSet(u) : f \in S
  <2>1. u \in Seq(S)
    BY ConcatFacts
  <2> HIDE DEF u
  <2> QED
    BY <2>1 DEF ToSet
<1>2. s = Only(u, G(executing)) /\ t = Only(u, G(executed))
  BY DEF Selected
<1>3. /\ GetFilters(globals, used, orders, has, executing, TRUE) = StableSort(s, K)
      /\ GetFilters(globals, used, orders, has, executed, FALSE) = StableSort(Reverse(t), L)
  BY Zenon DEF GetFilters
<1> HIDE DEF u, s, t
<1>4. s \in Seq(S) /\ t \in Seq(S)
  BY <1>1, <1>2, OnlyFacts
<1>5. Only(s, B) = Only(t, B)
  <2>1. G(executing) \cap B = G(executed) \cap B
    BY <1>1
  <2>2. Only(Only(u, G(executing)), B) = Only(u, G(executing) \cap B)
    <3> HIDE DEF G
    <3> QED
      BY <1>1, OnlyTwice
  <2>3. Only(Only(u, G(executed)), B) = Only(u, G(executed) \cap B)
    <3> HIDE DEF G
    <3> QED
      BY <1>1, OnlyTwice
  <2> HIDE DEF G
  <2> QED
    BY <1>2, <2>1, <2>2, <2>3
<1>6. WeakOrder(W, S) /\ \A x, y \in S : <<x, y>> \in W <=> Before(orders, x, y)
  BY BeforeOrders
<1>7. (\A x \in ToSet(s) : x \in S) /\ (\A x \in ToSet(t) : x \in S)
  BY <1>4 DEF ToSet
<1> HIDE DEF W
<1>8. \A x, y \in ToSet(s) : <<x, y>> \in K <=> <<x, y>> \in W
  BY <1>6, <1>7 DEF Earlier
<1>9. \A x, y \in ToSet(t) : <<x, y>> \in L <=> <<y, x>> \in W
  BY <1>6, <1>7 DEF Later
<1> HIDE DEF K, L
<1>10. Only(StableSort(Reverse(t), L), B) = Reverse(Only(StableSort(s, K), B))
  BY <1>4, <1>5, <1>6, <1>8, <1>9, SortMirrors
<1> QED
  BY <1>3, <1>10 DEF Mirrored

-----------------------------------------------------------------------------
(* What ran, as a list of filters.                                         *)

\* The events of a pair of functions, and the filters they name.
Marked(pair, fn) == [e : {"filter"}, fn : {fn}, by : Having(pair)]
ByOf(s) == [i \in DOMAIN s |-> s[i].by]

LEMMA MarkedFacts ==
  ASSUME NEW pair, NEW fn
  PROVE  /\ \A x \in Marked(pair, fn) : x.by \in DOMAIN Has
         /\ \A e, g, f : Event(e, g, f) \in Marked(pair, fn) <=> e = "filter" /\ g = fn /\ f \in Having(pair)
<1>1. \A x \in Marked(pair, fn) : x.by \in Having(pair)
  BY DEF Marked
<1>2. ASSUME NEW e, NEW g, NEW f
      PROVE  Event(e, g, f) \in Marked(pair, fn) <=> e = "filter" /\ g = fn /\ f \in Having(pair)
  BY DEF Marked, Event
<1> QED
  BY <1>1, <1>2, Zenon DEF Having

LEMMA ByOfFacts ==
  ASSUME NEW S, NEW T, \A x \in S : x.by \in T, NEW s \in Seq(S)
  PROVE  /\ ByOf(s) \in Seq(T) /\ ByOf(<< >>) = << >>
         /\ \A x \in S : ByOf(Append(s, x)) = Append(ByOf(s), x.by)
<1>1. ByOf(s) \in Seq(T) /\ Len(ByOf(s)) = Len(s) /\ \A i \in 1 .. Len(s) : ByOf(s)[i] = s[i].by
  BY DEF ByOf
<1>2. ByOf(<< >>) = << >>
  BY DEF ByOf
<1>3. ASSUME NEW x \in S PROVE ByOf(Append(s, x)) = Append(ByOf(s), x.by)
  <2> DEFINE t == Append(s, x)
             u == ByOf(t)
             v == Append(ByOf(s), x.by)
             n == Len(s)
  <2>1. /\ t \in Seq(S) /\ Len(t) = n + 1 /\ n \in Nat /\ t[n + 1] = x
        /\ \A i \in 1 .. n : t[i] = s[i]
    OBVIOUS
  <2>2. u \in Seq(T) /\ Len(u) = n + 1 /\ \A i \in 1 .. n + 1 : u[i] = t[i].by
    BY <2>1 DEF ByOf
  <2>3. /\ v \in Seq(T) /\ Len(v) = n + 1 /\ v[n + 1] = x.by
        /\ \A i \in 1 .. n : v[i] = ByOf(s)[i]
    BY <1>1
  <2> HIDE DEF t, u, v
  <2>4. \A i \in 1 .. n + 1 : u[i] = v[i]
    BY <1>1, <2>1, <2>2, <2>3
  <2>5. u = v
    BY <2>1, <2>2, <2>3, <2>4
  <2> QED
    BY <2>5 DEF t, u, v
<1> QED
  BY <1>1, <1>2, <1>3

LEMMA RanOfFacts ==
  ASSUME NEW S, NEW s \in Seq(S), NEW pair, NEW fn
  PROVE  /\ RanOf(s, pair, fn) \in Seq(DOMAIN Has) /\ RanOf(<< >>, pair, fn) = << >>
         /\ \A x \in S : RanOf(Append(s, x), pair, fn) =
              IF x \in Marked(pair, fn) THEN Append(RanOf(s, pair, fn), x.by) ELSE RanOf(s, pair, fn)
<1> DEFINE M == Marked(pair, fn)
           T == S \cap M
           t == Only(s, M)
<1>1. \A events : RanOf(events, pair, fn) = ByOf(Only(events, M))
  BY DEF RanOf, ByOf, Marked
<1>2. \A x \in M : x.by \in DOMAIN Has
  BY MarkedFacts
<1> HIDE DEF M
<1>3. t \in Seq(T)
  <2>1. t \in Seq(S) /\ ToSet(t) \subseteq M
    BY OnlyFacts
  <2> HIDE DEF t
  <2>2. \A i \in 1 .. Len(t) : t[i] \in T
    BY <2>1 DEF ToSet
  <2> QED
    BY <2>1, <2>2
<1>4. /\ ByOf(t) \in Seq(DOMAIN Has) /\ ByOf(<< >>) = << >>
      /\ \A x \in T : ByOf(Append(t, x)) = Append(ByOf(t), x.by)
  <2>1. \A x \in T : x.by \in DOMAIN Has
    BY <1>2
  <2> HIDE DEF T, t
  <2> QED
    BY <1>3, <2>1, ByOfFacts
<1>5. ASSUME NEW x \in S
      PROVE  RanOf(Append(s, x), pair, fn) = IF x \in M THEN Append(ByOf(t), x.by) ELSE ByOf(t)
  <2>1. Only(Append(s, x), M) = IF x \in M THEN Append(t, x) ELSE t
    BY OnlyAppend
  <2> HIDE DEF t
  <2> QED
    BY <1>1, <1>4, <2>1
<1>6. Only(<< >>, M) = << >>
  BY OnlyEmpty
<1>7. RanOf(s, pair, fn) = ByOf(t) /\ RanOf(<< >>, pair, fn) = << >>
  BY <1>1, <1>4, <1>6
<1> HIDE DEF t
<1> QED
  BY <1>4, <1>5, <1>7, Zenon DEF M

LEMMA ConcatAssoc ==
  ASSUME NEW S, NEW s \in Seq(S), NEW t \in Seq(S), NEW u \in Seq(S)
  PROVE  /\ s \o t \in Seq(S) /\ (s \o t) \o u = s \o (t \o u)
         /\ s \o << >> = s /\ << >> \o s = s
OBVIOUS

LEMMA HeadFacts ==
  ASSUME NEW S, NEW s \in Seq(S), s # << >>
  PROVE  /\ Head(s) \in S /\ Tail(s) \in Seq(S) /\ <<Head(s)>> \in Seq(S)
         /\ s = <<Head(s)>> \o Tail(s)
OBVIOUS

LEMMA ReverseConcat ==
  ASSUME NEW S, NEW s \in Seq(S), NEW t \in Seq(S)
  PROVE  Reverse(s \o t) = Reverse(t) \o Reverse(s)
<1> DEFINE r == Reverse(s)
           T == {q \in Seq(S) : Reverse(s \o q) = Reverse(q) \o r}
<1>1. r \in Seq(S)
  BY ReverseFacts
<1>2. << >> \in T
  <2>1. << >> \in Seq(S) /\ Reverse(<< >>) = << >> /\ s \o << >> = s
    BY DEF Reverse
  <2> HIDE DEF r
  <2>2. << >> \o r = r
    BY <1>1
  <2> QED
    BY <2>1, <2>2 DEF r
<1>3. ASSUME NEW q \in Seq(S), NEW x \in S, q \in T PROVE Append(q, x) \in T
  <2> DEFINE one == <<x>>
             v == Reverse(q)
  <2>1. s \o Append(q, x) = Append(s \o q, x) /\ s \o q \in Seq(S) /\ Append(q, x) \in Seq(S)
    OBVIOUS
  <2>2. Reverse(Append(s \o q, x)) = one \o Reverse(s \o q)
    <3> DEFINE u == s \o q
    <3>1. u \in Seq(S)
      BY <2>1
    <3> HIDE DEF u
    <3>2. Reverse(Append(u, x)) = one \o Reverse(u)
      BY <3>1, ReverseAppend
    <3> QED
      BY <3>2 DEF u
  <2>3. Reverse(Append(q, x)) = one \o v
    BY ReverseAppend
  <2>4. Reverse(s \o q) = v \o r
    BY <1>3
  <2>5. one \in Seq(S) /\ v \in Seq(S)
    BY ReverseFacts
  <2> HIDE DEF one, v, r
  <2>6. (one \o v) \o r = one \o (v \o r)
    BY <1>1, <2>5, ConcatAssoc
  <2> QED
    BY <2>1, <2>2, <2>3, <2>4, <2>6
<1> HIDE DEF T
<1>4. t \in T
  BY <1>2, <1>3, SeqInduction
<1> QED
  BY <1>4 DEF T

\* A prefix, and what remains of it.
LEMMA PrefixOf ==
  ASSUME NEW S, NEW s \in Seq(S), NEW t \in Seq(S)
  PROVE  IsPrefix(s, s \o t) /\ IsPrefix(<< >>, s)
<1>1. IsPrefix(s, s \o t)
  <2>1. Len(s) \in Nat /\ Len(t) \in Nat /\ Len(s \o t) = Len(s) + Len(t)
    OBVIOUS
  <2>2. SubSeq(s, 1, Len(s)) = SubSeq(s \o t, 1, Len(s))
    OBVIOUS
  <2> QED
    BY <2>1, <2>2 DEF IsPrefix
<1>2. IsPrefix(<< >>, s)
  <2>1. Len(s) \in Nat /\ Len(<< >>) = 0 /\ SubSeq(<< >>, 1, 0) = << >> /\ SubSeq(s, 1, 0) = << >>
    OBVIOUS
  <2> QED
    BY <2>1 DEF IsPrefix
<1> QED
  BY <1>1, <1>2

\* Parts of a list that grows.
LEMMA PartGrows ==
  ASSUME NEW S, NEW s \in Seq(S), NEW x \in S, NEW a \in Nat, a >= 1, a <= Len(s) + 1
  PROVE  /\ SubSeq(s, a, Len(s)) \in Seq(S)
         /\ SubSeq(Append(s, x), a, Len(s) + 1) = Append(SubSeq(s, a, Len(s)), x)
OBVIOUS

LEMMA PartsFacts ==
  ASSUME NEW S, NEW s \in Seq(S)
  PROVE  /\ SubSeq(s, 1, Len(s)) = s /\ SubSeq(s, Len(s) + 1, Len(s)) = << >>
         /\ \A x \in S, a, b \in Nat : 1 <= a /\ b <= Len(s) => SubSeq(Append(s, x), a, b) = SubSeq(s, a, b)
OBVIOUS

LEMMA RanOther ==
  ASSUME NEW S, NEW s \in Seq(S), NEW e, NEW g, NEW f, Event(e, g, f) \in S, NEW pair, NEW fn,
         e # "filter" \/ g # fn
  PROVE  RanOf(Append(s, Event(e, g, f)), pair, fn) = RanOf(s, pair, fn)
BY RanOfFacts, MarkedFacts

\* What ran and what is left is the same in t, with the rest of the queue, as
\* in s with the queue.
SameInAll(t, s, pair, fn, q) ==
  RanOf(t, pair, fn) \o Only(Tail(q), Having(pair)) = RanOf(s, pair, fn) \o Only(q, Having(pair))

\* A function that ran left the queue.
LEMMA RanStep ==
  ASSUME NEW S, NEW s \in Seq(S), NEW pair, NEW fn, NEW q \in Seq(DOMAIN Has), q # << >>,
         Event("filter", fn, Head(q)) \in S
  PROVE  SameInAll(Append(s, Event("filter", fn, Head(q))), s, pair, fn, q)
<1> DEFINE R == RanOf(s, pair, fn)
           B == Having(pair)
           h == Head(q)
           t == Tail(q)
           one == <<h>>
           D == DOMAIN Has
           c == Only(t, B)
           x == Event("filter", fn, h)
<1>1. h \in D /\ t \in Seq(D) /\ one \in Seq(D) /\ q = one \o t
  BY HeadFacts
<1>2. R \in Seq(D)
  BY RanOfFacts
<1>3. RanOf(Append(s, x), pair, fn) = IF h \in B THEN Append(R, h) ELSE R
  <2>1. x \in Marked(pair, fn) <=> h \in B
    BY MarkedFacts
  <2>2. x.by = h
    BY EventFields
  <2>3. RanOf(Append(s, x), pair, fn) = IF x \in Marked(pair, fn) THEN Append(R, x.by) ELSE R
    BY RanOfFacts
  <2> HIDE DEF x, h, B, R
  <2> QED
    BY <2>1, <2>2, <2>3
<1>4. Only(one, B) = IF h \in B THEN one ELSE << >>
  <2>1. Only(Append(<< >>, h), B) = IF h \in B THEN Append(Only(<< >>, B), h) ELSE Only(<< >>, B)
    <3>1. << >> \in Seq(D)
      OBVIOUS
    <3>2. h \in D
      BY <1>1
    <3> HIDE DEF h, B, D
    <3> QED
      BY <3>1, <3>2, OnlyAppend
  <2>2. Append(<< >>, h) = one
    OBVIOUS
  <2>3. Only(<< >>, B) = << >>
    BY OnlyEmpty
  <2> HIDE DEF one, h, B
  <2> QED
    BY <2>1, <2>2, <2>3
<1>5. Append(R, h) = R \o one
  BY <1>1, <1>2
<1>6. c \in Seq(D)
  BY <1>1, OnlyFacts
<1> HIDE DEF R, B, h, t, one, D, x
<1>7. Only(q, B) = Only(one, B) \o c
  <2>1. one \in Seq(D) /\ t \in Seq(D) /\ q = one \o t
    BY <1>1
  <2>2. Only(one \o t, B) = Only(one, B) \o Only(t, B)
    BY <2>1, OnlyConcat
  <2> QED
    BY <2>1, <2>2 DEF c
<1>8. (R \o one) \o c = R \o (one \o c) /\ << >> \o c = c
  <2> HIDE DEF c
  <2>1. R \in Seq(D) /\ one \in Seq(D) /\ c \in Seq(D)
    BY <1>1, <1>2, <1>6, Zenon
  <2>2. (R \o one) \o c = R \o (one \o c)
    BY <2>1, ConcatAssoc
  <2>3. << >> \o c = c
    BY <1>6
  <2> QED
    BY <2>2, <2>3, Zenon
<1> HIDE DEF c
<1>9. RanOf(Append(s, x), pair, fn) \o c = R \o Only(q, B)
  <2>1. CASE h \in B
    BY <1>3, <1>4, <1>5, <1>7, <1>8, <2>1
  <2>2. CASE h \notin B
    BY <1>3, <1>4, <1>7, <1>8, <2>2
  <2> QED
    BY <2>1, <2>2
<1> QED
  BY <1>9 DEF R, B, h, t, x, c, SameInAll

\* What begins or ends a list of filters.
BeginsWith(s, t) == \E c \in Seq(DOMAIN Has) : s = t \o c
EndsWith(s, t) == \E c \in Seq(DOMAIN Has) : s = c \o t

LEMMA EndReversed ==
  ASSUME NEW s \in Seq(DOMAIN Has), NEW t \in Seq(DOMAIN Has), EndsWith(s, t)
  PROVE  BeginsWith(Reverse(s), Reverse(t))
<1>1. PICK c \in Seq(DOMAIN Has) : s = c \o t
  BY DEF EndsWith
<1>2. Reverse(s) = Reverse(t) \o Reverse(c) /\ Reverse(c) \in Seq(DOMAIN Has)
  BY <1>1, ReverseConcat, ReverseFacts
<1> QED
  BY <1>2, Zenon DEF BeginsWith

LEMMA BeginningIsPrefix ==
  ASSUME NEW s \in Seq(DOMAIN Has), NEW t \in Seq(DOMAIN Has), NEW u, BeginsWith(u, s \o t)
  PROVE  IsPrefix(s, u)
<1>1. PICK c \in Seq(DOMAIN Has) : u = (s \o t) \o c
  BY DEF BeginsWith
<1>2. u = s \o (t \o c) /\ t \o c \in Seq(DOMAIN Has)
  BY <1>1, ConcatAssoc
<1> QED
  BY <1>2, PrefixOf

LEMMA EndsWithLast ==
  ASSUME NEW s \in Seq(DOMAIN Has), NEW t \in Seq(DOMAIN Has)
  PROVE  EndsWith(s \o t, t)
BY Zenon DEF EndsWith

\* A list n times over.
Repeats(g, q, n) ==
  g \in [0 .. n -> Seq(DOMAIN Has)] /\ g[0] = << >> /\ \A i \in 1 .. n : g[i] = q \o g[i - 1]
Times(q, n) == CHOOSE s : \E g : Repeats(g, q, n) /\ s = g[n]

LEMMA RepeatsExists ==
  ASSUME NEW q \in Seq(DOMAIN Has), NEW n \in Nat
  PROVE  \E g : Repeats(g, q, n)
<1> DEFINE D == DOMAIN Has
           F == [i \in 1 .. n |-> [s \in Seq(D) |-> q \o s]]
           e == << >>
<1>1. e \in Seq(D) /\ \A s \in Seq(D) : q \o s \in Seq(D)
  OBVIOUS
<1>2. F \in Steps(n, Seq(D))
  BY <1>1 DEF Steps
<1>3. \A i \in 1 .. n : \A s \in Seq(D) : F[i][s] = q \o s
  OBVIOUS
<1> HIDE DEF F, e
<1>4. PICK g : Recursion(g, n, Seq(D), e, F)
  BY <1>1, <1>2, RecursionExists
<1>5. g \in [0 .. n -> Seq(D)] /\ g[0] = << >>
  BY <1>4 DEF Recursion, e
<1>6. ASSUME NEW i \in 1 .. n PROVE g[i] = q \o g[i - 1]
  <2>1. i - 1 \in 0 .. n
    OBVIOUS
  <2>2. g[i - 1] \in Seq(D)
    BY <1>5, <2>1
  <2> QED
    BY <1>3, <1>4, <2>2 DEF Recursion
<1> QED
  BY <1>5, <1>6 DEF Repeats

LEMMA RepeatsSame ==
  ASSUME NEW q \in Seq(DOMAIN Has), NEW n \in Nat, NEW m \in Nat, n <= m,
         NEW g, Repeats(g, q, n), NEW h, Repeats(h, q, m)
  PROVE  g[n] = h[n]
<1> DEFINE T == {i \in 0 .. n : g[i] = h[i]}
<1>1. 0 \in T
  BY DEF Repeats
<1>2. ASSUME NEW i \in 1 .. n, i - 1 \in T PROVE i \in T
  <2>1. i \in 1 .. m /\ i \in 0 .. n
    OBVIOUS
  <2>2. g[i] = q \o g[i - 1] /\ h[i] = q \o h[i - 1]
    BY <2>1 DEF Repeats
  <2> QED
    BY <1>2, <2>1, <2>2
<1> HIDE DEF T
<1>3. \A i \in 0 .. n : i \in T
  BY <1>1, <1>2, Induction
<1>4. n \in T
  BY <1>3
<1> QED
  BY <1>4 DEF T

LEMMA TimesIs ==
  ASSUME NEW q \in Seq(DOMAIN Has), NEW n \in Nat, NEW m \in Nat, n <= m, NEW g, Repeats(g, q, m)
  PROVE  Times(q, n) = g[n]
<1>1. PICK h : Repeats(h, q, n)
  BY RepeatsExists
<1> DEFINE s == Times(q, n)
<1>2. \E f : Repeats(f, q, n) /\ s = f[n]
  <2>1. \E t : \E f : Repeats(f, q, n) /\ t = f[n]
    BY <1>1
  <2> QED
    BY <2>1, Zenon DEF Times
<1> HIDE DEF s
<1>3. PICK f : Repeats(f, q, n) /\ s = f[n]
  BY <1>2
<1>4. f[n] = g[n]
  BY <1>3, RepeatsSame
<1> QED
  BY <1>3, <1>4 DEF s

LEMMA TimesFacts ==
  ASSUME NEW q \in Seq(DOMAIN Has), NEW n \in Nat
  PROVE  /\ Times(q, 0) = << >> /\ Times(q, n) \in Seq(DOMAIN Has)
         /\ Times(q, n + 1) = q \o Times(q, n)
<1>1. n + 1 \in Nat /\ 0 \in Nat /\ 0 <= n + 1 /\ n <= n + 1 /\ n + 1 <= n + 1
  OBVIOUS
<1>2. PICK g : Repeats(g, q, n + 1)
  BY <1>1, RepeatsExists
<1>3. Times(q, 0) = g[0] /\ Times(q, n) = g[n] /\ Times(q, n + 1) = g[n + 1]
  BY <1>1, <1>2, TimesIs
<1>4. g[0] = << >> /\ g[n] \in Seq(DOMAIN Has)
  <2>1. n \in 0 .. n + 1
    BY <1>1
  <2> QED
    BY <1>2, <2>1 DEF Repeats
<1>5. g[n + 1] = q \o g[n]
  <2>1. n + 1 \in 1 .. n + 1 /\ (n + 1) - 1 = n
    BY <1>1
  <2> QED
    BY <1>2, <2>1 DEF Repeats
<1> QED
  BY <1>3, <1>4, <1>5

\* It does not matter at which end a list is repeated, nor where it is turned around.
LEMMA TimesEnds ==
  ASSUME NEW q \in Seq(DOMAIN Has), NEW n \in Nat
  PROVE  Times(q, n) \o q = q \o Times(q, n)
<1> DEFINE D == DOMAIN Has
           T == {i \in Nat : Times(q, i) \o q = q \o Times(q, i)}
<1>1. 0 \in T
  <2>1. Times(q, 0) = << >>
    BY TimesFacts
  <2>2. << >> \o q = q /\ q \o << >> = q
    OBVIOUS
  <2> QED
    BY <2>1, <2>2
<1>2. ASSUME NEW i \in 1 .. n, i - 1 \in T PROVE i \in T
  <2> DEFINE t == Times(q, i - 1)
  <2>1. i - 1 \in Nat /\ (i - 1) + 1 = i /\ i \in Nat
    OBVIOUS
  <2>2. t \in Seq(D) /\ Times(q, i) = q \o t
    BY <2>1, TimesFacts
  <2>3. t \o q = q \o t
    BY <1>2
  <2> HIDE DEF t
  <2>4. (q \o t) \o q = q \o (t \o q)
    BY <2>2, ConcatAssoc
  <2> QED
    BY <2>1, <2>2, <2>3, <2>4
<1> HIDE DEF T
<1>3. \A i \in 0 .. n : i \in T
  BY <1>1, <1>2, Induction
<1>4. n \in T
  BY <1>3
<1> QED
  BY <1>4 DEF T

LEMMA TimesReversed ==
  ASSUME NEW q \in Seq(DOMAIN Has), NEW n \in Nat
  PROVE  Reverse(Times(q, n)) = Times(Reverse(q), n)
<1> DEFINE D == DOMAIN Has
           r == Reverse(q)
           T == {i \in Nat : Reverse(Times(q, i)) = Times(r, i)}
<1>0. r \in Seq(D)
  BY ReverseFacts
<1> HIDE DEF r
<1>1. 0 \in T
  <2>1. Times(q, 0) = << >> /\ Times(r, 0) = << >>
    BY <1>0, TimesFacts
  <2>2. Reverse(<< >>) = << >>
    BY DEF Reverse
  <2> QED
    BY <2>1, <2>2
<1>2. ASSUME NEW i \in 1 .. n, i - 1 \in T PROVE i \in T
  <2> DEFINE t == Times(q, i - 1)
  <2>1. i - 1 \in Nat /\ (i - 1) + 1 = i /\ i \in Nat
    OBVIOUS
  <2>2. t \in Seq(D) /\ Times(q, i) = q \o t /\ Times(r, i) = r \o Times(r, i - 1)
    BY <1>0, <2>1, TimesFacts
  <2>3. Reverse(t) = Times(r, i - 1)
    BY <1>2
  <2> HIDE DEF t
  <2>4. Reverse(q \o t) = Reverse(t) \o r
    BY <2>2, ReverseConcat DEF r
  <2>5. Times(r, i - 1) \o r = r \o Times(r, i - 1)
    BY <1>0, <2>1, TimesEnds
  <2> QED
    BY <2>1, <2>2, <2>3, <2>4, <2>5
<1> HIDE DEF T
<1>3. \A i \in 0 .. n : i \in T
  BY <1>1, <1>2, Induction
<1>4. n \in T
  BY <1>3
<1> QED
  BY <1>4 DEF T, r

-----------------------------------------------------------------------------
(* The filters of an action and the orders they are given.                 *)

\* The orders given are numbers.
OrdInv == ctx.orders \in Seq(ToSet(ctx.orders)) /\ Ranked(ctx.orders)

LEMMA SetOrderFacts ==
  ASSUME NEW orders, orders \in Seq(ToSet(orders)), Ranked(orders), NEW f, NEW n \in Int
  PROVE  SetOrder(orders, f, n) \in Seq(ToSet(SetOrder(orders, f, n))) /\ Ranked(SetOrder(orders, f, n))
<1> DEFINE S == ToSet(orders)
           x == [filter |-> f, order |-> n]
           kept == Only(orders, {o \in S : o.filter # f})
           all == S \cup {x}
           made == Append(kept, x)
<1>1. kept \in Seq(S)
  BY OnlyFacts
<1>2. x.order \in Int /\ \A o \in S : o.order \in Int
  BY DEF Ranked
<1> HIDE DEF x, kept, S
<1>3. kept \in Seq(all) /\ x \in all
  <2>1. S \subseteq all
    OBVIOUS
  <2> HIDE DEF all
  <2> QED
    BY <1>1, <2>1 DEF all
<1>4. \A o \in all : o.order \in Int
  BY <1>2
<1> HIDE DEF all
<1>5. made \in Seq(all) /\ made \in Seq(ToSet(made)) /\ \A o \in ToSet(made) : o \in all
  <2>1. made \in Seq(all)
    BY <1>3
  <2> HIDE DEF made
  <2>2. \A i \in DOMAIN made : made[i] \in all
    BY <2>1
  <2>3. made \in Seq(ToSet(made))
    BY <2>1 DEF ToSet
  <2> QED
    BY <2>1, <2>2, <2>3 DEF ToSet
<1>6. SetOrder(orders, f, n) = made
  BY DEF SetOrder, made, kept, S, x
<1> HIDE DEF made
<1> QED
  BY <1>4, <1>5, <1>6 DEF Ranked

LEMMA OrdSteps ==
  ASSUME TInv, OrdInv, Serves
  PROVE  OrdInv'
<1>1. {"route", "params", "made", "args", "inject", "hooks", "globals", "orders", "pipes", "jwt", "body", "read"} \subseteq DOMAIN ctx
  BY TFacts DEF CtxOK, NewContext
<1>2. CASE UseFilterOrder
  <2>1. at \in DOMAIN chain /\ CaseAssumption(chain, req) /\ Item.kind = "order"
    BY <1>2, TFacts, ChainFacts DEF UseFilterOrder, Running, TInv
  <2>2. Item.order \in Int
    BY <2>1, Zenon DEF CaseAssumption, ItemAssumption, Item
  <2>3. ctx'.orders = SetOrder(ctx.orders, Item.filter, Item.order)
    BY <1>1, <1>2 DEF UseFilterOrder
  <2> DEFINE s == ctx.orders
             t == ctx'.orders
  <2>4. s \in Seq(ToSet(s)) /\ Ranked(s) /\ t = SetOrder(s, Item.filter, Item.order)
    BY <2>3 DEF OrdInv
  <2> HIDE DEF s, t
  <2>5. t \in Seq(ToSet(t)) /\ Ranked(t)
    BY <2>2, <2>4, SetOrderFacts
  <2> QED
    BY <2>5, Zenon DEF OrdInv, ToSet, Ranked, t
<1>3. CASE Serves /\ ~UseFilterOrder
  <2>1. \/ UNCHANGED ctx
        \/ ctx' = [ctx EXCEPT !.inject = TRUE] \/ ctx' = [ctx EXCEPT !.inject = TRUE, !.hooks = @ + 1]
        \/ ctx' = [ctx EXCEPT !.read = TRUE]
        \/ \E x : \/ ctx' = [ctx EXCEPT !.jwt = x] \/ ctx' = [ctx EXCEPT !.pipes = x]
                  \/ ctx' = [[ctx EXCEPT !.read = TRUE] EXCEPT !.body = x] \/ ctx' = [ctx EXCEPT !.route = x]
                  \/ ctx' = [ctx EXCEPT !.params = x] \/ ctx' = [ctx EXCEPT !.made = x]
                  \/ ctx' = [ctx EXCEPT !.globals = Append(@, x)]
        \/ \E x, y : ctx' = [ctx EXCEPT !.made = x, !.args = y]
    <3>1. CASE Inject \/ UseFilter \/ UseGlobalFilter \/ UseGlobalPipe \/ BodyParser
               \/ UseJwt \/ Match \/ SetParams \/ MakeAction
      <4>1. CASE Inject \/ UseFilter \/ UseGlobalFilter \/ UseGlobalPipe
        BY <4>1, Zenon DEF Inject, UseFilter, UseGlobalFilter, UseGlobalPipe
      <4>2. CASE BodyParser
        BY <4>2, Zenon DEF BodyParser
      <4>3. CASE UseJwt \/ Match \/ SetParams
        BY <4>3, Zenon DEF UseJwt, Match, SetParams
      <4>4. CASE MakeAction
        BY <4>4, MakeActionCases, Zenon
      <4> QED
        BY <3>1, <4>1, <4>2, <4>3, <4>4
    <3>2. CASE Cors \/ CorsAgain \/ JwtVerify \/ JwtExtraAuth \/ Static \/ StaticFile
           \/ Use \/ BlankAction \/ Invoke \/ RunFilter \/ FiltersDone \/ Enter \/ Leave
           \/ CaughtByStartup \/ PassesThrough \/ CaughtByNext
      BY <3>2, Zenon DEF Cors, CorsAgain, JwtVerify, JwtExtraAuth, Static, StaticFile, Use,
        BlankAction, Invoke, RunFilter, FiltersDone, Enter, Leave, CaughtByStartup, PassesThrough,
        CaughtByNext
    <3> QED
      BY <1>3, <3>1, <3>2, Zenon DEF Serves
  <2>2. ctx'.orders = ctx.orders
    BY <1>1, <2>1
  <2> QED
    BY <2>2, Zenon DEF OrdInv, ToSet, Ranked
<1> QED
  BY <1>2, <1>3

\* The executed functions of an action's filters run in the reverse order of
\* the executing ones.
LEMMA Mirror ==
  ASSUME TInv, OrdInv, ctx.route.found = "route", NEW x, NEW d
  PROVE  /\ FiltersFor(x, TRUE) \in Seq(DOMAIN Has) /\ FiltersFor(d, FALSE) \in Seq(DOMAIN Has)
         /\ Only(FiltersFor(d, FALSE), Having({x, d})) = Reverse(Only(FiltersFor(x, TRUE), Having({x, d})))
<1> DEFINE globals == ctx.globals
           used == Class.used
           orders == ctx.orders
           D == DOMAIN Has
<1>1. globals \in Seq(D) /\ used \in Seq(D)
  BY ClassFacts, Zenon DEF TypeOK, ClassAssumption, TInv
<1>2. orders \in Seq(ToSet(orders)) /\ Ranked(orders)
  BY DEF OrdInv
<1>3. \A fn, e : FiltersFor(fn, e) = GetFilters(globals, used, orders, Has, fn, e)
  BY DEF FiltersFor
<1>4. Having({x, d}) = {f \in D : {x, d} \subseteq Has[f]}
  BY DEF Having
<1> HIDE DEF globals, used, orders, D
<1>5. \A fn, e : GetFilters(globals, used, orders, Has, fn, e) \in Seq(D)
  BY <1>1, GetFiltersFacts
<1> DEFINE B == Having({x, d})
<1> HIDE DEF B
<1>6. Mirrored(globals, used, orders, Has, x, d, B)
  <2>1. Both(B, D, Has, x, d)
    BY <1>4 DEF B, Both
  <2> QED
    BY <1>1, <1>2, <2>1, FiltersMirror
<1> QED
  BY <1>3, <1>5, <1>6, Zenon DEF B, D, Mirrored

-----------------------------------------------------------------------------
(* The functions around an action while they run.                          *)

\* The functions that nest.
Paired(x, d) == (x = Before3[2] /\ d = After2[2]) \/ (x = Before3[3] /\ d = After2[1])
Afters == {After2[1], After2[2]}
Hook(fn, executing) == IF executing THEN fn \in Befores ELSE fn \in Afters

\* What is still to come of function f of a hook: the rest of the list at work
\* and the lists of the hooks that follow.
Begun(f, fn) == fn = f \/ (f = Before3[2] /\ fn = Before3[3]) \/ (f = After2[1] /\ fn = After2[2])
Rest(f) == IF mode = "filters" /\ todo.fn = f THEN todo.queue ELSE << >>
Rounds(f) == IF mode # "filters" THEN 0 ELSE IF Begun(f, todo.fn) THEN todo.left ELSE todo.left + 1
InAll(f, executing, B) == Only(FiltersFor(f, executing), B)
ToCome(f, executing, B) == Only(Rest(f), B) \o Times(InAll(f, executing, B), Rounds(f))
Going == mode = "filters" /\ todo.fn \in Afters

\* What ran and what is to come end with the executing functions of all the
\* hooks of this action; the executed functions turn the ones ahead of it around.
AheadInv(x, d) == Ready =>
  EndsWith(RanOf(trail, {x, d}, x) \o ToCome(x, TRUE, Having({x, d})),
           Times(InAll(x, TRUE, Having({x, d})), ctx.hooks))
BehindInv(x, d) == Going => \A i \in Acts : Acts \cap (i + 1 .. Len(trail)) = {} =>
  BeginsWith(Reverse(RanOf(SubSeq(trail, 1, i - 1), {x, d}, x)),
             RanOf(SubSeq(trail, i + 1, Len(trail)), {x, d}, d) \o ToCome(d, FALSE, Having({x, d})))
NestInv(x, d) == \A i \in Acts, j \in DOMAIN trail :
  i <= j /\ Acts \cap (i + 1 .. j) = {} => Nest(i, j, x, d)

LEMMA PairFacts ==
  ASSUME NEW x, NEW d, Paired(x, d)
  PROVE  /\ x \in {Before3[2], Before3[3]} /\ d \in Afters
         /\ x # Before3[1] /\ ~Begun(x, Before3[1]) /\ d # "onException" /\ x # d
         /\ d = After2[1] \/ (d # After2[1] /\ ~Begun(d, After2[1]))
BY DEF Paired, Befores, Afters, Before3, After2, Begun

LEMMA HookFacts ==
  ASSUME NEW f, NEW fn, NEW e \in BOOLEAN, Hook(f, e), f # Before3[1], Hook(fn, e)
  PROVE  /\ Executing(fn) = e
         /\ NextFunction(fn) # "-" =>
              /\ Hook(NextFunction(fn), e)
              /\ NextFunction(fn) = f => ~Begun(f, fn) /\ Begun(f, NextFunction(fn))
              /\ NextFunction(fn) # f => (Begun(f, NextFunction(fn)) <=> Begun(f, fn))
         /\ NextFunction(fn) = "-" =>
              /\ Hook(FirstFunction(fn), e) /\ Begun(f, fn)
              /\ FirstFunction(fn) = f => Begun(f, FirstFunction(fn))
              /\ FirstFunction(fn) # f => ~Begun(f, FirstFunction(fn))
         /\ fn = Before3[3] => e
<1>1. CASE e
  BY <1>1 DEF Hook, Befores, Afters, Before3, After2, Executing, NextFunction, FirstFunction, Begun
<1>2. CASE ~e
  BY <1>2 DEF Hook, Befores, Afters, Before3, After2, Executing, NextFunction, FirstFunction, Begun
<1> QED
  BY <1>1, <1>2

LEMMA FiltersStay ==
  ASSUME ctx'.globals = ctx.globals, ctx'.orders = ctx.orders, ctx'.route = ctx.route
  PROVE  \A fn, e : FiltersFor(fn, e)' = FiltersFor(fn, e)
BY Zenon DEF FiltersFor, Class

\* The lists at work are lists of filters.
LEMMA InAllTyped ==
  ASSUME TInv, ctx.route.found = "route", NEW f, NEW e, NEW B
  PROVE  FiltersFor(f, e) \in Seq(DOMAIN Has) /\ InAll(f, e, B) \in Seq(DOMAIN Has)
<1> DEFINE q == FiltersFor(f, e)
           x == Exec(f, e, 0)
<1>1. x.queue = q /\ x.queue \in Seq(DOMAIN Has)
  <2>1. x.queue = q
    BY DEF Exec
  <2>2. x.queue \in Seq(DOMAIN Has)
    BY ExecFacts DEF TInv
  <2> QED
    BY <2>1, <2>2
<1> HIDE DEF q, x
<1>2. q \in Seq(DOMAIN Has)
  BY <1>1
<1>3. Only(q, B) \in Seq(DOMAIN Has)
  BY <1>2, OnlyFacts
<1> QED
  BY <1>2, <1>3 DEF q, InAll

LEMMA ToComeTyped ==
  ASSUME TInv, ctx.route.found = "route", NEW f, NEW e, NEW B
  PROVE  /\ ToCome(f, e, B) \in Seq(DOMAIN Has) /\ Rounds(f) \in Nat
         /\ Only(Rest(f), B) \in Seq(DOMAIN Has)
         /\ Times(InAll(f, e, B), Rounds(f)) \in Seq(DOMAIN Has)
<1> DEFINE D == DOMAIN Has
           p == Only(Rest(f), B)
           t == Times(InAll(f, e, B), Rounds(f))
<1>1. TodoOK
  BY TFacts
<1>2. Rest(f) \in Seq(D)
  <2>1. todo.queue \in Seq(D) /\ << >> \in Seq(D)
    <3>1. todo.queue \in Seq(D)
      BY <1>1, Zenon DEF TodoOK
    <3> HIDE DEF D
    <3>2. << >> \in Seq(D)
      OBVIOUS
    <3> QED
      BY <3>1, <3>2
  <2> QED
    BY <2>1, Zenon DEF Rest
<1>3. Rounds(f) \in Nat
  BY <1>1 DEF Rounds, TodoOK
<1>4. p \in Seq(D) /\ t \in Seq(D)
  BY <1>2, <1>3, OnlyFacts, InAllTyped, TimesFacts
<1>5. ToCome(f, e, B) = p \o t
  BY DEF ToCome
<1> HIDE DEF p, t
<1>6. p \o t \in Seq(D)
  BY <1>4
<1> QED
  BY <1>3, <1>4, <1>5, <1>6 DEF p, t

\* A list begins: it and the ones that follow it are one more than those.
OneMore(f, e, B, n) ==
  Only(FiltersFor(f, e), B) \o Times(InAll(f, e, B), n) = << >> \o Times(InAll(f, e, B), n + 1)
LEMMA ListBegins ==
  ASSUME TInv, ctx.route.found = "route", NEW f, NEW e, NEW B, NEW n \in Nat
  PROVE  OneMore(f, e, B, n)
<1> DEFINE q == InAll(f, e, B)
           t == Times(q, n + 1)
<1>1. q \in Seq(DOMAIN Has) /\ Only(FiltersFor(f, e), B) = q
  BY InAllTyped DEF InAll
<1> HIDE DEF q
<1>2. t = q \o Times(q, n) /\ t \in Seq(DOMAIN Has)
  <2>1. n + 1 \in Nat
    OBVIOUS
  <2>2. Times(q, n + 1) = q \o Times(q, n)
    BY <1>1, TimesFacts
  <2>3. Times(q, n + 1) \in Seq(DOMAIN Has)
    BY <1>1, <2>1, TimesFacts
  <2> QED
    BY <2>2, <2>3
<1> HIDE DEF t
<1>3. << >> \o t = t
  BY <1>2
<1> QED
  BY <1>1, <1>2, <1>3 DEF q, t, OneMore

\* What is to come stays the same from a function to the next and from a hook
\* to the next.
LEMMA RoundsGoOn ==
  ASSUME TInv, FiltersDone, mode' \in {"filters", "act"}, NEW e \in BOOLEAN, Hook(todo.fn, e),
         NEW f, Hook(f, e), f # Before3[1], NEW B
  PROVE  /\ UNCHANGED <<ctx, trail>> /\ ToCome(f, e, B)' = ToCome(f, e, B)
         /\ mode' = "act" => e
         /\ mode' = "filters" => Hook(todo'.fn, e)
<1> DEFINE fn == todo.fn
           A(q, n) == Only(q, B) \o Times(InAll(f, e, B), n)
<1>1. mode = "filters" /\ todo.queue = << >> /\ UNCHANGED ctx
  BY Zenon DEF FiltersDone
<1>2. \A g, x : FiltersFor(g, x)' = FiltersFor(g, x)
  BY <1>1, FiltersStay
<1>3. ctx.route.found = "route" /\ TodoOK
  BY <1>1, TFacts
<1>4. todo.left \in Nat
  BY <1>3 DEF TodoOK
<1>5. /\ ToCome(f, e, B) = A(Rest(f), Rounds(f))
      /\ ToCome(f, e, B)' = A(Rest(f)', Rounds(f)')
  BY <1>2, Zenon DEF ToCome, InAll
<1>6. A(FiltersFor(f, e), todo.left) = A(<< >>, todo.left + 1)
      /\ (todo.left > 0 => A(FiltersFor(f, e), todo.left - 1) = A(<< >>, todo.left))
  <2>1. Only(<< >>, B) = << >>
    BY OnlyEmpty
  <2>2. A(FiltersFor(f, e), todo.left) = A(<< >>, todo.left + 1)
    <3>1. OneMore(f, e, B, todo.left)
      BY <1>3, <1>4, ListBegins
    <3> QED
      BY <2>1, <3>1, Zenon DEF OneMore
  <2>3. ASSUME todo.left > 0 PROVE A(FiltersFor(f, e), todo.left - 1) = A(<< >>, todo.left)
    <3>1. todo.left - 1 \in Nat /\ (todo.left - 1) + 1 = todo.left
      BY <1>4, <2>3
    <3> DEFINE n == todo.left - 1
    <3>2. n \in Nat /\ n + 1 = todo.left
      BY <3>1
    <3> HIDE DEF n
    <3>3. OneMore(f, e, B, n)
      BY <1>3, <3>2, ListBegins
    <3>4. A(FiltersFor(f, e), n) = A(<< >>, todo.left)
      BY <2>1, <3>2, <3>3, Zenon DEF OneMore
    <3> QED
      BY <3>4 DEF n
  <2> QED
    BY <2>2, <2>3
<1> HIDE DEF A
<1>7. Rest(f) = << >>
  BY <1>1, Zenon DEF Rest
<1>8. Rounds(f) = IF Begun(f, fn) THEN todo.left ELSE todo.left + 1
  BY <1>1 DEF Rounds
<1>9. CASE mode' = "act" /\ todo.fn = Before3[3] /\ todo.left = 0 /\ UNCHANGED <<at, todo, trail>>
  <2>1. Rest(f)' = << >> /\ Rounds(f)' = 0
    BY <1>9 DEF Rest, Rounds
  <2>2. NextFunction(fn) = "-"
    BY <1>9, NameFacts
  <2>3. Begun(f, fn) /\ e
    BY <1>9, <2>2, HookFacts
  <2>4. Rounds(f) = 0
    BY <1>8, <1>9, <2>3
  <2> QED
    BY <1>1, <1>5, <1>7, <1>9, <2>1, <2>3, <2>4
<1>10. ASSUME NEW g, NEW n \in Nat, Starts(g, e, n), Hook(g, e)
       PROVE  /\ mode' = "filters" /\ UNCHANGED trail /\ Hook(todo'.fn, e)
              /\ g = f /\ Begun(f, g) => Rest(f)' = FiltersFor(f, e) /\ Rounds(f)' = n
              /\ g # f => Rest(f)' = << >> /\ Rounds(f)' = IF Begun(f, g) THEN n ELSE n + 1
  <2>1. /\ mode' = "filters" /\ trail' = trail /\ todo'.fn = g /\ todo'.queue = FiltersFor(g, e)
        /\ todo'.left = n
    BY <1>10, StartsFacts
  <2>2. Rest(f)' = IF g = f THEN FiltersFor(g, e) ELSE << >>
    BY <2>1, Zenon DEF Rest
  <2>3. Rounds(f)' = IF Begun(f, g) THEN n ELSE n + 1
    BY <2>1 DEF Rounds, Begun
  <2> QED
    BY <1>10, <2>1, <2>2, <2>3
<1>11. CASE NextFunction(fn) # "-" /\ Starts(NextFunction(fn), Executing(fn), todo.left)
  <2> DEFINE g == NextFunction(fn)
  <2>1. Executing(fn) = e /\ Hook(g, e)
    BY <1>11, HookFacts
  <2>2. Starts(g, e, todo.left)
    BY <1>11, <2>1
  <2>3. CASE g = f
    <3>1. ~Begun(f, fn) /\ Begun(f, g)
      BY <1>11, <2>3, HookFacts
    <3>2. Rest(f)' = FiltersFor(f, e) /\ Rounds(f)' = todo.left /\ Rounds(f) = todo.left + 1
      BY <1>4, <1>8, <1>10, <2>1, <2>2, <2>3, <3>1
    <3> QED
      BY <1>1, <1>4, <1>5, <1>6, <1>7, <1>10, <2>1, <2>2, <3>2
  <2>4. CASE g # f
    <3>1. Begun(f, g) <=> Begun(f, fn)
      BY <1>11, <2>4, HookFacts
    <3>2. Rest(f)' = << >> /\ Rounds(f)' = Rounds(f)
      BY <1>4, <1>8, <1>10, <2>1, <2>2, <2>4, <3>1
    <3> QED
      BY <1>1, <1>4, <1>5, <1>7, <1>10, <2>1, <2>2, <3>2
  <2> QED
    BY <2>3, <2>4
<1>12. CASE /\ NextFunction(fn) = "-" /\ todo.left > 0
            /\ Starts(FirstFunction(fn), Executing(fn), todo.left - 1)
  <2> DEFINE g == FirstFunction(fn)
  <2>1. Executing(fn) = e /\ Hook(g, e) /\ Begun(f, fn)
    BY <1>12, HookFacts
  <2>2. Starts(g, e, todo.left - 1) /\ todo.left - 1 \in Nat
    BY <1>4, <1>12, <2>1
  <2>3. CASE g = f
    <3>1. Begun(f, g)
      BY <1>12, <2>3, HookFacts
    <3>2. Rest(f)' = FiltersFor(f, e) /\ Rounds(f)' = todo.left - 1 /\ Rounds(f) = todo.left
      BY <1>8, <1>10, <2>1, <2>2, <2>3, <3>1
    <3> QED
      BY <1>1, <1>5, <1>6, <1>7, <1>10, <1>12, <2>1, <2>2, <3>2
  <2>4. CASE g # f
    <3>1. ~Begun(f, g)
      BY <1>12, <2>4, HookFacts
    <3>2. Rest(f)' = << >> /\ Rounds(f)' = (todo.left - 1) + 1 /\ Rounds(f) = todo.left
      BY <1>8, <1>10, <2>1, <2>2, <2>4, <3>1
    <3>3. Rounds(f)' = Rounds(f)
      BY <1>4, <3>2
    <3> QED
      BY <1>1, <1>5, <1>7, <1>10, <2>1, <2>2, <3>2, <3>3
  <2> QED
    BY <2>3, <2>4
<1> QED
  BY <1>9, <1>11, <1>12, FiltersDoneCases

\* A function that runs and passes.
LEMMA RunsOneFacts ==
  ASSUME TInv, RunFilter, mode' \in {"filters", "act"}, todo'.fn # "onException"
  PROVE  /\ RunsOne /\ mode = "filters" /\ mode' = "filters" /\ UNCHANGED ctx
         /\ todo.queue \in Seq(DOMAIN Has) /\ todo.queue # << >>
         /\ todo'.fn = todo.fn /\ todo'.queue = Tail(todo.queue) /\ todo'.left = todo.left
         /\ Note("filter", todo.fn, Head(todo.queue))
<1>1. RunsOne /\ UNCHANGED ctx
  <2>1. mode' \in {"leave", "caught"} \/ RunsOne \/ todo'.fn = "onException"
    BY RunFilterCases, StartsFacts, Zenon
  <2>2. UNCHANGED ctx
    BY Zenon DEF RunFilter
  <2> QED
    BY <2>1, <2>2
<1>2. TodoOK
  BY TFacts
<1>3. {"queue", "ran", "fn", "left"} \subseteq DOMAIN todo
  BY <1>2 DEF TodoOK, Idle
<1>4. todo'.fn = todo.fn /\ todo'.queue = Tail(todo.queue) /\ todo'.left = todo.left
  BY <1>1, <1>3 DEF RunsOne
<1> QED
  BY <1>1, <1>2, <1>4, Zenon DEF RunsOne, TodoOK

Associates(s, t, u) == s \o (t \o u) = (s \o t) \o u
LEMMA Concat3 ==
  ASSUME NEW S, NEW s \in Seq(S), NEW t \in Seq(S), NEW u \in Seq(S)
  PROVE  Associates(s, t, u)
BY ConcatAssoc DEF Associates

\* What is to come of function f when a function of a filter ran.
LEMMA RunsToCome ==
  ASSUME TInv, RunFilter, mode' \in {"filters", "act"}, todo'.fn # "onException",
         NEW f, NEW e, NEW pair, NEW s, NEW t,
         RanOf(s, pair, f) \in Seq(DOMAIN Has), RanOf(t, pair, f) \in Seq(DOMAIN Has),
         IF todo.fn = f THEN SameInAll(t, s, pair, f, todo.queue)
         ELSE RanOf(t, pair, f) = RanOf(s, pair, f)
  PROVE  RanOf(t, pair, f) \o ToCome(f, e, Having(pair))' = RanOf(s, pair, f) \o ToCome(f, e, Having(pair))
<1> DEFINE B == Having(pair)
           R == RanOf(s, pair, f)
           Q == RanOf(t, pair, f)
           D == DOMAIN Has
           T == Times(InAll(f, e, B), Rounds(f))
<1>1. /\ mode = "filters" /\ mode' = "filters" /\ UNCHANGED ctx
      /\ todo.queue \in Seq(D) /\ todo.queue # << >>
      /\ todo'.fn = todo.fn /\ todo'.queue = Tail(todo.queue) /\ todo'.left = todo.left
  BY RunsOneFacts
<1>2. FiltersFor(f, e)' = FiltersFor(f, e)
  BY <1>1, FiltersStay
<1>3. Rounds(f)' = Rounds(f)
  BY <1>1, Zenon DEF Rounds
<1>4. ToCome(f, e, B) = Only(Rest(f), B) \o T /\ ToCome(f, e, B)' = Only(Rest(f)', B) \o T
  BY <1>2, <1>3, Zenon DEF ToCome, InAll
<1>5. ctx.route.found = "route"
  BY <1>1, TFacts
<1>6. T \in Seq(D)
  BY <1>5, ToComeTyped
<1>7. R \in Seq(D) /\ Q \in Seq(D)
  OBVIOUS
<1>8. CASE todo.fn = f
  <2> DEFINE u == Only(todo.queue, B)
             v == Only(Tail(todo.queue), B)
  <2>1. Rest(f) = todo.queue /\ Rest(f)' = Tail(todo.queue)
    BY <1>1, <1>8, Zenon DEF Rest
  <2>2. Q \o v = R \o u
    BY <1>8 DEF SameInAll
  <2>3. u \in Seq(D) /\ v \in Seq(D)
    <3>1. Tail(todo.queue) \in Seq(D)
      BY <1>1, HeadFacts
    <3> QED
      BY <1>1, <3>1, OnlyFacts
  <2> HIDE DEF u, v, R, Q, T
  <2>4. Q \o (v \o T) = (Q \o v) \o T /\ R \o (u \o T) = (R \o u) \o T
    <3>1. Q \in Seq(D) /\ R \in Seq(D) /\ u \in Seq(D) /\ v \in Seq(D) /\ T \in Seq(D)
      BY <1>6, <1>7, <2>3
    <3> HIDE DEF D
    <3>2. Associates(Q, v, T)
      BY <3>1, Concat3
    <3>3. Associates(R, u, T)
      BY <3>1, Concat3
    <3> QED
      BY <3>2, <3>3, Zenon DEF Associates
  <2> QED
    BY <1>4, <2>1, <2>2, <2>4 DEF u, v, R, Q
<1>9. CASE todo.fn # f
  <2>1. Rest(f) = << >> /\ Rest(f)' = << >>
    BY <1>1, <1>9, Zenon DEF Rest
  <2> QED
    BY <1>4, <1>9, <2>1
<1> QED
  BY <1>8, <1>9

\* The trail as lists.
LEMMA NotedTrail ==
  ASSUME TInv, NEW e, NEW fn, NEW by, Note(e, fn, by)
  PROVE  \E S : /\ trail \in Seq(S) /\ Event(e, fn, by) \in S
                /\ trail' = Append(trail, Event(e, fn, by))
<1> DEFINE x == Event(e, fn, by)
           S == ToSet(trail) \cup {x}
<1> HIDE DEF x
<1>1. trail \in Seq(ToSet(trail))
  BY Zenon DEF TInv, TypeOK
<1>2. trail \in Seq(S) /\ x \in S
  BY <1>1
<1>3. trail' = Append(trail, x)
  BY Zenon DEF Note, x
<1> HIDE DEF S
<1> QED
  BY <1>2, <1>3, Zenon DEF x

LEMMA NotedOther ==
  ASSUME TInv, NEW e, NEW fn, NEW by, Note(e, fn, by), NEW pair, NEW g, e # "filter" \/ fn # g
  PROVE  RanOf(trail', pair, g) = RanOf(trail, pair, g)
<1>1. PICK S : /\ trail \in Seq(S) /\ Event(e, fn, by) \in S
               /\ trail' = Append(trail, Event(e, fn, by))
  BY NotedTrail
<1> QED
  BY <1>1, RanOther

LEMMA NotedStep ==
  ASSUME TInv, NEW q \in Seq(DOMAIN Has), q # << >>, NEW g, Note("filter", g, Head(q)), NEW pair
  PROVE  SameInAll(trail', trail, pair, g, q)
<1>1. PICK S : /\ trail \in Seq(S) /\ Event("filter", g, Head(q)) \in S
               /\ trail' = Append(trail, Event("filter", g, Head(q)))
  BY NotedTrail
<1> QED
  BY <1>1, RanStep

LEMMA AheadSteps ==
  ASSUME TInv, OrdInv, Serves, NEW x, NEW d, Paired(x, d), AheadInv(x, d)
  PROVE  AheadInv(x, d)'
<1> DEFINE P == {x, d}
           B == Having(P)
           D == DOMAIN Has
           R == RanOf(trail, P, x)
           F == InAll(x, TRUE, B)
<1> SUFFICES ASSUME Ready'
             PROVE  EndsWith(RanOf(trail', P, x) \o ToCome(x, TRUE, B)', Times(InAll(x, TRUE, B)', ctx'.hooks))
  BY Zenon DEF AheadInv
<1>1. MakeAction \/ (Ready /\ (RunFilter \/ FiltersDone))
  BY ReadyStays
<1>2. mode' \in {"filters", "act"} /\ (mode' = "filters" => todo'.fn # "onException")
  <2>1. mode' = "act" \/ (mode' = "filters" /\ todo'.fn \in Befores)
    BY DEF Ready
  <2> QED
    BY <2>1, NameFacts
<1>3. trail \in Seq(ToSet(trail))
  BY Zenon DEF TInv, TypeOK
<1>4. R \in Seq(D)
  BY <1>3, RanOfFacts
<1>5. Hook(x, TRUE) /\ x # Before3[1] /\ ~Begun(x, Before3[1])
  BY PairFacts DEF Hook, Befores
<1>6. CASE MakeAction
  <2>1. /\ ctx.route.found = "route" /\ trail' = trail
        /\ \E v, w : ctx' = [ctx EXCEPT !.made = v, !.args = w]
        /\ \/ /\ ctx.hooks > 0 /\ mode' = "filters" /\ todo' = Exec(Before3[1], TRUE, ctx.hooks - 1)
           \/ ~(ctx.hooks > 0) /\ mode' = "act"
    BY <1>2, <1>6, MakeActionCases
  <2>2. ctx.hooks \in Nat /\ {"route", "globals", "orders", "hooks", "made", "args"} \subseteq DOMAIN ctx
    BY TFacts DEF CtxOK, NewContext
  <2>3. ctx'.route = ctx.route /\ ctx'.globals = ctx.globals /\ ctx'.orders = ctx.orders /\ ctx'.hooks = ctx.hooks
    BY <2>1, <2>2
  <2>4. InAll(x, TRUE, B)' = F
    BY <2>3, FiltersStay, Zenon DEF InAll
  <2>5. F \in Seq(D)
    BY <2>1, InAllTyped
  <2>6. Rest(x)' = << >> /\ Rounds(x)' = ctx.hooks
    <3>1. CASE mode' = "filters" /\ todo' = Exec(Before3[1], TRUE, ctx.hooks - 1) /\ ctx.hooks > 0
      <4>1. todo'.fn = Before3[1] /\ todo'.left = ctx.hooks - 1
        BY <3>1 DEF Exec
      <4>2. Rest(x)' = << >>
        BY <1>5, <4>1, Zenon DEF Rest
      <4>3. Rounds(x)' = todo'.left + 1
        BY <1>5, <3>1, <4>1 DEF Rounds, Begun
      <4> QED
        BY <2>2, <3>1, <4>1, <4>2, <4>3
    <3>2. CASE ~(ctx.hooks > 0) /\ mode' = "act"
      BY <2>2, <3>2 DEF Rest, Rounds
    <3> QED
      BY <2>1, <3>1, <3>2
  <2> DEFINE T == Times(F, ctx.hooks)
  <2>7. T \in Seq(D)
    BY <2>2, <2>5, TimesFacts
  <2>8. ToCome(x, TRUE, B)' = << >> \o T
    <3>1. Only(<< >>, B) = << >>
      BY OnlyEmpty
    <3>2. ToCome(x, TRUE, B)' = Only(Rest(x)', B) \o Times(InAll(x, TRUE, B)', Rounds(x)')
      BY DEF ToCome
    <3> QED
      BY <2>4, <2>6, <3>1, <3>2
  <2> HIDE DEF T, R
  <2>9. << >> \o T = T
    BY <2>7
  <2>10. EndsWith(R \o T, T)
    BY <1>4, <2>7, EndsWithLast
  <2> QED
    BY <2>1, <2>3, <2>4, <2>8, <2>9, <2>10 DEF T, R
<1>7. ASSUME Ready, UNCHANGED ctx,
             RanOf(trail', P, x) \o ToCome(x, TRUE, B)' = R \o ToCome(x, TRUE, B)
      PROVE  EndsWith(RanOf(trail', P, x) \o ToCome(x, TRUE, B)', Times(InAll(x, TRUE, B)', ctx'.hooks))
  <2>1. InAll(x, TRUE, B)' = F /\ ctx'.hooks = ctx.hooks
    BY <1>7, FiltersStay, Zenon DEF InAll
  <2>2. EndsWith(R \o ToCome(x, TRUE, B), Times(F, ctx.hooks))
    BY <1>7, Zenon DEF AheadInv
  <2> QED
    BY <1>7, <2>1, <2>2
<1>8. CASE Ready /\ RunFilter
  <2>1. mode' = "filters" /\ todo'.fn # "onException"
    <3>1. mode' # "act"
      BY <1>8, RunFilterCases, Zenon DEF RunsOne, Starts
    <3> QED
      BY <1>2, <3>1
  <2>2. /\ UNCHANGED ctx /\ Note("filter", todo.fn, Head(todo.queue))
        /\ todo.queue \in Seq(D) /\ todo.queue # << >>
    BY <1>2, <1>8, <2>1, RunsOneFacts
  <2>3. RanOf(trail', P, x) \in Seq(D)
    <3>1. PICK S : /\ trail \in Seq(S) /\ Event("filter", todo.fn, Head(todo.queue)) \in S
                   /\ trail' = Append(trail, Event("filter", todo.fn, Head(todo.queue)))
      BY <2>2, NotedTrail
    <3>2. trail' \in Seq(S)
      BY <3>1
    <3> QED
      BY <3>2, RanOfFacts
  <2>4. IF todo.fn = x THEN SameInAll(trail', trail, P, x, todo.queue) ELSE RanOf(trail', P, x) = R
    BY <2>2, NotedStep, NotedOther
  <2>5. RanOf(trail', P, x) \o ToCome(x, TRUE, B)' = R \o ToCome(x, TRUE, B)
    BY <1>2, <1>4, <1>8, <2>1, <2>3, <2>4, RunsToCome
  <2> QED
    BY <1>7, <1>8, <2>2, <2>5
<1>9. CASE Ready /\ FiltersDone
  <2>1. Hook(todo.fn, TRUE)
    <3>1. mode = "filters"
      BY <1>9 DEF FiltersDone
    <3> QED
      BY <1>9, <3>1 DEF Ready, Hook
  <2>2. UNCHANGED <<ctx, trail>> /\ ToCome(x, TRUE, B)' = ToCome(x, TRUE, B)
    BY <1>2, <1>5, <1>9, <2>1, RoundsGoOn
  <2> QED
    BY <1>7, <1>9, <2>2
<1> QED
  BY <1>1, <1>6, <1>8, <1>9

LEMMA ActsGrow ==
  ASSUME TInv, NEW e, NEW g, NEW by, Note(e, g, by)
  PROVE  /\ Len(trail) \in Nat /\ Len(trail') = Len(trail) + 1 /\ Acts \subseteq 1 .. Len(trail)
         /\ DOMAIN trail = 1 .. Len(trail) /\ DOMAIN trail' = 1 .. Len(trail) + 1
         /\ Acts' = IF e = "act" THEN Acts \cup {Len(trail) + 1} ELSE Acts
<1> DEFINE n == Len(trail)
<1>1. /\ DOMAIN trail = 1 .. n /\ n \in Nat /\ Len(trail') = n + 1 /\ DOMAIN trail' = 1 .. n + 1
      /\ \A i \in 1 .. n : trail'[i] = trail[i]
      /\ trail'[n + 1].e = e
  BY TrailFacts DEF TInv
<1>2. /\ Acts = {i \in 1 .. n : trail[i].e = "act"}
      /\ Acts' = {i \in 1 .. n + 1 : trail'[i].e = "act"}
  BY <1>1, Zenon DEF Acts
<1> HIDE DEF n
<1>3. \A i \in 1 .. n + 1 : i = n + 1 \/ i \in 1 .. n
  BY <1>1
<1>4. n + 1 \in 1 .. n + 1 /\ \A i \in 1 .. n : i \in 1 .. n + 1
  BY <1>1
<1>5. Acts' = IF e = "act" THEN Acts \cup {n + 1} ELSE Acts
  <2>1. ASSUME NEW i PROVE i \in Acts' <=> i \in Acts \/ (e = "act" /\ i = n + 1)
    BY <1>1, <1>2, <1>3, <1>4
  <2> QED
    BY <2>1
<1>6. Acts \subseteq 1 .. n
  BY <1>2
<1> QED
  BY <1>1, <1>5, <1>6 DEF n

LEMMA ActsRange ==
  ASSUME TInv
  PROVE  Len(trail) \in Nat /\ Acts \subseteq 1 .. Len(trail) /\ DOMAIN trail = 1 .. Len(trail)
<1> DEFINE n == Len(trail)
<1>1. n \in Nat /\ DOMAIN trail = 1 .. n
  <2>1. trail \in Seq(ToSet(trail))
    BY Zenon DEF TInv, TypeOK
  <2> QED
    BY <2>1
<1> QED
  BY <1>1 DEF Acts

\* The parts of the trail ahead of an action and behind it, when an event follows.
LEMMA AheadStays ==
  ASSUME TInv, NEW e, NEW fn, NEW by, Note(e, fn, by), NEW a \in Nat, a >= 1, NEW b \in Nat, b <= Len(trail)
  PROVE  SubSeq(trail', a, b) = SubSeq(trail, a, b)
<1>1. PICK S : /\ trail \in Seq(S) /\ Event(e, fn, by) \in S
               /\ trail' = Append(trail, Event(e, fn, by))
  BY NotedTrail
<1> QED
  BY <1>1, PartsFacts

LEMMA BehindGrows ==
  ASSUME TInv, NEW e, NEW fn, NEW by, Note(e, fn, by), NEW i \in 1 .. Len(trail)
  PROVE  \E S : /\ SubSeq(trail, i + 1, Len(trail)) \in Seq(S) /\ Event(e, fn, by) \in S
                /\ SubSeq(trail', i + 1, Len(trail')) =
                     Append(SubSeq(trail, i + 1, Len(trail)), Event(e, fn, by))
<1>1. PICK S : /\ trail \in Seq(S) /\ Event(e, fn, by) \in S
               /\ trail' = Append(trail, Event(e, fn, by))
  BY NotedTrail
<1>2. Len(trail') = Len(trail) + 1 /\ Len(trail) \in Nat
  BY ActsGrow
<1>3. i + 1 \in Nat /\ i + 1 >= 1 /\ i + 1 <= Len(trail) + 1
  BY <1>2
<1>4. /\ SubSeq(trail, i + 1, Len(trail)) \in Seq(S)
      /\ SubSeq(trail', i + 1, Len(trail) + 1) =
           Append(SubSeq(trail, i + 1, Len(trail)), Event(e, fn, by))
  BY <1>1, <1>3, PartGrows
<1> QED
  BY <1>1, <1>2, <1>4, Zenon

LEMMA BehindOther ==
  ASSUME TInv, NEW e, NEW fn, NEW by, Note(e, fn, by), NEW i \in 1 .. Len(trail),
         NEW pair, NEW g, e # "filter" \/ fn # g
  PROVE  RanOf(SubSeq(trail', i + 1, Len(trail')), pair, g) = RanOf(SubSeq(trail, i + 1, Len(trail)), pair, g)
<1> DEFINE s == SubSeq(trail, i + 1, Len(trail))
           t == SubSeq(trail', i + 1, Len(trail'))
<1>1. PICK S : s \in Seq(S) /\ Event(e, fn, by) \in S /\ t = Append(s, Event(e, fn, by))
  BY BehindGrows
<1> HIDE DEF s, t
<1>2. RanOf(t, pair, g) = RanOf(s, pair, g)
  BY <1>1, RanOther
<1> QED
  BY <1>2 DEF s, t

LEMMA BehindStep ==
  ASSUME TInv, NEW q \in Seq(DOMAIN Has), q # << >>, NEW g, Note("filter", g, Head(q)),
         NEW i \in 1 .. Len(trail), NEW pair
  PROVE  SameInAll(SubSeq(trail', i + 1, Len(trail')), SubSeq(trail, i + 1, Len(trail)), pair, g, q)
<1> DEFINE s == SubSeq(trail, i + 1, Len(trail))
           t == SubSeq(trail', i + 1, Len(trail'))
<1>1. PICK S : /\ s \in Seq(S) /\ Event("filter", g, Head(q)) \in S
               /\ t = Append(s, Event("filter", g, Head(q)))
  BY BehindGrows
<1> HIDE DEF s, t
<1>2. SameInAll(t, s, pair, g, q)
  BY <1>1, RanStep
<1> QED
  BY <1>2 DEF s, t

\* The action is over; the first of its functions begins.
Turns ==
  /\ Invoke /\ mode = "act" /\ ctx.hooks > 0 /\ UNCHANGED ctx /\ mode' = "filters"
  /\ todo' = Exec(After2[1], FALSE, ctx.hooks - 1) /\ \E fn, by : Note("act", fn, by)

\* The step that begins or goes on with the functions behind the action.
LEMMA BehindCases ==
  ASSUME TInv, Serves, Going'
  PROVE  Turns \/ (Going /\ (RunFilter \/ FiltersDone))
<1>1. mode' = "filters" /\ todo'.fn \in Afters
  BY Zenon DEF Going
<1>2. Works
  BY <1>1, OthersLeave
<1>3. todo'.fn \notin Befores /\ todo'.fn # "onException" /\ "onException" \notin Afters
  BY <1>1, NameFacts DEF Afters, After2
<1>4. ~MakeAction
  <2> SUFFICES ASSUME MakeAction PROVE FALSE
    OBVIOUS
  <2>1. todo' = Exec(Before3[1], TRUE, ctx.hooks - 1)
    BY <1>1, MakeActionCases
  <2>2. todo'.fn = Before3[1]
    BY <2>1 DEF Exec
  <2> QED
    BY <1>3, <2>2 DEF Befores
<1>5. ~CaughtByNext
  <2> SUFFICES ASSUME CaughtByNext PROVE FALSE
    OBVIOUS
  <2>1. todo'.fn = "onException"
    BY <1>1, CaughtByNextCases, StartsFacts
  <2> QED
    BY <1>3, <2>1
<1>6. CASE Invoke
  BY <1>1, <1>6, InvokeCases, Zenon DEF Turns
<1>7. CASE RunFilter
  <2>1. mode = "filters" /\ todo'.fn = todo.fn
    BY <1>1, <1>3, <1>7, RunsOneFacts
  <2> QED
    BY <1>1, <1>7, <2>1 DEF Going
<1>8. CASE FiltersDone
  <2>1. mode = "filters"
    BY <1>8 DEF FiltersDone
  <2>2. todo'.fn = NextFunction(todo.fn) \/ (NextFunction(todo.fn) = "-" /\ todo'.fn = FirstFunction(todo.fn))
    BY <1>1, <1>8, FiltersDoneCases, StartsFacts
  <2>3. todo.fn \in Afters
    <3>1. CASE todo'.fn = NextFunction(todo.fn)
      <4>1. NextFunction(todo.fn) = After2[2] => todo.fn = After2[1]
        BY DEF NextFunction, Before3, After2
      <4>2. NextFunction(todo.fn) = After2[2]
        BY <1>1, <3>1, NameFacts DEF Afters, After2, Before3
      <4> QED
        BY <4>1, <4>2 DEF Afters
    <3>2. CASE NextFunction(todo.fn) = "-" /\ todo'.fn = FirstFunction(todo.fn)
      BY <1>1, <3>2 DEF Afters, FirstFunction, NextFunction, Before3, After2
    <3> QED
      BY <2>2, <3>1, <3>2
  <2> QED
    BY <1>8, <2>1, <2>3 DEF Going
<1> QED
  BY <1>2, <1>4, <1>5, <1>6, <1>7, <1>8, Zenon DEF Works

LEMMA BehindSteps ==
  ASSUME TInv, OrdInv, Serves, NEW x, NEW d, Paired(x, d), AheadInv(x, d), BehindInv(x, d)
  PROVE  BehindInv(x, d)'
<1> DEFINE P == {x, d}
           B == Having(P)
           D == DOMAIN Has
<1> SUFFICES ASSUME Going', NEW i \in Acts', Acts' \cap (i + 1 .. Len(trail')) = {}
             PROVE  BeginsWith(Reverse(RanOf(SubSeq(trail', 1, i - 1), P, x)),
                               RanOf(SubSeq(trail', i + 1, Len(trail')), P, d) \o ToCome(d, FALSE, B)')
  BY Zenon DEF BehindInv
<1>1. mode' = "filters" /\ todo'.fn \in Afters /\ todo'.fn # "onException"
  <2>1. mode' = "filters" /\ todo'.fn \in Afters
    BY Zenon DEF Going
  <2> QED
    BY <2>1 DEF Afters, After2
<1>2. Len(trail) \in Nat /\ Acts \subseteq 1 .. Len(trail)
  BY ActsRange
<1>3. Hook(d, FALSE) /\ d # Before3[1]
  BY PairFacts, NameFacts DEF Hook, Afters, Befores
<1>4. CASE Turns
  <2> DEFINE R == RanOf(trail, P, x)
             F == InAll(x, TRUE, B)
             G == InAll(d, FALSE, B)
             h == ctx.hooks
  <2>1. PICK fn, by : Note("act", fn, by)
    BY <1>4, Zenon DEF Turns
  <2>2. Len(trail') = Len(trail) + 1 /\ Acts' = Acts \cup {Len(trail) + 1}
    BY <2>1, ActsGrow
  <2>3. i = Len(trail) + 1
    BY <1>2, <2>2
  <2>4. /\ ctx.route.found = "route" /\ h \in Nat /\ h > 0 /\ UNCHANGED ctx
        /\ todo'.fn = After2[1] /\ todo'.queue = FiltersFor(After2[1], FALSE) /\ todo'.left = h - 1
        /\ Ready /\ mode = "act"
    <3>1. mode = "act" /\ h > 0 /\ UNCHANGED ctx /\ todo' = Exec(After2[1], FALSE, ctx.hooks - 1)
      BY <1>4, Zenon DEF Turns
    <3>2. ctx.route.found = "route" /\ CtxOK
      BY <3>1, TFacts
    <3> QED
      BY <3>1, <3>2 DEF Exec, Ready, CtxOK
  <2>5. ToCome(d, FALSE, B)' = << >> \o Times(G, h)
    <3> DEFINE A(q, n) == Only(q, B) \o Times(G, n)
    <3>1. \A g, e : FiltersFor(g, e)' = FiltersFor(g, e)
      BY <2>4, FiltersStay
    <3>2. ToCome(d, FALSE, B)' = A(Rest(d)', Rounds(d)')
      BY <3>1, Zenon DEF ToCome, InAll
    <3>3. Only(<< >>, B) = << >>
      BY OnlyEmpty
    <3>4. A(FiltersFor(d, FALSE), h - 1) = << >> \o Times(G, h)
      <4> DEFINE n == h - 1
      <4>1. n \in Nat /\ n + 1 = h
        BY <2>4
      <4> HIDE DEF n
      <4>2. ctx.route.found = "route"
        BY <2>4
      <4>3. OneMore(d, FALSE, B, n)
        BY <4>1, <4>2, ListBegins
      <4>4. A(FiltersFor(d, FALSE), n) = << >> \o Times(G, h)
        BY <4>1, <4>3, Zenon DEF OneMore, A, G
      <4> QED
        BY <4>4 DEF n
    <3>5. A(<< >>, h) = << >> \o Times(G, h)
      BY <3>3
    <3> HIDE DEF A, G
    <3>6. CASE d = After2[1]
      <4>1. Rest(d)' = FiltersFor(d, FALSE)
        BY <1>1, <2>4, <3>6, Zenon DEF Rest
      <4>2. Rounds(d)' = h - 1
        BY <1>1, <2>4, <3>6 DEF Rounds, Begun
      <4> QED
        BY <3>2, <3>4, <4>1, <4>2
    <3>7. CASE d # After2[1]
      <4>1. ~Begun(d, After2[1])
        BY <3>7, PairFacts
      <4>2. Rest(d)' = << >>
        BY <2>4, <3>7, Zenon DEF Rest
      <4>3. Rounds(d)' = (h - 1) + 1
        BY <1>1, <2>4, <4>1 DEF Rounds, Begun
      <4>4. Rounds(d)' = h
        BY <2>4, <4>3
      <4> QED
        BY <3>2, <3>5, <4>2, <4>4
    <3> QED
      BY <3>6, <3>7
  <2>6. PICK S : /\ trail \in Seq(S) /\ Event("act", fn, by) \in S
                 /\ trail' = Append(trail, Event("act", fn, by))
    BY <2>1, NotedTrail
  <2>7. SubSeq(trail', 1, i - 1) = trail
    <3>1. i - 1 = Len(trail) /\ 1 \in Nat /\ Len(trail) <= Len(trail)
      BY <1>2, <2>3
    <3>2. SubSeq(trail', 1, Len(trail)) = SubSeq(trail, 1, Len(trail))
      BY <1>2, <2>1, <3>1, AheadStays
    <3>3. SubSeq(trail, 1, Len(trail)) = trail
      BY <2>6, PartsFacts
    <3> QED
      BY <3>1, <3>2, <3>3
  <2>8. RanOf(SubSeq(trail', i + 1, Len(trail')), P, d) = << >>
    <3>1. trail' \in Seq(S)
      BY <2>6
    <3>2. SubSeq(trail', Len(trail') + 1, Len(trail')) = << >>
      BY <3>1, PartsFacts
    <3>3. i = Len(trail')
      BY <2>2, <2>3
    <3>4. RanOf(<< >>, P, d) = << >>
      BY <2>6, RanOfFacts
    <3> QED
      BY <3>2, <3>3, <3>4
  <2>9. /\ R \in Seq(D) /\ F \in Seq(D) /\ G \in Seq(D) /\ G = Reverse(F)
    <3>1. R \in Seq(D)
      BY <2>6, RanOfFacts
    <3>2. G = Reverse(F)
      BY <2>4, Mirror DEF InAll
    <3> QED
      BY <2>4, <3>1, <3>2, InAllTyped
  <2>10. Times(F, h) \in Seq(D) /\ Times(G, h) \in Seq(D) /\ Times(G, h) = Reverse(Times(F, h))
    <3> HIDE DEF F, G
    <3> QED
      BY <2>4, <2>9, TimesFacts, TimesReversed
  <2>11. EndsWith(R, Times(F, h))
    <3>1. Rest(x) = << >> /\ Rounds(x) = 0
      BY <2>4 DEF Rest, Rounds
    <3>2. EndsWith(R \o ToCome(x, TRUE, B), Times(F, h))
      BY <2>4, Zenon DEF AheadInv
    <3>3. Only(<< >>, B) = << >>
      BY OnlyEmpty
    <3>4. Times(F, 0) = << >>
      BY <2>4, <2>9, TimesFacts
    <3>5. ToCome(x, TRUE, B) = << >> \o << >>
      BY <3>1, <3>3, <3>4 DEF ToCome
    <3> HIDE DEF R, F
    <3>6. R \o (<< >> \o << >>) = R
      BY <2>9
    <3> QED
      BY <3>2, <3>5, <3>6
  <2> HIDE DEF R, F, G
  <2>12. BeginsWith(Reverse(R), Times(G, h))
    <3> DEFINE T == Times(F, h)
    <3>1. T \in Seq(D) /\ EndsWith(R, T) /\ Times(G, h) = Reverse(T)
      BY <2>10, <2>11
    <3> HIDE DEF T
    <3>2. BeginsWith(Reverse(R), Reverse(T))
      BY <2>9, <3>1, EndReversed
    <3> QED
      BY <3>1, <3>2
  <2>13. << >> \o (<< >> \o Times(G, h)) = Times(G, h)
    <3> DEFINE T == Times(G, h)
    <3>1. T \in Seq(D)
      BY <2>10
    <3> HIDE DEF T
    <3>2. << >> \o (<< >> \o T) = T
      BY <3>1
    <3> QED
      BY <3>2 DEF T
  <2> QED
    BY <2>5, <2>7, <2>8, <2>12, <2>13 DEF R
<1>5. CASE Going /\ RunFilter
  <2>1. /\ UNCHANGED ctx
        /\ todo.queue \in Seq(D) /\ todo.queue # << >>
        /\ Note("filter", todo.fn, Head(todo.queue))
    BY <1>1, <1>5, RunsOneFacts
  <2>2. Len(trail') = Len(trail) + 1 /\ Acts' = Acts
    <3>1. "filter" # "act"
      OBVIOUS
    <3> QED
      BY <2>1, <3>1, ActsGrow
  <2>3. i \in Acts /\ i \in 1 .. Len(trail) /\ Acts \cap (i + 1 .. Len(trail)) = {}
    BY <1>2, <2>2
  <2> DEFINE s == SubSeq(trail, i + 1, Len(trail))
             t == SubSeq(trail', i + 1, Len(trail'))
  <2>4. BeginsWith(Reverse(RanOf(SubSeq(trail, 1, i - 1), P, x)), RanOf(s, P, d) \o ToCome(d, FALSE, B))
    BY <1>5, <2>3, Zenon DEF BehindInv
  <2>5. SubSeq(trail', 1, i - 1) = SubSeq(trail, 1, i - 1)
    <3> DEFINE b == i - 1
    <3>1. 1 \in Nat /\ 1 >= 1 /\ b \in Nat /\ b <= Len(trail)
      BY <1>2, <2>3
    <3> HIDE DEF b
    <3>2. SubSeq(trail', 1, b) = SubSeq(trail, 1, b)
      BY <2>1, <3>1, AheadStays
    <3> QED
      BY <3>2 DEF b
  <2>6. IF todo.fn = d THEN SameInAll(t, s, P, d, todo.queue) ELSE RanOf(t, P, d) = RanOf(s, P, d)
    BY <2>1, <2>3, BehindStep, BehindOther
  <2>7. RanOf(s, P, d) \in Seq(D) /\ RanOf(t, P, d) \in Seq(D)
    <3>1. PICK S : /\ s \in Seq(S) /\ Event("filter", todo.fn, Head(todo.queue)) \in S
                   /\ t = Append(s, Event("filter", todo.fn, Head(todo.queue)))
      BY <2>1, <2>3, BehindGrows
    <3> HIDE DEF s, t
    <3>2. t \in Seq(S)
      BY <3>1
    <3> QED
      BY <3>1, <3>2, RanOfFacts
  <2> HIDE DEF s, t
  <2>8. RanOf(t, P, d) \o ToCome(d, FALSE, B)' = RanOf(s, P, d) \o ToCome(d, FALSE, B)
    BY <1>1, <1>5, <2>6, <2>7, RunsToCome
  <2> QED
    BY <2>4, <2>5, <2>8 DEF t
<1>6. CASE Going /\ FiltersDone
  <2>1. Hook(todo.fn, FALSE)
    BY <1>6 DEF Going, Hook
  <2>2. UNCHANGED <<ctx, trail>> /\ ToCome(d, FALSE, B)' = ToCome(d, FALSE, B)
    BY <1>1, <1>3, <1>6, <2>1, RoundsGoOn
  <2>3. Acts' = Acts
    BY <2>2, Zenon DEF Acts
  <2> QED
    BY <1>6, <2>2, <2>3, Zenon DEF BehindInv
<1> QED
  BY <1>4, <1>5, <1>6, BehindCases

LEMMA NestSteps ==
  ASSUME TInv, TInv', Serves, NEW x, NEW d, Paired(x, d), NestInv(x, d), BehindInv(x, d)'
  PROVE  NestInv(x, d)'
<1> DEFINE P == {x, d}
           B == Having(P)
           D == DOMAIN Has
           n == Len(trail)
           Ahead1(i) == RanOf(SubSeq(trail, 1, i - 1), P, x)
           Since(i, j) == RanOf(SubSeq(trail, i + 1, j), P, d)
<1> SUFFICES ASSUME NEW i \in Acts', NEW j \in DOMAIN trail', i <= j, Acts' \cap (i + 1 .. j) = {}
             PROVE  IsPrefix(Since(i, j)', Reverse(Ahead1(i)'))
  BY Zenon DEF NestInv, Nest
<1>1. n \in Nat /\ Acts \subseteq 1 .. n /\ DOMAIN trail = 1 .. n
  BY ActsRange
<1>2. \A k \in Acts, l \in DOMAIN trail : k <= l /\ Acts \cap (k + 1 .. l) = {} =>
        IsPrefix(Since(k, l), Reverse(Ahead1(k)))
  BY Zenon DEF NestInv, Nest
<1> HIDE DEF Ahead1, Since, P, B, D, n
<1>3. CASE trail' = trail
  <2>1. Acts' = Acts /\ Since(i, j)' = Since(i, j) /\ Ahead1(i)' = Ahead1(i)
    BY <1>3, Zenon DEF Acts, Since, Ahead1
  <2> QED
    BY <1>2, <1>3, <2>1
<1>4. ASSUME NEW e, NEW fn, NEW by, Note(e, fn, by),
             e # "filter" \/ fn # d \/ (RunFilter /\ RunsOne /\ fn = todo.fn)
      PROVE  IsPrefix(Since(i, j)', Reverse(Ahead1(i)'))
  <2>1. /\ Len(trail') = n + 1 /\ DOMAIN trail' = 1 .. n + 1
        /\ Acts' = IF e = "act" THEN Acts \cup {n + 1} ELSE Acts
    BY <1>4, ActsGrow DEF n
  <2>2. i \in 1 .. n + 1 /\ j \in 1 .. n + 1
    BY <1>1, <2>1
  <2>3. Ahead1(i)' = Ahead1(i)
    <3> DEFINE b == i - 1
    <3>1. 1 \in Nat /\ 1 >= 1 /\ b \in Nat /\ b <= n
      BY <1>1, <2>2
    <3> HIDE DEF b
    <3>2. SubSeq(trail', 1, b) = SubSeq(trail, 1, b)
      BY <1>4, <3>1, AheadStays DEF n
    <3> QED
      BY <3>2 DEF b, Ahead1
  <2>4. CASE j <= n
    <3>1. SubSeq(trail', i + 1, j) = SubSeq(trail, i + 1, j)
      <4> DEFINE a == i + 1
      <4>1. a \in Nat /\ a >= 1 /\ j \in Nat /\ j <= n
        BY <1>1, <2>2, <2>4
      <4> HIDE DEF a
      <4>2. SubSeq(trail', a, j) = SubSeq(trail, a, j)
        BY <1>4, <4>1, AheadStays DEF n
      <4> QED
        BY <4>2 DEF a
    <3>2. Since(i, j)' = Since(i, j)
      BY <3>1 DEF Since
    <3>3. i \in Acts /\ j \in DOMAIN trail /\ Acts \cap (i + 1 .. j) = {}
      BY <1>1, <2>1, <2>2, <2>4
    <3> QED
      BY <1>2, <2>3, <3>2, <3>3
  <2>5. PICK S : /\ trail \in Seq(S) /\ Event(e, fn, by) \in S
                 /\ trail' = Append(trail, Event(e, fn, by))
    BY <1>4, NotedTrail
  <2>6. trail' \in Seq(S)
    BY <2>5
  <2>7. Ahead1(i)' \in Seq(D)
    <3> DEFINE b == i - 1
    <3>1. SubSeq(trail, 1, b) \in Seq(S)
      BY <1>1, <2>2, <2>5 DEF n
    <3> HIDE DEF b
    <3>2. RanOf(SubSeq(trail, 1, b), P, x) \in Seq(D)
      BY <3>1, RanOfFacts DEF D
    <3> QED
      BY <2>3, <3>2 DEF Ahead1, b
  <2>8. Reverse(Ahead1(i)') \in Seq(D)
    BY <2>7, ReverseFacts
  <2>9. CASE j = n + 1 /\ i = n + 1
    <3>1. SubSeq(trail', Len(trail') + 1, Len(trail')) = << >>
      BY <2>6, PartsFacts
    <3>2. Since(i, j)' = << >>
      <4>1. RanOf(<< >>, P, d) = << >>
        BY <2>6, RanOfFacts
      <4>2. SubSeq(trail', i + 1, j) = << >>
        BY <2>1, <2>9, <3>1
      <4> QED
        BY <4>1, <4>2 DEF Since
    <3> QED
      BY <2>8, <3>2, PrefixOf
  <2>10. CASE j = n + 1 /\ i <= n
    <3>1. i \in 1 .. n /\ i \in Acts /\ e # "act" /\ j = Len(trail')
      <4>1. n + 1 \in i + 1 .. j
        BY <1>1, <2>2, <2>10
      <4>2. n + 1 \notin Acts'
        BY <4>1
      <4>3. e # "act" /\ Acts' = Acts
        BY <2>1, <4>2
      <4> QED
        BY <1>1, <2>1, <2>2, <2>10, <4>3
    <3>2. CASE e # "filter" \/ fn # d
      <4>1. Since(i, j)' = Since(i, n)
        <5>1. RanOf(SubSeq(trail', i + 1, Len(trail')), P, d) = RanOf(SubSeq(trail, i + 1, n), P, d)
          BY <1>4, <3>1, <3>2, BehindOther DEF n
        <5> QED
          BY <3>1, <5>1, Zenon DEF Since
      <4>2. n \in DOMAIN trail /\ i <= n /\ Acts \cap (i + 1 .. n) = {}
        BY <1>1, <2>1, <2>2, <2>10, <3>1
      <4> QED
        BY <1>2, <2>3, <3>1, <4>1, <4>2
    <3>3. CASE e = "filter" /\ RunFilter /\ RunsOne /\ fn = d /\ todo.fn = d
      <4>1. mode' = "filters" /\ todo'.fn = d /\ ctx'.route.found = "route"
        <5>1. mode = "filters" /\ mode' = "filters" /\ todo'.fn = todo.fn /\ UNCHANGED ctx
          <6>1. mode = "filters" /\ UNCHANGED ctx
            BY <3>3, Zenon DEF RunFilter
          <6>2. mode' = "filters" /\ "fn" \in DOMAIN todo
            BY <3>3, <6>1, TFacts DEF RunsOne, TodoOK, Idle
          <6> QED
            BY <3>3, <6>1, <6>2 DEF RunsOne
        <5>2. ctx.route.found = "route"
          BY <5>1, TFacts
        <5> QED
          BY <3>3, <5>1, <5>2
      <4>2. Going'
        BY <4>1, PairFacts, Zenon DEF Going
      <4>3. BeginsWith(Reverse(Ahead1(i)'), Since(i, j)' \o ToCome(d, FALSE, B)')
        <5>1. Acts' \cap (i + 1 .. Len(trail')) = {}
          BY <3>1
        <5>2. BeginsWith(Reverse(RanOf(SubSeq(trail', 1, i - 1), {x, d}, x)),
                RanOf(SubSeq(trail', i + 1, Len(trail')), {x, d}, d) \o ToCome(d, FALSE, Having({x, d}))')
          BY <4>2, <5>1, Zenon DEF BehindInv
        <5> QED
          BY <3>1, <5>2, Zenon DEF Ahead1, Since, P, B
      <4>4. ToCome(d, FALSE, B)' \in Seq(D)
        <5>1. mode = "filters" /\ UNCHANGED ctx
          BY <3>3, Zenon DEF RunFilter
        <5>2. ctx.route.found = "route"
          BY <5>1, TFacts
        <5>3. InAll(d, FALSE, B) \in Seq(D)
          BY <5>2, InAllTyped DEF D
        <5>4. InAll(d, FALSE, B)' = InAll(d, FALSE, B)
          BY <5>1, FiltersStay, Zenon DEF InAll
        <5>5. todo'.queue \in Seq(D) /\ todo'.left \in Nat
          BY Zenon DEF TInv, TypeOK, D
        <5>6. Rest(d)' = todo'.queue
          BY <4>1, Zenon DEF Rest
        <5>7. Rounds(d)' \in Nat
          BY <4>1, <5>5 DEF Rounds
        <5> DEFINE p == Only(todo'.queue, B)
                   t == Times(InAll(d, FALSE, B), Rounds(d)')
        <5>8. p \in Seq(D)
          BY <5>5, OnlyFacts
        <5>9. t \in Seq(D)
          BY <5>3, <5>7, TimesFacts DEF D
        <5>10. ToCome(d, FALSE, B)' = p \o t
          BY <5>4, <5>6, Zenon DEF ToCome
        <5> HIDE DEF p, t
        <5>11. p \o t \in Seq(D)
          BY <5>8, <5>9
        <5> QED
          BY <5>10, <5>11
      <4>5. Since(i, j)' \in Seq(D)
        <5> DEFINE u == SubSeq(trail', i + 1, Len(trail'))
        <5>1. u \in Seq(S)
          BY <1>1, <2>1, <2>6, <3>1
        <5> HIDE DEF u
        <5>2. RanOf(u, P, d) \in Seq(D)
          BY <5>1, RanOfFacts DEF D
        <5> QED
          BY <3>1, <5>2 DEF u, Since
      <4> QED
        BY <4>3, <4>4, <4>5, BeginningIsPrefix DEF D
    <3> QED
      BY <1>4, <3>2, <3>3
  <2> QED
    BY <1>1, <2>2, <2>4, <2>9, <2>10
<1>5. "filter" \notin OtherKinds /\ "act" # "filter"
  BY DEF OtherKinds
<1>6. CASE \E e \in OtherKinds : \E fn, by : Note(e, fn, by)
  BY <1>4, <1>5, <1>6
<1>7. CASE RunFilter /\ RunsOne
  BY <1>4, <1>7, Zenon DEF RunsOne
<1>8. CASE Invoke /\ \E fn, by : Note("act", fn, by)
  BY <1>4, <1>5, <1>8
<1> QED
  BY <1>3, <1>6, <1>7, <1>8, TrailKinds

-----------------------------------------------------------------------------
(* The invariant, and the theorem.                                         *)

Nests(x, d) == AheadInv(x, d) /\ BehindInv(x, d) /\ NestInv(x, d)
NestingInv == OrdInv /\ Nests(Before3[2], After2[2]) /\ Nests(Before3[3], After2[1])

LEMMA NestsSteps ==
  ASSUME TInv, TInv', OrdInv, Serves, NEW x, NEW d, Paired(x, d), Nests(x, d)
  PROVE  Nests(x, d)'
<1>1. AheadInv(x, d) /\ BehindInv(x, d) /\ NestInv(x, d)
  BY DEF Nests
<1>2. AheadInv(x, d)'
  BY <1>1, AheadSteps
<1>3. BehindInv(x, d)'
  BY <1>1, BehindSteps
<1>4. NestInv(x, d)'
  BY <1>1, <1>3, NestSteps
<1> QED
  BY <1>2, <1>3, <1>4, Zenon DEF Nests

LEMMA NestsRest ==
  ASSUME NEW x, NEW d, Nests(x, d), UNCHANGED <<ctx, todo, trail>>,
         mode' = mode \/ (mode = "leave" /\ mode' = "done")
  PROVE  Nests(x, d)'
<1>1. ctx' = ctx /\ todo' = todo /\ trail' = trail /\ (mode' = mode \/ mode' = "done")
  OBVIOUS
<1>2. Acts' = Acts
  BY <1>1, Zenon DEF Acts
<1>3. NestInv(x, d)'
  BY <1>1, <1>2, Zenon DEF Nests, NestInv, Nest
<1>4. \A fn, e : FiltersFor(fn, e)' = FiltersFor(fn, e)
  BY <1>1, FiltersStay
<1>5. "done" # "filters" /\ "done" # "act"
  OBVIOUS
<1>6. (Ready' => Ready /\ mode' = mode) /\ (Going' => Going /\ mode' = mode)
  BY <1>1, <1>5, Zenon DEF Ready, Going
<1>7. mode' = mode => \A f, e, B : ToCome(f, e, B)' = ToCome(f, e, B) /\ InAll(f, e, B)' = InAll(f, e, B)
  BY <1>1, <1>4, Zenon DEF ToCome, Rest, Rounds, InAll
<1>8. AheadInv(x, d)'
  BY <1>1, <1>6, <1>7, Zenon DEF Nests, AheadInv
<1>9. BehindInv(x, d)'
  BY <1>1, <1>2, <1>6, <1>7, Zenon DEF Nests, BehindInv
<1> QED
  BY <1>3, <1>8, <1>9, Zenon DEF Nests

\* Executed functions run in the reverse order of the executing ones ahead of
\* the action, filter by filter, in every order given (FiltersNest).
THEOREM FiltersAreNested == Spec => []FiltersNest
<1>1. Init => NestingInv
  <2> SUFFICES ASSUME Init PROVE NestingInv
    OBVIOUS
  <2>1. trail = << >> /\ mode = "enter" /\ ctx = NewContext
    BY DEF Init
  <2>2. Acts = {} /\ ctx.orders = << >>
    BY <2>1 DEF Acts, NewContext
  <2>3. OrdInv
    BY <2>2 DEF OrdInv, Ranked, ToSet
  <2>4. ASSUME NEW x, NEW d PROVE Nests(x, d)
    <3>1. ~Ready /\ ~Going
      BY <2>1 DEF Ready, Going
    <3> QED
      BY <2>2, <3>1, Zenon DEF Nests, AheadInv, BehindInv, NestInv
  <2> QED
    BY <2>3, <2>4 DEF NestingInv
<1>2. TInv /\ TInv' /\ NestingInv /\ [Next]_vars => NestingInv'
  <2> SUFFICES ASSUME TInv, TInv', NestingInv, [Next]_vars PROVE NestingInv'
    OBVIOUS
  <2>1. OrdInv /\ Nests(Before3[2], After2[2]) /\ Nests(Before3[3], After2[1])
    BY DEF NestingInv
  <2>2. Paired(Before3[2], After2[2]) /\ Paired(Before3[3], After2[1])
    BY DEF Paired
  <2>3. Before3' = Before3 /\ After2' = After2
    BY DEF Before3, After2
  <2>4. CASE Serves
    <3>1. OrdInv'
      BY <2>1, <2>4, OrdSteps
    <3>2. Nests(Before3[2], After2[2])' /\ Nests(Before3[3], After2[1])'
      BY <2>1, <2>2, <2>4, NestsSteps
    <3> QED
      BY <3>1, <3>2, Zenon DEF NestingInv
  <2>5. CASE Finish \/ UNCHANGED vars
    <3>1. UNCHANGED <<ctx, todo, trail>> /\ (mode' = mode \/ (mode = "leave" /\ mode' = "done"))
      BY <2>5 DEF Finish, Quiet, vars
    <3>2. Nests(Before3[2], After2[2])' /\ Nests(Before3[3], After2[1])'
      BY <2>1, <3>1, NestsRest
    <3>3. OrdInv'
      BY <2>1, <3>1, Zenon DEF OrdInv, Ranked, ToSet
    <3> QED
      BY <3>2, <3>3, Zenon DEF NestingInv
  <2> QED
    BY <2>4, <2>5, NextCases
<1>3. NestingInv => FiltersNest
  <2> SUFFICES ASSUME NestingInv PROVE FiltersNest
    OBVIOUS
  <2>1. NestInv(Before3[2], After2[2]) /\ NestInv(Before3[3], After2[1])
    BY Zenon DEF NestingInv, Nests
  <2> QED
    BY <2>1, Zenon DEF FiltersNest, NestInv
<1> QED
  BY <1>1, <1>2, <1>3, TypesHold, PTL DEF Spec

=============================================================================
