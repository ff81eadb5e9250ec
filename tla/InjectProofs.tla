---------------------------- MODULE InjectProofs ----------------------------
(***************************************************************************)
(* Theorems about Inject, for any requests, classes, inject() calls and    *)
(* bounds: of its records and parsers, and, from the section on leaving    *)
(* on, that the inject() middlewares dispose everything a request made     *)
(* under their keys, once, and nothing that anybody still uses.            *)
(***************************************************************************)
EXTENDS Inject, FiniteSetTheorems, WellFoundedInduction, TLAPS

-----------------------------------------------------------------------------
(* The least element of a set of numbers, and what BindingOf and Existing  *)
(* find with it.                                                           *)

UpTo(n) == 0 .. n

LEMMA UpToFacts ==
  /\ \A n \in Nat : UpTo(n) \in FiniteSubsetsOf(Nat)
  /\ \A m, n \in Nat : n < m => <<UpTo(n), UpTo(m)>> \in StrictSubsetOrdering(Nat)
<1>1. ASSUME NEW n \in Nat PROVE UpTo(n) \in FiniteSubsetsOf(Nat)
  <2>1. IsFiniteSet(0 .. n)
    BY FS_Interval
  <2>2. 0 .. n \in SUBSET Nat
    OBVIOUS
  <2> QED
    BY <2>1, <2>2, Zenon DEF FiniteSubsetsOf, UpTo
<1>2. ASSUME NEW m \in Nat, NEW n \in Nat, n < m
      PROVE  <<UpTo(n), UpTo(m)>> \in StrictSubsetOrdering(Nat)
  <2>1. 0 .. n \in SUBSET Nat /\ 0 .. m \in SUBSET Nat /\ 0 .. n \subseteq 0 .. m
    BY <1>2
  <2>2. m \in 0 .. m /\ m \notin 0 .. n
    BY <1>2
  <2> QED
    BY <2>1, <2>2, SMT DEF StrictSubsetOrdering, UpTo
<1> QED
  BY <1>1, <1>2, Zenon

\* A set of numbers that is not empty has a least one.
LEMMA LeastExists ==
  ASSUME NEW S \in SUBSET Nat, S # {}
  PROVE  \E m \in S : \A x \in S : m <= x
<1> DEFINE T == {UpTo(n) : n \in S}
<1>1. T \subseteq FiniteSubsetsOf(Nat) /\ T # {}
  BY UpToFacts, Zenon
<1>2. PICK b \in T : \A c \in T : ~ (<<c, b>> \in StrictSubsetOrdering(Nat))
  <2> HIDE DEF T
  <2> QED
    BY <1>1, FS_StrictSubsetOrderingWellFounded, WFMin
<1>3. PICK m \in S : b = UpTo(m)
  OBVIOUS
<1>4. ASSUME NEW x \in S PROVE ~ (x < m)
  BY <1>2, <1>3, UpToFacts, Zenon
<1> QED
  BY <1>4

LEMMA BindingFacts ==
  ASSUME InjectAssumption, NEW key \in Keys
  PROVE  BindingOf(key) \in Binding
<1> DEFINE mine == {i \in DOMAIN Binds : Binds[i].anestor = key}
<1>1. Binds \in Seq(Binding) /\ Default[key] \in Binding
  BY DEF InjectAssumption
<1>2. CASE mine = {}
  BY <1>1, <1>2, Zenon DEF BindingOf
<1>3. CASE mine # {}
  <2>1. DOMAIN Binds = 1 .. Len(Binds) /\ mine \in SUBSET Nat
    BY <1>1
  <2>2. \E i \in mine : \A j \in mine : i <= j
    BY <1>3, <2>1, LeastExists
  <2>3. PICK i \in mine : BindingOf(key) = Binds[i]
    BY <1>3, <2>2, Zenon DEF BindingOf
  <2> QED
    BY <1>1, <2>1, <2>3
<1> QED
  BY <1>2, <1>3, Zenon

\* The first record of a key is one of its records.
LEMMA FirstRecord ==
  ASSUME NEW records \in Seq(Record), NEW key,
         \E i \in DOMAIN records : records[i].key = key
  PROVE  \E i \in DOMAIN records : records[i].key = key /\ \A j \in 1 .. i - 1 : records[j].key # key
<1> DEFINE S == {i \in DOMAIN records : records[i].key = key}
<1>1. DOMAIN records = 1 .. Len(records) /\ S \in SUBSET Nat /\ S # {}
  OBVIOUS
<1>2. PICK m \in S : \A x \in S : m <= x
  BY <1>1, LeastExists
<1>3. ASSUME NEW j \in 1 .. m - 1 PROVE records[j].key # key
  BY <1>1, <1>2
<1> QED
  BY <1>2, <1>3

DistinctValues(records) ==
  \A i, j \in 1 .. Len(records) : records[i].value = records[j].value => i = j
DistinctItems(s) == \A i, j \in 1 .. Len(s) : s[i] = s[j] => i = j

\* A sequence of the values of a key's records: all of them, and once if they
\* are different.
Collected(s, records, key, m) ==
  /\ s \in Seq(Nat)
  /\ \A i \in 1 .. Len(s) : \E j \in 1 .. m : records[j].key = key /\ records[j].value = s[i]
  /\ \A j \in 1 .. m : records[j].key = key => \E i \in 1 .. Len(s) : s[i] = records[j].value
  /\ DistinctValues(records) => DistinctItems(s)

\* What dispose() collects from the transient bag.
LEMMA ValuesFacts ==
  ASSUME NEW records \in Seq(Record), NEW key
  PROVE  Collected(ValuesOf(records, key), records, key, Len(records))
<1> DEFINE n == Len(records)
           Step(f, i) == IF i = 0 THEN <<>>
                         ELSE IF records[i].key = key THEN Append(f[i - 1], records[i].value) ELSE f[i - 1]
           Good(f, m) == f = [i \in 0 .. m |-> Step(f, i)]
           From(s, m) == Collected(s, records, key, m)
           Bad == {m \in 0 .. n : ~ \E f : Good(f, m)}
<1>1. n \in Nat /\ \A j \in 1 .. n : records[j].value \in Nat
  <2>1. \A rec \in Record : rec.value \in Nat
    BY DEF Record
  <2> QED
    BY <2>1
<1>2. \E f : Good(f, n)
  <2> SUFFICES ASSUME Bad # {} PROVE FALSE
    <3> HIDE DEF Good
    <3> QED
      BY <1>1
  <2>1. Bad \in SUBSET Nat
    BY <1>1
  <2>2. PICK m \in Bad : \A x \in Bad : m <= x
    <3> HIDE DEF Bad
    <3> QED
      BY <2>1, LeastExists
  <2>3. m \in 0 .. n
    OBVIOUS
  <2>4. m # 0
    <3>1. Good([i \in 0 .. 0 |-> <<>>], 0)
      OBVIOUS
    <3> HIDE DEF Good
    <3> QED
      BY <3>1
  <2>5. m - 1 \in 0 .. n /\ m - 1 \notin Bad
    <3> HIDE DEF Bad
    <3> QED
      BY <1>1, <2>2, <2>3, <2>4
  <2>6. PICK f : Good(f, m - 1)
    <3> HIDE DEF Good
    <3> QED
      BY <2>5
  <2> DEFINE g == [i \in 0 .. m |-> IF i = m THEN Step(f, m) ELSE f[i]]
  <2>7. Good(g, m)
    <3>1. \A i \in 0 .. m - 1 : g[i] = f[i] /\ f[i] = Step(f, i)
      <4>1. \A i \in 0 .. m - 1 : f[i] = Step(f, i)
        <5> HIDE DEF Step
        <5> QED
          BY <2>6
      <4>2. \A i \in 0 .. m - 1 : i \in 0 .. m /\ i # m
        BY <1>1, <2>3
      <4> QED
        BY <4>1, <4>2
    <3>2. g[m] = Step(f, m)
      BY <1>1, <2>3
    <3> DEFINE h == [i \in 0 .. m |-> Step(g, i)]
    <3>3. ASSUME NEW i \in 0 .. m PROVE g[i] = Step(g, i)
      <4>1. i = 0 \/ i - 1 \in 0 .. m - 1
        BY <1>1, <2>3
      <4>2. i # 0 => g[i - 1] = f[i - 1]
        <5> HIDE DEF g
        <5> QED
          BY <3>1, <4>1
      <4>3. Step(g, i) = Step(f, i)
        <5> HIDE DEF g
        <5> QED
          BY <4>2
      <4>4. g[i] = Step(f, i)
        <5> HIDE DEF g, Step
        <5> QED
          BY <1>1, <2>3, <3>1, <3>2
      <4> QED
        BY <4>3, <4>4
    <3>4. g = [i \in 0 .. m |-> g[i]]
      OBVIOUS
    <3> HIDE DEF g, Step
    <3> QED
      BY <3>3, <3>4
  <2> HIDE DEF Good, g
  <2> QED
    BY <2>7
<1>3. PICK g : Good(g, n) /\ ValuesOf(records, key) = g[n]
  <2> DEFINE G == CHOOSE f : Good(f, n)
  <2>1. Good(G, n)
    <3> HIDE DEF Good
    <3> QED
      BY <1>2
  <2>2. ValuesOf(records, key) = G[n]
    BY Zenon DEF ValuesOf
  <2> HIDE DEF Good, G
  <2> QED
    BY <2>1, <2>2
<1> DEFINE Wrong == {i \in 0 .. n : ~From(g[i], i)}
<1>4. From(<<>>, 0)
  BY DEF DistinctItems, Collected
<1>5. ASSUME NEW m \in 1 .. n, NEW s, From(s, m - 1)
      PROVE  From(IF records[m].key = key THEN Append(s, records[m].value) ELSE s, m)
  <2>1. m \in Nat /\ m - 1 \in 0 .. n /\ \A j \in 1 .. m : j \in 1 .. m - 1 \/ j = m
    BY <1>1
  <2>2. \A j \in 1 .. m - 1 : j \in 1 .. m /\ j \in 1 .. n /\ j # m
    BY <1>1, <2>1
  <2>3. CASE records[m].key # key
    BY <1>5, <2>1, <2>2, <2>3 DEF Collected
  <2>4. CASE records[m].key = key
    <3> DEFINE v == records[m].value
               t == Append(s, v)
               c == Len(s)
    <3>1. v \in Nat /\ s \in Seq(Nat)
      BY <1>1, <1>5 DEF Collected
    <3>2. t \in Seq(Nat) /\ c \in Nat /\ Len(t) = c + 1 /\ t[c + 1] = v /\ \A i \in 1 .. c : t[i] = s[i]
      <4> HIDE DEF v
      <4> QED
        BY <3>1
    <3> HIDE DEF t, v
    <3>3. \A i \in 1 .. c + 1 : i \in 1 .. c \/ i = c + 1
      <4> HIDE DEF c
      <4> QED
        BY <3>2
    <3>4. \A i \in 1 .. c : i \in 1 .. c + 1
      <4> HIDE DEF c
      <4> QED
        BY <3>2
    <3>5. c + 1 \in 1 .. c + 1 /\ m \in 1 .. m
      <4> HIDE DEF c
      <4> QED
        BY <2>1, <3>2
    <3>6. \A i \in 1 .. c : \E j \in 1 .. m - 1 : records[j].key = key /\ records[j].value = s[i]
      BY <1>5 DEF Collected
    <3>7. \A j \in 1 .. m - 1 : records[j].key = key => \E i \in 1 .. c : s[i] = records[j].value
      BY <1>5 DEF Collected
    <3>8. \A i \in 1 .. Len(t) : \E j \in 1 .. m : records[j].key = key /\ records[j].value = t[i]
      <4> HIDE DEF c
      <4> QED
        BY <2>2, <2>4, <3>2, <3>3, <3>5, <3>6 DEF v
    <3>9. \A j \in 1 .. m : records[j].key = key => \E i \in 1 .. Len(t) : t[i] = records[j].value
      <4> HIDE DEF c
      <4> QED
        BY <2>1, <3>2, <3>4, <3>5, <3>7 DEF v
    <3>10. ASSUME DistinctValues(records) PROVE DistinctItems(t)
      <4>1. \A i \in 1 .. c : s[i] # v
        <5> HIDE DEF c
        <5> QED
          BY <2>2, <3>6, <3>10 DEF DistinctValues, v
      <4>2. \A i, j \in 1 .. c : s[i] = s[j] => i = j
        BY <1>5, <3>10 DEF DistinctItems, Collected
      <4> HIDE DEF c
      <4> QED
        BY <3>2, <3>3, <4>1, <4>2 DEF DistinctItems
    <3>11. From(t, m)
      BY <3>2, <3>8, <3>9, <3>10 DEF Collected
    <3> HIDE DEF From
    <3> QED
      BY <2>4, <3>11 DEF t, v
  <2> HIDE DEF From
  <2> QED
    BY <2>3, <2>4
<1>6. ASSUME Wrong # {} PROVE FALSE
  <2>1. Wrong \in SUBSET Nat
    BY <1>1
  <2>2. PICK m \in Wrong : \A x \in Wrong : m <= x
    <3> HIDE DEF Wrong
    <3> QED
      BY <1>6, <2>1, LeastExists
  <2>3. m \in 0 .. n /\ ~From(g[m], m)
    <3> HIDE DEF From
    <3> QED
      OBVIOUS
  <2>4. m # 0 => m - 1 \in 0 .. n /\ m \in 1 .. n /\ m - 1 \notin Wrong
    <3> HIDE DEF Wrong
    <3> QED
      BY <1>1, <2>2, <2>3
  <2>5. m # 0 => From(g[m - 1], m - 1)
    <3> HIDE DEF From
    <3> QED
      BY <2>4
  <2>6. g[m] = Step(g, m)
    BY <1>3, <2>3
  <2> HIDE DEF From
  <2> QED
    BY <1>4, <1>5, <2>3, <2>4, <2>5, <2>6
<1> HIDE DEF Good, Step, From
<1>7. From(g[n], n)
  BY <1>1, <1>6
<1> QED
  BY <1>3, <1>7 DEF From

-----------------------------------------------------------------------------
(* The shape of the state, without what is known of references.            *)

Obj == [class : Classes, uses : SUBSET Nat, initializing : BOOLEAN, initialized : BOOLEAN,
        set : SUBSET Nat, ready : BOOLEAN, starts : Nat, disposals : Nat]
Shape ==
  /\ objs \in Seq(Obj)
  /\ singletons \in Seq(Record)
  /\ scoped \in [Reqs -> Seq(Record)]
  /\ transients \in [Reqs -> Seq(Record)]
  /\ phase \in [Reqs -> {"idle", "using", "disposing", "done"}]
  /\ parsers \in [Reqs -> Seq(Parser)]
  /\ disposal \in [Reqs -> [at : 0 .. Len(Binds), queue : Seq(Nat)]]
  /\ held \in [Reqs -> SUBSET Nat]
  /\ parses \in [Reqs -> Nat]
  /\ thrown \in [Reqs -> Nat]

LEMMA RecordsFacts ==
  ASSUME Shape, NEW r \in Reqs, NEW type
  PROVE  Records(r, type) \in Seq(Record)
BY DEF Shape, Records

LEMMA ParseFacts ==
  ASSUME InjectAssumption, Shape, NEW r \in Reqs, NEW key \in Keys
  PROVE  LET p == Parse(r, key)
             records == Records(r, BindingOf(key).type)
         IN /\ p \in Parser /\ p.key = key /\ p.args = {} /\ p.i = 1
            /\ p.class = IF key \in Classes THEN key ELSE "none"
            /\ \/ p.pc = "creating" /\ ~Exists(r, key)
               \/ p.pc = "found" /\ \E i \in DOMAIN records :
                    records[i].key = key /\ records[i].value = p.obj
<1> DEFINE records == Records(r, BindingOf(key).type)
           p0 == [key |-> key, class |-> IF key \in Classes THEN key ELSE "none",
                  obj |-> 0, pc |-> "creating", i |-> 1, args |-> {}]
<1>0. records \in Seq(Record)
  BY RecordsFacts
<1>1. p0 \in Parser
  BY DEF Parser, PCs
<1>2. CASE ~Exists(r, key)
  <2>1. Parse(r, key) = p0
    BY <1>2, Zenon DEF Parse
  <2> QED
    BY <1>1, <1>2, <2>1
<1>3. CASE Exists(r, key)
  <2>1. Parse(r, key) = [p0 EXCEPT !.obj = Existing(r, key), !.pc = "found"]
    BY <1>3, Zenon DEF Parse
  <2>2. \E i \in DOMAIN records : records[i].key = key
    BY <1>3, Zenon DEF Exists
  <2>3. \E i \in DOMAIN records : records[i].key = key /\ \A j \in 1 .. i - 1 : records[j].key # key
    BY <1>0, <2>2, FirstRecord
  <2>4. PICK i \in DOMAIN records : records[i].key = key /\ Existing(r, key) = records[i].value
    BY <2>3, Zenon DEF Existing
  <2>5. Existing(r, key) \in Nat
    <3> HIDE DEF records
    <3>1. records[i] \in Record
      BY <1>0
    <3> QED
      BY <2>4, <3>1 DEF Record
  <2> QED
    BY <1>1, <2>1, <2>4, <2>5 DEF Parser, PCs
<1> QED
  BY <1>2, <1>3

\* Go: the parser on top changes.
LEMMA GoFacts ==
  ASSUME Shape, NEW r \in Reqs, NEW p \in Parser, parsers[r] # <<>>, Go(r, p)
  PROVE  LET n == Len(parsers[r])
         IN /\ parsers' \in [Reqs -> Seq(Parser)] /\ n \in Nat /\ n > 0
            /\ \A q \in Reqs : q # r => parsers'[q] = parsers[q]
            /\ Len(parsers'[r]) = n /\ parsers'[r][n] = p
            /\ \A k \in 1 .. n - 1 : parsers'[r][k] = parsers[r][k]
<1>1. parsers[r] \in Seq(Parser)
  BY DEF Shape
<1>2. SetTop(parsers[r], p) \in Seq(Parser) /\ Len(SetTop(parsers[r], p)) = Len(parsers[r])
      /\ SetTop(parsers[r], p)[Len(parsers[r])] = p
      /\ \A k \in 1 .. Len(parsers[r]) - 1 : SetTop(parsers[r], p)[k] = parsers[r][k]
  BY <1>1 DEF SetTop
<1>3. parsers' = [parsers EXCEPT ![r] = SetTop(parsers[r], p)]
  BY DEF Go, Shape
<1> HIDE DEF Go
<1> QED
  BY <1>1, <1>2, <1>3 DEF Shape

\* A parser calls another one.
LEMMA CallFacts ==
  ASSUME Shape, NEW r \in Reqs, NEW p \in Parser,
         parsers' = [parsers EXCEPT ![r] = Append(@, p)]
  PROVE  LET n == Len(parsers[r])
         IN /\ parsers' \in [Reqs -> Seq(Parser)] /\ n \in Nat
            /\ \A q \in Reqs : q # r => parsers'[q] = parsers[q]
            /\ Len(parsers'[r]) = n + 1 /\ parsers'[r][n + 1] = p
            /\ \A k \in 1 .. n : parsers'[r][k] = parsers[r][k]
<1>1. parsers[r] \in Seq(Parser)
  BY DEF Shape
<1>2. parsers'[r] = Append(parsers[r], p) /\ \A q \in Reqs : q # r => parsers'[q] = parsers[q]
  BY DEF Shape
<1> QED
  BY <1>1, <1>2 DEF Shape

\* User code calls the first one.
LEMMA BeginFacts ==
  ASSUME Shape, NEW r \in Reqs, NEW p \in Parser,
         parsers' = [parsers EXCEPT ![r] = <<p>>]
  PROVE  /\ parsers' \in [Reqs -> Seq(Parser)]
         /\ \A q \in Reqs : q # r => parsers'[q] = parsers[q]
         /\ Len(parsers'[r]) = 1 /\ parsers'[r][1] = p
BY DEF Shape

Same(p, q) == p.key = q.key /\ p.class = q.class /\ p.obj = q.obj /\ p.pc = q.pc

LEMMA AskerFacts ==
  ASSUME NEW p \in Parser, NEW o \in Nat
  PROVE  LET more == [p EXCEPT !.i = @ + 1, !.args = @ \cup {o}]
             next == [p EXCEPT !.i = @ + 1]
         IN /\ more \in Parser /\ Same(more, p) /\ more.args = p.args \cup {o}
            /\ next \in Parser /\ Same(next, p) /\ next.args = p.args
<1>1. p.i + 1 \in Nat \ {0} /\ p.args \cup {o} \in SUBSET Nat
  BY DEF Parser
<1>2. [p EXCEPT !.i = @ + 1, !.args = @ \cup {o}] \in Parser /\ [p EXCEPT !.i = @ + 1] \in Parser
  BY <1>1 DEF Parser
<1>3. Same([p EXCEPT !.i = @ + 1, !.args = @ \cup {o}], p) /\ Same([p EXCEPT !.i = @ + 1], p)
  BY DEF Parser, Same
<1>4. [p EXCEPT !.i = @ + 1, !.args = @ \cup {o}].args = p.args \cup {o} /\ [p EXCEPT !.i = @ + 1].args = p.args
  BY DEF Parser
<1> QED
  BY <1>2, <1>3, <1>4

\* A parser returns: to the one below it, or to user code.
LEMMA ReturnFacts ==
  ASSUME Shape, NEW r \in Reqs, NEW p \in Parser, parsers[r] # <<>>, ReturnFrom(r, p)
  PROVE  LET n == Len(parsers[r])
         IN /\ parsers' \in [Reqs -> Seq(Parser)] /\ held' \in [Reqs -> SUBSET Nat] /\ n \in Nat /\ n > 0
            /\ \A q \in Reqs : q # r => parsers'[q] = parsers[q] /\ held'[q] = held[q]
            /\ Len(parsers'[r]) = n - 1
            /\ \A k \in 1 .. n - 2 : parsers'[r][k] = parsers[r][k]
            /\ n > 1 => /\ Same(parsers'[r][n - 1], parsers[r][n - 1])
                        /\ parsers'[r][n - 1].args \subseteq parsers[r][n - 1].args \cup {p.obj}
                        /\ held' = held
            /\ n = 1 => held'[r] = held[r] \cup {p.obj}
<1> DEFINE n == Len(parsers[r])
           rest == Pop(parsers[r])
           asker == Top(rest)
           after == IF asker.pc = "creating"
                    THEN [asker EXCEPT !.i = @ + 1, !.args = @ \cup {p.obj}]
                    ELSE [asker EXCEPT !.i = @ + 1]
<1>1. parsers[r] \in Seq(Parser) /\ n \in Nat /\ n > 0
  BY DEF Shape
<1>2. rest \in Seq(Parser) /\ Len(rest) = n - 1 /\ \A k \in 1 .. n - 1 : rest[k] = parsers[r][k]
  BY <1>1 DEF Pop
<1>3. CASE n = 1
  <2>1. rest = <<>>
    BY <1>2, <1>3
  <2>2. parsers' = [parsers EXCEPT ![r] = <<>>] /\ held' = [held EXCEPT ![r] = @ \cup {p.obj}]
    BY <2>1, Zenon DEF ReturnFrom
  <2>3. p.obj \in Nat
    BY DEF Parser
  <2> QED
    BY <1>1, <1>3, <2>2, <2>3 DEF Shape
<1>4. CASE n > 1
  <2>1. rest # <<>> /\ asker = parsers[r][n - 1] /\ asker \in Parser /\ Len(rest) = n - 1
    BY <1>1, <1>2, <1>4 DEF Top
  <2>2. parsers' = [parsers EXCEPT ![r] = SetTop(rest, after)] /\ held' = held
    <3>1. rest # <<>>
      BY <2>1
    <3> QED
      BY <3>1, Zenon DEF ReturnFrom
  <2>3. after \in Parser /\ Same(after, asker) /\ after.args \subseteq asker.args \cup {p.obj}
    <3>1. p.obj \in Nat
      BY DEF Parser
    <3> HIDE DEF asker
    <3> QED
      BY <2>1, <3>1, AskerFacts
  <2> HIDE DEF after, asker
  <2>4. SetTop(rest, after) \in Seq(Parser) /\ Len(SetTop(rest, after)) = n - 1
        /\ SetTop(rest, after)[n - 1] = after
        /\ \A k \in 1 .. n - 2 : SetTop(rest, after)[k] = rest[k]
    BY <1>1, <1>2, <1>4, <2>1, <2>3 DEF SetTop
  <2> HIDE DEF rest
  <2>5. parsers'[r] = SetTop(rest, after) /\ parsers' \in [Reqs -> Seq(Parser)]
        /\ \A q \in Reqs : q # r => parsers'[q] = parsers[q]
    BY <2>2, <2>4 DEF Shape
  <2>6. held' \in [Reqs -> SUBSET Nat] /\ \A q \in Reqs : q # r => parsers'[q] = parsers[q] /\ held'[q] = held[q]
    BY <2>2, <2>5 DEF Shape
  <2>7. Len(parsers'[r]) = n - 1 /\ \A k \in 1 .. n - 2 : parsers'[r][k] = parsers[r][k]
    BY <1>1, <1>2, <2>4, <2>5
  <2>8. parsers'[r][n - 1] = after /\ asker = parsers[r][n - 1]
    BY <2>1, <2>4, <2>5
  <2> QED
    BY <1>1, <1>4, <2>2, <2>3, <2>5, <2>6, <2>7, <2>8
<1>5. n = 1 \/ n > 1
  <2> HIDE DEF n
  <2> QED
    BY <1>1
<1> QED
  BY <1>3, <1>4, <1>5, Zenon

-----------------------------------------------------------------------------
(* Who refers to an object.  The records of a request and what it has made *)
(* but not recorded are its own; its parsers and user code reach others.   *)

TypeOf(p) == BindingOf(p.key).type
MakesOwn(p, o) == p.pc = "created" /\ TypeOf(p) # "Singleton" /\ p.obj = o
MakesShared(p, o) == p.pc = "created" /\ TypeOf(p) = "Singleton" /\ p.obj = o
Names(p, o) == o \in p.args \/ (p.pc # "creating" /\ p.obj = o)

Recorded(r, o) ==
  \/ \E i \in 1 .. Len(scoped[r]) : scoped[r][i].value = o
  \/ \E i \in 1 .. Len(transients[r]) : transients[r][i].value = o
Mine(r, o) == Recorded(r, o) \/ \E k \in 1 .. Len(parsers[r]) : MakesOwn(parsers[r][k], o)
Reaches(r, o) == o \in held[r] \/ \E k \in 1 .. Len(parsers[r]) : Names(parsers[r][k], o)
Shared(o) == \E i \in 1 .. Len(singletons) : singletons[i].value = o
Sharing(r, o) == \E k \in 1 .. Len(parsers[r]) : MakesShared(parsers[r][k], o)
IsGiven(o) == o \in 1 .. Len(Given)
GivenAsOwn(o) ==
  IsGiven(o) /\ \E key \in Keys : BindingOf(key).target.kind = "object" /\ BindingOf(key).type # "Singleton"

\* Nothing refers to an object that does not exist.
Bounded ==
  /\ Len(Given) <= Len(objs)
  /\ \A r \in Reqs : \A o \in Nat : Mine(r, o) \/ Reaches(r, o) => o \in 1 .. Len(objs)
  /\ \A o \in Nat : Shared(o) => o \in 1 .. Len(objs)
  /\ \A o \in 1 .. Len(objs) : \A u \in objs[o].uses : u \in 1 .. Len(objs)
  /\ \A r \in Reqs : \A i \in 1 .. Len(disposal[r].queue) : disposal[r].queue[i] \in 1 .. Len(objs)

IInv == Shape /\ Bounded

\* What one step of request r may do to the references.
Fresh(o) == o \in 1 .. Len(objs') /\ o \notin 1 .. Len(objs)
OtherStep(r) ==
  \A q \in Reqs : q # r => /\ parsers'[q] = parsers[q] /\ held'[q] = held[q]
                           /\ scoped'[q] = scoped[q] /\ transients'[q] = transients[q]
FrameStep(r, p) ==
  \A o \in Nat :
    /\ MakesOwn(p, o) => Mine(r, o) \/ Fresh(o) \/ GivenAsOwn(o)
    /\ MakesShared(p, o) => Sharing(r, o) \/ IsGiven(o) \/ Fresh(o)
    /\ Names(p, o) => Reaches(r, o) \/ Mine(r, o) \/ Shared(o) \/ IsGiven(o) \/ Fresh(o)
StackStep(r) ==
  /\ \A k \in 1 .. Len(parsers'[r]) : FrameStep(r, parsers'[r][k])
  /\ \A o \in held'[r] : Reaches(r, o)
HeapStep(r) ==
  /\ Len(objs) <= Len(objs')
  /\ \A o \in 1 .. Len(objs) : objs'[o].class = objs[o].class
  /\ \A o \in 1 .. Len(objs') : \A u \in objs'[o].uses :
       \/ o \in 1 .. Len(objs) /\ u \in objs[o].uses
       \/ (Fresh(o) \/ Reaches(r, o)) /\ Reaches(r, u)
  /\ \A o : Fresh(o) => \A j, k \in 1 .. Len(parsers'[r]) :
       MakesOwn(parsers'[r][j], o) => ~MakesShared(parsers'[r][k], o)
RecordStep(r) ==
  /\ \A o \in Nat : Recorded(r, o)' => Mine(r, o)
  /\ \A o \in Nat : Shared(o)' => Shared(o) \/ Sharing(r, o)
QueueStep ==
  \A q \in Reqs : \A i \in 1 .. Len(disposal'[q].queue) :
    LET o == disposal'[q].queue[i]
    IN \/ \E j \in 1 .. Len(disposal[q].queue) : disposal[q].queue[j] = o
       \/ Mine(q, o) \/ Shared(o)

LEMMA TypesOfShape ==
  ASSUME Shape, NEW r \in Reqs
  PROVE  /\ parsers[r] \in Seq(Parser) /\ Len(parsers[r]) \in Nat
         /\ scoped[r] \in Seq(Record) /\ Len(scoped[r]) \in Nat
         /\ transients[r] \in Seq(Record) /\ Len(transients[r]) \in Nat
         /\ held[r] \in SUBSET Nat
         /\ \A k \in 1 .. Len(parsers[r]) :
              parsers[r][k] \in Parser /\ parsers[r][k].obj \in Nat /\ parsers[r][k].args \in SUBSET Nat
              /\ parsers[r][k].key \in Keys /\ parsers[r][k].i \in Nat
<1>1. \A p \in Parser : p.obj \in Nat /\ p.args \in SUBSET Nat /\ p.key \in Keys /\ p.i \in Nat
  BY DEF Parser
<1>2. parsers[r] \in Seq(Parser)
  BY DEF Shape
<1>3. \A k \in 1 .. Len(parsers[r]) : parsers[r][k] \in Parser
  BY <1>2
<1> QED
  BY <1>1, <1>2, <1>3 DEF Shape

LEMMA OldFrame ==
  ASSUME Shape, NEW r \in Reqs, NEW p, NEW k \in 1 .. Len(parsers[r]), Same(p, parsers[r][k]),
         \A o \in p.args : Reaches(r, o)
  PROVE  FrameStep(r, p)
BY DEF FrameStep, Same, MakesOwn, MakesShared, Names, Mine, Reaches, Sharing, TypeOf

LEMMA UnchangedFrame ==
  ASSUME Shape, NEW r \in Reqs, NEW k \in 1 .. Len(parsers[r])
  PROVE  FrameStep(r, parsers[r][k])
<1>1. Same(parsers[r][k], parsers[r][k]) /\ \A o \in parsers[r][k].args : Reaches(r, o)
  BY DEF Same, Reaches, Names
<1> QED
  BY <1>1, OldFrame

\* Such a step keeps references within the heap.
LEMMA BoundedKept ==
  ASSUME IInv, Shape', NEW r \in Reqs,
         OtherStep(r), StackStep(r), HeapStep(r), RecordStep(r), QueueStep
  PROVE  Bounded'
<1> DEFINE n == Len(objs)
           m == Len(objs')
<1>1. n \in Nat /\ m \in Nat /\ n <= m /\ 1 .. n \subseteq 1 .. m
  <2>1. objs \in Seq(Obj) /\ objs' \in Seq(Obj)
    BY DEF IInv, Shape
  <2>2. n \in Nat /\ m \in Nat
    BY <2>1
  <2>3. n <= m
    BY DEF HeapStep
  <2> HIDE DEF n, m
  <2> QED
    BY <2>2, <2>3
<1>2. \A o \in Nat : Mine(r, o)' => o \in 1 .. m
  <2>1. \A o \in Nat : Mine(r, o)' => Mine(r, o) \/ Fresh(o) \/ GivenAsOwn(o)
    BY DEF Mine, StackStep, FrameStep, RecordStep
  <2>2. \A o : Fresh(o) \/ GivenAsOwn(o) => o \in 1 .. m
    BY <1>1 DEF Fresh, GivenAsOwn, IsGiven, IInv, Bounded
  <2> QED
    BY <1>1, <2>1, <2>2 DEF IInv, Bounded
<1>3. \A o \in Nat : Reaches(r, o)' => o \in 1 .. m
  <2>1. \A o \in Nat : Reaches(r, o)' => Reaches(r, o) \/ Mine(r, o) \/ Shared(o) \/ IsGiven(o) \/ Fresh(o)
    BY DEF Reaches, StackStep, FrameStep
  <2>2. \A o \in Nat : Fresh(o) \/ IsGiven(o) \/ Mine(r, o) \/ Reaches(r, o) \/ Shared(o) => o \in 1 .. m
    BY <1>1 DEF Fresh, IsGiven, IInv, Bounded
  <2> QED
    BY <2>1, <2>2
<1>4. \A q \in Reqs : q # r => \A o \in Nat : Mine(q, o)' \/ Reaches(q, o)' => o \in 1 .. m
  <2>1. \A q \in Reqs : q # r => \A o \in Nat : (Mine(q, o)' <=> Mine(q, o)) /\ (Reaches(q, o)' <=> Reaches(q, o))
    BY DEF OtherStep, Mine, Reaches, Recorded
  <2> QED
    BY <1>1, <2>1 DEF IInv, Bounded
<1>5. \A o \in Nat : Shared(o)' => o \in 1 .. m
  <2>1. \A o : Sharing(r, o) => Reaches(r, o)
    BY DEF Sharing, Reaches, MakesShared, Names
  <2> QED
    BY <1>1, <2>1 DEF RecordStep, IInv, Bounded
<1>6. ASSUME NEW o \in 1 .. m, NEW u \in objs'[o].uses PROVE u \in 1 .. m
  <2>1. u \in Nat
    <3>1. objs'[o] \in Obj
      BY DEF Shape
    <3> QED
      BY <3>1 DEF Obj
  <2> QED
    BY <1>1, <2>1 DEF HeapStep, IInv, Bounded
<1>7. ASSUME NEW q \in Reqs, NEW i \in 1 .. Len(disposal'[q].queue) PROVE disposal'[q].queue[i] \in 1 .. m
  <2>1. disposal'[q].queue[i] \in Nat
    <3>1. disposal'[q].queue \in Seq(Nat)
      BY DEF Shape
    <3> QED
      BY <3>1
  <2> QED
    BY <1>1, <2>1 DEF QueueStep, IInv, Bounded
<1>8. Len(Given) <= m
  BY <1>1 DEF IInv, Bounded, InjectAssumption
<1> QED
  BY <1>2, <1>3, <1>4, <1>5, <1>6, <1>7, <1>8 DEF Bounded

-----------------------------------------------------------------------------
(* Every action is such a step.                                            *)

StepOK(r) ==
  Shape' /\ OtherStep(r) /\ StackStep(r) /\ HeapStep(r) /\ RecordStep(r) /\ QueueStep

\* What assigning a property changes in the heap.
LEMMA AssignedFacts ==
  ASSUME IInv, NEW r \in Reqs, NEW p \in Parser, parsers[r] # <<>>,
         NEW heap \in Seq(Obj), Len(heap) = Len(objs)
  PROVE  LET h == Assigned(r, p, heap)
             n == Len(parsers[r])
         IN /\ h \in Seq(Obj) /\ Len(h) = Len(objs)
            /\ \A o \in 1 .. Len(objs) :
                 /\ h[o].class = heap[o].class /\ h[o].initializing = heap[o].initializing
                 /\ h[o].ready = heap[o].ready /\ h[o].disposals = heap[o].disposals
                 /\ \/ h[o].uses = heap[o].uses
                    \/ /\ n > 1 /\ parsers[r][n - 1].pc = "props" /\ parsers[r][n - 1].obj = o
                       /\ h[o].uses = heap[o].uses \cup {p.obj}
<1> DEFINE n == Len(parsers[r])
           rest == Pop(parsers[r])
           a == parsers[r][n - 1]
           x == [heap[a.obj] EXCEPT !.set = @ \cup {a.i}, !.uses = @ \cup {p.obj}]
<1>1. parsers[r] \in Seq(Parser) /\ n \in Nat /\ n > 0
  BY DEF IInv, Shape
<1>2. rest \in Seq(Parser) /\ Len(rest) = n - 1 /\ \A k \in 1 .. n - 1 : rest[k] = parsers[r][k]
  BY <1>1 DEF Pop
<1>3. CASE rest = <<>> \/ Top(rest).pc # "props"
  <2>1. Assigned(r, p, heap) = heap
    BY <1>3, Zenon DEF Assigned
  <2> QED
    BY <2>1
<1>4. CASE rest # <<>> /\ Top(rest).pc = "props"
  <2>1. n > 1 /\ Top(rest) = a /\ a.pc = "props" /\ a \in Parser
    BY <1>1, <1>2, <1>4 DEF Top
  <2>2. a.obj \in 1 .. Len(objs)
    <3>1. n - 1 \in 1 .. n
      BY <1>1, <2>1
    <3>2. a.obj \in Nat
      BY <2>1 DEF Parser
    <3>3. Names(a, a.obj)
      BY <2>1 DEF Names
    <3>4. Reaches(r, a.obj)
      BY <3>1, <3>3 DEF Reaches
    <3> QED
      BY <3>2, <3>4 DEF IInv, Bounded
  <2>3. Assigned(r, p, heap) = [heap EXCEPT ![a.obj].set = @ \cup {a.i}, ![a.obj].uses = @ \cup {p.obj}]
    <3> HIDE DEF a, rest
    <3>1. Assigned(r, p, heap) = [heap EXCEPT ![Top(rest).obj].set = @ \cup {Top(rest).i},
                                             ![Top(rest).obj].uses = @ \cup {p.obj}]
      BY <1>4, Zenon DEF Assigned, rest
    <3> QED
      BY <2>1, <3>1
  <2>4. heap[a.obj] \in Obj /\ a.i \in Nat /\ p.obj \in Nat
    <3>1. a.i \in Nat /\ p.obj \in Nat
      BY <2>1 DEF Parser
    <3> QED
      BY <2>2, <3>1
  <2>5. x \in Obj /\ x.uses = heap[a.obj].uses \cup {p.obj} /\ x.class = heap[a.obj].class
        /\ x.initializing = heap[a.obj].initializing /\ x.ready = heap[a.obj].ready
        /\ x.disposals = heap[a.obj].disposals
    <3> HIDE DEF a
    <3> QED
      BY <2>4 DEF Obj
  <2>6. Assigned(r, p, heap) = [heap EXCEPT ![a.obj] = x]
    <3> HIDE DEF a
    <3> QED
      BY <2>2, <2>3, <2>4 DEF Obj
  <2> HIDE DEF x
  <2>7. [heap EXCEPT ![a.obj] = x] \in Seq(Obj) /\ Len([heap EXCEPT ![a.obj] = x]) = Len(objs)
        /\ \A o \in 1 .. Len(objs) : [heap EXCEPT ![a.obj] = x][o] = IF o = a.obj THEN x ELSE heap[o]
    <3> HIDE DEF a
    <3> QED
      BY <2>2, <2>5
  <2> HIDE DEF a
  <2> QED
    BY <2>1, <2>5, <2>6, <2>7 DEF a
<1> QED
  BY <1>3, <1>4

\* What is in a record belongs to the request, or to all of them.
LEMMA RecordsReach ==
  ASSUME IInv, NEW r \in Reqs, NEW type, NEW i \in DOMAIN Records(r, type)
  PROVE  Recorded(r, Records(r, type)[i].value) \/ Shared(Records(r, type)[i].value)
<1>1. scoped[r] \in Seq(Record) /\ singletons \in Seq(Record)
  BY DEF IInv, Shape
<1>2. DOMAIN scoped[r] = 1 .. Len(scoped[r]) /\ DOMAIN singletons = 1 .. Len(singletons)
  BY <1>1
<1>3. CASE type = "Singleton"
  BY <1>2, <1>3 DEF Records, Shared
<1>4. CASE type = "Scoped"
  BY <1>2, <1>4 DEF Records, Recorded
<1>5. CASE type \notin {"Singleton", "Scoped"}
  <2>1. Records(r, type) = <<>>
    BY <1>5, Zenon DEF Records
  <2> QED
    BY <2>1
<1> QED
  BY <1>3, <1>4, <1>5

LEMMA ExistingFacts ==
  ASSUME Shape, NEW r \in Reqs, NEW key \in Keys, Exists(r, key)
  PROVE  LET records == Records(r, BindingOf(key).type)
         IN \E i \in DOMAIN records : records[i].key = key /\ Existing(r, key) = records[i].value
<1> DEFINE records == Records(r, BindingOf(key).type)
<1>1. records \in Seq(Record)
  BY RecordsFacts
<1>2. \E i \in DOMAIN records : records[i].key = key
  BY Zenon DEF Exists
<1>3. \E i \in DOMAIN records : records[i].key = key /\ \A j \in 1 .. i - 1 : records[j].key # key
  BY <1>1, <1>2, FirstRecord
<1> QED
  BY <1>3, Zenon DEF Existing

\* A parser that begins knows what a record has.
LEMMA ParsedFrame ==
  ASSUME InjectAssumption, IInv, NEW r \in Reqs, NEW key \in Keys
  PROVE  FrameStep(r, Parse(r, key))
<1> DEFINE p == Parse(r, key)
           records == Records(r, BindingOf(key).type)
<1>1. /\ p.args = {}
      /\ \/ p.pc = "creating"
         \/ p.pc = "found" /\ \E i \in DOMAIN records : records[i].key = key /\ records[i].value = p.obj
  <2>1. Shape
    BY DEF IInv
  <2> QED
    BY <2>1, ParseFacts
<1>2. ASSUME NEW i \in DOMAIN records
      PROVE  Recorded(r, records[i].value) \/ Shared(records[i].value)
  BY RecordsReach
<1> HIDE DEF p, records
<1> QED
  BY <1>1, <1>2 DEF FrameStep, MakesOwn, MakesShared, Names, Mine, p

\* The heap grows by nothing, and no object is assigned to another.
LEMMA SameUses ==
  ASSUME NEW r \in Reqs, objs \in Seq(Obj), objs' \in Seq(Obj), Len(objs') = Len(objs),
         \A o \in 1 .. Len(objs) : objs'[o].uses = objs[o].uses /\ objs'[o].class = objs[o].class
  PROVE  HeapStep(r)
BY DEF HeapStep, Fresh

LEMMA SameHeap ==
  ASSUME IInv, NEW r \in Reqs, UNCHANGED objs
  PROVE  HeapStep(r)
BY DEF HeapStep, IInv, Shape, Fresh

LEMMA SameRecords ==
  ASSUME NEW r \in Reqs, UNCHANGED <<singletons, scoped, transients>>
  PROVE  RecordStep(r)
BY DEF RecordStep, Recorded, Mine, Shared

LEMMA SameQueue ==
  ASSUME UNCHANGED disposal
  PROVE  QueueStep
BY DEF QueueStep

LEMMA SameStack ==
  ASSUME IInv, NEW r \in Reqs, UNCHANGED <<parsers, held>>
  PROVE  StackStep(r)
<1>1. Shape
  BY DEF IInv
<1> QED
  BY <1>1, UnchangedFrame DEF StackStep, Reaches

\* Requests that begin, leave and end touch no object.
LEMMA BeginStep ==
  ASSUME IInv, NEW r \in Reqs, Begin(r)
  PROVE  StepOK(r)
<1> USE DEF Begin
<1>1. Shape'
  BY DEF IInv, Shape
<1>2. OtherStep(r)
  BY DEF OtherStep
<1> QED
  BY <1>1, <1>2, SameStack, SameHeap, SameRecords, SameQueue DEF StepOK

LEMMA LeaveStep ==
  ASSUME InjectAssumption, IInv, NEW r \in Reqs, Leave(r)
  PROVE  StepOK(r)
<1> USE DEF Leave
<1>1. disposal' \in [Reqs -> [at : 0 .. Len(Binds), queue : Seq(Nat)]]
      /\ \A q \in Reqs : disposal'[q].queue = disposal[q].queue
  <2>1. disposal' = [disposal EXCEPT ![r].at = Len(Binds)] /\ Len(Binds) \in 0 .. Len(Binds)
    BY DEF InjectAssumption
  <2>2. disposal \in [Reqs -> [at : 0 .. Len(Binds), queue : Seq(Nat)]]
    BY DEF IInv, Shape
  <2> HIDE DEF Leave
  <2> QED
    BY <2>1, <2>2
<1>2. Shape'
  BY <1>1 DEF IInv, Shape
<1>3. OtherStep(r)
  BY DEF OtherStep
<1>4. QueueStep
  BY <1>1 DEF QueueStep
<1> QED
  BY <1>2, <1>3, <1>4, SameStack, SameHeap, SameRecords DEF StepOK

LEMMA FinishStep ==
  ASSUME IInv, NEW r \in Reqs, Finish(r)
  PROVE  StepOK(r)
<1> USE DEF Finish
<1>1. Shape'
  BY DEF IInv, Shape
<1>2. OtherStep(r)
  BY DEF OtherStep
<1> QED
  BY <1>1, <1>2, SameStack, SameHeap, SameRecords, SameQueue DEF StepOK

\* What dispose() is about to be called on.
LEMMA ToDisposeFacts ==
  ASSUME InjectAssumption, IInv, NEW r \in Reqs, NEW b \in Binding
  PROVE  /\ ToDispose(r, b) \in Seq(Nat)
         /\ \A i \in 1 .. Len(ToDispose(r, b)) : Recorded(r, ToDispose(r, b)[i]) \/ Shared(ToDispose(r, b)[i])
<1>1. b.anestor \in Keys /\ b.type \in Types
  BY DEF Binding
<1>2. CASE b.type = "Scoped" /\ Exists(r, b.anestor)
  <2> DEFINE e == Existing(r, b.anestor)
             records == Records(r, BindingOf(b.anestor).type)
  <2>1. ToDispose(r, b) = <<e>>
    BY <1>2, Zenon DEF ToDispose
  <2>2. Shape
    BY DEF IInv
  <2>3. PICK i \in DOMAIN records : e = records[i].value
    BY <1>1, <1>2, <2>2, ExistingFacts
  <2>4. records \in Seq(Record)
    BY <2>2, RecordsFacts
  <2>5. e \in Nat
    <3> HIDE DEF records, e
    <3>1. records[i] \in Record
      BY <2>4
    <3> QED
      BY <2>3, <3>1 DEF Record
  <2>6. Recorded(r, e) \/ Shared(e)
    BY <2>3, RecordsReach
  <2> HIDE DEF e
  <2> QED
    BY <2>1, <2>5, <2>6
<1>3. CASE b.type = "Transient"
  <2>1. ToDispose(r, b) = ValuesOf(transients[r], b.anestor)
    BY <1>3 DEF ToDispose
  <2>2. transients[r] \in Seq(Record)
    BY DEF IInv, Shape
  <2> DEFINE v == ValuesOf(transients[r], b.anestor)
  <2>3. Collected(v, transients[r], b.anestor, Len(transients[r]))
    BY <2>2, ValuesFacts
  <2> HIDE DEF v
  <2>4. v \in Seq(Nat) /\ \A i \in 1 .. Len(v) : Recorded(r, v[i])
    BY <2>3 DEF Collected, Recorded
  <2> QED
    BY <2>1, <2>4 DEF v
<1>4. CASE b.type = "Singleton" \/ (b.type = "Scoped" /\ ~Exists(r, b.anestor))
  <2>1. ToDispose(r, b) = <<>>
    BY <1>4 DEF ToDispose
  <2> QED
    BY <2>1
<1> QED
  BY <1>1, <1>2, <1>3, <1>4 DEF Types

LEMMA CallDisposeFacts ==
  ASSUME IInv, NEW r \in Reqs, NEW at \in 0 .. Len(Binds), NEW queue \in Seq(Nat),
         \A i \in 1 .. Len(queue) : queue[i] \in 1 .. Len(objs),
         CallDispose(r, at, queue)
  PROVE  /\ objs' \in Seq(Obj) /\ Len(objs') = Len(objs) /\ HeapStep(r)
         /\ disposal' \in [Reqs -> [at : 0 .. Len(Binds), queue : Seq(Nat)]]
         /\ \A q \in Reqs : disposal'[q] = IF q = r THEN [at |-> at, queue |-> queue] ELSE disposal[q]
<1>1. objs \in Seq(Obj) /\ disposal \in [Reqs -> [at : 0 .. Len(Binds), queue : Seq(Nat)]]
  BY DEF IInv, Shape
<1>2. disposal' = [disposal EXCEPT ![r] = [at |-> at, queue |-> queue]]
  BY Zenon DEF CallDispose
<1>3. disposal' \in [Reqs -> [at : 0 .. Len(Binds), queue : Seq(Nat)]]
      /\ \A q \in Reqs : disposal'[q] = IF q = r THEN [at |-> at, queue |-> queue] ELSE disposal[q]
  BY <1>1, <1>2
<1>4. CASE queue = <<>>
  <2>1. objs' = objs
    BY <1>4, Zenon DEF CallDispose
  <2> QED
    BY <1>1, <1>3, <2>1, SameUses
<1>5. CASE queue # <<>>
  <2> DEFINE h == Head(queue)
             x == [objs[h] EXCEPT !.disposals = @ + 1]
  <2>1. objs' = [objs EXCEPT ![h].disposals = @ + 1]
    BY <1>5, Zenon DEF CallDispose
  <2>2. h \in 1 .. Len(objs)
    BY <1>5
  <2>3. objs[h] \in Obj
    BY <1>1, <2>2
  <2> HIDE DEF h
  <2>4. x \in Obj /\ x.uses = objs[h].uses /\ x.class = objs[h].class
    <3>1. objs[h].disposals + 1 \in Nat
      BY <2>3 DEF Obj
    <3> QED
      BY <2>3, <3>1 DEF Obj
  <2>5. objs' = [objs EXCEPT ![h] = x]
    BY <1>1, <2>1, <2>2, <2>3 DEF Obj
  <2> HIDE DEF x
  <2>6. objs' \in Seq(Obj) /\ Len(objs') = Len(objs) /\ \A o \in 1 .. Len(objs) : objs'[o].uses = objs[o].uses /\ objs'[o].class = objs[o].class
    BY <1>1, <2>2, <2>4, <2>5
  <2> QED
    BY <1>1, <1>3, <2>6, SameUses
<1> QED
  BY <1>4, <1>5

\* Disposal reads the records and calls, one object after the other.
LEMMA DisposalStep ==
  ASSUME InjectAssumption, IInv, NEW r \in Reqs, NEW at \in 0 .. Len(Binds), NEW queue \in Seq(Nat),
         \A i \in 1 .. Len(queue) :
           \/ \E j \in 1 .. Len(disposal[r].queue) : disposal[r].queue[j] = queue[i]
           \/ Recorded(r, queue[i]) \/ Shared(queue[i]),
         CallDispose(r, at, queue),
         UNCHANGED <<singletons, scoped, transients, phase, parsers, held, parses, thrown>>
  PROVE  StepOK(r)
<1>1. \A i \in 1 .. Len(queue) : queue[i] \in 1 .. Len(objs)
  <2> SUFFICES ASSUME NEW i \in 1 .. Len(queue)
               PROVE  queue[i] \in 1 .. Len(objs)
    OBVIOUS
  <2>1. queue[i] \in Nat
    OBVIOUS
  <2>2. Recorded(r, queue[i]) => Mine(r, queue[i])
    BY DEF Mine
  <2>3. Bounded
    BY DEF IInv
  <2>4. CASE \E j \in 1 .. Len(disposal[r].queue) : disposal[r].queue[j] = queue[i]
    BY <2>1, <2>3, <2>4 DEF Bounded
  <2>5. CASE Recorded(r, queue[i]) \/ Shared(queue[i])
    BY <2>1, <2>2, <2>3, <2>5 DEF Bounded
  <2> QED
    BY <2>4, <2>5
<1>2. /\ objs' \in Seq(Obj) /\ Len(objs') = Len(objs) /\ HeapStep(r)
      /\ disposal' \in [Reqs -> [at : 0 .. Len(Binds), queue : Seq(Nat)]]
      /\ \A q \in Reqs : disposal'[q] = IF q = r THEN [at |-> at, queue |-> queue] ELSE disposal[q]
  BY <1>1, CallDisposeFacts, ZenonT(60)
<1>3. Shape'
  BY <1>2 DEF IInv, Shape
<1>4. OtherStep(r)
  BY DEF OtherStep
<1>5. QueueStep
  <2>1. ASSUME NEW i \in 1 .. Len(queue)
        PROVE  \/ \E j \in 1 .. Len(disposal[r].queue) : disposal[r].queue[j] = queue[i]
               \/ Mine(r, queue[i]) \/ Shared(queue[i])
    BY DEF Mine
  <2>2. disposal'[r].queue = queue /\ \A q \in Reqs : q # r => disposal'[q] = disposal[q]
    BY <1>2
  <2> QED
    BY <2>1, <2>2 DEF QueueStep
<1> QED
  BY <1>2, <1>3, <1>4, <1>5, SameStack, SameRecords DEF StepOK

LEMMA UnwindStep ==
  ASSUME InjectAssumption, IInv, NEW r \in Reqs, Unwind(r)
  PROVE  StepOK(r)
<1> DEFINE at == disposal[r].at
<1>1. at \in 0 .. Len(Binds) /\ at > 0 /\ Len(Binds) \in Nat /\ Binds \in Seq(Binding)
  BY DEF IInv, Shape, Unwind, InjectAssumption
<1>2. Binds[at] \in Binding /\ at - 1 \in 0 .. Len(Binds)
  <2> HIDE DEF at
  <2> QED
    BY <1>1
<1>3. CallDispose(r, at - 1, ToDispose(r, Binds[at]))
      /\ UNCHANGED <<singletons, scoped, transients, phase, parsers, held, parses, thrown>>
  BY DEF Unwind
<1> HIDE DEF at
<1> QED
  BY <1>2, <1>3, ToDisposeFacts, DisposalStep

LEMMA DisposeNextStep ==
  ASSUME InjectAssumption, IInv, NEW r \in Reqs, DisposeNext(r)
  PROVE  StepOK(r)
<1> DEFINE queue == disposal[r].queue
<1>1. disposal[r].at \in 0 .. Len(Binds) /\ queue \in Seq(Nat) /\ queue # <<>>
  BY DEF IInv, Shape, DisposeNext
<1>2. Tail(queue) \in Seq(Nat) /\ \A i \in 1 .. Len(Tail(queue)) : \E j \in 1 .. Len(queue) : queue[j] = Tail(queue)[i]
  <2> HIDE DEF queue
  <2>1. Len(Tail(queue)) = Len(queue) - 1 /\ \A i \in 1 .. Len(Tail(queue)) : Tail(queue)[i] = queue[i + 1]
    BY <1>1
  <2> QED
    BY <1>1, <2>1
<1>3. CallDispose(r, disposal[r].at, Tail(queue))
      /\ UNCHANGED <<singletons, scoped, transients, phase, parsers, held, parses, thrown>>
  BY DEF DisposeNext
<1> QED
  BY <1>1, <1>2, <1>3, DisposalStep

LEMMA DisposeFailsStep ==
  ASSUME InjectAssumption, IInv, NEW r \in Reqs, DisposeFails(r)
  PROVE  StepOK(r)
<1> USE DEF DisposeFails
<1>1. disposal \in [Reqs -> [at : 0 .. Len(Binds), queue : Seq(Nat)]] /\ thrown \in [Reqs -> Nat]
  BY DEF IInv, Shape
<1>2. disposal' \in [Reqs -> [at : 0 .. Len(Binds), queue : Seq(Nat)]]
      /\ \A q \in Reqs : disposal'[q].queue = IF q = r THEN <<>> ELSE disposal[q].queue
  <2>1. disposal' = [disposal EXCEPT ![r].queue = <<>>] /\ <<>> \in Seq(Nat)
    OBVIOUS
  <2> HIDE DEF DisposeFails
  <2> QED
    BY <1>1, <2>1
<1>3. Shape'
  <2>1. thrown' \in [Reqs -> Nat]
    BY <1>1
  <2> QED
    BY <1>2, <2>1 DEF IInv, Shape
<1>4. OtherStep(r)
  BY DEF OtherStep
<1>5. QueueStep
  <2>1. ASSUME NEW q \in Reqs, NEW i \in 1 .. Len(disposal'[q].queue)
        PROVE  \E j \in 1 .. Len(disposal[q].queue) : disposal[q].queue[j] = disposal'[q].queue[i]
    BY <1>2, <2>1
  <2> QED
    BY <2>1 DEF QueueStep
<1> QED
  BY <1>3, <1>4, <1>5, SameStack, SameHeap, SameRecords DEF StepOK

-----------------------------------------------------------------------------
(* The actions of the parsers.                                             *)

LEMMA TopFacts ==
  ASSUME Shape, NEW r \in Reqs, NEW pc, At(r, pc)
  PROVE  LET n == Len(parsers[r])
             p == Top(parsers[r])
         IN /\ parsers[r] # <<>> /\ n \in Nat /\ n \in 1 .. n /\ p = parsers[r][n]
            /\ p \in Parser /\ p.pc = pc /\ p.key \in Keys /\ p.obj \in Nat /\ p.args \in SUBSET Nat
            /\ p.i \in Nat \ {0} /\ p.class \in Classes \cup {"none"}
            /\ p.args \in SUBSET {o \in Nat : Reaches(r, o)}
            /\ pc # "creating" => Reaches(r, p.obj)
<1> DEFINE n == Len(parsers[r])
           p == Top(parsers[r])
<1>1. parsers[r] \in Seq(Parser) /\ parsers[r] # <<>> /\ p.pc = pc
  BY DEF Shape, At
<1>2. n \in Nat /\ n \in 1 .. n /\ p = parsers[r][n] /\ p \in Parser
  BY <1>1 DEF Top
<1>3. p.key \in Keys /\ p.obj \in Nat /\ p.args \in SUBSET Nat /\ p.i \in Nat \ {0} /\ p.class \in Classes \cup {"none"}
  <2> HIDE DEF p
  <2> QED
    BY <1>2 DEF Parser
<1>4. \A o : Names(p, o) => Reaches(r, o)
  <2> HIDE DEF p
  <2> QED
    BY <1>2 DEF Reaches
<1> HIDE DEF p
<1> QED
  BY <1>1, <1>2, <1>3, <1>4 DEF Names, p

\* The parser on top goes on.
LEMMA GoStep ==
  ASSUME IInv, NEW r \in Reqs, NEW p \in Parser, FrameStep(r, p), parsers[r] # <<>>, Go(r, p), UNCHANGED held
  PROVE  /\ parsers' \in [Reqs -> Seq(Parser)] /\ StackStep(r)
         /\ \A q \in Reqs : q # r => parsers'[q] = parsers[q]
<1> DEFINE n == Len(parsers[r])
<1>1. Shape
  BY DEF IInv
<1>2. /\ parsers' \in [Reqs -> Seq(Parser)] /\ n \in Nat /\ n > 0
      /\ \A q \in Reqs : q # r => parsers'[q] = parsers[q]
      /\ Len(parsers'[r]) = n /\ parsers'[r][n] = p
      /\ \A k \in 1 .. n - 1 : parsers'[r][k] = parsers[r][k]
  BY <1>1, GoFacts
<1>3. \A k \in 1 .. n - 1 : FrameStep(r, parsers[r][k])
  BY <1>1, <1>2, UnchangedFrame
<1> HIDE DEF n
<1>4. \A k \in 1 .. Len(parsers'[r]) : FrameStep(r, parsers'[r][k])
  <2>1. \A k \in 1 .. n : k = n \/ k \in 1 .. n - 1
    BY <1>2
  <2> QED
    BY <1>2, <1>3, <2>1
<1> QED
  BY <1>2, <1>4 DEF StackStep, Reaches

\* A parser returns what it reaches.
LEMMA ReturnStep ==
  ASSUME IInv, NEW r \in Reqs, NEW p \in Parser, Reaches(r, p.obj), parsers[r] # <<>>, ReturnFrom(r, p)
  PROVE  /\ parsers' \in [Reqs -> Seq(Parser)] /\ held' \in [Reqs -> SUBSET Nat] /\ StackStep(r)
         /\ \A q \in Reqs : q # r => parsers'[q] = parsers[q] /\ held'[q] = held[q]
<1> DEFINE n == Len(parsers[r])
<1>1. Shape
  BY DEF IInv
<1>2. /\ parsers' \in [Reqs -> Seq(Parser)] /\ held' \in [Reqs -> SUBSET Nat] /\ n \in Nat /\ n > 0
      /\ \A q \in Reqs : q # r => parsers'[q] = parsers[q] /\ held'[q] = held[q]
      /\ Len(parsers'[r]) = n - 1
      /\ \A k \in 1 .. n - 2 : parsers'[r][k] = parsers[r][k]
      /\ n > 1 => /\ Same(parsers'[r][n - 1], parsers[r][n - 1])
                  /\ parsers'[r][n - 1].args \subseteq parsers[r][n - 1].args \cup {p.obj}
                  /\ held' = held
      /\ n = 1 => held'[r] = held[r] \cup {p.obj}
  BY <1>1, ReturnFacts
<1> HIDE DEF n
<1>3. \A k \in 1 .. n - 2 : FrameStep(r, parsers'[r][k])
  <2>1. \A k \in 1 .. n - 2 : k \in 1 .. n
    BY <1>2
  <2> QED
    BY <1>1, <1>2, <2>1, UnchangedFrame DEF n
<1>4. n > 1 => FrameStep(r, parsers'[r][n - 1])
  <2>1. n > 1 => n - 1 \in 1 .. n
    BY <1>2
  <2>2. ASSUME n > 1 PROVE \A o \in parsers'[r][n - 1].args : Reaches(r, o)
    <3>1. \A o \in parsers[r][n - 1].args : Reaches(r, o)
      BY <2>1, <2>2 DEF n, Reaches, Names
    <3> QED
      BY <1>2, <2>2, <3>1
  <2> QED
    BY <1>1, <1>2, <2>1, <2>2, OldFrame DEF n
<1>5. \A k \in 1 .. Len(parsers'[r]) : FrameStep(r, parsers'[r][k])
  <2>1. \A k \in 1 .. n - 1 : k \in 1 .. n - 2 \/ (n > 1 /\ k = n - 1)
    BY <1>2
  <2> QED
    BY <1>2, <1>3, <1>4, <2>1
<1>6. \A o \in held'[r] : Reaches(r, o)
  <2>1. n = 1 \/ n > 1
    BY <1>2
  <2> QED
    BY <1>2, <2>1 DEF Reaches
<1> QED
  BY <1>2, <1>5, <1>6 DEF StackStep

\* The first parser of a call of user code.
LEMMA FirstStep ==
  ASSUME IInv, NEW r \in Reqs, NEW p \in Parser, FrameStep(r, p),
         parsers' = [parsers EXCEPT ![r] = <<p>>], parses' = [parses EXCEPT ![r] = @ + 1],
         UNCHANGED <<objs, singletons, scoped, transients, phase, disposal, held, thrown>>
  PROVE  StepOK(r)
<1>1. Shape
  BY DEF IInv
<1>2. /\ parsers' \in [Reqs -> Seq(Parser)]
      /\ \A q \in Reqs : q # r => parsers'[q] = parsers[q]
      /\ Len(parsers'[r]) = 1 /\ parsers'[r][1] = p
  BY <1>1, BeginFacts
<1>3. Shape'
  <2>1. parses' \in [Reqs -> Nat]
    BY <1>1 DEF Shape
  <2> QED
    BY <1>1, <1>2, <2>1 DEF Shape
<1>4. OtherStep(r)
  BY <1>2 DEF OtherStep
<1>5. StackStep(r)
  BY <1>2 DEF StackStep, Reaches
<1> QED
  BY <1>3, <1>4, <1>5, SameHeap, SameRecords, SameQueue DEF StepOK

LEMMA ParseKeyStep ==
  ASSUME InjectAssumption, IInv, NEW r \in Reqs, ParseKey(r)
  PROVE  StepOK(r)
<1>1. PICK key \in Wanted : parsers' = [parsers EXCEPT ![r] = <<Parse(r, key)>>]
  BY DEF ParseKey
<1>2. key \in Keys /\ Shape
  BY DEF InjectAssumption, IInv
<1>3. Parse(r, key) \in Parser /\ FrameStep(r, Parse(r, key))
  BY <1>2, ParseFacts, ParsedFrame
<1>4. parses' = [parses EXCEPT ![r] = @ + 1]
      /\ UNCHANGED <<objs, singletons, scoped, transients, phase, disposal, held, thrown>>
  BY DEF ParseKey
<1> QED
  BY <1>1, <1>3, <1>4, FirstStep

LEMMA ParseInstanceStep ==
  ASSUME InjectAssumption, IInv, NEW r \in Reqs, ParseInstance(r)
  PROVE  StepOK(r)
<1>1. PICK o \in Instances :
        parsers' = [parsers EXCEPT ![r] =
          <<[key |-> objs[o].class, class |-> objs[o].class, obj |-> o, pc |-> "found", i |-> 1, args |-> {}]>>]
  BY DEF ParseInstance
<1> DEFINE c == objs[o].class
           p == [key |-> c, class |-> c, obj |-> o, pc |-> "found", i |-> 1, args |-> {}]
<1>2. o \in 1 .. Len(Given) /\ o \in Nat
  BY DEF InjectAssumption
<1>3. c \in Classes /\ c \in Keys
  <2>1. o \in 1 .. Len(objs)
    BY <1>2 DEF IInv, Shape, Bounded, InjectAssumption
  <2>2. objs[o] \in Obj
    BY <2>1 DEF IInv, Shape
  <2> QED
    BY <2>2 DEF Obj, InjectAssumption
<1> HIDE DEF c
<1>4. p \in Parser
  BY <1>2, <1>3 DEF Parser, PCs
<1>5. FrameStep(r, p)
  BY <1>2 DEF FrameStep, MakesOwn, MakesShared, Names, IsGiven
<1>6. parses' = [parses EXCEPT ![r] = @ + 1]
      /\ UNCHANGED <<objs, singletons, scoped, transients, phase, disposal, held, thrown>>
  BY DEF ParseInstance
<1>7. parsers' = [parsers EXCEPT ![r] = <<p>>]
  BY <1>1 DEF c
<1> HIDE DEF p
<1> QED
  BY <1>4, <1>5, <1>6, <1>7, FirstStep

\* A parser asks for an argument or a property.
LEMMA PushStep ==
  ASSUME InjectAssumption, IInv, NEW r \in Reqs, NEW key \in Keys,
         parsers' = [parsers EXCEPT ![r] = Append(@, Parse(r, key))],
         UNCHANGED <<objs, singletons, scoped, transients, phase, disposal, held, parses, thrown>>
  PROVE  StepOK(r)
<1> DEFINE n == Len(parsers[r])
           p == Parse(r, key)
<1>1. Shape
  BY DEF IInv
<1>2. p \in Parser /\ FrameStep(r, p)
  BY <1>1, ParseFacts, ParsedFrame
<1> HIDE DEF p
<1>3. /\ parsers' \in [Reqs -> Seq(Parser)] /\ n \in Nat
      /\ \A q \in Reqs : q # r => parsers'[q] = parsers[q]
      /\ Len(parsers'[r]) = n + 1 /\ parsers'[r][n + 1] = p
      /\ \A k \in 1 .. n : parsers'[r][k] = parsers[r][k]
  BY <1>1, <1>2, CallFacts DEF p
<1>4. Shape'
  BY <1>1, <1>3 DEF Shape
<1>5. OtherStep(r)
  BY <1>3 DEF OtherStep
<1>6. StackStep(r)
  <2>1. \A k \in 1 .. n : FrameStep(r, parsers[r][k])
    BY <1>1, UnchangedFrame
  <2> HIDE DEF n
  <2>2. \A k \in 1 .. n + 1 : k \in 1 .. n \/ k = n + 1
    BY <1>3
  <2> QED
    BY <1>2, <1>3, <2>1, <2>2 DEF StackStep, Reaches
<1> QED
  BY <1>4, <1>5, <1>6, SameHeap, SameRecords, SameQueue DEF StepOK

LEMMA ParseArgStep ==
  ASSUME InjectAssumption, IInv, NEW r \in Reqs, ParseArg(r)
  PROVE  StepOK(r)
<1> DEFINE p == Top(parsers[r])
           t == TargetOf(p)
<1>1. p.key \in Keys /\ p.i \in Nat \ {0} => Args[t.of][p.i] \in Keys
  <2> SUFFICES ASSUME p.key \in Keys, p.i \in Nat \ {0} PROVE Args[t.of][p.i] \in Keys
    OBVIOUS
  <2>1. t.kind = "class" /\ p.i <= Len(Args[t.of])
    BY DEF ParseArg
  <2>2. t \in Target
    BY BindingFacts DEF TargetOf, Binding
  <2>3. t.of \in Classes
    <3> HIDE DEF t
    <3> QED
      BY <2>1, <2>2 DEF Target
  <2>4. Args[t.of] \in Seq(Keys)
    BY <2>3 DEF InjectAssumption
  <2> HIDE DEF t
  <2> HIDE DEF p
  <2> QED
    BY <2>1, <2>4
<1>2. Shape /\ At(r, "creating")
  BY DEF IInv, ParseArg
<1>3. p.key \in Keys /\ p.i \in Nat \ {0}
  BY <1>2, TopFacts
<1>4. /\ parsers' = [parsers EXCEPT ![r] = Append(@, Parse(r, Args[t.of][p.i]))]
      /\ UNCHANGED <<objs, singletons, scoped, transients, phase, disposal, held, parses, thrown>>
  BY DEF ParseArg
<1> QED
  BY <1>1, <1>3, <1>4, PushStep

LEMMA ParsePropStep ==
  ASSUME InjectAssumption, IInv, NEW r \in Reqs, ParseProp(r)
  PROVE  StepOK(r)
<1> DEFINE p == Top(parsers[r])
<1>1. Shape /\ At(r, "props")
  BY DEF IInv, ParseProp
<1>2. p.i \in Nat \ {0} /\ p.obj \in Nat /\ p.class \in Classes \cup {"none"} /\ Reaches(r, p.obj)
  BY <1>1, TopFacts
<1>3. p.i <= Len(PropsOf(p))
      /\ parsers' = [parsers EXCEPT ![r] = Append(@, Parse(r, PropsOf(p)[p.i]))]
      /\ UNCHANGED <<objs, singletons, scoped, transients, phase, disposal, held, parses, thrown>>
  BY DEF ParseProp
<1>4. PropsOf(p) \in Seq(Keys)
  <2>1. p.obj \in 1 .. Len(objs)
    BY <1>2 DEF IInv, Bounded
  <2>2. objs[p.obj].class \in Classes
    <3> HIDE DEF p
    <3>1. objs[p.obj] \in Obj
      BY <2>1 DEF IInv, Shape
    <3> QED
      BY <3>1 DEF Obj
  <2> HIDE DEF p
  <2> QED
    BY <1>2, <2>2 DEF PropsOf, InjectAssumption
<1>5. PropsOf(p)[p.i] \in Keys
  <2> HIDE DEF p
  <2> QED
    BY <1>2, <1>3, <1>4
<1> QED
  BY <1>3, <1>5, PushStep

\* Same fields but for those a step sets.
LEMMA PlaceUpdated ==
  ASSUME NEW p \in Parser, NEW pc \in PCs, NEW q, q = [p EXCEPT !.pc = pc]
  PROVE  q \in Parser /\ q.pc = pc /\ q.key = p.key /\ q.class = p.class /\ q.obj = p.obj /\ q.args = p.args
BY DEF Parser

LEMMA CounterUpdated ==
  ASSUME NEW p \in Parser, NEW q, q = [p EXCEPT !.pc = "props", !.i = 1]
  PROVE  q \in Parser /\ q.pc = "props" /\ q.key = p.key /\ q.class = p.class /\ q.obj = p.obj /\ q.args = p.args
<1>1. "props" \in PCs /\ 1 \in Nat \ {0}
  BY DEF PCs
<1> QED
  BY <1>1 DEF Parser

\* A parser that has its object and goes on with it.
LEMMA AfterFrame ==
  ASSUME IInv, NEW r \in Reqs, NEW pc, At(r, pc), pc # "creating", NEW p,
         p.obj = Top(parsers[r]).obj, p.args = Top(parsers[r]).args, p.pc \notin {"creating", "created"}
  PROVE  FrameStep(r, p)
<1>1. Shape
  BY DEF IInv
<1>2. Reaches(r, p.obj) /\ \A o \in p.args : Reaches(r, o)
  BY <1>1, TopFacts
<1> QED
  BY <1>2 DEF FrameStep, MakesOwn, MakesShared, Names

LEMMA CreateStep ==
  ASSUME InjectAssumption, IInv, NEW r \in Reqs, Create(r)
  PROVE  StepOK(r)
<1> DEFINE p == Top(parsers[r])
           t == TargetOf(p)
           n == Len(objs)
<1>1. Shape /\ At(r, "creating")
  BY DEF IInv, Create
<1>2. parsers[r] # <<>> /\ p \in Parser /\ p.key \in Keys /\ p.args \in SUBSET Nat
      /\ \A o \in p.args : Reaches(r, o)
  BY <1>1, TopFacts
<1>3. BindingOf(p.key) \in Binding /\ t \in Target
  <2>1. BindingOf(p.key) \in Binding
    BY <1>2, BindingFacts
  <2> QED
    BY <2>1 DEF TargetOf, Binding
<1>4. UNCHANGED <<singletons, scoped, transients, phase, disposal, held, parses, thrown>>
  BY DEF Create
<1>5. CASE t.kind = "object" /\ Go(r, [p EXCEPT !.pc = "created", !.obj = t.of]) /\ UNCHANGED objs
  <2> DEFINE q == [p EXCEPT !.pc = "created", !.obj = t.of]
  <2>1. t.of \in 1 .. Len(Given) /\ t.of \in Nat
    <3> HIDE DEF t
    <3> QED
      BY <1>3, <1>5 DEF Target, InjectAssumption
  <2>2. q \in Parser /\ q.pc = "created" /\ q.key = p.key /\ q.obj = t.of /\ q.args = p.args
    <3>1. q = [p EXCEPT !.pc = "created", !.obj = t.of]
      OBVIOUS
    <3>2. p \in Parser
      BY <1>2
    <3> HIDE DEF q, t, p
    <3> QED
      BY <2>1, <3>1, <3>2 DEF Parser, PCs
  <2>3. IsGiven(t.of)
    BY <2>1 DEF IsGiven
  <2>4. TypeOf(q) # "Singleton" => GivenAsOwn(t.of)
    BY <1>2, <1>5, <2>2, <2>3 DEF GivenAsOwn, TypeOf, TargetOf
  <2> HIDE DEF q, t, p
  <2>5. FrameStep(r, q)
    BY <1>2, <2>2, <2>3, <2>4 DEF FrameStep, MakesOwn, MakesShared, Names
  <2>6. /\ parsers' \in [Reqs -> Seq(Parser)] /\ StackStep(r)
        /\ \A x \in Reqs : x # r => parsers'[x] = parsers[x]
    BY <1>2, <1>4, <1>5, <2>2, <2>5, GoStep DEF q
  <2>7. Shape'
    BY <1>1, <1>4, <1>5, <2>6 DEF Shape
  <2>8. OtherStep(r)
    BY <1>4, <2>6 DEF OtherStep
  <2> QED
    BY <1>4, <1>5, <2>6, <2>7, <2>8, SameHeap, SameRecords, SameQueue DEF StepOK
<1>6. CASE /\ t.kind # "object" /\ objs' = Append(objs, NewObject(t.of, p.args))
           /\ Go(r, [p EXCEPT !.pc = "created", !.obj = Len(objs) + 1])
  <2> DEFINE q == [p EXCEPT !.pc = "created", !.obj = Len(objs) + 1]
             x == NewObject(t.of, p.args)
  <2>1. objs \in Seq(Obj) /\ n \in Nat /\ n + 1 \in Nat
    BY <1>1 DEF Shape
  <2>2. q \in Parser /\ q.pc = "created" /\ q.key = p.key /\ q.obj = n + 1 /\ q.args = p.args
    <3>1. q = [p EXCEPT !.pc = "created", !.obj = n + 1]
      OBVIOUS
    <3>2. p \in Parser
      BY <1>2
    <3> HIDE DEF q, p, n
    <3> QED
      BY <2>1, <3>1, <3>2 DEF Parser, PCs
  <2>3. t.of \in Classes
    <3> HIDE DEF t
    <3> QED
      BY <1>3, <1>6 DEF Target
  <2>4. x \in Obj /\ x.uses = p.args
    <3> HIDE DEF t, p
    <3> QED
      BY <1>2, <2>3 DEF Obj, NewObject
  <2>5. objs' = Append(objs, x)
    BY <1>6
  <2> HIDE DEF x
  <2>6. objs' \in Seq(Obj) /\ Len(objs') = n + 1 /\ objs'[n + 1] = x /\ \A o \in 1 .. n : objs'[o] = objs[o]
    BY <2>1, <2>4, <2>5
  <2> HIDE DEF q, t, p, n
  <2>7. \A o : o = n + 1 => Fresh(o)
    BY <2>1, <2>6 DEF Fresh, n
  <2>8. FrameStep(r, q)
    BY <1>2, <2>2, <2>7 DEF FrameStep, MakesOwn, MakesShared, Names
  <2>9. /\ parsers' \in [Reqs -> Seq(Parser)] /\ StackStep(r)
        /\ \A y \in Reqs : y # r => parsers'[y] = parsers[y]
    BY <1>2, <1>4, <1>6, <2>2, <2>8, GoStep DEF q
  <2>10. Shape'
    BY <1>1, <1>4, <2>6, <2>9 DEF Shape
  <2>11. OtherStep(r)
    BY <1>4, <2>9 DEF OtherStep
  <2>12. HeapStep(r)
    <3>1. \A o \in 1 .. n + 1 : o \in 1 .. n \/ o = n + 1
      BY <2>1
    <3>2. \A o : Fresh(o) => o = n + 1
      BY <2>1, <2>6 DEF Fresh, n
    <3>3. ASSUME NEW j \in 1 .. Len(parsers'[r]), NEW k \in 1 .. Len(parsers'[r]),
                 MakesOwn(parsers'[r][j], n + 1), MakesShared(parsers'[r][k], n + 1)
          PROVE  FALSE
      <4> DEFINE m == Len(parsers[r])
      <4>1. Len(parsers'[r]) = m /\ parsers'[r][m] = q /\ \A i \in 1 .. m - 1 : parsers'[r][i] = parsers[r][i]
            /\ m \in Nat
        BY <1>1, <1>2, <1>6, <2>2, GoFacts DEF q
      <4>2. ASSUME NEW i \in 1 .. m PROVE ~(parsers[r][i].pc = "created" /\ parsers[r][i].obj = n + 1)
        <5>1. parsers[r][i].pc = "created" =>
                Names(parsers[r][i], parsers[r][i].obj) /\ parsers[r][i].obj \in Nat
          BY <1>1, TypesOfShape DEF Names
        <5>2. \A o \in Nat : Names(parsers[r][i], o) => o \in 1 .. n
          BY DEF IInv, Bounded, Reaches, n
        <5> QED
          BY <2>1, <5>1, <5>2
      <4>3. \A i \in 1 .. m : i = m \/ i \in 1 .. m - 1
        BY <4>1
      <4>4. j = m /\ k = m
        <5> HIDE DEF m
        <5> QED
          BY <3>3, <4>1, <4>2, <4>3 DEF MakesOwn, MakesShared
      <4> QED
        BY <3>3, <4>1, <4>4 DEF MakesOwn, MakesShared
    <3>4. \A o : Fresh(o) => \A j, k \in 1 .. Len(parsers'[r]) :
            MakesOwn(parsers'[r][j], o) => ~MakesShared(parsers'[r][k], o)
      BY <3>2, <3>3
    <3> QED
      BY <1>2, <2>1, <2>4, <2>6, <2>7, <3>1, <3>4 DEF HeapStep, n
  <2> QED
    BY <1>4, <2>9, <2>10, <2>11, <2>12, SameRecords, SameQueue DEF StepOK
<1> QED
  BY <1>5, <1>6 DEF Create

LEMMA PushRecordStep ==
  ASSUME InjectAssumption, IInv, NEW r \in Reqs, PushRecord(r)
  PROVE  StepOK(r)
<1> DEFINE p == Top(parsers[r])
           rec == [key |-> p.key, value |-> p.obj]
           type == BindingOf(p.key).type
           q == [p EXCEPT !.pc = "found"]
           n == Len(parsers[r])
<1>1. Shape /\ At(r, "created")
  BY DEF IInv, PushRecord
<1>2. parsers[r] # <<>> /\ p \in Parser /\ p.key \in Keys /\ p.obj \in Nat /\ p.pc = "created"
      /\ n \in 1 .. n /\ p = parsers[r][n]
  BY <1>1, TopFacts
<1>3. UNCHANGED <<objs, phase, disposal, held, parses, thrown>>
      /\ Go(r, q)
      /\ singletons' = (IF type = "Singleton" THEN Append(singletons, rec) ELSE singletons)
      /\ scoped' = (IF type = "Scoped" THEN [scoped EXCEPT ![r] = Append(@, rec)] ELSE scoped)
      /\ transients' = (IF type = "Transient" THEN [transients EXCEPT ![r] = Append(@, rec)] ELSE transients)
  BY DEF PushRecord
<1>4. q \in Parser /\ q.pc = "found" /\ q.key = p.key /\ q.obj = p.obj /\ q.args = p.args
  <2>1. q = [p EXCEPT !.pc = "found"] /\ "found" \in PCs
    BY DEF PCs
  <2> HIDE DEF q, p
  <2> QED
    BY <1>2, <2>1, PlaceUpdated
<1>5. rec \in Record /\ rec.value = p.obj
  <2> HIDE DEF p
  <2> QED
    BY <1>2 DEF Record
<1> HIDE DEF q, rec
<1>6. FrameStep(r, q)
  BY <1>1, <1>4, AfterFrame
<1> HIDE DEF p
<1>7. /\ parsers' \in [Reqs -> Seq(Parser)] /\ StackStep(r)
      /\ \A y \in Reqs : y # r => parsers'[y] = parsers[y]
  BY <1>2, <1>3, <1>4, <1>6, GoStep
<1>8. /\ singletons' \in Seq(Record)
      /\ \A i \in 1 .. Len(singletons') :
           (i \in 1 .. Len(singletons) /\ singletons'[i] = singletons[i]) \/ (type = "Singleton" /\ singletons'[i] = rec)
  <2>1. singletons \in Seq(Record)
    BY <1>1 DEF Shape
  <2> HIDE DEF type
  <2> QED
    BY <1>3, <1>5, <2>1
<1>9. /\ scoped' \in [Reqs -> Seq(Record)]
      /\ \A y \in Reqs : y # r => scoped'[y] = scoped[y]
      /\ \A i \in 1 .. Len(scoped'[r]) :
           (i \in 1 .. Len(scoped[r]) /\ scoped'[r][i] = scoped[r][i]) \/ (type = "Scoped" /\ scoped'[r][i] = rec)
  <2>1. scoped \in [Reqs -> Seq(Record)] /\ scoped[r] \in Seq(Record)
    BY <1>1 DEF Shape
  <2>2. CASE type = "Scoped"
    <3>1. scoped' \in [Reqs -> Seq(Record)] /\ scoped'[r] = Append(scoped[r], rec) /\ \A y \in Reqs : y # r => scoped'[y] = scoped[y]
      <4> HIDE DEF type
      <4> QED
        BY <1>3, <1>5, <2>1, <2>2
    <3> HIDE DEF type
    <3> QED
      BY <1>5, <2>1, <2>2, <3>1
  <2>3. CASE type # "Scoped"
    <3> HIDE DEF type
    <3> QED
      BY <1>3, <2>1, <2>3
  <2> QED
    BY <2>2, <2>3
<1>10. /\ transients' \in [Reqs -> Seq(Record)]
       /\ \A y \in Reqs : y # r => transients'[y] = transients[y]
       /\ \A i \in 1 .. Len(transients'[r]) :
            (i \in 1 .. Len(transients[r]) /\ transients'[r][i] = transients[r][i]) \/ (type = "Transient" /\ transients'[r][i] = rec)
  <2>1. transients \in [Reqs -> Seq(Record)] /\ transients[r] \in Seq(Record)
    BY <1>1 DEF Shape
  <2>2. CASE type = "Transient"
    <3>1. transients' \in [Reqs -> Seq(Record)] /\ transients'[r] = Append(transients[r], rec)
          /\ \A y \in Reqs : y # r => transients'[y] = transients[y]
      <4> HIDE DEF type
      <4> QED
        BY <1>3, <1>5, <2>1, <2>2
    <3> HIDE DEF type
    <3> QED
      BY <1>5, <2>1, <2>2, <3>1
  <2>3. CASE type # "Transient"
    <3> HIDE DEF type
    <3> QED
      BY <1>3, <2>1, <2>3
  <2> QED
    BY <2>2, <2>3
<1>11. Shape'
  BY <1>1, <1>3, <1>7, <1>8, <1>9, <1>10 DEF Shape
<1>12. OtherStep(r)
  BY <1>3, <1>7, <1>9, <1>10 DEF OtherStep
<1>13. RecordStep(r)
  <2>1. type # "Singleton" => Mine(r, p.obj)
    BY <1>2 DEF Mine, MakesOwn, TypeOf
  <2>2. type = "Singleton" => Sharing(r, p.obj)
    BY <1>2 DEF Sharing, MakesShared, TypeOf
  <2> HIDE DEF type
  <2>3. ASSUME NEW o \in Nat, Recorded(r, o)' PROVE Mine(r, o)
    <3>1. Recorded(r, o) \/ (type # "Singleton" /\ o = p.obj)
      BY <1>5, <1>9, <1>10, <2>3 DEF Recorded
    <3> QED
      BY <2>1, <3>1 DEF Mine
  <2>4. ASSUME NEW o \in Nat, Shared(o)' PROVE Shared(o) \/ Sharing(r, o)
    BY <1>5, <1>8, <2>2, <2>4 DEF Shared
  <2> QED
    BY <2>3, <2>4 DEF RecordStep
<1> QED
  BY <1>3, <1>7, <1>11, <1>12, <1>13, SameHeap, SameQueue DEF StepOK

\* A parser that hands back what it has, in a heap it has written flags of.
LEMMA ReturningStep ==
  ASSUME IInv, NEW r \in Reqs, NEW pc, At(r, pc), pc # "creating",
         NEW heap \in Seq(Obj), Len(heap) = Len(objs),
         \A o \in 1 .. Len(objs) : heap[o].uses = objs[o].uses /\ heap[o].class = objs[o].class,
         ReturnFrom(r, Top(parsers[r])), objs' = Assigned(r, Top(parsers[r]), heap),
         UNCHANGED <<singletons, scoped, transients, phase, disposal, parses, thrown>>
  PROVE  StepOK(r)
<1> DEFINE p == Top(parsers[r])
           n == Len(parsers[r])
<1>1. Shape
  BY DEF IInv
<1>2. parsers[r] # <<>> /\ p \in Parser /\ Reaches(r, p.obj) /\ n \in Nat
  BY <1>1, TopFacts
<1>3. /\ parsers' \in [Reqs -> Seq(Parser)] /\ held' \in [Reqs -> SUBSET Nat] /\ StackStep(r)
      /\ \A q \in Reqs : q # r => parsers'[q] = parsers[q] /\ held'[q] = held[q]
  BY <1>2, ReturnStep
<1>4. /\ objs' \in Seq(Obj) /\ Len(objs') = Len(objs)
      /\ \A o \in 1 .. Len(objs) : objs'[o].class = heap[o].class
      /\ \A o \in 1 .. Len(objs) :
           \/ objs'[o].uses = heap[o].uses
           \/ /\ n > 1 /\ parsers[r][n - 1].pc = "props" /\ parsers[r][n - 1].obj = o
              /\ objs'[o].uses = heap[o].uses \cup {p.obj}
  <2> HIDE DEF p
  <2>1. objs' = Assigned(r, p, heap)
    BY DEF p
  <2> QED
    BY <1>2, <2>1, AssignedFacts
<1>5. HeapStep(r)
  <2>1. n > 1 => n - 1 \in 1 .. n
    BY <1>2
  <2>2. \A o \in 1 .. Len(objs) :
          n > 1 /\ parsers[r][n - 1].pc = "props" /\ parsers[r][n - 1].obj = o => Reaches(r, o)
    BY <2>1 DEF Reaches, Names
  <2>3. Len(objs) \in Nat
    BY <1>1 DEF Shape
  <2> HIDE DEF p, n
  <2> QED
    BY <1>2, <1>4, <2>2, <2>3 DEF HeapStep, Fresh
<1>6. Shape'
  BY <1>1, <1>3, <1>4 DEF Shape
<1>7. OtherStep(r)
  BY <1>3 DEF OtherStep
<1> QED
  BY <1>3, <1>5, <1>6, <1>7, SameRecords, SameQueue DEF StepOK

\* A parser that goes on in such a heap.
LEMMA GoingStep ==
  ASSUME IInv, NEW r \in Reqs, NEW pc, At(r, pc), pc # "creating", NEW p \in Parser, Go(r, p),
         p.obj = Top(parsers[r]).obj, p.args = Top(parsers[r]).args, p.pc \notin {"creating", "created"},
         objs' \in Seq(Obj), Len(objs') = Len(objs), \A o \in 1 .. Len(objs) : objs'[o].uses = objs[o].uses /\ objs'[o].class = objs[o].class,
         UNCHANGED <<singletons, scoped, transients, phase, disposal, held, parses, thrown>>
  PROVE  StepOK(r)
<1>1. Shape
  BY DEF IInv
<1>2. parsers[r] # <<>> /\ FrameStep(r, p)
  BY <1>1, TopFacts, AfterFrame
<1>3. /\ parsers' \in [Reqs -> Seq(Parser)] /\ StackStep(r)
      /\ \A y \in Reqs : y # r => parsers'[y] = parsers[y]
  BY <1>2, GoStep
<1>4. Shape'
  BY <1>1, <1>3 DEF Shape
<1>5. OtherStep(r)
  BY <1>3 DEF OtherStep
<1>6. HeapStep(r)
  BY <1>1, SameUses DEF Shape
<1> QED
  BY <1>3, <1>4, <1>5, <1>6, SameRecords, SameQueue DEF StepOK

\* The object of the parser on top exists.
LEMMA TopObject ==
  ASSUME IInv, NEW r \in Reqs, NEW pc, At(r, pc), pc # "creating"
  PROVE  Top(parsers[r]).obj \in 1 .. Len(objs) /\ objs[Top(parsers[r]).obj] \in Obj /\ objs \in Seq(Obj)
<1>1. Shape
  BY DEF IInv
<1>2. Top(parsers[r]).obj \in Nat /\ Reaches(r, Top(parsers[r]).obj)
  BY <1>1, TopFacts
<1>3. Top(parsers[r]).obj \in 1 .. Len(objs)
  BY <1>2 DEF IInv, Bounded
<1> QED
  BY <1>1, <1>3 DEF Shape

\* The flags of an object that is injected.
LEMMA FlagFacts ==
  ASSUME objs \in Seq(Obj), NEW o \in 1 .. Len(objs), NEW x \in Obj, x.uses = objs[o].uses /\ x.class = objs[o].class
  PROVE  LET heap == [objs EXCEPT ![o] = x]
         IN /\ heap \in Seq(Obj) /\ Len(heap) = Len(objs)
            /\ \A k \in 1 .. Len(objs) : heap[k] = IF k = o THEN x ELSE objs[k]
            /\ \A k \in 1 .. Len(objs) : heap[k].uses = objs[k].uses /\ heap[k].class = objs[k].class
<1>1. \A k \in 1 .. Len(objs) : [objs EXCEPT ![o] = x][k] = IF k = o THEN x ELSE objs[k]
  OBVIOUS
<1> QED
  BY <1>1

LEMMA FlagUpdates ==
  ASSUME NEW x \in Obj
  PROVE  /\ [x EXCEPT !.initializing = TRUE, !.starts = @ + 1] \in Obj
         /\ [x EXCEPT !.initializing = TRUE, !.starts = @ + 1].uses = x.uses
         /\ [x EXCEPT !.initializing = TRUE, !.starts = @ + 1].class = x.class
         /\ [x EXCEPT !.initialized = TRUE] \in Obj /\ [x EXCEPT !.initialized = TRUE].uses = x.uses
         /\ [x EXCEPT !.initialized = TRUE].class = x.class
         /\ [x EXCEPT !.ready = TRUE] \in Obj /\ [x EXCEPT !.ready = TRUE].uses = x.uses
         /\ [x EXCEPT !.ready = TRUE].class = x.class
<1>1. x.starts + 1 \in Nat
  BY DEF Obj
<1>2. [x EXCEPT !.initializing = TRUE, !.starts = @ + 1] \in Obj
  BY <1>1 DEF Obj
<1>3. [x EXCEPT !.initialized = TRUE] \in Obj /\ [x EXCEPT !.ready = TRUE] \in Obj
  BY DEF Obj
<1> QED
  BY <1>2, <1>3 DEF Obj

LEMMA SkipInjectionStep ==
  ASSUME IInv, NEW r \in Reqs, SkipInjection(r)
  PROVE  StepOK(r)
<1>1. At(r, "found") /\ ReturnFrom(r, Top(parsers[r])) /\ objs' = Assigned(r, Top(parsers[r]), objs)
      /\ UNCHANGED <<singletons, scoped, transients, phase, disposal, parses, thrown>>
  BY DEF SkipInjection
<1>2. objs \in Seq(Obj)
  BY DEF IInv, Shape
<1> QED
  BY <1>1, <1>2, ReturningStep

LEMMA StartInjectionStep ==
  ASSUME IInv, NEW r \in Reqs, StartInjection(r)
  PROVE  StepOK(r)
<1> DEFINE p == Top(parsers[r])
           o == p.obj
           x == [objs[o] EXCEPT !.initializing = TRUE, !.starts = @ + 1]
           q == [p EXCEPT !.pc = "initializing"]
<1>1. At(r, "found") /\ Go(r, q) /\ objs' = [objs EXCEPT ![o].initializing = TRUE, ![o].starts = @ + 1]
      /\ UNCHANGED <<singletons, scoped, transients, phase, disposal, held, parses, thrown>>
  BY DEF StartInjection
<1>2. o \in 1 .. Len(objs) /\ objs[o] \in Obj /\ objs \in Seq(Obj)
  BY <1>1, TopObject
<1>3. p \in Parser
  BY <1>1, TopFacts DEF IInv
<1>4. q \in Parser /\ q.pc = "initializing" /\ q.obj = p.obj /\ q.args = p.args
  <2>1. q = [p EXCEPT !.pc = "initializing"] /\ "initializing" \in PCs
    BY DEF PCs
  <2> HIDE DEF q, p
  <2> QED
    BY <1>3, <2>1, PlaceUpdated
<1> HIDE DEF q, p
<1>5. x \in Obj /\ x.uses = objs[o].uses /\ x.class = objs[o].class
  <2> HIDE DEF o
  <2> QED
    BY <1>2, FlagUpdates
<1>6. objs' = [objs EXCEPT ![o] = x]
  <2> HIDE DEF o
  <2> QED
    BY <1>1, <1>2 DEF Obj
<1> HIDE DEF x
<1>7. objs' \in Seq(Obj) /\ Len(objs') = Len(objs) /\ \A k \in 1 .. Len(objs) : objs'[k].uses = objs[k].uses /\ objs'[k].class = objs[k].class
  <2> HIDE DEF o
  <2> QED
    BY <1>2, <1>5, <1>6, FlagFacts
<1> QED
  BY <1>1, <1>4, <1>7, GoingStep DEF p

LEMMA InjectPropsStep ==
  ASSUME IInv, NEW r \in Reqs, InjectProps(r)
  PROVE  StepOK(r)
<1> DEFINE p == Top(parsers[r])
           q == [p EXCEPT !.pc = "props", !.i = 1]
<1>1. At(r, "initializing") /\ Go(r, q)
      /\ UNCHANGED <<objs, singletons, scoped, transients, phase, disposal, held, parses, thrown>>
  BY DEF InjectProps
<1>2. p \in Parser /\ objs \in Seq(Obj)
  BY <1>1, TopFacts DEF IInv, Shape
<1>3. q \in Parser /\ q.pc = "props" /\ q.obj = p.obj /\ q.args = p.args
  <2>1. q = [p EXCEPT !.pc = "props", !.i = 1]
    OBVIOUS
  <2> HIDE DEF q, p
  <2> QED
    BY <1>2, <2>1, CounterUpdated
<1> HIDE DEF q, p
<1> QED
  BY <1>1, <1>2, <1>3, GoingStep DEF p

LEMMA InitializeStep ==
  ASSUME IInv, NEW r \in Reqs, Initialize(r)
  PROVE  StepOK(r)
<1> DEFINE p == Top(parsers[r])
           o == p.obj
           x == [objs[o] EXCEPT !.initialized = TRUE]
           q == [p EXCEPT !.pc = "initialized"]
<1>1. At(r, "props") /\ Go(r, q) /\ objs' = [objs EXCEPT ![o].initialized = TRUE]
      /\ UNCHANGED <<singletons, scoped, transients, phase, disposal, held, parses, thrown>>
  BY DEF Initialize
<1>2. o \in 1 .. Len(objs) /\ objs[o] \in Obj /\ objs \in Seq(Obj)
  BY <1>1, TopObject
<1>3. p \in Parser
  BY <1>1, TopFacts DEF IInv
<1>4. q \in Parser /\ q.pc = "initialized" /\ q.obj = p.obj /\ q.args = p.args
  <2>1. q = [p EXCEPT !.pc = "initialized"] /\ "initialized" \in PCs
    BY DEF PCs
  <2> HIDE DEF q, p
  <2> QED
    BY <1>3, <2>1, PlaceUpdated
<1> HIDE DEF q, p
<1>5. x \in Obj /\ x.uses = objs[o].uses /\ x.class = objs[o].class
  <2> HIDE DEF o
  <2> QED
    BY <1>2, FlagUpdates
<1>6. objs' = [objs EXCEPT ![o] = x]
  BY <1>1
<1> HIDE DEF x
<1>7. objs' \in Seq(Obj) /\ Len(objs') = Len(objs) /\ \A k \in 1 .. Len(objs) : objs'[k].uses = objs[k].uses /\ objs'[k].class = objs[k].class
  <2> HIDE DEF o
  <2> QED
    BY <1>2, <1>5, <1>6, FlagFacts
<1> QED
  BY <1>1, <1>4, <1>7, GoingStep DEF p

LEMMA FinishInjectionStep ==
  ASSUME IInv, NEW r \in Reqs, FinishInjection(r)
  PROVE  StepOK(r)
<1> DEFINE p == Top(parsers[r])
           o == p.obj
           x == [objs[o] EXCEPT !.ready = TRUE]
           heap == [objs EXCEPT ![o] = x]
<1>1. At(r, "initialized") /\ ReturnFrom(r, p) /\ objs' = Assigned(r, p, heap)
      /\ UNCHANGED <<singletons, scoped, transients, phase, disposal, parses, thrown>>
  BY DEF FinishInjection
<1>2. o \in 1 .. Len(objs) /\ objs[o] \in Obj /\ objs \in Seq(Obj)
  BY <1>1, TopObject
<1> HIDE DEF p
<1>3. x \in Obj /\ x.uses = objs[o].uses /\ x.class = objs[o].class
  <2> HIDE DEF o
  <2> QED
    BY <1>2, FlagUpdates
<1> HIDE DEF x
<1>4. heap \in Seq(Obj) /\ Len(heap) = Len(objs) /\ \A k \in 1 .. Len(objs) : heap[k].uses = objs[k].uses /\ heap[k].class = objs[k].class
  <2> HIDE DEF o
  <2> QED
    BY <1>2, <1>3, FlagFacts
<1> HIDE DEF heap
<1> QED
  BY <1>1, <1>4, ReturningStep DEF p

LEMMA ParseFailsStep ==
  ASSUME IInv, NEW r \in Reqs, ParseFails(r)
  PROVE  StepOK(r)
<1>1. parsers' = [parsers EXCEPT ![r] = <<>>] /\ thrown' = [thrown EXCEPT ![r] = @ + 1]
      /\ UNCHANGED <<objs, singletons, scoped, transients, phase, disposal, held, parses>>
  BY DEF ParseFails
<1>2. /\ parsers' \in [Reqs -> Seq(Parser)] /\ thrown' \in [Reqs -> Nat] /\ parsers'[r] = <<>>
      /\ \A q \in Reqs : q # r => parsers'[q] = parsers[q]
  BY <1>1 DEF IInv, Shape
<1>3. Shape'
  BY <1>1, <1>2 DEF IInv, Shape
<1>4. OtherStep(r)
  BY <1>1, <1>2 DEF OtherStep
<1>5. StackStep(r)
  BY <1>1, <1>2 DEF StackStep, Reaches
<1> QED
  BY <1>1, <1>3, <1>4, <1>5, SameHeap, SameRecords, SameQueue DEF StepOK

LEMMA AnyStep ==
  ASSUME InjectAssumption, IInv, Next
  PROVE  \E r \in Reqs : StepOK(r)
<1>1. PICK r \in Reqs : Begin(r) \/ ParseKey(r) \/ ParseInstance(r) \/ Advance(r)
  BY DEF Next
<1>2. Advance(r) => StepOK(r)
  BY ParseArgStep, CreateStep, PushRecordStep, SkipInjectionStep, StartInjectionStep, InjectPropsStep,
     ParsePropStep, InitializeStep, FinishInjectionStep, ParseFailsStep, LeaveStep, UnwindStep,
     DisposeNextStep, DisposeFailsStep, FinishStep, Zenon DEF Advance
<1> QED
  BY <1>1, <1>2, BeginStep, ParseKeyStep, ParseInstanceStep

-----------------------------------------------------------------------------
(* The shape and the references hold throughout.                           *)

LEMMA InitIInv ==
  ASSUME InjectAssumption, Init
  PROVE  IInv
<1>1. Given \in Seq(Classes) /\ Len(Given) \in Nat /\ Len(Binds) \in Nat
  BY DEF InjectAssumption
<1>2. \A c \in Classes : NewObject(c, {}) \in Obj /\ NewObject(c, {}).uses = {}
  BY DEF NewObject, Obj
<1>3. objs = [i \in 1 .. Len(Given) |-> NewObject(Given[i], {})]
  BY <1>1 DEF Init
<1>4. objs \in Seq(Obj) /\ Len(objs) = Len(Given) /\ \A o \in 1 .. Len(Given) : objs[o].uses = {}
  BY <1>1, <1>2, <1>3
<1>5. Shape
  BY <1>1, <1>4 DEF Init, Shape
<1>6. Bounded
  <2>1. \A r \in Reqs : Len(scoped[r]) = 0 /\ Len(transients[r]) = 0 /\ Len(parsers[r]) = 0 /\ held[r] = {}
                        /\ Len(disposal[r].queue) = 0
    BY DEF Init
  <2>2. Len(singletons) = 0 /\ Len(Given) <= Len(objs)
    BY <1>1, <1>4 DEF Init
  <2>3. \A r \in Reqs : \A o : ~Mine(r, o) /\ ~Reaches(r, o)
    BY <2>1 DEF Mine, Recorded, Reaches
  <2>4. \A o : ~Shared(o)
    BY <2>2 DEF Shared
  <2> QED
    BY <1>4, <2>1, <2>2, <2>3, <2>4 DEF Bounded
<1> QED
  BY <1>5, <1>6 DEF IInv

LEMMA StepIInv ==
  ASSUME InjectAssumption, IInv, [Next]_vars
  PROVE  IInv'
<1>1. CASE Next
  BY <1>1, AnyStep, BoundedKept DEF StepOK, IInv
<1>2. CASE UNCHANGED vars
  BY <1>2 DEF vars, IInv, Shape, Bounded, Mine, Recorded, MakesOwn, Reaches, Names, Shared, TypeOf
<1> QED
  BY <1>1, <1>2

LEMMA SeqNarrowed ==
  ASSUME NEW S, NEW T, NEW s \in Seq(S), \A i \in 1 .. Len(s) : s[i] \in T
  PROVE  s \in Seq(T)
<1>1. Len(s) \in Nat /\ s = [i \in 1 .. Len(s) |-> s[i]]
  OBVIOUS
<1> QED
  BY <1>1

LEMMA IInvTypeOK ==
  ASSUME IInv
  PROVE  TypeOK
<1>1. Shape /\ DOMAIN objs = 1 .. Len(objs)
  BY DEF IInv, Shape
<1>2. objs \in Seq([class : Classes, uses : SUBSET Ids, initializing : BOOLEAN, initialized : BOOLEAN,
                    set : SUBSET Nat, ready : BOOLEAN, starts : Nat, disposals : Nat])
  <2>1. \A o \in 1 .. Len(objs) : objs[o] \in Obj /\ objs[o].uses \in SUBSET Ids
    BY <1>1 DEF IInv, Bounded, Ids, Shape
  <2>2. \A x \in Obj : x.uses \in SUBSET Ids =>
          x \in [class : Classes, uses : SUBSET Ids, initializing : BOOLEAN, initialized : BOOLEAN,
                 set : SUBSET Nat, ready : BOOLEAN, starts : Nat, disposals : Nat]
    BY DEF Obj
  <2>3. objs \in Seq(Obj)
    BY <1>1 DEF Shape
  <2>4. \A o \in 1 .. Len(objs) :
          objs[o] \in [class : Classes, uses : SUBSET Ids, initializing : BOOLEAN, initialized : BOOLEAN,
                       set : SUBSET Nat, ready : BOOLEAN, starts : Nat, disposals : Nat]
    BY <2>1, <2>2
  <2> QED
    BY <2>3, <2>4, SeqNarrowed
<1>3. \A s \in Seq(Record) : (\A i \in 1 .. Len(s) : s[i].value \in Ids) => s \in Seq([key : Keys, value : Ids])
  <2>1. \A x \in Record : x.value \in Ids => x \in [key : Keys, value : Ids]
    BY DEF Record
  <2>2. \A s \in Seq(Record) : \A i \in 1 .. Len(s) : s[i] \in Record
    OBVIOUS
  <2>3. \A s \in Seq(Record) : (\A i \in 1 .. Len(s) : s[i].value \in Ids)
          => \A i \in 1 .. Len(s) : s[i] \in [key : Keys, value : Ids]
    BY <2>1, <2>2
  <2> QED
    BY <2>3, SeqNarrowed
<1>4. \A s \in Seq(Record) : \A i \in 1 .. Len(s) : s[i].value \in Nat
  <2>1. \A x \in Record : x.value \in Nat
    BY DEF Record
  <2>2. \A s \in Seq(Record) : \A i \in 1 .. Len(s) : s[i] \in Record
    OBVIOUS
  <2> QED
    BY <2>1, <2>2
<1>5. singletons \in Seq([key : Keys, value : Ids])
  BY <1>1, <1>3, <1>4 DEF Shape, IInv, Bounded, Shared, Ids
<1>6. \A r \in Reqs : scoped[r] \in Seq([key : Keys, value : Ids]) /\ transients[r] \in Seq([key : Keys, value : Ids])
  <2> SUFFICES ASSUME NEW r \in Reqs
               PROVE  scoped[r] \in Seq([key : Keys, value : Ids]) /\ transients[r] \in Seq([key : Keys, value : Ids])
    OBVIOUS
  <2>1. scoped[r] \in Seq(Record) /\ transients[r] \in Seq(Record)
    BY <1>1 DEF Shape
  <2>2. \A o \in Nat : Recorded(r, o) => o \in Ids
    BY <1>1 DEF IInv, Bounded, Mine, Ids
  <2>3. \A i \in 1 .. Len(scoped[r]) : scoped[r][i].value \in Ids
    BY <1>4, <2>1, <2>2 DEF Recorded
  <2>4. \A i \in 1 .. Len(transients[r]) : transients[r][i].value \in Ids
    BY <1>4, <2>1, <2>2 DEF Recorded
  <2> QED
    BY <1>3, <2>1, <2>3, <2>4
<1>7. ASSUME NEW r \in Reqs, NEW k \in DOMAIN parsers[r], parsers[r][k].pc # "creating"
      PROVE  parsers[r][k].obj \in Ids
  <2>1. k \in 1 .. Len(parsers[r]) /\ parsers[r][k].obj \in Nat
    <3>1. /\ parsers[r] \in Seq(Parser)
          /\ \A j \in 1 .. Len(parsers[r]) : parsers[r][j].obj \in Nat
      BY <1>1, TypesOfShape
    <3>2. k \in 1 .. Len(parsers[r])
      BY <3>1
    <3> QED
      BY <3>1, <3>2
  <2>2. Reaches(r, parsers[r][k].obj)
    BY <1>7, <2>1 DEF Reaches, Names
  <2> QED
    BY <1>1, <2>1, <2>2 DEF IInv, Bounded, Ids
<1>8. \A r \in Reqs : held[r] \in SUBSET Ids
  BY <1>1 DEF Shape, IInv, Bounded, Reaches, Ids
<1>9. disposal \in [Reqs -> [at : 0 .. Len(Binds), queue : Seq(Ids)]]
  <2>1. \A r \in Reqs : disposal[r] \in [at : 0 .. Len(Binds), queue : Seq(Nat)]
    BY <1>1 DEF Shape
  <2>2. \A r \in Reqs : disposal[r].queue \in Seq(Nat) /\ \A i \in 1 .. Len(disposal[r].queue) : disposal[r].queue[i] \in Ids
    <3>1. Bounded
      BY <1>1 DEF IInv
    <3>2. \A r \in Reqs : disposal[r].queue \in Seq(Nat)
      BY <2>1
    <3> QED
      BY <3>1, <3>2 DEF Bounded, Ids
  <2>3. \A r \in Reqs : disposal[r].queue \in Seq(Ids)
    BY <2>2, SeqNarrowed
  <2>4. \A r \in Reqs : disposal[r] \in [at : 0 .. Len(Binds), queue : Seq(Ids)]
    BY <2>1, <2>3
  <2> QED
    BY <1>1, <2>4 DEF Shape
<1> QED
  BY <1>1, <1>2, <1>5, <1>6, <1>7, <1>8, <1>9 DEF TypeOK, Shape

\* The state keeps its shape: whatever records, parsers, objects and user code
\* refer to is an object that exists, through every creation, error and disposal.
THEOREM TypeCorrect == Spec => []TypeOK
<1>1. InjectAssumption
  BY InjectAssumption
<1>2. Init => IInv
  BY <1>1, InitIInv
<1>3. IInv /\ [Next]_vars => IInv'
  BY <1>1, StepIInv
<1>4. IInv => TypeOK
  BY IInvTypeOK
<1> QED
  BY <1>2, <1>3, <1>4, PTL DEF Spec

-----------------------------------------------------------------------------
(* What is scoped or transient stays with its request, provided that no    *)
(* inject() call makes an object that exists scoped or transient: such an  *)
(* object is the same for all requests.                                    *)

GivenAreSingletons ==
  \A key \in Keys : BindingOf(key).target.kind = "object" => BindingOf(key).type = "Singleton"

\* No other request gets to what a request has made, and it is not given,
\* nor a singleton.
Apart ==
  /\ \A r, q \in Reqs : r # q => \A o \in Nat : Mine(r, o) => ~Mine(q, o) /\ ~Reaches(q, o)
  /\ \A r, q \in Reqs : r # q => \A o \in 1 .. Len(objs) : Mine(r, o) =>
       \A u \in objs[o].uses : ~Mine(q, u)
  /\ \A r \in Reqs : \A o \in Nat : Mine(r, o) => ~IsGiven(o) /\ ~Shared(o) /\ ~Sharing(r, o)

\* What a step of r does to what is whose.
LEMMA MineStep ==
  ASSUME GivenAreSingletons, IInv, NEW r \in Reqs, StepOK(r), NEW o \in Nat
  PROVE  /\ Mine(r, o)' => Mine(r, o) \/ Fresh(o)
         /\ Reaches(r, o)' => Reaches(r, o) \/ Mine(r, o) \/ Shared(o) \/ IsGiven(o) \/ Fresh(o)
         /\ Sharing(r, o)' => Sharing(r, o) \/ IsGiven(o) \/ Fresh(o)
         /\ Shared(o)' => Shared(o) \/ Sharing(r, o)
         /\ Fresh(o) => ~(Mine(r, o)' /\ Sharing(r, o)')
         /\ \A q \in Reqs : q # r => /\ Mine(q, o)' <=> Mine(q, o)
                                     /\ Reaches(q, o)' <=> Reaches(q, o)
                                     /\ Sharing(q, o)' <=> Sharing(q, o)
<1>1. ~GivenAsOwn(o)
  BY DEF GivenAreSingletons, GivenAsOwn
<1>2. Mine(r, o)' => Mine(r, o) \/ Fresh(o)
  BY <1>1 DEF StepOK, StackStep, FrameStep, RecordStep, Mine
<1>3. Reaches(r, o)' => Reaches(r, o) \/ Mine(r, o) \/ Shared(o) \/ IsGiven(o) \/ Fresh(o)
  BY DEF StepOK, StackStep, FrameStep, Reaches
<1>4. Sharing(r, o)' => Sharing(r, o) \/ IsGiven(o) \/ Fresh(o)
  BY DEF StepOK, StackStep, FrameStep, Sharing
<1>5. Shared(o)' => Shared(o) \/ Sharing(r, o)
  BY DEF StepOK, RecordStep
<1>6. ASSUME Fresh(o), Mine(r, o)' PROVE ~Sharing(r, o)'
  <2>1. ~Mine(r, o)
    BY <1>6 DEF Fresh, IInv, Bounded
  <2>2. \E k \in 1 .. Len(parsers'[r]) : MakesOwn(parsers'[r][k], o)
    BY <1>6, <2>1 DEF StepOK, RecordStep, Mine
  <2> QED
    BY <1>6, <2>2 DEF StepOK, HeapStep, Sharing
<1>7. ASSUME NEW q \in Reqs, q # r
      PROVE  /\ Mine(q, o)' <=> Mine(q, o)
             /\ Reaches(q, o)' <=> Reaches(q, o)
             /\ Sharing(q, o)' <=> Sharing(q, o)
  BY <1>7 DEF StepOK, OtherStep, Mine, Recorded, Reaches, Sharing
<1> QED
  BY <1>2, <1>3, <1>4, <1>5, <1>6, <1>7

LEMMA ApartKept ==
  ASSUME GivenAreSingletons, IInv, Apart, NEW r \in Reqs, StepOK(r)
  PROVE  Apart'
<1>1. \A o : Fresh(o) => ~IsGiven(o) /\ ~Shared(o) /\ \A q \in Reqs : ~Mine(q, o) /\ ~Reaches(q, o) /\ ~Sharing(q, o)
  <2>1. ASSUME NEW o, Fresh(o) PROVE o \in Nat /\ o \notin 1 .. Len(objs)
    <3>1. objs' \in Seq(Obj) /\ Len(objs') \in Nat
      BY DEF StepOK, Shape
    <3> QED
      BY <2>1, <3>1 DEF Fresh
  <2>2. \A q \in Reqs : \A o : Sharing(q, o) => Reaches(q, o)
    BY DEF Sharing, MakesShared, Reaches, Names
  <2>3. \A o \in Nat : IsGiven(o) => o \in 1 .. Len(objs)
    BY DEF IsGiven, IInv, Bounded, Shape, InjectAssumption
  <2> QED
    BY <2>1, <2>2, <2>3 DEF IInv, Bounded
<1>2. ASSUME NEW a \in Reqs, NEW q \in Reqs, a # q, NEW o \in Nat, Mine(a, o)'
      PROVE  ~Mine(q, o)' /\ ~Reaches(q, o)'
  <2>1. CASE a = r
    BY <1>1, <1>2, <2>1, MineStep DEF Apart
  <2>2. CASE a # r /\ q = r
    BY <1>1, <1>2, <2>2, MineStep DEF Apart
  <2>3. CASE a # r /\ q # r
    BY <1>2, <2>3, MineStep DEF Apart
  <2> QED
    BY <2>1, <2>2, <2>3
<1>3. ASSUME NEW a \in Reqs, NEW q \in Reqs, a # q, NEW o \in 1 .. Len(objs'), Mine(a, o)', NEW u \in objs'[o].uses
      PROVE  ~Mine(q, u)'
  <2>1. o \in Nat /\ u \in Nat
    <3>1. objs' \in Seq(Obj)
      BY DEF StepOK, Shape
    <3>2. objs'[o] \in Obj
      BY <3>1
    <3> QED
      BY <3>2 DEF Obj
  <2>2. \/ o \in 1 .. Len(objs) /\ u \in objs[o].uses
        \/ (Fresh(o) \/ Reaches(r, o)) /\ Reaches(r, u)
    BY DEF StepOK, HeapStep
  <2>3. Mine(a, o) \/ (a = r /\ Fresh(o))
    BY <1>3, <2>1, MineStep
  <2>4. CASE q # r
    <3>1. Mine(q, u)' <=> Mine(q, u)
      BY <2>1, <2>4, MineStep
    <3>2. CASE o \in 1 .. Len(objs) /\ u \in objs[o].uses
      <4>1. Mine(a, o)
        BY <2>3, <3>2 DEF Fresh
      <4> QED
        BY <1>3, <3>1, <3>2, <4>1 DEF Apart
    <3>3. CASE (Fresh(o) \/ Reaches(r, o)) /\ Reaches(r, u)
      BY <2>1, <2>4, <3>1, <3>3 DEF Apart
    <3> QED
      BY <2>2, <3>2, <3>3
  <2>5. CASE q = r
    <3>1. Mine(a, o) /\ a # r
      BY <1>3, <2>3, <2>5
    <3>2. o \in 1 .. Len(objs) /\ u \in objs[o].uses
      <4>1. ~Fresh(o) /\ ~Reaches(r, o)
        BY <1>1, <2>1, <2>5, <3>1, <1>3 DEF Apart
      <4> QED
        BY <2>2, <4>1
    <3>3. ~Mine(r, u) /\ ~Fresh(u)
      BY <1>3, <2>1, <2>5, <3>1, <3>2 DEF Apart, IInv, Bounded, Fresh
    <3> QED
      BY <2>1, <2>5, <3>3, MineStep
  <2> QED
    BY <2>4, <2>5
<1>4. ASSUME NEW a \in Reqs, NEW o \in Nat, Mine(a, o)'
      PROVE  ~IsGiven(o) /\ ~Shared(o)' /\ ~Sharing(a, o)'
  <2>1. CASE a = r
    BY <1>1, <1>4, <2>1, MineStep DEF Apart
  <2>2. CASE a # r
    <3>1. \A x \in Nat : Sharing(r, x) => Reaches(r, x)
      BY DEF Sharing, MakesShared, Reaches, Names
    <3> QED
      BY <1>4, <2>2, <3>1, MineStep DEF Apart
  <2> QED
    BY <2>1, <2>2
<1> QED
  BY <1>2, <1>3, <1>4 DEF Apart

\* Both parts of the invariant together.
LEMMA ScopesInvariant ==
  ASSUME GivenAreSingletons
  PROVE  Spec => [](IInv /\ Apart)
<1>1. InjectAssumption
  BY InjectAssumption
<1>2. Init => IInv /\ Apart
  <2>1. ASSUME Init PROVE Apart
    <3>1. \A r \in Reqs : Len(scoped[r]) = 0 /\ Len(transients[r]) = 0 /\ Len(parsers[r]) = 0
      BY <2>1 DEF Init
    <3>2. \A r \in Reqs : \A o : ~Mine(r, o)
      BY <3>1 DEF Mine, Recorded
    <3> QED
      BY <3>2 DEF Apart
  <2> QED
    BY <1>1, <2>1, InitIInv
<1>3. IInv /\ Apart /\ [Next]_vars => IInv' /\ Apart'
  <2> SUFFICES ASSUME IInv, Apart, [Next]_vars PROVE Apart'
    BY <1>1, StepIInv
  <2>1. CASE Next
    BY <1>1, <2>1, AnyStep, ApartKept
  <2>2. CASE UNCHANGED vars
    <3>1. UNCHANGED <<objs, singletons, scoped, transients, parsers, held>>
      BY <2>2 DEF vars
    <3>2. \A r \in Reqs : \A o : (Mine(r, o)' <=> Mine(r, o)) /\ (Reaches(r, o)' <=> Reaches(r, o))
                               /\ (Shared(o)' <=> Shared(o)) /\ (Sharing(r, o)' <=> Sharing(r, o))
      BY <3>1 DEF Mine, Recorded, Reaches, Shared, Sharing
    <3> QED
      BY <3>1, <3>2 DEF Apart
  <2> QED
    BY <2>1, <2>2
<1> QED
  BY <1>2, <1>3, PTL DEF Spec

\* The scoped and transient objects of a request are held by no other and use
\* none of another's, whatever both of them are awaiting: SCOPED_BAG and
\* TRANSIENT_BAG are bags of one context.
THEOREM ScopesStayApart == GivenAreSingletons => (Spec => []ScopesAreApart)
<1> SUFFICES ASSUME GivenAreSingletons PROVE Spec => []ScopesAreApart
  OBVIOUS
<1>1. Spec => [](IInv /\ Apart)
  BY ScopesInvariant
<1>2. IInv /\ Apart => ScopesAreApart
  <2> SUFFICES ASSUME IInv, Apart PROVE ScopesAreApart
    OBVIOUS
  <2> DEFINE Own(r) == {scoped[r][i].value : i \in DOMAIN scoped[r]}
                       \cup {transients[r][i].value : i \in DOMAIN transients[r]}
  <2>1. ASSUME NEW r \in Reqs, NEW o \in Own(r) PROVE Mine(r, o) /\ o \in Nat /\ o \in 1 .. Len(objs)
    <3>1. scoped[r] \in Seq(Record) /\ transients[r] \in Seq(Record)
      BY DEF IInv, Shape
    <3>2. \A x \in Record : x.value \in Nat
      BY DEF Record
    <3>3. \A s \in Seq(Record) : DOMAIN s = 1 .. Len(s) /\ \A i \in 1 .. Len(s) : s[i] \in Record
      OBVIOUS
    <3>4. o \in Nat
      BY <3>1, <3>2, <3>3
    <3>5. Mine(r, o)
      BY <3>1, <3>3 DEF Mine, Recorded
    <3> QED
      BY <3>4, <3>5 DEF IInv, Bounded
  <2>2. \A r \in Reqs : \A o \in held[r] : Reaches(r, o)
    BY DEF Reaches
  <2> HIDE DEF Own
  <2>3. ASSUME NEW r \in Reqs, NEW q \in Reqs, r # q
        PROVE  /\ Own(r) \cap (Own(q) \cup held[q]) = {}
               /\ \A o \in Own(r) : objs[o].uses \cap Own(q) = {}
    BY <2>1, <2>2, <2>3 DEF Apart
  <2> QED
    BY <2>3 DEF ScopesAreApart, Own
<1> QED
  BY <1>1, <1>2, PTL

-----------------------------------------------------------------------------
(* A request has one scoped object per key, for any classes whose          *)
(* constructor arguments are no part of a cycle.                           *)

-----------------------------------------------------------------------------
(* Keys can be ranked: constructor arguments rank below what they are      *)
(* arguments of, properties not above what they are properties of.  Cycles *)
(* of properties are fine, a cycle with a constructor argument is not.     *)

MadeClass(key) ==
  LET t == BindingOf(key).target IN IF t.kind = "object" THEN Given[t.of] ELSE t.of
PropKeys(key) == Props[IF key \in Classes THEN key ELSE MadeClass(key)]

Layered(rank) ==
  /\ \A key \in Keys : LET t == BindingOf(key).target
                       IN t.kind = "class" =>
                            \A i \in 1 .. Len(Args[t.of]) : rank[Args[t.of][i]] < rank[key]
  /\ \A key \in Keys : \A i \in 1 .. Len(PropKeys(key)) : rank[PropKeys(key)[i]] <= rank[key]
NoArgumentCycle == \E rank \in [Keys -> Nat] : Layered(rank)

-----------------------------------------------------------------------------
(* The invariant.                                                          *)

\* The class of an object is that of its key, when the key is none.
Known(heap, key, o) == key \notin Classes => heap[o].class = MadeClass(key)
FrameKnown(heap, p) ==
  /\ p.class = IF p.key \in Classes THEN p.key ELSE "none"
  /\ p.pc # "creating" => Known(heap, p.key, p.obj)
ClassesKnown ==
  /\ \A o \in 1 .. Len(Given) : objs[o].class = Given[o]
  /\ \A i \in 1 .. Len(singletons) : Known(objs, singletons[i].key, singletons[i].value)
  /\ \A r \in Reqs : \A i \in 1 .. Len(scoped[r]) : Known(objs, scoped[r][i].key, scoped[r][i].value)
  /\ \A r \in Reqs : \A k \in 1 .. Len(parsers[r]) : FrameKnown(objs, parsers[r][k])

\* A parser p is above q on the stack.
Over(rank, p, q) ==
  /\ q.pc \in {"creating", "props"}
  /\ rank[p.key] <= rank[q.key]
  /\ q.pc = "creating" => rank[p.key] < rank[q.key]
Descending(rank, r) ==
  \A k \in 1 .. Len(parsers[r]) : \A j \in 1 .. k - 1 : Over(rank, parsers[r][k], parsers[r][j])

\* What is being made is not there yet.
Making(p) == p.pc \in {"creating", "created"} /\ TypeOf(p) = "Scoped"
Absent(r, key) == \A i \in 1 .. Len(scoped[r]) : scoped[r][i].key # key
Unrecorded(r) == \A k \in 1 .. Len(parsers[r]) : Making(parsers[r][k]) => Absent(r, parsers[r][k].key)
Each(r) == \A i, j \in 1 .. Len(scoped[r]) : scoped[r][i].key = scoped[r][j].key => i = j

Once(rank) ==
  /\ ClassesKnown
  /\ \A r \in Reqs : Descending(rank, r) /\ Unrecorded(r) /\ Each(r)

-----------------------------------------------------------------------------
(* What a step keeps.                                                      *)

LEMMA KnownKept ==
  ASSUME NEW r \in Reqs, HeapStep(r), NEW key, NEW o \in 1 .. Len(objs), Known(objs, key, o)
  PROVE  Known(objs', key, o)
BY DEF HeapStep, Known

\* The objects parsers and records refer to exist.
LEMMA InHeap ==
  ASSUME IInv
  PROVE  /\ \A r \in Reqs : \A k \in 1 .. Len(parsers[r]) :
              parsers[r][k].pc # "creating" => parsers[r][k].obj \in 1 .. Len(objs)
         /\ \A i \in 1 .. Len(singletons) : singletons[i].value \in 1 .. Len(objs)
         /\ \A r \in Reqs : \A i \in 1 .. Len(scoped[r]) : scoped[r][i].value \in 1 .. Len(objs)
<1>1. Shape
  BY DEF IInv
<1>2. ASSUME NEW r \in Reqs, NEW k \in 1 .. Len(parsers[r]), parsers[r][k].pc # "creating"
      PROVE  parsers[r][k].obj \in 1 .. Len(objs)
  <2>1. parsers[r][k].obj \in Nat /\ Reaches(r, parsers[r][k].obj)
    BY <1>1, <1>2, TypesOfShape DEF Reaches, Names
  <2> QED
    BY <2>1 DEF IInv, Bounded
<1>3. \A x \in Record : x.value \in Nat
  BY DEF Record
<1>4. ASSUME NEW i \in 1 .. Len(singletons) PROVE singletons[i].value \in 1 .. Len(objs)
  <2>1. singletons \in Seq(Record)
    BY <1>1 DEF Shape
  <2>2. singletons[i].value \in Nat /\ Shared(singletons[i].value)
    BY <1>3, <2>1 DEF Shared
  <2> QED
    BY <2>2 DEF IInv, Bounded
<1>5. ASSUME NEW r \in Reqs, NEW i \in 1 .. Len(scoped[r]) PROVE scoped[r][i].value \in 1 .. Len(objs)
  <2>1. scoped[r] \in Seq(Record)
    BY <1>1 DEF Shape
  <2>2. scoped[r][i].value \in Nat /\ Mine(r, scoped[r][i].value)
    BY <1>3, <2>1 DEF Mine, Recorded
  <2> QED
    BY <2>2 DEF IInv, Bounded
<1> QED
  BY <1>2, <1>4, <1>5

\* The parser on top of the stack after a step, and the ones below it.
TopStep(rank, r, p) ==
  /\ FrameKnown(objs', p)
  /\ Making(p) => Absent(r, p.key)
  /\ \A k \in 1 .. Len(parsers'[r]) - 1 : Over(rank, p, parsers[r][k])
BelowStep(r) ==
  \A k \in 1 .. Len(parsers'[r]) - 1 :
    k \in 1 .. Len(parsers[r]) /\ Same(parsers'[r][k], parsers[r][k])

\* It is enough to look at the parser on top.
LEMMA StackKept ==
  ASSUME NEW rank, IInv, Once(rank), NEW r \in Reqs, StepOK(r), BelowStep(r),
         parsers'[r] # <<>> => TopStep(rank, r, parsers'[r][Len(parsers'[r])])
  PROVE  /\ \A k \in 1 .. Len(parsers'[r]) : FrameKnown(objs', parsers'[r][k])
         /\ Descending(rank, r)'
         /\ \A k \in 1 .. Len(parsers'[r]) : Making(parsers'[r][k]) => Absent(r, parsers'[r][k].key)
<1> DEFINE n == Len(parsers'[r])
<1>1. Shape' /\ HeapStep(r)
  BY DEF StepOK
<1>2. parsers'[r] \in Seq(Parser) /\ n \in Nat /\ (n > 0 => parsers'[r] # <<>>)
  BY <1>1 DEF Shape
<1>3. ASSUME NEW k \in 1 .. n - 1 PROVE FrameKnown(objs', parsers'[r][k])
  <2>1. k \in 1 .. Len(parsers[r]) /\ Same(parsers'[r][k], parsers[r][k])
    BY DEF BelowStep
  <2>2. FrameKnown(objs, parsers[r][k])
    BY <2>1 DEF Once, ClassesKnown
  <2>3. parsers[r][k].pc # "creating" => Known(objs', parsers[r][k].key, parsers[r][k].obj)
    BY <1>1, <2>1, <2>2, KnownKept, InHeap DEF FrameKnown
  <2> QED
    BY <2>1, <2>2, <2>3 DEF FrameKnown, Same
<1>4. ASSUME NEW k \in 1 .. n - 1, Making(parsers'[r][k]) PROVE Absent(r, parsers'[r][k].key)
  <2>1. k \in 1 .. Len(parsers[r]) /\ Same(parsers'[r][k], parsers[r][k])
    BY DEF BelowStep
  <2> QED
    BY <1>4, <2>1 DEF Once, Unrecorded, Making, Same, TypeOf
<1>5. ASSUME NEW k \in 1 .. n - 1, NEW j \in 1 .. k - 1 PROVE Over(rank, parsers'[r][k], parsers'[r][j])
  <2>1. k \in 1 .. Len(parsers[r]) /\ Same(parsers'[r][k], parsers[r][k])
    BY DEF BelowStep
  <2>2. j \in 1 .. n - 1
    BY <1>2
  <2>3. Same(parsers'[r][j], parsers[r][j])
    BY <2>2 DEF BelowStep
  <2>4. Over(rank, parsers[r][k], parsers[r][j])
    BY <2>1 DEF Once, Descending
  <2> QED
    BY <2>1, <2>3, <2>4 DEF Over, Same
<1>6. ASSUME n > 0, NEW j \in 1 .. n - 1 PROVE Over(rank, parsers'[r][n], parsers'[r][j])
  <2>1. Same(parsers'[r][j], parsers[r][j])
    BY DEF BelowStep
  <2>2. Over(rank, parsers'[r][n], parsers[r][j])
    BY <1>2, <1>6 DEF TopStep
  <2> QED
    BY <2>1, <2>2 DEF Over, Same
<1>7. \A k \in 1 .. n : k \in 1 .. n - 1 \/ (k = n /\ n > 0)
  BY <1>2
<1>8. n > 0 => FrameKnown(objs', parsers'[r][n]) /\ (Making(parsers'[r][n]) => Absent(r, parsers'[r][n].key))
  BY <1>2 DEF TopStep
<1>9. Descending(rank, r)'
  <2>1. \A k \in 1 .. n : \A j \in 1 .. k - 1 : Over(rank, parsers'[r][k], parsers'[r][j])
    <3> HIDE DEF n
    <3> QED
      BY <1>5, <1>6, <1>7
  <2> QED
    BY <2>1 DEF Descending
<1> HIDE DEF n
<1> QED
  BY <1>3, <1>4, <1>7, <1>8, <1>9 DEF n

\* What a step that records nothing keeps.
LEMMA OnceKept ==
  ASSUME NEW rank, IInv, Once(rank), NEW r \in Reqs, StepOK(r), BelowStep(r),
         parsers'[r] # <<>> => TopStep(rank, r, parsers'[r][Len(parsers'[r])]),
         UNCHANGED <<singletons, scoped>>
  PROVE  Once(rank)'
<1>1. /\ \A k \in 1 .. Len(parsers'[r]) : FrameKnown(objs', parsers'[r][k])
      /\ Descending(rank, r)'
      /\ \A k \in 1 .. Len(parsers'[r]) : Making(parsers'[r][k]) => Absent(r, parsers'[r][k].key)
  BY StackKept
<1>2. HeapStep(r) /\ \A q \in Reqs : q # r => parsers'[q] = parsers[q]
  BY DEF StepOK, OtherStep
<1>3. \A q \in Reqs : \A k \in 1 .. Len(parsers'[q]) : FrameKnown(objs', parsers'[q][k])
  <2>1. ASSUME NEW q \in Reqs, q # r, NEW k \in 1 .. Len(parsers[q]) PROVE FrameKnown(objs', parsers[q][k])
    <3>1. FrameKnown(objs, parsers[q][k])
      BY DEF Once, ClassesKnown
    <3> QED
      BY <1>2, <3>1, KnownKept, InHeap DEF FrameKnown
  <2> QED
    BY <1>1, <1>2, <2>1
<1>4. ClassesKnown'
  <2>1. \A o \in 1 .. Len(Given) : objs'[o].class = Given[o]
    <3>1. \A o \in 1 .. Len(Given) : o \in 1 .. Len(objs)
      BY DEF IInv, Bounded, Shape, InjectAssumption
    <3> QED
      BY <1>2, <3>1 DEF HeapStep, Once, ClassesKnown
  <2>2. \A i \in 1 .. Len(singletons) : Known(objs', singletons[i].key, singletons[i].value)
    BY <1>2, KnownKept, InHeap DEF Once, ClassesKnown
  <2>3. \A q \in Reqs : \A i \in 1 .. Len(scoped[q]) : Known(objs', scoped[q][i].key, scoped[q][i].value)
    BY <1>2, KnownKept, InHeap DEF Once, ClassesKnown
  <2> QED
    BY <1>3, <2>1, <2>2, <2>3 DEF ClassesKnown
<1>5. \A q \in Reqs : Descending(rank, q)' /\ Unrecorded(q)' /\ Each(q)'
  <2>1. Unrecorded(r)' /\ Each(r)'
    BY <1>1 DEF Unrecorded, Absent, Once, Each
  <2>2. \A q \in Reqs : q # r => Descending(rank, q)' /\ Unrecorded(q)' /\ Each(q)'
    <3>1. ASSUME NEW q \in Reqs, q # r PROVE Descending(rank, q)'
      BY <1>2, <3>1 DEF Once, Descending
    <3>2. ASSUME NEW q \in Reqs, q # r PROVE Unrecorded(q)' /\ Each(q)'
      BY <1>2, <3>2 DEF Once, Unrecorded, Absent, Each
    <3> QED
      BY <3>1, <3>2
  <2> QED
    BY <1>1, <2>1, <2>2
<1> QED
  BY <1>4, <1>5 DEF Once

-----------------------------------------------------------------------------
(* The actions.                                                            *)

\* The stack is what it was, or the lower part of it.
LEMMA SameStep ==
  ASSUME NEW rank, IInv, Once(rank), NEW r \in Reqs, StepOK(r), UNCHANGED <<singletons, scoped>>,
         Len(parsers'[r]) <= Len(parsers[r]),
         \A k \in 1 .. Len(parsers'[r]) : Same(parsers'[r][k], parsers[r][k])
  PROVE  Once(rank)'
<1> DEFINE m == Len(parsers'[r])
           n == Len(parsers[r])
           p == parsers'[r][m]
           old == parsers[r][m]
<1>1. Shape /\ Shape' /\ HeapStep(r)
  BY DEF IInv, StepOK
<1>2. m \in Nat /\ n \in Nat /\ m <= n /\ (parsers'[r] # <<>> => m > 0)
  <2>1. parsers[r] \in Seq(Parser) /\ parsers'[r] \in Seq(Parser)
    BY <1>1 DEF Shape
  <2>2. \A s \in Seq(Parser) : Len(s) \in Nat /\ (s # <<>> => Len(s) > 0)
    OBVIOUS
  <2> QED
    BY <2>1, <2>2
<1>3. BelowStep(r)
  <2>1. \A k \in 1 .. m - 1 : k \in 1 .. m /\ k \in 1 .. n
    BY <1>2
  <2> QED
    BY <2>1 DEF BelowStep
<1>4. ASSUME m > 0 PROVE TopStep(rank, r, p)
  <2>1. m \in 1 .. n /\ m \in 1 .. m
    BY <1>2, <1>4
  <2>2. Same(p, old)
    BY <2>1
  <2>3. FrameKnown(objs, old)
    BY <2>1 DEF Once, ClassesKnown
  <2>4. old.pc # "creating" => Known(objs', old.key, old.obj)
    BY <1>1, <2>1, <2>3, KnownKept, InHeap DEF FrameKnown
  <2>5. FrameKnown(objs', p)
    <3> HIDE DEF p, old
    <3> QED
      BY <2>2, <2>3, <2>4 DEF FrameKnown, Same
  <2>6. Making(old) => Absent(r, old.key)
    BY <2>1 DEF Once, Unrecorded
  <2>7. \A k \in 1 .. m - 1 : Over(rank, old, parsers[r][k])
    BY <2>1 DEF Once, Descending
  <2>8. \A k \in 1 .. m - 1 : Over(rank, p, parsers[r][k])
    <3> HIDE DEF p, old
    <3> QED
      BY <2>2, <2>7 DEF Over, Same
  <2>9. Making(p) => Absent(r, p.key)
    <3> HIDE DEF p, old
    <3> QED
      BY <2>2, <2>6 DEF Making, Same, TypeOf
  <2> QED
    BY <2>5, <2>8, <2>9 DEF TopStep
<1> QED
  BY <1>2, <1>3, <1>4, OnceKept

LEMMA QuietStep ==
  ASSUME NEW rank, IInv, Once(rank), NEW r \in Reqs, StepOK(r), UNCHANGED <<singletons, scoped, parsers>>
  PROVE  Once(rank)'
<1>1. Len(parsers[r]) \in Nat
  BY TypesOfShape DEF IInv
<1> QED
  BY <1>1, SameStep DEF Same

\* The parser on top goes on.
LEMMA GoKept ==
  ASSUME NEW rank, IInv, Once(rank), NEW r \in Reqs, StepOK(r), UNCHANGED <<singletons, scoped>>,
         NEW pc, At(r, pc), NEW q \in Parser, Go(r, q),
         q.key = Top(parsers[r]).key, q.class = Top(parsers[r]).class,
         q.pc # "creating" => Known(objs', q.key, q.obj),
         q.pc \in {"creating", "created"} => pc \in {"creating", "created"}
  PROVE  Once(rank)'
<1> DEFINE n == Len(parsers[r])
           p == Top(parsers[r])
<1>1. Shape
  BY DEF IInv
<1>2. parsers[r] # <<>> /\ n \in 1 .. n /\ p = parsers[r][n] /\ p.pc = pc
  BY <1>1, TopFacts
<1>3. /\ n \in Nat /\ n > 0 /\ Len(parsers'[r]) = n /\ parsers'[r][n] = q
      /\ \A k \in 1 .. n - 1 : parsers'[r][k] = parsers[r][k]
  BY <1>1, <1>2, GoFacts
<1> HIDE DEF p
<1>4. BelowStep(r)
  <2> HIDE DEF n
  <2>1. \A k \in 1 .. n - 1 : k \in 1 .. n
    BY <1>3
  <2> QED
    BY <1>3, <2>1 DEF BelowStep, Same, n
<1>5. FrameKnown(objs', q)
  <2>1. FrameKnown(objs, p)
    BY <1>2 DEF Once, ClassesKnown
  <2> QED
    BY <2>1 DEF FrameKnown, p
<1>6. Making(q) => Absent(r, q.key)
  <2>1. Making(p) => Absent(r, p.key)
    BY <1>2 DEF Once, Unrecorded
  <2> QED
    BY <1>2, <2>1 DEF Making, TypeOf, p
<1>7. \A k \in 1 .. n - 1 : Over(rank, q, parsers[r][k])
  <2>1. \A k \in 1 .. n - 1 : Over(rank, p, parsers[r][k])
    BY <1>2 DEF Once, Descending
  <2> QED
    BY <2>1 DEF Over, p
<1>8. TopStep(rank, r, q)
  BY <1>3, <1>5, <1>6, <1>7 DEF TopStep
<1> QED
  BY <1>3, <1>4, <1>8, OnceKept

\* It goes on with the object it has.
LEMMA GoOnKept ==
  ASSUME NEW rank, IInv, Once(rank), NEW r \in Reqs, StepOK(r), UNCHANGED <<singletons, scoped>>,
         NEW pc, At(r, pc), pc # "creating", NEW q \in Parser, Go(r, q),
         q.key = Top(parsers[r]).key, q.class = Top(parsers[r]).class, q.obj = Top(parsers[r]).obj,
         q.pc \notin {"creating", "created"}
  PROVE  Once(rank)'
<1> DEFINE n == Len(parsers[r])
<1>1. n \in 1 .. n /\ Top(parsers[r]) = parsers[r][n] /\ parsers[r][n].pc = pc
  BY TopFacts DEF IInv
<1>2. FrameKnown(objs, parsers[r][n]) /\ parsers[r][n].obj \in 1 .. Len(objs)
  BY <1>1, InHeap DEF Once, ClassesKnown
<1>3. Known(objs', q.key, q.obj)
  BY <1>1, <1>2, KnownKept DEF StepOK, FrameKnown
<1> QED
  BY <1>3, GoKept

\* What a parser begins with.
LEMMA ParsedKnown ==
  ASSUME InjectAssumption, NEW rank, IInv, Once(rank), NEW r \in Reqs, NEW key \in Keys
  PROVE  LET p == Parse(r, key)
         IN p \in Parser /\ p.key = key /\ FrameKnown(objs, p) /\ (Making(p) => Absent(r, key))
<1> DEFINE p == Parse(r, key)
           type == BindingOf(key).type
           records == Records(r, type)
<1>1. Shape
  BY DEF IInv
<1>2. /\ p \in Parser /\ p.key = key
      /\ p.class = IF key \in Classes THEN key ELSE "none"
      /\ \/ p.pc = "creating" /\ ~Exists(r, key)
         \/ p.pc = "found" /\ \E i \in DOMAIN records : records[i].key = key /\ records[i].value = p.obj
  BY <1>1, ParseFacts
<1>3. scoped[r] \in Seq(Record) /\ singletons \in Seq(Record)
  BY <1>1 DEF Shape
<1>4. ASSUME NEW i \in DOMAIN records PROVE Known(objs, records[i].key, records[i].value)
  <2>1. CASE type = "Singleton"
    <3>1. records = singletons /\ DOMAIN singletons = 1 .. Len(singletons)
      BY <1>3, <2>1 DEF Records
    <3> HIDE DEF records
    <3> QED
      BY <3>1 DEF Once, ClassesKnown
  <2>2. CASE type = "Scoped"
    <3>1. records = scoped[r] /\ DOMAIN scoped[r] = 1 .. Len(scoped[r])
      BY <1>3, <2>2 DEF Records
    <3> HIDE DEF records
    <3> QED
      BY <3>1 DEF Once, ClassesKnown
  <2>3. CASE type \notin {"Singleton", "Scoped"}
    <3>1. records = <<>>
      BY <2>3, Zenon DEF Records
    <3> QED
      BY <3>1
  <2> QED
    BY <2>1, <2>2, <2>3
<1>5. type = "Scoped" /\ ~Exists(r, key) => Absent(r, key)
  <2>1. type = "Scoped" => records = scoped[r]
    BY DEF Records
  <2>2. DOMAIN scoped[r] = 1 .. Len(scoped[r])
    BY <1>3
  <2> QED
    BY <2>1, <2>2 DEF Exists, Absent
<1> HIDE DEF p, records
<1>6. FrameKnown(objs, p)
  BY <1>2, <1>4 DEF FrameKnown
<1>7. Making(p) => Absent(r, key)
  BY <1>2, <1>5 DEF Making, TypeOf
<1> QED
  BY <1>2, <1>6, <1>7 DEF p

\* User code asks.
LEMMA FirstKept ==
  ASSUME NEW rank, IInv, Once(rank), NEW r \in Reqs, StepOK(r), UNCHANGED <<objs, singletons, scoped>>,
         NEW p \in Parser, parsers' = [parsers EXCEPT ![r] = <<p>>],
         FrameKnown(objs, p), Making(p) => Absent(r, p.key)
  PROVE  Once(rank)'
<1>1. Len(parsers'[r]) = 1 /\ parsers'[r][1] = p
  BY BeginFacts DEF IInv
<1>2. \A k \in 1 .. Len(parsers'[r]) - 1 : FALSE
  BY <1>1
<1>3. BelowStep(r)
  BY <1>2 DEF BelowStep
<1>4. TopStep(rank, r, p)
  BY <1>2 DEF TopStep
<1> QED
  BY <1>1, <1>3, <1>4, OnceKept

\* The parser on top asks for what ranks below it, or for a property.
LEMMA PushKept ==
  ASSUME NEW rank \in [Keys -> Nat], IInv, Once(rank), NEW r \in Reqs, StepOK(r),
         UNCHANGED <<objs, singletons, scoped>>, NEW pc, At(r, pc), pc \in {"creating", "props"},
         NEW p \in Parser, parsers' = [parsers EXCEPT ![r] = Append(@, p)],
         FrameKnown(objs, p), Making(p) => Absent(r, p.key),
         rank[p.key] <= rank[Top(parsers[r]).key],
         pc = "creating" => rank[p.key] < rank[Top(parsers[r]).key]
  PROVE  Once(rank)'
<1> DEFINE n == Len(parsers[r])
           t == Top(parsers[r])
<1>1. Shape
  BY DEF IInv
<1>2. n \in Nat /\ n \in 1 .. n /\ t = parsers[r][n] /\ t.pc = pc /\ t.key \in Keys
  BY <1>1, TopFacts
<1>3. /\ Len(parsers'[r]) = n + 1 /\ parsers'[r][n + 1] = p
      /\ \A k \in 1 .. n : parsers'[r][k] = parsers[r][k]
  BY <1>1, CallFacts
<1> HIDE DEF t
<1>4. BelowStep(r)
  <2>1. \A k \in 1 .. n + 1 - 1 : k \in 1 .. n
    BY <1>2
  <2> QED
    BY <1>3, <2>1 DEF BelowStep, Same
<1>5. \A k \in 1 .. n : Over(rank, p, parsers[r][k])
  <2>1. Over(rank, p, t)
    BY <1>2 DEF Over, t
  <2>2. ASSUME NEW k \in 1 .. n - 1 PROVE Over(rank, p, parsers[r][k])
    <3>1. Over(rank, t, parsers[r][k])
      BY <1>2, <2>2 DEF Once, Descending
    <3>2. k \in 1 .. n
      BY <1>2
    <3>3. parsers[r][k].key \in Keys /\ p.key \in Keys
      BY <1>1, <3>2, TypesOfShape DEF Parser
    <3>4. rank[p.key] \in Nat /\ rank[t.key] \in Nat /\ rank[parsers[r][k].key] \in Nat
      BY <1>2, <3>3
    <3> QED
      BY <2>1, <3>1, <3>4 DEF Over, t
  <2>3. \A k \in 1 .. n : k = n \/ k \in 1 .. n - 1
    BY <1>2
  <2> QED
    BY <1>2, <2>1, <2>2, <2>3
<1>6. TopStep(rank, r, p)
  <2>1. \A k \in 1 .. Len(parsers'[r]) - 1 : k \in 1 .. n /\ parsers'[r][k] = parsers[r][k]
    <3> HIDE DEF n
    <3> QED
      BY <1>2, <1>3
  <2> QED
    BY <1>5, <2>1 DEF TopStep
<1> QED
  BY <1>2, <1>3, <1>4, <1>6, OnceKept

LEMMA ParseKeyOnce ==
  ASSUME InjectAssumption, NEW rank, IInv, Once(rank), NEW r \in Reqs, ParseKey(r)
  PROVE  Once(rank)'
<1>1. PICK key \in Wanted : parsers' = [parsers EXCEPT ![r] = <<Parse(r, key)>>]
  BY DEF ParseKey
<1>2. key \in Keys /\ UNCHANGED <<objs, singletons, scoped>> /\ StepOK(r)
  BY ParseKeyStep DEF InjectAssumption, ParseKey
<1> QED
  BY <1>1, <1>2, ParsedKnown, FirstKept

LEMMA ParseInstanceOnce ==
  ASSUME InjectAssumption, NEW rank, IInv, Once(rank), NEW r \in Reqs, ParseInstance(r)
  PROVE  Once(rank)'
<1>1. PICK o \in Instances : parsers' = [parsers EXCEPT ![r] =
          <<[key |-> objs[o].class, class |-> objs[o].class, obj |-> o, pc |-> "found", i |-> 1, args |-> {}]>>]
  BY DEF ParseInstance
<1> DEFINE c == objs[o].class
           p == [key |-> c, class |-> c, obj |-> o, pc |-> "found", i |-> 1, args |-> {}]
<1>2. UNCHANGED <<objs, singletons, scoped>> /\ StepOK(r)
  BY ParseInstanceStep DEF ParseInstance
<1>3. o \in 1 .. Len(Given) /\ o \in Nat /\ Classes \subseteq Keys
  BY DEF InjectAssumption
<1>4. c \in Classes
  <2>1. o \in 1 .. Len(objs)
    BY <1>3 DEF IInv, Shape, Bounded, InjectAssumption
  <2>2. objs[o] \in Obj
    BY <2>1 DEF IInv, Shape
  <2> QED
    BY <2>2 DEF Obj
<1> HIDE DEF c
<1>5. p \in Parser /\ FrameKnown(objs, p) /\ ~Making(p)
  BY <1>3, <1>4 DEF Parser, PCs, FrameKnown, Known, Making
<1>6. parsers' = [parsers EXCEPT ![r] = <<p>>]
  BY <1>1 DEF c
<1> HIDE DEF p
<1> QED
  BY <1>2, <1>5, <1>6, FirstKept

LEMMA ParseArgOnce ==
  ASSUME InjectAssumption, NEW rank \in [Keys -> Nat], Layered(rank), IInv, Once(rank), NEW r \in Reqs, ParseArg(r)
  PROVE  Once(rank)'
<1> DEFINE p == Top(parsers[r])
           t == TargetOf(p)
           key == Args[t.of][p.i]
<1>1. At(r, "creating") /\ t.kind = "class" /\ p.i <= Len(Args[t.of])
      /\ parsers' = [parsers EXCEPT ![r] = Append(@, Parse(r, key))]
      /\ UNCHANGED <<objs, singletons, scoped>>
  BY DEF ParseArg
<1>2. p.key \in Keys /\ p.i \in Nat \ {0} /\ StepOK(r)
  BY <1>1, TopFacts, ParseArgStep DEF IInv
<1>3. Args[t.of] \in Seq(Keys) /\ t = BindingOf(p.key).target
  <2>1. t \in Target
    BY <1>2, BindingFacts DEF TargetOf, Binding
  <2>2. t.of \in Classes
    <3> HIDE DEF t
    <3> QED
      BY <1>1, <2>1 DEF Target
  <2> QED
    BY <2>2 DEF InjectAssumption, TargetOf
<1> HIDE DEF t, p
<1>4. p.i \in 1 .. Len(Args[t.of]) /\ key \in Keys
  BY <1>1, <1>2, <1>3
<1>5. rank[key] < rank[p.key]
  BY <1>1, <1>2, <1>3, <1>4 DEF Layered
<1>6. rank[key] \in Nat /\ rank[p.key] \in Nat
  BY <1>2, <1>4
<1> HIDE DEF key
<1>7. rank[key] <= rank[p.key]
  BY <1>5, <1>6
<1>8. Parse(r, key) \in Parser /\ Parse(r, key).key = key /\ FrameKnown(objs, Parse(r, key))
      /\ (Making(Parse(r, key)) => Absent(r, key))
  BY <1>4, ParsedKnown
<1>9. rank[key] < rank[Top(parsers[r]).key] /\ rank[key] <= rank[Top(parsers[r]).key]
  BY <1>5, <1>7 DEF p
<1> QED
  BY <1>1, <1>2, <1>8, <1>9, PushKept

LEMMA ParsePropOnce ==
  ASSUME InjectAssumption, NEW rank \in [Keys -> Nat], Layered(rank), IInv, Once(rank), NEW r \in Reqs, ParseProp(r)
  PROVE  Once(rank)'
<1> DEFINE p == Top(parsers[r])
           key == PropsOf(p)[p.i]
           n == Len(parsers[r])
<1>1. At(r, "props") /\ p.i <= Len(PropsOf(p))
      /\ parsers' = [parsers EXCEPT ![r] = Append(@, Parse(r, key))]
      /\ UNCHANGED <<objs, singletons, scoped>>
  BY DEF ParseProp
<1>2. p.key \in Keys /\ p.i \in Nat \ {0} /\ p.pc = "props" /\ n \in 1 .. n /\ p = parsers[r][n] /\ StepOK(r)
  BY <1>1, TopFacts, ParsePropStep DEF IInv
<1>3. FrameKnown(objs, p) /\ objs[p.obj].class \in Classes
  <2>1. FrameKnown(objs, p)
    BY <1>2 DEF Once, ClassesKnown
  <2>2. objs[p.obj] \in Obj
    BY <1>1, TopObject
  <2> QED
    BY <2>1, <2>2 DEF Obj
<1> HIDE DEF p, n
<1>4. PropsOf(p) = PropKeys(p.key) /\ PropsOf(p) \in Seq(Keys)
  <2>1. CASE p.key \in Classes
    BY <1>3, <2>1 DEF FrameKnown, PropsOf, PropKeys, InjectAssumption
  <2>2. CASE p.key \notin Classes
    BY <1>2, <1>3, <2>2 DEF FrameKnown, Known, PropsOf, PropKeys, InjectAssumption
  <2> QED
    BY <2>1, <2>2
<1>5. p.i \in 1 .. Len(PropKeys(p.key)) /\ key \in Keys /\ key = PropKeys(p.key)[p.i]
  BY <1>1, <1>2, <1>4
<1>6. rank[key] <= rank[p.key]
  BY <1>2, <1>5 DEF Layered
<1> HIDE DEF key
<1> QED
  BY <1>1, <1>2, <1>5, <1>6, ParsedKnown, PushKept DEF p

LEMMA CreateOnce ==
  ASSUME InjectAssumption, NEW rank, IInv, Once(rank), NEW r \in Reqs, Create(r)
  PROVE  Once(rank)'
<1> DEFINE p == Top(parsers[r])
           t == TargetOf(p)
           n == Len(objs)
<1>1. At(r, "creating") /\ UNCHANGED <<singletons, scoped>> /\ StepOK(r)
  BY CreateStep DEF Create
<1>2. p \in Parser /\ p.key \in Keys /\ p.args \in SUBSET Nat /\ objs \in Seq(Obj) /\ n \in Nat
  <2>1. Shape
    BY DEF IInv
  <2>2. p \in Parser /\ p.key \in Keys /\ p.args \in SUBSET Nat
    BY <1>1, <2>1, TopFacts, Zenon
  <2>3. objs \in Seq(Obj)
    BY <2>1 DEF Shape
  <2> QED
    BY <2>2, <2>3
<1>3. t \in Target /\ MadeClass(p.key) = IF t.kind = "object" THEN Given[t.of] ELSE t.of
  BY <1>2, BindingFacts DEF TargetOf, Binding, MadeClass
<1>4. CASE t.kind = "object" /\ Go(r, [p EXCEPT !.pc = "created", !.obj = t.of]) /\ UNCHANGED objs
  <2> DEFINE q == [p EXCEPT !.pc = "created", !.obj = t.of]
  <2>1. t.of \in 1 .. Len(Given) /\ t.of \in Nat
    <3> HIDE DEF t
    <3> QED
      BY <1>3, <1>4 DEF Target, InjectAssumption
  <2>2. q \in Parser /\ q.pc = "created" /\ q.key = p.key /\ q.class = p.class /\ q.obj = t.of
    <3>1. q = [p EXCEPT !.pc = "created", !.obj = t.of]
      OBVIOUS
    <3> HIDE DEF q, t, p
    <3> QED
      BY <1>2, <2>1, <3>1 DEF Parser, PCs
  <2>3. Known(objs', q.key, q.obj)
    <3> HIDE DEF q, t, p
    <3> QED
      BY <1>3, <1>4, <2>1, <2>2 DEF Known, Once, ClassesKnown
  <2> HIDE DEF q
  <2> QED
    BY <1>1, <1>4, <2>2, <2>3, GoKept DEF q
<1>5. CASE /\ t.kind # "object" /\ objs' = Append(objs, NewObject(t.of, p.args))
           /\ Go(r, [p EXCEPT !.pc = "created", !.obj = Len(objs) + 1])
  <2> DEFINE q == [p EXCEPT !.pc = "created", !.obj = Len(objs) + 1]
             x == NewObject(t.of, p.args)
  <2>1. q \in Parser /\ q.pc = "created" /\ q.key = p.key /\ q.class = p.class /\ q.obj = n + 1
    <3>1. q = [p EXCEPT !.pc = "created", !.obj = n + 1]
      OBVIOUS
    <3>2. n + 1 \in Nat
      BY <1>2
    <3> HIDE DEF q, p, n
    <3> QED
      BY <1>2, <3>1, <3>2 DEF Parser, PCs
  <2>2. t.of \in Classes
    <3> HIDE DEF t
    <3> QED
      BY <1>3, <1>5 DEF Target
  <2>3. x \in Obj /\ x.class = t.of
    <3> HIDE DEF t, p
    <3> QED
      BY <1>2, <2>2 DEF Obj, NewObject
  <2>4. objs' = Append(objs, x)
    BY <1>5
  <2> HIDE DEF x
  <2>5. objs'[n + 1] = x
    BY <1>2, <2>3, <2>4
  <2>6. Known(objs', q.key, q.obj)
    <3> HIDE DEF q, t, p, n
    <3> QED
      BY <1>3, <1>5, <2>1, <2>3, <2>5 DEF Known
  <2> HIDE DEF q
  <2> QED
    BY <1>1, <1>5, <2>1, <2>6, GoKept DEF q
<1> QED
  BY <1>4, <1>5 DEF Create

LEMMA PushRecordOnce ==
  ASSUME InjectAssumption, NEW rank \in [Keys -> Nat], IInv, Once(rank), NEW r \in Reqs, PushRecord(r)
  PROVE  Once(rank)'
<1> DEFINE p == Top(parsers[r])
           rec == [key |-> p.key, value |-> p.obj]
           type == BindingOf(p.key).type
           q == [p EXCEPT !.pc = "found"]
           n == Len(parsers[r])
<1>1. Shape /\ At(r, "created") /\ StepOK(r)
  BY PushRecordStep DEF IInv, PushRecord
<1>2. parsers[r] # <<>> /\ p \in Parser /\ p.key \in Keys /\ p.pc = "created"
      /\ n \in Nat /\ n \in 1 .. n /\ p = parsers[r][n]
  BY <1>1, TopFacts
<1>3. UNCHANGED objs
      /\ Go(r, q)
      /\ singletons' = (IF type = "Singleton" THEN Append(singletons, rec) ELSE singletons)
      /\ scoped' = (IF type = "Scoped" THEN [scoped EXCEPT ![r] = Append(@, rec)] ELSE scoped)
  BY DEF PushRecord
<1>4. q \in Parser /\ q.pc = "found" /\ q.key = p.key /\ q.class = p.class /\ q.obj = p.obj
  <2>1. q = [p EXCEPT !.pc = "found"] /\ "found" \in PCs
    BY DEF PCs
  <2> HIDE DEF q, p
  <2> QED
    BY <1>2, <2>1, PlaceUpdated
<1>5. rec.key = p.key /\ rec.value = p.obj
  OBVIOUS
<1> HIDE DEF q, rec, p
<1>6. /\ Len(parsers'[r]) = n /\ parsers'[r][n] = q
      /\ \A k \in 1 .. n - 1 : parsers'[r][k] = parsers[r][k]
  BY <1>1, <1>2, <1>3, <1>4, GoFacts
<1>7. FrameKnown(objs, p) /\ (type = "Scoped" => Absent(r, p.key))
      /\ \A k \in 1 .. n - 1 : Over(rank, p, parsers[r][k])
  <2>1. Making(p) => Absent(r, p.key)
    BY <1>2 DEF Once, Unrecorded
  <2> QED
    BY <1>2, <2>1 DEF Once, ClassesKnown, Descending, Making, TypeOf
<1>8. Known(objs, rec.key, rec.value)
  BY <1>2, <1>5, <1>7 DEF FrameKnown
<1>9. BelowStep(r)
  <2> HIDE DEF n
  <2>1. \A k \in 1 .. n - 1 : k \in 1 .. n
    BY <1>2
  <2> QED
    BY <1>6, <2>1 DEF BelowStep, Same, n
<1>10. TopStep(rank, r, q)
  <2>1. FrameKnown(objs', q) /\ ~Making(q)
    BY <1>3, <1>4, <1>5, <1>7, <1>8 DEF FrameKnown, Making
  <2>2. \A k \in 1 .. n - 1 : Over(rank, q, parsers[r][k])
    BY <1>4, <1>7 DEF Over
  <2> QED
    BY <1>6, <2>1, <2>2 DEF TopStep
<1>11. /\ \A k \in 1 .. Len(parsers'[r]) : FrameKnown(objs', parsers'[r][k])
       /\ Descending(rank, r)'
       /\ \A k \in 1 .. Len(parsers'[r]) : Making(parsers'[r][k]) => Absent(r, parsers'[r][k].key)
  BY <1>1, <1>6, <1>9, <1>10, StackKept
<1>12. \A y \in Reqs : y # r => parsers'[y] = parsers[y] /\ scoped'[y] = scoped[y]
  BY <1>1 DEF StepOK, OtherStep
<1> HIDE DEF type
\* The records of the request: those of before, and one more if it is scoped.
<1>13. /\ \A i \in 1 .. Len(singletons') :
            (i \in 1 .. Len(singletons) /\ singletons'[i] = singletons[i]) \/ singletons'[i] = rec
       /\ type # "Scoped" => scoped' = scoped
       /\ type = "Scoped" => /\ Len(scoped'[r]) = Len(scoped[r]) + 1 /\ scoped'[r][Len(scoped[r]) + 1] = rec
                             /\ \A i \in 1 .. Len(scoped[r]) : scoped'[r][i] = scoped[r][i]
  <2>1. singletons \in Seq(Record) /\ scoped[r] \in Seq(Record) /\ scoped \in [Reqs -> Seq(Record)]
    BY <1>1 DEF Shape
  <2>2. type = "Scoped" => scoped'[r] = Append(scoped[r], rec)
    BY <1>3, <2>1
  <2>3. \A s \in Seq(Record) : /\ Len(Append(s, rec)) = Len(s) + 1 /\ Append(s, rec)[Len(s) + 1] = rec
                               /\ \A i \in 1 .. Len(s) : Append(s, rec)[i] = s[i]
                               /\ \A i \in 1 .. Len(s) + 1 : i \in 1 .. Len(s) \/ i = Len(s) + 1
    OBVIOUS
  <2> QED
    BY <1>3, <2>1, <2>2, <2>3
<1>14. \A i \in 1 .. Len(scoped'[r]) :
         \/ i \in 1 .. Len(scoped[r]) /\ scoped'[r][i] = scoped[r][i]
         \/ type = "Scoped" /\ i = Len(scoped[r]) + 1 /\ scoped'[r][i] = rec
  <2>1. Len(scoped[r]) \in Nat
    BY <1>1, TypesOfShape
  <2>2. \A i \in 1 .. Len(scoped[r]) + 1 : i \in 1 .. Len(scoped[r]) \/ i = Len(scoped[r]) + 1
    BY <2>1
  <2> QED
    BY <1>13, <2>2
<1>15. ClassesKnown'
  <2>1. \A o \in 1 .. Len(Given) : objs'[o].class = Given[o]
    BY <1>3 DEF Once, ClassesKnown
  <2>2. \A i \in 1 .. Len(singletons') : Known(objs', singletons'[i].key, singletons'[i].value)
    BY <1>3, <1>8, <1>13 DEF Once, ClassesKnown
  <2>3. \A y \in Reqs : \A i \in 1 .. Len(scoped'[y]) : Known(objs', scoped'[y][i].key, scoped'[y][i].value)
    <3>1. \A y \in Reqs : \A i \in 1 .. Len(scoped[y]) : Known(objs, scoped[y][i].key, scoped[y][i].value)
      BY DEF Once, ClassesKnown
    <3>2. objs' = objs
      BY <1>3
    <3>3. \A y \in Reqs : y # r => \A i \in 1 .. Len(scoped'[y]) : Known(objs', scoped'[y][i].key, scoped'[y][i].value)
      BY <1>12, <3>1, <3>2
    <3>4. \A i \in 1 .. Len(scoped'[r]) : Known(objs', scoped'[r][i].key, scoped'[r][i].value)
      BY <1>8, <1>14, <3>1, <3>2
    <3> QED
      BY <3>3, <3>4
  <2>4. \A y \in Reqs : \A k \in 1 .. Len(parsers'[y]) : FrameKnown(objs', parsers'[y][k])
    BY <1>3, <1>11, <1>12 DEF Once, ClassesKnown
  <2> QED
    BY <2>1, <2>2, <2>3, <2>4 DEF ClassesKnown
<1>16. Unrecorded(r)'
  <2> SUFFICES ASSUME NEW k \in 1 .. n, Making(parsers'[r][k]), NEW i \in 1 .. Len(scoped'[r])
               PROVE  scoped'[r][i].key # parsers'[r][k].key
    BY <1>6 DEF Unrecorded, Absent
  <2>1. Absent(r, parsers'[r][k].key)
    BY <1>6, <1>11
  <2>2. k \in 1 .. n - 1
    <3>1. k # n
      BY <1>4, <1>6 DEF Making
    <3> HIDE DEF n
    <3> QED
      BY <1>2, <3>1
  <2>3. parsers'[r][k] = parsers[r][k] /\ Over(rank, p, parsers[r][k])
    BY <1>6, <1>7, <2>2
  <2>4. rank[p.key] < rank[parsers'[r][k].key] /\ rank[p.key] \in Nat
    BY <1>2, <2>3 DEF Over, Making
  <2>5. rec.key # parsers'[r][k].key
    BY <1>5, <2>4
  <2> QED
    BY <1>14, <2>1, <2>5 DEF Absent
<1>17. Each(r)'
  <2> SUFFICES ASSUME NEW i \in 1 .. Len(scoped'[r]), NEW j \in 1 .. Len(scoped'[r]),
                      scoped'[r][i].key = scoped'[r][j].key
               PROVE  i = j
    BY DEF Each
  <2>1. type = "Scoped" => \A k \in 1 .. Len(scoped[r]) : scoped[r][k].key # rec.key
    BY <1>5, <1>7 DEF Absent
  <2> QED
    BY <1>14, <2>1 DEF Once, Each
<1>18. \A y \in Reqs : Descending(rank, y)' /\ Unrecorded(y)' /\ Each(y)'
  <2>1. \A y \in Reqs : y # r => Descending(rank, y)' /\ Unrecorded(y)' /\ Each(y)'
    <3> SUFFICES ASSUME NEW y \in Reqs, y # r PROVE Descending(rank, y)' /\ Unrecorded(y)' /\ Each(y)'
      OBVIOUS
    <3>1. parsers'[y] = parsers[y] /\ scoped'[y] = scoped[y]
      BY <1>12
    <3>2. Descending(rank, y) /\ Unrecorded(y) /\ Each(y)
      BY DEF Once
    <3>3. Descending(rank, y)'
      BY <3>1, <3>2 DEF Descending
    <3>4. Unrecorded(y)' /\ Each(y)'
      BY <3>1, <3>2 DEF Unrecorded, Absent, Each
    <3> QED
      BY <3>3, <3>4
  <2> QED
    BY <1>11, <1>16, <1>17, <2>1
<1> QED
  BY <1>15, <1>18 DEF Once

LEMMA SkipInjectionOnce ==
  ASSUME NEW rank, IInv, Once(rank), NEW r \in Reqs, SkipInjection(r) \/ FinishInjection(r)
  PROVE  Once(rank)'
<1> DEFINE p == Top(parsers[r])
           n == Len(parsers[r])
<1>1. ReturnFrom(r, p) /\ UNCHANGED <<singletons, scoped>> /\ StepOK(r)
      /\ (At(r, "found") \/ At(r, "initialized"))
  BY SkipInjectionStep, FinishInjectionStep DEF SkipInjection, FinishInjection
<1>2. p \in Parser /\ parsers[r] # <<>> /\ Shape
  BY <1>1, TopFacts DEF IInv
<1> HIDE DEF p
<1>3. /\ n \in Nat /\ n > 0 /\ Len(parsers'[r]) = n - 1
      /\ \A k \in 1 .. n - 2 : parsers'[r][k] = parsers[r][k]
      /\ n > 1 => Same(parsers'[r][n - 1], parsers[r][n - 1])
  BY <1>1, <1>2, ReturnFacts
<1>4. \A k \in 1 .. Len(parsers'[r]) : Same(parsers'[r][k], parsers[r][k])
  <2> HIDE DEF n
  <2>1. \A k \in 1 .. n - 1 : k \in 1 .. n - 2 \/ (n > 1 /\ k = n - 1)
    BY <1>3
  <2> QED
    BY <1>3, <2>1 DEF Same
<1>5. Len(parsers'[r]) <= n
  BY <1>3
<1> QED
  BY <1>1, <1>4, <1>5, SameStep

LEMMA ParseFailsOnce ==
  ASSUME NEW rank, IInv, Once(rank), NEW r \in Reqs, ParseFails(r)
  PROVE  Once(rank)'
<1>1. parsers'[r] = <<>> /\ UNCHANGED <<singletons, scoped>> /\ StepOK(r)
  BY ParseFailsStep DEF ParseFails, IInv, Shape
<1>2. Len(parsers'[r]) = 0 /\ Len(parsers[r]) \in Nat
  BY <1>1, TypesOfShape DEF IInv
<1> QED
  BY <1>1, <1>2, SameStep

LEMMA GoingOnce ==
  ASSUME NEW rank, IInv, Once(rank), NEW r \in Reqs, StartInjection(r) \/ InjectProps(r) \/ Initialize(r)
  PROVE  Once(rank)'
<1> DEFINE p == Top(parsers[r])
<1>1. PICK pc, q : At(r, pc) /\ pc # "creating" /\ Go(r, q)
                   /\ ((\E to \in {"initializing", "initialized"} : q = [p EXCEPT !.pc = to])
                       \/ q = [p EXCEPT !.pc = "props", !.i = 1])
                   /\ UNCHANGED <<singletons, scoped>>
  BY DEF StartInjection, InjectProps, Initialize
<1>2. StepOK(r)
  BY StartInjectionStep, InjectPropsStep, InitializeStep
<1>3. p \in Parser
  BY <1>1, TopFacts DEF IInv
<1> HIDE DEF p
<1>4. q \in Parser /\ q.key = p.key /\ q.class = p.class /\ q.obj = p.obj
      /\ q.pc \in {"initializing", "initialized", "props"}
  <2>1. ASSUME NEW to \in {"initializing", "initialized"}, q = [p EXCEPT !.pc = to]
        PROVE  q \in Parser /\ q.key = p.key /\ q.class = p.class /\ q.obj = p.obj /\ q.pc = to
    <3>1. to \in PCs
      BY DEF PCs
    <3> QED
      BY <1>3, <2>1, <3>1, PlaceUpdated
  <2>2. ASSUME q = [p EXCEPT !.pc = "props", !.i = 1]
        PROVE  q \in Parser /\ q.key = p.key /\ q.class = p.class /\ q.obj = p.obj /\ q.pc = "props"
    BY <1>3, <2>2, CounterUpdated
  <2> QED
    BY <1>1, <2>1, <2>2
<1> QED
  BY <1>1, <1>2, <1>4, GoOnKept DEF p

LEMMA QuietOnce ==
  ASSUME InjectAssumption, NEW rank, IInv, Once(rank), NEW r \in Reqs,
         Begin(r) \/ Leave(r) \/ Unwind(r) \/ DisposeNext(r) \/ DisposeFails(r) \/ Finish(r)
  PROVE  Once(rank)'
<1>1. StepOK(r)
  BY BeginStep, LeaveStep, UnwindStep, DisposeNextStep, DisposeFailsStep, FinishStep
<1>2. UNCHANGED <<singletons, scoped, parsers>>
  BY DEF Begin, Leave, Unwind, DisposeNext, DisposeFails, Finish
<1> QED
  BY <1>1, <1>2, QuietStep

LEMMA StepOnce ==
  ASSUME InjectAssumption, NEW rank \in [Keys -> Nat], Layered(rank), IInv, Once(rank), [Next]_vars
  PROVE  Once(rank)'
<1>1. CASE UNCHANGED vars
  BY <1>1 DEF vars, Once, ClassesKnown, Descending, Unrecorded, Absent, Each
<1>2. CASE Next
  <2>1. PICK r \in Reqs : Begin(r) \/ ParseKey(r) \/ ParseInstance(r) \/ Advance(r)
    BY <1>2 DEF Next
  <2>2. Advance(r) => Once(rank)'
    BY ParseArgOnce, CreateOnce, PushRecordOnce, SkipInjectionOnce, GoingOnce, ParsePropOnce,
       ParseFailsOnce, QuietOnce, Zenon DEF Advance
  <2> QED
    BY <2>1, <2>2, QuietOnce, ParseKeyOnce, ParseInstanceOnce
<1> QED
  BY <1>1, <1>2

LEMMA InitOnce ==
  ASSUME InjectAssumption, NEW rank, Init
  PROVE  Once(rank)
<1>1. Given \in Seq(Classes) /\ \A r \in Reqs : Len(scoped[r]) = 0 /\ Len(parsers[r]) = 0
  BY DEF Init, InjectAssumption
<1>2. \A o \in 1 .. Len(Given) : objs[o].class = Given[o]
  BY <1>1 DEF Init, NewObject
<1>3. Len(singletons) = 0
  BY DEF Init
<1>4. ClassesKnown
  BY <1>1, <1>2, <1>3 DEF ClassesKnown
<1> QED
  BY <1>1, <1>4 DEF Once, Descending, Unrecorded, Each

\* A request has one scoped object per key, however its parsers and those of
\* other requests interleave: getExistInjectRecord sees what the parsers that
\* are pending will record, unless a key is asked for by one of its own
\* constructor arguments.
THEOREM OneScopedPerRequest == NoArgumentCycle => (Spec => []OneScopedEach)
<1> SUFFICES ASSUME NoArgumentCycle PROVE Spec => []OneScopedEach
  OBVIOUS
<1>1. PICK rank \in [Keys -> Nat] : Layered(rank)
  BY DEF NoArgumentCycle
<1>2. InjectAssumption
  BY InjectAssumption
<1>3. Init => IInv /\ Once(rank)
  BY <1>2, InitIInv, InitOnce
<1>4. IInv /\ Once(rank) /\ [Next]_vars => IInv' /\ Once(rank)'
  BY <1>1, <1>2, StepIInv, StepOnce
<1>5. IInv /\ Once(rank) => OneScopedEach
  <2> SUFFICES ASSUME IInv, Once(rank) PROVE OneScopedEach
    OBVIOUS
  <2>1. \A r \in Reqs : DOMAIN scoped[r] = 1 .. Len(scoped[r])
    BY DEF IInv, Shape
  <2> QED
    BY <2>1 DEF OneScopedEach, Once, Each
<1> QED
  BY <1>3, <1>4, <1>5, PTL DEF Spec
-----------------------------------------------------------------------------
(* Scoped objects in the hands of user code are initialized.  The flag     *)
(* INITIALIZING_EXECUTED makes injectObj return at once: an object that    *)
(* has it and is not ready is worked on by a parser of its own request, so *)
(* that only that parser's children get it half made.                      *)

Working(p, o) == p.obj = o /\ p.pc \in {"initializing", "props", "initialized"}
AtWork(r, o) == \E k \in 1 .. Len(parsers[r]) : Working(parsers[r][k], o)
ReadyOf(r) ==
  thrown[r] = 0 =>
    \A o \in 1 .. Len(objs) : Mine(r, o) =>
      /\ objs[o].initializing => objs[o].ready \/ AtWork(r, o)
      /\ o \in held[r] => objs[o].ready
ReadyInv == \A r \in Reqs : ReadyOf(r)

\* What one step of request r may do to the flags.
FlagStep(r) ==
  /\ \A q \in Reqs : q # r => thrown'[q] = thrown[q]
  /\ thrown'[r] = 0 => thrown[r] = 0
  /\ \A o \in 1 .. Len(objs) :
       /\ objs[o].ready => objs'[o].ready
       /\ objs'[o].initializing => objs[o].initializing \/ (Reaches(r, o) /\ AtWork(r, o)')
  /\ \A o : Fresh(o) => ~objs'[o].initializing
  /\ thrown'[r] = 0 => \A o \in 1 .. Len(objs) : AtWork(r, o) => AtWork(r, o)' \/ objs'[o].ready
  /\ \A o \in held'[r] : o \in held[r] \/ objs'[o].ready \/ (objs[o].initializing /\ ~AtWork(r, o))

LEMMA ReadyKept ==
  ASSUME GivenAreSingletons, IInv, Apart, ReadyInv, NEW r \in Reqs, StepOK(r), FlagStep(r)
  PROVE  ReadyInv'
<1>1. Len(objs) \in Nat /\ Len(objs') \in Nat /\ Len(objs) <= Len(objs')
  <2>1. objs \in Seq(Obj) /\ objs' \in Seq(Obj)
    BY Zenon DEF IInv, StepOK, Shape
  <2>2. Len(objs) <= Len(objs')
    BY Zenon DEF StepOK, HeapStep
  <2> QED
    BY <2>1, <2>2
<1>2. ASSUME NEW q \in Reqs, q # r PROVE ReadyOf(q)'
  <2>1. thrown'[q] = thrown[q] /\ parsers'[q] = parsers[q] /\ held'[q] = held[q]
    BY <1>2 DEF FlagStep, StepOK, OtherStep
  <2> SUFFICES ASSUME thrown[q] = 0, NEW o \in 1 .. Len(objs'), Mine(q, o)'
               PROVE  /\ objs'[o].initializing => objs'[o].ready \/ AtWork(q, o)'
                      /\ o \in held'[q] => objs'[o].ready
    BY <2>1, Zenon DEF ReadyOf
  <2>2. Mine(q, o)
    BY <1>1, <1>2, MineStep
  <2>3. o \in 1 .. Len(objs) /\ ~Reaches(r, o)
    BY <1>1, <1>2, <2>2 DEF IInv, Bounded, Apart
  <2>4. /\ objs[o].initializing => objs[o].ready \/ AtWork(q, o)
        /\ o \in held[q] => objs[o].ready
    BY <2>2, <2>3 DEF ReadyInv, ReadyOf
  <2>5. AtWork(q, o)' <=> AtWork(q, o)
    BY <2>1 DEF AtWork
  <2> QED
    BY <2>1, <2>3, <2>4, <2>5 DEF FlagStep
<1>3. ReadyOf(r)'
  <2> SUFFICES ASSUME thrown'[r] = 0, NEW o \in 1 .. Len(objs'), Mine(r, o)'
               PROVE  /\ objs'[o].initializing => objs'[o].ready \/ AtWork(r, o)'
                      /\ o \in held'[r] => objs'[o].ready
    BY Zenon DEF ReadyOf
  <2>1. thrown[r] = 0
    BY DEF FlagStep
  <2>2. CASE Fresh(o)
    <3>1. ~objs'[o].initializing
      BY <2>2 DEF FlagStep
    <3>2. ~Reaches(r, o) /\ o \notin 1 .. Len(objs)
      BY <1>1, <2>2 DEF Fresh, IInv, Bounded
    <3>3. o \notin held'[r]
      BY <3>2 DEF StepOK, StackStep
    <3> QED
      BY <3>1, <3>3
  <2>3. CASE ~Fresh(o)
    <3>1. o \in 1 .. Len(objs) /\ Mine(r, o)
      BY <1>1, <2>3, MineStep DEF Fresh
    <3>2. /\ objs[o].initializing => objs[o].ready \/ AtWork(r, o)
          /\ o \in held[r] => objs[o].ready
      BY <2>1, <3>1 DEF ReadyInv, ReadyOf
    <3> QED
      BY <3>1, <3>2 DEF FlagStep
  <2> QED
    BY <2>2, <2>3
<1> QED
  BY <1>2, <1>3 DEF ReadyInv

-----------------------------------------------------------------------------
(* The actions.                                                            *)

\* The flags are as before, and no parser leaves its work.
SameFlags ==
  /\ Len(objs') = Len(objs)
  /\ \A o \in 1 .. Len(objs) : objs'[o].ready = objs[o].ready /\ objs'[o].initializing = objs[o].initializing
StillWorking(r) == \A o : AtWork(r, o) => AtWork(r, o)'

LEMMA QuietFlags ==
  ASSUME IInv, NEW r \in Reqs, UNCHANGED <<held, thrown>>, SameFlags, StillWorking(r)
  PROVE  FlagStep(r)
BY DEF FlagStep, SameFlags, StillWorking, Fresh

LEMMA SameWork ==
  ASSUME NEW r \in Reqs, UNCHANGED parsers
  PROVE  StillWorking(r)
BY DEF StillWorking, AtWork

LEMMA CallWork ==
  ASSUME IInv, NEW r \in Reqs, NEW p \in Parser, parsers' = [parsers EXCEPT ![r] = Append(@, p)]
  PROVE  StillWorking(r)
<1>1. LET n == Len(parsers[r])
      IN n \in Nat /\ Len(parsers'[r]) = n + 1 /\ \A k \in 1 .. n : parsers'[r][k] = parsers[r][k]
  BY CallFacts DEF IInv
<1>2. \A k \in 1 .. Len(parsers[r]) : k \in 1 .. Len(parsers'[r])
  BY <1>1
<1> QED
  BY <1>1, <1>2 DEF StillWorking, AtWork

LEMMA GoWork ==
  ASSUME IInv, NEW r \in Reqs, NEW p \in Parser, parsers[r] # <<>>, Go(r, p),
         \A o : Working(Top(parsers[r]), o) => Working(p, o)
  PROVE  StillWorking(r)
<1> DEFINE n == Len(parsers[r])
<1>1. /\ n \in Nat /\ n > 0 /\ Len(parsers'[r]) = n /\ parsers'[r][n] = p
      /\ \A k \in 1 .. n - 1 : parsers'[r][k] = parsers[r][k]
  BY GoFacts DEF IInv
<1>2. Top(parsers[r]) = parsers[r][n]
  BY DEF Top
<1> HIDE DEF n
<1>3. \A k \in 1 .. n : k = n \/ k \in 1 .. n - 1
  BY <1>1
<1> QED
  BY <1>1, <1>2, <1>3 DEF StillWorking, AtWork, n

LEMMA PlainFlags ==
  ASSUME IInv, NEW r \in Reqs, UNCHANGED <<objs, parsers, held>>,
         thrown' = thrown \/ thrown' = [thrown EXCEPT ![r] = @ + 1]
  PROVE  FlagStep(r)
<1>1. \A o : AtWork(r, o)' <=> AtWork(r, o)
  BY DEF AtWork
<1>2. \A o : ~Fresh(o)
  BY DEF Fresh
<1>3. thrown \in [Reqs -> Nat]
  BY DEF IInv, Shape
<1>4. (\A q \in Reqs : q # r => thrown'[q] = thrown[q]) /\ (thrown'[r] = 0 => thrown[r] = 0)
  BY <1>3
<1> QED
  BY <1>1, <1>2, <1>4 DEF FlagStep

LEMMA SteadyFlags ==
  ASSUME IInv, NEW r \in Reqs, Begin(r) \/ Leave(r) \/ Finish(r) \/ DisposeFails(r)
  PROVE  FlagStep(r)
<1>1. UNCHANGED <<objs, parsers, held>> /\ (thrown' = thrown \/ thrown' = [thrown EXCEPT ![r] = @ + 1])
  BY DEF Begin, Leave, Finish, DisposeFails
<1> QED
  BY <1>1, PlainFlags

\* What dispose() writes.
LEMMA DisposalOf ==
  ASSUME NEW x \in Obj
  PROVE  LET y == [x EXCEPT !.disposals = @ + 1]
         IN /\ y \in Obj /\ y.ready = x.ready /\ y.initializing = x.initializing /\ y.uses = x.uses
            /\ y.class = x.class /\ y.disposals = x.disposals + 1
BY DEF Obj

LEMMA CallDisposeHeap ==
  ASSUME IInv, NEW r \in Reqs, NEW at, NEW queue \in Seq(Nat),
         \A i \in 1 .. Len(queue) : queue[i] \in 1 .. Len(objs), CallDispose(r, at, queue)
  PROVE  /\ Len(objs') = Len(objs)
         /\ \A o \in 1 .. Len(objs) :
              /\ objs'[o].ready = objs[o].ready /\ objs'[o].initializing = objs[o].initializing
              /\ objs'[o].uses = objs[o].uses /\ objs'[o].class = objs[o].class
              /\ objs'[o].disposals = IF queue # <<>> /\ o = queue[1] THEN objs[o].disposals + 1 ELSE objs[o].disposals
<1>1. objs \in Seq(Obj)
  BY DEF IInv, Shape
<1>2. CASE queue = <<>>
  BY <1>2 DEF CallDispose
<1>3. CASE queue # <<>>
  <2> DEFINE h == queue[1]
             y == [objs[h] EXCEPT !.disposals = @ + 1]
  <2>1. h \in 1 .. Len(objs) /\ Head(queue) = h
    BY <1>3
  <2>2. objs' = [objs EXCEPT ![h].disposals = @ + 1]
    BY <1>3, <2>1 DEF CallDispose
  <2>3. objs' = [objs EXCEPT ![h] = y]
    BY <2>1, <2>2
  <2>4. objs[h] \in Obj
    BY <1>1, <2>1
  <2>5. /\ y \in Obj /\ y.ready = objs[h].ready /\ y.initializing = objs[h].initializing /\ y.uses = objs[h].uses
        /\ y.class = objs[h].class /\ y.disposals = objs[h].disposals + 1
    BY <2>4, DisposalOf
  <2> HIDE DEF y
  <2>6. Len(objs') = Len(objs) /\ \A o \in 1 .. Len(objs) : objs'[o] = IF o = h THEN y ELSE objs[o]
    <3> HIDE DEF h
    <3> QED
      BY <1>1, <2>1, <2>3
  <2> QED
    BY <1>3, <2>5, <2>6
<1> QED
  BY <1>2, <1>3

\* The two steps that call dispose().
LEMMA DisposalCase ==
  ASSUME InjectAssumption, IInv, NEW r \in Reqs, Unwind(r) \/ DisposeNext(r)
  PROVE  \E at \in 0 .. Len(Binds) : \E queue \in Seq(Nat) :
           /\ \A i \in 1 .. Len(queue) : queue[i] \in 1 .. Len(objs)
           /\ CallDispose(r, at, queue)
<1>1. Shape /\ Bounded
  BY DEF IInv
<1>2. CASE Unwind(r)
  <2> DEFINE at == disposal[r].at
  <2>1. at \in 0 .. Len(Binds) /\ at > 0 /\ Len(Binds) \in Nat /\ Binds \in Seq(Binding)
    BY <1>1, <1>2 DEF Shape, Unwind, InjectAssumption
  <2>2. Binds[at] \in Binding /\ at - 1 \in 0 .. Len(Binds)
    <3> HIDE DEF at
    <3> QED
      BY <2>1
  <2> DEFINE queue == ToDispose(r, Binds[at])
  <2>3. CallDispose(r, at - 1, queue)
    BY <1>2 DEF Unwind
  <2>4. queue \in Seq(Nat) /\ \A i \in 1 .. Len(queue) : Recorded(r, queue[i]) \/ Shared(queue[i])
    <3> HIDE DEF at
    <3> QED
      BY <2>2, ToDisposeFacts
  <2> HIDE DEF queue, at
  <2>5. \A i \in 1 .. Len(queue) : queue[i] \in Nat
    BY <2>4
  <2>6. \A i \in 1 .. Len(queue) : queue[i] \in 1 .. Len(objs)
    BY <1>1, <2>4, <2>5 DEF Bounded, Mine
  <2> QED
    BY <2>2, <2>3, <2>4, <2>6
<1>3. CASE DisposeNext(r)
  <2> DEFINE queue == disposal[r].queue
  <2>1. disposal[r].at \in 0 .. Len(Binds) /\ queue \in Seq(Nat) /\ queue # <<>>
    BY <1>1, <1>3 DEF Shape, DisposeNext
  <2>2. CallDispose(r, disposal[r].at, Tail(queue))
    BY <1>3 DEF DisposeNext
  <2>3. \A i \in 1 .. Len(queue) : queue[i] \in 1 .. Len(objs)
    BY <1>1 DEF Bounded
  <2> HIDE DEF queue
  <2>4. Tail(queue) \in Seq(Nat) /\ Len(Tail(queue)) = Len(queue) - 1
        /\ \A i \in 1 .. Len(Tail(queue)) : i + 1 \in 1 .. Len(queue) /\ Tail(queue)[i] = queue[i + 1]
    BY <2>1
  <2> QED
    BY <2>1, <2>2, <2>3, <2>4
<1> QED
  BY <1>2, <1>3

LEMMA DisposalFlags ==
  ASSUME InjectAssumption, IInv, NEW r \in Reqs, Unwind(r) \/ DisposeNext(r)
  PROVE  FlagStep(r)
<1>1. UNCHANGED <<parsers, held, thrown>>
  BY DEF Unwind, DisposeNext
<1>2. PICK at \in 0 .. Len(Binds), queue \in Seq(Nat) :
        (\A i \in 1 .. Len(queue) : queue[i] \in 1 .. Len(objs)) /\ CallDispose(r, at, queue)
  BY DisposalCase, Zenon
<1>3. SameFlags
  <2>1. /\ Len(objs') = Len(objs)
        /\ \A o \in 1 .. Len(objs) :
             objs'[o].ready = objs[o].ready /\ objs'[o].initializing = objs[o].initializing
    BY <1>2, CallDisposeHeap, Zenon
  <2> QED
    BY <2>1 DEF SameFlags
<1> QED
  BY <1>1, <1>3, SameWork, QuietFlags

\* The keys that a parser asks for.
LEMMA ParseArgFacts ==
  ASSUME InjectAssumption, IInv, NEW r \in Reqs, ParseArg(r)
  PROVE  LET p == Top(parsers[r])
             args == Args[BindingOf(p.key).target.of]
         IN /\ BindingOf(p.key).target.kind = "class" /\ p.i \in 1 .. Len(args) /\ args[p.i] \in Keys
            /\ Parse(r, args[p.i]) \in Parser
            /\ parsers' = [parsers EXCEPT ![r] = Append(@, Parse(r, args[p.i]))]
<1> DEFINE p == Top(parsers[r])
           args == Args[BindingOf(p.key).target.of]
<1>1. At(r, "creating") /\ BindingOf(p.key).target.kind = "class" /\ p.i <= Len(args)
      /\ parsers' = [parsers EXCEPT ![r] = Append(@, Parse(r, args[p.i]))]
  BY DEF ParseArg, TargetOf
<1>2. p.key \in Keys /\ p.i \in Nat \ {0} /\ Shape
  BY <1>1, TopFacts DEF IInv
<1> HIDE DEF p
<1>3. BindingOf(p.key).target.of \in Classes
  <2>1. BindingOf(p.key) \in Binding
    BY <1>2, BindingFacts
  <2> QED
    BY <1>1, <2>1 DEF Binding, Target
<1>4. args \in Seq(Keys)
  BY <1>3 DEF InjectAssumption
<1> HIDE DEF args
<1>5. p.i \in 1 .. Len(args) /\ args[p.i] \in Keys
  BY <1>1, <1>2, <1>4
<1>6. Parse(r, args[p.i]) \in Parser
  BY <1>2, <1>5, ParseFacts
<1> QED
  BY <1>1, <1>5, <1>6 DEF p, args

LEMMA ParsePropFacts ==
  ASSUME InjectAssumption, IInv, NEW r \in Reqs, ParseProp(r)
  PROVE  LET p == Top(parsers[r])
             props == PropsOf(p)
         IN /\ p.i \in 1 .. Len(props) /\ props[p.i] \in Keys /\ Parse(r, props[p.i]) \in Parser
            /\ parsers' = [parsers EXCEPT ![r] = Append(@, Parse(r, props[p.i]))]
<1> DEFINE p == Top(parsers[r])
           props == PropsOf(p)
<1>1. At(r, "props") /\ p.i <= Len(props) /\ parsers' = [parsers EXCEPT ![r] = Append(@, Parse(r, props[p.i]))]
  BY DEF ParseProp
<1>2. p.i \in Nat \ {0} /\ p.class \in Classes \cup {"none"} /\ Shape
  BY <1>1, TopFacts DEF IInv
<1>3. objs[p.obj].class \in Classes
  <2>1. objs[p.obj] \in Obj
    BY <1>1, TopObject
  <2> QED
    BY <2>1 DEF Obj
<1>4. props \in Seq(Keys)
  <2> HIDE DEF p
  <2> QED
    BY <1>2, <1>3 DEF PropsOf, InjectAssumption
<1> HIDE DEF props, p
<1>5. p.i \in 1 .. Len(props) /\ props[p.i] \in Keys
  BY <1>1, <1>2, <1>4
<1>6. Parse(r, props[p.i]) \in Parser
  BY <1>2, <1>5, ParseFacts
<1> QED
  BY <1>1, <1>5, <1>6 DEF p, props

LEMMA ParseFlags ==
  ASSUME InjectAssumption, IInv, NEW r \in Reqs,
         ParseKey(r) \/ ParseInstance(r) \/ ParseArg(r) \/ ParseProp(r)
  PROVE  FlagStep(r)
<1>1. UNCHANGED <<objs, held, thrown>> /\ SameFlags
  BY DEF ParseKey, ParseInstance, ParseArg, ParseProp, SameFlags
<1>2. CASE ParseKey(r) \/ ParseInstance(r)
  <2>1. parsers[r] = <<>>
    BY <1>2 DEF ParseKey, ParseInstance, AtRest
  <2>2. StillWorking(r)
    BY <2>1 DEF StillWorking, AtWork
  <2> QED
    BY <1>1, <2>2, QuietFlags
<1>3. CASE ParseArg(r) \/ ParseProp(r)
  <2>1. PICK p \in Parser : parsers' = [parsers EXCEPT ![r] = Append(@, p)]
    BY <1>3, ParseArgFacts, ParsePropFacts
  <2>2. StillWorking(r)
    BY <2>1, CallWork
  <2> QED
    BY <1>1, <2>2, QuietFlags
<1> QED
  BY <1>2, <1>3

LEMMA CreateFlags ==
  ASSUME InjectAssumption, IInv, NEW r \in Reqs, Create(r)
  PROVE  FlagStep(r)
<1> DEFINE p == Top(parsers[r])
           t == TargetOf(p)
<1>1. /\ At(r, "creating") /\ UNCHANGED <<held, thrown>>
      /\ \/ t.kind = "object" /\ Go(r, [p EXCEPT !.pc = "created", !.obj = t.of]) /\ UNCHANGED objs
         \/ /\ t.kind # "object" /\ objs' = Append(objs, NewObject(t.of, p.args))
            /\ Go(r, [p EXCEPT !.pc = "created", !.obj = Len(objs) + 1])
  BY DEF Create
<1>2. Shape /\ Shape'
  BY CreateStep DEF IInv, StepOK
<1>3. parsers[r] # <<>> /\ p.pc = "creating"
  BY <1>1, <1>2, TopFacts
<1>4. objs \in Seq(Obj) /\ objs' \in Seq(Obj) /\ Len(objs) \in Nat
  BY <1>2 DEF Shape
<1>5. StillWorking(r)
  <2>1. PICK x : Go(r, x)
    BY <1>1
  <2> DEFINE n == Len(parsers[r])
  <2>2. parsers[r] \in Seq(Parser) /\ n \in Nat /\ n > 0 /\ p = parsers[r][n]
    <3>1. parsers[r] \in Seq(Parser) /\ n \in Nat
      BY <1>2, TypesOfShape
    <3>2. p = parsers[r][n]
      BY Zenon DEF Top
    <3>3. \A s \in Seq(Parser) : s # <<>> => Len(s) > 0
      OBVIOUS
    <3> HIDE DEF p
    <3> QED
      BY <1>3, <3>1, <3>2, <3>3
  <2>3. parsers'[r] = SetTop(parsers[r], x)
    BY <1>2, <2>1 DEF Go, Shape
  <2>4. Len(parsers'[r]) = n /\ \A k \in 1 .. n : k # n => parsers'[r][k] = parsers[r][k]
    <3> HIDE DEF p
    <3> QED
      BY <2>2, <2>3 DEF SetTop
  <2>5. \A o : ~Working(parsers[r][n], o)
    BY <1>3, <2>2 DEF Working
  <2> HIDE DEF n
  <2> QED
    BY <2>4, <2>5 DEF StillWorking, AtWork, n
<1>6. CASE UNCHANGED objs
  BY <1>1, <1>5, <1>6, QuietFlags DEF SameFlags
<1>7. CASE objs' = Append(objs, NewObject(t.of, p.args))
  <2> DEFINE new == NewObject(t.of, p.args)
  <2>1. ~new.initializing
    BY DEF NewObject
  <2> HIDE DEF new
  <2>2. Len(objs') = Len(objs) + 1 /\ objs'[Len(objs) + 1] = new /\ \A o \in 1 .. Len(objs) : objs'[o] = objs[o]
    BY <1>4, <1>7 DEF new
  <2>3. \A o : Fresh(o) => o = Len(objs) + 1
    BY <1>4, <2>2 DEF Fresh
  <2> QED
    BY <1>1, <1>5, <2>1, <2>2, <2>3 DEF FlagStep, StillWorking
<1> QED
  BY <1>1, <1>6, <1>7

LEMMA GoFlags ==
  ASSUME InjectAssumption, IInv, NEW r \in Reqs, PushRecord(r) \/ InjectProps(r) \/ Initialize(r)
  PROVE  FlagStep(r)
<1> DEFINE p == Top(parsers[r])
<1>1. UNCHANGED <<held, thrown>>
  BY DEF PushRecord, InjectProps, Initialize
<1>2. Shape
  BY DEF IInv
<1>3. CASE PushRecord(r)
  <2> DEFINE q == [p EXCEPT !.pc = "found"]
  <2>1. At(r, "created") /\ Go(r, q) /\ SameFlags
    BY <1>3 DEF PushRecord, SameFlags
  <2>2. p \in Parser /\ p.pc = "created" /\ parsers[r] # <<>> /\ "found" \in PCs
    BY <1>2, <2>1, TopFacts DEF PCs
  <2>3. q \in Parser
    <3> HIDE DEF p
    <3> QED
      BY <2>2, PlaceUpdated
  <2> HIDE DEF q
  <2>4. StillWorking(r)
    BY <2>1, <2>2, <2>3, GoWork DEF Working
  <2> QED
    BY <1>1, <2>1, <2>4, QuietFlags
<1>4. CASE InjectProps(r)
  <2> DEFINE q == [p EXCEPT !.pc = "props", !.i = 1]
  <2>1. At(r, "initializing") /\ Go(r, q) /\ SameFlags
    BY <1>4 DEF InjectProps, SameFlags
  <2>2. p \in Parser /\ p.pc = "initializing" /\ parsers[r] # <<>>
    BY <1>2, <2>1, TopFacts
  <2>3. q \in Parser /\ q.pc = "props" /\ q.obj = p.obj
    <3> HIDE DEF p
    <3> QED
      BY <2>2, CounterUpdated
  <2> HIDE DEF q
  <2>4. \A o : Working(p, o) => Working(q, o)
    BY <2>3 DEF Working
  <2>5. StillWorking(r)
    BY <2>1, <2>2, <2>3, <2>4, GoWork
  <2> QED
    BY <1>1, <2>1, <2>5, QuietFlags
<1>5. CASE Initialize(r)
  <2> DEFINE q == [p EXCEPT !.pc = "initialized"]
  <2>1. At(r, "props") /\ Go(r, q) /\ objs' = [objs EXCEPT ![p.obj].initialized = TRUE]
    BY <1>5 DEF Initialize
  <2>2. p \in Parser /\ p.pc = "props" /\ parsers[r] # <<>> /\ "initialized" \in PCs
    BY <1>2, <2>1, TopFacts DEF PCs
  <2>3. q \in Parser /\ q.pc = "initialized" /\ q.obj = p.obj
    <3> HIDE DEF p
    <3> QED
      BY <2>2, PlaceUpdated
  <2> HIDE DEF q
  <2>4. \A o : Working(p, o) => Working(q, o)
    BY <2>3 DEF Working
  <2>5. StillWorking(r)
    BY <2>1, <2>2, <2>3, <2>4, GoWork
  <2>6. p.obj \in 1 .. Len(objs) /\ objs[p.obj] \in Obj /\ objs \in Seq(Obj)
    BY <2>1, TopObject
  <2>7. SameFlags
    <3> DEFINE o == p.obj
               x == [objs[o] EXCEPT !.initialized = TRUE]
    <3>1. objs' = [objs EXCEPT ![o] = x]
      BY <2>1
    <3>2. x \in Obj /\ x.ready = objs[o].ready /\ x.initializing = objs[o].initializing
      <4> HIDE DEF o
      <4> QED
        BY <2>6 DEF Obj, o
    <3> HIDE DEF x
    <3>3. Len(objs') = Len(objs) /\ \A k \in 1 .. Len(objs) : objs'[k] = IF k = o THEN x ELSE objs[k]
      <4> HIDE DEF o
      <4> QED
        BY <2>6, <3>1 DEF o
    <3> QED
      BY <3>2, <3>3 DEF SameFlags
  <2> QED
    BY <1>1, <2>5, <2>7, QuietFlags
<1> QED
  BY <1>3, <1>4, <1>5

LEMMA StartFlags ==
  ASSUME IInv, NEW r \in Reqs, StartInjection(r)
  PROVE  FlagStep(r)
<1> DEFINE p == Top(parsers[r])
           n == Len(parsers[r])
           q == [p EXCEPT !.pc = "initializing"]
<1>1. /\ At(r, "found") /\ Go(r, q) /\ UNCHANGED <<held, thrown>>
      /\ objs' = [objs EXCEPT ![p.obj].initializing = TRUE, ![p.obj].starts = @ + 1]
  BY DEF StartInjection
<1>2. Shape
  BY DEF IInv
<1>3. /\ p \in Parser /\ p.pc = "found" /\ parsers[r] # <<>> /\ "initializing" \in PCs
      /\ n \in 1 .. n /\ Reaches(r, p.obj)
  BY <1>1, <1>2, TopFacts DEF PCs
<1>4. q \in Parser /\ q.pc = "initializing" /\ q.obj = p.obj
  <2> HIDE DEF p
  <2> QED
    BY <1>3, PlaceUpdated
<1> HIDE DEF q
<1>5. StillWorking(r)
  BY <1>1, <1>3, <1>4, GoWork DEF Working
<1>6. \A o : o = p.obj => AtWork(r, o)'
  <2>1. Len(parsers'[r]) = n /\ parsers'[r][n] = q
    BY <1>1, <1>2, <1>3, <1>4, GoFacts
  <2>2. \A o : o = p.obj => Working(q, o)
    BY <1>4 DEF Working
  <2> HIDE DEF p, n
  <2> QED
    BY <1>3, <2>1, <2>2 DEF AtWork
<1>7. p.obj \in 1 .. Len(objs) /\ objs[p.obj] \in Obj /\ objs \in Seq(Obj)
  BY <1>1, TopObject
<1>8. /\ Len(objs') = Len(objs)
      /\ \A o \in 1 .. Len(objs) :
           objs'[o].ready = objs[o].ready /\ (o # p.obj => objs'[o].initializing = objs[o].initializing)
  <2> DEFINE h == p.obj
             x == [objs[h] EXCEPT !.initializing = TRUE, !.starts = @ + 1]
  <2>1. x \in Obj /\ x.ready = objs[h].ready
    <3> HIDE DEF h
    <3>1. objs[h] \in Obj
      BY <1>7 DEF h
    <3>2. objs[h].starts + 1 \in Nat
      BY <3>1 DEF Obj
    <3> QED
      BY <3>1, <3>2 DEF Obj
  <2>2. objs' = [objs EXCEPT ![h] = x]
    <3> HIDE DEF h
    <3> QED
      BY <1>1, <1>7 DEF Obj, h
  <2> HIDE DEF x
  <2>3. Len(objs') = Len(objs) /\ \A k \in 1 .. Len(objs) : objs'[k] = IF k = h THEN x ELSE objs[k]
    <3> HIDE DEF h
    <3> QED
      BY <1>7, <2>2 DEF h
  <2> QED
    BY <2>1, <2>3
<1>9. \A o : ~Fresh(o)
  BY <1>8 DEF Fresh
<1> HIDE DEF p
<1> QED
  BY <1>1, <1>3, <1>5, <1>6, <1>8, <1>9 DEF FlagStep, StillWorking

\* A parser returns: its object is ready, or was in use before.
LEMMA ReturnFlags ==
  ASSUME InjectAssumption, IInv, NEW r \in Reqs, SkipInjection(r) \/ FinishInjection(r)
  PROVE  FlagStep(r)
<1> DEFINE p == Top(parsers[r])
           n == Len(parsers[r])
           done == [objs[p.obj] EXCEPT !.ready = TRUE]
           heap == IF p.pc = "found" THEN objs ELSE [objs EXCEPT ![p.obj] = done]
<1>1. /\ UNCHANGED thrown /\ ReturnFrom(r, p)
      /\ \/ At(r, "found") /\ objs[p.obj].initializing /\ objs' = Assigned(r, p, objs)
         \/ At(r, "initialized") /\ objs' = Assigned(r, p, [objs EXCEPT ![p.obj].ready = TRUE])
  BY DEF SkipInjection, FinishInjection
<1>2. Shape
  BY DEF IInv
<1>3. /\ p \in Parser /\ parsers[r] # <<>> /\ n \in Nat /\ n \in 1 .. n /\ p = parsers[r][n]
      /\ p.pc \in {"found", "initialized"} /\ (p.pc = "found" => objs[p.obj].initializing)
  BY <1>1, <1>2, TopFacts
<1>4. p.obj \in 1 .. Len(objs) /\ objs[p.obj] \in Obj /\ objs \in Seq(Obj) /\ Len(objs) \in Nat
  BY <1>1, TopObject
<1>5. objs' = Assigned(r, p, heap)
  <2>1. At(r, "found") => p.pc = "found"
    BY DEF At
  <2>2. At(r, "initialized") => p.pc = "initialized"
    BY DEF At
  <2> HIDE DEF p
  <2> QED
    BY <1>1, <2>1, <2>2
<1>6. done \in Obj /\ done.ready /\ done.initializing = objs[p.obj].initializing
  <2> HIDE DEF p
  <2> QED
    BY <1>4 DEF Obj
<1> HIDE DEF done
<1>7. /\ heap \in Seq(Obj) /\ Len(heap) = Len(objs)
      /\ \A o \in 1 .. Len(objs) : heap[o].initializing = objs[o].initializing /\ (objs[o].ready => heap[o].ready)
      /\ p.pc = "initialized" => heap[p.obj].ready
  <2> HIDE DEF p
  <2> QED
    BY <1>3, <1>4, <1>6
<1> HIDE DEF heap
<1>8. /\ Len(objs') = Len(objs)
      /\ \A o \in 1 .. Len(objs) :
           objs'[o].initializing = objs[o].initializing /\ (objs[o].ready => objs'[o].ready)
      /\ p.pc = "initialized" => objs'[p.obj].ready
  <2>1. /\ Len(objs') = Len(objs)
        /\ \A o \in 1 .. Len(objs) : objs'[o].initializing = heap[o].initializing /\ objs'[o].ready = heap[o].ready
    BY <1>3, <1>5, <1>7, AssignedFacts
  <2> QED
    BY <1>4, <1>7, <2>1
<1>9. /\ Len(parsers'[r]) = n - 1
      /\ \A k \in 1 .. n - 2 : parsers'[r][k] = parsers[r][k]
      /\ n > 1 => Same(parsers'[r][n - 1], parsers[r][n - 1]) /\ held' = held
      /\ n = 1 => held'[r] = held[r] \cup {p.obj}
  BY <1>1, <1>2, <1>3, ReturnFacts
<1> HIDE DEF p, n
<1>10. ASSUME NEW o \in 1 .. Len(objs), AtWork(r, o) PROVE AtWork(r, o)' \/ objs'[o].ready
  <2>1. PICK k \in 1 .. n : Working(parsers[r][k], o)
    BY <1>10 DEF AtWork, n
  <2>2. CASE k = n
    BY <1>3, <1>8, <2>1, <2>2 DEF Working
  <2>3. CASE k # n
    <3>1. k \in 1 .. n - 1 /\ Working(parsers'[r][k], o)
      <4>1. k \in 1 .. n - 1 /\ (k \in 1 .. n - 2 \/ (n > 1 /\ k = n - 1))
        BY <1>3, <2>3
      <4>2. Same(parsers'[r][k], parsers[r][k])
        BY <1>9, <4>1 DEF Same
      <4> QED
        BY <2>1, <4>1, <4>2 DEF Working, Same
    <3> QED
      BY <1>9, <3>1 DEF AtWork
  <2> QED
    BY <2>2, <2>3
<1>11. ASSUME NEW o \in held'[r], o \notin held[r] PROVE objs'[o].ready \/ (objs[o].initializing /\ ~AtWork(r, o))
  <2>1. n = 1 /\ o = p.obj
    BY <1>3, <1>9, <1>11
  <2>2. CASE p.pc = "initialized"
    BY <1>8, <2>1, <2>2
  <2>3. CASE p.pc = "found"
    <3>1. ~AtWork(r, o)
      BY <1>3, <2>1, <2>3 DEF AtWork, Working, n
    <3> QED
      BY <1>3, <2>1, <2>3, <3>1
  <2> QED
    BY <1>3, <2>2, <2>3
<1>12. \A o : ~Fresh(o)
  BY <1>8 DEF Fresh
<1> QED
  BY <1>1, <1>8, <1>10, <1>11, <1>12 DEF FlagStep

LEMMA ParseFailsFlags ==
  ASSUME IInv, NEW r \in Reqs, ParseFails(r)
  PROVE  FlagStep(r)
<1>1. UNCHANGED <<objs, held>> /\ thrown' = [thrown EXCEPT ![r] = @ + 1]
  BY DEF ParseFails
<1>2. thrown \in [Reqs -> Nat]
  BY DEF IInv, Shape
<1>3. (\A q \in Reqs : q # r => thrown'[q] = thrown[q]) /\ thrown'[r] # 0
  BY <1>1, <1>2
<1> QED
  BY <1>1, <1>3 DEF FlagStep, Fresh

\* Every step is one of these.
LEMMA AnyFlags ==
  ASSUME InjectAssumption, IInv, Next
  PROVE  \E r \in Reqs : StepOK(r) /\ FlagStep(r)
<1>1. PICK r \in Reqs : Begin(r) \/ ParseKey(r) \/ ParseInstance(r) \/ Advance(r)
  BY DEF Next
<1>2. StepOK(r)
  <2>1. Advance(r) => StepOK(r)
    BY ParseArgStep, CreateStep, PushRecordStep, SkipInjectionStep, StartInjectionStep, InjectPropsStep,
       ParsePropStep, InitializeStep, FinishInjectionStep, ParseFailsStep, LeaveStep, UnwindStep,
       DisposeNextStep, DisposeFailsStep, FinishStep, Zenon DEF Advance
  <2> QED
    BY <1>1, <2>1, BeginStep, ParseKeyStep, ParseInstanceStep
<1>3. FlagStep(r)
  <2>1. Advance(r) => FlagStep(r)
    BY ParseFlags, CreateFlags, GoFlags, StartFlags, ReturnFlags, ParseFailsFlags, SteadyFlags,
       DisposalFlags, Zenon DEF Advance
  <2> QED
    BY <1>1, <2>1, ParseFlags, SteadyFlags
<1> QED
  BY <1>2, <1>3

\* The scoped objects that parseInject hands to user code are initialized, as
\* long as nothing threw: in a cycle of properties the object that is asked
\* for again is returned half made only to the objects it is injected into.
THEOREM ScopedObjectsAreReady == GivenAreSingletons => (Spec => []ScopedIsReady)
<1> SUFFICES ASSUME GivenAreSingletons PROVE Spec => []ScopedIsReady
  OBVIOUS
<1>1. InjectAssumption
  BY InjectAssumption
<1>2. Init => ReadyInv
  <2>1. ASSUME Init PROVE ReadyInv
    <3>1. \A r \in Reqs : Len(scoped[r]) = 0 /\ Len(transients[r]) = 0 /\ Len(parsers[r]) = 0
      BY <2>1 DEF Init
    <3>2. \A r \in Reqs : \A o : ~Mine(r, o)
      BY <3>1 DEF Mine, Recorded
    <3> QED
      BY <3>2 DEF ReadyInv, ReadyOf
  <2> QED
    BY <2>1
<1>3. IInv /\ Apart /\ ReadyInv /\ [Next]_vars => ReadyInv'
  <2> SUFFICES ASSUME IInv, Apart, ReadyInv, [Next]_vars PROVE ReadyInv'
    OBVIOUS
  <2>1. CASE Next
    BY <1>1, <2>1, AnyFlags, ReadyKept
  <2>2. CASE UNCHANGED vars
    BY <2>2 DEF vars, ReadyInv, ReadyOf, AtWork, Mine, Recorded
  <2> QED
    BY <2>1, <2>2
<1>4. IInv /\ ReadyInv => ScopedIsReady
  <2> SUFFICES ASSUME IInv, ReadyInv, NEW r \in Reqs, thrown[r] = 0, NEW i \in DOMAIN scoped[r],
                      scoped[r][i].value \in held[r]
               PROVE  objs[scoped[r][i].value].ready
    BY DEF ScopedIsReady
  <2>1. scoped[r] \in Seq(Record) /\ \A x \in Record : x.value \in Nat
    BY DEF IInv, Shape, Record
  <2>2. i \in 1 .. Len(scoped[r]) /\ scoped[r][i].value \in Nat
    BY <2>1
  <2>3. Mine(r, scoped[r][i].value)
    BY <2>2 DEF Mine, Recorded
  <2>4. scoped[r][i].value \in 1 .. Len(objs)
    BY <2>2, <2>3 DEF IInv, Bounded
  <2> QED
    BY <2>3, <2>4 DEF ReadyInv, ReadyOf
<1>5. Spec => [](IInv /\ Apart)
  BY <1>1, ScopesInvariant
<1> QED
  BY <1>2, <1>3, <1>4, <1>5, PTL DEF Spec

-----------------------------------------------------------------------------
(* A request that leaves has no parsers; what it disposes is its own.      *)

IsSingleton(key) == BindingOf(key).type = "Singleton"

\* inject() does not give a scope to a key that another call made a singleton.
SingletonsStay == \A i \in DOMAIN Binds : Binds[i].type = "Scoped" => ~IsSingleton(Binds[i].anestor)

Left(r) == phase[r] \in {"disposing", "done"}
QueueOwn ==
  \A r \in Reqs :
    /\ Left(r) => parsers[r] = <<>>
    /\ disposal[r].queue # <<>> => phase[r] = "disposing"
    /\ \A i \in 1 .. Len(disposal[r].queue) : Recorded(r, disposal[r].queue[i])
DisposedOwn ==
  \A o \in 1 .. Len(objs) : objs[o].disposals # 0 => \E q \in Reqs : Left(q) /\ Recorded(q, o)

\* The records are in the bag of the type of their key.
Typed ==
  /\ \A i \in 1 .. Len(singletons) : IsSingleton(singletons[i].key)
  /\ \A r \in Reqs : \A i \in 1 .. Len(scoped[r]) : BindingOf(scoped[r][i].key).type = "Scoped"
  /\ \A r \in Reqs : \A i \in 1 .. Len(transients[r]) : BindingOf(transients[r][i].key).type = "Transient"

\* A request's records have objects of their own.
Separate(r) ==
  /\ DistinctValues(scoped[r]) /\ DistinctValues(transients[r])
  /\ \A i \in 1 .. Len(scoped[r]) : \A j \in 1 .. Len(transients[r]) :
       scoped[r][i].value # transients[r][j].value
  /\ \A k \in 1 .. Len(parsers[r]) : \A o \in Nat : MakesOwn(parsers[r][k], o) => ~Recorded(r, o)

LifeInv == QueueOwn /\ DisposedOwn /\ Typed /\ \A r \in Reqs : Separate(r)

\* A step of a request that parses: it disposes nothing.
WorkStep(r) ==
  /\ UNCHANGED <<phase, disposal>> /\ ~Left(r)
  /\ Len(objs) <= Len(objs')
  /\ \A o \in 1 .. Len(objs) : objs'[o].disposals = objs[o].disposals
  /\ \A o : Fresh(o) => objs'[o].disposals = 0
  /\ \A o : Recorded(r, o) => Recorded(r, o)'
  /\ Typed' /\ Separate(r)'

LEMMA LifeKeptAtWork ==
  ASSUME IInv, LifeInv, NEW r \in Reqs, StepOK(r), WorkStep(r)
  PROVE  LifeInv'
<1>1. \A q \in Reqs : q # r => /\ parsers'[q] = parsers[q] /\ scoped'[q] = scoped[q] /\ transients'[q] = transients[q]
                              /\ \A o : Recorded(q, o)' <=> Recorded(q, o)
  BY DEF StepOK, OtherStep, Recorded
<1>2. \A q \in Reqs : Left(q)' <=> Left(q)
  BY DEF WorkStep, Left
<1>3. \A q \in Reqs : disposal'[q] = disposal[q] /\ phase'[q] = phase[q]
  BY DEF WorkStep
<1>4. QueueOwn'
  <2>1. ASSUME NEW q \in Reqs
        PROVE  /\ Left(q)' => parsers'[q] = <<>>
               /\ disposal'[q].queue # <<>> => phase'[q] = "disposing"
               /\ \A i \in 1 .. Len(disposal'[q].queue) : Recorded(q, disposal[q].queue[i])
    BY <1>1, <1>2, <1>3 DEF LifeInv, QueueOwn, WorkStep
  <2>2. \A q \in Reqs : \A o : Recorded(q, o) => Recorded(q, o)'
    BY <1>1 DEF WorkStep
  <2> QED
    BY <1>3, <2>1, <2>2 DEF QueueOwn
<1>5. DisposedOwn'
  <2> SUFFICES ASSUME NEW o \in 1 .. Len(objs'), objs'[o].disposals # 0
               PROVE  \E q \in Reqs : Left(q)' /\ Recorded(q, o)'
    BY DEF DisposedOwn
  <2>1. o \in 1 .. Len(objs) /\ objs[o].disposals # 0
    BY DEF WorkStep, Fresh
  <2>2. PICK q \in Reqs : Left(q) /\ Recorded(q, o)
    BY <2>1 DEF LifeInv, DisposedOwn
  <2> QED
    BY <1>1, <1>2, <2>2 DEF WorkStep
<1>6. \A q \in Reqs : Separate(q)'
  <2>1. ASSUME NEW q \in Reqs, q # r PROVE Separate(q)'
    <3>1. Separate(q)
      BY DEF LifeInv
    <3>2. /\ parsers'[q] = parsers[q] /\ scoped'[q] = scoped[q] /\ transients'[q] = transients[q]
          /\ \A o : Recorded(q, o)' <=> Recorded(q, o)
      BY <1>1, <2>1
    <3> QED
      BY <3>1, <3>2 DEF Separate
  <2> QED
    BY <2>1 DEF WorkStep
<1> QED
  BY <1>4, <1>5, <1>6 DEF LifeInv, WorkStep

\* Such a step that records nothing.
NewMade(r) ==
  \A k \in 1 .. Len(parsers'[r]) : \A o \in Nat : MakesOwn(parsers'[r][k], o) =>
    Fresh(o) \/ \E j \in 1 .. Len(parsers[r]) : MakesOwn(parsers[r][j], o)

LEMMA PlainWork ==
  ASSUME IInv, LifeInv, NEW r \in Reqs, ~Left(r), NewMade(r),
         Len(objs) <= Len(objs'),
         \A o \in 1 .. Len(objs) : objs'[o].disposals = objs[o].disposals,
         \A o : Fresh(o) => objs'[o].disposals = 0,
         UNCHANGED <<singletons, scoped, transients, phase, disposal>>
  PROVE  WorkStep(r)
<1>1. Typed'
  BY DEF LifeInv, Typed
<1>2. \A o : Recorded(r, o)' <=> Recorded(r, o)
  BY DEF Recorded
<1>3. ASSUME NEW k \in 1 .. Len(parsers'[r]), NEW o \in Nat, MakesOwn(parsers'[r][k], o)
      PROVE  ~Recorded(r, o)
  <2>1. Fresh(o) => ~Recorded(r, o)
    BY DEF Fresh, IInv, Bounded, Mine
  <2> QED
    BY <1>3, <2>1 DEF NewMade, LifeInv, Separate
<1>4. Separate(r)'
  BY <1>2, <1>3 DEF LifeInv, Separate
<1> QED
  BY <1>1, <1>2, <1>4 DEF WorkStep

LEMMA Busy ==
  ASSUME IInv, LifeInv, NEW r \in Reqs, AtRest(r) \/ parsers[r] # <<>>
  PROVE  ~Left(r)
BY DEF LifeInv, QueueOwn, AtRest, Left

\* The heap is as it was, but for flags and uses.
SameDisposals ==
  Len(objs') = Len(objs) /\ \A o \in 1 .. Len(objs) : objs'[o].disposals = objs[o].disposals

LEMMA SteadyWork ==
  ASSUME IInv, LifeInv, NEW r \in Reqs, ~Left(r), NewMade(r), SameDisposals,
         UNCHANGED <<singletons, scoped, transients, phase, disposal>>
  PROVE  WorkStep(r)
<1>1. Len(objs) \in Nat /\ \A o : ~Fresh(o)
  BY DEF SameDisposals, Fresh, IInv, Shape
<1> QED
  BY <1>1, PlainWork DEF SameDisposals

LEMMA FirstMade ==
  ASSUME IInv, NEW r \in Reqs, NEW p \in Parser, p.pc # "created", parsers' = [parsers EXCEPT ![r] = <<p>>]
  PROVE  NewMade(r)
<1>1. Len(parsers'[r]) = 1 /\ parsers'[r][1] = p
  BY BeginFacts DEF IInv
<1> QED
  BY <1>1 DEF NewMade, MakesOwn

LEMMA CallMade ==
  ASSUME IInv, NEW r \in Reqs, NEW p \in Parser, p.pc # "created", parsers' = [parsers EXCEPT ![r] = Append(@, p)]
  PROVE  NewMade(r)
<1> DEFINE n == Len(parsers[r])
<1>1. /\ n \in Nat /\ Len(parsers'[r]) = n + 1 /\ parsers'[r][n + 1] = p
      /\ \A k \in 1 .. n : parsers'[r][k] = parsers[r][k]
  BY CallFacts DEF IInv
<1> HIDE DEF n
<1>2. \A k \in 1 .. n + 1 : k \in 1 .. n \/ k = n + 1
  BY <1>1
<1> QED
  BY <1>1, <1>2 DEF NewMade, MakesOwn, n

LEMMA GoMade ==
  ASSUME IInv, NEW r \in Reqs, NEW p \in Parser, parsers[r] # <<>>, Go(r, p),
         p.pc = "created" => TypeOf(p) = "Singleton" \/ Fresh(p.obj)
  PROVE  NewMade(r)
<1> DEFINE n == Len(parsers[r])
<1>1. /\ n \in Nat /\ n > 0 /\ Len(parsers'[r]) = n /\ parsers'[r][n] = p
      /\ \A k \in 1 .. n - 1 : parsers'[r][k] = parsers[r][k]
  BY GoFacts DEF IInv
<1> HIDE DEF n
<1>2. \A k \in 1 .. n : k = n \/ (k \in 1 .. n - 1 /\ k \in 1 .. n)
  BY <1>1
<1>3. \A o : MakesOwn(p, o) => Fresh(o)
  BY DEF MakesOwn
<1> QED
  BY <1>1, <1>2, <1>3 DEF NewMade, n

LEMMA ReturnMade ==
  ASSUME IInv, NEW r \in Reqs, NEW p \in Parser, parsers[r] # <<>>, ReturnFrom(r, p)
  PROVE  NewMade(r)
<1> DEFINE n == Len(parsers[r])
<1>1. /\ n \in Nat /\ n > 0 /\ Len(parsers'[r]) = n - 1
      /\ \A k \in 1 .. n - 2 : parsers'[r][k] = parsers[r][k]
      /\ n > 1 => Same(parsers'[r][n - 1], parsers[r][n - 1])
  BY ReturnFacts DEF IInv
<1> HIDE DEF n
<1>2. \A k \in 1 .. n - 1 : k \in 1 .. n /\ (k \in 1 .. n - 2 \/ (n > 1 /\ k = n - 1))
  BY <1>1
<1>3. \A k \in 1 .. n - 1 : Same(parsers'[r][k], parsers[r][k])
  BY <1>1, <1>2 DEF Same
<1>4. \A k \in 1 .. n - 1 : \A o : MakesOwn(parsers'[r][k], o) => MakesOwn(parsers[r][k], o)
  BY <1>3 DEF Same, MakesOwn, TypeOf
<1> QED
  BY <1>1, <1>2, <1>4 DEF NewMade, n

-----------------------------------------------------------------------------
(* The actions of the parsers.                                             *)

LEMMA ParseWork ==
  ASSUME InjectAssumption, IInv, LifeInv, NEW r \in Reqs,
         ParseKey(r) \/ ParseInstance(r) \/ ParseArg(r) \/ ParseProp(r)
  PROVE  WorkStep(r)
<1>1. UNCHANGED <<objs, singletons, scoped, transients, phase, disposal>> /\ SameDisposals
      /\ (AtRest(r) \/ parsers[r] # <<>>)
  BY DEF ParseKey, ParseInstance, ParseArg, ParseProp, SameDisposals, At
<1>2. Shape
  BY DEF IInv
<1>3. NewMade(r)
  <2>1. CASE ParseKey(r)
    <3>1. PICK key \in Wanted : parsers' = [parsers EXCEPT ![r] = <<Parse(r, key)>>]
      BY <2>1 DEF ParseKey
    <3>2. key \in Keys
      BY DEF InjectAssumption
    <3>3. Parse(r, key) \in Parser /\ Parse(r, key).pc # "created"
      BY <1>2, <3>2, ParseFacts
    <3> QED
      BY <3>1, <3>3, FirstMade
  <2>2. CASE ParseInstance(r)
    <3>1. PICK o \in Instances : parsers' = [parsers EXCEPT ![r] =
            <<[key |-> objs[o].class, class |-> objs[o].class, obj |-> o, pc |-> "found", i |-> 1, args |-> {}]>>]
      BY <2>2 DEF ParseInstance
    <3>2. Len(parsers'[r]) = 1 /\ parsers'[r][1].pc = "found"
      BY <1>2, <3>1 DEF Shape
    <3> QED
      BY <3>2 DEF NewMade, MakesOwn
  <2>3. CASE ParseArg(r)
    <3> DEFINE p == Top(parsers[r])
               key == Args[BindingOf(p.key).target.of][p.i]
    <3>1. key \in Keys /\ parsers' = [parsers EXCEPT ![r] = Append(@, Parse(r, key))]
      BY <2>3, ParseArgFacts
    <3> HIDE DEF key
    <3>2. Parse(r, key) \in Parser /\ Parse(r, key).pc # "created"
      BY <1>2, <3>1, ParseFacts
    <3> QED
      BY <3>1, <3>2, CallMade
  <2>4. CASE ParseProp(r)
    <3> DEFINE p == Top(parsers[r])
               key == PropsOf(p)[p.i]
    <3>1. key \in Keys /\ parsers' = [parsers EXCEPT ![r] = Append(@, Parse(r, key))]
      BY <2>4, ParsePropFacts
    <3> HIDE DEF key
    <3>2. Parse(r, key) \in Parser /\ Parse(r, key).pc # "created"
      BY <1>2, <3>1, ParseFacts
    <3> QED
      BY <3>1, <3>2, CallMade
  <2> QED
    BY <2>1, <2>2, <2>3, <2>4
<1> QED
  BY <1>1, <1>3, Busy, SteadyWork

LEMMA ParseFailsWork ==
  ASSUME IInv, LifeInv, NEW r \in Reqs, ParseFails(r)
  PROVE  WorkStep(r)
<1>1. /\ UNCHANGED <<objs, singletons, scoped, transients, phase, disposal>> /\ SameDisposals
      /\ parsers[r] # <<>> /\ parsers' = [parsers EXCEPT ![r] = <<>>]
  BY DEF ParseFails, SameDisposals, At
<1>2. parsers'[r] = <<>>
  BY <1>1 DEF IInv, Shape
<1>3. NewMade(r)
  BY <1>2 DEF NewMade
<1> QED
  BY <1>1, <1>3, Busy, SteadyWork

\* A parser that has created its object.
LEMMA CreatedParser ==
  ASSUME NEW p \in Parser, NEW o \in Nat
  PROVE  LET q == [p EXCEPT !.pc = "created", !.obj = o]
         IN /\ q \in Parser /\ q.pc = "created" /\ q.obj = o /\ q.key = p.key /\ q.args = p.args
            /\ q.class = p.class
<1>1. "created" \in PCs
  BY DEF PCs
<1> QED
  BY <1>1 DEF Parser

\* A parser that goes on with the object it has.
LEMMA NextPlace ==
  ASSUME NEW p \in Parser, NEW q,
         \/ q = [p EXCEPT !.pc = "initializing"] \/ q = [p EXCEPT !.pc = "initialized"]
         \/ q = [p EXCEPT !.pc = "found"] \/ q = [p EXCEPT !.pc = "props", !.i = 1]
  PROVE  /\ q \in Parser /\ q.pc \notin {"creating", "created"}
         /\ q.obj = p.obj /\ q.key = p.key /\ q.args = p.args
<1>1. {"initializing", "initialized", "found"} \subseteq PCs
  BY DEF PCs
<1>2. CASE q = [p EXCEPT !.pc = "initializing"]
  BY <1>1, <1>2, PlaceUpdated
<1>3. CASE q = [p EXCEPT !.pc = "initialized"]
  BY <1>1, <1>3, PlaceUpdated
<1>4. CASE q = [p EXCEPT !.pc = "found"]
  BY <1>1, <1>4, PlaceUpdated
<1>5. CASE q = [p EXCEPT !.pc = "props", !.i = 1]
  BY <1>5, CounterUpdated
<1> QED
  BY <1>2, <1>3, <1>4, <1>5

LEMMA CreateWork ==
  ASSUME InjectAssumption, GivenAreSingletons, IInv, LifeInv, NEW r \in Reqs, Create(r)
  PROVE  WorkStep(r)
<1> DEFINE p == Top(parsers[r])
           t == TargetOf(p)
<1>1. /\ At(r, "creating") /\ UNCHANGED <<singletons, scoped, transients, phase, disposal>>
      /\ \/ t.kind = "object" /\ Go(r, [p EXCEPT !.pc = "created", !.obj = t.of]) /\ UNCHANGED objs
         \/ /\ t.kind # "object" /\ objs' = Append(objs, NewObject(t.of, p.args))
            /\ Go(r, [p EXCEPT !.pc = "created", !.obj = Len(objs) + 1])
  BY DEF Create
<1>2. Shape /\ Shape'
  BY CreateStep DEF IInv, StepOK
<1>3. parsers[r] # <<>> /\ p \in Parser /\ p.key \in Keys
  BY <1>1, <1>2, TopFacts
<1>4. objs \in Seq(Obj) /\ objs' \in Seq(Obj) /\ Len(objs) \in Nat
  BY <1>2 DEF Shape
<1>5. ~Left(r)
  BY <1>3, Busy
<1> HIDE DEF p
<1>6. CASE t.kind = "object" /\ Go(r, [p EXCEPT !.pc = "created", !.obj = t.of]) /\ UNCHANGED objs
  <2> DEFINE q == [p EXCEPT !.pc = "created", !.obj = t.of]
  <2>1. BindingOf(p.key) \in Binding /\ t = BindingOf(p.key).target
    BY <1>3, BindingFacts DEF TargetOf
  <2>2. t.of \in Nat
    <3>1. t \in Target
      BY <2>1 DEF Binding
    <3>2. DOMAIN Given \subseteq Nat
      BY DEF InjectAssumption
    <3> QED
      BY <1>6, <3>1, <3>2 DEF Target
  <2>3. q \in Parser /\ q.key = p.key
    BY <1>3, <2>2, CreatedParser
  <2>4. TypeOf(q) = "Singleton"
    BY <1>3, <1>6, <2>1, <2>3 DEF TypeOf, GivenAreSingletons
  <2> HIDE DEF q
  <2>5. NewMade(r)
    BY <1>3, <1>6, <2>3, <2>4, GoMade DEF q
  <2> QED
    BY <1>1, <1>5, <1>6, <2>5, SteadyWork DEF SameDisposals
<1>7. CASE objs' = Append(objs, NewObject(t.of, p.args)) /\ Go(r, [p EXCEPT !.pc = "created", !.obj = Len(objs) + 1])
  <2> DEFINE new == NewObject(t.of, p.args)
             q == [p EXCEPT !.pc = "created", !.obj = Len(objs) + 1]
  <2>1. new.disposals = 0
    BY DEF NewObject
  <2> HIDE DEF new
  <2>2. Len(objs') = Len(objs) + 1 /\ objs'[Len(objs) + 1] = new /\ \A o \in 1 .. Len(objs) : objs'[o] = objs[o]
    BY <1>4, <1>7 DEF new
  <2>3. \A o : Fresh(o) <=> o = Len(objs) + 1
    BY <1>4, <2>2 DEF Fresh
  <2>4. q \in Parser /\ q.obj = Len(objs) + 1
    <3>1. Len(objs) + 1 \in Nat
      BY <1>4
    <3> QED
      BY <1>3, <3>1, CreatedParser
  <2> HIDE DEF q
  <2>5. NewMade(r)
    BY <1>3, <1>7, <2>3, <2>4, GoMade DEF q
  <2>6. Len(objs) <= Len(objs')
    BY <1>4, <2>2
  <2> QED
    BY <1>1, <1>5, <2>1, <2>2, <2>3, <2>5, <2>6, PlainWork
<1> QED
  BY <1>1, <1>6, <1>7 DEF p

\* What the flags and uses of an object are does not touch its disposals.
LEMMA DisposalsApart ==
  ASSUME objs \in Seq(Obj), NEW o \in 1 .. Len(objs), NEW x, x.disposals = objs[o].disposals,
         NEW heap, heap = [objs EXCEPT ![o] = x]
  PROVE  Len(heap) = Len(objs) /\ \A k \in 1 .. Len(objs) : heap[k].disposals = objs[k].disposals
<1>1. \A k \in 1 .. Len(objs) : heap[k] = IF k = o THEN x ELSE objs[k]
  OBVIOUS
<1> QED
  BY <1>1

LEMMA FlagDisposals ==
  ASSUME NEW x \in Obj
  PROVE  /\ [x EXCEPT !.initializing = TRUE, !.starts = @ + 1] \in Obj
         /\ [x EXCEPT !.initializing = TRUE, !.starts = @ + 1].disposals = x.disposals
         /\ [x EXCEPT !.initialized = TRUE] \in Obj /\ [x EXCEPT !.initialized = TRUE].disposals = x.disposals
         /\ [x EXCEPT !.ready = TRUE] \in Obj /\ [x EXCEPT !.ready = TRUE].disposals = x.disposals
<1>1. x.starts + 1 \in Nat
  BY DEF Obj
<1> QED
  BY <1>1 DEF Obj

LEMMA GoingWork ==
  ASSUME IInv, LifeInv, NEW r \in Reqs, StartInjection(r) \/ InjectProps(r) \/ Initialize(r)
  PROVE  WorkStep(r)
<1> DEFINE p == Top(parsers[r])
           o == p.obj
<1>1. UNCHANGED <<singletons, scoped, transients, phase, disposal>>
  BY DEF StartInjection, InjectProps, Initialize
<1>2. Shape
  BY DEF IInv
<1>3. PICK pc \in {"found", "initializing", "props"} : At(r, pc)
  BY DEF StartInjection, InjectProps, Initialize
<1>4. p \in Parser /\ parsers[r] # <<>> /\ o \in 1 .. Len(objs) /\ objs[o] \in Obj /\ objs \in Seq(Obj)
  BY <1>2, <1>3, TopFacts, TopObject
<1>5. NewMade(r)
  <2> HIDE DEF p
  <2>1. PICK q : Go(r, q) /\ q \in {[p EXCEPT !.pc = "initializing"], [p EXCEPT !.pc = "props", !.i = 1],
                                    [p EXCEPT !.pc = "initialized"]}
    BY DEF StartInjection, InjectProps, Initialize, p
  <2>2. q \in Parser /\ q.pc # "created"
    BY <1>4, <2>1, NextPlace
  <2> QED
    BY <1>4, <2>1, <2>2, GoMade
<1>6. SameDisposals
  <2> DEFINE x == [objs[o] EXCEPT !.initializing = TRUE, !.starts = @ + 1]
             y == [objs[o] EXCEPT !.initialized = TRUE]
  <2>1. objs' = objs \/ objs' = [objs EXCEPT ![o].initializing = TRUE, ![o].starts = @ + 1]
        \/ objs' = [objs EXCEPT ![o].initialized = TRUE]
    BY DEF StartInjection, InjectProps, Initialize
  <2> HIDE DEF o
  <2>2. x.disposals = objs[o].disposals /\ y.disposals = objs[o].disposals
    BY <1>4, FlagDisposals
  <2>3. objs' = objs \/ objs' = [objs EXCEPT ![o] = x] \/ objs' = [objs EXCEPT ![o] = y]
    BY <1>4, <2>1 DEF Obj
  <2> HIDE DEF x, y
  <2> QED
    BY <1>4, <2>2, <2>3, DisposalsApart DEF SameDisposals
<1> QED
  BY <1>1, <1>4, <1>5, <1>6, Busy, SteadyWork

LEMMA ReturnWork ==
  ASSUME IInv, LifeInv, NEW r \in Reqs, SkipInjection(r) \/ FinishInjection(r)
  PROVE  WorkStep(r)
<1> DEFINE p == Top(parsers[r])
           o == p.obj
           x == [objs[o] EXCEPT !.ready = TRUE]
<1>1. UNCHANGED <<singletons, scoped, transients, phase, disposal>> /\ ReturnFrom(r, p)
  BY DEF SkipInjection, FinishInjection
<1>2. Shape
  BY DEF IInv
<1>3. PICK pc \in {"found", "initialized"} : At(r, pc)
  BY DEF SkipInjection, FinishInjection
<1>4. p \in Parser /\ parsers[r] # <<>> /\ o \in 1 .. Len(objs) /\ objs[o] \in Obj /\ objs \in Seq(Obj)
  BY <1>2, <1>3, TopFacts, TopObject
<1>5. NewMade(r)
  BY <1>1, <1>4, ReturnMade
<1>6. \E heap \in Seq(Obj) :
        /\ objs' = Assigned(r, p, heap) /\ Len(heap) = Len(objs)
        /\ \A k \in 1 .. Len(objs) : heap[k].disposals = objs[k].disposals
  <2>1. objs' = Assigned(r, p, objs) \/ objs' = Assigned(r, p, [objs EXCEPT ![o] = x])
    BY DEF SkipInjection, FinishInjection
  <2>2. x \in Obj /\ x.disposals = objs[o].disposals
    <3> HIDE DEF o
    <3> QED
      BY <1>4, FlagDisposals
  <2> DEFINE heap == [objs EXCEPT ![o] = x]
  <2> HIDE DEF x, o, p
  <2>3. heap \in Seq(Obj)
    BY <1>4, <2>2
  <2>4. Len(heap) = Len(objs) /\ \A k \in 1 .. Len(objs) : heap[k].disposals = objs[k].disposals
    BY <1>4, <2>2, DisposalsApart
  <2> HIDE DEF heap
  <2> QED
    BY <1>4, <2>1, <2>3, <2>4 DEF heap
<1>7. SameDisposals
  <2>1. PICK heap \in Seq(Obj) :
          /\ objs' = Assigned(r, p, heap) /\ Len(heap) = Len(objs)
          /\ \A k \in 1 .. Len(objs) : heap[k].disposals = objs[k].disposals
    BY <1>6
  <2>2. Len(objs') = Len(objs) /\ \A k \in 1 .. Len(objs) : objs'[k].disposals = heap[k].disposals
    <3> HIDE DEF p
    <3> QED
      BY <1>4, <2>1, AssignedFacts
  <2> QED
    BY <2>1, <2>2 DEF SameDisposals
<1> QED
  BY <1>1, <1>4, <1>5, <1>7, Busy, SteadyWork

\* A record is appended to a bag.
LEMMA Appended ==
  ASSUME NEW s \in Seq(Record), NEW rec \in Record
  PROVE  /\ Append(s, rec) \in Seq(Record) /\ Len(Append(s, rec)) = Len(s) + 1
         /\ Len(s) \in Nat /\ Append(s, rec)[Len(s) + 1] = rec
         /\ \A i \in 1 .. Len(s) : Append(s, rec)[i] = s[i]
         /\ \A i \in 1 .. Len(s) + 1 : i \in 1 .. Len(s) \/ i = Len(s) + 1
OBVIOUS

\* Only the parser on top has an object and no record.
LEMMA OneMaker ==
  ASSUME NEW rank, IInv, Once(rank), NEW r \in Reqs, NEW k \in 1 .. Len(parsers[r]), k # Len(parsers[r])
  PROVE  parsers[r][k].pc \in {"creating", "props"}
<1> DEFINE n == Len(parsers[r])
<1>1. n \in Nat /\ n \in 1 .. n /\ k \in 1 .. n - 1
  BY TypesOfShape DEF IInv
<1> QED
  BY <1>1 DEF Once, Descending, Over

\* A record of a new object in a bag whose objects differ.
LEMMA DistinctAppended ==
  ASSUME NEW s \in Seq(Record), NEW rec \in Record, DistinctValues(s),
         \A i \in 1 .. Len(s) : s[i].value # rec.value
  PROVE  DistinctValues(Append(s, rec))
<1> DEFINE t == Append(s, rec)
           n == Len(s)
<1>1. /\ Len(t) = n + 1 /\ t[n + 1] = rec /\ \A i \in 1 .. n : t[i] = s[i]
      /\ \A i \in 1 .. n + 1 : i \in 1 .. n \/ i = n + 1
  BY Appended
<1> HIDE DEF t, n
<1> QED
  BY <1>1 DEF DistinctValues, t, n

LEMMA PushRecordWork ==
  ASSUME InjectAssumption, NEW rank, Once(rank), IInv, LifeInv, NEW r \in Reqs, PushRecord(r)
  PROVE  WorkStep(r)
<1> DEFINE p == Top(parsers[r])
           n == Len(parsers[r])
           q == [p EXCEPT !.pc = "found"]
           rec == [key |-> p.key, value |-> p.obj]
           type == BindingOf(p.key).type
<1>1. /\ At(r, "created") /\ Go(r, q) /\ UNCHANGED <<objs, phase, disposal>>
      /\ singletons' = IF type = "Singleton" THEN Append(singletons, rec) ELSE singletons
      /\ scoped' = IF type = "Scoped" THEN [scoped EXCEPT ![r] = Append(@, rec)] ELSE scoped
      /\ transients' = IF type = "Transient" THEN [transients EXCEPT ![r] = Append(@, rec)] ELSE transients
  BY DEF PushRecord
<1>2. Shape
  BY DEF IInv
<1>3. /\ p \in Parser /\ p.pc = "created" /\ parsers[r] # <<>> /\ p = parsers[r][n] /\ n \in 1 .. n
      /\ p.key \in Keys /\ p.obj \in Nat
  BY <1>1, <1>2, TopFacts
<1>4. rec \in Record /\ rec.key = p.key /\ rec.value = p.obj
  BY <1>3 DEF Record
<1>5. type \in Types
  <2>1. BindingOf(p.key) \in Binding
    BY <1>3, BindingFacts
  <2> QED
    BY <2>1 DEF Binding
<1>6. q \in Parser /\ q.pc = "found"
  <2>1. "found" \in PCs
    BY DEF PCs
  <2> HIDE DEF p
  <2> QED
    BY <1>3, <2>1, PlaceUpdated
<1>7. \A k \in 1 .. Len(parsers'[r]) : parsers'[r][k].pc # "created"
  <2>1. /\ Len(parsers'[r]) = n /\ parsers'[r][n] = q
        /\ \A k \in 1 .. n - 1 : parsers'[r][k] = parsers[r][k]
    BY <1>1, <1>2, <1>3, <1>6, GoFacts
  <2>2. \A k \in 1 .. n - 1 : parsers[r][k].pc # "created"
    <3>1. \A k \in 1 .. n - 1 : k \in 1 .. n /\ k # n
      <4>1. n \in Nat
        BY <1>2, TypesOfShape
      <4> HIDE DEF n
      <4> QED
        BY <4>1
    <3> QED
      BY <3>1, OneMaker
  <2>3. \A k \in 1 .. n : k \in 1 .. n - 1 \/ k = n
    <3>1. n \in Nat
      BY <1>2, TypesOfShape
    <3> HIDE DEF n
    <3> QED
      BY <3>1
  <2> HIDE DEF n, q
  <2> QED
    BY <1>6, <2>1, <2>2, <2>3
<1> HIDE DEF q
<1>8. scoped[r] \in Seq(Record) /\ transients[r] \in Seq(Record) /\ singletons \in Seq(Record)
  BY <1>2 DEF Shape
<1>9. type # "Singleton" =>
        /\ \A i \in 1 .. Len(scoped[r]) : scoped[r][i].value # rec.value
        /\ \A i \in 1 .. Len(transients[r]) : transients[r][i].value # rec.value
  <2>1. type # "Singleton" => MakesOwn(p, p.obj)
    BY <1>3 DEF MakesOwn, TypeOf
  <2>2. type # "Singleton" => ~Recorded(r, p.obj)
    BY <1>3, <2>1 DEF LifeInv, Separate
  <2> QED
    BY <1>4, <2>2 DEF Recorded
<1> HIDE DEF p, rec
<1>10. ASSUME type = "Singleton" PROVE Typed' /\ (\A o : Recorded(r, o) => Recorded(r, o)') /\ Separate(r)'
  <2>1. singletons' = Append(singletons, rec) /\ UNCHANGED <<scoped, transients>>
    BY <1>1, <1>10
  <2>2. IsSingleton(rec.key)
    BY <1>4, <1>10 DEF IsSingleton
  <2>3. \A i \in 1 .. Len(singletons') : IsSingleton(singletons'[i].key)
    <3>1. /\ Len(singletons') = Len(singletons) + 1 /\ singletons'[Len(singletons) + 1] = rec
          /\ \A i \in 1 .. Len(singletons) : singletons'[i] = singletons[i]
          /\ \A i \in 1 .. Len(singletons) + 1 : i \in 1 .. Len(singletons) \/ i = Len(singletons) + 1
      BY <1>4, <1>8, <2>1, Appended
    <3> QED
      BY <2>2, <3>1 DEF LifeInv, Typed
  <2>4. Typed'
    BY <2>1, <2>3 DEF LifeInv, Typed
  <2>5. Separate(r)'
    BY <1>7, <2>1 DEF LifeInv, Separate, MakesOwn
  <2> QED
    BY <2>1, <2>4, <2>5 DEF Recorded
<1>11. ASSUME type = "Scoped" PROVE Typed' /\ (\A o : Recorded(r, o) => Recorded(r, o)') /\ Separate(r)'
  <2>1. /\ UNCHANGED <<singletons, transients>> /\ scoped'[r] = Append(scoped[r], rec)
        /\ \A a \in Reqs : a # r => scoped'[a] = scoped[a]
    BY <1>1, <1>2, <1>11 DEF Shape
  <2>2. /\ Len(scoped'[r]) = Len(scoped[r]) + 1 /\ scoped'[r][Len(scoped[r]) + 1] = rec
        /\ Len(scoped[r]) \in Nat
        /\ \A i \in 1 .. Len(scoped[r]) : scoped'[r][i] = scoped[r][i]
        /\ \A i \in 1 .. Len(scoped[r]) + 1 : i \in 1 .. Len(scoped[r]) \/ i = Len(scoped[r]) + 1
    <3>1. rec \in Record /\ scoped[r] \in Seq(Record)
      BY <1>4, <1>8
    <3> HIDE DEF rec, p, type
    <3> QED
      BY <2>1, <3>1, Appended
  <2>3. BindingOf(rec.key).type = "Scoped"
    BY <1>4, <1>11
  <2>4. Typed'
    <3>1. ASSUME NEW i \in 1 .. Len(scoped'[r]) PROVE BindingOf(scoped'[r][i].key).type = "Scoped"
      <4>1. \A j \in 1 .. Len(scoped[r]) : BindingOf(scoped[r][j].key).type = "Scoped"
        BY DEF LifeInv, Typed
      <4>2. CASE i \in 1 .. Len(scoped[r])
        BY <2>2, <4>1, <4>2
      <4>3. CASE i = Len(scoped[r]) + 1
        BY <2>2, <2>3, <4>3
      <4> QED
        BY <2>2, <4>2, <4>3
    <3>2. ASSUME NEW a \in Reqs PROVE \A i \in 1 .. Len(scoped'[a]) : BindingOf(scoped'[a][i].key).type = "Scoped"
      <4>1. CASE a = r
        BY <3>1, <4>1
      <4>2. CASE a # r
        <5>1. scoped'[a] = scoped[a]
          BY <2>1, <4>2
        <5> QED
          BY <5>1 DEF LifeInv, Typed
      <4> QED
        BY <4>1, <4>2
    <3>3. /\ \A i \in 1 .. Len(singletons) : IsSingleton(singletons[i].key)
          /\ \A a \in Reqs : \A i \in 1 .. Len(transients[a]) : BindingOf(transients[a][i].key).type = "Transient"
      BY DEF LifeInv, Typed
    <3>4. UNCHANGED <<singletons, transients>>
      BY <2>1
    <3> HIDE DEF rec, p, type
    <3> QED
      BY <3>2, <3>3, <3>4 DEF Typed
  <2>5. DistinctValues(scoped'[r])
    <3>1. DistinctValues(scoped[r])
      BY DEF LifeInv, Separate
    <3> QED
      BY <1>4, <1>8, <1>9, <1>11, <2>1, <3>1, DistinctAppended
  <2>6. \A i \in 1 .. Len(scoped'[r]) : \A j \in 1 .. Len(transients[r]) : scoped'[r][i].value # transients[r][j].value
    <3>1. \A i \in 1 .. Len(scoped[r]) : \A j \in 1 .. Len(transients[r]) : scoped[r][i].value # transients[r][j].value
      BY DEF LifeInv, Separate
    <3>2. type # "Singleton"
      BY <1>11
    <3> HIDE DEF rec, p, type
    <3>3. \A j \in 1 .. Len(transients[r]) : transients[r][j].value # rec.value
      BY <1>9, <3>2
    <3> QED
      BY <2>2, <3>1, <3>3
  <2>7. Separate(r)'
    BY <1>7, <2>1, <2>5, <2>6 DEF LifeInv, Separate, MakesOwn
  <2>8. \A i \in 1 .. Len(scoped[r]) : i \in 1 .. Len(scoped'[r])
    BY <2>2
  <2> QED
    BY <2>1, <2>2, <2>4, <2>7, <2>8 DEF Recorded
<1>12. ASSUME type = "Transient" PROVE Typed' /\ (\A o : Recorded(r, o) => Recorded(r, o)') /\ Separate(r)'
  <2>1. /\ UNCHANGED <<singletons, scoped>> /\ transients'[r] = Append(transients[r], rec)
        /\ \A a \in Reqs : a # r => transients'[a] = transients[a]
    BY <1>1, <1>2, <1>12 DEF Shape
  <2>2. /\ Len(transients'[r]) = Len(transients[r]) + 1 /\ transients'[r][Len(transients[r]) + 1] = rec
        /\ Len(transients[r]) \in Nat
        /\ \A i \in 1 .. Len(transients[r]) : transients'[r][i] = transients[r][i]
        /\ \A i \in 1 .. Len(transients[r]) + 1 : i \in 1 .. Len(transients[r]) \/ i = Len(transients[r]) + 1
    <3>1. rec \in Record /\ transients[r] \in Seq(Record)
      BY <1>4, <1>8
    <3> HIDE DEF rec, p, type
    <3> QED
      BY <2>1, <3>1, Appended
  <2>3. BindingOf(rec.key).type = "Transient"
    BY <1>4, <1>12
  <2>4. Typed'
    <3>1. ASSUME NEW i \in 1 .. Len(transients'[r]) PROVE BindingOf(transients'[r][i].key).type = "Transient"
      <4>1. \A j \in 1 .. Len(transients[r]) : BindingOf(transients[r][j].key).type = "Transient"
        BY DEF LifeInv, Typed
      <4>2. CASE i \in 1 .. Len(transients[r])
        BY <2>2, <4>1, <4>2
      <4>3. CASE i = Len(transients[r]) + 1
        BY <2>2, <2>3, <4>3
      <4> QED
        BY <2>2, <4>2, <4>3
    <3>2. ASSUME NEW a \in Reqs PROVE \A i \in 1 .. Len(transients'[a]) : BindingOf(transients'[a][i].key).type = "Transient"
      <4>1. CASE a = r
        BY <3>1, <4>1
      <4>2. CASE a # r
        <5>1. transients'[a] = transients[a]
          BY <2>1, <4>2
        <5> QED
          BY <5>1 DEF LifeInv, Typed
      <4> QED
        BY <4>1, <4>2
    <3>3. /\ \A i \in 1 .. Len(singletons) : IsSingleton(singletons[i].key)
          /\ \A a \in Reqs : \A i \in 1 .. Len(scoped[a]) : BindingOf(scoped[a][i].key).type = "Scoped"
      BY DEF LifeInv, Typed
    <3>4. UNCHANGED <<singletons, scoped>>
      BY <2>1
    <3> HIDE DEF rec, p, type
    <3> QED
      BY <3>2, <3>3, <3>4 DEF Typed
  <2>5. DistinctValues(transients'[r])
    <3>1. DistinctValues(transients[r])
      BY DEF LifeInv, Separate
    <3> QED
      BY <1>4, <1>8, <1>9, <1>12, <2>1, <3>1, DistinctAppended
  <2>6. \A i \in 1 .. Len(scoped[r]) : \A j \in 1 .. Len(transients'[r]) : scoped[r][i].value # transients'[r][j].value
    <3>1. \A i \in 1 .. Len(scoped[r]) : \A j \in 1 .. Len(transients[r]) : scoped[r][i].value # transients[r][j].value
      BY DEF LifeInv, Separate
    <3>2. type # "Singleton"
      BY <1>12
    <3> HIDE DEF rec, p, type
    <3>3. \A i \in 1 .. Len(scoped[r]) : scoped[r][i].value # rec.value
      BY <1>9, <3>2
    <3> QED
      BY <2>2, <3>1, <3>3
  <2>7. Separate(r)'
    BY <1>7, <2>1, <2>5, <2>6 DEF LifeInv, Separate, MakesOwn
  <2>8. \A i \in 1 .. Len(transients[r]) : i \in 1 .. Len(transients'[r])
    BY <2>2
  <2> QED
    BY <2>1, <2>2, <2>4, <2>7, <2>8 DEF Recorded
<1>13. ~Left(r)
  BY <1>3, Busy
<1>14. Len(objs) \in Nat /\ \A o : ~Fresh(o)
  BY <1>1, <1>2 DEF Shape, Fresh
<1> HIDE DEF type
<1> QED
  BY <1>1, <1>5, <1>10, <1>11, <1>12, <1>13, <1>14 DEF WorkStep, Types

-----------------------------------------------------------------------------
(* The steps of a request that does not parse.                             *)

RestStep(r) ==
  /\ UNCHANGED <<singletons, scoped, transients, parsers>>
  /\ \A q \in Reqs : q # r => phase'[q] = phase[q] /\ disposal'[q] = disposal[q]
  /\ Len(objs') = Len(objs)
  /\ \A o \in 1 .. Len(objs) : objs'[o].disposals # objs[o].disposals => Recorded(r, o) /\ Left(r)'
  /\ Left(r) => Left(r)'
  /\ Left(r)' => parsers[r] = <<>>
  /\ disposal'[r].queue # <<>> => phase'[r] = "disposing"
  /\ \A i \in 1 .. Len(disposal'[r].queue) : Recorded(r, disposal'[r].queue[i])

LEMMA LifeKeptAtRest ==
  ASSUME IInv, LifeInv, NEW r \in Reqs, RestStep(r)
  PROVE  LifeInv'
<1>1. UNCHANGED <<singletons, scoped, transients, parsers>>
  BY DEF RestStep
<1>2. \A q \in Reqs : \A o : Recorded(q, o)' <=> Recorded(q, o)
  BY <1>1 DEF Recorded
<1>3. \A q \in Reqs : q # r => (Left(q)' <=> Left(q)) /\ phase'[q] = phase[q] /\ disposal'[q] = disposal[q]
  BY DEF RestStep, Left
<1>4. QueueOwn'
  <2>1. ASSUME NEW q \in Reqs
        PROVE  /\ Left(q)' => parsers[q] = <<>>
               /\ disposal'[q].queue # <<>> => phase'[q] = "disposing"
               /\ \A i \in 1 .. Len(disposal'[q].queue) : Recorded(q, disposal'[q].queue[i])
    <3>1. CASE q = r
      BY <3>1 DEF RestStep
    <3>2. CASE q # r
      BY <1>3, <3>2 DEF LifeInv, QueueOwn
    <3> QED
      BY <3>1, <3>2
  <2> QED
    BY <1>1, <2>1 DEF QueueOwn, Recorded
<1>5. DisposedOwn'
  <2> SUFFICES ASSUME NEW o \in 1 .. Len(objs'), objs'[o].disposals # 0
               PROVE  \E q \in Reqs : Left(q)' /\ Recorded(q, o)'
    BY DEF DisposedOwn
  <2>1. o \in 1 .. Len(objs)
    BY DEF RestStep
  <2>2. CASE objs'[o].disposals # objs[o].disposals
    BY <1>2, <2>1, <2>2 DEF RestStep
  <2>3. CASE objs'[o].disposals = objs[o].disposals
    <3>1. PICK q \in Reqs : Left(q) /\ Recorded(q, o)
      BY <2>1, <2>3 DEF LifeInv, DisposedOwn
    <3> QED
      BY <1>2, <1>3, <3>1 DEF RestStep
  <2> QED
    BY <2>2, <2>3
<1>6. Typed' /\ \A q \in Reqs : Separate(q)'
  BY <1>1 DEF LifeInv, Typed, Separate, Recorded
<1> QED
  BY <1>4, <1>5, <1>6 DEF LifeInv

\* An object that the request recorded under the key.
HasKey(r, o, key) ==
  \/ \E i \in 1 .. Len(scoped[r]) : scoped[r][i].value = o /\ scoped[r][i].key = key
  \/ \E i \in 1 .. Len(transients[r]) : transients[r][i].value = o /\ transients[r][i].key = key

\* What one inject() middleware collects.
LEMMA QueueFacts ==
  ASSUME InjectAssumption, SingletonsStay, IInv, LifeInv, NEW r \in Reqs, NEW at \in 1 .. Len(Binds)
  PROVE  /\ ToDispose(r, Binds[at]) \in Seq(Nat)
         /\ \A i \in 1 .. Len(ToDispose(r, Binds[at])) : HasKey(r, ToDispose(r, Binds[at])[i], Binds[at].anestor)
<1> DEFINE b == Binds[at]
           key == b.anestor
<1>1. b \in Binding /\ key \in Keys /\ b.type \in Types
  <2>1. Binds \in Seq(Binding)
    BY DEF InjectAssumption
  <2>2. b \in Binding
    BY <2>1
  <2>3. \A x \in Binding : x.anestor \in Keys /\ x.type \in Types
    BY DEF Binding
  <2> QED
    BY <2>2, <2>3
<1>2. Shape
  BY DEF IInv
<1>3. ToDispose(r, b) \in Seq(Nat)
  BY <1>1, ToDisposeFacts
<1>4. b.type = "Scoped" => ~IsSingleton(key)
  BY DEF SingletonsStay, InjectAssumption
<1> HIDE DEF b
<1>5. CASE b.type = "Scoped" /\ Exists(r, key)
  <2> DEFINE e == Existing(r, key)
             records == Records(r, BindingOf(key).type)
  <2>1. ToDispose(r, b) = <<e>>
    BY <1>5, Zenon DEF ToDispose
  <2>2. PICK i \in DOMAIN records : records[i].key = key /\ e = records[i].value
    BY <1>1, <1>2, <1>5, ExistingFacts
  <2>3. records \in Seq(Record)
    BY <1>2, RecordsFacts
  <2>4. i \in 1 .. Len(records)
    <3> HIDE DEF records
    <3> QED
      BY <2>2, <2>3
  <2>5. records = scoped[r] \/ records = <<>>
    BY <1>4, <1>5 DEF Records, IsSingleton
  <2>6. records = scoped[r]
    <3> HIDE DEF records
    <3> QED
      BY <2>4, <2>5
  <2>7. HasKey(r, e, key)
    <3> HIDE DEF records, e
    <3> QED
      BY <2>2, <2>4, <2>6 DEF HasKey
  <2> HIDE DEF e
  <2> QED
    BY <1>3, <2>1, <2>7 DEF b
<1>6. CASE b.type = "Transient"
  <2> DEFINE v == ValuesOf(transients[r], key)
  <2>1. ToDispose(r, b) = v
    BY <1>6 DEF ToDispose
  <2>2. transients[r] \in Seq(Record)
    BY <1>2 DEF Shape
  <2>3. Collected(v, transients[r], key, Len(transients[r]))
    BY <2>2, ValuesFacts
  <2> HIDE DEF v
  <2>4. \A i \in 1 .. Len(v) : HasKey(r, v[i], key)
    BY <2>3 DEF Collected, HasKey
  <2> QED
    BY <1>3, <2>1, <2>4 DEF b
<1>7. CASE b.type = "Singleton" \/ (b.type = "Scoped" /\ ~Exists(r, key))
  <2>1. ToDispose(r, b) = <<>>
    BY <1>7 DEF ToDispose
  <2> QED
    BY <2>1 DEF b
<1> QED
  BY <1>1, <1>5, <1>6, <1>7 DEF Types

\* A step that calls the dispose() of the first object of a queue.
Disposes(r, at, queue) ==
  /\ disposal'[r] = [at |-> at, queue |-> queue]
  /\ \A q \in Reqs : q # r => disposal'[q] = disposal[q]
  /\ Len(objs') = Len(objs)
  /\ \A o \in 1 .. Len(objs) :
       objs'[o].disposals = IF queue # <<>> /\ o = queue[1] THEN objs[o].disposals + 1 ELSE objs[o].disposals
  /\ UNCHANGED <<singletons, scoped, transients, phase, parsers, held, parses, thrown>>

LEMMA DisposesFacts ==
  ASSUME IInv, LifeInv, NEW r \in Reqs, NEW at, NEW queue \in Seq(Nat),
         \A i \in 1 .. Len(queue) : Recorded(r, queue[i]),
         CallDispose(r, at, queue),
         UNCHANGED <<singletons, scoped, transients, phase, parsers, held, parses, thrown>>
  PROVE  Disposes(r, at, queue)
<1>1. \A i \in 1 .. Len(queue) : queue[i] \in Nat
  OBVIOUS
<1>2. \A i \in 1 .. Len(queue) : queue[i] \in 1 .. Len(objs)
  BY <1>1 DEF IInv, Bounded, Mine
<1>3. /\ Len(objs') = Len(objs)
      /\ \A o \in 1 .. Len(objs) :
           objs'[o].disposals = IF queue # <<>> /\ o = queue[1] THEN objs[o].disposals + 1 ELSE objs[o].disposals
  BY <1>2, CallDisposeHeap
<1>4. disposal' = [disposal EXCEPT ![r] = [at |-> at, queue |-> queue]]
  BY Zenon DEF CallDispose
<1>5. disposal'[r] = [at |-> at, queue |-> queue] /\ \A q \in Reqs : q # r => disposal'[q] = disposal[q]
  BY <1>4 DEF IInv, Shape
<1> QED
  BY <1>3, <1>5 DEF Disposes

LEMMA DisposesAtRest ==
  ASSUME IInv, LifeInv, NEW r \in Reqs, phase[r] = "disposing", NEW at, NEW queue \in Seq(Nat),
         \A i \in 1 .. Len(queue) : Recorded(r, queue[i]), Disposes(r, at, queue)
  PROVE  RestStep(r)
<1>1. /\ UNCHANGED <<singletons, scoped, transients, phase, parsers>> /\ disposal'[r].queue = queue
      /\ Len(objs') = Len(objs)
  BY DEF Disposes
<1>2. Left(r) /\ Left(r)' /\ parsers[r] = <<>>
  BY <1>1 DEF Left, LifeInv, QueueOwn
<1>3. \A o \in 1 .. Len(objs) : objs'[o].disposals # objs[o].disposals => Recorded(r, o)
  <2>1. queue # <<>> => 1 \in 1 .. Len(queue)
    OBVIOUS
  <2> QED
    BY <2>1 DEF Disposes
<1>4. \A q \in Reqs : q # r => phase'[q] = phase[q] /\ disposal'[q] = disposal[q]
  BY <1>1 DEF Disposes
<1>5. phase'[r] = "disposing"
  BY <1>1
<1> QED
  BY <1>1, <1>2, <1>3, <1>4, <1>5 DEF RestStep

LEMMA KeyIsRecorded == \A r, o, key : HasKey(r, o, key) => Recorded(r, o)
BY DEF HasKey, Recorded

LEMMA UnwindCase ==
  ASSUME InjectAssumption, SingletonsStay, IInv, LifeInv, NEW r \in Reqs, Unwind(r)
  PROVE  \E at \in 1 .. Len(Binds) :
           /\ disposal[r].at = at /\ disposal[r].queue = <<>>
           /\ ToDispose(r, Binds[at]) \in Seq(Nat)
           /\ \A i \in 1 .. Len(ToDispose(r, Binds[at])) : HasKey(r, ToDispose(r, Binds[at])[i], Binds[at].anestor)
           /\ Disposes(r, at - 1, ToDispose(r, Binds[at]))
<1> DEFINE at == disposal[r].at
<1>1. at \in 0 .. Len(Binds) /\ at > 0 /\ Len(Binds) \in Nat /\ disposal[r].queue = <<>>
  BY DEF IInv, Shape, Unwind, InjectAssumption
<1>2. CallDispose(r, at - 1, ToDispose(r, Binds[at]))
      /\ UNCHANGED <<singletons, scoped, transients, phase, parsers, held, parses, thrown>>
  BY DEF Unwind
<1>3. at \in 1 .. Len(Binds)
  <2> HIDE DEF at
  <2> QED
    BY <1>1
<1> HIDE DEF at
<1> DEFINE queue == ToDispose(r, Binds[at])
<1>4. queue \in Seq(Nat) /\ \A i \in 1 .. Len(queue) : HasKey(r, queue[i], Binds[at].anestor)
  BY <1>3, QueueFacts
<1> HIDE DEF queue
<1>5. \A i \in 1 .. Len(queue) : Recorded(r, queue[i])
  BY <1>4, KeyIsRecorded
<1>6. Disposes(r, at - 1, queue)
  BY <1>2, <1>4, <1>5, DisposesFacts DEF queue
<1> QED
  BY <1>1, <1>3, <1>4, <1>6 DEF at, queue

LEMMA DisposeNextCase ==
  ASSUME IInv, LifeInv, NEW r \in Reqs, DisposeNext(r)
  PROVE  LET queue == disposal[r].queue
         IN /\ queue \in Seq(Nat) /\ queue # <<>> /\ Tail(queue) \in Seq(Nat)
            /\ Len(Tail(queue)) = Len(queue) - 1
            /\ \A i \in 1 .. Len(queue) - 1 : Tail(queue)[i] = queue[i + 1]
            /\ Disposes(r, disposal[r].at, Tail(queue))
<1> DEFINE queue == disposal[r].queue
<1>1. queue \in Seq(Nat) /\ queue # <<>>
  BY DEF IInv, Shape, DisposeNext
<1>2. CallDispose(r, disposal[r].at, Tail(queue))
      /\ UNCHANGED <<singletons, scoped, transients, phase, parsers, held, parses, thrown>>
  BY DEF DisposeNext
<1>3. \A i \in 1 .. Len(queue) : Recorded(r, queue[i])
  BY DEF LifeInv, QueueOwn
<1> HIDE DEF queue
<1>4. /\ Tail(queue) \in Seq(Nat) /\ Len(Tail(queue)) = Len(queue) - 1
      /\ \A i \in 1 .. Len(queue) - 1 : Tail(queue)[i] = queue[i + 1] /\ i + 1 \in 1 .. Len(queue)
  BY <1>1
<1>5. \A i \in 1 .. Len(Tail(queue)) : Recorded(r, Tail(queue)[i])
  BY <1>3, <1>4
<1>6. Disposes(r, disposal[r].at, Tail(queue))
  BY <1>2, <1>4, <1>5, DisposesFacts
<1> QED
  BY <1>1, <1>4, <1>6 DEF queue

LEMMA AtRestStep ==
  ASSUME InjectAssumption, SingletonsStay, IInv, LifeInv, NEW r \in Reqs,
         Begin(r) \/ Leave(r) \/ Unwind(r) \/ DisposeNext(r) \/ DisposeFails(r) \/ Finish(r)
  PROVE  RestStep(r)
<1>1. Shape /\ QueueOwn
  BY DEF IInv, LifeInv
<1>2. CASE Begin(r)
  <2>1. /\ UNCHANGED <<objs, singletons, scoped, transients, parsers, disposal>>
        /\ phase[r] = "idle" /\ phase' = [phase EXCEPT ![r] = "using"]
    BY <1>2 DEF Begin
  <2>2. phase'[r] = "using" /\ \A q \in Reqs : q # r => phase'[q] = phase[q]
    BY <1>1, <2>1 DEF Shape
  <2> QED
    BY <1>1, <2>1, <2>2 DEF RestStep, Left, QueueOwn
<1>3. CASE Leave(r)
  <2>1. /\ UNCHANGED <<objs, singletons, scoped, transients, parsers>> /\ phase[r] = "using" /\ parsers[r] = <<>>
        /\ phase' = [phase EXCEPT ![r] = "disposing"]
        /\ disposal' = [disposal EXCEPT ![r].at = Len(Binds)]
    BY <1>3 DEF Leave, AtRest
  <2>2. phase'[r] = "disposing" /\ \A q \in Reqs : q # r => phase'[q] = phase[q]
    BY <1>1, <2>1 DEF Shape
  <2>3. disposal'[r].queue = disposal[r].queue /\ \A q \in Reqs : q # r => disposal'[q] = disposal[q]
    BY <1>1, <2>1 DEF Shape
  <2> QED
    BY <1>1, <2>1, <2>2, <2>3 DEF RestStep, Left, QueueOwn
<1>4. CASE Unwind(r)
  <2>1. PICK at \in 1 .. Len(Binds) :
           /\ ToDispose(r, Binds[at]) \in Seq(Nat)
           /\ \A i \in 1 .. Len(ToDispose(r, Binds[at])) : HasKey(r, ToDispose(r, Binds[at])[i], Binds[at].anestor)
           /\ Disposes(r, at - 1, ToDispose(r, Binds[at]))
    BY <1>4, UnwindCase
  <2>2. \A i \in 1 .. Len(ToDispose(r, Binds[at])) : Recorded(r, ToDispose(r, Binds[at])[i])
    BY <2>1, KeyIsRecorded
  <2>3. phase[r] = "disposing"
    BY <1>4 DEF Unwind
  <2> QED
    BY <2>1, <2>2, <2>3, DisposesAtRest
<1>5. CASE DisposeNext(r)
  <2> DEFINE queue == disposal[r].queue
  <2>1. /\ queue \in Seq(Nat) /\ queue # <<>> /\ Tail(queue) \in Seq(Nat)
        /\ Len(Tail(queue)) = Len(queue) - 1
        /\ \A i \in 1 .. Len(queue) - 1 : Tail(queue)[i] = queue[i + 1]
        /\ Disposes(r, disposal[r].at, Tail(queue))
    BY <1>5, DisposeNextCase
  <2>2. phase[r] = "disposing" /\ \A i \in 1 .. Len(queue) : Recorded(r, queue[i])
    BY <1>1, <2>1 DEF QueueOwn
  <2> HIDE DEF queue
  <2>3. \A i \in 1 .. Len(Tail(queue)) : Recorded(r, Tail(queue)[i])
    <3>1. \A i \in 1 .. Len(queue) - 1 : i + 1 \in 1 .. Len(queue)
      BY <2>1
    <3> QED
      BY <2>1, <2>2, <3>1
  <2> QED
    BY <2>1, <2>2, <2>3, DisposesAtRest
<1>6. CASE DisposeFails(r)
  <2>1. /\ UNCHANGED <<objs, singletons, scoped, transients, phase, parsers>> /\ disposal[r].queue # <<>>
        /\ disposal' = [disposal EXCEPT ![r].queue = <<>>]
    BY <1>6 DEF DisposeFails
  <2>2. disposal'[r].queue = <<>> /\ \A q \in Reqs : q # r => disposal'[q] = disposal[q]
    BY <1>1, <2>1 DEF Shape
  <2> QED
    BY <1>1, <2>1, <2>2 DEF RestStep, Left, QueueOwn
<1>7. CASE Finish(r)
  <2>1. /\ UNCHANGED <<objs, singletons, scoped, transients, parsers, disposal>>
        /\ phase[r] = "disposing" /\ disposal[r].queue = <<>> /\ phase' = [phase EXCEPT ![r] = "done"]
    BY <1>7 DEF Finish
  <2>2. phase'[r] = "done" /\ \A q \in Reqs : q # r => phase'[q] = phase[q]
    BY <1>1, <2>1 DEF Shape
  <2> QED
    BY <1>1, <2>1, <2>2 DEF RestStep, Left, QueueOwn
<1> QED
  BY <1>2, <1>3, <1>4, <1>5, <1>6, <1>7

\* Every step is a step of work or one at rest.
LEMMA AnyLife ==
  ASSUME InjectAssumption, GivenAreSingletons, SingletonsStay, NEW rank, Once(rank), IInv, LifeInv, Next
  PROVE  \E r \in Reqs : /\ StepOK(r) /\ FlagStep(r) /\ (WorkStep(r) \/ RestStep(r))
                         /\ \/ WorkStep(r) \/ Begin(r) \/ Leave(r) \/ Unwind(r)
                            \/ DisposeNext(r) \/ DisposeFails(r) \/ Finish(r)
<1>1. PICK r \in Reqs : Begin(r) \/ ParseKey(r) \/ ParseInstance(r) \/ Advance(r)
  BY DEF Next
<1>2. StepOK(r)
  <2>1. Advance(r) => StepOK(r)
    BY ParseArgStep, CreateStep, PushRecordStep, SkipInjectionStep, StartInjectionStep, InjectPropsStep,
       ParsePropStep, InitializeStep, FinishInjectionStep, ParseFailsStep, LeaveStep, UnwindStep,
       DisposeNextStep, DisposeFailsStep, FinishStep, Zenon DEF Advance
  <2> QED
    BY <1>1, <2>1, BeginStep, ParseKeyStep, ParseInstanceStep
<1>3. FlagStep(r)
  <2>1. Advance(r) => FlagStep(r)
    BY ParseFlags, CreateFlags, GoFlags, StartFlags, ReturnFlags, ParseFailsFlags, SteadyFlags,
       DisposalFlags, Zenon DEF Advance
  <2> QED
    BY <1>1, <2>1, ParseFlags, SteadyFlags
<1>4. \/ WorkStep(r) \/ Begin(r) \/ Leave(r) \/ Unwind(r)
      \/ DisposeNext(r) \/ DisposeFails(r) \/ Finish(r)
  <2>1. ParseKey(r) \/ ParseInstance(r) \/ ParseArg(r) \/ ParseProp(r) => WorkStep(r)
    BY ParseWork
  <2>2. Create(r) => WorkStep(r)
    BY CreateWork
  <2>3. PushRecord(r) => WorkStep(r)
    BY PushRecordWork
  <2>4. StartInjection(r) \/ InjectProps(r) \/ Initialize(r) => WorkStep(r)
    BY GoingWork
  <2>5. SkipInjection(r) \/ FinishInjection(r) => WorkStep(r)
    BY ReturnWork
  <2>6. ParseFails(r) => WorkStep(r)
    BY ParseFailsWork
  <2> QED
    BY <1>1, <2>1, <2>2, <2>3, <2>4, <2>5, <2>6, Zenon DEF Advance
<1>5. WorkStep(r) \/ RestStep(r)
  BY <1>4, AtRestStep
<1> QED
  BY <1>2, <1>3, <1>4, <1>5

LEMMA StepLife ==
  ASSUME InjectAssumption, GivenAreSingletons, SingletonsStay, NEW rank, Once(rank), IInv, LifeInv, [Next]_vars
  PROVE  LifeInv'
<1>1. CASE Next
  <2>1. PICK r \in Reqs : StepOK(r) /\ (WorkStep(r) \/ RestStep(r))
    BY <1>1, AnyLife
  <2> QED
    BY <2>1, LifeKeptAtWork, LifeKeptAtRest
<1>2. CASE UNCHANGED vars
  BY <1>2 DEF vars, LifeInv, QueueOwn, DisposedOwn, Typed, Separate, Left, Recorded
<1> QED
  BY <1>1, <1>2

LEMMA InitLife ==
  ASSUME InjectAssumption, Init
  PROVE  LifeInv
<1>1. /\ singletons = <<>>
      /\ \A r \in Reqs : /\ phase[r] = "idle" /\ scoped[r] = <<>> /\ transients[r] = <<>> /\ parsers[r] = <<>>
                         /\ disposal[r].queue = <<>>
  BY DEF Init
<1>2. \A o \in 1 .. Len(objs) : objs[o].disposals = 0
  <2>1. Given \in Seq(Classes)
    BY DEF InjectAssumption
  <2>2. objs = [i \in 1 .. Len(Given) |-> NewObject(Given[i], {})]
    BY <2>1 DEF Init
  <2> QED
    BY <2>1, <2>2 DEF NewObject
<1>3. QueueOwn /\ DisposedOwn /\ Typed
  BY <1>1, <1>2 DEF QueueOwn, DisposedOwn, Typed, Left
<1>4. \A r \in Reqs : Separate(r)
  BY <1>1 DEF Separate, DistinctValues
<1> QED
  BY <1>3, <1>4 DEF LifeInv

-----------------------------------------------------------------------------
(* What is collected is disposed, and once.                                *)

DistinctBinds == \A i, j \in 1 .. Len(Binds) : Binds[i].anestor = Binds[j].anestor => i = j

LEMMA FirstBinding ==
  ASSUME InjectAssumption, DistinctBinds, NEW i \in 1 .. Len(Binds)
  PROVE  BindingOf(Binds[i].anestor) = Binds[i]
<1> DEFINE key == Binds[i].anestor
           mine == {j \in DOMAIN Binds : Binds[j].anestor = key}
<1>1. DOMAIN Binds = 1 .. Len(Binds) /\ Len(Binds) \in Nat
  BY DEF InjectAssumption
<1>2. mine = {i}
  BY <1>1 DEF DistinctBinds
<1>3. \E j \in mine : \A k \in mine : j <= k
  BY <1>1, <1>2
<1>4. PICK j \in mine : BindingOf(key) = Binds[j]
  BY <1>2, <1>3, Zenon DEF BindingOf
<1> QED
  BY <1>2, <1>4

LEMMA DistinctStay ==
  ASSUME InjectAssumption, DistinctBinds
  PROVE  SingletonsStay
<1>1. \A i \in DOMAIN Binds : i \in 1 .. Len(Binds)
  BY DEF InjectAssumption
<1> QED
  BY <1>1, FirstBinding DEF SingletonsStay, IsSingleton

\* An object has one key.
LEMMA KeysDiffer ==
  ASSUME LifeInv, NEW r \in Reqs, NEW o, NEW key, NEW other, HasKey(r, o, key), HasKey(r, o, other)
  PROVE  key = other
<1>1. Separate(r)
  BY DEF LifeInv
<1>2. DistinctValues(scoped[r]) /\ DistinctValues(transients[r])
  BY <1>1 DEF Separate
<1>3. \A i \in 1 .. Len(scoped[r]) : \A j \in 1 .. Len(transients[r]) : scoped[r][i].value # transients[r][j].value
  BY <1>1 DEF Separate
<1>4. CASE \E i \in 1 .. Len(scoped[r]) : scoped[r][i].value = o /\ scoped[r][i].key = key
  BY <1>2, <1>3, <1>4, Zenon DEF HasKey, DistinctValues
<1>5. CASE \E i \in 1 .. Len(transients[r]) : transients[r][i].value = o /\ transients[r][i].key = key
  BY <1>2, <1>3, <1>5, Zenon DEF HasKey, DistinctValues
<1> QED
  BY <1>4, <1>5 DEF HasKey

LEMMA BoundKeysDiffer ==
  ASSUME LifeInv, DistinctBinds, NEW r \in Reqs, NEW o, NEW a \in 1 .. Len(Binds), NEW b \in 1 .. Len(Binds),
         HasKey(r, o, Binds[a].anestor), HasKey(r, o, Binds[b].anestor)
  PROVE  a = b
BY KeysDiffer DEF DistinctBinds

\* The inject() middleware collects everything under its key, and once.
LEMMA AllCollected ==
  ASSUME InjectAssumption, DistinctBinds, NEW rank, Once(rank), IInv, LifeInv, NEW r \in Reqs, NEW at \in 1 .. Len(Binds)
  PROVE  /\ DistinctItems(ToDispose(r, Binds[at]))
         /\ \A o : HasKey(r, o, Binds[at].anestor) =>
              \E i \in 1 .. Len(ToDispose(r, Binds[at])) : ToDispose(r, Binds[at])[i] = o
<1> DEFINE b == Binds[at]
           key == b.anestor
<1>1. b \in Binding /\ key \in Keys /\ b.type \in Types
  <2>1. Binds \in Seq(Binding)
    BY DEF InjectAssumption
  <2>2. b \in Binding
    BY <2>1
  <2>3. \A x \in Binding : x.anestor \in Keys /\ x.type \in Types
    BY DEF Binding
  <2> QED
    BY <2>2, <2>3
<1>2. Shape /\ Separate(r) /\ Each(r)
  BY DEF IInv, LifeInv, Once
<1>3. BindingOf(key) = b
  BY FirstBinding
<1>4. /\ \A i \in 1 .. Len(scoped[r]) : scoped[r][i].key = key => b.type = "Scoped"
      /\ \A i \in 1 .. Len(transients[r]) : transients[r][i].key = key => b.type = "Transient"
  <2>1. /\ \A i \in 1 .. Len(scoped[r]) : BindingOf(scoped[r][i].key).type = "Scoped"
        /\ \A i \in 1 .. Len(transients[r]) : BindingOf(transients[r][i].key).type = "Transient"
    BY DEF LifeInv, Typed
  <2> HIDE DEF b
  <2> QED
    BY <1>3, <2>1
<1> HIDE DEF b
<1>5. CASE b.type = "Scoped" /\ Exists(r, key)
  <2> DEFINE e == Existing(r, key)
             records == Records(r, BindingOf(key).type)
  <2>1. ToDispose(r, b) = <<e>>
    BY <1>5, Zenon DEF ToDispose
  <2>2. PICK i \in DOMAIN records : records[i].key = key /\ e = records[i].value
    BY <1>1, <1>2, <1>5, ExistingFacts
  <2>3. records = scoped[r]
    BY <1>3, <1>5 DEF Records
  <2>4. DOMAIN scoped[r] = 1 .. Len(scoped[r])
    BY <1>2 DEF Shape
  <2>5. ASSUME NEW o, HasKey(r, o, key) PROVE o = e
    <3>1. PICK j \in 1 .. Len(scoped[r]) : scoped[r][j].value = o /\ scoped[r][j].key = key
      BY <1>4, <1>5, <2>5 DEF HasKey
    <3> HIDE DEF records, e
    <3> QED
      BY <1>2, <2>2, <2>3, <2>4, <3>1 DEF Each
  <2> HIDE DEF e
  <2>6. Len(<<e>>) = 1 /\ <<e>>[1] = e
    OBVIOUS
  <2> QED
    BY <2>1, <2>5, <2>6 DEF b, DistinctItems
<1>6. CASE b.type = "Transient"
  <2> DEFINE v == ValuesOf(transients[r], key)
  <2>1. ToDispose(r, b) = v
    BY <1>6 DEF ToDispose
  <2>2. transients[r] \in Seq(Record)
    BY <1>2 DEF Shape
  <2>3. Collected(v, transients[r], key, Len(transients[r]))
    BY <2>2, ValuesFacts
  <2> HIDE DEF v
  <2>4. DistinctItems(v)
    BY <1>2, <2>3 DEF Collected, Separate
  <2>5. ASSUME NEW o, HasKey(r, o, key) PROVE \E i \in 1 .. Len(v) : v[i] = o
    <3>1. PICK j \in 1 .. Len(transients[r]) : transients[r][j].value = o /\ transients[r][j].key = key
      BY <1>4, <1>6, <2>5 DEF HasKey
    <3> QED
      BY <2>3, <3>1 DEF Collected
  <2> QED
    BY <2>1, <2>4, <2>5 DEF b
<1>7. CASE b.type = "Singleton" \/ (b.type = "Scoped" /\ ~Exists(r, key))
  <2>1. ToDispose(r, b) = <<>>
    BY <1>7 DEF ToDispose
  <2>2. ASSUME NEW o PROVE ~HasKey(r, o, key)
    <3>1. CASE b.type = "Singleton"
      BY <1>4, <3>1 DEF HasKey
    <3>2. CASE b.type = "Scoped" /\ ~Exists(r, key)
      <4>1. Records(r, BindingOf(key).type) = scoped[r]
        BY <1>3, <3>2 DEF Records
      <4>2. DOMAIN scoped[r] = 1 .. Len(scoped[r])
        BY <1>2 DEF Shape
      <4>3. \A i \in 1 .. Len(scoped[r]) : scoped[r][i].key # key
        BY <3>2, <4>1, <4>2 DEF Exists
      <4> QED
        BY <1>4, <3>2, <4>3 DEF HasKey
    <3> QED
      BY <1>7, <3>1, <3>2
  <2> QED
    BY <2>1, <2>2 DEF b, DistinctItems
<1> QED
  BY <1>1, <1>5, <1>6, <1>7 DEF Types

\* The objects of the inject() calls that were unwound are disposed, but for
\* those that wait in the queue; its first one is being disposed.
Waits(queue, o) == \E i \in 2 .. Len(queue) : queue[i] = o
Due(r, at, queue) ==
  /\ DistinctItems(queue)
  /\ queue # <<>> => at + 1 \in 1 .. Len(Binds) /\ \A i \in 1 .. Len(queue) : HasKey(r, queue[i], Binds[at + 1].anestor)
  /\ \A b \in 1 .. Len(Binds) : \A o \in 1 .. Len(objs) : HasKey(r, o, Binds[b].anestor) =>
       objs[o].disposals = IF b > at /\ ~Waits(queue, o) THEN 1 ELSE 0
Unwound(r) ==
  thrown[r] = 0 /\ Left(r) =>
    /\ Due(r, disposal[r].at, disposal[r].queue)
    /\ phase[r] = "done" => disposal[r] = [at |-> 0, queue |-> <<>>]
UnwoundInv == \A r \in Reqs : Unwound(r)

LEMMA UnwoundElsewhere ==
  ASSUME IInv, Apart, NEW r \in Reqs, StepOK(r), FlagStep(r), WorkStep(r) \/ RestStep(r),
         NEW a \in Reqs, a # r, Unwound(a)
  PROVE  Unwound(a)'
<1>1. scoped'[a] = scoped[a] /\ transients'[a] = transients[a] /\ thrown'[a] = thrown[a]
  BY DEF StepOK, OtherStep, FlagStep
<1>2. phase'[a] = phase[a] /\ disposal'[a] = disposal[a]
  BY DEF WorkStep, RestStep
<1>3. \A o, key : HasKey(a, o, key)' <=> HasKey(a, o, key)
  BY <1>1 DEF HasKey
<1>4. ASSUME NEW o, NEW key, HasKey(a, o, key)
      PROVE  o \in 1 .. Len(objs) /\ objs'[o].disposals = objs[o].disposals
  <2>1. o \in Nat
    <3>1. \A x \in Record : x.value \in Nat
      BY DEF Record
    <3>2. scoped[a] \in Seq(Record) /\ transients[a] \in Seq(Record)
      BY DEF IInv, Shape
    <3>3. /\ \A i \in 1 .. Len(scoped[a]) : scoped[a][i] \in Record
          /\ \A i \in 1 .. Len(transients[a]) : transients[a][i] \in Record
      BY <3>2
    <3> QED
      BY <1>4, <3>1, <3>3 DEF HasKey
  <2>2. Mine(a, o)
    BY <1>4, KeyIsRecorded DEF Mine
  <2>3. o \in 1 .. Len(objs)
    BY <2>1, <2>2 DEF IInv, Bounded
  <2>4. ~Recorded(r, o)
    BY <2>1, <2>2 DEF Apart, Mine
  <2> QED
    BY <2>3, <2>4 DEF WorkStep, RestStep
<1> SUFFICES ASSUME thrown[a] = 0, Left(a)
             PROVE  /\ Due(a, disposal[a].at, disposal[a].queue)'
                    /\ phase[a] = "done" => disposal[a] = [at |-> 0, queue |-> <<>>]
  BY <1>1, <1>2 DEF Unwound, Left
<1>5. Due(a, disposal[a].at, disposal[a].queue) /\ (phase[a] = "done" => disposal[a] = [at |-> 0, queue |-> <<>>])
  BY DEF Unwound
<1>6. ASSUME NEW b \in 1 .. Len(Binds), NEW o \in 1 .. Len(objs'), HasKey(a, o, Binds[b].anestor)'
      PROVE  objs'[o].disposals = IF b > disposal[a].at /\ ~Waits(disposal[a].queue, o) THEN 1 ELSE 0
  BY <1>3, <1>4, <1>5, <1>6 DEF Due
<1> QED
  BY <1>2, <1>3, <1>5, <1>6 DEF Due

LEMMA LeaveUnwound ==
  ASSUME InjectAssumption, IInv, Apart, LifeInv, NEW r \in Reqs, Leave(r)
  PROVE  Unwound(r)'
<1>1. Shape /\ QueueOwn /\ DisposedOwn
  BY DEF IInv, LifeInv
<1>2. /\ UNCHANGED <<objs, singletons, scoped, transients, parsers>> /\ phase[r] = "using"
      /\ phase' = [phase EXCEPT ![r] = "disposing"]
      /\ disposal' = [disposal EXCEPT ![r].at = Len(Binds)]
  BY DEF Leave, AtRest
<1>3. phase'[r] = "disposing"
  BY <1>1, <1>2 DEF Shape
<1>4. disposal'[r].at = Len(Binds) /\ disposal'[r].queue = <<>>
  <2>1. disposal[r].queue = <<>>
    BY <1>1, <1>2 DEF QueueOwn
  <2> QED
    BY <1>1, <1>2, <2>1 DEF Shape
<1>5. ASSUME NEW o \in 1 .. Len(objs), NEW key, HasKey(r, o, key) PROVE objs[o].disposals = 0
  <2> SUFFICES ASSUME objs[o].disposals # 0 PROVE FALSE
    OBVIOUS
  <2>1. PICK q \in Reqs : Left(q) /\ Recorded(q, o)
    BY <1>1 DEF DisposedOwn
  <2>2. q # r
    BY <1>2, <2>1 DEF Left
  <2>3. Mine(q, o) /\ Mine(r, o) /\ o \in Nat
    BY <1>5, <2>1, KeyIsRecorded DEF Mine
  <2> QED
    BY <2>2, <2>3 DEF Apart
<1>6. \A b \in 1 .. Len(Binds) : ~(b > Len(Binds))
  BY DEF InjectAssumption
<1>7. DistinctItems(<<>>)
  BY DEF DistinctItems
<1>8. Due(r, disposal[r].at, disposal[r].queue)'
  BY <1>2, <1>4, <1>5, <1>6, <1>7 DEF Due, HasKey
<1> QED
  BY <1>3, <1>8 DEF Unwound

LEMMA UnwindUnwound ==
  ASSUME InjectAssumption, DistinctBinds, NEW rank, Once(rank), IInv, LifeInv, NEW r \in Reqs, Unwound(r), Unwind(r)
  PROVE  Unwound(r)'
<1>1. SingletonsStay
  BY DistinctStay
<1>2. PICK at \in 1 .. Len(Binds) :
        /\ disposal[r].at = at /\ disposal[r].queue = <<>>
        /\ ToDispose(r, Binds[at]) \in Seq(Nat)
        /\ \A i \in 1 .. Len(ToDispose(r, Binds[at])) : HasKey(r, ToDispose(r, Binds[at])[i], Binds[at].anestor)
        /\ Disposes(r, at - 1, ToDispose(r, Binds[at]))
  BY <1>1, UnwindCase
<1>3. /\ DistinctItems(ToDispose(r, Binds[at]))
      /\ \A o : HasKey(r, o, Binds[at].anestor) =>
           \E i \in 1 .. Len(ToDispose(r, Binds[at])) : ToDispose(r, Binds[at])[i] = o
  BY AllCollected
<1> DEFINE queue == ToDispose(r, Binds[at])
<1>4. queue \in Seq(Nat) /\ DistinctItems(queue) /\ Disposes(r, at - 1, queue)
  BY <1>2, <1>3
<1>5. \A i \in 1 .. Len(queue) : HasKey(r, queue[i], Binds[at].anestor)
  BY <1>2
<1>6. \A o : HasKey(r, o, Binds[at].anestor) => \E i \in 1 .. Len(queue) : queue[i] = o
  BY <1>3
<1> HIDE DEF queue
<1>7. at \in Nat /\ at - 1 + 1 = at /\ (\A b \in 1 .. Len(Binds) : b > at - 1 <=> b > at \/ b = at)
  <2>1. Len(Binds) \in Nat
    BY DEF InjectAssumption
  <2> QED
    BY <2>1
<1>8. disposal'[r].at = at - 1 /\ disposal'[r].queue = queue /\ UNCHANGED <<scoped, transients, phase, thrown>>
  BY <1>4 DEF Disposes
<1>9. phase[r] = "disposing"
  BY DEF Unwind
<1> SUFFICES ASSUME thrown[r] = 0 PROVE Due(r, disposal[r].at, disposal[r].queue)'
  BY <1>8, <1>9 DEF Unwound
<1>10. Due(r, at, <<>>)
  BY <1>2, <1>9 DEF Unwound, Left
<1>11. ASSUME NEW b \in 1 .. Len(Binds), NEW o \in 1 .. Len(objs), HasKey(r, o, Binds[b].anestor)
       PROVE  objs'[o].disposals = IF b > at - 1 /\ ~Waits(queue, o) THEN 1 ELSE 0
  <2>1. objs[o].disposals = IF b > at THEN 1 ELSE 0
    BY <1>10, <1>11 DEF Due, Waits
  <2>2. objs'[o].disposals = IF queue # <<>> /\ o = queue[1] THEN objs[o].disposals + 1 ELSE objs[o].disposals
    BY <1>4 DEF Disposes
  <2>3. CASE b = at
    <3>1. PICK i \in 1 .. Len(queue) : queue[i] = o
      BY <1>6, <1>11, <2>3
    <3>2. Len(queue) \in Nat /\ 1 \in 1 .. Len(queue) /\ queue # <<>>
      BY <1>4, <3>1
    <3>3. o = queue[1] <=> i = 1
      BY <1>4, <3>1, <3>2 DEF DistinctItems
    <3>4. Waits(queue, o) <=> i # 1
      <4>1. \A j \in 2 .. Len(queue) : j \in 1 .. Len(queue) /\ j # 1
        BY <3>2
      <4>2. i # 1 => i \in 2 .. Len(queue)
        BY <3>1, <3>2
      <4> QED
        BY <1>4, <3>1, <4>1, <4>2 DEF Waits, DistinctItems
    <3>5. objs[o].disposals = 0
      BY <1>7, <2>1, <2>3
    <3> QED
      BY <1>7, <2>2, <2>3, <3>2, <3>3, <3>4, <3>5
  <2>4. CASE b # at
    <3>1. ASSUME NEW i \in 1 .. Len(queue), queue[i] = o PROVE FALSE
      <4>1. HasKey(r, o, Binds[at].anestor)
        BY <1>5, <3>1
      <4> QED
        BY <1>11, <2>4, <4>1, BoundKeysDiffer
    <3>2. queue # <<>> => 1 \in 1 .. Len(queue)
      BY <1>4
    <3>3. ~Waits(queue, o)
      <4>1. \A j \in 2 .. Len(queue) : j \in 1 .. Len(queue)
        BY <1>4
      <4> QED
        BY <3>1, <4>1 DEF Waits
    <3> QED
      BY <1>7, <2>1, <2>2, <2>4, <3>1, <3>2, <3>3
  <2> QED
    BY <2>3, <2>4
<1>12. Len(objs') = Len(objs)
  BY <1>4 DEF Disposes
<1> QED
  BY <1>4, <1>5, <1>7, <1>8, <1>11, <1>12 DEF Due, HasKey

LEMMA DisposeNextUnwound ==
  ASSUME DistinctBinds, IInv, LifeInv, NEW r \in Reqs, Unwound(r), DisposeNext(r)
  PROVE  Unwound(r)'
<1> DEFINE queue == disposal[r].queue
           rest == Tail(queue)
           at == disposal[r].at
<1>1. /\ queue \in Seq(Nat) /\ queue # <<>> /\ rest \in Seq(Nat) /\ Len(rest) = Len(queue) - 1
      /\ \A i \in 1 .. Len(queue) - 1 : rest[i] = queue[i + 1]
      /\ Disposes(r, at, rest)
  BY DisposeNextCase
<1>2. phase[r] = "disposing"
  BY <1>1 DEF LifeInv, QueueOwn
<1>3. disposal'[r].at = at /\ disposal'[r].queue = rest /\ UNCHANGED <<scoped, transients, phase, thrown>>
  BY <1>1 DEF Disposes
<1> HIDE DEF rest
<1> SUFFICES ASSUME thrown[r] = 0 PROVE Due(r, disposal[r].at, disposal[r].queue)'
  BY <1>2, <1>3 DEF Unwound
<1>4. Due(r, at, queue)
  BY <1>2 DEF Unwound, Left
<1>12. at \in Nat
  BY DEF IInv, Shape
<1> HIDE DEF queue, at
<1>5. Len(queue) \in Nat /\ Len(queue) > 0 /\ \A i \in 1 .. Len(rest) : i + 1 \in 2 .. Len(queue) /\ i + 1 \in 1 .. Len(queue)
  BY <1>1
<1>6. \A i \in 1 .. Len(rest) : rest[i] = queue[i + 1]
  BY <1>1
<1>7. DistinctItems(rest)
  BY <1>4, <1>5, <1>6 DEF Due, DistinctItems
<1>8. at + 1 \in 1 .. Len(Binds) /\ \A i \in 1 .. Len(queue) : HasKey(r, queue[i], Binds[at + 1].anestor)
  BY <1>1, <1>4 DEF Due
<1>9. \A i \in 1 .. Len(rest) : HasKey(r, rest[i], Binds[at + 1].anestor)
  BY <1>5, <1>6, <1>8
<1>10. ASSUME NEW b \in 1 .. Len(Binds), NEW o \in 1 .. Len(objs), HasKey(r, o, Binds[b].anestor)
       PROVE  objs'[o].disposals = IF b > at /\ ~Waits(rest, o) THEN 1 ELSE 0
  <2>1. objs[o].disposals = IF b > at /\ ~Waits(queue, o) THEN 1 ELSE 0
    BY <1>4, <1>10 DEF Due
  <2>2. objs'[o].disposals = IF rest # <<>> /\ o = rest[1] THEN objs[o].disposals + 1 ELSE objs[o].disposals
    BY <1>1 DEF Disposes
  <2>3. CASE rest # <<>> /\ o = rest[1]
    <3>1. 1 \in 1 .. Len(rest) /\ rest[1] = queue[2] /\ 2 \in 2 .. Len(queue) /\ 2 \in 1 .. Len(queue)
      BY <1>1, <1>5, <2>3
    <3>2. Waits(queue, o)
      BY <2>3, <3>1 DEF Waits
    <3>3. ~Waits(rest, o)
      <4>1. \A j \in 2 .. Len(rest) : j \in 1 .. Len(rest) /\ j # 1
        BY <1>1
      <4> QED
        BY <1>7, <2>3, <3>1, <4>1 DEF Waits, DistinctItems
    <3>4. b = at + 1
      BY <1>8, <1>10, <2>3, <3>1, BoundKeysDiffer
    <3>5. b > at
      BY <1>12, <3>4
    <3> QED
      BY <2>1, <2>2, <2>3, <3>2, <3>3, <3>5
  <2>4. CASE ~(rest # <<>> /\ o = rest[1])
    <3>1. Waits(rest, o) => Waits(queue, o)
      <4>1. \A j \in 2 .. Len(rest) : j + 1 \in 2 .. Len(queue) /\ rest[j] = queue[j + 1]
        BY <1>1, <1>5
      <4> QED
        BY <4>1 DEF Waits
    <3>2. Waits(queue, o) => Waits(rest, o)
      <4>1. \A j \in 2 .. Len(queue) : j - 1 \in 1 .. Len(rest) /\ rest[j - 1] = queue[j] /\ rest # <<>>
                                       /\ (j - 1 = 1 \/ j - 1 \in 2 .. Len(rest))
        <5>1. rest # <<>> => Len(rest) \in Nat
          BY <1>1
        <5>2. ASSUME NEW j \in 2 .. Len(queue) PROVE j - 1 \in 1 .. Len(rest) /\ j - 1 + 1 = j
          BY <1>1, <1>5
        <5>3. \A j \in 2 .. Len(queue) : rest # <<>>
          BY <1>1, <5>2
        <5>4. \A j \in 2 .. Len(queue) : rest[j - 1] = queue[j]
          BY <1>6, <5>2
        <5> QED
          BY <5>1, <5>2, <5>3, <5>4
      <4> QED
        BY <2>4, <4>1 DEF Waits
    <3> QED
      BY <2>1, <2>2, <2>4, <3>1, <3>2
  <2> QED
    BY <2>3, <2>4
<1>11. Len(objs') = Len(objs)
  BY <1>1 DEF Disposes
<1> QED
  BY <1>3, <1>7, <1>8, <1>9, <1>10, <1>11 DEF Due, HasKey

LEMMA UnwoundHere ==
  ASSUME InjectAssumption, DistinctBinds, NEW rank, Once(rank), IInv, Apart, LifeInv, NEW r \in Reqs, Unwound(r),
         \/ WorkStep(r) \/ Begin(r) \/ Leave(r) \/ Unwind(r) \/ DisposeNext(r) \/ DisposeFails(r) \/ Finish(r)
  PROVE  Unwound(r)'
<1>1. Shape
  BY DEF IInv
<1>2. CASE WorkStep(r)
  BY <1>2 DEF WorkStep, Unwound, Left
<1>3. CASE Begin(r)
  <2>1. phase'[r] = "using"
    BY <1>1, <1>3 DEF Begin, Shape
  <2> QED
    BY <2>1 DEF Unwound, Left
<1>4. CASE DisposeFails(r)
  <2>1. thrown[r] \in Nat /\ thrown' = [thrown EXCEPT ![r] = @ + 1] /\ thrown \in [Reqs -> Nat]
    BY <1>1, <1>4 DEF DisposeFails, Shape
  <2>2. thrown'[r] # 0
    BY <2>1
  <2> QED
    BY <2>2 DEF Unwound
<1>5. CASE Finish(r)
  <2>1. /\ UNCHANGED <<objs, scoped, transients, disposal, thrown>> /\ phase[r] = "disposing"
        /\ disposal[r] = [at |-> 0, queue |-> <<>>]
    BY <1>5 DEF Finish
  <2>2. thrown[r] = 0 => Due(r, disposal[r].at, disposal[r].queue)
    BY <2>1 DEF Unwound, Left
  <2> QED
    BY <2>1, <2>2 DEF Unwound, Due, HasKey
<1> QED
  BY <1>2, <1>3, <1>4, <1>5, LeaveUnwound, UnwindUnwound, DisposeNextUnwound

\* Every scoped and transient object that an inject() call names is disposed
\* by the end of its request, and once; a singleton never is.
THEOREM DisposedOnce == GivenAreSingletons /\ NoArgumentCycle /\ DistinctBinds => (Spec => []DisposedAtTheEnd)
<1> SUFFICES ASSUME GivenAreSingletons, NoArgumentCycle, DistinctBinds PROVE Spec => []DisposedAtTheEnd
  OBVIOUS
<1>1. PICK rank \in [Keys -> Nat] : Layered(rank)
  BY DEF NoArgumentCycle
<1>2. InjectAssumption /\ SingletonsStay
  BY InjectAssumption, DistinctStay
<1>3. Init => Once(rank) /\ LifeInv /\ UnwoundInv
  <2>1. Init => UnwoundInv
    BY DEF Init, UnwoundInv, Unwound, Left
  <2> QED
    BY <1>2, <2>1, InitOnce, InitLife
<1>4. IInv /\ Apart /\ Once(rank) /\ LifeInv /\ UnwoundInv /\ [Next]_vars => Once(rank)' /\ LifeInv' /\ UnwoundInv'
  <2> SUFFICES ASSUME IInv, Apart, Once(rank), LifeInv, UnwoundInv, [Next]_vars PROVE UnwoundInv'
    BY <1>1, <1>2, StepOnce, StepLife
  <2>1. CASE Next
    <3>1. PICK r \in Reqs :
            /\ StepOK(r) /\ FlagStep(r) /\ (WorkStep(r) \/ RestStep(r))
            /\ \/ WorkStep(r) \/ Begin(r) \/ Leave(r) \/ Unwind(r)
               \/ DisposeNext(r) \/ DisposeFails(r) \/ Finish(r)
      BY <1>2, <2>1, AnyLife
    <3>2. Unwound(r)'
      BY <1>2, <3>1, UnwoundHere DEF UnwoundInv
    <3>3. \A a \in Reqs : a # r => Unwound(a)'
      BY <3>1, UnwoundElsewhere DEF UnwoundInv
    <3> QED
      BY <3>2, <3>3 DEF UnwoundInv
  <2>2. CASE UNCHANGED vars
    BY <2>2 DEF vars, UnwoundInv, Unwound, Left, Due, HasKey
  <2> QED
    BY <2>1, <2>2
<1>5. IInv /\ Apart /\ LifeInv /\ UnwoundInv => DisposedAtTheEnd
  <2> SUFFICES ASSUME IInv, Apart, LifeInv, UnwoundInv PROVE DisposedAtTheEnd
    OBVIOUS
  <2> DEFINE Bound == {Binds[i].anestor : i \in DOMAIN Binds}
  <2>1. DOMAIN Binds = 1 .. Len(Binds)
    BY <1>2 DEF InjectAssumption
  <2>2. ASSUME NEW r \in Reqs, phase[r] = "done", thrown[r] = 0, NEW o, NEW key \in Bound, HasKey(r, o, key)
        PROVE  objs[o].disposals = 1
    <3>1. PICK b \in 1 .. Len(Binds) : key = Binds[b].anestor
      BY <2>1
    <3>2. o \in Nat
      <4>1. \A x \in Record : x.value \in Nat
        BY DEF Record
      <4>2. scoped[r] \in Seq(Record) /\ transients[r] \in Seq(Record)
        BY DEF IInv, Shape
      <4>3. /\ \A i \in 1 .. Len(scoped[r]) : scoped[r][i] \in Record
            /\ \A i \in 1 .. Len(transients[r]) : transients[r][i] \in Record
        BY <4>2
      <4> QED
        BY <2>2, <4>1, <4>3 DEF HasKey
    <3>3. o \in 1 .. Len(objs)
      BY <2>2, <3>2, KeyIsRecorded DEF IInv, Bounded, Mine
    <3>4. Due(r, 0, <<>>)
      BY <2>2 DEF UnwoundInv, Unwound, Left
    <3>5. b > 0
      BY <1>2 DEF InjectAssumption
    <3> HIDE DEF Bound
    <3> QED
      BY <2>2, <3>1, <3>3, <3>4, <3>5 DEF Due, Waits
  <2>3. ASSUME NEW i \in 1 .. Len(singletons) PROVE objs[singletons[i].value].disposals = 0
    <3> DEFINE o == singletons[i].value
    <3>1. o \in Nat /\ Shared(o)
      <4>1. \A x \in Record : x.value \in Nat
        BY DEF Record
      <4>2. singletons[i] \in Record
        BY DEF IInv, Shape
      <4> QED
        BY <4>1, <4>2 DEF Shared
    <3>2. o \in 1 .. Len(objs)
      BY <3>1 DEF IInv, Bounded
    <3>3. \A q \in Reqs : ~Recorded(q, o)
      BY <3>1 DEF Apart, Mine
    <3> QED
      BY <3>2, <3>3 DEF LifeInv, DisposedOwn
  <2>4. DOMAIN singletons = 1 .. Len(singletons)
        /\ \A r \in Reqs : DOMAIN scoped[r] = 1 .. Len(scoped[r]) /\ DOMAIN transients[r] = 1 .. Len(transients[r])
    BY DEF IInv, Shape
  <2>5. ASSUME NEW r \in Reqs, phase[r] = "done", thrown[r] = 0
        PROVE  /\ \A i \in DOMAIN scoped[r] : scoped[r][i].key \in Bound => objs[scoped[r][i].value].disposals = 1
               /\ \A i \in DOMAIN transients[r] : transients[r][i].key \in Bound => objs[transients[r][i].value].disposals = 1
    <3> HIDE DEF Bound
    <3>1. /\ \A i \in 1 .. Len(scoped[r]) : HasKey(r, scoped[r][i].value, scoped[r][i].key)
          /\ \A i \in 1 .. Len(transients[r]) : HasKey(r, transients[r][i].value, transients[r][i].key)
      BY DEF HasKey
    <3> QED
      BY <2>2, <2>4, <2>5, <3>1
  <2> QED
    BY <2>3, <2>4, <2>5 DEF DisposedAtTheEnd
<1>6. Spec => [](IInv /\ Apart)
  BY <1>2, ScopesInvariant
<1> QED
  BY <1>3, <1>4, <1>5, <1>6, PTL DEF Spec

-----------------------------------------------------------------------------
(* Nothing in use is disposed, when singletons use singletons: what a      *)
(* request holds and reaches is its own or is kept by the startup.         *)

PropsKept(key) == \A i \in 1 .. Len(PropKeys(key)) : IsSingleton(PropKeys(key)[i])
SingletonsUseSingletons ==
  /\ \A key \in Keys : IsSingleton(key) =>
       /\ LET t == BindingOf(key).target
          IN t.kind = "class" => \A i \in 1 .. Len(Args[t.of]) : IsSingleton(Args[t.of][i])
       /\ PropsKept(key)
  /\ \A o \in Instances : PropsKept(Given[o])

Kept(o) == Shared(o) \/ IsGiven(o)
Owns(r) == {o \in Nat : Recorded(r, o)}
Keeps == {o \in Nat : Kept(o)}

KeptUses ==
  \A o \in 1 .. Len(objs) : Kept(o) \/ (\E q \in Reqs : Sharing(q, o)) => \A u \in objs[o].uses : Kept(u)

\* The object of a parser is its request's or kept; that of a singleton is kept.
Lasting(own, kept, p) ==
  /\ IsSingleton(p.key) => p.args \subseteq kept /\ (p.pc \notin {"creating", "created"} => p.obj \in kept)
  /\ p.pc \notin {"creating", "created"} => p.obj \in own \/ (p.obj \in kept /\ PropsKept(p.key))
\* A parser whose object is kept asks for singletons only.
Asks(a, p) ==
  /\ a.pc = "props" /\ PropsKept(a.key) => IsSingleton(p.key)
  /\ a.pc = "creating" /\ IsSingleton(a.key) => IsSingleton(p.key)
Owned(r) ==
  /\ held[r] \subseteq Owns(r) \cup Keeps
  /\ \A k \in 1 .. Len(parsers[r]) : Lasting(Owns(r), Keeps, parsers[r][k])
  /\ \A k \in 1 .. Len(parsers[r]) - 1 : Asks(parsers[r][k], parsers[r][k + 1])
KeptInv == KeptUses /\ \A r \in Reqs : Owned(r)

Grown(r) ==
  /\ \A q \in Reqs : Owns(q) \subseteq Owns(q)'
  /\ Keeps \subseteq Keeps'

LEMMA LastingKept ==
  ASSUME NEW own, NEW kept, NEW more, NEW most, own \subseteq more, kept \subseteq most, NEW p, Lasting(own, kept, p)
  PROVE  Lasting(more, most, p)
BY DEF Lasting

\* What a step adds to the heap is used by the request's own or is kept.
UsesStep(r) ==
  /\ \A o \in 1 .. Len(objs) : \A u \in objs'[o].uses : u \in objs[o].uses \/ Mine(r, o) \/ Kept(u)
  /\ \A o : Fresh(o) /\ Sharing(r, o)' => \A u \in objs'[o].uses : Kept(u)

LEMMA KeptUsesKept ==
  ASSUME GivenAreSingletons, IInv, Apart, KeptUses, NEW r \in Reqs, StepOK(r), Grown(r), UsesStep(r)
  PROVE  KeptUses'
<1> SUFFICES ASSUME NEW o \in 1 .. Len(objs'), Kept(o)' \/ (\E q \in Reqs : Sharing(q, o)'), NEW u \in objs'[o].uses
             PROVE  Kept(u)'
  BY DEF KeptUses
<1>1. Len(objs) \in Nat /\ Len(objs') \in Nat /\ o \in Nat /\ u \in Nat
  <2>1. objs \in Seq(Obj) /\ objs' \in Seq(Obj)
    BY DEF IInv, Shape, StepOK
  <2>2. objs'[o] \in Obj
    BY <2>1
  <2> QED
    BY <2>1, <2>2 DEF Obj
<1>2. Kept(u) => Kept(u)'
  BY <1>1 DEF Grown, Keeps
<1>3. CASE Fresh(o)
  <2>1. ~IsGiven(o) /\ ~Shared(o) /\ \A q \in Reqs : ~Sharing(q, o)
    <3>1. o \notin 1 .. Len(objs)
      BY <1>3 DEF Fresh
    <3>2. \A q \in Reqs : Sharing(q, o) => Reaches(q, o)
      BY DEF Sharing, MakesShared, Reaches, Names
    <3>3. IsGiven(o) => o \in 1 .. Len(objs)
      BY <1>1 DEF IsGiven, IInv, Bounded, InjectAssumption
    <3> QED
      BY <1>1, <3>1, <3>2, <3>3 DEF IInv, Bounded
  <2>2. Sharing(r, o)'
    BY <1>1, <2>1, MineStep DEF Kept
  <2> QED
    BY <1>2, <1>3, <2>2 DEF UsesStep
<1>4. CASE ~Fresh(o)
  <2>1. o \in 1 .. Len(objs)
    BY <1>4 DEF Fresh
  <2>2. Kept(o) \/ \E q \in Reqs : Sharing(q, o)
    <3>1. Shared(o)' => Shared(o) \/ Sharing(r, o)
      BY <1>1, MineStep
    <3>2. \A q \in Reqs : Sharing(q, o)' => Sharing(q, o) \/ IsGiven(o)
      BY <1>1, <1>4, MineStep
    <3> QED
      BY <3>1, <3>2 DEF Kept
  <2>3. ~Mine(r, o)
    <3>1. \A q \in Reqs : Sharing(q, o) => Reaches(q, o)
      BY DEF Sharing, MakesShared, Reaches, Names
    <3> QED
      BY <1>1, <2>2, <3>1 DEF Apart, Kept
  <2> QED
    BY <1>2, <2>1, <2>2, <2>3 DEF UsesStep, KeptUses
<1> QED
  BY <1>3, <1>4

\* What a step of r does to its stack.
TopLasts(r) ==
  LET m == Len(parsers'[r])
  IN /\ \A k \in 1 .. m - 1 : k \in 1 .. Len(parsers[r]) /\ parsers'[r][k] = parsers[r][k]
     /\ m > 0 => Lasting(Owns(r)', Keeps', parsers'[r][m])
     /\ m > 1 => Asks(parsers'[r][m - 1], parsers'[r][m])
UseStep(r) == Grown(r) /\ UsesStep(r) /\ TopLasts(r) /\ held'[r] \subseteq Owns(r) \cup Keeps \cup held[r]

LEMMA OwnedKept ==
  ASSUME IInv, KeptInv, NEW r \in Reqs, StepOK(r), UseStep(r)
  PROVE  \A q \in Reqs : Owned(q)'
<1>1. \A q \in Reqs : Owns(q) \subseteq Owns(q)' /\ Keeps \subseteq Keeps'
  BY DEF UseStep, Grown
<1>2. ASSUME NEW q \in Reqs, q # r PROVE Owned(q)'
  <2>1. parsers'[q] = parsers[q] /\ held'[q] = held[q]
    BY <1>2 DEF StepOK, OtherStep
  <2>2. Owned(q)
    BY DEF KeptInv
  <2>3. \A k \in 1 .. Len(parsers[q]) : Lasting(Owns(q)', Keeps', parsers[q][k])
    BY <1>1, <2>2, LastingKept DEF Owned
  <2>4. held[q] \subseteq Owns(q)' \cup Keeps'
    BY <1>1, <2>2 DEF Owned
  <2>5. \A k \in 1 .. Len(parsers[q]) - 1 : Asks(parsers[q][k], parsers[q][k + 1])
    BY <2>2 DEF Owned
  <2> QED
    BY <2>1, <2>3, <2>4, <2>5 DEF Owned
<1>3. Owned(r)'
  <2> DEFINE m == Len(parsers'[r])
  <2>1. m \in Nat
    BY DEF StepOK, Shape
  <2>2. Owned(r)
    BY DEF KeptInv
  <2>3. /\ \A k \in 1 .. m - 1 : k \in 1 .. Len(parsers[r]) /\ parsers'[r][k] = parsers[r][k]
        /\ m > 0 => Lasting(Owns(r)', Keeps', parsers'[r][m])
        /\ m > 1 => Asks(parsers'[r][m - 1], parsers'[r][m])
    BY DEF UseStep, TopLasts
  <2>4. \A k \in 1 .. Len(parsers[r]) : Lasting(Owns(r)', Keeps', parsers[r][k])
    BY <1>1, <2>2, LastingKept DEF Owned
  <2>5. \A k \in 1 .. Len(parsers[r]) - 1 : Asks(parsers[r][k], parsers[r][k + 1])
    BY <2>2 DEF Owned
  <2>6. held'[r] \subseteq Owns(r)' \cup Keeps'
    BY <1>1, <2>2 DEF Owned, UseStep
  <2>7. Len(parsers[r]) \in Nat
    BY DEF IInv, Shape
  <2> HIDE DEF m
  <2>8. ASSUME NEW k \in 1 .. m PROVE Lasting(Owns(r)', Keeps', parsers'[r][k])
    <3>1. k = m \/ k \in 1 .. m - 1
      BY <2>1
    <3>2. m > 0
      BY <2>1
    <3> QED
      BY <2>3, <2>4, <3>1, <3>2
  <2>9. ASSUME NEW k \in 1 .. m - 1 PROVE Asks(parsers'[r][k], parsers'[r][k + 1])
    <3>1. CASE k = m - 1
      <4>1. m > 1 /\ k + 1 = m
        BY <2>1, <3>1
      <4> QED
        BY <2>3, <3>1, <4>1
    <3>2. CASE k # m - 1
      <4>1. k + 1 \in 1 .. m - 1
        BY <2>1, <3>2
      <4>2. /\ parsers'[r][k] = parsers[r][k] /\ parsers'[r][k + 1] = parsers[r][k + 1]
            /\ k + 1 \in 1 .. Len(parsers[r])
        BY <2>3, <4>1
      <4>3. k \in 1 .. Len(parsers[r]) - 1
        BY <2>1, <2>7, <4>2
      <4> QED
        BY <2>5, <4>2, <4>3
    <3> QED
      BY <3>1, <3>2
  <2> QED
    BY <2>6, <2>8, <2>9 DEF Owned, m
<1> QED
  BY <1>2, <1>3

\* The step does not touch the records.
LEMMA SameGrown ==
  ASSUME UNCHANGED <<singletons, scoped, transients>>, NEW r \in Reqs
  PROVE  Grown(r) /\ Keeps' = Keeps /\ \A q \in Reqs : Owns(q)' = Owns(q)
BY DEF Grown, Owns, Keeps, Kept, Shared, Recorded

\* A parser that begins with a record has an object that lasts.
LEMMA ParsedLasts ==
  ASSUME InjectAssumption, SingletonsUseSingletons, IInv, LifeInv, NEW r \in Reqs, NEW key \in Keys
  PROVE  Lasting(Owns(r), Keeps, Parse(r, key)) /\ Parse(r, key).key = key /\ Parse(r, key) \in Parser
<1> DEFINE p == Parse(r, key)
           records == Records(r, BindingOf(key).type)
<1>1. Shape
  BY DEF IInv
<1>2. /\ p \in Parser /\ p.key = key /\ p.args = {}
      /\ \/ p.pc = "creating"
         \/ p.pc = "found" /\ \E i \in DOMAIN records : records[i].key = key /\ records[i].value = p.obj
  BY <1>1, ParseFacts
<1> HIDE DEF p
<1>3. CASE p.pc = "creating"
  BY <1>2, <1>3 DEF Lasting, p
<1>4. CASE p.pc = "found" /\ \E i \in DOMAIN records : records[i].key = key /\ records[i].value = p.obj
  <2>1. PICK i \in DOMAIN records : records[i].value = p.obj
    BY <1>4
  <2>2. p.obj \in Nat
    BY <1>2 DEF Parser
  <2>3. scoped[r] \in Seq(Record) /\ singletons \in Seq(Record)
    BY <1>1 DEF Shape
  <2>4. DOMAIN scoped[r] = 1 .. Len(scoped[r]) /\ DOMAIN singletons = 1 .. Len(singletons)
    BY <2>3
  <2>5. CASE IsSingleton(key)
    <3>1. records = singletons
      BY <2>5 DEF Records, IsSingleton
    <3>2. Shared(p.obj)
      <4> HIDE DEF records
      <4> QED
        BY <2>1, <2>4, <3>1 DEF Shared
    <3>3. p.obj \in Keeps /\ PropsKept(key)
      BY <2>2, <2>5, <3>2 DEF Keeps, Kept, SingletonsUseSingletons
    <3> QED
      BY <1>2, <3>3 DEF Lasting, p
  <2>6. CASE ~IsSingleton(key)
    <3>1. records = scoped[r] \/ records = <<>>
      BY <2>6 DEF Records, IsSingleton
    <3>2. records = scoped[r]
      <4> HIDE DEF records
      <4> QED
        BY <2>1, <3>1
    <3>3. Recorded(r, p.obj)
      <4> HIDE DEF records
      <4> QED
        BY <2>1, <2>4, <3>2 DEF Recorded
    <3> QED
      BY <1>2, <2>2, <2>6, <3>3 DEF Lasting, Owns, p
  <2> QED
    BY <2>5, <2>6
<1> QED
  BY <1>2, <1>3, <1>4 DEF p

\* The heap is as it was, but for flags and disposals.
LEMMA SameUsesStep ==
  ASSUME IInv, NEW r \in Reqs, Len(objs') = Len(objs), \A o \in 1 .. Len(objs) : objs'[o].uses = objs[o].uses
  PROVE  UsesStep(r)
BY DEF UsesStep, Fresh

LEMMA ParseUse ==
  ASSUME InjectAssumption, SingletonsUseSingletons, NEW rank, Once(rank), IInv, LifeInv, KeptInv, NEW r \in Reqs,
         ParseKey(r) \/ ParseInstance(r) \/ ParseArg(r) \/ ParseProp(r)
  PROVE  UseStep(r)
<1>1. UNCHANGED <<objs, singletons, scoped, transients, held>>
  BY DEF ParseKey, ParseInstance, ParseArg, ParseProp
<1>2. Shape /\ Bounded
  BY DEF IInv
<1>3. Grown(r) /\ Keeps' = Keeps /\ Owns(r)' = Owns(r) /\ UsesStep(r) /\ held'[r] \subseteq held[r]
  BY <1>1, SameGrown, SameUsesStep
<1>4. TopLasts(r)
  <2>1. CASE ParseKey(r)
    <3>1. PICK key \in Wanted : parsers' = [parsers EXCEPT ![r] = <<Parse(r, key)>>]
      BY <2>1 DEF ParseKey
    <3>2. key \in Keys
      BY DEF InjectAssumption
    <3>3. Lasting(Owns(r), Keeps, Parse(r, key)) /\ Parse(r, key) \in Parser
      BY <3>2, ParsedLasts
    <3>4. Len(parsers'[r]) = 1 /\ parsers'[r][1] = Parse(r, key)
      BY <1>2, <3>1, <3>3, BeginFacts
    <3> QED
      BY <1>3, <3>3, <3>4 DEF TopLasts
  <2>2. CASE ParseInstance(r)
    <3>1. PICK o \in Instances : parsers' = [parsers EXCEPT ![r] =
            <<[key |-> objs[o].class, class |-> objs[o].class, obj |-> o, pc |-> "found", i |-> 1, args |-> {}]>>]
      BY <2>2 DEF ParseInstance
    <3> DEFINE q == [key |-> objs[o].class, class |-> objs[o].class, obj |-> o, pc |-> "found", i |-> 1, args |-> {}]
    <3>2. Len(parsers'[r]) = 1 /\ parsers'[r][1] = q
      BY <1>2, <3>1 DEF Shape
    <3>3. o \in 1 .. Len(Given) /\ o \in Nat /\ objs[o].class = Given[o] /\ PropsKept(Given[o])
      <4>1. o \in 1 .. Len(Given) /\ Len(Given) \in Nat
        BY DEF InjectAssumption
      <4> QED
        BY <4>1 DEF Once, ClassesKnown, SingletonsUseSingletons
    <3>4. o \in Keeps
      BY <3>3 DEF Keeps, Kept, IsGiven
    <3>5. Lasting(Owns(r), Keeps, q)
      BY <3>3, <3>4 DEF Lasting
    <3> HIDE DEF q
    <3> QED
      BY <1>3, <3>2, <3>5 DEF TopLasts
  <2>3. CASE ParseArg(r) \/ ParseProp(r)
    <3> DEFINE p == Top(parsers[r])
               n == Len(parsers[r])
    <3>1. PICK key \in Keys : /\ parsers' = [parsers EXCEPT ![r] = Append(@, Parse(r, key))]
                              /\ p.pc = "props" /\ PropsKept(p.key) => IsSingleton(key)
                              /\ p.pc = "creating" /\ IsSingleton(p.key) => IsSingleton(key)
      <4>1. CASE ParseArg(r)
        <5> DEFINE t == BindingOf(p.key).target
                   key == Args[t.of][p.i]
        <5>1. /\ t.kind = "class" /\ p.i \in 1 .. Len(Args[t.of]) /\ key \in Keys
              /\ parsers' = [parsers EXCEPT ![r] = Append(@, Parse(r, key))]
          BY <4>1, ParseArgFacts
        <5>2. At(r, "creating")
          BY <4>1 DEF ParseArg
        <5>3. p.pc = "creating" /\ p.key \in Keys
          BY <1>2, <5>2, TopFacts
        <5>4. IsSingleton(p.key) => IsSingleton(key)
          <6> HIDE DEF p
          <6> QED
            BY <5>1, <5>3 DEF SingletonsUseSingletons
        <5> HIDE DEF key, p
        <5> QED
          BY <5>1, <5>3, <5>4
      <4>2. CASE ParseProp(r)
        <5> DEFINE key == PropsOf(p)[p.i]
        <5>1. /\ p.i \in 1 .. Len(PropsOf(p)) /\ key \in Keys
              /\ parsers' = [parsers EXCEPT ![r] = Append(@, Parse(r, key))]
          BY <4>2, ParsePropFacts
        <5>2. At(r, "props")
          BY <4>2 DEF ParseProp
        <5>3. p.pc = "props" /\ p.key \in Keys /\ n \in 1 .. n /\ p = parsers[r][n]
          BY <1>2, <5>2, TopFacts
        <5>4. PropsOf(p) = PropKeys(p.key)
          <6>1. FrameKnown(objs, p)
            <7>1. \A k \in 1 .. Len(parsers[r]) : FrameKnown(objs, parsers[r][k])
              BY DEF Once, ClassesKnown
            <7> QED
              BY <5>3, <7>1, Zenon
          <6> HIDE DEF p
          <6>2. CASE p.key \in Classes
            BY <6>1, <6>2 DEF FrameKnown, PropsOf, PropKeys, InjectAssumption
          <6>3. CASE p.key \notin Classes
            BY <5>3, <6>1, <6>3 DEF FrameKnown, Known, PropsOf, PropKeys, InjectAssumption
          <6> QED
            BY <6>2, <6>3
        <5>5. PropsKept(p.key) => IsSingleton(key)
          <6> HIDE DEF p
          <6> QED
            BY <5>1, <5>4 DEF PropsKept
        <5> HIDE DEF key, p
        <5> QED
          BY <5>1, <5>3, <5>5
      <4> QED
        BY <2>3, <4>1, <4>2
    <3>2. Lasting(Owns(r), Keeps, Parse(r, key)) /\ Parse(r, key).key = key /\ Parse(r, key) \in Parser
      BY ParsedLasts
    <3>3. /\ n \in Nat /\ Len(parsers'[r]) = n + 1 /\ parsers'[r][n + 1] = Parse(r, key)
          /\ \A k \in 1 .. n : parsers'[r][k] = parsers[r][k]
      BY <1>2, <3>1, <3>2, CallFacts
    <3>4. p = parsers[r][n]
      BY DEF Top
    <3> HIDE DEF n, p
    <3>5. n > 0 => Asks(parsers'[r][n], Parse(r, key))
      <4>1. n > 0 => parsers'[r][n] = p
        <5>1. n \in Nat /\ \A k \in 1 .. n : parsers'[r][k] = parsers[r][k]
          BY <3>3
        <5>2. n > 0 => n \in 1 .. n
          BY <5>1
        <5> QED
          BY <3>4, <5>1, <5>2, Zenon
      <4> QED
        BY <3>1, <3>2, <4>1 DEF Asks
    <3>6. n + 1 - 1 = n /\ (n + 1 > 1 => n > 0)
      BY <3>3
    <3> QED
      BY <1>3, <3>2, <3>3, <3>5, <3>6 DEF TopLasts, n
  <2> QED
    BY <2>1, <2>2, <2>3
<1> QED
  BY <1>3, <1>4 DEF UseStep

\* The parser on top goes on.
LEMMA GoLasts ==
  ASSUME IInv, KeptInv, NEW r \in Reqs, NEW p \in Parser, parsers[r] # <<>>, Go(r, p),
         p.key = Top(parsers[r]).key, Lasting(Owns(r)', Keeps', p)
  PROVE  TopLasts(r)
<1> DEFINE n == Len(parsers[r])
<1>1. /\ n \in Nat /\ n > 0 /\ Len(parsers'[r]) = n /\ parsers'[r][n] = p
      /\ \A k \in 1 .. n - 1 : parsers'[r][k] = parsers[r][k]
  BY GoFacts DEF IInv
<1>2. Top(parsers[r]) = parsers[r][n]
  BY DEF Top
<1>3. \A k \in 1 .. n - 1 : Asks(parsers[r][k], parsers[r][k + 1])
  BY DEF KeptInv, Owned
<1> HIDE DEF n
<1>4. n > 1 => Asks(parsers[r][n - 1], parsers[r][n])
  <2>1. n > 1 => n - 1 \in 1 .. n - 1 /\ n - 1 + 1 = n
    BY <1>1
  <2> QED
    BY <1>3, <2>1
<1>5. n > 1 => parsers'[r][n - 1] = parsers[r][n - 1]
  BY <1>1
<1>6. n > 1 => Asks(parsers'[r][n - 1], p)
  BY <1>2, <1>4, <1>5 DEF Asks
<1>7. \A k \in 1 .. n - 1 : k \in 1 .. n
  BY <1>1
<1> QED
  BY <1>1, <1>6, <1>7 DEF TopLasts, n

\* What is known of the parser on top.
LEMMA TopLasting ==
  ASSUME IInv, KeptInv, NEW r \in Reqs, NEW pc, At(r, pc)
  PROVE  Lasting(Owns(r), Keeps, Top(parsers[r]))
<1>1. Len(parsers[r]) \in 1 .. Len(parsers[r]) /\ Top(parsers[r]) = parsers[r][Len(parsers[r])]
  BY TopFacts DEF IInv
<1> QED
  BY <1>1 DEF KeptInv, Owned

LEMMA GoingUse ==
  ASSUME IInv, KeptInv, NEW r \in Reqs, StartInjection(r) \/ InjectProps(r) \/ Initialize(r)
  PROVE  UseStep(r)
<1> DEFINE p == Top(parsers[r])
           o == p.obj
<1>1. UNCHANGED <<singletons, scoped, transients, held>>
  BY DEF StartInjection, InjectProps, Initialize
<1>2. PICK pc \in {"found", "initializing", "props"} : At(r, pc)
  BY DEF StartInjection, InjectProps, Initialize
<1>3. /\ p \in Parser /\ p.pc = pc /\ parsers[r] # <<>> /\ o \in 1 .. Len(objs) /\ objs[o] \in Obj /\ objs \in Seq(Obj)
      /\ Lasting(Owns(r), Keeps, p)
  BY <1>2, TopFacts, TopObject, TopLasting DEF IInv
<1>4. Grown(r) /\ Keeps' = Keeps /\ Owns(r)' = Owns(r)
  BY <1>1, SameGrown
<1>5. TopLasts(r)
  <2> HIDE DEF p
  <2>1. PICK q : Go(r, q) /\ q \in {[p EXCEPT !.pc = "initializing"], [p EXCEPT !.pc = "props", !.i = 1],
                                    [p EXCEPT !.pc = "initialized"]}
    BY DEF StartInjection, InjectProps, Initialize, p
  <2>2. /\ q \in Parser /\ q.pc \notin {"creating", "created"}
        /\ q.obj = p.obj /\ q.key = p.key /\ q.args = p.args
    BY <1>3, <2>1, NextPlace
  <2>3. Lasting(Owns(r), Keeps, q)
    BY <1>3, <2>2 DEF Lasting
  <2> QED
    BY <1>3, <1>4, <2>1, <2>2, <2>3, GoLasts DEF p
<1>6. UsesStep(r)
  <2>1. objs' = objs \/ objs' = [objs EXCEPT ![o].initializing = TRUE, ![o].starts = @ + 1]
        \/ objs' = [objs EXCEPT ![o].initialized = TRUE]
    BY DEF StartInjection, InjectProps, Initialize
  <2> DEFINE x == [objs[o] EXCEPT !.initializing = TRUE, !.starts = @ + 1]
             y == [objs[o] EXCEPT !.initialized = TRUE]
  <2> HIDE DEF o
  <2>2. x.uses = objs[o].uses /\ y.uses = objs[o].uses
    BY <1>3 DEF Obj
  <2>3. objs' = objs \/ objs' = [objs EXCEPT ![o] = x] \/ objs' = [objs EXCEPT ![o] = y]
    BY <1>3, <2>1 DEF Obj
  <2> HIDE DEF x, y
  <2>4. Len(objs') = Len(objs) /\ \A k \in 1 .. Len(objs) : objs'[k].uses = objs[k].uses
    BY <1>3, <2>2, <2>3
  <2> QED
    BY <2>4, SameUsesStep
<1> QED
  BY <1>1, <1>4, <1>5, <1>6 DEF UseStep

LEMMA ParseFailsUse ==
  ASSUME IInv, NEW r \in Reqs, ParseFails(r)
  PROVE  UseStep(r)
<1>1. UNCHANGED <<objs, singletons, scoped, transients, held>> /\ parsers' = [parsers EXCEPT ![r] = <<>>]
  BY DEF ParseFails
<1>2. Len(parsers'[r]) = 0
  BY <1>1 DEF IInv, Shape
<1>3. Grown(r) /\ UsesStep(r)
  BY <1>1, SameGrown, SameUsesStep
<1> QED
  BY <1>1, <1>2, <1>3 DEF UseStep, TopLasts

LEMMA CreateUse ==
  ASSUME InjectAssumption, IInv, KeptInv, NEW r \in Reqs, Create(r)
  PROVE  UseStep(r)
<1> DEFINE p == Top(parsers[r])
           t == TargetOf(p)
<1>1. /\ At(r, "creating") /\ UNCHANGED <<singletons, scoped, transients, held>>
      /\ \/ t.kind = "object" /\ Go(r, [p EXCEPT !.pc = "created", !.obj = t.of]) /\ UNCHANGED objs
         \/ /\ objs' = Append(objs, NewObject(t.of, p.args))
            /\ Go(r, [p EXCEPT !.pc = "created", !.obj = Len(objs) + 1])
  BY DEF Create
<1>2. Shape /\ objs \in Seq(Obj) /\ objs' \in Seq(Obj)
  BY CreateStep DEF IInv, StepOK, Shape
<1>3. parsers[r] # <<>> /\ p \in Parser /\ p.key \in Keys /\ Lasting(Owns(r), Keeps, p)
  BY <1>1, <1>2, TopFacts, TopLasting
<1>4. Grown(r) /\ Keeps' = Keeps /\ Owns(r)' = Owns(r)
  BY <1>1, SameGrown
<1> HIDE DEF p
<1>5. ASSUME NEW o \in Nat, Go(r, [p EXCEPT !.pc = "created", !.obj = o]) PROVE TopLasts(r)
  <2> DEFINE q == [p EXCEPT !.pc = "created", !.obj = o]
  <2>1. q \in Parser /\ q.pc = "created" /\ q.key = p.key /\ q.args = p.args
    <3>1. q = [p EXCEPT !.pc = "created", !.obj = o] /\ "created" \in PCs
      BY DEF PCs
    <3> HIDE DEF q, t
    <3>2. p \in Parser /\ o \in Nat
      BY <1>3
    <3> QED
      BY <3>1, <3>2 DEF Parser
  <2>2. Go(r, q)
    BY <1>5
  <2> HIDE DEF q
  <2>3. Lasting(Owns(r), Keeps, q)
    BY <1>3, <2>1 DEF Lasting
  <2> QED
    BY <1>3, <1>4, <2>1, <2>2, <2>3, GoLasts DEF p
<1>6. CASE t.kind = "object" /\ Go(r, [p EXCEPT !.pc = "created", !.obj = t.of]) /\ UNCHANGED objs
  <2>1. BindingOf(p.key) \in Binding /\ t = BindingOf(p.key).target
    BY <1>3, BindingFacts DEF TargetOf
  <2>2. t.of \in Nat
    <3>1. t \in Target
      BY <2>1 DEF Binding
    <3>2. DOMAIN Given \subseteq Nat
      BY DEF InjectAssumption
    <3> QED
      BY <1>6, <3>1, <3>2 DEF Target
  <2>3. TopLasts(r)
    BY <1>5, <1>6, <2>2
  <2> QED
    BY <1>1, <1>4, <1>6, <2>3, SameUsesStep DEF UseStep
<1>7. CASE objs' = Append(objs, NewObject(t.of, p.args)) /\ Go(r, [p EXCEPT !.pc = "created", !.obj = Len(objs) + 1])
  <2> DEFINE new == NewObject(t.of, p.args)
             n == Len(objs)
  <2>1. n + 1 \in Nat /\ n \in Nat
    BY <1>2
  <2>2. TopLasts(r)
    BY <1>5, <1>7, <2>1
  <2>3. new.uses = p.args
    BY DEF NewObject
  <2> HIDE DEF new
  <2>4. Len(objs') = n + 1 /\ objs'[n + 1] = new /\ \A o \in 1 .. n : objs'[o] = objs[o]
    BY <1>2, <1>7, <2>1 DEF new
  <2>5. ASSUME NEW o, Fresh(o) PROVE o = n + 1
    <3>1. o \in 1 .. n + 1 /\ o \notin 1 .. n
      BY <2>4, <2>5 DEF Fresh
    <3> HIDE DEF n
    <3> QED
      BY <2>1, <3>1
  <2>6. ASSUME NEW o \in Nat, o = n + 1, Sharing(r, o)' PROVE IsSingleton(p.key)
    <3> DEFINE q == [p EXCEPT !.pc = "created", !.obj = o]
               m == Len(parsers[r])
    <3>1. q \in Parser /\ q.key = p.key
      BY <1>3, CreatedParser
    <3>2. Go(r, q)
      BY <1>7, <2>6
    <3> HIDE DEF q
    <3>3. /\ m \in Nat /\ Len(parsers'[r]) = m /\ parsers'[r][m] = q
          /\ \A k \in 1 .. m - 1 : parsers'[r][k] = parsers[r][k]
      BY <1>2, <1>3, <3>1, <3>2, GoFacts
    <3>4. \A k \in 1 .. m : ~MakesShared(parsers[r][k], o)
      <4>1. ~Sharing(r, o)
        <5>1. Sharing(r, o) => Reaches(r, o)
          BY DEF Sharing, MakesShared, Reaches, Names
        <5>2. o \notin 1 .. n
          BY <2>1, <2>6
        <5> QED
          BY <5>1, <5>2 DEF IInv, Bounded
      <4> QED
        BY <4>1 DEF Sharing
    <3> HIDE DEF n
    <3>5. \A k \in 1 .. m : k = m \/ k \in 1 .. m - 1
      BY <3>3
    <3>6. MakesShared(q, o) => IsSingleton(p.key)
      BY <3>1 DEF MakesShared, TypeOf, IsSingleton
    <3>7. \A k \in 1 .. m : MakesShared(parsers'[r][k], o) => IsSingleton(p.key)
      BY <3>3, <3>4, <3>5, <3>6
    <3> QED
      BY <2>6, <3>3, <3>7 DEF Sharing
  <2>7. UsesStep(r)
    <3>1. ASSUME NEW o, Fresh(o), Sharing(r, o)', NEW u \in objs'[o].uses PROVE Kept(u)
      <4>1. o \in Nat /\ o = n + 1
        BY <2>1, <2>5, <3>1
      <4>2. p.args \subseteq Keeps
        BY <1>3, <2>6, <3>1, <4>1 DEF Lasting
      <4> QED
        BY <2>3, <2>4, <3>1, <4>1, <4>2 DEF Keeps
    <3> QED
      BY <2>4, <3>1 DEF UsesStep
  <2> QED
    BY <1>1, <1>4, <2>2, <2>7 DEF UseStep
<1> QED
  BY <1>1, <1>6, <1>7 DEF p

LEMMA PushRecordUse ==
  ASSUME InjectAssumption, SingletonsUseSingletons, IInv, KeptInv, NEW r \in Reqs, PushRecord(r)
  PROVE  UseStep(r)
<1> DEFINE p == Top(parsers[r])
           q == [p EXCEPT !.pc = "found"]
           rec == [key |-> p.key, value |-> p.obj]
           type == BindingOf(p.key).type
<1>1. /\ At(r, "created") /\ Go(r, q) /\ UNCHANGED <<objs, held>>
      /\ singletons' = IF type = "Singleton" THEN Append(singletons, rec) ELSE singletons
      /\ scoped' = IF type = "Scoped" THEN [scoped EXCEPT ![r] = Append(@, rec)] ELSE scoped
      /\ transients' = IF type = "Transient" THEN [transients EXCEPT ![r] = Append(@, rec)] ELSE transients
  BY DEF PushRecord
<1>2. Shape /\ singletons \in Seq(Record)
      /\ \A a \in Reqs : scoped[a] \in Seq(Record) /\ transients[a] \in Seq(Record)
  BY DEF IInv, Shape
<1>3. /\ p \in Parser /\ parsers[r] # <<>> /\ p.key \in Keys /\ p.obj \in Nat /\ Lasting(Owns(r), Keeps, p)
  BY <1>1, <1>2, TopFacts, TopLasting
<1>4. rec \in Record /\ rec.value = p.obj
  BY <1>3 DEF Record
<1>5. type \in Types
  <2>1. BindingOf(p.key) \in Binding
    BY <1>3, BindingFacts
  <2> QED
    BY <2>1 DEF Binding
<1>6. q \in Parser /\ q.pc = "found" /\ q.key = p.key /\ q.obj = p.obj /\ q.args = p.args
  <2>1. "found" \in PCs
    BY DEF PCs
  <2> HIDE DEF p
  <2> QED
    BY <1>3, <2>1, PlaceUpdated
<1> HIDE DEF q, rec
<1>7. CASE type = "Singleton"
  <2>1. singletons' = Append(singletons, rec) /\ UNCHANGED <<scoped, transients>>
    BY <1>1, <1>7
  <2>2. /\ Len(singletons') = Len(singletons) + 1 /\ singletons'[Len(singletons) + 1] = rec
        /\ Len(singletons) \in Nat
        /\ \A i \in 1 .. Len(singletons) : singletons'[i] = singletons[i]
    BY <1>2, <1>4, <2>1, Appended
  <2>3. Len(singletons) + 1 \in 1 .. Len(singletons') /\ \A i \in 1 .. Len(singletons) : i \in 1 .. Len(singletons')
    BY <2>2
  <2>4. \A o : Shared(o) => Shared(o)'
    BY <2>2, <2>3 DEF Shared
  <2>5. \A o : o = rec.value => Shared(o)'
    BY <2>2, <2>3 DEF Shared
  <2>6. Grown(r)
    BY <2>1, <2>4 DEF Grown, Owns, Keeps, Kept, Recorded
  <2>7. p.obj \in Keeps'
    BY <1>3, <1>4, <2>5 DEF Keeps, Kept
  <2>8. PropsKept(p.key)
    BY <1>3, <1>7 DEF SingletonsUseSingletons, IsSingleton
  <2>9. Lasting(Owns(r)', Keeps', q)
    BY <1>3, <1>6, <2>6, <2>7, <2>8 DEF Lasting, Grown
  <2>10. TopLasts(r)
    BY <1>1, <1>3, <1>6, <2>9, GoLasts
  <2> QED
    BY <1>1, <2>6, <2>10, SameUsesStep DEF UseStep
<1>8. CASE type # "Singleton"
  <2>1. /\ singletons' = singletons
        /\ \A a \in Reqs : a # r => scoped'[a] = scoped[a] /\ transients'[a] = transients[a]
        /\ scoped'[r] = IF type = "Scoped" THEN Append(scoped[r], rec) ELSE scoped[r]
        /\ transients'[r] = IF type = "Transient" THEN Append(transients[r], rec) ELSE transients[r]
    <3> HIDE DEF type
    <3>1. scoped \in [Reqs -> Seq(Record)] /\ transients \in [Reqs -> Seq(Record)]
      BY <1>2 DEF Shape
    <3> QED
      BY <1>1, <1>8, <3>1
  <2> DEFINE more == IF type = "Scoped" THEN scoped[r] ELSE transients[r]
  <2>2. /\ Len(Append(more, rec)) = Len(more) + 1 /\ Append(more, rec)[Len(more) + 1] = rec
        /\ Len(more) \in Nat /\ \A i \in 1 .. Len(more) : Append(more, rec)[i] = more[i]
    <3>1. more \in Seq(Record)
      BY <1>2
    <3> HIDE DEF more
    <3> QED
      BY <1>4, <3>1, Appended
  <2>3. \A i \in 1 .. Len(more) : i \in 1 .. Len(more) + 1
    BY <2>2
  <2>4. Len(more) + 1 \in 1 .. Len(more) + 1
    BY <2>2
  <2>5. \A a \in Reqs : \A o : Recorded(a, o) => Recorded(a, o)'
    <3>1. \A a \in Reqs : a # r => \A o : Recorded(a, o)' <=> Recorded(a, o)
      BY <2>1 DEF Recorded
    <3>2. CASE type = "Scoped"
      <4>1. /\ Len(scoped'[r]) = Len(scoped[r]) + 1 /\ transients'[r] = transients[r]
            /\ \A i \in 1 .. Len(scoped[r]) : scoped'[r][i] = scoped[r][i] /\ i \in 1 .. Len(scoped'[r])
        BY <2>1, <2>2, <2>3, <3>2
      <4>2. \A o : Recorded(r, o) => Recorded(r, o)'
        BY <4>1 DEF Recorded
      <4> QED
        BY <3>1, <4>2
    <3>3. CASE type = "Transient"
      <4>1. /\ Len(transients'[r]) = Len(transients[r]) + 1 /\ scoped'[r] = scoped[r]
            /\ \A i \in 1 .. Len(transients[r]) : transients'[r][i] = transients[r][i] /\ i \in 1 .. Len(transients'[r])
        BY <2>1, <2>2, <2>3, <3>3
      <4>2. \A o : Recorded(r, o) => Recorded(r, o)'
        BY <4>1 DEF Recorded
      <4> QED
        BY <3>1, <4>2
    <3> QED
      BY <1>5, <1>8, <3>2, <3>3 DEF Types
  <2>6. \A o : o = rec.value => Recorded(r, o)'
    <3>1. CASE type = "Scoped"
      <4>1. scoped'[r] = Append(scoped[r], rec) /\ more = scoped[r]
        BY <2>1, <3>1
      <4>2. Len(more) + 1 \in 1 .. Len(scoped'[r]) /\ scoped'[r][Len(more) + 1] = rec
        BY <2>2, <2>4, <4>1, Zenon
      <4> HIDE DEF more, type
      <4> QED
        BY <4>2 DEF Recorded
    <3>2. CASE type = "Transient"
      <4>1. transients'[r] = Append(transients[r], rec) /\ more = transients[r]
        BY <2>1, <3>2
      <4>2. Len(more) + 1 \in 1 .. Len(transients'[r]) /\ transients'[r][Len(more) + 1] = rec
        BY <2>2, <2>4, <4>1, Zenon
      <4> HIDE DEF more, type
      <4> QED
        BY <4>2 DEF Recorded
    <3> QED
      BY <1>5, <1>8, <3>1, <3>2 DEF Types
  <2>7. Grown(r)
    BY <2>1, <2>5 DEF Grown, Owns, Keeps, Kept, Shared
  <2>8. p.obj \in Owns(r)'
    BY <1>3, <1>4, <2>6 DEF Owns
  <2>9. Lasting(Owns(r)', Keeps', q)
    <3>1. ~IsSingleton(q.key)
      BY <1>6, <1>8 DEF IsSingleton
    <3> QED
      BY <1>6, <2>8, <3>1 DEF Lasting
  <2>10. TopLasts(r)
    BY <1>1, <1>3, <1>6, <2>9, GoLasts
  <2> QED
    BY <1>1, <2>7, <2>10, SameUsesStep DEF UseStep
<1> QED
  BY <1>7, <1>8

\* A parser that returns hands its object to user code, or to the parser that
\* asked for it, as an argument or a property.
LEMMA ReturnUse ==
  ASSUME InjectAssumption, SingletonsUseSingletons, NEW rank, Once(rank), IInv, KeptInv, NEW r \in Reqs,
         SkipInjection(r) \/ FinishInjection(r)
  PROVE  UseStep(r)
<1> DEFINE p == Top(parsers[r])
           n == Len(parsers[r])
           a == parsers[r][n - 1]
           x == [objs[p.obj] EXCEPT !.ready = TRUE]
<1>1. UNCHANGED <<singletons, scoped, transients>> /\ ReturnFrom(r, p)
      /\ (objs' = Assigned(r, p, objs) \/ objs' = Assigned(r, p, [objs EXCEPT ![p.obj].ready = TRUE]))
  BY DEF SkipInjection, FinishInjection
<1>2. PICK pc \in {"found", "initialized"} : At(r, pc)
  BY DEF SkipInjection, FinishInjection
<1>3. /\ p \in Parser /\ p.pc = pc /\ parsers[r] # <<>> /\ p = parsers[r][n] /\ n \in Nat /\ n \in 1 .. n
      /\ p.obj \in 1 .. Len(objs) /\ objs[p.obj] \in Obj /\ objs \in Seq(Obj)
      /\ Lasting(Owns(r), Keeps, p) /\ Shape
  BY <1>2, TopFacts, TopObject, TopLasting DEF IInv
<1>4. Grown(r) /\ Keeps' = Keeps /\ Owns(r)' = Owns(r)
  BY <1>1, SameGrown
<1>5. /\ Len(parsers'[r]) = n - 1
      /\ \A k \in 1 .. n - 2 : parsers'[r][k] = parsers[r][k]
      /\ n > 1 => /\ Same(parsers'[r][n - 1], a)
                  /\ parsers'[r][n - 1].args \subseteq a.args \cup {p.obj}
                  /\ held' = held
      /\ n = 1 => held'[r] = held[r] \cup {p.obj}
  <2> HIDE DEF p
  <2> QED
    BY <1>1, <1>3, ReturnFacts
<1>6. \A k \in 1 .. n - 1 : Asks(parsers[r][k], parsers[r][k + 1]) /\ Lasting(Owns(r), Keeps, parsers[r][k])
                            /\ parsers[r][k].pc \in {"creating", "props"}
  <2>1. \A k \in 1 .. n - 1 : k \in 1 .. n /\ k # n
    BY <1>3
  <2> QED
    BY <2>1, OneMaker DEF KeptInv, Owned
<1>7. p.obj \in Owns(r) \cup Keeps /\ (IsSingleton(p.key) => p.obj \in Keeps)
  BY <1>3 DEF Lasting
<1>8. n > 1 => Asks(a, p) /\ Lasting(Owns(r), Keeps, a) /\ a.pc \in {"creating", "props"} /\ a.key \in Keys
  <2>1. n > 1 => n - 1 \in 1 .. n - 1 /\ n - 1 + 1 = n /\ n - 1 \in 1 .. n
    BY <1>3
  <2>2. \A k \in 1 .. n : parsers[r][k].key \in Keys
    BY <1>3, TypesOfShape
  <2> HIDE DEF n
  <2> QED
    BY <1>3, <1>6, <2>1, <2>2
<1>9. held'[r] \subseteq Owns(r) \cup Keeps \cup held[r]
  <2>1. n = 1 \/ n > 1
    <3>1. n \in Nat /\ n \in 1 .. n
      BY <1>3
    <3> HIDE DEF n
    <3> QED
      BY <3>1
  <2>2. n = 1 => held'[r] = held[r] \cup {p.obj}
    BY <1>5
  <2>3. n > 1 => held' = held
    BY <1>5
  <2> HIDE DEF n, p
  <2>4. CASE n = 1
    BY <1>7, <2>2, <2>4
  <2>5. CASE n > 1
    BY <2>3, <2>5
  <2> QED
    BY <2>1, <2>4, <2>5
<1> HIDE DEF p
<1>10. TopLasts(r)
  <2>1. n > 1 => Lasting(Owns(r), Keeps, parsers'[r][n - 1])
    <3> SUFFICES ASSUME n > 1 PROVE Lasting(Owns(r), Keeps, parsers'[r][n - 1])
      OBVIOUS
    <3> DEFINE b == parsers'[r][n - 1]
    <3>1. b.key = a.key /\ b.pc = a.pc /\ b.obj = a.obj /\ b.args \subseteq a.args \cup {p.obj}
      BY <1>5 DEF Same
    <3>2. IsSingleton(a.key) => IsSingleton(p.key)
      BY <1>8 DEF Asks, SingletonsUseSingletons
    <3> HIDE DEF a, b
    <3>3. IsSingleton(b.key) => b.args \subseteq Keeps
      BY <1>7, <1>8, <3>1, <3>2 DEF Lasting
    <3> QED
      BY <1>8, <3>1, <3>3 DEF Lasting, b
  <2>2. n > 2 => Asks(parsers'[r][n - 2], parsers'[r][n - 1])
    <3> SUFFICES ASSUME n > 2 PROVE Asks(parsers'[r][n - 2], parsers'[r][n - 1])
      OBVIOUS
    <3>1. n - 2 \in 1 .. n - 2 /\ n - 2 \in 1 .. n - 1 /\ n - 2 + 1 = n - 1 /\ n > 1
      BY <1>3
    <3>2. Asks(parsers[r][n - 2], a)
      BY <1>6, <3>1
    <3>3. parsers'[r][n - 2] = parsers[r][n - 2] /\ parsers'[r][n - 1].key = a.key
      BY <1>5, <3>1 DEF Same
    <3> HIDE DEF a
    <3> QED
      BY <3>2, <3>3 DEF Asks
  <2>3. /\ n - 1 - 1 = n - 2 /\ (n - 1 > 0 => n > 1) /\ (n - 1 > 1 => n > 2)
        /\ \A k \in 1 .. n - 2 : k \in 1 .. n
    BY <1>3
  <2> HIDE DEF n, a
  <2> QED
    BY <1>4, <1>5, <2>1, <2>2, <2>3 DEF TopLasts, n
<1>11. UsesStep(r)
  <2>1. x \in Obj /\ x.uses = objs[p.obj].uses /\ x.class = objs[p.obj].class
    BY <1>3, FlagUpdates
  <2>2. objs' = Assigned(r, p, objs) \/ objs' = Assigned(r, p, [objs EXCEPT ![p.obj] = x])
    BY <1>1
  <2> DEFINE given == [objs EXCEPT ![p.obj] = x]
  <2> HIDE DEF x
  <2>3. given \in Seq(Obj) /\ Len(given) = Len(objs) /\ \A k \in 1 .. Len(objs) : given[k].uses = objs[k].uses
    BY <1>3, <2>1, FlagFacts
  <2> HIDE DEF given
  <2>4. PICK heap \in Seq(Obj) : /\ objs' = Assigned(r, p, heap) /\ Len(heap) = Len(objs)
                                 /\ \A k \in 1 .. Len(objs) : heap[k].uses = objs[k].uses
    BY <1>3, <2>2, <2>3 DEF given
  <2>5. /\ Len(objs') = Len(objs)
        /\ \A o \in 1 .. Len(objs) :
             \/ objs'[o].uses = objs[o].uses
             \/ /\ n > 1 /\ a.pc = "props" /\ a.obj = o
                /\ objs'[o].uses = objs[o].uses \cup {p.obj}
    <3>1. LET h == Assigned(r, p, heap)
              m == Len(parsers[r])
          IN /\ Len(h) = Len(objs)
             /\ \A o \in 1 .. Len(objs) :
                  \/ h[o].uses = heap[o].uses
                  \/ /\ m > 1 /\ parsers[r][m - 1].pc = "props" /\ parsers[r][m - 1].obj = o
                     /\ h[o].uses = heap[o].uses \cup {p.obj}
      BY <1>3, <2>4, AssignedFacts
    <3> QED
      BY <2>4, <3>1
  <2> HIDE DEF n, a
  <2>6. ASSUME n > 1, a.pc = "props", NEW o \in 1 .. Len(objs), a.obj = o PROVE Mine(r, o) \/ Kept(p.obj)
    <3>1. CASE o \in Owns(r)
      BY <3>1 DEF Owns, Mine
    <3>2. CASE PropsKept(a.key)
      <4>1. IsSingleton(p.key)
        BY <1>8, <2>6, <3>2 DEF Asks
      <4> QED
        BY <1>7, <4>1 DEF Keeps
    <3> QED
      BY <1>8, <2>6, <3>1, <3>2 DEF Lasting
  <2>7. \A o \in 1 .. Len(objs) : \A u \in objs'[o].uses : u \in objs[o].uses \/ Mine(r, o) \/ Kept(u)
    BY <2>5, <2>6
  <2>8. \A o : ~Fresh(o)
    BY <2>5 DEF Fresh
  <2> QED
    BY <2>7, <2>8 DEF UsesStep
<1> QED
  BY <1>4, <1>9, <1>10, <1>11 DEF UseStep

LEMMA RestUse ==
  ASSUME InjectAssumption, IInv, KeptInv, NEW r \in Reqs,
         Begin(r) \/ Leave(r) \/ Unwind(r) \/ DisposeNext(r) \/ DisposeFails(r) \/ Finish(r)
  PROVE  UseStep(r)
<1>1. UNCHANGED <<parsers, held, singletons, scoped, transients>>
  BY DEF Begin, Leave, Unwind, DisposeNext, DisposeFails, Finish
<1>2. Len(objs') = Len(objs) /\ \A o \in 1 .. Len(objs) : objs'[o].uses = objs[o].uses
  <2>1. CASE Unwind(r) \/ DisposeNext(r)
    <3>1. PICK at \in 0 .. Len(Binds), queue \in Seq(Nat) :
            (\A i \in 1 .. Len(queue) : queue[i] \in 1 .. Len(objs)) /\ CallDispose(r, at, queue)
      BY <2>1, DisposalCase, Zenon
    <3> QED
      BY <3>1, CallDisposeHeap, Zenon
  <2>2. CASE Begin(r) \/ Leave(r) \/ DisposeFails(r) \/ Finish(r)
    BY <2>2 DEF Begin, Leave, DisposeFails, Finish
  <2> QED
    BY <2>1, <2>2
<1>3. Grown(r) /\ Keeps' = Keeps /\ Owns(r)' = Owns(r) /\ UsesStep(r)
  BY <1>1, <1>2, SameGrown, SameUsesStep
<1>4. TopLasts(r)
  <2> DEFINE m == Len(parsers[r])
  <2>1. m \in Nat
    BY DEF IInv, Shape
  <2>2. /\ \A k \in 1 .. m : Lasting(Owns(r), Keeps, parsers[r][k])
        /\ \A k \in 1 .. m - 1 : Asks(parsers[r][k], parsers[r][k + 1])
    BY DEF KeptInv, Owned
  <2>3. /\ m > 0 => m \in 1 .. m
        /\ m > 1 => m - 1 \in 1 .. m - 1 /\ m - 1 + 1 = m
        /\ \A k \in 1 .. m - 1 : k \in 1 .. m
    BY <2>1
  <2> HIDE DEF m
  <2>4. m > 1 => Asks(parsers[r][m - 1], parsers[r][m])
    BY <2>2, <2>3
  <2>5. m > 0 => Lasting(Owns(r), Keeps, parsers[r][m])
    BY <2>2, <2>3
  <2> QED
    BY <1>1, <1>3, <2>3, <2>4, <2>5 DEF TopLasts, m
<1> QED
  BY <1>1, <1>3, <1>4 DEF UseStep

LEMMA AnyUse ==
  ASSUME InjectAssumption, SingletonsUseSingletons, NEW rank, Once(rank), IInv, LifeInv, KeptInv, Next
  PROVE  \E r \in Reqs : StepOK(r) /\ UseStep(r)
<1>1. PICK r \in Reqs : Begin(r) \/ ParseKey(r) \/ ParseInstance(r) \/ Advance(r)
  BY DEF Next
<1>2. StepOK(r)
  <2>1. Advance(r) => StepOK(r)
    BY ParseArgStep, CreateStep, PushRecordStep, SkipInjectionStep, StartInjectionStep, InjectPropsStep,
       ParsePropStep, InitializeStep, FinishInjectionStep, ParseFailsStep, LeaveStep, UnwindStep,
       DisposeNextStep, DisposeFailsStep, FinishStep, Zenon DEF Advance
  <2> QED
    BY <1>1, <2>1, BeginStep, ParseKeyStep, ParseInstanceStep
<1>3. UseStep(r)
  <2>1. ParseKey(r) \/ ParseInstance(r) \/ ParseArg(r) \/ ParseProp(r) => UseStep(r)
    BY ParseUse
  <2>2. Create(r) => UseStep(r)
    BY CreateUse
  <2>3. PushRecord(r) => UseStep(r)
    BY PushRecordUse
  <2>4. StartInjection(r) \/ InjectProps(r) \/ Initialize(r) => UseStep(r)
    BY GoingUse
  <2>5. SkipInjection(r) \/ FinishInjection(r) => UseStep(r)
    BY ReturnUse
  <2>6. ParseFails(r) => UseStep(r)
    BY ParseFailsUse
  <2>7. Begin(r) \/ Leave(r) \/ Unwind(r) \/ DisposeNext(r) \/ DisposeFails(r) \/ Finish(r) => UseStep(r)
    BY RestUse
  <2> QED
    BY <1>1, <2>1, <2>2, <2>3, <2>4, <2>5, <2>6, <2>7, Zenon DEF Advance
<1> QED
  BY <1>2, <1>3

LEMMA StepKept ==
  ASSUME InjectAssumption, GivenAreSingletons, SingletonsUseSingletons, NEW rank, Once(rank), IInv, Apart, LifeInv,
         KeptInv, [Next]_vars
  PROVE  KeptInv'
<1>1. CASE Next
  <2>1. PICK r \in Reqs : StepOK(r) /\ UseStep(r)
    BY <1>1, AnyUse
  <2>2. KeptUses'
    BY <2>1, KeptUsesKept DEF UseStep, KeptInv
  <2>3. \A q \in Reqs : Owned(q)'
    BY <2>1, OwnedKept
  <2> QED
    BY <2>2, <2>3 DEF KeptInv
<1>2. CASE UNCHANGED vars
  BY <1>2 DEF vars, KeptInv, KeptUses, Owned, Owns, Keeps, Kept, Shared, Recorded, Sharing
<1> QED
  BY <1>1, <1>2

LEMMA InitKept ==
  ASSUME InjectAssumption, Init
  PROVE  KeptInv
<1>1. \A r \in Reqs : parsers[r] = <<>> /\ held[r] = {}
  BY DEF Init
<1>2. \A o \in 1 .. Len(objs) : objs[o].uses = {}
  <2>1. Given \in Seq(Classes)
    BY DEF InjectAssumption
  <2>2. objs = [i \in 1 .. Len(Given) |-> NewObject(Given[i], {})]
    BY <2>1 DEF Init
  <2> QED
    BY <2>1, <2>2 DEF NewObject
<1> QED
  BY <1>1, <1>2 DEF KeptInv, KeptUses, Owned

\* While the middlewares of a request run, nothing they hold and nothing that
\* what they hold uses is disposed, whatever other requests have ended.
THEOREM NothingDisposedWhileUsed ==
  GivenAreSingletons /\ NoArgumentCycle /\ SingletonsStay /\ SingletonsUseSingletons => (Spec => []NothingDisposedInUse)
<1> SUFFICES ASSUME GivenAreSingletons, NoArgumentCycle, SingletonsStay, SingletonsUseSingletons
             PROVE  Spec => []NothingDisposedInUse
  OBVIOUS
<1>1. PICK rank \in [Keys -> Nat] : Layered(rank)
  BY DEF NoArgumentCycle
<1>2. InjectAssumption
  BY InjectAssumption
<1>3. Init => Once(rank) /\ LifeInv /\ KeptInv
  BY <1>2, InitOnce, InitLife, InitKept
<1>4. IInv /\ Apart /\ Once(rank) /\ LifeInv /\ KeptInv /\ [Next]_vars => Once(rank)' /\ LifeInv' /\ KeptInv'
  BY <1>1, <1>2, StepOnce, StepLife, StepKept
<1>5. IInv /\ Apart /\ LifeInv /\ KeptInv => NothingDisposedInUse
  <2> SUFFICES ASSUME IInv, Apart, LifeInv, KeptInv, NEW r \in Reqs, phase[r] = "using",
                      NEW o \in held[r] \cup UNION {objs[h].uses : h \in held[r]}
               PROVE  objs[o].disposals = 0
    BY DEF NothingDisposedInUse
  <2>1. \A h \in held[r] : h \in Nat /\ h \in 1 .. Len(objs) /\ Reaches(r, h)
    <3>1. held[r] \in SUBSET Nat
      BY DEF IInv, Shape
    <3> QED
      BY <3>1 DEF IInv, Bounded, Reaches
  <2>2. o \in 1 .. Len(objs) /\ o \in Nat
    <3>1. Len(objs) \in Nat
      BY DEF IInv, Shape
    <3>2. o \in 1 .. Len(objs)
      BY <2>1 DEF IInv, Bounded
    <3> QED
      BY <3>1, <3>2
  <2> SUFFICES ASSUME objs[o].disposals # 0 PROVE FALSE
    OBVIOUS
  <2>3. PICK q \in Reqs : Left(q) /\ Recorded(q, o)
    BY <2>2 DEF LifeInv, DisposedOwn
  <2>4. q # r /\ Mine(q, o)
    BY <2>3 DEF Left, Mine
  <2>5. o \notin held[r]
    BY <2>1, <2>2, <2>4 DEF Apart
  <2>6. PICK h \in held[r] : o \in objs[h].uses
    BY <2>5
  <2>7. h \in Owns(r) \/ h \in Keeps
    BY DEF KeptInv, Owned
  <2>8. CASE h \in Owns(r)
    <3>1. Mine(r, h)
      BY <2>8 DEF Owns, Mine
    <3> QED
      BY <2>1, <2>4, <2>6, <3>1 DEF Apart
  <2>9. CASE h \in Keeps
    <3>1. Kept(o)
      BY <2>1, <2>6, <2>9 DEF KeptInv, KeptUses, Keeps
    <3> QED
      BY <2>2, <2>4, <3>1 DEF Apart, Kept
  <2> QED
    BY <2>7, <2>8, <2>9
<1>6. Spec => [](IInv /\ Apart)
  BY ScopesInvariant
<1> QED
  BY <1>3, <1>4, <1>5, <1>6, PTL DEF Spec

=============================================================================
