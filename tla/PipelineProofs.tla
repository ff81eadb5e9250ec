--------------------------- MODULE PipelineProofs ---------------------------
(***************************************************************************)
(* Theorems about Pipeline, for every set of requests and every lists of   *)
(* middlewares the assumptions of that module admit.                       *)
(***************************************************************************)
EXTENDS Pipeline, FiniteSetTheorems, TLAPS

-----------------------------------------------------------------------------
(* Places of the lists *)

\* A place is a list and an index into it, 0 included.
LEMMA PlaceType ==
  ASSUME NEW p \in Places
  PROVE  /\ p[1] \in DOMAIN mds
         /\ p[2] \in Nat /\ p[2] <= Len(mds[p[1]])
         /\ p = <<p[1], p[2]>>
<1>1. PICK l \in DOMAIN mds : \E i \in 0 .. Len(mds[l]) : p = <<l, i>>
  BY DEF Places
<1>2. PICK i \in 0 .. Len(mds[l]) : p = <<l, i>>
  BY <1>1
<1>3. Len(mds[l]) \in Nat
  BY ListsAssumption
<1> QED
  BY <1>2, <1>3

\* Such a pair is a place.
LEMMA PlaceIntro ==
  ASSUME NEW l \in DOMAIN mds, NEW i \in Nat, i <= Len(mds[l])
  PROVE  <<l, i>> \in Places
<1>1. Len(mds[l]) \in Nat
  BY ListsAssumption
<1>2. i \in 0 .. Len(mds[l])
  BY <1>1
<1> QED
  BY <1>2 DEF Places

\* What the assumption on the lists says of the item at a place.
LEMMA ItemFacts ==
  ASSUME NEW p \in Places, p[2] # 0
  PROVE  /\ ItemAt(p) \in Item
         /\ ItemAt(p).role = "hook" => ItemAt(p).arg \in HookTypes
         /\ ItemAt(p).role = "compose" => ItemAt(p).arg \in DOMAIN mds /\ mds[ItemAt(p).arg] # <<>>
         /\ ItemAt(p).role = "tail" => \A r \in Reqs : Main[r] # p[1]
<1> DEFINE l == p[1]
           i == p[2]
<1>1. l \in DOMAIN mds /\ i \in 1 .. Len(mds[l])
  <2>1. Len(mds[l]) \in Nat
    BY PlaceType, ListsAssumption
  <2> QED
    BY <2>1, PlaceType
<1>2. mds[l] \in Seq(Item)
  BY <1>1, ListsAssumption
<1>3. mds[l][i] \in Item
  BY <1>1, <1>2
<1> QED
  BY <1>1, <1>3, ListsAssumption DEF ItemAt

\* The list a startup or a ComposeMiddleware runs has a first place.
LEMMA FirstPlace ==
  ASSUME NEW p \in Places, Role(p) \in {"startup", "compose"},
         Role(p) = "startup" => mds[p[1]] # <<>>
  PROVE  /\ <<ListOf(p), 1>> \in Places
         /\ Role(p) = "startup" => ListOf(p) = p[1] /\ p[2] = 0
<1>1. CASE p[2] = 0
  <2>1. p[1] \in DOMAIN mds /\ mds[p[1]] \in Seq(Item) /\ mds[p[1]] # <<>>
    BY <1>1, PlaceType, ListsAssumption DEF Role
  <2>2. 1 <= Len(mds[p[1]])
    BY <2>1
  <2> QED
    BY <1>1, <2>1, <2>2, PlaceIntro DEF ListOf
<1>2. CASE p[2] # 0
  <2>1. ItemAt(p) \in Item /\ Role(p) = ItemAt(p).role
    BY <1>2, ItemFacts DEF Role
  <2>2. ItemAt(p).role = "compose"
    BY <2>1 DEF Item
  <2>3. ItemAt(p).arg \in DOMAIN mds /\ mds[ItemAt(p).arg] # <<>>
    BY <1>2, <2>2, ItemFacts
  <2>4. 1 <= Len(mds[ItemAt(p).arg])
    BY <2>3, ListsAssumption
  <2> QED
    BY <1>2, <2>1, <2>2, <2>3, <2>4, PlaceIntro DEF ListOf
<1> QED
  BY <1>1, <1>2

-----------------------------------------------------------------------------
(* The inductive invariant *)

Inner(f) == f.at[2] # 0
ThisAt(s, k) == IF Role(s[k].at) = "tail" THEN s[s[k].home].at ELSE s[k].at

\* A frame is in a phase its middleware can be in, with an error when one is due.
FrameOK(f) ==
  /\ f.pc \in {"beforeInvoke", "afterInvoke", "onError"} => Inner(f)
  /\ f.pc \in {"rejected", "onError", "onNextError"} => f.err \in Error
  /\ f.pc = "compose" => Role(f.at) \in {"startup", "compose"}

\* The pending calls s of r: Startup.invoke below, then middlewares whose list
\* is the startup's or belongs to a ComposeMiddleware further down.
Chained(r, s, ow) ==
  \A k \in 1 .. Len(s) :
    /\ FrameOK(s[k])
    /\ k = 1 => s[k].at = <<Main[r], 0>> /\ mds[Main[r]] # <<>>
    /\ k # 1 => Inner(s[k])
    /\ Inner(s[k]) /\ s[k].at[1] # Main[r] =>
         s[k].home \in 2 .. k - 1 /\ Role(s[s[k].home].at) = "compose"
    /\ Shared(s[k].at) => ow[s[k].at] \in Reqs
    /\ s[k].pc = "create" => Successor(ThisAt(s, k)) \in Places

Types ==
  /\ stack \in [Reqs -> Seq(Frame)]
  /\ hooks \in [Reqs -> [HookTypes -> Seq(Places)]]
  /\ errorStack \in [Reqs -> Seq(Error)]
  /\ owner \in [{p \in Places : Shared(p)} -> Reqs \cup {None}]
  /\ raised \in [Reqs -> Nat]
  /\ settled \subseteq [err : Error, how : {"handled", "swallowed", "displaced"}]

Phases ==
  /\ phase \in [Reqs -> {"idle", "open", "done"}]
  /\ \A r \in Reqs : phase[r] = "open" <=> stack[r] # <<>>

IInv == Types /\ Phases /\ \A r \in Reqs : Chained(r, stack[r], owner)

\* What keeps its place in the chain while its phase, hooks and error change.
SameCall(f, g) == f.at = g.at /\ f.home = g.home

\* The running call of r goes on as f.
LEMMA SetTopChained ==
  ASSUME NEW r \in Reqs, NEW s \in Seq(Frame), NEW ow, s # <<>>, Chained(r, s, ow),
         NEW f \in Frame, SameCall(f, Top(s)), FrameOK(f),
         f.pc = "create" => Successor(ThisAt(s, Len(s))) \in Places
  PROVE  /\ SetTop(s, f) \in Seq(Frame) /\ Len(SetTop(s, f)) = Len(s)
         /\ Chained(r, SetTop(s, f), ow)
<1> DEFINE t == SetTop(s, f)
           n == Len(s)
<1>1. n \in Nat \ {0}
  OBVIOUS
<1>2. t \in Seq(Frame) /\ Len(t) = n
  BY <1>1 DEF SetTop
<1>3. t[n] = f /\ \A k \in 1 .. n - 1 : t[k] = s[k]
  BY <1>1 DEF SetTop
<1>4. \A k \in 1 .. n : SameCall(t[k], s[k])
  BY <1>1, <1>3 DEF SameCall, Top
<1>5. \A k \in 1 .. n : Inner(s[k]) /\ s[k].at[1] # Main[r] =>
        s[k].home \in 2 .. k - 1 /\ Role(s[s[k].home].at) = "compose"
  BY DEF Chained
<1>6. \A k \in 1 .. n : ThisAt(t, k) = ThisAt(s, k)
  <2> SUFFICES ASSUME NEW k \in 1 .. n, Role(s[k].at) = "tail"
               PROVE  t[t[k].home].at = s[s[k].home].at
    BY <1>4 DEF ThisAt, SameCall
  <2>1. s[k] \in Frame
    OBVIOUS
  <2>2. s[k].at \in Places /\ s[k].at[2] # 0 /\ ItemAt(s[k].at).role = "tail"
    BY <2>1 DEF Frame, Role
  <2>3. s[k].at[1] # Main[r]
    BY <2>2, ItemFacts
  <2>4. s[k].home \in 1 .. n
    BY <1>1, <1>5, <2>2, <2>3 DEF Inner
  <2> QED
    BY <1>4, <2>4 DEF SameCall
<1>7. Chained(r, t, ow)
  <2> SUFFICES ASSUME NEW k \in 1 .. n
               PROVE  /\ FrameOK(t[k])
                      /\ k = 1 => t[k].at = <<Main[r], 0>> /\ mds[Main[r]] # <<>>
                      /\ k # 1 => Inner(t[k])
                      /\ Inner(t[k]) /\ t[k].at[1] # Main[r] =>
                           t[k].home \in 2 .. k - 1 /\ Role(t[t[k].home].at) = "compose"
                      /\ Shared(t[k].at) => ow[t[k].at] \in Reqs
                      /\ t[k].pc = "create" => Successor(ThisAt(t, k)) \in Places
    BY <1>2 DEF Chained
  <2>1. t[k].at = s[k].at /\ t[k].home = s[k].home
    BY <1>4 DEF SameCall
  <2>2. FrameOK(t[k])
    BY <1>1, <1>3 DEF Chained
  <2>3. t[k].pc = "create" => Successor(ThisAt(t, k)) \in Places
    BY <1>1, <1>3, <1>6 DEF Chained
  <2>4. Inner(t[k]) /\ t[k].at[1] # Main[r] =>
          t[k].home \in 2 .. k - 1 /\ Role(t[t[k].home].at) = "compose"
    BY <1>1, <1>4, <1>5, <2>1 DEF Inner, SameCall
  <2> QED
    BY <2>1, <2>2, <2>3, <2>4 DEF Chained, Inner
<1> QED
  BY <1>2, <1>7

\* A call below the running one: its home is there whatever happens above it.
LEMMA PrefixChained ==
  ASSUME NEW r \in Reqs, NEW s \in Seq(Frame), NEW ow, Len(s) > 1, Chained(r, s, ow),
         NEW t, t = [k \in 1 .. Len(s) - 1 |-> s[k]]
  PROVE  t \in Seq(Frame) /\ Len(t) = Len(s) - 1 /\ t # <<>> /\ Chained(r, t, ow)
<1>1. t \in Seq(Frame) /\ Len(t) = Len(s) - 1 /\ \A k \in 1 .. Len(t) : t[k] = s[k]
  OBVIOUS
<1>2. \A k \in 1 .. Len(t) : Role(t[k].at) = "tail" => t[k].home \in 1 .. Len(t)
  <2> SUFFICES ASSUME NEW k \in 1 .. Len(t), Role(t[k].at) = "tail"
               PROVE  t[k].home \in 1 .. Len(t)
    OBVIOUS
  <2>1. t[k] \in Frame
    BY <1>1
  <2>2. t[k].at \in Places /\ t[k].at[2] # 0 /\ ItemAt(t[k].at).role = "tail"
    BY <2>1 DEF Frame, Role
  <2>3. t[k].at[1] # Main[r]
    BY <2>2, ItemFacts
  <2>4. t[k].home \in 2 .. k - 1
    BY <1>1, <2>2, <2>3 DEF Chained, Inner
  <2> QED
    BY <1>1, <2>4
<1>3. \A k \in 1 .. Len(t) : ThisAt(t, k) = ThisAt(s, k)
  BY <1>1, <1>2 DEF ThisAt
<1>4. Chained(r, t, ow)
  BY <1>1, <1>3, SMTT(30) DEF Chained
<1>5. Len(t) # 0
  BY <1>1
<1>6. t # <<>>
  BY <1>5
<1> QED
  BY <1>1, <1>4, <1>6

\* The running call of r ends and the one that made it goes on as g.
LEMMA ReturnChained ==
  ASSUME NEW r \in Reqs, NEW s \in Seq(Frame), NEW ow, Len(s) > 1, Chained(r, s, ow),
         NEW g \in Frame, SameCall(g, Caller(s)), FrameOK(g), g.pc # "create"
  PROVE  Return(s, g) \in Seq(Frame) /\ Return(s, g) # <<>> /\ Chained(r, Return(s, g), ow)
<1> DEFINE t == [k \in 1 .. Len(s) - 1 |-> s[k]]
<1>1. t \in Seq(Frame) /\ Len(t) = Len(s) - 1 /\ t # <<>> /\ Chained(r, t, ow)
  BY PrefixChained
<1>2. Top(t) = Caller(s)
  BY <1>1 DEF Top, Caller
<1>3. SetTop(t, g) \in Seq(Frame) /\ Len(SetTop(t, g)) = Len(t) /\ Chained(r, SetTop(t, g), ow)
  BY <1>1, <1>2, SetTopChained
<1>4. Return(s, g) = SetTop(t, g)
  BY <1>1 DEF Return, SetTop
<1>5. Len(SetTop(t, g)) # 0
  BY <1>1, <1>3
<1>6. SetTop(t, g) # <<>>
  BY <1>5
<1> QED
  BY <1>3, <1>4, <1>6

\* The running call of r makes another one, g.
LEMMA PushChained ==
  ASSUME NEW r \in Reqs, NEW s \in Seq(Frame), NEW ow, s # <<>>, Chained(r, s, ow),
         NEW g \in Frame, FrameOK(g), Inner(g), g.pc # "create",
         g.at[1] = Main[r] \/ (g.home \in 2 .. Len(s) /\ Role(s[g.home].at) = "compose"),
         Shared(g.at) => ow[g.at] \in Reqs
  PROVE  Append(s, g) \in Seq(Frame) /\ Append(s, g) # <<>> /\ Chained(r, Append(s, g), ow)
<1> DEFINE t == Append(s, g)
<1>1. /\ t \in Seq(Frame) /\ Len(t) = Len(s) + 1 /\ t[Len(t)] = g /\ Len(s) \in Nat \ {0}
      /\ \A k \in 1 .. Len(s) : t[k] = s[k]
  OBVIOUS
<1>2. \A k \in 1 .. Len(s) : ThisAt(t, k) = ThisAt(s, k)
  <2> SUFFICES ASSUME NEW k \in 1 .. Len(s), Role(s[k].at) = "tail"
               PROVE  s[k].home \in 1 .. Len(s)
    BY <1>1 DEF ThisAt
  <2>1. s[k] \in Frame
    BY <1>1
  <2>2. s[k].at \in Places /\ s[k].at[2] # 0 /\ ItemAt(s[k].at).role = "tail"
    BY <2>1 DEF Frame, Role
  <2>3. s[k].at[1] # Main[r]
    BY <2>2, ItemFacts
  <2>4. s[k].home \in 2 .. k - 1
    BY <2>2, <2>3 DEF Chained, Inner
  <2> QED
    BY <1>1, <2>4
<1>3. Chained(r, t, ow)
  <2> SUFFICES ASSUME NEW k \in 1 .. Len(t)
               PROVE  /\ FrameOK(t[k])
                      /\ k = 1 => t[k].at = <<Main[r], 0>> /\ mds[Main[r]] # <<>>
                      /\ k # 1 => Inner(t[k])
                      /\ Inner(t[k]) /\ t[k].at[1] # Main[r] =>
                           t[k].home \in 2 .. k - 1 /\ Role(t[t[k].home].at) = "compose"
                      /\ Shared(t[k].at) => ow[t[k].at] \in Reqs
                      /\ t[k].pc = "create" => Successor(ThisAt(t, k)) \in Places
    BY DEF Chained
  <2>1. CASE k = Len(t)
    BY <1>1, <2>1
  <2>2. CASE k # Len(t)
    <3>1. k \in 1 .. Len(s) /\ t[k] = s[k]
      BY <1>1, <2>2
    <3>2. Inner(s[k]) /\ s[k].at[1] # Main[r] => s[k].home \in 2 .. k - 1 /\ Role(s[s[k].home].at) = "compose"
      BY <3>1 DEF Chained
    <3> QED
      BY <1>1, <1>2, <3>1, <3>2 DEF Chained
  <2> QED
    BY <2>1, <2>2
<1> QED
  BY <1>1, <1>3

\* An instance that gets a context keeps every chain as it was.
LEMMA OwnerChained ==
  ASSUME NEW r \in Reqs, NEW s \in Seq(Frame), NEW ow, NEW ow2, Chained(r, s, ow),
         \A p \in Places : Shared(p) /\ ow[p] \in Reqs => ow2[p] \in Reqs
  PROVE  Chained(r, s, ow2)
<1>1. \A k \in 1 .. Len(s) : s[k] \in Frame
  OBVIOUS
<1>2. \A k \in 1 .. Len(s) : s[k].at \in Places
  BY <1>1 DEF Frame
<1> QED
  BY <1>2 DEF Chained

\* The fields next() reads: of the running middleware, or of the
\* ComposeMiddleware whose tail is running.
LEMMA ThisFacts ==
  ASSUME Types, NEW r \in Reqs, Chained(r, stack[r], owner),
         NEW k \in 1 .. Len(stack[r]), NEW f \in Frame, SameCall(f, stack[r][k]),
         f.ctx = stack[r][k].ctx
  PROVE  LET this == This(r, f)
         IN /\ this.ctx \in Reqs /\ this.home \in Nat /\ this.at \in Places
            /\ this.at = ThisAt(stack[r], k)
            /\ this.at[1] = Main[r] \/ (this.home \in 2 .. k - 1 /\ Role(stack[r][this.home].at) = "compose")
<1> DEFINE s == stack[r]
<1>1. s \in Seq(Frame) /\ \A j \in 1 .. Len(s) : s[j] \in Frame
  BY DEF Types
<1>2. ASSUME NEW g \in Frame, NEW j \in 1 .. Len(s), SameCall(g, s[j]), g.ctx \in Reqs
      PROVE  /\ Self(g).ctx \in Reqs /\ Self(g).home = s[j].home /\ Self(g).at = s[j].at
             /\ s[j].at \in Places /\ s[j].home \in Nat
  <2>1. s[j].at \in Places /\ s[j].home \in Nat
    BY <1>1 DEF Frame
  <2>2. Shared(s[j].at) => owner[s[j].at] \in Reqs
    BY DEF Chained
  <2> QED
    BY <1>2, <2>1, <2>2 DEF Self, SameCall
<1>3. f.ctx \in Reqs
  BY DEF Frame
<1>4. \A j \in 1 .. Len(s) : Inner(s[j]) /\ s[j].at[1] # Main[r] =>
        s[j].home \in 2 .. j - 1 /\ Role(s[s[j].home].at) = "compose"
  BY DEF Chained
<1>5. \A j \in 1 .. Len(s) : ~Inner(s[j]) => s[j].at[1] = Main[r]
  BY DEF Chained
<1>6. CASE Role(f.at) # "tail"
  <2>1. This(r, f) = Self(f) /\ ThisAt(s, k) = s[k].at
    BY <1>6 DEF This, ThisAt, SameCall
  <2> QED
    BY <1>2, <1>3, <1>4, <1>5, <2>1
<1>7. CASE Role(f.at) = "tail"
  <2>1. Role(s[k].at) = "tail" /\ f.home = s[k].home
    BY <1>7 DEF SameCall
  <2>2. s[k].at \in Places /\ s[k].at[2] # 0 /\ ItemAt(s[k].at).role = "tail"
    BY <1>1, <2>1 DEF Frame, Role
  <2>3. s[k].at[1] # Main[r]
    BY <2>2, ItemFacts
  <2>4. s[k].home \in 2 .. k - 1
    BY <1>4, <2>2, <2>3 DEF Inner
  <2> DEFINE h == s[k].home
  <2>5. h \in 1 .. Len(s) /\ h \in 2 .. k - 1
    BY <1>1, <2>4
  <2>10. s[h] \in Frame /\ s[h].ctx \in Reqs
    BY <1>1, <2>5 DEF Frame
  <2>6. This(r, f) = Self(s[h]) /\ ThisAt(s, k) = s[h].at
    BY <1>7, <2>1 DEF This, ThisAt
  <2>7. Self(s[h]).ctx \in Reqs /\ Self(s[h]).home = s[h].home /\ Self(s[h]).at = s[h].at
        /\ s[h].at \in Places /\ s[h].home \in Nat
    BY <1>2, <2>5, <2>10 DEF SameCall
  <2>8. s[h].at[1] = Main[r] \/ (s[h].home \in 2 .. h - 1 /\ Role(s[s[h].home].at) = "compose")
    BY <1>4, <1>5, <2>5
  <2>9. s[h].home \in 2 .. h - 1 => s[h].home \in 2 .. k - 1
    BY <2>4, <2>7
  <2> QED
    BY <2>6, <2>7, <2>8, <2>9
<1> QED
  BY <1>6, <1>7

-----------------------------------------------------------------------------
(* The invariant is inductive *)

\* Everything the invariant says of r's new stack t, and of the rest.
LEMMA Replace ==
  ASSUME IInv, NEW r \in Reqs, NEW t \in Seq(Frame), Chained(r, t, owner),
         stack' = [stack EXCEPT ![r] = t], stack[r] # <<>>, t # <<>>,
         UNCHANGED <<phase, owner>>
  PROVE  /\ Phases' /\ stack' \in [Reqs -> Seq(Frame)]
         /\ \A q \in Reqs : Chained(q, stack'[q], owner')
<1> USE DEF IInv, Types, Phases
<1>1. stack' \in [Reqs -> Seq(Frame)] /\ stack'[r] = t /\ \A q \in Reqs \ {r} : stack'[q] = stack[q]
  OBVIOUS
<1>2. \A q \in Reqs : Chained(q, stack'[q], owner')
  BY <1>1
<1>3. \A q \in Reqs : phase'[q] = "open" <=> stack'[q] # <<>>
  BY <1>1
<1> QED
  BY <1>1, <1>2, <1>3

\* The running call of r goes on as f.
LEMMA GoKeeps ==
  ASSUME IInv, NEW r \in Reqs, stack[r] # <<>>, NEW f \in Frame, SameCall(f, Top(stack[r])),
         FrameOK(f), Go(r, f), UNCHANGED <<phase, owner>>,
         f.pc = "create" => Successor(ThisAt(stack[r], Len(stack[r]))) \in Places
  PROVE  /\ Phases' /\ stack' \in [Reqs -> Seq(Frame)]
         /\ \A q \in Reqs : Chained(q, stack'[q], owner')
<1>1. stack[r] \in Seq(Frame) /\ Chained(r, stack[r], owner)
  BY DEF IInv, Types
<1> DEFINE t == SetTop(stack[r], f)
<1>2. t \in Seq(Frame) /\ Len(t) = Len(stack[r]) /\ Chained(r, t, owner)
  BY <1>1, SetTopChained
<1>3. t # <<>>
  <2>1. Len(t) # 0
    BY <1>1, <1>2
  <2> QED
    BY <2>1
<1>4. stack' = [stack EXCEPT ![r] = t]
  BY DEF Go
<1> HIDE DEF t
<1> QED
  BY <1>2, <1>3, <1>4, Replace

\* The running call of r ends; the one that made it goes on as g.
LEMMA GoBackKeeps ==
  ASSUME IInv, NEW r \in Reqs, Len(stack[r]) > 1, NEW g \in Frame, SameCall(g, Caller(stack[r])),
         FrameOK(g), g.pc # "create", GoBack(r, g), UNCHANGED <<phase, owner>>
  PROVE  /\ Phases' /\ stack' \in [Reqs -> Seq(Frame)]
         /\ \A q \in Reqs : Chained(q, stack'[q], owner')
<1>1. stack[r] \in Seq(Frame) /\ Chained(r, stack[r], owner)
  BY DEF IInv, Types
<1> DEFINE t == Return(stack[r], g)
<1>2. t \in Seq(Frame) /\ t # <<>> /\ Chained(r, t, owner)
  BY <1>1, ReturnChained
<1>3. stack' = [stack EXCEPT ![r] = t]
  BY DEF GoBack
<1>4. stack[r] # <<>>
  BY <1>1
<1> HIDE DEF t
<1> QED
  BY <1>2, <1>3, <1>4, Replace

\* The running call of r and the one that made it, when r is open.
LEMMA TopFacts ==
  ASSUME IInv, NEW r \in Reqs, stack[r] # <<>>
  PROVE  LET s == stack[r]
             f == Top(s)
         IN /\ s \in Seq(Frame) /\ Len(s) \in Nat \ {0} /\ Len(s) \in 1 .. Len(s) /\ f = s[Len(s)]
            /\ f \in Frame /\ FrameOK(f) /\ f.at \in Places
            /\ Inner(f) <=> Len(s) > 1
            /\ This(r, f).ctx \in Reqs /\ This(r, f).home \in Nat /\ This(r, f).at \in Places
            /\ This(r, f).at = ThisAt(s, Len(s))
            /\ Len(s) > 1 => /\ Caller(s) \in Frame /\ FrameOK(Caller(s))
                             /\ This(r, Caller(s)).ctx \in Reqs
<1> DEFINE s == stack[r]
           f == Top(s)
<1>1. s \in Seq(Frame) /\ Len(s) \in Nat \ {0} /\ Types /\ Chained(r, s, owner)
  BY DEF IInv, Types
<1>2. f = s[Len(s)] /\ Len(s) \in 1 .. Len(s) /\ f \in Frame
  BY <1>1 DEF Top
<1>3. FrameOK(f) /\ (Inner(f) <=> Len(s) > 1)
  BY <1>1, <1>2 DEF Chained, Inner
<1>4. /\ This(r, f).ctx \in Reqs /\ This(r, f).home \in Nat /\ This(r, f).at \in Places
      /\ This(r, f).at = ThisAt(s, Len(s))
  BY <1>1, <1>2, ThisFacts DEF SameCall
<1>5. ASSUME Len(s) > 1
      PROVE  Caller(s) \in Frame /\ FrameOK(Caller(s)) /\ This(r, Caller(s)).ctx \in Reqs
  <2>1. Len(s) - 1 \in 1 .. Len(s) /\ Caller(s) = s[Len(s) - 1]
    BY <1>1, <1>5 DEF Caller
  <2>2. Caller(s) \in Frame
    BY <1>1, <2>1
  <2>3. FrameOK(Caller(s))
    BY <1>1, <2>1 DEF Chained
  <2>4. This(r, Caller(s)).ctx \in Reqs
    BY <1>1, <2>1, <2>2, ThisFacts DEF SameCall
  <2> QED
    BY <2>2, <2>3, <2>4
<1>6. f.at \in Places
  BY <1>2 DEF Frame
<1> QED
  BY <1>1, <1>2, <1>3, <1>4, <1>5, <1>6

\* What the steps that only move r's calls leave to show.
Kept == /\ Phases' /\ stack' \in [Reqs -> Seq(Frame)]
        /\ \A q \in Reqs : Chained(q, stack'[q], owner')
Counts == /\ raised' \in [Reqs -> Nat]
          /\ settled' \subseteq [err : Error, how : {"handled", "swallowed", "displaced"}]

\* A rejected frame carries an error.
LEMMA RejectedFrame ==
  ASSUME NEW f \in Frame, NEW e \in Error
  PROVE  /\ Rejected(f, e) \in Frame /\ FrameOK(Rejected(f, e))
         /\ SameCall(Rejected(f, e), f) /\ Rejected(f, e).pc # "create"
<1> DEFINE noHooks == <<>>
<1>a. noHooks \in Seq(Places)
  OBVIOUS
<1> HIDE DEF noHooks
<1>1. Rejected(f, e) \in Frame
  <2>1. Rejected(f, e) = [f EXCEPT !.pc = "rejected", !.err = e, !.q = noHooks]
    BY DEF Rejected, noHooks
  <2> QED
    BY <1>a, <2>1 DEF Frame, PCs
<1>2. Rejected(f, e).pc = "rejected" /\ Rejected(f, e).err = e /\ SameCall(Rejected(f, e), f)
  BY DEF Rejected, Frame, SameCall
<1> QED
  BY <1>1, <1>2 DEF FrameOK

\* The error paths that start at the code around an invocation keep the invariant.
LEMMA FailKeeps ==
  ASSUME IInv, NEW r \in Reqs, Len(stack[r]) > 1, NEW e \in Error, Fail(r, e), UNCHANGED <<phase, owner>>
  PROVE  Kept /\ Counts
<1> DEFINE f == Top(stack[r])
           c == Caller(stack[r])
<1>1. stack[r] \in Seq(Frame) /\ raised \in [Reqs -> Nat] /\ hooks \in [Reqs -> [HookTypes -> Seq(Places)]]
      /\ settled \subseteq [err : Error, how : {"handled", "swallowed", "displaced"}]
  BY DEF IInv, Types
<1>2. stack[r] # <<>>
  BY <1>1
<1>3. /\ f \in Frame /\ Inner(f) /\ c \in Frame /\ This(r, c).ctx \in Reqs
  BY <1>2, TopFacts
<1>4. Counted(r, e) \in Nat
  BY <1>1 DEF Counted, Error
<1>5. ASSUME NEW x \in Error
      PROVE  Rejected(c, x) \in Frame /\ FrameOK(Rejected(c, x)) /\ SameCall(Rejected(c, x), c)
             /\ Rejected(c, x).pc # "create"
  BY <1>3, RejectedFrame
<1>6. TypeErrorFor(r, e) \in Error
  BY <1>4 DEF TypeErrorFor, NewError, Error, Kinds
<1> HIDE DEF f, c
<1>7. CASE (Root(f.at) \/ e.kind = "breakthrough") /\ GoBack(r, Rejected(c, e)) /\ Keep(r, e)
  <2>1. Kept
    BY <1>5, <1>7, GoBackKeeps DEF Kept, c
  <2>2. Counts
    BY <1>1, <1>4, <1>7 DEF Counts, Keep
  <2> QED
    BY <2>1, <2>2
<1>8. CASE ~Root(f.at) /\ e.kind = "plain" /\ Go(r, Handling(f, "onError", e, This(r, c).ctx)) /\ Keep(r, e)
  <2> DEFINE g == Handling(f, "onError", e, This(r, c).ctx)
  <2>1. HooksOf(This(r, c).ctx, "Error") \in Seq(Places)
    BY <1>1, <1>3 DEF HooksOf, HookTypes
  <2>2. g \in Frame /\ SameCall(g, f) /\ FrameOK(g) /\ g.pc # "create"
    BY <1>3, <2>1 DEF Handling, Frame, PCs, FrameOK, SameCall, Inner
  <2> HIDE DEF g
  <2>3. Kept
    BY <1>2, <1>8, <2>2, GoKeeps DEF Kept, f, g
  <2>4. Counts
    BY <1>1, <1>4, <1>8 DEF Counts, Keep
  <2> QED
    BY <2>3, <2>4
<1>9. CASE ~Root(f.at) /\ e.kind = "primitive" /\ GoBack(r, Rejected(c, TypeErrorFor(r, e))) /\ Displace(r, e)
  <2>1. Kept
    BY <1>5, <1>6, <1>9, GoBackKeeps DEF Kept, c
  <2>2. Counts
    BY <1>1, <1>4, <1>9 DEF Counts, Displace
  <2> QED
    BY <2>1, <2>2
<1> QED
  BY <1>7, <1>8, <1>9 DEF Fail, f, c

\* The error paths that start in next() itself keep the invariant.
LEMMA FailNextKeeps ==
  ASSUME IInv, NEW r \in Reqs, stack[r] # <<>>, NEW e \in Error, FailNext(r, e), UNCHANGED <<phase, owner>>
  PROVE  Kept /\ Counts
<1> DEFINE f == Top(stack[r])
<1>1. raised \in [Reqs -> Nat] /\ hooks \in [Reqs -> [HookTypes -> Seq(Places)]]
      /\ settled \subseteq [err : Error, how : {"handled", "swallowed", "displaced"}]
  BY DEF IInv, Types
<1>3. f \in Frame /\ This(r, f).ctx \in Reqs
  BY TopFacts
<1>4. Counted(r, e) \in Nat
  BY <1>1 DEF Counted, Error
<1>5. ASSUME NEW x \in Error
      PROVE  Rejected(f, x) \in Frame /\ FrameOK(Rejected(f, x)) /\ SameCall(Rejected(f, x), f)
             /\ Rejected(f, x).pc # "create"
  BY <1>3, RejectedFrame
<1>6. TypeErrorFor(r, e) \in Error
  BY <1>4 DEF TypeErrorFor, NewError, Error, Kinds
<1> HIDE DEF f
<1>7. CASE e.kind = "breakthrough" /\ Go(r, Rejected(f, e)) /\ Keep(r, e)
  <2>1. Kept
    BY <1>5, <1>7, GoKeeps DEF Kept, f
  <2>2. Counts
    BY <1>1, <1>4, <1>7 DEF Counts, Keep
  <2> QED
    BY <2>1, <2>2
<1>8. CASE e.kind = "plain" /\ Go(r, Handling(f, "onNextError", e, This(r, f).ctx)) /\ Keep(r, e)
  <2> DEFINE g == Handling(f, "onNextError", e, This(r, f).ctx)
  <2>1. HooksOf(This(r, f).ctx, "Error") \in Seq(Places)
    BY <1>1, <1>3 DEF HooksOf, HookTypes
  <2>2. g \in Frame /\ SameCall(g, f) /\ FrameOK(g) /\ g.pc # "create"
    BY <1>3, <2>1 DEF Handling, Frame, PCs, FrameOK, SameCall
  <2> HIDE DEF g
  <2>3. Kept
    BY <1>8, <2>2, GoKeeps DEF Kept, f, g
  <2>4. Counts
    BY <1>1, <1>4, <1>8 DEF Counts, Keep
  <2> QED
    BY <2>3, <2>4
<1>9. CASE e.kind = "primitive" /\ Go(r, Rejected(f, TypeErrorFor(r, e))) /\ Displace(r, e)
  <2>1. Kept
    BY <1>5, <1>6, <1>9, GoKeeps DEF Kept, f
  <2>2. Counts
    BY <1>1, <1>4, <1>9 DEF Counts, Displace
  <2> QED
    BY <2>1, <2>2
<1> QED
  BY <1>7, <1>8, <1>9 DEF FailNext, f

\* What user code throws is an error of the request, newly counted.
LEMMA ThrownFacts ==
  ASSUME Types, NEW r \in Reqs, NEW origin \in {"code", "errorHook"}, NEW e \in Thrown(r, origin)
  PROVE  e \in Error /\ e.by = r /\ e.n = raised[r] + 1 /\ e.origin = origin
<1>1. PICK kind \in ErrorKinds : e = NewError(r, raised[r] + 1, kind, origin)
  BY DEF Thrown
<1>2. raised[r] \in Nat /\ kind \in Kinds
  BY BoundsAssumption DEF Types
<1> QED
  BY <1>1, <1>2 DEF NewError, Error

\* What leaves hooks, errors and owners alone keeps the types.
LEMMA StillTyped ==
  ASSUME IInv, Kept, Counts, UNCHANGED <<hooks, errorStack, owner>>
  PROVE  IInv'
BY DEF IInv, Types, Kept, Counts

\* What throws and settles nothing keeps the counts.
LEMMA StillCounted ==
  ASSUME IInv, UNCHANGED <<raised, settled>>
  PROVE  Counts
BY DEF IInv, Types, Counts

\* The frame next() returns to is a frame at rest.
LEMMA ResumedFrame ==
  ASSUME NEW f \in Frame
  PROVE  Resumed(f) \in Frame /\ FrameOK(Resumed(f)) /\ SameCall(Resumed(f), f) /\ Resumed(f).pc = "body"
<1> DEFINE noHooks == <<>>
<1>1. noHooks \in Seq(Places)
  OBVIOUS
<1>2. Resumed(f) = [f EXCEPT !.pc = "body", !.err = None, !.q = noHooks]
  BY DEF Resumed
<1> HIDE DEF noHooks
<1>3. Resumed(f) \in Frame
  BY <1>1, <1>2 DEF Frame, PCs
<1>4. Resumed(f).pc = "body" /\ SameCall(Resumed(f), f)
  BY <1>2 DEF Frame, SameCall
<1> QED
  BY <1>3, <1>4 DEF FrameOK

\* The steps of execHooks that only shorten the queue of the running call.
LEMMA QueueStep ==
  ASSUME IInv, NEW r \in Reqs, stack[r] # <<>>, NEW q \in Seq(Places),
         Go(r, [Top(stack[r]) EXCEPT !.q = q]),
         UNCHANGED <<phase, hooks, errorStack, owner, raised, settled>>
  PROVE  IInv'
<1> DEFINE f == Top(stack[r])
           g == [f EXCEPT !.q = q]
<1>1. f \in Frame /\ FrameOK(f) /\ f = stack[r][Len(stack[r])] /\ Len(stack[r]) \in 1 .. Len(stack[r])
  BY TopFacts
<1>2. g \in Frame /\ SameCall(g, f) /\ g.pc = f.pc /\ g.err = f.err
  BY <1>1 DEF Frame, SameCall
<1>3. FrameOK(g)
  BY <1>1, <1>2 DEF FrameOK, SameCall, Inner
<1>4. g.pc = "create" => Successor(ThisAt(stack[r], Len(stack[r]))) \in Places
  BY <1>1, <1>2 DEF IInv, Chained
<1>5. Go(r, g)
  OBVIOUS
<1> HIDE DEF f, g
<1>6. Kept
  BY <1>2, <1>3, <1>4, <1>5, GoKeeps DEF Kept, f
<1> QED
  BY <1>6, StillTyped, StillCounted

\* HookPasses keeps the invariant.
LEMMA HookPassesKeeps == ASSUME IInv, NEW r \in Reqs, HookPasses(r) PROVE IInv'
<1>1. stack[r] # <<>> /\ Top(stack[r]).q # <<>>
  BY DEF HookPasses, InHook
<1>2. Top(stack[r]).q \in Seq(Places)
  BY <1>1, TopFacts DEF Frame
<1>3. Tail(Top(stack[r]).q) \in Seq(Places)
  BY <1>1, <1>2
<1>4. Go(r, [Top(stack[r]) EXCEPT !.q = Tail(Top(stack[r]).q)])
  BY <1>1, TopFacts DEF HookPasses, Frame
<1> QED
  BY <1>1, <1>3, <1>4, QueueStep DEF HookPasses

\* HookEndsLoop keeps the invariant.
LEMMA HookEndsLoopKeeps == ASSUME IInv, NEW r \in Reqs, HookEndsLoop(r) PROVE IInv'
<1>1. stack[r] # <<>> /\ <<>> \in Seq(Places)
  BY DEF HookEndsLoop, InHook
<1> QED
  BY <1>1, QueueStep DEF HookEndsLoop

\* HookVetoes keeps the invariant.
LEMMA HookVetoesKeeps == ASSUME IInv, NEW r \in Reqs, HookVetoes(r) PROVE IInv'
<1>1. CASE InHook(r, {"beforeNext"}) /\ Go(r, Resumed(Top(stack[r])))
  <2>1. stack[r] # <<>>
    BY <1>1 DEF InHook
  <2>2. Kept
    BY <1>1, <2>1, TopFacts, ResumedFrame, GoKeeps DEF HookVetoes, Kept
  <2> QED
    BY <2>2, StillTyped, StillCounted DEF HookVetoes
<1>2. CASE InHook(r, {"beforeInvoke"}) /\ GoBack(r, Resumed(Caller(stack[r])))
  <2>1. stack[r] # <<>> /\ Top(stack[r]).pc = "beforeInvoke"
    BY <1>2 DEF InHook
  <2>2. Len(stack[r]) > 1 /\ Caller(stack[r]) \in Frame
    BY <2>1, TopFacts DEF FrameOK
  <2>3. Kept
    BY <1>2, <2>2, ResumedFrame, GoBackKeeps DEF HookVetoes, Kept
  <2> QED
    BY <2>3, StillTyped, StillCounted DEF HookVetoes
<1> QED
  BY <1>1, <1>2 DEF HookVetoes

\* HookHandles keeps the invariant.
LEMMA HookHandlesKeeps == ASSUME IInv, NEW r \in Reqs, HookHandles(r) PROVE IInv'
<1> DEFINE f == Top(stack[r])
<1>1. stack[r] # <<>> /\ f.pc \in {"onError", "onNextError"}
  BY DEF HookHandles, InHook
<1>2. f \in Frame /\ f.err \in Error
  BY <1>1, TopFacts DEF FrameOK
<1>3. Counts
  BY <1>2 DEF Counts, HookHandles, IInv, Types
<1>4. CASE InHook(r, {"onError"}) /\ GoBack(r, Resumed(Caller(stack[r])))
  <2>1. Len(stack[r]) > 1 /\ Caller(stack[r]) \in Frame
    BY <1>1, <1>4, TopFacts DEF FrameOK, InHook
  <2>2. Kept
    BY <1>4, <2>1, ResumedFrame, GoBackKeeps DEF HookHandles, Kept
  <2> QED
    BY <1>3, <2>2, StillTyped DEF HookHandles
<1>5. CASE InHook(r, {"onNextError"}) /\ Go(r, Resumed(f))
  <2>1. Kept
    BY <1>1, <1>2, <1>5, ResumedFrame, GoKeeps DEF HookHandles, Kept
  <2> QED
    BY <1>3, <2>1, StillTyped DEF HookHandles
<1> QED
  BY <1>4, <1>5 DEF HookHandles

\* HookThrows keeps the invariant.
LEMMA HookThrowsKeeps == ASSUME IInv, NEW r \in Reqs, HookThrows(r) PROVE IInv'
<1>1. Types /\ UNCHANGED <<phase, hooks, errorStack, owner>>
  BY DEF IInv, HookThrows
<1>2. CASE /\ InHook(r, {"beforeNext", "create"})
           /\ \E e \in Thrown(r, "code") : FailNext(r, e)
  <2>1. PICK e \in Thrown(r, "code") : FailNext(r, e)
    BY <1>2
  <2>2. stack[r] # <<>> /\ e \in Error
    BY <1>1, <1>2, ThrownFacts DEF InHook
  <2>3. Kept /\ Counts
    BY <1>1, <2>1, <2>2, FailNextKeeps
  <2> QED
    BY <1>1, <2>3, StillTyped
<1>3. CASE /\ InHook(r, {"beforeInvoke", "afterInvoke"})
           /\ \E e \in Thrown(r, "code") : Fail(r, e)
  <2>1. PICK e \in Thrown(r, "code") : Fail(r, e)
    BY <1>3
  <2>2. stack[r] # <<>> /\ e \in Error /\ Top(stack[r]).pc \in {"beforeInvoke", "afterInvoke"}
    BY <1>1, <1>3, ThrownFacts DEF InHook
  <2>3. Len(stack[r]) > 1
    BY <2>2, TopFacts DEF FrameOK
  <2>4. Kept /\ Counts
    BY <1>1, <2>1, <2>2, <2>3, FailKeeps
  <2> QED
    BY <1>1, <2>4, StillTyped
<1> QED
  BY <1>2, <1>3 DEF HookThrows

\* ErrorHookThrows keeps the invariant.
LEMMA ErrorHookThrowsKeeps == ASSUME IInv, NEW r \in Reqs, ErrorHookThrows(r) PROVE IInv'
<1> DEFINE f == Top(stack[r])
<1>1. stack[r] # <<>> /\ f.pc \in {"onError", "onNextError"} /\ Types
  BY DEF ErrorHookThrows, InHook, IInv
<1>2. f \in Frame /\ f.err \in Error /\ (f.pc = "onError" => Len(stack[r]) > 1 /\ Caller(stack[r]) \in Frame)
  BY <1>1, TopFacts DEF FrameOK
<1>3. PICK e \in Thrown(r, "errorHook") :
        /\ IF f.pc = "onError" THEN GoBack(r, Rejected(Caller(stack[r]), e)) ELSE Go(r, Rejected(f, e))
        /\ raised' = [raised EXCEPT ![r] = @ + 1]
        /\ settled' = settled \cup {[err |-> f.err, how |-> "displaced"]}
  BY DEF ErrorHookThrows
<1>4. e \in Error
  BY <1>1, ThrownFacts
<1>5. Counts
  BY <1>1, <1>2, <1>3 DEF Counts, Types
<1>6. Kept
  <2>1. CASE f.pc = "onError"
    BY <1>2, <1>3, <1>4, <2>1, RejectedFrame, GoBackKeeps DEF ErrorHookThrows, Kept
  <2>2. CASE f.pc # "onError"
    BY <1>1, <1>2, <1>3, <1>4, <2>2, RejectedFrame, GoKeeps DEF ErrorHookThrows, Kept
  <2> QED
    BY <2>1, <2>2
<1> QED
  BY <1>5, <1>6, StillTyped DEF ErrorHookThrows

\* FinishNext keeps the invariant.
LEMMA FinishNextKeeps == ASSUME IInv, NEW r \in Reqs, FinishNext(r) PROVE IInv'
<1>1. stack[r] # <<>> /\ Top(stack[r]).pc = "afterInvoke"
  BY DEF FinishNext, Running
<1>2. Len(stack[r]) > 1 /\ Caller(stack[r]) \in Frame
  BY <1>1, TopFacts DEF FrameOK
<1>3. Kept
  BY <1>2, ResumedFrame, GoBackKeeps DEF FinishNext, Kept
<1> QED
  BY <1>3, StillTyped, StillCounted DEF FinishNext

\* InvokeNext keeps the invariant.
LEMMA InvokeNextKeeps == ASSUME IInv, NEW r \in Reqs, InvokeNext(r) PROVE IInv'
<1> DEFINE f == Top(stack[r])
           g == [f EXCEPT !.pc = "body"]
<1>1. stack[r] # <<>> /\ f \in Frame
  BY TopFacts DEF InvokeNext, Running
<1>2. g \in Frame /\ SameCall(g, f) /\ g.pc = "body"
  BY <1>1 DEF Frame, PCs, SameCall
<1>3. FrameOK(g)
  BY <1>2 DEF FrameOK
<1>4. Kept
  BY <1>1, <1>2, <1>3, GoKeeps DEF InvokeNext, Kept
<1> QED
  BY <1>4, StillTyped, StillCounted DEF InvokeNext

\* The Constructor hooks are places.
LEMMA ConstructorHooksType ==
  ASSUME Types, NEW c \in Reqs, NEW p
  PROVE  ConstructorHooks(c, p) \in Seq(Places)
<1>1. HooksOf(c, "Constructor") \in Seq(Places) /\ <<>> \in Seq(Places)
  BY DEF Types, HooksOf, HookTypes
<1> QED
  BY <1>1 DEF ConstructorHooks

\* AfterBeforeNext keeps the invariant.
LEMMA AfterBeforeNextKeeps == ASSUME IInv, NEW r \in Reqs, AfterBeforeNext(r) PROVE IInv'
<1> DEFINE f == Top(stack[r])
           this == This(r, f)
           q == ConstructorHooks(this.ctx, Successor(this.at))
           g == [f EXCEPT !.pc = "create", !.q = q]
<1>1. /\ stack[r] # <<>> /\ f \in Frame /\ this.ctx \in Reqs /\ this.at \in Places
      /\ this.at = ThisAt(stack[r], Len(stack[r]))
  BY TopFacts DEF AfterBeforeNext, Running
<1>2. CASE ~HasNext(r, f) /\ Go(r, Resumed(f))
  <2>1. Kept
    BY <1>1, <1>2, ResumedFrame, GoKeeps DEF AfterBeforeNext, Kept
  <2> QED
    BY <2>1, StillTyped, StillCounted DEF AfterBeforeNext
<1>3. CASE HasNext(r, f) /\ Go(r, g)
  <2>1. Successor(this.at) \in Places
    BY <1>1, <1>3, PlaceType, PlaceIntro DEF HasNext, Successor
  <2>2. q \in Seq(Places)
    BY <1>1, ConstructorHooksType DEF IInv
  <2> HIDE DEF q
  <2>3. g \in Frame /\ SameCall(g, f) /\ g.pc = "create"
    BY <1>1, <2>2 DEF Frame, PCs, SameCall
  <2>4. FrameOK(g)
    BY <2>3 DEF FrameOK
  <2>5. Kept
    <3> HIDE DEF g, this
    <3> QED
      BY <1>1, <1>3, <2>1, <2>3, <2>4, GoKeeps DEF AfterBeforeNext, Kept
  <2> QED
    BY <2>5, StillTyped, StillCounted DEF AfterBeforeNext
<1> QED
  BY <1>2, <1>3 DEF AfterBeforeNext

\* CreateFails keeps the invariant.
LEMMA CreateFailsKeeps == ASSUME IInv, NEW r \in Reqs, CreateFails(r) PROVE IInv'
<1>1. PICK e \in Thrown(r, "code") : FailNext(r, e)
  BY DEF CreateFails
<1>2. stack[r] # <<>> /\ e \in Error
  BY ThrownFacts DEF CreateFails, Running, IInv
<1>3. Kept /\ Counts
  BY <1>1, <1>2, FailNextKeeps DEF CreateFails
<1> QED
  BY <1>3, StillTyped DEF CreateFails

\* CatchError keeps the invariant.
LEMMA CatchErrorKeeps == ASSUME IInv, NEW r \in Reqs, CatchError(r) PROVE IInv'
<1> DEFINE f == Top(stack[r])
           c == IF f.pc = "onError" THEN Caller(stack[r]) ELSE f
<1>1. stack[r] # <<>> /\ f.pc \in {"onError", "onNextError"}
  BY DEF CatchError, Running
<1>2. f \in Frame /\ f.err \in Error /\ This(r, f).ctx \in Reqs
  BY <1>1, TopFacts DEF FrameOK
<1>3. f.pc = "onError" => Len(stack[r]) > 1 /\ Caller(stack[r]) \in Frame /\ This(r, Caller(stack[r])).ctx \in Reqs
  BY <1>1, TopFacts DEF FrameOK
<1>4. This(r, c).ctx \in Reqs /\ errorStack' = [errorStack EXCEPT ![This(r, c).ctx] = Append(@, f.err)]
  BY <1>2, <1>3 DEF CatchError
<1>5. errorStack' \in [Reqs -> Seq(Error)]
  <2>1. errorStack \in [Reqs -> Seq(Error)]
    BY DEF IInv, Types
  <2>2. Append(errorStack[This(r, c).ctx], f.err) \in Seq(Error)
    BY <1>2, <1>4, <2>1
  <2> QED
    BY <1>4, <2>1, <2>2
<1>6. Kept
  <2>1. CASE f.pc = "onError"
    BY <1>3, <2>1, ResumedFrame, GoBackKeeps DEF CatchError, Kept
  <2>2. CASE f.pc # "onError"
    BY <1>1, <1>2, <2>2, ResumedFrame, GoKeeps DEF CatchError, Kept
  <2> QED
    BY <2>1, <2>2
<1>7. Counts
  BY StillCounted DEF CatchError
<1> QED
  BY <1>5, <1>6, <1>7 DEF IInv, Types, Kept, Counts, CatchError

\* ReturnFromInvoke keeps the invariant.
LEMMA ReturnFromInvokeKeeps == ASSUME IInv, NEW r \in Reqs, ReturnFromInvoke(r) PROVE IInv'
<1> DEFINE f == Top(stack[r])
           c == Caller(stack[r])
           q == HooksOf(This(r, c).ctx, "AfterInvoke")
           g == [f EXCEPT !.pc = "afterInvoke", !.q = q]
           b == [c EXCEPT !.pc = "body"]
<1>1. /\ stack[r] # <<>> /\ Len(stack[r]) > 1 /\ f \in Frame /\ Inner(f)
      /\ c \in Frame /\ This(r, c).ctx \in Reqs
  BY TopFacts DEF ReturnFromInvoke, Running
<1>2. q \in Seq(Places)
  BY <1>1 DEF IInv, Types, HooksOf, HookTypes
<1> HIDE DEF q
<1>3. CASE GoBack(r, b)
  <2>1. b \in Frame /\ SameCall(b, c) /\ b.pc = "body"
    BY <1>1 DEF Frame, PCs, SameCall
  <2>2. FrameOK(b)
    BY <2>1 DEF FrameOK
  <2> HIDE DEF b
  <2>3. Kept
    BY <1>1, <1>3, <2>1, <2>2, GoBackKeeps DEF ReturnFromInvoke, Kept
  <2> QED
    BY <2>3, StillTyped, StillCounted DEF ReturnFromInvoke
<1>4. CASE Go(r, g)
  <2>1. g \in Frame /\ SameCall(g, f) /\ g.pc = "afterInvoke"
    BY <1>1, <1>2 DEF Frame, PCs, SameCall
  <2>2. FrameOK(g)
    BY <1>1, <2>1 DEF FrameOK, Inner, SameCall
  <2> HIDE DEF g
  <2>3. Kept
    BY <1>1, <1>4, <2>1, <2>2, GoKeeps DEF ReturnFromInvoke, Kept
  <2> QED
    BY <2>3, StillTyped, StillCounted DEF ReturnFromInvoke
<1> QED
  BY <1>3, <1>4 DEF ReturnFromInvoke, q

\* EnterCompose keeps the invariant.
LEMMA EnterComposeKeeps == ASSUME IInv, NEW r \in Reqs, EnterCompose(r) PROVE IInv'
<1> DEFINE f == Top(stack[r])
           q == ConstructorHooks(Self(f).ctx, <<ListOf(f.at), 1>>)
           g == [f EXCEPT !.pc = "compose", !.ctx = Self(f).ctx, !.q = q]
<1>1. stack[r] # <<>> /\ f \in Frame /\ Role(f.at) = "compose" /\ This(r, f).ctx \in Reqs
  BY TopFacts DEF EnterCompose, InBody, Running
<1>2. Self(f).ctx \in Reqs
  BY <1>1 DEF This
<1>3. q \in Seq(Places)
  BY <1>2, ConstructorHooksType DEF IInv
<1> HIDE DEF q
<1>4. g \in Frame /\ SameCall(g, f) /\ g.pc = "compose" /\ g.at = f.at
  BY <1>1, <1>2, <1>3 DEF Frame, PCs, SameCall
<1>5. FrameOK(g)
  BY <1>1, <1>4 DEF FrameOK
<1>6. Go(r, g)
  BY DEF EnterCompose, q
<1> HIDE DEF g
<1>7. Kept
  BY <1>1, <1>4, <1>5, <1>6, GoKeeps DEF EnterCompose, Kept
<1> QED
  BY <1>7, StillTyped, StillCounted DEF EnterCompose

\* next() of the running call begins, on the hooks registered so far.
LEMMA StartNextKeeps ==
  ASSUME IInv, NEW r \in Reqs, stack[r] # <<>>, NEW hs \in [Reqs -> [HookTypes -> Seq(Places)]],
         StartNext(r, hs), UNCHANGED <<phase, owner>>
  PROVE  Kept
<1> DEFINE f == Top(stack[r])
           q == hs[This(r, f).ctx]["BeforeNext"]
           g == [f EXCEPT !.pc = "beforeNext", !.calls = @ + 1, !.q = q]
<1>1. f \in Frame /\ This(r, f).ctx \in Reqs
  BY TopFacts
<1>2. q \in Seq(Places)
  BY <1>1 DEF HookTypes
<1>3. Go(r, g)
  BY DEF StartNext
<1> DEFINE n == f.calls + 1
<1>6. n \in Nat
  BY <1>1 DEF Frame
<1> HIDE DEF q, n
<1>7. g = [f EXCEPT !.pc = "beforeNext", !.calls = n, !.q = q]
  BY DEF n
<1> HIDE DEF g
<1>4. g \in Frame /\ SameCall(g, f) /\ g.pc = "beforeNext"
  BY <1>1, <1>2, <1>6, <1>7 DEF Frame, PCs, SameCall
<1>5. FrameOK(g)
  BY <1>4 DEF FrameOK
<1> QED
  BY <1>1, <1>3, <1>4, <1>5, GoKeeps DEF Kept

\* CallNext keeps the invariant.
LEMMA CallNextKeeps == ASSUME IInv, NEW r \in Reqs, CallNext(r) PROVE IInv'
<1>1. stack[r] # <<>> /\ hooks \in [Reqs -> [HookTypes -> Seq(Places)]]
  BY DEF CallNext, InBody, Running, IInv, Types
<1>2. Kept
  BY <1>1, StartNextKeeps DEF CallNext
<1> QED
  BY <1>2, StillTyped, StillCounted DEF CallNext

\* RegisterHook keeps the invariant.
LEMMA RegisterHookKeeps == ASSUME IInv, NEW r \in Reqs, RegisterHook(r) PROVE IInv'
<1> DEFINE f == Top(stack[r])
           c == This(r, f).ctx
           t == ItemAt(f.at).arg
<1>1. stack[r] # <<>> /\ Role(f.at) = "hook"
  BY DEF RegisterHook, InBody, Running
<1>2. f.at \in Places /\ c \in Reqs
  BY <1>1, TopFacts
<1>3. t \in HookTypes
  BY <1>1, <1>2, ItemFacts DEF Role
<1>4. hooks \in [Reqs -> [HookTypes -> Seq(Places)]]
  BY DEF IInv, Types
<1>5. hooks' = [hooks EXCEPT ![c][t] = Append(@, f.at)]
  BY DEF RegisterHook
<1> HIDE DEF c, t
<1>6. hooks' \in [Reqs -> [HookTypes -> Seq(Places)]]
  <2>1. Append(hooks[c][t], f.at) \in Seq(Places)
    BY <1>2, <1>3, <1>4
  <2> QED
    BY <1>2, <1>3, <1>4, <1>5, <2>1
<1>7. Kept
  BY <1>1, <1>6, StartNextKeeps DEF RegisterHook
<1>8. Counts
  BY StillCounted DEF RegisterHook
<1> QED
  BY <1>6, <1>7, <1>8 DEF IInv, Types, Kept, Counts, RegisterHook

\* ThrowInInvoke keeps the invariant.
LEMMA ThrowInInvokeKeeps == ASSUME IInv, NEW r \in Reqs, ThrowInInvoke(r) PROVE IInv'
<1>1. PICK e \in Thrown(r, "code") : Fail(r, e)
  BY DEF ThrowInInvoke
<1>2. stack[r] # <<>> /\ Role(Top(stack[r]).at) \in {"user", "compose"}
  BY DEF ThrowInInvoke, InBody, Running
<1>3. Len(stack[r]) > 1 /\ e \in Error
  BY <1>2, TopFacts, ThrownFacts DEF IInv, Role, Inner
<1>4. Kept /\ Counts
  BY <1>1, <1>3, FailKeeps DEF ThrowInInvoke
<1> QED
  BY <1>4, StillTyped DEF ThrowInInvoke

\* Propagate keeps the invariant.
LEMMA PropagateKeeps == ASSUME IInv, NEW r \in Reqs, Propagate(r) PROVE IInv'
<1>1. stack[r] # <<>> /\ Top(stack[r]).pc = "rejected" /\ Len(stack[r]) > 1
  BY DEF Propagate, Running
<1>2. Top(stack[r]).err \in Error
  BY <1>1, TopFacts DEF FrameOK
<1>3. Kept /\ Counts
  BY <1>1, <1>2, FailKeeps DEF Propagate
<1> QED
  BY <1>3, StillTyped DEF Propagate

\* Swallow keeps the invariant.
LEMMA SwallowKeeps == ASSUME IInv, NEW r \in Reqs, Swallow(r) PROVE IInv'
<1> DEFINE f == Top(stack[r])
           g == [f EXCEPT !.pc = "body", !.err = None]
<1>1. stack[r] # <<>> /\ f \in Frame /\ f.err \in Error
  BY TopFacts DEF Swallow, Running, FrameOK
<1>2. g \in Frame /\ SameCall(g, f) /\ g.pc = "body"
  BY <1>1 DEF Frame, PCs, SameCall
<1>3. FrameOK(g)
  BY <1>2 DEF FrameOK
<1>4. Go(r, g)
  BY DEF Swallow
<1>5. Counts
  BY <1>1 DEF Swallow, Counts, IInv, Types
<1> HIDE DEF f, g
<1>6. Kept
  BY <1>1, <1>2, <1>3, <1>4, GoKeeps DEF Swallow, Kept, f
<1> QED
  BY <1>5, <1>6, StillTyped DEF Swallow

\* The running call of r goes on as f and makes another one, g; an instance
\* that g runs gets the context of the call.
LEMMA CallKeeps ==
  ASSUME IInv, NEW r \in Reqs, stack[r] # <<>>,
         NEW f \in Frame, SameCall(f, Top(stack[r])), FrameOK(f), f.pc # "create",
         NEW g \in Frame, Inner(g), g.pc \in {"body", "beforeInvoke"},
         g.at[1] = Main[r] \/ (g.home \in 2 .. Len(stack[r]) /\ Role(SetTop(stack[r], f)[g.home].at) = "compose"),
         stack' = [stack EXCEPT ![r] = Append(SetTop(stack[r], f), g)],
         owner' = IF Shared(g.at) THEN [owner EXCEPT ![g.at] = g.ctx] ELSE owner,
         UNCHANGED <<phase, hooks, errorStack, raised, settled>>
  PROVE  IInv'
<1> DEFINE s == SetTop(stack[r], f)
           t == Append(s, g)
<1>1. Types /\ Phases /\ stack[r] \in Seq(Frame) /\ \A q \in Reqs : Chained(q, stack[q], owner)
  BY DEF IInv, Types
<1>2. g.at \in Places /\ g.ctx \in Reqs
  BY DEF Frame
<1>3. owner' \in [{p \in Places : Shared(p)} -> Reqs \cup {None}]
  BY <1>1, <1>2 DEF Types
<1>4. \A p \in Places : Shared(p) /\ owner[p] \in Reqs => owner'[p] \in Reqs
  BY <1>1, <1>2 DEF Types
<1>5. Shared(g.at) => owner'[g.at] \in Reqs
  BY <1>1, <1>2 DEF Types
<1>6. \A q \in Reqs : stack[q] \in Seq(Frame) /\ Chained(q, stack[q], owner')
  BY <1>1, <1>4, OwnerChained DEF Types
<1>7. s \in Seq(Frame) /\ Len(s) = Len(stack[r]) /\ Chained(r, s, owner')
  BY <1>1, <1>6, SetTopChained
<1>8. s # <<>>
  <2>1. Len(s) # 0
    BY <1>1, <1>7
  <2> QED
    BY <2>1
<1>9. FrameOK(g)
  BY DEF FrameOK
<1>10. stack' = [stack EXCEPT ![r] = t]
  OBVIOUS
<1>11. g.at[1] = Main[r] \/ (g.home \in 2 .. Len(s) /\ Role(s[g.home].at) = "compose")
  BY <1>7
<1> HIDE DEF s
<1>12. t \in Seq(Frame) /\ t # <<>> /\ Chained(r, t, owner')
  BY <1>5, <1>7, <1>8, <1>9, <1>11, PushChained
<1> HIDE DEF t
<1>13. stack' \in [Reqs -> Seq(Frame)] /\ stack'[r] = t /\ \A q \in Reqs \ {r} : stack'[q] = stack[q]
  BY <1>1, <1>10, <1>12 DEF Types
<1>14. \A q \in Reqs : Chained(q, stack'[q], owner')
  BY <1>6, <1>12, <1>13
<1>15. Phases'
  BY <1>1, <1>12, <1>13 DEF Phases
<1>16. Types'
  BY <1>1, <1>3, <1>13 DEF Types
<1> QED
  BY <1>14, <1>15, <1>16 DEF IInv

\* A new frame is a frame.
LEMMA NewFrameType ==
  ASSUME NEW at \in Places, NEW ctx \in Reqs, NEW home \in Nat, NEW pc \in PCs, NEW q \in Seq(Places)
  PROVE  LET g == NewFrame(at, ctx, home, pc, q)
         IN g \in Frame /\ g.at = at /\ g.ctx = ctx /\ g.home = home /\ g.pc = pc
BY DEF NewFrame, Frame

\* InitNext keeps the invariant.
LEMMA InitNextKeeps == ASSUME IInv, NEW r \in Reqs, InitNext(r) PROVE IInv'
<1> DEFINE s == stack[r]
           f == Top(s)
           f2 == [f EXCEPT !.pc = "calling"]
           this == This(r, f)
           p == Successor(this.at)
           q == HooksOf(this.ctx, "BeforeInvoke")
           g == NewFrame(p, this.ctx, this.home, "beforeInvoke", q)
<1>1. s # <<>> /\ f.pc = "create"
  BY DEF InitNext, Running
<1>2. /\ s \in Seq(Frame) /\ Len(s) \in Nat \ {0} /\ f = s[Len(s)] /\ f \in Frame
      /\ this.ctx \in Reqs /\ this.home \in Nat /\ this.at \in Places /\ this.at = ThisAt(s, Len(s))
      /\ Types /\ Chained(r, s, owner)
  BY <1>1, TopFacts DEF IInv
<1>3. p \in Places /\ p[1] = this.at[1] /\ p[2] # 0
  <2>1. p \in Places
    BY <1>1, <1>2 DEF Chained
  <2>2. this.at[2] \in Nat
    BY <1>2, PlaceType
  <2> QED
    BY <2>1, <2>2 DEF Successor
<1>4. q \in Seq(Places)
  BY <1>2 DEF Types, HooksOf, HookTypes
<1>5. this.at[1] = Main[r] \/ (this.home \in 2 .. Len(s) - 1 /\ Role(s[this.home].at) = "compose")
  BY <1>2, ThisFacts DEF SameCall
<1>6. g \in Frame /\ g.at = p /\ g.ctx = this.ctx /\ g.home = this.home /\ g.pc = "beforeInvoke"
  <2> HIDE DEF p, q, this
  <2> QED
    BY <1>2, <1>3, <1>4, NewFrameType, SMTT(30) DEF PCs
<1>7. f2 \in Frame /\ SameCall(f2, f) /\ f2.pc = "calling"
  BY <1>2 DEF Frame, PCs, SameCall
<1>8. FrameOK(f2)
  BY <1>7 DEF FrameOK
<1>9. g.at[1] = Main[r] \/ (g.home \in 2 .. Len(s) /\ Role(SetTop(s, f2)[g.home].at) = "compose")
  <2>1. CASE this.at[1] = Main[r]
    BY <1>3, <1>6, <2>1
  <2>2. CASE this.home \in 2 .. Len(s) - 1 /\ Role(s[this.home].at) = "compose"
    <3>1. SetTop(s, f2)[this.home] = s[this.home] /\ this.home \in 2 .. Len(s)
      BY <1>2, <2>2 DEF SetTop
    <3> QED
      BY <1>6, <2>2, <3>1
  <2> QED
    BY <1>5, <2>1, <2>2
<1>10. /\ stack' = [stack EXCEPT ![r] = Append(SetTop(s, f2), g)]
       /\ owner' = IF Shared(g.at) THEN [owner EXCEPT ![g.at] = g.ctx] ELSE owner
  <2>1. /\ stack' = [stack EXCEPT ![r] = Append(SetTop(s, f2), g)]
        /\ owner' = IF Shared(p) THEN [owner EXCEPT ![p] = this.ctx] ELSE owner
    BY DEF InitNext
  <2> QED
    BY <1>6, <2>1
<1>11. Inner(g) /\ f2.pc # "create"
  BY <1>3, <1>6, <1>7 DEF Inner
<1>12. UNCHANGED <<phase, hooks, errorStack, raised, settled>>
  BY DEF InitNext
<1> HIDE DEF s, f, f2, g, p, q, this
<1> QED
  BY <1>1, <1>6, <1>7, <1>8, <1>9, <1>10, <1>11, <1>12, CallKeeps DEF s, f

\* InvokeFirst keeps the invariant.
LEMMA InvokeFirstKeeps == ASSUME IInv, NEW r \in Reqs, InvokeFirst(r) PROVE IInv'
<1> DEFINE s == stack[r]
           f == Top(s)
           f2 == [f EXCEPT !.pc = "calling", !.calls = 1]
           p == <<ListOf(f.at), 1>>
           none == <<>>
           g == NewFrame(p, f.ctx, Len(s), "body", none)
<1>1. s # <<>> /\ f.pc = "compose"
  BY DEF InvokeFirst, Running
<1>2. /\ s \in Seq(Frame) /\ Len(s) \in Nat \ {0} /\ f = s[Len(s)] /\ f \in Frame /\ FrameOK(f)
      /\ (Inner(f) <=> Len(s) > 1) /\ f.at \in Places /\ f.ctx \in Reqs
      /\ Types /\ Chained(r, s, owner)
  BY <1>1, TopFacts DEF IInv, Frame
<1>3. Role(f.at) \in {"startup", "compose"}
  BY <1>1, <1>2 DEF FrameOK
<1>4. Role(f.at) = "startup" => Len(s) = 1 /\ f.at = <<Main[r], 0>> /\ mds[Main[r]] # <<>>
  <2>1. SUFFICES ASSUME Role(f.at) = "startup"
                 PROVE  Len(s) = 1 /\ f.at = <<Main[r], 0>> /\ mds[Main[r]] # <<>>
    OBVIOUS
  <2>2. CASE Inner(f)
    <3>1. ItemAt(f.at) \in Item /\ ItemAt(f.at).role = "startup"
      BY <1>2, <2>1, <2>2, ItemFacts DEF Role, Inner
    <3> QED
      BY <3>1 DEF Item
  <2>3. CASE ~Inner(f)
    <3> HIDE DEF f, s
    <3>0. Len(s) \in Nat \ {0} /\ ~(Len(s) > 1) /\ f = s[Len(s)]
      BY <1>2, <2>3
    <3>1. Len(s) = 1
      BY <3>0
    <3>2. 1 \in 1 .. Len(s) /\ f = s[1]
      BY <3>0, <3>1
    <3> QED
      BY <1>2, <3>1, <3>2 DEF Chained
  <2> QED
    BY <2>2, <2>3
<1>5. p \in Places /\ (Role(f.at) = "startup" => p[1] = Main[r])
  <2>1. Role(f.at) = "startup" => mds[f.at[1]] # <<>>
    BY <1>4
  <2> QED
    BY <1>2, <1>3, <1>4, <2>1, FirstPlace
<1>6. g \in Frame /\ g.at = p /\ g.ctx = f.ctx /\ g.home = Len(s) /\ g.pc = "body"
  <2>1. none \in Seq(Places)
    OBVIOUS
  <2>2. Len(s) \in Nat /\ "body" \in PCs
    BY <1>2 DEF PCs
  <2> HIDE DEF p, f, s, none
  <2> QED
    BY <1>2, <1>5, <2>1, <2>2, NewFrameType
<1>7. f2 \in Frame /\ SameCall(f2, f) /\ f2.pc = "calling"
  BY <1>2 DEF Frame, PCs, SameCall
<1>8. FrameOK(f2)
  BY <1>7 DEF FrameOK
<1>9. g.at[1] = Main[r] \/ (g.home \in 2 .. Len(s) /\ Role(SetTop(s, f2)[g.home].at) = "compose")
  <2>1. CASE Role(f.at) = "startup"
    BY <1>5, <1>6, <2>1
  <2>2. CASE Role(f.at) = "compose"
    <3>1. Len(s) > 1
      BY <1>2, <2>2 DEF Role, Inner
    <3>2. SetTop(s, f2)[Len(s)] = f2 /\ f2.at = f.at
      BY <1>2, <1>7 DEF SetTop, SameCall
    <3>3. g.home \in 2 .. Len(s) /\ Role(f2.at) = "compose"
      BY <1>2, <1>6, <2>2, <3>1, <3>2
    <3> HIDE DEF f, f2, g, s
    <3> QED
      BY <1>6, <3>2, <3>3
  <2> QED
    BY <1>3, <2>1, <2>2
<1>10. /\ stack' = [stack EXCEPT ![r] = Append(SetTop(s, f2), g)]
       /\ owner' = IF Shared(g.at) THEN [owner EXCEPT ![g.at] = g.ctx] ELSE owner
  <2>1. /\ stack' = [stack EXCEPT ![r] = Append(SetTop(s, f2), g)]
        /\ owner' = IF Shared(p) THEN [owner EXCEPT ![p] = f.ctx] ELSE owner
    BY DEF InvokeFirst
  <2> QED
    BY <1>6, <2>1
<1>11. Inner(g) /\ f2.pc # "create"
  BY <1>6, <1>7 DEF Inner
<1>12. UNCHANGED <<phase, hooks, errorStack, raised, settled>>
  BY DEF InvokeFirst
<1> HIDE DEF s, f, f2, g, p
<1> QED
  BY <1>1, <1>6, <1>7, <1>8, <1>9, <1>10, <1>11, <1>12, CallKeeps DEF s, f

\* FirstFails keeps the invariant.
LEMMA FirstFailsKeeps == ASSUME IInv, NEW r \in Reqs, FirstFails(r) PROVE IInv'
<1> DEFINE f == Top(stack[r])
<1>1. PICK e \in Thrown(r, "code") : Go(r, Rejected(f, e)) /\ Keep(r, e)
  BY DEF FirstFails
<1>2. stack[r] # <<>> /\ f \in Frame /\ e \in Error /\ e.n \in Nat /\ Types
  BY TopFacts, ThrownFacts DEF FirstFails, Running, IInv, Error
<1>3. Kept
  BY <1>1, <1>2, RejectedFrame, GoKeeps DEF FirstFails, Kept
<1>4. Counts
  BY <1>1, <1>2 DEF Counts, Keep, Counted, Types
<1> QED
  BY <1>3, <1>4, StillTyped DEF FirstFails

\* Startup.invoke returns: r has no pending call left.
LEMMA DoneKeeps ==
  ASSUME IInv, NEW r \in Reqs, stack' = [stack EXCEPT ![r] = <<>>],
         phase' = [phase EXCEPT ![r] = "done"], UNCHANGED owner
  PROVE  Kept
<1>1. <<>> \in Seq(Frame) /\ Chained(r, <<>>, owner)
  BY DEF Chained
<1>2. stack' \in [Reqs -> Seq(Frame)] /\ stack'[r] = <<>> /\ \A q \in Reqs \ {r} : stack'[q] = stack[q]
  BY <1>1 DEF IInv, Types
<1>3. \A q \in Reqs : Chained(q, stack'[q], owner')
  BY <1>1, <1>2 DEF IInv
<1>4. Phases'
  BY <1>2 DEF IInv, Phases
<1> QED
  BY <1>2, <1>3, <1>4 DEF Kept

\* Answer keeps the invariant.
LEMMA AnswerKeeps == ASSUME IInv, NEW r \in Reqs, Answer(r) PROVE IInv'
BY DoneKeeps, StillTyped, StillCounted DEF Answer

\* CatchAndAnswer keeps the invariant.
LEMMA CatchAndAnswerKeeps == ASSUME IInv, NEW r \in Reqs, CatchAndAnswer(r) PROVE IInv'
<1>1. stack[r] # <<>> /\ Top(stack[r]).err \in Error
  BY TopFacts DEF CatchAndAnswer, Running, FrameOK
<1>2. errorStack \in [Reqs -> Seq(Error)]
  BY DEF IInv, Types
<1>3. Append(errorStack[r], Top(stack[r]).err) \in Seq(Error)
  BY <1>1, <1>2
<1>4. errorStack' \in [Reqs -> Seq(Error)]
  BY <1>2, <1>3 DEF CatchAndAnswer
<1>5. Kept /\ Counts
  BY DoneKeeps, StillCounted DEF CatchAndAnswer
<1> QED
  BY <1>4, <1>5 DEF IInv, Types, Kept, Counts, CatchAndAnswer

\* Begin keeps the invariant.
LEMMA BeginKeeps == ASSUME IInv, NEW r \in Reqs, Begin(r) PROVE IInv'
<1>1. stack[r] = <<>> /\ Types /\ Phases /\ \A q \in Reqs : Chained(q, stack[q], owner)
  BY DEF Begin, IInv, Phases
<1>2. CASE phase' = [phase EXCEPT ![r] = "done"] /\ UNCHANGED stack
  BY <1>1, <1>2 DEF Begin, IInv, Types, Phases
<1>3. CASE /\ mds[Main[r]] # <<>>
           /\ phase' = [phase EXCEPT ![r] = "open"]
           /\ stack' = [stack EXCEPT ![r] = <<NewFrame(<<Main[r], 0>>, r, 0, "compose", <<>>)>>]
  <2> DEFINE p == <<Main[r], 0>>
             none == <<>>
             g == NewFrame(p, r, 0, "compose", none)
             t == <<g>>
  <2>1. p \in Places /\ Role(p) = "startup" /\ ~Shared(p)
    BY PlaceIntro, ListsAssumption DEF Role, Shared
  <2>2. g \in Frame /\ g.at = p /\ g.pc = "compose"
    <3>1. none \in Seq(Places) /\ "compose" \in PCs
      BY DEF PCs
    <3> HIDE DEF p, none
    <3> QED
      BY <2>1, <3>1, NewFrameType
  <2>3. t \in Seq(Frame) /\ Len(t) = 1 /\ t[1] = g /\ t # <<>>
    <3> HIDE DEF g
    <3> QED
      BY <2>2
  <2> HIDE DEF t
  <2>4. Chained(r, t, owner)
    BY <1>3, <2>1, <2>2, <2>3 DEF Chained, FrameOK, Inner
  <2>5. stack' = [stack EXCEPT ![r] = t]
    BY <1>3 DEF t
  <2> HIDE DEF g, p
  <2>6. stack' \in [Reqs -> Seq(Frame)] /\ stack'[r] = t /\ \A q \in Reqs \ {r} : stack'[q] = stack[q]
    BY <1>1, <2>3, <2>5 DEF Types
  <2>7. \A q \in Reqs : Chained(q, stack'[q], owner')
    BY <1>1, <2>4, <2>6 DEF Begin
  <2>8. Phases'
    BY <1>1, <1>3, <2>3, <2>6 DEF Phases
  <2> QED
    BY <1>1, <2>6, <2>7, <2>8 DEF Begin, IInv, Types
<1> QED
  BY <1>2, <1>3 DEF Begin

\* The initial state satisfies the invariant.
LEMMA InitHolds == Init => IInv
<1> SUFFICES ASSUME Init PROVE IInv
  OBVIOUS
<1>1. <<>> \in Seq(Frame) /\ <<>> \in Seq(Places) /\ <<>> \in Seq(Error)
  OBVIOUS
<1>2. Types
  BY <1>1 DEF Init, Types
<1>3. Phases
  BY DEF Init, Phases
<1>4. \A r \in Reqs : Chained(r, stack[r], owner)
  BY DEF Init, Chained
<1> QED
  BY <1>2, <1>3, <1>4 DEF IInv

\* Every step keeps the invariant.
LEMMA StepKeeps == IInv /\ [Next]_vars => IInv'
<1> SUFFICES ASSUME IInv, [Next]_vars PROVE IInv'
  OBVIOUS
<1>1. CASE UNCHANGED vars
  BY <1>1 DEF vars, IInv, Types, Phases
<1>2. ASSUME NEW r \in Reqs, Begin(r) PROVE IInv'
  BY <1>2, BeginKeeps
<1>3. ASSUME NEW r \in Reqs, Serve(r) PROVE IInv'
  BY <1>3, InvokeFirstKeeps, FirstFailsKeeps, AnswerKeeps, CatchAndAnswerKeeps, CallNextKeeps,
     RegisterHookKeeps, EnterComposeKeeps, ReturnFromInvokeKeeps, ThrowInInvokeKeeps,
     PropagateKeeps, SwallowKeeps, AfterBeforeNextKeeps, InitNextKeeps, CreateFailsKeeps,
     InvokeNextKeeps, FinishNextKeeps, CatchErrorKeeps, HookPassesKeeps, HookEndsLoopKeeps,
     HookVetoesKeeps, HookHandlesKeeps, HookThrowsKeeps, ErrorHookThrowsKeeps DEF Serve
<1> QED
  BY <1>1, <1>2, <1>3 DEF Next

\* TypeOK holds of every chain of middlewares, with the strengthening that says
\* how pending calls are stacked: Startup.invoke below, every tail above the
\* ComposeMiddleware whose next() it calls, an instance with a context.
THEOREM TypeCorrect == Spec => []TypeOK
<1>1. IInv => TypeOK
  BY DEF IInv, Types, Phases, TypeOK
<1> QED
  BY <1>1, InitHolds, StepKeeps, PTL DEF Spec

-----------------------------------------------------------------------------
(* The pending calls after a step *)

\* The running call of r went on as f.
LEMMA AfterGo ==
  ASSUME IInv, IInv', NEW r \in Reqs, stack[r] # <<>>, NEW f, Go(r, f)
  PROVE  LET s == stack[r]
             t == stack'[r]
         IN /\ t \in Seq(Frame) /\ t # <<>> /\ Len(t) = Len(s) /\ Len(s) \in Nat \ {0}
            /\ t[Len(s)] = f /\ Top(t) = f
            /\ \A k \in 1 .. Len(s) - 1 : t[k] = s[k]
            /\ \A q \in Reqs \ {r} : stack'[q] = stack[q]
<1> DEFINE s == stack[r]
           t == stack'[r]
<1>1. s \in Seq(Frame) /\ Len(s) \in Nat \ {0} /\ t \in Seq(Frame)
  BY TopFacts DEF IInv, Types
<1>2. t = [s EXCEPT ![Len(s)] = f] /\ \A q \in Reqs \ {r} : stack'[q] = stack[q]
  BY DEF Go, SetTop, IInv, Types
<1>3. Len(t) = Len(s) /\ t[Len(s)] = f /\ \A k \in 1 .. Len(s) - 1 : t[k] = s[k]
  BY <1>1, <1>2
<1>4. t # <<>>
  BY <1>1, <1>3
<1> QED
  BY <1>1, <1>2, <1>3, <1>4 DEF Top

\* The running call of r ended and its caller went on as f.
LEMMA AfterGoBack ==
  ASSUME IInv, IInv', NEW r \in Reqs, Len(stack[r]) > 1, NEW f, GoBack(r, f)
  PROVE  LET s == stack[r]
             t == stack'[r]
         IN /\ t \in Seq(Frame) /\ t # <<>> /\ Len(t) = Len(s) - 1 /\ Len(s) \in Nat \ {0, 1}
            /\ t[Len(s) - 1] = f /\ Top(t) = f
            /\ \A k \in 1 .. Len(s) - 2 : t[k] = s[k]
            /\ \A q \in Reqs \ {r} : stack'[q] = stack[q]
<1> DEFINE s == stack[r]
           t == stack'[r]
<1>1. s \in Seq(Frame) /\ Len(s) \in Nat /\ t \in Seq(Frame)
  BY DEF IInv, Types
<1>2. t = [k \in 1 .. Len(s) - 1 |-> IF k = Len(s) - 1 THEN f ELSE s[k]]
      /\ \A q \in Reqs \ {r} : stack'[q] = stack[q]
  BY DEF GoBack, Return, IInv, Types
<1>3. Len(t) = Len(s) - 1 /\ t[Len(s) - 1] = f /\ \A k \in 1 .. Len(s) - 2 : t[k] = s[k]
  BY <1>1, <1>2
<1>4. t # <<>>
  BY <1>1, <1>3
<1> QED
  BY <1>1, <1>2, <1>3, <1>4 DEF Top

GoAndCall(r, f, g) == stack' = [stack EXCEPT ![r] = Append(SetTop(stack[r], f), g)]

\* The running call of r went on as f and called g.
LEMMA AfterCall ==
  ASSUME IInv, IInv', NEW r \in Reqs, stack[r] # <<>>, NEW f, NEW g, GoAndCall(r, f, g)
  PROVE  LET s == stack[r]
             t == stack'[r]
         IN /\ t \in Seq(Frame) /\ t # <<>> /\ Len(t) = Len(s) + 1 /\ Len(s) \in Nat \ {0}
            /\ t[Len(s)] = f /\ t[Len(s) + 1] = g /\ Top(t) = g
            /\ \A k \in 1 .. Len(s) - 1 : t[k] = s[k]
            /\ \A q \in Reqs \ {r} : stack'[q] = stack[q]
<1> DEFINE s == stack[r]
           u == SetTop(s, f)
           t == stack'[r]
<1>1. s \in Seq(Frame) /\ Len(s) \in Nat \ {0} /\ t \in Seq(Frame)
  BY TopFacts DEF IInv, Types
<1>2. t = Append(u, g) /\ \A q \in Reqs \ {r} : stack'[q] = stack[q]
  BY DEF GoAndCall, IInv, Types
<1>3. u \in Seq(Frame \cup {f, g}) /\ Len(u) = Len(s) /\ u[Len(s)] = f /\ \A k \in 1 .. Len(s) - 1 : u[k] = s[k]
  BY <1>1 DEF SetTop
<1> HIDE DEF u
<1>4. Len(t) = Len(s) + 1 /\ t[Len(s) + 1] = g /\ \A k \in 1 .. Len(s) : t[k] = u[k]
  <2>1. Len(t) = Len(u) + 1 /\ \A k \in 1 .. Len(u) + 1 : t[k] = IF k = Len(u) + 1 THEN g ELSE u[k]
    BY <1>2, <1>3
  <2> QED
    BY <1>1, <1>3, <2>1
<1>5. t # <<>>
  BY <1>1, <1>4
<1> QED
  BY <1>1, <1>2, <1>3, <1>4, <1>5 DEF Top

-----------------------------------------------------------------------------
(* Every thrown value is in one place *)

Failing == {"rejected", "onError", "onNextError"}

\* Only the running call of a request carries an error, and only while it fails.
Carries(f) == f.pc \in Failing <=> f.err # None
Carried(s) == \A k \in 1 .. Len(s) : Carries(s[k]) /\ (k < Len(s) => s[k].err = None)
Held(s) == IF s = <<>> THEN None ELSE Top(s).err

Booked(r, n) == Recorded(r, n) \cup Settled(r, n)

\* The error a request carries is its own, of one of the throws counted.
OwnError(r) == LET e == Held(stack[r])
               IN e # None => e \in Error /\ e.by = r /\ e.n # 0 /\ e.n <= raised[r]

\* A value not yet thrown or still carried stands nowhere else, any other once.
Entry(r, n) == IF n > raised[r] \/ IsRaised(Held(stack[r]), r, n)
               THEN Booked(r, n) = {}
               ELSE \E w : Booked(r, n) = {w}

Ledger(r) == OwnError(r) /\ \A n \in Nat \ {0} : Entry(r, n)

AccountInv == IInv /\ \A r \in Reqs : Carried(stack[r]) /\ Ledger(r)

-----------------------------------------------------------------------------
\* Going on, returning and calling keep the error with the running call.
LEMMA GoCarries ==
  ASSUME IInv, IInv', NEW r \in Reqs, stack[r] # <<>>, Carried(stack[r]), NEW f, Go(r, f), Carries(f)
  PROVE  Carried(stack'[r]) /\ Held(stack'[r]) = f.err /\ \A q \in Reqs \ {r} : stack'[q] = stack[q]
BY AfterGo DEF Carried, Held

\* The running call ends and its caller carries what f does.
LEMMA GoBackCarries ==
  ASSUME IInv, IInv', NEW r \in Reqs, Len(stack[r]) > 1, Carried(stack[r]), NEW f, GoBack(r, f), Carries(f)
  PROVE  Carried(stack'[r]) /\ Held(stack'[r]) = f.err /\ \A q \in Reqs \ {r} : stack'[q] = stack[q]
<1> DEFINE s == stack[r]
           t == stack'[r]
<1>1. /\ t # <<>> /\ Len(t) = Len(s) - 1 /\ Len(s) \in Nat \ {0, 1} /\ t[Len(s) - 1] = f /\ Top(t) = f
      /\ \A k \in 1 .. Len(s) - 2 : t[k] = s[k]
      /\ \A q \in Reqs \ {r} : stack'[q] = stack[q]
  BY AfterGoBack
<1>2. Held(t) = f.err
  BY <1>1 DEF Held
<1>3. ASSUME NEW k \in 1 .. Len(t)
      PROVE  Carries(t[k]) /\ (k < Len(t) => t[k].err = None)
  <2>1. CASE k = Len(t)
    BY <1>1, <2>1
  <2>2. CASE k # Len(t)
    <3>1. k \in 1 .. Len(s) - 2 /\ k \in 1 .. Len(s) /\ k < Len(s)
      BY <1>1, <2>2
    <3> QED
      BY <1>1, <3>1 DEF Carried
  <2> QED
    BY <2>1, <2>2
<1> QED
  BY <1>1, <1>2, <1>3 DEF Carried

\* The running call makes another one; neither carries an error.
LEMMA CallCarries ==
  ASSUME IInv, IInv', NEW r \in Reqs, stack[r] # <<>>, Carried(stack[r]), NEW f, NEW g, GoAndCall(r, f, g),
         Carries(f), Carries(g), f.err = None
  PROVE  Carried(stack'[r]) /\ Held(stack'[r]) = g.err /\ \A q \in Reqs \ {r} : stack'[q] = stack[q]
<1> DEFINE s == stack[r]
           t == stack'[r]
<1>1. /\ t # <<>> /\ Len(t) = Len(s) + 1 /\ Len(s) \in Nat \ {0}
      /\ t[Len(s)] = f /\ t[Len(s) + 1] = g /\ Top(t) = g
      /\ \A k \in 1 .. Len(s) - 1 : t[k] = s[k]
      /\ \A q \in Reqs \ {r} : stack'[q] = stack[q]
  BY AfterCall
<1>2. Held(t) = g.err
  BY <1>1 DEF Held
<1>3. ASSUME NEW k \in 1 .. Len(t)
      PROVE  Carries(t[k]) /\ (k < Len(t) => t[k].err = None)
  <2>1. CASE k >= Len(s)
    <3>1. k = Len(s) \/ k = Len(s) + 1
      BY <1>1, <2>1
    <3> QED
      BY <1>1, <3>1
  <2>2. CASE k < Len(s)
    <3>1. k \in 1 .. Len(s) - 1 /\ k \in 1 .. Len(s)
      BY <1>1, <2>2
    <3> QED
      BY <1>1, <2>2, <3>1 DEF Carried
  <2> QED
    BY <1>1, <2>1, <2>2
<1> QED
  BY <1>1, <1>2, <1>3 DEF Carried

\* What r carries is the error of its running call.
LEMMA HeldFacts ==
  ASSUME AccountInv, NEW r \in Reqs, stack[r] # <<>>
  PROVE  LET f == Top(stack[r])
         IN /\ f \in Frame /\ Held(stack[r]) = f.err
            /\ f.pc \in Failing => f.err # None /\ f.err \in Error /\ f.err.by = r /\ f.err.n <= raised[r]
            /\ f.pc \notin Failing => f.err = None
            /\ f.pc \in {"beforeInvoke", "afterInvoke", "onError"} => Len(stack[r]) > 1
            /\ Len(stack[r]) > 1 => /\ Caller(stack[r]) \in Frame /\ Caller(stack[r]).err = None
                                    /\ Caller(stack[r]).pc \notin Failing
<1> DEFINE s == stack[r]
           f == Top(s)
<1>1. IInv /\ Carried(s) /\ OwnError(r)
  BY DEF AccountInv, Ledger
<1>2. /\ f \in Frame /\ f = s[Len(s)] /\ Len(s) \in Nat \ {0} /\ FrameOK(f) /\ (Inner(f) <=> Len(s) > 1)
      /\ Len(s) > 1 => Caller(s) \in Frame
  BY <1>1, TopFacts
<1>3. Held(s) = f.err
  BY DEF Held
<1>4. Carries(f)
  BY <1>1, <1>2 DEF Carried
<1>5. Len(s) > 1 => Carries(Caller(s)) /\ Caller(s).err = None
  BY <1>1, <1>2 DEF Carried, Caller
<1> QED
  BY <1>1, <1>2, <1>3, <1>4, <1>5 DEF Carries, OwnError, FrameOK

-----------------------------------------------------------------------------
(* What a step does to the ledger *)

\* e is booked: a hook or user code settled it, a later throw took its place,
\* or it went to an error stack.
EntryOf(e) ==
  \/ /\ UNCHANGED errorStack
     /\ \E how \in {"handled", "swallowed", "displaced"} : settled' = settled \cup {[err |-> e, how |-> how]}
  \/ /\ UNCHANGED settled
     /\ \E c \in Reqs : errorStack' = [errorStack EXCEPT ![c] = Append(@, e)]

NoEntry == UNCHANGED <<errorStack, settled>>
Throws(r, count) == raised' = [raised EXCEPT ![r] = @ + count]
Newest(r, e) == e \in Error /\ e.by = r /\ e.n = raised'[r]

Quiet(r)    == NoEntry /\ Held(stack'[r]) = Held(stack[r]) /\ UNCHANGED raised
Throw(r)    == NoEntry /\ Held(stack[r]) = None /\ Newest(r, Held(stack'[r])) /\ Throws(r, 1)
Rethrow(r)  == /\ Held(stack[r]) = None /\ Newest(r, Held(stack'[r])) /\ Throws(r, 2)
               /\ \E e \in Error : e.by = r /\ e.n = raised[r] + 1 /\ EntryOf(e)
Settle(r)   == /\ Held(stack[r]) # None /\ EntryOf(Held(stack[r]))
               /\ Held(stack'[r]) = None /\ UNCHANGED raised
Displaces(r) == /\ Held(stack[r]) # None /\ EntryOf(Held(stack[r]))
                /\ Newest(r, Held(stack'[r])) /\ Throws(r, 1)

Accounted(r) ==
  /\ Carried(stack'[r]) /\ \A q \in Reqs \ {r} : stack'[q] = stack[q]
  /\ Quiet(r) \/ Throw(r) \/ Rethrow(r) \/ Settle(r) \/ Displaces(r)

\* A new entry for e adds one place to where e is booked and none to the others.
LEMMA EntryAdds ==
  ASSUME Types, NEW e \in Error, EntryOf(e), NEW r \in Reqs, NEW n \in Nat
  PROVE  IF IsRaised(e, r, n) THEN \E w : Booked(r, n)' = Booked(r, n) \cup {w}
                              ELSE Booked(r, n)' = Booked(r, n)
<1>1. errorStack \in [Reqs -> Seq(Error)]
  BY DEF Types
<1>2. ASSUME UNCHANGED errorStack, NEW how, settled' = settled \cup {[err |-> e, how |-> how]}
      PROVE  IF IsRaised(e, r, n) THEN Booked(r, n)' = Booked(r, n) \cup {<<"settled", how, 0>>}
                                  ELSE Booked(r, n)' = Booked(r, n)
  <2>1. Recorded(r, n)' = Recorded(r, n)
    BY <1>2 DEF Recorded, IsRaised
  <2> DEFINE new == [err |-> e, how |-> how]
  <2>2. new.err = e /\ new.how = how
    OBVIOUS
  <2> HIDE DEF new
  <2>3. settled' = settled \cup {new}
    BY <1>2 DEF new
  <2>4. CASE IsRaised(e, r, n)
    <3>1. Settled(r, n)' = Settled(r, n) \cup {<<"settled", how, 0>>}
      BY <2>2, <2>3, <2>4 DEF Settled, IsRaised
    <3> QED
      BY <2>1, <2>4, <3>1 DEF Booked
  <2>5. CASE ~IsRaised(e, r, n)
    <3>1. Settled(r, n)' = Settled(r, n)
      BY <2>2, <2>3, <2>5 DEF Settled, IsRaised
    <3> QED
      BY <2>1, <2>5, <3>1 DEF Booked
  <2> QED
    BY <2>4, <2>5
<1>3. ASSUME UNCHANGED settled, NEW c \in Reqs, errorStack' = [errorStack EXCEPT ![c] = Append(@, e)]
      PROVE  IF IsRaised(e, r, n) THEN Booked(r, n)' = Booked(r, n) \cup {<<"recorded", c, Len(errorStack[c]) + 1>>}
                                  ELSE Booked(r, n)' = Booked(r, n)
  <2> DEFINE Has(d) == {i \in DOMAIN errorStack[d] : IsRaised(errorStack[d][i], r, n)}
             l == Len(errorStack[c]) + 1
  <2>1. Settled(r, n)' = Settled(r, n)
    BY <1>3 DEF Settled, IsRaised
  <2>2. \A d \in Reqs \ {c} : errorStack'[d] = errorStack[d]
    BY <1>1, <1>3
  <2>3. Has(c)' = IF IsRaised(e, r, n) THEN Has(c) \cup {l} ELSE Has(c)
    <3> DEFINE es == errorStack[c]
    <3>1. es \in Seq(Error) /\ errorStack'[c] = Append(es, e)
      BY <1>1, <1>3
    <3> HIDE DEF es
    <3>2. /\ DOMAIN errorStack'[c] = (DOMAIN es) \cup {l} /\ l \notin DOMAIN es
          /\ errorStack'[c][l] = e /\ \A i \in DOMAIN es : errorStack'[c][i] = es[i]
      BY <3>1 DEF es
    <3> QED
      BY <3>2 DEF es, IsRaised
  <2>4. \A d \in Reqs \ {c} : Has(d)' = Has(d)
    BY <2>2 DEF IsRaised
  <2>5. Recorded(r, n) = UNION {{<<"recorded", d, i>> : i \in Has(d)} : d \in Reqs}
    BY DEF Recorded
  <2>6. Recorded(r, n)' = UNION {{<<"recorded", d, i>> : i \in Has(d)'} : d \in Reqs}
    BY DEF Recorded
  <2> HIDE DEF Has, l
  <2>7. CASE IsRaised(e, r, n)
    <3>1. Recorded(r, n)' = Recorded(r, n) \cup {<<"recorded", c, l>>}
      BY <2>3, <2>4, <2>5, <2>6, <2>7
    <3> QED
      BY <2>1, <2>7, <3>1 DEF Booked, l
  <2>8. CASE ~IsRaised(e, r, n)
    <3>1. Recorded(r, n)' = Recorded(r, n)
      BY <2>3, <2>4, <2>5, <2>6, <2>8
    <3> QED
      BY <2>1, <2>8, <3>1 DEF Booked
  <2> QED
    BY <2>7, <2>8
<1> QED
  BY <1>2, <1>3 DEF EntryOf

\* Without an entry, everything stands where it stood.
LEMMA NoEntryKeeps ==
  ASSUME NoEntry, NEW r, NEW n
  PROVE  Booked(r, n)' = Booked(r, n)
BY DEF NoEntry, Booked, Recorded, Settled, IsRaised

Number(h) == IF h = None THEN 0 ELSE h.n

\* What r newly threw and carries has a number of its own.
LEMMA LedgerStep ==
  ASSUME AccountInv, IInv', NEW r \in Reqs, Accounted(r)
  PROVE  \A q \in Reqs : Ledger(q)'
<1>1. Types /\ Types' /\ \A q \in Reqs : Ledger(q)
  BY DEF AccountInv, IInv
<1>2. raised \in [Reqs -> Nat] /\ raised' \in [Reqs -> Nat]
  BY <1>1 DEF Types
<1> DEFINE h == Held(stack[r])
           h2 == Held(stack'[r])
<1>3. /\ h # None => h \in Error /\ h.by = r /\ h.n # 0 /\ h.n <= raised[r]
      /\ \A n \in Nat \ {0} : Entry(r, n)
  BY <1>1 DEF Ledger, OwnError
<1>4. \A q \in Reqs \ {r} : raised'[q] = raised[q] /\ Held(stack'[q]) = Held(stack[q])
  <2>1. \A q \in Reqs \ {r} : raised'[q] = raised[q]
    BY <1>2 DEF Accounted, Quiet, Throw, Rethrow, Settle, Displaces, Throws
  <2> QED
    BY <2>1 DEF Accounted
<1>5. h2 # None => h2 \in Error /\ h2.by = r /\ h2.n # 0 /\ h2.n <= raised'[r]
  BY <1>2, <1>3 DEF Accounted, Quiet, Throw, Rethrow, Settle, Displaces, Throws, Newest
<1>6. ASSUME NEW e \in Error, e.by = r, EntryOf(e)
      PROVE  /\ \A q \in Reqs \ {r} : \A n \in Nat : Booked(q, n)' = Booked(q, n)
             /\ \A n \in Nat : IF n = e.n THEN \E w : Booked(r, n)' = Booked(r, n) \cup {w}
                                          ELSE Booked(r, n)' = Booked(r, n)
  <2>1. \A q \in Reqs : \A n \in Nat :
          IF IsRaised(e, q, n) THEN \E w : Booked(q, n)' = Booked(q, n) \cup {w}
                               ELSE Booked(q, n)' = Booked(q, n)
    BY <1>1, <1>6, EntryAdds
  <2>2. \A q \in Reqs : \A n \in Nat : IsRaised(e, q, n) <=> q = r /\ n = e.n
    BY <1>6, NoneAssumption DEF IsRaised
  <2> HIDE DEF Booked
  <2> QED
    BY <2>1, <2>2
<1>7. \A q \in Reqs \ {r} : \A n \in Nat : Booked(q, n)' = Booked(q, n)
  <2>1. CASE NoEntry
    BY <2>1, NoEntryKeeps
  <2>2. CASE \E e \in Error : e.by = r /\ EntryOf(e)
    BY <1>6, <2>2
  <2> QED
    BY <1>3, <2>1, <2>2 DEF Accounted, Quiet, Throw, Rethrow, Settle, Displaces
<1>8. ASSUME NEW n \in Nat \ {0}
      PROVE  Entry(r, n)'
  <2> DEFINE B == Booked(r, n)
             B2 == Booked(r, n)'
             c == raised[r]
             c2 == raised'[r]
             hn == Number(h)
             h2n == Number(h2)
  <2>1. c \in Nat /\ c2 \in Nat /\ hn \in Nat /\ h2n \in Nat /\ hn <= c
    BY <1>2, <1>3, <1>5 DEF Number, Error
  <2>2. IF n > c \/ n = hn THEN B = {} ELSE \E w : B = {w}
    <3>1. IF n > c \/ IsRaised(h, r, n) THEN B = {} ELSE \E w : B = {w}
      BY <1>3, <1>8 DEF Entry
    <3>2. IsRaised(h, r, n) <=> n = hn
      BY <1>3 DEF IsRaised, Number
    <3> QED
      BY <3>1, <3>2
  <2>3. (IF n > c2 \/ n = h2n THEN B2 = {} ELSE \E w : B2 = {w}) => Entry(r, n)'
    <3>1. IsRaised(h2, r, n) <=> n = h2n
      BY <1>5 DEF IsRaised, Number
    <3>2. (IF n > c2 \/ IsRaised(h2, r, n) THEN B2 = {} ELSE \E w : B2 = {w}) => Entry(r, n)'
      BY DEF Entry
    <3> QED
      BY <3>1, <3>2
  <2>4. ASSUME NEW e \in Error, e.by = r, EntryOf(e)
        PROVE  IF n = e.n THEN \E w : B2 = B \cup {w} ELSE B2 = B
    BY <1>6, <2>4
  <2>5. NoEntry => B2 = B
    BY NoEntryKeeps
  <2>6. PICK bn \in Nat :
          /\ IF n = bn THEN \E w : B2 = B \cup {w} ELSE B2 = B
          /\ \/ bn = 0 /\ h2n = hn /\ c2 = c
             \/ bn = 0 /\ hn = 0 /\ h2n = c2 /\ c2 = c + 1
             \/ bn = c + 1 /\ hn = 0 /\ h2n = c2 /\ c2 = c + 2
             \/ bn = hn /\ hn # 0 /\ h2n = 0 /\ c2 = c
             \/ bn = hn /\ hn # 0 /\ h2n = c2 /\ c2 = c + 1
    <3> HIDE DEF B, B2
    <3>1. CASE Quiet(r)
      <4>1. B2 = B /\ h2n = hn /\ c2 = c
        BY <2>5, <3>1 DEF Quiet
      <4> QED
        BY <4>1
    <3>2. CASE Throw(r)
      <4>1. B2 = B /\ hn = 0 /\ h2n = c2 /\ c2 = c + 1
        BY <1>2, <2>5, <3>2, NoneAssumption DEF Throw, Newest, Throws, Number
      <4> QED
        BY <4>1
    <3>3. CASE Rethrow(r)
      <4>1. hn = 0 /\ h2n = c2 /\ c2 = c + 2
        BY <1>2, <3>3, NoneAssumption DEF Rethrow, Newest, Throws, Number
      <4>2. IF n = c + 1 THEN \E w : B2 = B \cup {w} ELSE B2 = B
        BY <2>4, <3>3 DEF Rethrow
      <4>3. c + 1 \in Nat
        BY <2>1
      <4> QED
        BY <4>1, <4>2, <4>3
    <3>4. CASE Settle(r)
      <4>1. hn = h.n /\ hn # 0 /\ h2n = 0 /\ c2 = c
        BY <1>3, <3>4 DEF Settle, Number
      <4>2. IF n = h.n THEN \E w : B2 = B \cup {w} ELSE B2 = B
        BY <1>3, <2>4, <3>4 DEF Settle
      <4> QED
        BY <2>1, <4>1, <4>2
    <3>5. CASE Displaces(r)
      <4>1. hn = h.n /\ hn # 0 /\ h2n = c2 /\ c2 = c + 1
        BY <1>2, <1>3, <3>5, NoneAssumption DEF Displaces, Newest, Throws, Number
      <4>2. IF n = h.n THEN \E w : B2 = B \cup {w} ELSE B2 = B
        BY <1>3, <2>4, <3>5 DEF Displaces
      <4> QED
        BY <2>1, <4>1, <4>2
    <3> QED
      BY <3>1, <3>2, <3>3, <3>4, <3>5 DEF Accounted
  <2> HIDE DEF B, B2, c, c2, hn, h2n
  <2>7. IF n > c2 \/ n = h2n THEN B2 = {} ELSE \E w : B2 = {w}
    <3> USE <1>8, <2>1, <2>2, <2>6
    <3>1. CASE n = bn
      <4>1. B = {} /\ ~(n > c2 \/ n = h2n)
        BY <3>1
      <4> QED
        BY <3>1, <4>1
    <3>2. CASE n # bn
      <4>1. (n > c \/ n = hn) <=> (n > c2 \/ n = h2n)
        BY <3>2
      <4>2. B2 = B
        BY <3>2
      <4> QED
        BY <4>1, <4>2
    <3> QED
      BY <3>1, <3>2
  <2> QED
    BY <2>3, <2>7
<1>9. ASSUME NEW q \in Reqs \ {r}
      PROVE  Ledger(q)'
  <2>1. Ledger(q) /\ raised'[q] = raised[q] /\ Held(stack'[q]) = Held(stack[q])
    BY <1>1, <1>4, <1>9
  <2>2. \A n \in Nat : Booked(q, n)' = Booked(q, n)
    BY <1>7, <1>9
  <2>3. \A n \in Nat \ {0} : Entry(q, n)'
    <3> SUFFICES ASSUME NEW n \in Nat \ {0} PROVE Entry(q, n)'
      OBVIOUS
    <3>1. Entry(q, n) /\ Booked(q, n)' = Booked(q, n)
      BY <2>1, <2>2 DEF Ledger
    <3> QED
      BY <2>1, <3>1 DEF Entry
  <2>4. OwnError(q)'
    BY <2>1 DEF Ledger, OwnError
  <2> QED
    BY <2>3, <2>4 DEF Ledger
<1>10. Ledger(r)'
  <2>1. OwnError(r)'
    BY <1>5 DEF OwnError
  <2> QED
    BY <1>8, <2>1 DEF Ledger
<1> QED
  BY <1>9, <1>10

-----------------------------------------------------------------------------
(* Every step is accounted for *)

\* The frames the error paths make carry what they should.
LEMMA ErrorFrames ==
  ASSUME NEW f \in Frame, NEW e \in Error
  PROVE  /\ Carries(Rejected(f, e)) /\ Rejected(f, e).err = e
         /\ \A pc \in {"onError", "onNextError"} : \A c \in Reqs :
              Carries(Handling(f, pc, e, c)) /\ Handling(f, pc, e, c).err = e
         /\ Carries(Resumed(f)) /\ Resumed(f).err = None
BY NoneAssumption DEF Rejected, Handling, Resumed, Carries, Failing, Frame

\* A request that goes on, returns or calls without an error in play.
LEMMA QuietGo ==
  ASSUME AccountInv, IInv', NEW r \in Reqs, stack[r] # <<>>, NEW f, Go(r, f),
         Carries(f), f.err = Held(stack[r]), NoEntry, UNCHANGED raised
  PROVE  Accounted(r)
BY GoCarries DEF AccountInv, Accounted, Quiet

\* A return that throws, records and settles nothing.
LEMMA QuietGoBack ==
  ASSUME AccountInv, IInv', NEW r \in Reqs, Len(stack[r]) > 1, NEW f, GoBack(r, f),
         Carries(f), f.err = Held(stack[r]), NoEntry, UNCHANGED raised
  PROVE  Accounted(r)
BY GoBackCarries DEF AccountInv, Accounted, Quiet

\* A call that throws, records and settles nothing.
LEMMA QuietCall ==
  ASSUME AccountInv, IInv', NEW r \in Reqs, stack[r] # <<>>, NEW f, NEW g, GoAndCall(r, f, g),
         Carries(f), f.err = None, Carries(g), g.err = None, Held(stack[r]) = None,
         NoEntry, UNCHANGED raised
  PROVE  Accounted(r)
BY CallCarries DEF AccountInv, Accounted, Quiet

\* e fails: newly thrown, or carried by the running call.
Fresh(r, e) == Held(stack[r]) = None /\ e.n = raised[r] + 1
Carried1(r, e) == Held(stack[r]) = e

\* What the error paths do to the counts.
LEMMA PathCounts ==
  ASSUME AccountInv, NEW r \in Reqs, NEW e \in Error, e.by = r, Fresh(r, e) \/ Carried1(r, e),
         UNCHANGED errorStack
  PROVE  /\ Keep(r, e) /\ Held(stack'[r]) = e => Quiet(r) \/ Throw(r)
         /\ Displace(r, e) /\ Held(stack'[r]) = TypeErrorFor(r, e) => Rethrow(r) \/ Displaces(r)
         /\ TypeErrorFor(r, e) \in Error
<1> DEFINE c == raised[r]
<1>1. raised \in [Reqs -> Nat] /\ c \in Nat /\ e \in Error /\ e.n \in Nat /\ e # None
  BY NoneAssumption DEF AccountInv, IInv, Types, Error
<1>2. Carried1(r, e) => e.n <= c /\ Held(stack[r]) # None
  BY <1>1 DEF Carried1, AccountInv, Ledger, OwnError
<1>3. Counted(r, e) = IF Carried1(r, e) THEN c ELSE c + 1
  BY <1>1, <1>2 DEF Counted, Fresh
<1>4. /\ TypeErrorFor(r, e) \in Error
      /\ TypeErrorFor(r, e).by = r /\ TypeErrorFor(r, e).n = Counted(r, e) + 1
  BY <1>1, <1>3 DEF TypeErrorFor, NewError, Error, Kinds
<1>5. ASSUME Keep(r, e), Held(stack'[r]) = e
      PROVE  Quiet(r) \/ Throw(r)
  <2>1. raised' = [raised EXCEPT ![r] = Counted(r, e)] /\ NoEntry
    BY <1>5 DEF Keep, NoEntry
  <2>2. CASE Carried1(r, e)
    <3>1. raised' = raised
      BY <1>1, <1>3, <2>1, <2>2
    <3> QED
      BY <1>5, <2>1, <2>2, <3>1 DEF Quiet, Carried1
  <2>3. CASE ~Carried1(r, e)
    <3>1. Throws(r, 1) /\ raised'[r] = c + 1
      BY <1>1, <1>3, <2>1, <2>3 DEF Throws
    <3> QED
      BY <1>5, <2>1, <2>3, <3>1 DEF Throw, Newest, Fresh
  <2> QED
    BY <2>2, <2>3
<1>6. ASSUME Displace(r, e), Held(stack'[r]) = TypeErrorFor(r, e)
      PROVE  Rethrow(r) \/ Displaces(r)
  <2>1. raised' = [raised EXCEPT ![r] = Counted(r, e) + 1] /\ EntryOf(e)
    BY <1>6 DEF Displace, EntryOf
  <2>2. Newest(r, Held(stack'[r]))
    BY <1>1, <1>4, <1>6, <2>1 DEF Newest
  <2>3. CASE Carried1(r, e)
    <3>1. Throws(r, 1)
      BY <1>1, <1>3, <2>1, <2>3 DEF Throws
    <3> QED
      BY <1>2, <2>1, <2>2, <2>3, <3>1 DEF Displaces, Carried1
  <2>4. CASE ~Carried1(r, e)
    <3>1. Counted(r, e) + 1 = c + 2
      BY <1>1, <1>3, <2>4
    <3>2. raised' = [raised EXCEPT ![r] = c + 2]
      BY <2>1, <3>1
    <3>3. Throws(r, 2)
      BY <3>2 DEF Throws
    <3> QED
      BY <2>1, <2>2, <2>4, <3>3 DEF Rethrow, Fresh
  <2> QED
    BY <2>3, <2>4
<1> QED
  BY <1>4, <1>5, <1>6

\* The error paths around an invocation account for e.
LEMMA FailAccounted ==
  ASSUME AccountInv, IInv', NEW r \in Reqs, Len(stack[r]) > 1, NEW e \in Error, e.by = r,
         Fresh(r, e) \/ Carried1(r, e), Fail(r, e), UNCHANGED errorStack
  PROVE  Accounted(r)
<1> DEFINE f == Top(stack[r])
           c == Caller(stack[r])
           x == TypeErrorFor(r, e)
<1>1. stack[r] # <<>> /\ IInv /\ Carried(stack[r])
  BY DEF AccountInv, IInv, Types
<1>2. f \in Frame /\ c \in Frame /\ This(r, c).ctx \in Reqs
  BY <1>1, TopFacts
<1>3. x \in Error
  BY PathCounts
<1>4. /\ Carries(Rejected(c, e)) /\ Rejected(c, e).err = e
      /\ Carries(Rejected(c, x)) /\ Rejected(c, x).err = x
      /\ Carries(Handling(f, "onError", e, This(r, c).ctx)) /\ Handling(f, "onError", e, This(r, c).ctx).err = e
  BY <1>2, <1>3, ErrorFrames
<1> HIDE DEF f, c, x
<1>5. CASE GoBack(r, Rejected(c, e)) /\ Keep(r, e)
  BY <1>1, <1>4, <1>5, GoBackCarries, PathCounts DEF Accounted
<1>6. CASE Go(r, Handling(f, "onError", e, This(r, c).ctx)) /\ Keep(r, e)
  BY <1>1, <1>4, <1>6, GoCarries, PathCounts DEF Accounted
<1>7. CASE GoBack(r, Rejected(c, x)) /\ Displace(r, e)
  BY <1>1, <1>4, <1>7, GoBackCarries, PathCounts DEF Accounted, x
<1> QED
  BY <1>5, <1>6, <1>7 DEF Fail, f, c, x

\* So do the error paths that start in next().
LEMMA FailNextAccounted ==
  ASSUME AccountInv, IInv', NEW r \in Reqs, stack[r] # <<>>, NEW e \in Error, e.by = r,
         Fresh(r, e), FailNext(r, e), UNCHANGED errorStack
  PROVE  Accounted(r)
<1> DEFINE f == Top(stack[r])
           x == TypeErrorFor(r, e)
<1>1. stack[r] # <<>> /\ IInv /\ Carried(stack[r])
  BY DEF AccountInv
<1>2. f \in Frame /\ This(r, f).ctx \in Reqs
  BY <1>1, TopFacts
<1>3. x \in Error
  BY PathCounts
<1>4. /\ Carries(Rejected(f, e)) /\ Rejected(f, e).err = e
      /\ Carries(Rejected(f, x)) /\ Rejected(f, x).err = x
      /\ Carries(Handling(f, "onNextError", e, This(r, f).ctx)) /\ Handling(f, "onNextError", e, This(r, f).ctx).err = e
  BY <1>2, <1>3, ErrorFrames
<1> HIDE DEF f, x
<1>5. CASE Go(r, Rejected(f, e)) /\ Keep(r, e)
  BY <1>1, <1>4, <1>5, GoCarries, PathCounts DEF Accounted
<1>6. CASE Go(r, Handling(f, "onNextError", e, This(r, f).ctx)) /\ Keep(r, e)
  BY <1>1, <1>4, <1>6, GoCarries, PathCounts DEF Accounted
<1>7. CASE Go(r, Rejected(f, x)) /\ Displace(r, e)
  BY <1>1, <1>4, <1>7, GoCarries, PathCounts DEF Accounted, x
<1> QED
  BY <1>5, <1>6, <1>7 DEF FailNext, f, x

\* A value settled by a hook or by user code, or recorded by catchError.
LEMMA SettleGo ==
  ASSUME AccountInv, IInv', NEW r \in Reqs, stack[r] # <<>>, Held(stack[r]) # None, NEW f,
         Carries(f), f.err = None, EntryOf(Held(stack[r])), UNCHANGED raised,
         Go(r, f) \/ (Len(stack[r]) > 1 /\ GoBack(r, f))
  PROVE  Accounted(r)
BY GoCarries, GoBackCarries DEF AccountInv, Accounted, Settle

\* execHooks and its outcomes are accounted for.
LEMMA HooksAccounted ==
  ASSUME AccountInv, IInv', NEW r \in Reqs,
         HookPasses(r) \/ HookEndsLoop(r) \/ HookVetoes(r) \/ HookHandles(r)
           \/ HookThrows(r) \/ ErrorHookThrows(r)
  PROVE  Accounted(r)
<1> DEFINE f == Top(stack[r])
           c == Caller(stack[r])
<1>1. stack[r] # <<>> /\ UNCHANGED errorStack
  BY DEF HookPasses, HookEndsLoop, HookVetoes, HookHandles, HookThrows, ErrorHookThrows, InHook
<1>2. /\ f \in Frame /\ Held(stack[r]) = f.err
      /\ f.pc \in Failing => f.err # None /\ f.err \in Error /\ f.err.by = r
      /\ f.pc \notin Failing => f.err = None
      /\ f.pc \in {"beforeInvoke", "afterInvoke", "onError"} => Len(stack[r]) > 1
      /\ Len(stack[r]) > 1 => c \in Frame /\ c.err = None
  BY <1>1, HeldFacts
<1>3. /\ Carries(f) /\ Carries(Resumed(f)) /\ Resumed(f).err = None
      /\ Len(stack[r]) > 1 => Carries(Resumed(c)) /\ Resumed(c).err = None
  <2>1. Carries(f)
    BY <1>2 DEF Carries
  <2> QED
    BY <1>2, <2>1 DEF Resumed, Carries, Failing, Frame
<1>4. Types /\ IInv
  BY DEF AccountInv, IInv
<1> HIDE DEF c
<1>5. ASSUME NEW q, Go(r, [f EXCEPT !.q = q]), UNCHANGED <<settled, raised>>
      PROVE  Accounted(r)
  <2> DEFINE g == [f EXCEPT !.q = q]
  <2>1. Carries(g) /\ g.err = f.err
    BY <1>2, <1>3 DEF Carries, Frame
  <2> HIDE DEF g
  <2>2. Go(r, g)
    BY <1>5 DEF g
  <2> QED
    BY <1>1, <1>2, <1>5, <2>1, <2>2, QuietGo DEF NoEntry
<1>6. CASE HookPasses(r)
  BY <1>5, <1>6 DEF HookPasses
<1>7. CASE HookEndsLoop(r)
  BY <1>5, <1>7 DEF HookEndsLoop
<1>8. CASE HookVetoes(r)
  <2>1. f.pc \in {"beforeNext", "beforeInvoke"} /\ NoEntry /\ UNCHANGED raised
    BY <1>8 DEF HookVetoes, InHook, NoEntry
  <2>2. Held(stack[r]) = None
    BY <1>2, <2>1 DEF Failing
  <2>3. Go(r, Resumed(f)) \/ (Len(stack[r]) > 1 /\ GoBack(r, Resumed(c)))
    BY <1>2, <1>8 DEF HookVetoes, InHook, c
  <2> HIDE DEF f
  <2> QED
    BY <1>1, <1>3, <2>1, <2>2, <2>3, QuietGo, QuietGoBack
<1>9. CASE HookHandles(r)
  <2>1. f.pc \in Failing /\ UNCHANGED raised
    BY <1>9 DEF HookHandles, InHook, Failing
  <2>2. Held(stack[r]) # None /\ EntryOf(Held(stack[r]))
    BY <1>1, <1>2, <1>9, <2>1 DEF HookHandles, EntryOf
  <2>3. Go(r, Resumed(f)) \/ (Len(stack[r]) > 1 /\ GoBack(r, Resumed(c)))
    BY <1>2, <1>9 DEF HookHandles, InHook, c
  <2> HIDE DEF f
  <2> QED
    BY <1>1, <1>3, <2>1, <2>2, <2>3, SettleGo
<1>10. CASE HookThrows(r)
  <2>1. f.pc \notin Failing
    BY <1>10 DEF HookThrows, InHook, Failing
  <2>2. PICK e \in Thrown(r, "code") : FailNext(r, e) \/ (Len(stack[r]) > 1 /\ Fail(r, e))
    BY <1>2, <1>10 DEF HookThrows, InHook
  <2>3. e \in Error /\ e.by = r /\ Fresh(r, e)
    BY <1>2, <1>4, <2>1, ThrownFacts DEF Fresh
  <2> QED
    BY <1>1, <2>2, <2>3, FailAccounted, FailNextAccounted
<1>11. CASE ErrorHookThrows(r)
  <2>1. f.pc \in Failing
    BY <1>11 DEF ErrorHookThrows, InHook, Failing
  <2>2. PICK e \in Thrown(r, "errorHook") :
          /\ IF f.pc = "onError" THEN GoBack(r, Rejected(c, e)) ELSE Go(r, Rejected(f, e))
          /\ Throws(r, 1)
          /\ settled' = settled \cup {[err |-> f.err, how |-> "displaced"]}
    BY <1>11 DEF ErrorHookThrows, Throws, c
  <2>3. e \in Error /\ e.by = r /\ e.n = raised[r] + 1
    BY <1>4, ThrownFacts
  <2>4. Newest(r, e)
    <3>1. raised \in [Reqs -> Nat]
      BY <1>4 DEF Types
    <3> QED
      BY <2>2, <2>3, <3>1 DEF Newest, Throws
  <2>5. Held(stack[r]) # None /\ EntryOf(Held(stack[r]))
    BY <1>1, <1>2, <2>1, <2>2 DEF EntryOf
  <2>6. /\ Carries(Rejected(f, e)) /\ Rejected(f, e).err = e
        /\ Len(stack[r]) > 1 => Carries(Rejected(c, e)) /\ Rejected(c, e).err = e
    BY <1>2, <2>3, ErrorFrames
  <2>7. Carried(stack[r])
    BY DEF AccountInv
  <2>8. Carried(stack'[r]) /\ Held(stack'[r]) = e /\ \A q \in Reqs \ {r} : stack'[q] = stack[q]
    <3> HIDE DEF f
    <3>1. CASE f.pc = "onError"
      <4>1. Len(stack[r]) > 1 /\ GoBack(r, Rejected(c, e))
        BY <1>2, <2>2, <3>1
      <4> QED
        BY <1>4, <2>6, <2>7, <4>1, GoBackCarries
    <3>2. CASE f.pc # "onError"
      <4>1. Go(r, Rejected(f, e))
        BY <2>2, <3>2
      <4> QED
        BY <1>1, <1>4, <2>6, <2>7, <4>1, GoCarries
    <3> QED
      BY <3>1, <3>2
  <2> QED
    BY <2>2, <2>4, <2>5, <2>8 DEF Accounted, Displaces
<1> QED
  BY <1>6, <1>7, <1>8, <1>9, <1>10, <1>11

\* next() itself: the steps in which no error is caught.
LEMMA NextAccounted ==
  ASSUME AccountInv, IInv', NEW r \in Reqs,
         AfterBeforeNext(r) \/ InitNext(r) \/ CreateFails(r) \/ InvokeNext(r) \/ FinishNext(r)
           \/ CatchError(r)
  PROVE  Accounted(r)
<1> DEFINE f == Top(stack[r])
           c == Caller(stack[r])
<1>1. stack[r] # <<>> /\ IInv /\ Types
  BY DEF AfterBeforeNext, InitNext, CreateFails, InvokeNext, FinishNext, CatchError, Running, AccountInv, IInv
<1>2. /\ f \in Frame /\ Held(stack[r]) = f.err
      /\ f.pc \in Failing => f.err # None /\ f.err \in Error /\ f.err.by = r
      /\ f.pc \notin Failing => f.err = None
      /\ f.pc \in {"beforeInvoke", "afterInvoke", "onError"} => Len(stack[r]) > 1
      /\ Len(stack[r]) > 1 => c \in Frame /\ c.err = None
  BY <1>1, HeldFacts
<1>3. /\ Carries(Resumed(f)) /\ Resumed(f).err = None
      /\ Len(stack[r]) > 1 => Carries(Resumed(c)) /\ Resumed(c).err = None
  BY <1>2 DEF Resumed, Carries, Failing, Frame
<1>4. ASSUME f.pc \notin Failing, NEW pc, pc \notin Failing, NEW g, g = [f EXCEPT !.pc = pc]
      PROVE  Carries(g) /\ g.err = None
  BY <1>2, <1>4 DEF Carries, Frame
<1> HIDE DEF c
<1>5. CASE AfterBeforeNext(r)
  <2> DEFINE q == ConstructorHooks(This(r, f).ctx, Successor(This(r, f).at))
             g == [f EXCEPT !.pc = "create", !.q = q]
  <2>1. /\ Go(r, Resumed(f)) \/ Go(r, g)
        /\ NoEntry /\ UNCHANGED raised /\ f.pc \notin Failing
    BY <1>5 DEF AfterBeforeNext, NoEntry, Running, Failing
  <2> HIDE DEF q
  <2>2. Carries(g) /\ g.err = None
    BY <1>2, <2>1 DEF Carries, Failing, Frame
  <2> HIDE DEF f, g
  <2> QED
    BY <1>1, <1>2, <1>3, <2>1, <2>2, QuietGo DEF f
<1>6. CASE InitNext(r)
  <2> DEFINE g == [f EXCEPT !.pc = "calling"]
             this == This(r, f)
             h == NewFrame(Successor(this.at), this.ctx, this.home, "beforeInvoke",
                           HooksOf(this.ctx, "BeforeInvoke"))
  <2>1. GoAndCall(r, g, h) /\ NoEntry /\ UNCHANGED raised /\ f.pc \notin Failing
    BY <1>6 DEF InitNext, GoAndCall, NoEntry, Running, Failing
  <2>2. Carries(g) /\ g.err = None
    BY <1>4, <2>1 DEF Failing
  <2>3. Carries(h) /\ h.err = None
    BY DEF NewFrame, Carries, Failing
  <2> HIDE DEF g, h
  <2> QED
    BY <1>1, <1>2, <2>1, <2>2, <2>3, QuietCall
<1>7. CASE CreateFails(r)
  <2>1. PICK e \in Thrown(r, "code") : FailNext(r, e)
    BY <1>7 DEF CreateFails
  <2>2. e \in Error /\ e.by = r /\ Fresh(r, e) /\ UNCHANGED errorStack
    BY <1>1, <1>2, <1>7, ThrownFacts DEF Fresh, CreateFails, Running, Failing
  <2> QED
    BY <1>1, <2>1, <2>2, FailNextAccounted
<1>8. CASE InvokeNext(r)
  <2> DEFINE g == [f EXCEPT !.pc = "body"]
  <2>1. Go(r, g) /\ NoEntry /\ UNCHANGED raised /\ f.pc \notin Failing
    BY <1>8 DEF InvokeNext, NoEntry, Running, Failing
  <2>2. Carries(g) /\ g.err = None
    BY <1>4, <2>1 DEF Failing
  <2> HIDE DEF g
  <2> QED
    BY <1>1, <1>2, <2>1, <2>2, QuietGo
<1>9. CASE FinishNext(r)
  <2>1. /\ Len(stack[r]) > 1 /\ GoBack(r, Resumed(c)) /\ f.pc \notin Failing
        /\ NoEntry /\ UNCHANGED raised
    BY <1>2, <1>9 DEF FinishNext, NoEntry, Running, Failing, c
  <2> QED
    BY <1>1, <1>2, <1>3, <2>1, QuietGoBack
<1>10. CASE CatchError(r)
  <2> DEFINE d == IF f.pc = "onError" THEN c ELSE f
             ctx == This(r, d).ctx
  <2>1. /\ f.pc \in {"onError", "onNextError"} /\ UNCHANGED <<raised, settled>>
        /\ errorStack' = [errorStack EXCEPT ![ctx] = Append(@, f.err)]
        /\ IF f.pc = "onError" THEN GoBack(r, Resumed(c)) ELSE Go(r, Resumed(f))
    BY <1>10 DEF CatchError, Running, c
  <2>2. ctx \in Reqs
    BY <1>1, <1>2, <2>1, TopFacts DEF c
  <2> HIDE DEF ctx
  <2>3. Held(stack[r]) # None /\ EntryOf(Held(stack[r]))
    BY <1>2, <2>1, <2>2 DEF EntryOf, Failing
  <2>4. Go(r, Resumed(f)) \/ (Len(stack[r]) > 1 /\ GoBack(r, Resumed(c)))
    BY <1>2, <2>1
  <2> HIDE DEF f
  <2> QED
    BY <1>1, <1>3, <2>1, <2>3, <2>4, SettleGo
<1> QED
  BY <1>5, <1>6, <1>7, <1>8, <1>9, <1>10

\* The code of Startup.invoke and of the middlewares.
LEMMA InvokeAccounted ==
  ASSUME AccountInv, IInv', NEW r \in Reqs,
         InvokeFirst(r) \/ FirstFails(r) \/ CallNext(r) \/ RegisterHook(r) \/ EnterCompose(r)
           \/ ReturnFromInvoke(r) \/ ThrowInInvoke(r) \/ Propagate(r) \/ Swallow(r)
  PROVE  Accounted(r)
<1> DEFINE f == Top(stack[r])
           c == Caller(stack[r])
<1>1. stack[r] # <<>> /\ IInv /\ Types /\ UNCHANGED errorStack
  BY DEF InvokeFirst, FirstFails, CallNext, RegisterHook, EnterCompose, ReturnFromInvoke,
         ThrowInInvoke, Propagate, Swallow, InBody, Running, AccountInv, IInv
<1>2. /\ f \in Frame /\ Held(stack[r]) = f.err
      /\ f.pc \in Failing => f.err # None /\ f.err \in Error /\ f.err.by = r
      /\ f.pc \notin Failing => f.err = None
      /\ Len(stack[r]) > 1 => c \in Frame /\ c.err = None /\ c.pc \notin Failing
  BY <1>1, HeldFacts
<1> HIDE DEF c
<1>3. CASE InvokeFirst(r)
  <2> DEFINE g == [f EXCEPT !.pc = "calling", !.calls = 1]
             none == <<>>
             h == NewFrame(<<ListOf(f.at), 1>>, f.ctx, Len(stack[r]), "body", none)
  <2>1. GoAndCall(r, g, h) /\ NoEntry /\ UNCHANGED raised /\ f.pc \notin Failing
    BY <1>3 DEF InvokeFirst, GoAndCall, NoEntry, Running, Failing
  <2>2. Carries(g) /\ g.err = None
    BY <1>2, <2>1 DEF Carries, Failing, Frame
  <2> HIDE DEF none
  <2>3. Carries(h) /\ h.err = None
    BY DEF NewFrame, Carries, Failing
  <2> HIDE DEF g, h
  <2> QED
    BY <1>1, <1>2, <2>1, <2>2, <2>3, QuietCall
<1>4. CASE FirstFails(r)
  <2>1. PICK e \in Thrown(r, "code") : Go(r, Rejected(f, e)) /\ Keep(r, e)
    BY <1>4 DEF FirstFails
  <2>2. e \in Error /\ e.by = r /\ Fresh(r, e)
    BY <1>1, <1>2, <1>4, ThrownFacts DEF Fresh, FirstFails, Running, Failing
  <2>3. Carries(Rejected(f, e)) /\ Rejected(f, e).err = e
    BY <1>2, <2>2, ErrorFrames
  <2>4. Carried(stack[r])
    BY DEF AccountInv
  <2> HIDE DEF f
  <2>5. Carried(stack'[r]) /\ Held(stack'[r]) = e /\ \A q \in Reqs \ {r} : stack'[q] = stack[q]
    BY <1>1, <2>1, <2>3, <2>4, GoCarries
  <2> QED
    BY <1>1, <2>1, <2>2, <2>5, PathCounts DEF Accounted
<1>5. ASSUME CallNext(r) \/ RegisterHook(r)
      PROVE  Accounted(r)
  <2>1. PICK q : Go(r, [f EXCEPT !.pc = "beforeNext", !.calls = @ + 1, !.q = q])
    BY <1>5 DEF CallNext, RegisterHook, StartNext
  <2> DEFINE g == [f EXCEPT !.pc = "beforeNext", !.calls = @ + 1, !.q = q]
  <2>2. NoEntry /\ UNCHANGED raised /\ f.pc \notin Failing
    BY <1>5 DEF CallNext, RegisterHook, InBody, Running, Failing, NoEntry
  <2>3. Carries(g) /\ g.err = None
    BY <1>2, <2>2 DEF Carries, Failing, Frame
  <2>4. Go(r, g)
    BY <2>1
  <2> HIDE DEF g
  <2> QED
    BY <1>1, <1>2, <2>2, <2>3, <2>4, QuietGo
<1>6. CASE EnterCompose(r)
  <2>1. PICK x, q : Go(r, [f EXCEPT !.pc = "compose", !.ctx = x, !.q = q])
    BY <1>6 DEF EnterCompose
  <2> DEFINE g == [f EXCEPT !.pc = "compose", !.ctx = x, !.q = q]
  <2>2. NoEntry /\ UNCHANGED raised /\ f.pc \notin Failing
    BY <1>6 DEF EnterCompose, InBody, Running, Failing, NoEntry
  <2>3. Carries(g) /\ g.err = None
    BY <1>2, <2>2 DEF Carries, Failing, Frame
  <2>4. Go(r, g)
    BY <2>1
  <2> HIDE DEF g
  <2> QED
    BY <1>1, <1>2, <2>2, <2>3, <2>4, QuietGo
<1>7. CASE ReturnFromInvoke(r)
  <2>1. PICK q : \/ GoBack(r, [c EXCEPT !.pc = "body"])
                 \/ Go(r, [f EXCEPT !.pc = "afterInvoke", !.q = q])
    BY <1>7 DEF ReturnFromInvoke, c
  <2> DEFINE b == [c EXCEPT !.pc = "body"]
             g == [f EXCEPT !.pc = "afterInvoke", !.q = q]
  <2>2. NoEntry /\ UNCHANGED raised /\ f.pc \notin Failing /\ Len(stack[r]) > 1
    BY <1>7 DEF ReturnFromInvoke, Running, Failing, NoEntry
  <2>3. Carries(g) /\ g.err = None /\ Carries(b) /\ b.err = None
    BY <1>2, <2>2 DEF Carries, Failing, Frame
  <2>4. GoBack(r, b) \/ Go(r, g)
    BY <2>1
  <2> HIDE DEF b, g
  <2> QED
    BY <1>1, <1>2, <2>2, <2>3, <2>4, QuietGo, QuietGoBack
<1>8. CASE ThrowInInvoke(r)
  <2>1. PICK e \in Thrown(r, "code") : Fail(r, e)
    BY <1>8 DEF ThrowInInvoke
  <2>2. e \in Error /\ e.by = r /\ Fresh(r, e)
    BY <1>1, <1>2, <1>8, ThrownFacts DEF Fresh, ThrowInInvoke, InBody, Running, Failing
  <2>3. Len(stack[r]) > 1
    BY <1>1, <1>8, TopFacts DEF ThrowInInvoke, InBody, Role, Inner
  <2> QED
    BY <1>1, <2>1, <2>2, <2>3, FailAccounted
<1>9. CASE Propagate(r)
  <2>1. f.pc \in Failing /\ Len(stack[r]) > 1 /\ Fail(r, f.err)
    BY <1>9 DEF Propagate, Running, Failing
  <2>2. f.err \in Error /\ f.err.by = r /\ Carried1(r, f.err)
    BY <1>2, <2>1 DEF Carried1
  <2> QED
    BY <1>1, <2>1, <2>2, FailAccounted
<1>10. CASE Swallow(r)
  <2> DEFINE g == [f EXCEPT !.pc = "body", !.err = None]
  <2>1. Go(r, g) /\ f.pc \in Failing /\ UNCHANGED raised
    BY <1>10 DEF Swallow, Running, Failing
  <2>2. Carries(g) /\ g.err = None
    BY <1>2 DEF Carries, Failing, Frame
  <2>3. Held(stack[r]) # None /\ EntryOf(Held(stack[r]))
    BY <1>1, <1>2, <1>10, <2>1 DEF Swallow, EntryOf
  <2> HIDE DEF g
  <2> QED
    BY <1>1, <2>1, <2>2, <2>3, SettleGo
<1> QED
  BY <1>3, <1>4, <1>5, <1>6, <1>7, <1>8, <1>9, <1>10

\* Startup.invoke begins, returns, or catches what the chain threw.
LEMMA StartupAccounted ==
  ASSUME AccountInv, IInv', NEW r \in Reqs, Begin(r) \/ Answer(r) \/ CatchAndAnswer(r)
  PROVE  Accounted(r)
<1> DEFINE none == <<>>
<1>1. IInv /\ stack \in [Reqs -> Seq(Frame)] /\ Carried(stack[r]) /\ Phases
  BY DEF AccountInv, IInv, Types
<1>2. Carried(none) /\ Held(none) = None
  BY DEF Carried, Held
<1> HIDE DEF none
<1>3. CASE Begin(r)
  <2>1. stack[r] = none /\ NoEntry /\ UNCHANGED raised
    BY <1>1, <1>3 DEF Begin, Phases, NoEntry, none
  <2>2. CASE UNCHANGED stack
    BY <1>1, <2>1, <2>2 DEF Accounted, Quiet
  <2>3. CASE stack' = [stack EXCEPT ![r] = <<NewFrame(<<Main[r], 0>>, r, 0, "compose", <<>>)>>]
    <3> DEFINE g == NewFrame(<<Main[r], 0>>, r, 0, "compose", none)
               t == <<g>>
    <3>1. Carries(g) /\ g.err = None
      BY DEF NewFrame, Carries, Failing
    <3> HIDE DEF g
    <3>2. Len(t) = 1 /\ t[1] = g /\ t # <<>>
      OBVIOUS
    <3> HIDE DEF t
    <3>3. stack' = [stack EXCEPT ![r] = t]
      BY <2>3 DEF t, g, none
    <3>4. stack'[r] = t /\ \A q \in Reqs \ {r} : stack'[q] = stack[q]
      BY <1>1, <3>3
    <3>5. Carried(t) /\ Held(t) = None
      BY <3>1, <3>2 DEF Carried, Held, Top
    <3> QED
      BY <1>2, <2>1, <3>4, <3>5 DEF Accounted, Quiet
  <2> QED
    BY <1>3, <2>2, <2>3 DEF Begin
<1>4. CASE Answer(r)
  <2>1. stack[r] # <<>> /\ Top(stack[r]).pc = "body"
    BY <1>4 DEF Answer, Running
  <2>2. Held(stack[r]) = None
    BY <2>1, HeldFacts DEF Failing
  <2>3. NoEntry /\ UNCHANGED raised /\ stack' = [stack EXCEPT ![r] = none]
    BY <1>4 DEF Answer, NoEntry, none
  <2>4. stack'[r] = none /\ \A q \in Reqs \ {r} : stack'[q] = stack[q]
    BY <1>1, <2>3
  <2> QED
    BY <1>2, <2>2, <2>3, <2>4 DEF Accounted, Quiet
<1>5. CASE CatchAndAnswer(r)
  <2>1. stack[r] # <<>> /\ Top(stack[r]).pc = "rejected"
    BY <1>5 DEF CatchAndAnswer, Running
  <2>2. Held(stack[r]) # None /\ Held(stack[r]) = Top(stack[r]).err
    BY <2>1, HeldFacts DEF Failing
  <2>3. UNCHANGED <<raised, settled>> /\ stack' = [stack EXCEPT ![r] = none]
        /\ errorStack' = [errorStack EXCEPT ![r] = Append(@, Top(stack[r]).err)]
    BY <1>5 DEF CatchAndAnswer, none
  <2>4. EntryOf(Held(stack[r]))
    BY <2>2, <2>3 DEF EntryOf
  <2>5. stack'[r] = none /\ \A q \in Reqs \ {r} : stack'[q] = stack[q]
    BY <1>1, <2>3
  <2> QED
    BY <1>2, <2>2, <2>3, <2>4, <2>5 DEF Accounted, Settle
<1> QED
  BY <1>3, <1>4, <1>5

-----------------------------------------------------------------------------
(* The theorem *)

\* At first nothing was thrown.
LEMMA AccountInit == Init => AccountInv
<1> SUFFICES ASSUME Init, NEW r \in Reqs PROVE Carried(stack[r]) /\ Ledger(r)
  BY InitHolds DEF AccountInv
<1> DEFINE none == <<>>
<1>1. stack[r] = none /\ raised[r] = 0 /\ settled = {} /\ \A c \in Reqs : errorStack[c] = none
  BY DEF Init
<1>2. Len(none) = 0 /\ DOMAIN none = {}
  OBVIOUS
<1>3. Held(none) = None
  BY DEF Held
<1> HIDE DEF none
<1>4. Carried(stack[r])
  BY <1>1, <1>2 DEF Carried
<1>5. ASSUME NEW n \in Nat \ {0}
      PROVE  Entry(r, n)
  <2>1. Recorded(r, n) = {}
    BY <1>1, <1>2 DEF Recorded
  <2>2. Settled(r, n) = {}
    BY <1>1 DEF Settled
  <2>3. n > raised[r]
    BY <1>1
  <2> QED
    BY <2>1, <2>2, <2>3 DEF Entry, Booked
<1> QED
  BY <1>1, <1>3, <1>4, <1>5 DEF Ledger, OwnError

\* Every step keeps the ledgers.
LEMMA AccountStep == AccountInv /\ [Next]_vars => AccountInv'
<1> SUFFICES ASSUME AccountInv, [Next]_vars PROVE AccountInv'
  OBVIOUS
<1>1. IInv /\ IInv'
  BY StepKeeps DEF AccountInv
<1>2. CASE UNCHANGED vars
  <2> SUFFICES ASSUME NEW r \in Reqs PROVE Carried(stack'[r]) /\ Ledger(r)'
    BY <1>1 DEF AccountInv
  <2>1. stack' = stack /\ raised' = raised /\ NoEntry
    BY <1>2 DEF vars, NoEntry
  <2>2. Carried(stack[r]) /\ Ledger(r)
    BY DEF AccountInv
  <2>3. \A n \in Nat : Booked(r, n)' = Booked(r, n)
    BY <2>1, NoEntryKeeps
  <2> HIDE DEF Booked
  <2>4. \A n \in Nat \ {0} : Entry(r, n) => Entry(r, n)'
    BY <2>1, <2>3 DEF Entry
  <2> QED
    BY <2>1, <2>2, <2>4 DEF Ledger, OwnError
<1>3. ASSUME NEW r \in Reqs, Begin(r) \/ Serve(r)
      PROVE  AccountInv'
  <2>1. Accounted(r)
    BY <1>1, <1>3, HooksAccounted, NextAccounted, InvokeAccounted, StartupAccounted DEF Serve
  <2>2. \A q \in Reqs : Ledger(q)'
    BY <1>1, <2>1, LedgerStep
  <2>3. \A q \in Reqs : Carried(stack'[q])
    BY <2>1 DEF Accounted, AccountInv
  <2> QED
    BY <1>1, <2>2, <2>3 DEF AccountInv
<1> QED
  BY <1>2, <1>3 DEF Next

\* Where the ledger says a value stands is where it is.
LEMMA LedgerTells ==
  ASSUME AccountInv, NEW r \in Reqs, NEW n \in 1 .. raised[r]
  PROVE  \E w : Whereabouts(r, n) = {w}
<1> DEFINE here(q) == {k \in DOMAIN stack[q] : IsRaised(stack[q][k].err, r, n)}
           P == Pending(r, n)
           h == Held(stack[r])
<1>1. Whereabouts(r, n) = P \cup Booked(r, n)
  BY DEF Whereabouts, Booked
<1>2. n \in Nat \ {0} /\ n <= raised[r] /\ IInv /\ Ledger(r)
  <2>1. raised[r] \in Nat
    BY DEF AccountInv, IInv, Types
  <2> QED
    BY <2>1 DEF AccountInv
<1>3. IF IsRaised(h, r, n) THEN Booked(r, n) = {} ELSE \E w : Booked(r, n) = {w}
  <2>1. Entry(r, n) /\ raised[r] \in Nat
    BY <1>2 DEF Ledger, IInv, Types
  <2> QED
    BY <1>2, <2>1 DEF Entry
<1>4. \A q \in Reqs : stack[q] \in Seq(Frame) /\ Carried(stack[q]) /\ OwnError(q)
  BY DEF AccountInv, IInv, Types, Ledger
<1>5. ASSUME NEW q \in Reqs
      PROVE  here(q) = IF IsRaised(Held(stack[q]), r, n) THEN {Len(stack[q])} ELSE {}
  <2> DEFINE s == stack[q]
  <2>1. s \in Seq(Frame) /\ Carried(s) /\ Len(s) \in Nat /\ DOMAIN s = 1 .. Len(s)
    BY <1>4
  <2>2. \A k \in 1 .. Len(s) : k < Len(s) => s[k].err = None
    BY <2>1 DEF Carried
  <2>3. CASE s = <<>>
    <3>1. Held(s) = None /\ DOMAIN s = {}
      BY <2>3 DEF Held
    <3> QED
      BY <3>1 DEF IsRaised
  <2>4. CASE s # <<>>
    <3>1. Len(s) \in 1 .. Len(s) /\ Held(s) = s[Len(s)].err
      BY <2>1, <2>4 DEF Held, Top
    <3>2. \A k \in 1 .. Len(s) : IsRaised(s[k].err, r, n) <=> k = Len(s) /\ IsRaised(Held(s), r, n)
      BY <2>1, <2>2, <3>1 DEF IsRaised
    <3> HIDE DEF s
    <3> QED
      BY <2>1, <3>1, <3>2 DEF s
  <2> QED
    BY <2>3, <2>4
<1>6. \A q \in Reqs : IsRaised(Held(stack[q]), r, n) => q = r
  BY <1>4 DEF OwnError, IsRaised
<1>7. P = IF IsRaised(h, r, n) THEN {<<"pending", r, Len(stack[r])>>} ELSE {}
  <2>1. P = UNION {{<<"pending", q, k>> : k \in here(q)} : q \in Reqs}
    BY Zenon DEF Pending
  <2> HIDE DEF here, P
  <2>2. \A q \in Reqs : here(q) = IF q = r /\ IsRaised(h, r, n) THEN {Len(stack[r])} ELSE {}
    BY <1>5, <1>6
  <2> QED
    BY <2>1, <2>2
<1> HIDE DEF P
<1> QED
  BY <1>1, <1>3, <1>7

\* Whatever next(), the hooks and Startup.invoke do with it, a thrown value is
\* never lost and never reported twice, for every lists of middlewares, bounds
\* and interleaving: IInv is strengthened with the ledger of every request (only
\* its running call carries an error, which is its own and booked nowhere).
THEOREM ErrorsAccounted == Spec => []ErrorAccounting
<1>1. AccountInv => ErrorAccounting
  <2> SUFFICES ASSUME AccountInv, NEW r \in Reqs, NEW n \in 1 .. raised[r]
               PROVE  Cardinality(Whereabouts(r, n)) = 1
    BY DEF ErrorAccounting
  <2>1. PICK w : Whereabouts(r, n) = {w}
    BY LedgerTells
  <2> QED
    BY <2>1, FS_Singleton
<1> QED
  BY <1>1, AccountInit, AccountStep, PTL DEF Spec

-----------------------------------------------------------------------------
(* What next() rejects with *)

\* Startup.invoke never calls next(), the head of a list is called by the code
\* that runs the list, and a middleware sees no plain error of another's code.
Spares(f) ==
  f.pc = "rejected" /\ Role(f.at) \notin {"startup", "compose"}
    => f.err.kind = "breakthrough" \/ f.err.origin # "code"
Waits(f) == ~Inner(f) => f.pc \in {"compose", "calling", "body", "rejected"}

Spared(s) ==
  \A k \in 1 .. Len(s) :
    /\ Spares(s[k]) /\ Waits(s[k])
    /\ k > 1 /\ Root(s[k].at) => Role(s[k - 1].at) \in {"startup", "compose"}

SparedInv == IInv /\ \A r \in Reqs : Spared(stack[r])

\* The running call goes on, returns or makes a call.
LEMMA GoSpares ==
  ASSUME IInv, IInv', NEW r \in Reqs, stack[r] # <<>>, Spared(stack[r]),
         NEW f, f.at = Top(stack[r]).at, Spares(f), Waits(f), Go(r, f)
  PROVE  Spared(stack'[r]) /\ \A q \in Reqs \ {r} : stack'[q] = stack[q]
<1> DEFINE s == stack[r]
           t == stack'[r]
<1>1. /\ t # <<>> /\ Len(t) = Len(s) /\ Len(s) \in Nat \ {0} /\ t[Len(s)] = f
      /\ \A k \in 1 .. Len(s) - 1 : t[k] = s[k]
      /\ \A q \in Reqs \ {r} : stack'[q] = stack[q]
  BY AfterGo
<1>2. f.at = s[Len(s)].at
  BY DEF Top
<1> HIDE DEF s, t
<1>3. ASSUME NEW k \in 1 .. Len(t)
      PROVE  /\ Spares(t[k]) /\ Waits(t[k])
             /\ k > 1 /\ Root(t[k].at) => Role(t[k - 1].at) \in {"startup", "compose"}
  <2>1. k \in 1 .. Len(s) /\ t[k].at = s[k].at /\ (k > 1 => t[k - 1].at = s[k - 1].at)
    BY <1>1, <1>2
  <2>2. k > 1 /\ Root(s[k].at) => Role(s[k - 1].at) \in {"startup", "compose"}
    BY <2>1 DEF Spared, s
  <2>3. Spares(t[k]) /\ Waits(t[k])
    BY <1>1, <2>1 DEF Spared, s
  <2> QED
    BY <2>1, <2>2, <2>3
<1> QED
  BY <1>1, <1>3 DEF Spared, s, t

\* The running call ends and its caller goes on as f.
LEMMA GoBackSpares ==
  ASSUME IInv, IInv', NEW r \in Reqs, Len(stack[r]) > 1, Spared(stack[r]),
         NEW f, f.at = Caller(stack[r]).at, Spares(f), Waits(f), GoBack(r, f)
  PROVE  Spared(stack'[r]) /\ \A q \in Reqs \ {r} : stack'[q] = stack[q]
<1> DEFINE s == stack[r]
           t == stack'[r]
<1>1. /\ t # <<>> /\ Len(t) = Len(s) - 1 /\ Len(s) \in Nat \ {0, 1} /\ t[Len(s) - 1] = f
      /\ \A k \in 1 .. Len(s) - 2 : t[k] = s[k]
      /\ \A q \in Reqs \ {r} : stack'[q] = stack[q]
  BY AfterGoBack
<1>2. f.at = s[Len(s) - 1].at
  BY DEF Caller
<1> HIDE DEF s, t
<1>3. ASSUME NEW k \in 1 .. Len(t)
      PROVE  /\ Spares(t[k]) /\ Waits(t[k])
             /\ k > 1 /\ Root(t[k].at) => Role(t[k - 1].at) \in {"startup", "compose"}
  <2>1. k \in 1 .. Len(s) /\ t[k].at = s[k].at /\ (k > 1 => t[k - 1].at = s[k - 1].at)
    BY <1>1, <1>2
  <2>2. k > 1 /\ Root(s[k].at) => Role(s[k - 1].at) \in {"startup", "compose"}
    BY <2>1 DEF Spared, s
  <2>3. Spares(t[k]) /\ Waits(t[k])
    BY <1>1, <2>1 DEF Spared, s
  <2> QED
    BY <2>1, <2>2, <2>3
<1> QED
  BY <1>1, <1>3 DEF Spared, s, t

\* The running call makes another one.
LEMMA CallSpares ==
  ASSUME IInv, IInv', NEW r \in Reqs, stack[r] # <<>>, Spared(stack[r]),
         NEW f, f.at = Top(stack[r]).at, Spares(f), Waits(f), NEW g, Spares(g), Waits(g),
         Root(g.at) => Role(f.at) \in {"startup", "compose"}, GoAndCall(r, f, g)
  PROVE  Spared(stack'[r]) /\ \A q \in Reqs \ {r} : stack'[q] = stack[q]
<1> DEFINE s == stack[r]
           t == stack'[r]
<1>1. /\ t # <<>> /\ Len(t) = Len(s) + 1 /\ Len(s) \in Nat \ {0}
      /\ t[Len(s)] = f /\ t[Len(s) + 1] = g
      /\ \A k \in 1 .. Len(s) - 1 : t[k] = s[k]
      /\ \A q \in Reqs \ {r} : stack'[q] = stack[q]
  BY AfterCall
<1>2. f.at = s[Len(s)].at
  BY DEF Top
<1> HIDE DEF s, t
<1>3. ASSUME NEW k \in 1 .. Len(t)
      PROVE  /\ Spares(t[k]) /\ Waits(t[k])
             /\ k > 1 /\ Root(t[k].at) => Role(t[k - 1].at) \in {"startup", "compose"}
  <2>1. CASE k = Len(s) + 1
    BY <1>1, <2>1
  <2>2. CASE k # Len(s) + 1
    <3>1. k \in 1 .. Len(s) /\ t[k].at = s[k].at /\ (k > 1 => t[k - 1].at = s[k - 1].at)
      BY <1>1, <1>2, <2>2
    <3>2. k > 1 /\ Root(s[k].at) => Role(s[k - 1].at) \in {"startup", "compose"}
      BY <3>1 DEF Spared, s
    <3>3. Spares(t[k]) /\ Waits(t[k])
      BY <1>1, <3>1 DEF Spared, s
    <3> QED
      BY <3>1, <3>2, <3>3
  <2> QED
    BY <2>1, <2>2
<1> QED
  BY <1>1, <1>3 DEF Spared, s, t

SparesOn(r) == Spared(stack'[r]) /\ \A q \in Reqs \ {r} : stack'[q] = stack[q]

\* What a step of r starts from.
LEMMA SparedTop ==
  ASSUME SparedInv, NEW r \in Reqs, stack[r] # <<>>
  PROVE  LET f == Top(stack[r])
             c == Caller(stack[r])
         IN /\ IInv /\ Spared(stack[r])
            /\ f \in Frame /\ FrameOK(f) /\ Spares(f) /\ Waits(f) /\ (Inner(f) <=> Len(stack[r]) > 1)
            /\ Len(stack[r]) > 1 => /\ c \in Frame /\ Spares(c) /\ Waits(c)
                                    /\ Root(f.at) => Role(c.at) \in {"startup", "compose"}
<1> DEFINE s == stack[r]
<1>1. IInv /\ Spared(s) /\ s \in Seq(Frame) /\ Len(s) \in Nat \ {0} /\ Top(s) = s[Len(s)] /\ Len(s) \in 1 .. Len(s)
  BY TopFacts DEF SparedInv
<1>2. /\ Top(s) \in Frame /\ FrameOK(Top(s)) /\ (Inner(Top(s)) <=> Len(s) > 1)
      /\ Len(s) > 1 => Caller(s) \in Frame
  BY <1>1, TopFacts
<1>3. Len(s) > 1 => Len(s) - 1 \in 1 .. Len(s) /\ Caller(s) = s[Len(s) - 1]
  BY <1>1 DEF Caller
<1> QED
  BY <1>1, <1>2, <1>3 DEF Spared

\* What next() continues with stands behind a middleware, not at a list's head.
LEMMA NextIsBehind ==
  ASSUME IInv, NEW r \in Reqs, stack[r] # <<>>, Inner(Top(stack[r]))
  PROVE  ~Root(Successor(This(r, Top(stack[r])).at)) /\ Successor(This(r, Top(stack[r])).at)[2] # 0
<1> DEFINE s == stack[r]
           f == Top(s)
<1>1. s \in Seq(Frame) /\ Len(s) \in Nat \ {0} /\ f = s[Len(s)] /\ f \in Frame /\ Chained(r, s, owner)
      /\ This(r, f).at \in Places /\ This(r, f).at = ThisAt(s, Len(s))
  BY TopFacts DEF IInv
<1>2. \A k \in 1 .. Len(s) : k # 1 => Inner(s[k])
  BY DEF IInv, Chained
<1>3. ThisAt(s, Len(s))[2] # 0
  <2>1. CASE Role(f.at) # "tail"
    BY <1>1, <2>1 DEF ThisAt, Inner
  <2>2. CASE Role(f.at) = "tail"
    <3>1. f.at \in Places /\ f.at[2] # 0 /\ ItemAt(f.at).role = "tail"
      BY <1>1, <2>2 DEF Frame, Role
    <3>2. f.at[1] # Main[r]
      BY <3>1, ItemFacts
    <3>3. f.home \in 2 .. Len(s) - 1
      BY <1>1, <3>1, <3>2 DEF Chained, Inner
    <3>4. Inner(s[f.home])
      BY <1>1, <1>2, <3>3
    <3> QED
      BY <1>1, <2>2, <3>4 DEF ThisAt, Inner
  <2> QED
    BY <2>1, <2>2
<1>4. This(r, f).at[2] \in Nat \ {0}
  BY <1>1, <1>3, PlaceType
<1> QED
  BY <1>4 DEF Successor, Root

\* A phase that is not a rejection spares anyone.
LEMMA CalmSpares ==
  ASSUME NEW f, f.pc # "rejected"
  PROVE  Spares(f)
BY DEF Spares

\* The error paths.
LEMMA FailSpares ==
  ASSUME SparedInv, IInv', NEW r \in Reqs, Len(stack[r]) > 1, NEW e \in Error, Fail(r, e)
  PROVE  SparesOn(r)
<1> DEFINE f == Top(stack[r])
           c == Caller(stack[r])
           x == TypeErrorFor(r, e)
           h == Handling(f, "onError", e, This(r, c).ctx)
<1>1. /\ stack[r] # <<>> /\ IInv /\ Spared(stack[r])
  BY DEF SparedInv, IInv, Types
<1>2. /\ f \in Frame /\ Inner(f) /\ c \in Frame
      /\ Root(f.at) => Role(c.at) \in {"startup", "compose"}
  BY <1>1, SparedTop
<1>3. ASSUME NEW y, Role(c.at) \in {"startup", "compose"} \/ y.kind = "breakthrough" \/ y.origin # "code"
      PROVE  Rejected(c, y).at = c.at /\ Spares(Rejected(c, y)) /\ Waits(Rejected(c, y))
  BY <1>2, <1>3 DEF Rejected, Spares, Waits, Frame
<1>4. h.at = f.at /\ Spares(h) /\ Waits(h)
  BY <1>2 DEF Handling, Spares, Waits, Inner, Frame
<1>5. x.origin = "catch"
  BY DEF TypeErrorFor, NewError
<1> HIDE DEF f, c, x, h
<1>6. \/ GoBack(r, Rejected(c, e)) /\ (Root(f.at) \/ e.kind = "breakthrough")
      \/ Go(r, h)
      \/ GoBack(r, Rejected(c, x))
  BY DEF Fail, f, c, x, h
<1>7. CASE GoBack(r, Rejected(c, e)) /\ (Root(f.at) \/ e.kind = "breakthrough")
  <2>1. Role(c.at) \in {"startup", "compose"} \/ e.kind = "breakthrough"
    BY <1>2, <1>7
  <2>2. Rejected(c, e).at = c.at /\ Spares(Rejected(c, e)) /\ Waits(Rejected(c, e))
    BY <1>3, <2>1
  <2> QED
    BY <1>1, <1>7, <2>2, GoBackSpares DEF SparesOn, c
<1>8. CASE Go(r, h)
  BY <1>1, <1>4, <1>8, GoSpares DEF SparesOn, f
<1>9. CASE GoBack(r, Rejected(c, x))
  <2>1. Rejected(c, x).at = c.at /\ Spares(Rejected(c, x)) /\ Waits(Rejected(c, x))
    BY <1>3, <1>5
  <2> QED
    BY <1>1, <1>9, <2>1, GoBackSpares DEF SparesOn, c
<1> QED
  BY <1>6, <1>7, <1>8, <1>9

\* So does the catch clause of a next() that has no next middleware yet.
LEMMA FailNextSpares ==
  ASSUME SparedInv, IInv', NEW r \in Reqs, stack[r] # <<>>, Inner(Top(stack[r])), NEW e \in Error, FailNext(r, e)
  PROVE  SparesOn(r)
<1> DEFINE f == Top(stack[r])
           x == TypeErrorFor(r, e)
           h == Handling(f, "onNextError", e, This(r, f).ctx)
<1>1. IInv /\ Spared(stack[r])
  BY DEF SparedInv
<1>2. f \in Frame /\ Inner(f)
  BY <1>1, SparedTop
<1>3. ASSUME NEW y, y.kind = "breakthrough" \/ y.origin # "code"
      PROVE  Rejected(f, y).at = f.at /\ Spares(Rejected(f, y)) /\ Waits(Rejected(f, y))
  BY <1>2, <1>3 DEF Rejected, Spares, Waits, Frame
<1>4. h.at = f.at /\ Spares(h) /\ Waits(h)
  BY <1>2 DEF Handling, Spares, Waits, Inner, Frame
<1>5. x.origin = "catch"
  BY DEF TypeErrorFor, NewError
<1> HIDE DEF f, x, h
<1>6. \/ Go(r, Rejected(f, e)) /\ e.kind = "breakthrough"
      \/ Go(r, h)
      \/ Go(r, Rejected(f, x))
  BY DEF FailNext, f, x, h
<1>7. CASE Go(r, Rejected(f, e)) /\ e.kind = "breakthrough"
  <2>1. Rejected(f, e).at = f.at /\ Spares(Rejected(f, e)) /\ Waits(Rejected(f, e))
    BY <1>3, <1>7
  <2> QED
    BY <1>1, <1>7, <2>1, GoSpares DEF SparesOn, f
<1>8. CASE Go(r, h)
  BY <1>1, <1>4, <1>8, GoSpares DEF SparesOn, f
<1>9. CASE Go(r, Rejected(f, x))
  <2>1. Rejected(f, x).at = f.at /\ Spares(Rejected(f, x)) /\ Waits(Rejected(f, x))
    BY <1>3, <1>5
  <2> QED
    BY <1>1, <1>9, <2>1, GoSpares DEF SparesOn, f
<1> QED
  BY <1>6, <1>7, <1>8, <1>9

\* What execHooks and the end of next() leave behind spares the caller.
LEMMA RestSpares ==
  ASSUME SparedInv, IInv', NEW r \in Reqs, stack[r] # <<>>,
         \/ Go(r, Resumed(Top(stack[r])))
         \/ Len(stack[r]) > 1 /\ GoBack(r, Resumed(Caller(stack[r])))
  PROVE  SparesOn(r)
<1> DEFINE f == Top(stack[r])
           c == Caller(stack[r])
<1>1. ASSUME NEW g \in Frame
      PROVE  Resumed(g).at = g.at /\ Spares(Resumed(g)) /\ Waits(Resumed(g))
  BY <1>1 DEF Resumed, Spares, Waits, Frame
<1>2. IInv /\ Spared(stack[r]) /\ f \in Frame /\ (Len(stack[r]) > 1 => c \in Frame)
  BY SparedTop
<1> HIDE DEF f, c
<1>3. \/ Go(r, Resumed(f))
      \/ Len(stack[r]) > 1 /\ GoBack(r, Resumed(c))
  BY DEF f, c
<1> QED
  BY <1>1, <1>2, <1>3, GoSpares, GoBackSpares DEF SparesOn, f, c

\* execHooks and its outcomes.
LEMMA HooksSpare ==
  ASSUME SparedInv, IInv', NEW r \in Reqs,
         HookPasses(r) \/ HookEndsLoop(r) \/ HookVetoes(r) \/ HookHandles(r)
           \/ HookThrows(r) \/ ErrorHookThrows(r)
  PROVE  SparesOn(r)
<1> DEFINE f == Top(stack[r])
           c == Caller(stack[r])
<1>1. stack[r] # <<>> /\ IInv /\ Types
  BY DEF HookPasses, HookEndsLoop, HookVetoes, HookHandles, HookThrows, ErrorHookThrows, InHook, SparedInv, IInv
<1>2. /\ Spared(stack[r]) /\ f \in Frame /\ Spares(f) /\ Waits(f) /\ (Inner(f) <=> Len(stack[r]) > 1)
      /\ f.pc \in {"beforeInvoke", "afterInvoke", "onError"} => Len(stack[r]) > 1
      /\ Len(stack[r]) > 1 => c \in Frame
  BY <1>1, SparedTop DEF FrameOK
<1>3. ASSUME NEW q, Go(r, [f EXCEPT !.q = q]), f.pc \in HookPhases
      PROVE  SparesOn(r)
  <2> DEFINE g == [f EXCEPT !.q = q]
  <2>1. g.at = f.at /\ Spares(g) /\ Waits(g)
    BY <1>2, <1>3 DEF Spares, Waits, Inner, Frame
  <2> HIDE DEF g
  <2>2. Go(r, g)
    BY <1>3 DEF g
  <2> QED
    BY <1>1, <1>2, <2>1, <2>2, GoSpares DEF SparesOn
<1>4. CASE HookPasses(r)
  BY <1>3, <1>4 DEF HookPasses, InHook
<1>5. CASE HookEndsLoop(r)
  BY <1>3, <1>5 DEF HookEndsLoop, InHook, HookPhases
<1>6. CASE HookVetoes(r)
  BY <1>1, <1>2, <1>6, RestSpares DEF HookVetoes, InHook
<1>7. CASE HookHandles(r)
  BY <1>1, <1>2, <1>7, RestSpares DEF HookHandles, InHook
<1>8. CASE HookThrows(r)
  <2>1. PICK e \in Thrown(r, "code") :
          \/ f.pc \in {"beforeNext", "create"} /\ FailNext(r, e)
          \/ Len(stack[r]) > 1 /\ Fail(r, e)
    BY <1>2, <1>8 DEF HookThrows, InHook
  <2>2. e \in Error
    BY <1>1, ThrownFacts
  <2>3. f.pc \in {"beforeNext", "create"} => Inner(f)
    BY <1>2 DEF Waits
  <2> QED
    BY <1>1, <2>1, <2>2, <2>3, FailSpares, FailNextSpares
<1>9. CASE ErrorHookThrows(r)
  <2>1. PICK e \in Thrown(r, "errorHook") :
          /\ f.pc \in {"onError", "onNextError"}
          /\ IF f.pc = "onError" THEN GoBack(r, Rejected(c, e)) ELSE Go(r, Rejected(f, e))
    BY <1>9 DEF ErrorHookThrows, InHook
  <2>2. e.origin = "errorHook"
    BY <1>1, ThrownFacts
  <2>3. ASSUME NEW g \in Frame
        PROVE  Rejected(g, e).at = g.at /\ Spares(Rejected(g, e)) /\ Waits(Rejected(g, e))
    BY <2>2, <2>3 DEF Rejected, Spares, Waits, Frame
  <2>4. CASE f.pc = "onError"
    BY <1>1, <1>2, <2>1, <2>3, <2>4, GoBackSpares DEF SparesOn
  <2>5. CASE f.pc # "onError"
    BY <1>1, <1>2, <2>1, <2>3, <2>5, GoSpares DEF SparesOn
  <2> QED
    BY <2>4, <2>5
<1> QED
  BY <1>4, <1>5, <1>6, <1>7, <1>8, <1>9

\* next() itself.
LEMMA NextSpares ==
  ASSUME SparedInv, IInv', NEW r \in Reqs,
         AfterBeforeNext(r) \/ InitNext(r) \/ CreateFails(r) \/ InvokeNext(r) \/ FinishNext(r)
           \/ CatchError(r)
  PROVE  SparesOn(r)
<1> DEFINE f == Top(stack[r])
           c == Caller(stack[r])
<1>1. stack[r] # <<>> /\ IInv /\ Types
  BY DEF AfterBeforeNext, InitNext, CreateFails, InvokeNext, FinishNext, CatchError, Running, SparedInv, IInv
<1>2. /\ Spared(stack[r]) /\ f \in Frame /\ Spares(f) /\ Waits(f) /\ (Inner(f) <=> Len(stack[r]) > 1)
      /\ f.pc \in {"beforeInvoke", "afterInvoke", "onError"} => Len(stack[r]) > 1
      /\ Len(stack[r]) > 1 => c \in Frame
  BY <1>1, SparedTop DEF FrameOK
<1>3. f.pc \in {"beforeNext", "create"} => Inner(f)
  BY <1>2 DEF Waits
<1>4. CASE AfterBeforeNext(r)
  <2>1. PICK q : Go(r, Resumed(f)) \/ Go(r, [f EXCEPT !.pc = "create", !.q = q])
    BY <1>4 DEF AfterBeforeNext
  <2> DEFINE g == [f EXCEPT !.pc = "create", !.q = q]
  <2>2. Inner(f)
    BY <1>3, <1>4 DEF AfterBeforeNext, Running
  <2>3. g.at = f.at /\ Spares(g) /\ Waits(g)
    BY <1>2, <2>2 DEF Spares, Waits, Inner, Frame
  <2> HIDE DEF g
  <2>4. Go(r, Resumed(f)) \/ Go(r, g)
    BY <2>1 DEF g
  <2> QED
    BY <1>1, <1>2, <2>3, <2>4, RestSpares, GoSpares DEF SparesOn
<1>5. CASE InitNext(r)
  <2> DEFINE g == [f EXCEPT !.pc = "calling"]
             this == This(r, f)
             h == NewFrame(Successor(this.at), this.ctx, this.home, "beforeInvoke",
                           HooksOf(this.ctx, "BeforeInvoke"))
  <2>1. GoAndCall(r, g, h) /\ Inner(f)
    BY <1>3, <1>5 DEF InitNext, GoAndCall, Running
  <2>2. g.at = f.at /\ Spares(g) /\ Waits(g)
    BY <1>2, <2>1 DEF Spares, Waits, Frame
  <2>3. ~Root(h.at) /\ h.pc = "beforeInvoke" /\ Inner(h)
    BY <1>1, <2>1, NextIsBehind DEF NewFrame, Inner
  <2>4. Spares(h) /\ Waits(h)
    BY <2>3 DEF Spares, Waits
  <2> HIDE DEF g, h
  <2> QED
    BY <1>1, <1>2, <2>1, <2>2, <2>3, <2>4, CallSpares DEF SparesOn
<1>6. CASE CreateFails(r)
  <2>1. PICK e \in Thrown(r, "code") : FailNext(r, e)
    BY <1>6 DEF CreateFails
  <2>2. e \in Error /\ Inner(f)
    BY <1>1, <1>3, <1>6, ThrownFacts DEF CreateFails, Running
  <2> QED
    BY <1>1, <2>1, <2>2, FailNextSpares
<1>7. CASE InvokeNext(r)
  <2> DEFINE g == [f EXCEPT !.pc = "body"]
  <2>1. g.at = f.at /\ Spares(g) /\ Waits(g)
    BY <1>2 DEF Spares, Waits, Frame
  <2>2. Go(r, g)
    BY <1>7 DEF InvokeNext
  <2> HIDE DEF g
  <2> QED
    BY <1>1, <1>2, <2>1, <2>2, GoSpares DEF SparesOn
<1>8. CASE FinishNext(r)
  BY <1>1, <1>2, <1>8, RestSpares DEF FinishNext, Running
<1>9. CASE CatchError(r)
  <2>1. Go(r, Resumed(f)) \/ (Len(stack[r]) > 1 /\ GoBack(r, Resumed(c)))
    BY <1>2, <1>9 DEF CatchError, Running
  <2> QED
    BY <1>1, <2>1, RestSpares
<1> QED
  BY <1>4, <1>5, <1>6, <1>7, <1>8, <1>9

\* The code of Startup.invoke and of the middlewares.
LEMMA InvokeSpares ==
  ASSUME SparedInv, IInv', NEW r \in Reqs,
         InvokeFirst(r) \/ FirstFails(r) \/ CallNext(r) \/ RegisterHook(r) \/ EnterCompose(r)
           \/ ReturnFromInvoke(r) \/ ThrowInInvoke(r) \/ Propagate(r) \/ Swallow(r)
  PROVE  SparesOn(r)
<1> DEFINE f == Top(stack[r])
           c == Caller(stack[r])
<1>1. stack[r] # <<>> /\ IInv /\ Types
  BY DEF InvokeFirst, FirstFails, CallNext, RegisterHook, EnterCompose, ReturnFromInvoke,
         ThrowInInvoke, Propagate, Swallow, InBody, Running, SparedInv, IInv
<1>2. /\ Spared(stack[r]) /\ f \in Frame /\ FrameOK(f) /\ Spares(f) /\ Waits(f)
      /\ (Inner(f) <=> Len(stack[r]) > 1)
      /\ Len(stack[r]) > 1 => c \in Frame
  BY <1>1, SparedTop
<1>3. Role(f.at) \in {"user", "hook", "tail", "compose"} => Inner(f)
  BY DEF Role, Inner
<1>4. f.pc = "compose" => Role(f.at) \in {"startup", "compose"}
  BY <1>2 DEF FrameOK
<1>5. CASE InvokeFirst(r)
  <2> DEFINE g == [f EXCEPT !.pc = "calling", !.calls = 1]
             none == <<>>
             h == NewFrame(<<ListOf(f.at), 1>>, f.ctx, Len(stack[r]), "body", none)
  <2>1. GoAndCall(r, g, h) /\ Role(f.at) \in {"startup", "compose"}
    BY <1>4, <1>5 DEF InvokeFirst, GoAndCall, Running
  <2>2. g.at = f.at /\ Spares(g) /\ Waits(g)
    BY <1>2 DEF Spares, Waits, Frame
  <2> HIDE DEF none
  <2>3. Spares(h) /\ Waits(h)
    BY DEF NewFrame, Spares, Waits
  <2> HIDE DEF g, h
  <2> QED
    BY <1>1, <1>2, <2>1, <2>2, <2>3, CallSpares DEF SparesOn
<1>6. CASE FirstFails(r)
  <2>1. PICK e \in Thrown(r, "code") : Go(r, Rejected(f, e))
    BY <1>6 DEF FirstFails
  <2> DEFINE g == Rejected(f, e)
  <2>2. g.at = f.at /\ Spares(g) /\ Waits(g)
    BY <1>2, <1>4, <1>6 DEF FirstFails, Running, Rejected, Spares, Waits, Frame
  <2> HIDE DEF g
  <2>3. Go(r, g)
    BY <2>1 DEF g
  <2> QED
    BY <1>1, <1>2, <2>2, <2>3, GoSpares DEF SparesOn
<1>7. ASSUME CallNext(r) \/ RegisterHook(r)
      PROVE  SparesOn(r)
  <2>1. PICK q : Go(r, [f EXCEPT !.pc = "beforeNext", !.calls = @ + 1, !.q = q])
    BY <1>7 DEF CallNext, RegisterHook, StartNext
  <2> DEFINE g == [f EXCEPT !.pc = "beforeNext", !.calls = @ + 1, !.q = q]
  <2>2. Inner(f)
    BY <1>3, <1>7 DEF CallNext, RegisterHook, InBody
  <2>3. g.at = f.at /\ Spares(g) /\ Waits(g)
    BY <1>2, <2>2 DEF Spares, Waits, Inner, Frame
  <2> HIDE DEF g
  <2>4. Go(r, g)
    BY <2>1 DEF g
  <2> QED
    BY <1>1, <1>2, <2>3, <2>4, GoSpares DEF SparesOn
<1>8. CASE EnterCompose(r)
  <2>1. PICK x, q : Go(r, [f EXCEPT !.pc = "compose", !.ctx = x, !.q = q])
    BY <1>8 DEF EnterCompose
  <2> DEFINE g == [f EXCEPT !.pc = "compose", !.ctx = x, !.q = q]
  <2>2. g.at = f.at /\ Spares(g) /\ Waits(g)
    BY <1>2 DEF Spares, Waits, Frame
  <2> HIDE DEF g
  <2>3. Go(r, g)
    BY <2>1 DEF g
  <2> QED
    BY <1>1, <1>2, <2>2, <2>3, GoSpares DEF SparesOn
<1>9. CASE ReturnFromInvoke(r)
  <2>1. PICK q : \/ GoBack(r, [c EXCEPT !.pc = "body"])
                 \/ Go(r, [f EXCEPT !.pc = "afterInvoke", !.q = q])
    BY <1>9 DEF ReturnFromInvoke
  <2> DEFINE b == [c EXCEPT !.pc = "body"]
             g == [f EXCEPT !.pc = "afterInvoke", !.q = q]
  <2>2. Len(stack[r]) > 1 /\ Inner(f)
    BY <1>2, <1>9 DEF ReturnFromInvoke
  <2>3. /\ g.at = f.at /\ Spares(g) /\ Waits(g)
        /\ b.at = c.at /\ Spares(b) /\ Waits(b)
    BY <1>2, <2>2 DEF Spares, Waits, Inner, Frame
  <2> HIDE DEF b, g
  <2>4. GoBack(r, b) \/ Go(r, g)
    BY <2>1 DEF b, g
  <2> QED
    BY <1>1, <1>2, <2>2, <2>3, <2>4, GoSpares, GoBackSpares DEF SparesOn
<1>10. CASE ThrowInInvoke(r)
  <2>1. PICK e \in Thrown(r, "code") : Fail(r, e)
    BY <1>10 DEF ThrowInInvoke
  <2>2. e \in Error /\ Len(stack[r]) > 1
    BY <1>1, <1>2, <1>3, <1>10, ThrownFacts DEF ThrowInInvoke, InBody
  <2> QED
    BY <2>1, <2>2, FailSpares
<1>11. CASE Propagate(r)
  <2>1. Len(stack[r]) > 1 /\ Fail(r, f.err) /\ f.err \in Error
    BY <1>2, <1>11 DEF Propagate, Running, FrameOK
  <2> QED
    BY <2>1, FailSpares
<1>12. CASE Swallow(r)
  <2> DEFINE g == [f EXCEPT !.pc = "body", !.err = None]
  <2>1. g.at = f.at /\ Spares(g) /\ Waits(g)
    BY <1>2 DEF Spares, Waits, Frame
  <2>2. Go(r, g)
    BY <1>12 DEF Swallow
  <2> HIDE DEF g
  <2> QED
    BY <1>1, <1>2, <2>1, <2>2, GoSpares DEF SparesOn
<1> QED
  BY <1>5, <1>6, <1>7, <1>8, <1>9, <1>10, <1>11, <1>12

\* Startup.invoke begins and ends.
LEMMA StartupSpares ==
  ASSUME SparedInv, IInv', NEW r \in Reqs, Begin(r) \/ Answer(r) \/ CatchAndAnswer(r)
  PROVE  SparesOn(r)
<1> DEFINE none == <<>>
           g == NewFrame(<<Main[r], 0>>, r, 0, "compose", none)
           t == <<g>>
<1>1. stack \in [Reqs -> Seq(Frame)] /\ Spared(stack[r])
  BY DEF SparedInv, IInv, Types
<1>2. Spared(none)
  BY DEF Spared
<1>3. g.pc = "compose" /\ Spares(g) /\ Waits(g)
  <2> HIDE DEF none
  <2> QED
    BY DEF NewFrame, Spares, Waits
<1>4. \/ UNCHANGED stack \/ stack' = [stack EXCEPT ![r] = none] \/ stack' = [stack EXCEPT ![r] = t]
  BY DEF Begin, Answer, CatchAndAnswer
<1> HIDE DEF g
<1>5. Len(t) = 1 /\ t[1] = g
  OBVIOUS
<1> HIDE DEF none, t
<1>6. Spared(t)
  BY <1>3, <1>5 DEF Spared
<1> QED
  BY <1>1, <1>2, <1>4, <1>6 DEF SparesOn

\* A middleware that calls next() is spared the errors of the code behind it:
\* next() rejects into it only with a breakthrough error, with what an Error
\* hook threw or with the catch clause's own TypeError, for every lists of
\* middlewares.  The invariant adds that only the code that runs a list calls
\* its head, the one place from where a plain error passes.
THEOREM NextSparesCallers == Spec => []NextSparesItsCaller
<1>1. Init => SparedInv
  <2> SUFFICES ASSUME Init, NEW r \in Reqs PROVE Spared(stack[r])
    BY InitHolds DEF SparedInv
  <2>1. stack[r] = <<>>
    BY DEF Init
  <2> QED
    BY <2>1 DEF Spared
<1>2. SparedInv /\ [Next]_vars => SparedInv'
  <2> SUFFICES ASSUME SparedInv, [Next]_vars PROVE SparedInv'
    OBVIOUS
  <2>1. IInv'
    BY StepKeeps DEF SparedInv
  <2>2. CASE UNCHANGED vars
    BY <2>1, <2>2 DEF vars, SparedInv, Spared
  <2>3. ASSUME NEW r \in Reqs, Begin(r) \/ Serve(r)
        PROVE  SparedInv'
    <3>1. SparesOn(r)
      BY <2>1, <2>3, HooksSpare, NextSpares, InvokeSpares, StartupSpares DEF Serve
    <3> QED
      BY <2>1, <3>1 DEF SparesOn, SparedInv
  <2> QED
    BY <2>2, <2>3 DEF Next
<1>3. SparedInv => NextSparesItsCaller
  <2> SUFFICES ASSUME SparedInv, NEW r \in Reqs, NEW k \in DOMAIN stack[r] PROVE Spares(stack[r][k])
    BY DEF NextSparesItsCaller, Spares
  <2>1. k \in 1 .. Len(stack[r])
    BY DEF SparedInv, IInv, Types
  <2> QED
    BY <2>1 DEF SparedInv, Spared
<1> QED
  BY <1>1, <1>2, <1>3, PTL DEF Spec

-----------------------------------------------------------------------------
(* With a middleware of its own for every request, no request is disturbed *)
(* by the others: theorems about lists without an item of build            *)
(* "instance", that is without add(new Md()).                              *)

NoInstances ==
  \A l \in DOMAIN mds : \A i \in 1 .. Len(mds[l]) : mds[l][i].build # "instance"

-----------------------------------------------------------------------------
\* A pending call of r works on r's context and carries r's errors.
OwnFrame(r, f) ==
  /\ f.ctx = r
  /\ f.pc \in {"rejected", "onError", "onNextError"} => f.err.by = r

OwnCalls(r, s) == \A k \in 1 .. Len(s) : OwnFrame(r, s[k])

Own == \A r \in Reqs : OwnCalls(r, stack[r])

IsolationInv == IInv /\ Own /\ ErrorsReportedToOwner

\* What a step of r does to the state at most.
LocalStack(r) == OwnCalls(r, stack'[r]) /\ \A q \in Reqs \ {r} : stack'[q] = stack[q]
LocalErrors(r) ==
  \/ errorStack' = errorStack
  \/ \E e \in Error : e.by = r /\ errorStack' = [errorStack EXCEPT ![r] = Append(@, e)]
LocalHooks(r) == \A q \in Reqs \ {r} : hooks'[q] = hooks[q]
LocalPhase(r) ==
  \/ phase' = phase /\ stack[r] # <<>>
  \/ /\ phase[r] = "idle" /\ errorStack' = errorStack /\ hooks' = hooks
     /\ \E p \in {"open", "done"} : phase' = [phase EXCEPT ![r] = p]
  \/ stack[r] # <<>> /\ phase' = [phase EXCEPT ![r] = "done"]

Local(r) == LocalStack(r) /\ LocalErrors(r) /\ LocalHooks(r) /\ LocalPhase(r)

\* With no instance, next() works on the context of its request.
LEMMA ThisIsOwn ==
  ASSUME NoInstances, IInv, Own, NEW r \in Reqs, NEW k \in 1 .. Len(stack[r])
  PROVE  This(r, stack[r][k]).ctx = r
<1> DEFINE s == stack[r]
<1>1. s \in Seq(Frame) /\ Chained(r, s, owner) /\ OwnCalls(r, s) /\ Len(s) \in Nat
  BY DEF IInv, Types, Own
<1>2. ASSUME NEW j \in 1 .. Len(s)
      PROVE  Self(s[j]).ctx = r
  <2>1. s[j] \in Frame
    BY <1>1, <1>2
  <2>2. s[j].at \in Places
    BY <2>1 DEF Frame
  <2>3. ~Shared(s[j].at)
    <3>1. SUFFICES ASSUME s[j].at[2] # 0
                   PROVE  ItemAt(s[j].at).build # "instance"
      BY DEF Shared
    <3> DEFINE l == s[j].at[1]
               i == s[j].at[2]
    <3>2. l \in DOMAIN mds /\ i \in Nat /\ i <= Len(mds[l]) /\ Len(mds[l]) \in Nat
      BY <2>2, PlaceType, ListsAssumption
    <3>3. i \in 1 .. Len(mds[l])
      BY <3>1, <3>2
    <3> QED
      BY <3>2, <3>3 DEF NoInstances, ItemAt
  <2>4. s[j].ctx = r
    BY <1>1, <1>2 DEF OwnCalls, OwnFrame
  <2> QED
    BY <2>3, <2>4 DEF Self
<1>3. CASE Role(s[k].at) # "tail"
  BY <1>2, <1>3 DEF This
<1>4. CASE Role(s[k].at) = "tail"
  <2>1. s[k] \in Frame
    BY <1>1
  <2>2. s[k].at \in Places /\ s[k].at[2] # 0 /\ ItemAt(s[k].at).role = "tail"
    BY <1>4, <2>1 DEF Frame, Role
  <2>3. s[k].at[1] # Main[r]
    BY <2>2, ItemFacts
  <2>4. s[k].home \in 2 .. k - 1
    BY <1>1, <2>2, <2>3 DEF Chained, Inner
  <2>5. s[k].home \in 1 .. Len(s)
    BY <1>1, <2>4
  <2> QED
    BY <1>2, <1>4, <2>5 DEF This
<1> QED
  BY <1>3, <1>4

\* The frames a step of r starts from are its own.
LEMMA OwnTop ==
  ASSUME NoInstances, IInv, Own, NEW r \in Reqs, stack[r] # <<>>
  PROVE  /\ OwnFrame(r, Top(stack[r])) /\ This(r, Top(stack[r])).ctx = r
         /\ Len(stack[r]) > 1 => OwnFrame(r, Caller(stack[r])) /\ This(r, Caller(stack[r])).ctx = r
<1>1. /\ stack[r] \in Seq(Frame) /\ Len(stack[r]) \in Nat \ {0} /\ Len(stack[r]) \in 1 .. Len(stack[r])
      /\ Top(stack[r]) = stack[r][Len(stack[r])] /\ OwnCalls(r, stack[r])
  BY TopFacts DEF Own
<1>2. OwnFrame(r, Top(stack[r])) /\ This(r, Top(stack[r])).ctx = r
  BY <1>1, ThisIsOwn DEF OwnCalls
<1>3. ASSUME Len(stack[r]) > 1
      PROVE  OwnFrame(r, Caller(stack[r])) /\ This(r, Caller(stack[r])).ctx = r
  <2>1. Len(stack[r]) - 1 \in 1 .. Len(stack[r]) /\ Caller(stack[r]) = stack[r][Len(stack[r]) - 1]
    BY <1>1, <1>3 DEF Caller
  <2> QED
    BY <1>1, <2>1, ThisIsOwn DEF OwnCalls
<1> QED
  BY <1>2, <1>3

\* Changing the running call to one of r's own is local to r.
LEMMA GoLocal ==
  ASSUME IInv, IInv', Own, NEW r \in Reqs, stack[r] # <<>>, NEW f, OwnFrame(r, f), Go(r, f)
  PROVE  LocalStack(r)
<1> DEFINE s == stack[r]
           t == stack'[r]
<1>1. s \in Seq(Frame) /\ Len(s) \in Nat \ {0} /\ OwnCalls(r, s) /\ t \in Seq(Frame)
  BY TopFacts DEF Own, IInv, Types
<1>2. t = [s EXCEPT ![Len(s)] = f] /\ \A q \in Reqs \ {r} : stack'[q] = stack[q]
  BY DEF Go, SetTop, IInv, Types
<1>3. Len(t) = Len(s) /\ \A k \in 1 .. Len(s) : t[k] = f \/ t[k] = s[k]
  BY <1>1, <1>2
<1> QED
  BY <1>1, <1>2, <1>3 DEF OwnCalls, LocalStack

\* Returning to one of r's own calls is local to r.
LEMMA GoBackLocal ==
  ASSUME IInv, IInv', Own, NEW r \in Reqs, Len(stack[r]) > 1, NEW f, OwnFrame(r, f), GoBack(r, f)
  PROVE  LocalStack(r)
<1> DEFINE s == stack[r]
           t == stack'[r]
<1>1. s \in Seq(Frame) /\ Len(s) \in Nat /\ OwnCalls(r, s) /\ t \in Seq(Frame)
  BY DEF Own, IInv, Types
<1>2. t = [k \in 1 .. Len(s) - 1 |-> IF k = Len(s) - 1 THEN f ELSE s[k]]
      /\ \A q \in Reqs \ {r} : stack'[q] = stack[q]
  BY DEF GoBack, Return, IInv, Types
<1>3. Len(t) = Len(s) - 1 /\ \A k \in 1 .. Len(t) : t[k] = f \/ t[k] = s[k]
  BY <1>1, <1>2
<1> QED
  BY <1>1, <1>2, <1>3 DEF OwnCalls, LocalStack

\* Calling one more middleware of r's own is local to r.
LEMMA CallLocal ==
  ASSUME IInv, IInv', Own, NEW r \in Reqs, stack[r] # <<>>, NEW f, OwnFrame(r, f), NEW g, OwnFrame(r, g),
         stack' = [stack EXCEPT ![r] = Append(SetTop(stack[r], f), g)]
  PROVE  LocalStack(r)
<1> DEFINE s == stack[r]
           u == SetTop(s, f)
           t == stack'[r]
<1>1. s \in Seq(Frame) /\ Len(s) \in Nat \ {0} /\ OwnCalls(r, s) /\ t \in Seq(Frame)
  BY TopFacts DEF Own, IInv, Types
<1>2. t = Append(u, g) /\ \A q \in Reqs \ {r} : stack'[q] = stack[q]
  BY DEF IInv, Types
<1>3. u \in Seq(Frame \cup {f, g}) /\ Len(u) = Len(s) /\ \A k \in 1 .. Len(s) : u[k] = f \/ u[k] = s[k]
  BY <1>1 DEF SetTop
<1> HIDE DEF u
<1>4. Len(t) = Len(s) + 1 /\ \A k \in 1 .. Len(t) : t[k] = g \/ (k \in 1 .. Len(s) /\ t[k] = u[k])
  <2>1. Len(t) = Len(u) + 1 /\ \A k \in 1 .. Len(u) + 1 : t[k] = IF k = Len(u) + 1 THEN g ELSE u[k]
    BY <1>2, <1>3
  <2> QED
    BY <1>1, <1>3, <2>1
<1> QED
  BY <1>1, <1>2, <1>3, <1>4 DEF OwnCalls, LocalStack

\* A step that changes no more than r's own calls.
LEMMA QuietLocal ==
  ASSUME NEW r \in Reqs, stack[r] # <<>>, LocalStack(r), UNCHANGED <<phase, hooks, errorStack>>
  PROVE  Local(r)
BY DEF Local, LocalErrors, LocalHooks, LocalPhase

\* The error paths hand r's errors to r's calls.
LEMMA FailLocal ==
  ASSUME NoInstances, IInv, IInv', Own, NEW r \in Reqs, Len(stack[r]) > 1,
         NEW e \in Error, e.by = r, Fail(r, e)
  PROVE  LocalStack(r)
<1> DEFINE f == Top(stack[r])
           c == Caller(stack[r])
<1>1. stack[r] # <<>> /\ f \in Frame /\ c \in Frame /\ f.ctx = r /\ c.ctx = r
  BY TopFacts, OwnTop DEF OwnFrame, IInv, Types
<1>2. OwnFrame(r, Rejected(c, e)) /\ OwnFrame(r, Rejected(c, TypeErrorFor(r, e)))
  BY <1>1 DEF OwnFrame, Rejected, Frame, TypeErrorFor, NewError
<1>3. OwnFrame(r, Handling(f, "onError", e, This(r, c).ctx))
  BY <1>1 DEF OwnFrame, Handling, Frame
<1> HIDE DEF f, c
<1>4. \/ GoBack(r, Rejected(c, e)) \/ GoBack(r, Rejected(c, TypeErrorFor(r, e)))
      \/ Go(r, Handling(f, "onError", e, This(r, c).ctx))
  BY DEF Fail, f, c
<1> QED
  BY <1>1, <1>2, <1>3, <1>4, GoLocal, GoBackLocal

\* So do the error paths that start in next().
LEMMA FailNextLocal ==
  ASSUME NoInstances, IInv, IInv', Own, NEW r \in Reqs, stack[r] # <<>>,
         NEW e \in Error, e.by = r, FailNext(r, e)
  PROVE  LocalStack(r)
<1> DEFINE f == Top(stack[r])
<1>1. f \in Frame /\ f.ctx = r
  BY TopFacts, OwnTop DEF OwnFrame
<1>2. OwnFrame(r, Rejected(f, e)) /\ OwnFrame(r, Rejected(f, TypeErrorFor(r, e)))
  BY <1>1 DEF OwnFrame, Rejected, Frame, TypeErrorFor, NewError
<1>3. OwnFrame(r, Handling(f, "onNextError", e, This(r, f).ctx))
  BY <1>1 DEF OwnFrame, Handling, Frame
<1> HIDE DEF f
<1>4. \/ Go(r, Rejected(f, e)) \/ Go(r, Rejected(f, TypeErrorFor(r, e)))
      \/ Go(r, Handling(f, "onNextError", e, This(r, f).ctx))
  BY DEF FailNext, f
<1> QED
  BY <1>2, <1>3, <1>4, GoLocal

-----------------------------------------------------------------------------
(* Every step of a request is local to it *)

\* What every step of r starts from.
LEMMA OwnFacts ==
  ASSUME NoInstances, IInv, Own, NEW r \in Reqs, stack[r] # <<>>
  PROVE  LET f == Top(stack[r])
             c == Caller(stack[r])
         IN /\ f \in Frame /\ FrameOK(f) /\ OwnFrame(r, f) /\ f.ctx = r /\ This(r, f).ctx = r
            /\ f.pc \in {"beforeInvoke", "afterInvoke", "onError"} => Len(stack[r]) > 1
            /\ Len(stack[r]) > 1 => c \in Frame /\ c.ctx = r /\ This(r, c).ctx = r
BY TopFacts, OwnTop DEF OwnFrame, FrameOK

\* The next() that returns resumes a call of r.
LEMMA ResumedOwn ==
  ASSUME NEW r \in Reqs, NEW f \in Frame, f.ctx = r
  PROVE  OwnFrame(r, Resumed(f))
<1>1. Resumed(f).pc = "body" /\ Resumed(f).ctx = f.ctx
  BY ResumedFrame DEF SameCall, Resumed, Frame
<1> QED
  BY <1>1 DEF OwnFrame

\* execHooks and its outcomes are local.
LEMMA HooksLocal ==
  ASSUME NoInstances, IInv, IInv', Own, NEW r \in Reqs,
         HookPasses(r) \/ HookEndsLoop(r) \/ HookVetoes(r) \/ HookHandles(r)
           \/ HookThrows(r) \/ ErrorHookThrows(r)
  PROVE  Local(r)
<1> DEFINE f == Top(stack[r])
           c == Caller(stack[r])
<1>1. stack[r] # <<>> /\ UNCHANGED <<phase, hooks, errorStack>>
  BY DEF HookPasses, HookEndsLoop, HookVetoes, HookHandles, HookThrows, ErrorHookThrows, InHook
<1>2. /\ f \in Frame /\ OwnFrame(r, f) /\ f.ctx = r
      /\ f.pc \in {"beforeInvoke", "afterInvoke", "onError"} => Len(stack[r]) > 1
      /\ Len(stack[r]) > 1 => c \in Frame /\ c.ctx = r
  BY <1>1, OwnFacts
<1>3. Types
  BY DEF IInv
<1>4. ASSUME NEW q, Go(r, [f EXCEPT !.q = q])
      PROVE  Local(r)
  <2>1. OwnFrame(r, [f EXCEPT !.q = q])
    BY <1>2 DEF OwnFrame, Frame
  <2> QED
    BY <1>1, <1>4, <2>1, GoLocal, QuietLocal
<1>5. ASSUME \/ Go(r, Resumed(f))
             \/ Len(stack[r]) > 1 /\ GoBack(r, Resumed(c))
      PROVE  Local(r)
  BY <1>1, <1>2, <1>5, ResumedOwn, GoLocal, GoBackLocal, QuietLocal
<1>6. CASE HookPasses(r)
  BY <1>4, <1>6 DEF HookPasses
<1>7. CASE HookEndsLoop(r)
  BY <1>4, <1>7 DEF HookEndsLoop
<1>8. CASE HookVetoes(r)
  BY <1>2, <1>5, <1>8 DEF HookVetoes, InHook
<1>9. CASE HookHandles(r)
  BY <1>2, <1>5, <1>9 DEF HookHandles, InHook
<1>10. CASE HookThrows(r)
  <2>1. PICK e \in Thrown(r, "code") : FailNext(r, e) \/ (Len(stack[r]) > 1 /\ Fail(r, e))
    BY <1>2, <1>10 DEF HookThrows, InHook
  <2>2. e \in Error /\ e.by = r
    BY <1>3, ThrownFacts
  <2> QED
    BY <1>1, <2>1, <2>2, FailLocal, FailNextLocal, QuietLocal
<1>11. CASE ErrorHookThrows(r)
  <2>1. PICK e \in Thrown(r, "errorHook") : \/ f.pc = "onError" /\ GoBack(r, Rejected(c, e))
                                            \/ Go(r, Rejected(f, e))
    BY <1>11 DEF ErrorHookThrows
  <2>2. e \in Error /\ e.by = r
    BY <1>3, ThrownFacts
  <2>3. /\ OwnFrame(r, Rejected(f, e))
        /\ f.pc = "onError" => OwnFrame(r, Rejected(c, e))
    BY <1>2, <2>2 DEF Rejected, OwnFrame, Frame
  <2> QED
    BY <1>1, <1>2, <2>1, <2>3, GoLocal, GoBackLocal, QuietLocal
<1> QED
  BY <1>6, <1>7, <1>8, <1>9, <1>10, <1>11

\* next() itself: the steps that leave hooks and errorStack alone.
LEMMA NextLocal ==
  ASSUME NoInstances, IInv, IInv', Own, NEW r \in Reqs,
         AfterBeforeNext(r) \/ InitNext(r) \/ CreateFails(r) \/ InvokeNext(r) \/ FinishNext(r)
  PROVE  Local(r)
<1> DEFINE f == Top(stack[r])
           c == Caller(stack[r])
<1>1. stack[r] # <<>> /\ UNCHANGED <<phase, hooks, errorStack>>
  BY DEF AfterBeforeNext, InitNext, CreateFails, InvokeNext, FinishNext, Running
<1>2. /\ f \in Frame /\ OwnFrame(r, f) /\ f.ctx = r /\ This(r, f).ctx = r
      /\ f.pc \in {"beforeInvoke", "afterInvoke", "onError"} => Len(stack[r]) > 1
      /\ Len(stack[r]) > 1 => c \in Frame /\ c.ctx = r
  BY <1>1, OwnFacts
<1>3. CASE AfterBeforeNext(r)
  <2> DEFINE q == ConstructorHooks(This(r, f).ctx, Successor(This(r, f).at))
  <2>1. Go(r, Resumed(f)) \/ Go(r, [f EXCEPT !.pc = "create", !.q = q])
    BY <1>3 DEF AfterBeforeNext
  <2> HIDE DEF q
  <2>2. OwnFrame(r, [f EXCEPT !.pc = "create", !.q = q])
    BY <1>2 DEF OwnFrame, Frame
  <2> QED
    BY <1>1, <1>2, <2>1, <2>2, ResumedOwn, GoLocal, QuietLocal
<1>4. CASE InitNext(r)
  <2> DEFINE g == [f EXCEPT !.pc = "calling"]
             this == This(r, f)
             h == NewFrame(Successor(this.at), this.ctx, this.home, "beforeInvoke",
                           HooksOf(this.ctx, "BeforeInvoke"))
  <2>1. stack' = [stack EXCEPT ![r] = Append(SetTop(@, g), h)]
    BY <1>4 DEF InitNext
  <2>2. OwnFrame(r, g)
    BY <1>2 DEF OwnFrame, Frame
  <2>3. OwnFrame(r, h)
    BY <1>2 DEF OwnFrame, NewFrame
  <2> HIDE DEF g, h
  <2>4. stack' = [stack EXCEPT ![r] = Append(SetTop(stack[r], g), h)]
    BY <2>1
  <2> QED
    BY <1>1, <2>2, <2>3, <2>4, CallLocal, QuietLocal
<1>5. CASE CreateFails(r)
  <2>1. PICK e \in Thrown(r, "code") : FailNext(r, e)
    BY <1>5 DEF CreateFails
  <2>2. e \in Error /\ e.by = r
    BY ThrownFacts DEF IInv
  <2> QED
    BY <1>1, <2>1, <2>2, FailNextLocal, QuietLocal
<1>6. CASE InvokeNext(r)
  <2>1. OwnFrame(r, [f EXCEPT !.pc = "body"]) /\ Go(r, [f EXCEPT !.pc = "body"])
    BY <1>2, <1>6 DEF OwnFrame, Frame, InvokeNext
  <2> QED
    BY <1>1, <2>1, GoLocal, QuietLocal
<1>7. CASE FinishNext(r)
  BY <1>1, <1>2, <1>7, ResumedOwn, GoBackLocal, QuietLocal DEF FinishNext, Running
<1> QED
  BY <1>3, <1>4, <1>5, <1>6, <1>7

\* The invoke() of a middleware, and Startup.invoke while it runs.
LEMMA InvokeLocal ==
  ASSUME NoInstances, IInv, IInv', Own, NEW r \in Reqs,
         InvokeFirst(r) \/ FirstFails(r) \/ CallNext(r) \/ EnterCompose(r) \/ ReturnFromInvoke(r)
           \/ ThrowInInvoke(r) \/ Propagate(r) \/ Swallow(r)
  PROVE  Local(r)
<1> DEFINE f == Top(stack[r])
           c == Caller(stack[r])
<1>1. stack[r] # <<>> /\ UNCHANGED <<phase, hooks, errorStack>>
  BY DEF InvokeFirst, FirstFails, CallNext, EnterCompose, ReturnFromInvoke, ThrowInInvoke,
         Propagate, Swallow, InBody, Running
<1>2. /\ f \in Frame /\ OwnFrame(r, f) /\ f.ctx = r /\ This(r, f).ctx = r
      /\ Len(stack[r]) > 1 => c \in Frame /\ c.ctx = r
      /\ Inner(f) <=> Len(stack[r]) > 1
  BY <1>1, OwnFacts, TopFacts
<1>3. CASE InvokeFirst(r)
  <2> DEFINE g == [f EXCEPT !.pc = "calling", !.calls = 1]
             none == <<>>
             h == NewFrame(<<ListOf(f.at), 1>>, f.ctx, Len(stack[r]), "body", none)
  <2>1. stack' = [stack EXCEPT ![r] = Append(SetTop(stack[r], g), h)]
    BY <1>3 DEF InvokeFirst
  <2> HIDE DEF none
  <2>2. OwnFrame(r, g) /\ OwnFrame(r, h)
    BY <1>2 DEF OwnFrame, NewFrame, Frame
  <2> HIDE DEF g, h
  <2> QED
    BY <1>1, <2>1, <2>2, CallLocal, QuietLocal
<1>4. CASE FirstFails(r)
  <2>1. PICK e \in Thrown(r, "code") : Go(r, Rejected(f, e))
    BY <1>4 DEF FirstFails
  <2>2. e.by = r
    BY ThrownFacts DEF IInv
  <2>3. OwnFrame(r, Rejected(f, e))
    BY <1>2, <2>2 DEF OwnFrame, Rejected, Frame
  <2> QED
    BY <1>1, <2>1, <2>3, GoLocal, QuietLocal
<1>5. CASE CallNext(r)
  <2> DEFINE q == hooks[This(r, f).ctx]["BeforeNext"]
             g == [f EXCEPT !.pc = "beforeNext", !.calls = @ + 1, !.q = q]
  <2>1. Go(r, g)
    BY <1>5 DEF CallNext, StartNext
  <2> HIDE DEF q
  <2>2. OwnFrame(r, g)
    BY <1>2 DEF OwnFrame, Frame
  <2> QED
    BY <1>1, <2>1, <2>2, GoLocal, QuietLocal
<1>6. CASE EnterCompose(r)
  <2> DEFINE q == ConstructorHooks(Self(f).ctx, <<ListOf(f.at), 1>>)
             g == [f EXCEPT !.pc = "compose", !.ctx = Self(f).ctx, !.q = q]
  <2>1. Go(r, g) /\ Role(f.at) = "compose"
    BY <1>6 DEF EnterCompose, InBody
  <2>2. Self(f).ctx = r
    BY <1>2, <2>1 DEF This
  <2> HIDE DEF q
  <2>3. OwnFrame(r, g)
    BY <1>2, <2>2 DEF OwnFrame, Frame
  <2> QED
    BY <1>1, <2>1, <2>3, GoLocal, QuietLocal
<1>7. CASE ReturnFromInvoke(r)
  <2> DEFINE q == HooksOf(This(r, c).ctx, "AfterInvoke")
  <2>1. /\ Len(stack[r]) > 1
        /\ GoBack(r, [c EXCEPT !.pc = "body"]) \/ Go(r, [f EXCEPT !.pc = "afterInvoke", !.q = q])
    BY <1>7 DEF ReturnFromInvoke
  <2> HIDE DEF q
  <2>2. OwnFrame(r, [c EXCEPT !.pc = "body"]) /\ OwnFrame(r, [f EXCEPT !.pc = "afterInvoke", !.q = q])
    BY <1>2, <2>1 DEF OwnFrame, Frame
  <2> QED
    BY <1>1, <2>1, <2>2, GoLocal, GoBackLocal, QuietLocal
<1>8. CASE ThrowInInvoke(r)
  <2>1. PICK e \in Thrown(r, "code") : Fail(r, e)
    BY <1>8 DEF ThrowInInvoke
  <2>2. e \in Error /\ e.by = r
    BY ThrownFacts DEF IInv
  <2>3. Len(stack[r]) > 1
    BY <1>2, <1>8 DEF ThrowInInvoke, InBody, Role, Inner
  <2> QED
    BY <1>1, <2>1, <2>2, <2>3, FailLocal, QuietLocal
<1>9. CASE Propagate(r)
  <2>1. Len(stack[r]) > 1 /\ f.pc = "rejected" /\ Fail(r, f.err)
    BY <1>9 DEF Propagate, Running
  <2>2. f.err \in Error /\ f.err.by = r
    BY <1>1, <1>2, <2>1, TopFacts DEF FrameOK, OwnFrame
  <2> QED
    BY <1>1, <2>1, <2>2, FailLocal, QuietLocal
<1>10. CASE Swallow(r)
  <2>1. OwnFrame(r, [f EXCEPT !.pc = "body", !.err = None]) /\ Go(r, [f EXCEPT !.pc = "body", !.err = None])
    BY <1>2, <1>10 DEF OwnFrame, Frame, Swallow
  <2> QED
    BY <1>1, <2>1, GoLocal, QuietLocal
<1> QED
  BY <1>3, <1>4, <1>5, <1>6, <1>7, <1>8, <1>9, <1>10

\* HookMiddleware.invoke registers in the context of its request.
LEMMA RegisterHookLocal ==
  ASSUME NoInstances, IInv, IInv', Own, NEW r \in Reqs, RegisterHook(r)
  PROVE  Local(r)
<1> DEFINE f == Top(stack[r])
<1>1. /\ stack[r] # <<>> /\ UNCHANGED <<phase, errorStack>>
      /\ hooks' = [hooks EXCEPT ![This(r, f).ctx][ItemAt(f.at).arg] = Append(@, f.at)]
      /\ Go(r, [f EXCEPT !.pc = "beforeNext", !.calls = @ + 1, !.q = hooks'[This(r, f).ctx]["BeforeNext"]])
  BY DEF RegisterHook, InBody, Running, StartNext
<1>2. f \in Frame /\ f.ctx = r /\ This(r, f).ctx = r
  BY <1>1, OwnFacts
<1>3. hooks \in [Reqs -> [HookTypes -> Seq(Places)]]
  BY DEF IInv, Types
<1>4. LocalHooks(r)
  BY <1>1, <1>2, <1>3 DEF LocalHooks
<1>5. LocalStack(r)
  <2> DEFINE q == hooks'[This(r, f).ctx]["BeforeNext"]
             g == [f EXCEPT !.pc = "beforeNext", !.calls = @ + 1, !.q = q]
  <2>1. Go(r, g)
    BY <1>1
  <2> HIDE DEF q
  <2>2. OwnFrame(r, g)
    BY <1>2 DEF OwnFrame, Frame
  <2> QED
    BY <1>1, <2>1, <2>2, GoLocal
<1> QED
  BY <1>1, <1>4, <1>5 DEF Local, LocalErrors, LocalPhase

\* catchError records in the context of the request an error of that request.
LEMMA CatchErrorLocal ==
  ASSUME NoInstances, IInv, IInv', Own, NEW r \in Reqs, CatchError(r)
  PROVE  Local(r)
<1> DEFINE f == Top(stack[r])
           c == IF f.pc = "onError" THEN Caller(stack[r]) ELSE f
<1>1. /\ stack[r] # <<>> /\ f.pc \in {"onError", "onNextError"} /\ UNCHANGED <<phase, hooks>>
      /\ errorStack' = [errorStack EXCEPT ![This(r, c).ctx] = Append(@, f.err)]
      /\ IF f.pc = "onError" THEN GoBack(r, Resumed(c)) ELSE Go(r, Resumed(c))
  BY DEF CatchError, Running
<1>2. /\ f \in Frame /\ f.err \in Error /\ f.err.by = r
      /\ c \in Frame /\ c.ctx = r /\ This(r, c).ctx = r
      /\ f.pc = "onError" => Len(stack[r]) > 1
  BY <1>1, OwnFacts DEF FrameOK, OwnFrame
<1>3. LocalErrors(r)
  BY <1>1, <1>2 DEF LocalErrors
<1> HIDE DEF c
<1>4. OwnFrame(r, Resumed(c))
  BY <1>2, ResumedOwn
<1>5. LocalStack(r)
  BY <1>1, <1>2, <1>4, GoLocal, GoBackLocal
<1> QED
  BY <1>1, <1>3, <1>5 DEF Local, LocalHooks, LocalPhase

\* Startup.invoke begins and ends in its own context.
LEMMA StartupLocal ==
  ASSUME NoInstances, IInv, IInv', Own, NEW r \in Reqs,
         Begin(r) \/ Answer(r) \/ CatchAndAnswer(r)
  PROVE  Local(r)
<1> DEFINE f == Top(stack[r])
           none == <<>>
<1>1. stack \in [Reqs -> Seq(Frame)] /\ stack[r] \in Seq(Frame)
  BY DEF IInv, Types
<1>2. ASSUME stack' = [stack EXCEPT ![r] = none]
      PROVE  LocalStack(r)
  BY <1>1, <1>2 DEF LocalStack, OwnCalls
<1>3. CASE Begin(r)
  <2> DEFINE g == NewFrame(<<Main[r], 0>>, r, 0, "compose", none)
  <2>1. g.pc = "compose" /\ g.ctx = r
    <3> HIDE DEF none
    <3> QED
      BY DEF NewFrame
  <2> HIDE DEF g
  <2>2. /\ UNCHANGED <<hooks, errorStack>> /\ phase[r] = "idle"
        /\ \/ UNCHANGED stack /\ phase' = [phase EXCEPT ![r] = "done"]
           \/ stack' = [stack EXCEPT ![r] = <<g>>] /\ phase' = [phase EXCEPT ![r] = "open"]
    BY <1>3 DEF Begin, g
  <2>3. OwnFrame(r, g)
    BY <2>1 DEF OwnFrame
  <2>4. LocalStack(r)
    <3>1. CASE UNCHANGED stack
      BY <3>1 DEF LocalStack, Own
    <3>2. CASE stack' = [stack EXCEPT ![r] = <<g>>]
      <4>1. stack'[r] = <<g>> /\ \A q \in Reqs \ {r} : stack'[q] = stack[q]
        BY <1>1, <3>2
      <4> QED
        BY <2>3, <4>1 DEF LocalStack, OwnCalls
    <3> QED
      BY <2>2, <3>1, <3>2
  <2> QED
    BY <2>2, <2>4 DEF Local, LocalErrors, LocalHooks, LocalPhase
<1>4. CASE Answer(r)
  <2>1. stack[r] # <<>> /\ UNCHANGED <<hooks, errorStack>> /\ phase' = [phase EXCEPT ![r] = "done"]
        /\ stack' = [stack EXCEPT ![r] = none]
    BY <1>4 DEF Answer, Running
  <2> QED
    BY <1>2, <2>1 DEF Local, LocalErrors, LocalHooks, LocalPhase
<1>5. CASE CatchAndAnswer(r)
  <2>1. stack[r] # <<>> /\ UNCHANGED hooks /\ phase' = [phase EXCEPT ![r] = "done"]
        /\ stack' = [stack EXCEPT ![r] = none] /\ f.pc = "rejected"
        /\ errorStack' = [errorStack EXCEPT ![r] = Append(@, f.err)]
    BY <1>5 DEF CatchAndAnswer, Running
  <2>2. f.err \in Error /\ f.err.by = r
    BY <2>1, OwnFacts DEF FrameOK, OwnFrame
  <2> QED
    BY <1>2, <2>1, <2>2 DEF Local, LocalErrors, LocalHooks, LocalPhase
<1> QED
  BY <1>3, <1>4, <1>5

\* Whatever request steps, the step is local to it.
LEMMA StepLocal ==
  ASSUME NoInstances, IInv, IInv', Own, NEW r \in Reqs, Begin(r) \/ Serve(r)
  PROVE  Local(r)
BY HooksLocal, NextLocal, InvokeLocal, RegisterHookLocal, CatchErrorLocal, StartupLocal DEF Serve

-----------------------------------------------------------------------------
(* Isolation *)

\* At first there is nothing to keep apart.
LEMMA IsolationInit == Init => IsolationInv
<1> SUFFICES ASSUME Init PROVE IsolationInv
  OBVIOUS
<1>1. IInv
  BY InitHolds
<1> DEFINE none == <<>>
<1>2. \A r \in Reqs : stack[r] = none /\ errorStack[r] = none
  BY DEF Init
<1>3. Len(none) = 0 /\ DOMAIN none = {}
  OBVIOUS
<1> HIDE DEF none
<1> QED
  BY <1>1, <1>2, <1>3 DEF IsolationInv, Own, OwnCalls, ErrorsReportedToOwner

\* A local step leaves every call and every error with its request.
LEMMA IsolationStep ==
  ASSUME NoInstances, IsolationInv, [Next]_vars
  PROVE  IsolationInv'
<1>1. IInv /\ IInv' /\ Own /\ ErrorsReportedToOwner
  BY StepKeeps DEF IsolationInv
<1>2. CASE UNCHANGED vars
  BY <1>1, <1>2 DEF vars, IsolationInv, Own, OwnCalls, ErrorsReportedToOwner
<1>3. ASSUME NEW r \in Reqs, Begin(r) \/ Serve(r)
      PROVE  IsolationInv'
  <2>1. Local(r)
    BY <1>1, <1>3, StepLocal
  <2>2. Own'
    BY <1>1, <2>1 DEF Local, LocalStack, Own
  <2>3. ErrorsReportedToOwner'
    <3>1. errorStack \in [Reqs -> Seq(Error)]
      BY <1>1 DEF IInv, Types
    <3>2. CASE errorStack' = errorStack
      BY <1>1, <3>2 DEF ErrorsReportedToOwner
    <3>3. ASSUME NEW e \in Error, e.by = r, errorStack' = [errorStack EXCEPT ![r] = Append(@, e)],
                 NEW c \in Reqs, NEW i \in DOMAIN errorStack'[c]
          PROVE  errorStack'[c][i].by = c
      <4>1. CASE c # r
        <5>1. errorStack'[c] = errorStack[c]
          BY <3>1, <3>3, <4>1
        <5> QED
          BY <1>1, <3>3, <5>1 DEF ErrorsReportedToOwner
      <4>2. CASE c = r
        <5> DEFINE es == errorStack[r]
        <5>1. es \in Seq(Error) /\ errorStack'[r] = Append(es, e)
          BY <3>1, <3>3
        <5>2. errorStack'[c][i] = e \/ (i \in DOMAIN es /\ errorStack'[c][i] = es[i])
          BY <3>3, <4>2, <5>1
        <5> QED
          BY <1>1, <3>3, <4>2, <5>2 DEF ErrorsReportedToOwner
      <4> QED
        BY <4>1, <4>2
    <3> QED
      BY <2>1, <3>2, <3>3 DEF Local, LocalErrors, ErrorsReportedToOwner
  <2> QED
    BY <1>1, <2>2, <2>3 DEF IsolationInv
<1> QED
  BY <1>2, <1>3 DEF Next

\* Without add(new Md()), an error is recorded in the context of the request
\* whose code threw it, for every list, every number of requests and every
\* interleaving of their awaits.
THEOREM ErrorsStayWithOwner == NoInstances => (Spec => []ErrorsReportedToOwner)
<1> SUFFICES ASSUME NoInstances PROVE Spec => []ErrorsReportedToOwner
  OBVIOUS
<1>1. Init => IsolationInv
  BY IsolationInit
<1>2. IsolationInv /\ [Next]_vars => IsolationInv'
  BY IsolationStep
<1>3. IsolationInv => ErrorsReportedToOwner
  BY DEF IsolationInv
<1> QED
  BY <1>1, <1>2, <1>3, PTL DEF Spec

\* A request that was answered takes no step, and no other touches its state.
LEMMA AnswerStep ==
  ASSUME NoInstances, IsolationInv, [Next]_vars,
         NEW c \in Reqs, phase[c] = "done"
  PROVE  errorStack'[c] = errorStack[c] /\ hooks'[c] = hooks[c] /\ phase'[c] = "done"
<1>1. IInv /\ IInv' /\ Own
  BY StepKeeps DEF IsolationInv
<1>2. CASE UNCHANGED vars
  BY <1>2 DEF vars
<1>3. ASSUME NEW r \in Reqs, Begin(r) \/ Serve(r)
      PROVE  errorStack'[c] = errorStack[c] /\ hooks'[c] = hooks[c] /\ phase'[c] = "done"
  <2>1. Local(r)
    BY <1>1, <1>3, StepLocal
  <2>2. stack[c] = <<>>
    BY <1>1 DEF IInv, Phases
  <2>3. c # r
    BY <2>1, <2>2 DEF Local, LocalPhase
  <2>4. phase \in [Reqs -> {"idle", "open", "done"}] /\ errorStack \in [Reqs -> Seq(Error)]
    BY <1>1 DEF IInv, Types, Phases
  <2>5. errorStack'[c] = errorStack[c]
    BY <2>1, <2>3, <2>4 DEF Local, LocalErrors
  <2>6. hooks'[c] = hooks[c]
    BY <2>1, <2>3 DEF Local, LocalHooks
  <2>7. phase'[c] = phase[c]
    BY <2>1, <2>3, <2>4 DEF Local, LocalPhase
  <2> QED
    BY <2>5, <2>6, <2>7
<1> QED
  BY <1>2, <1>3 DEF Next

\* Without add(new Md()), nothing touches the errors, the hooks or the phase of
\* a request once Startup.invoke has returned for it.
THEOREM AnswersStay == NoInstances => (Spec => AnswerIsFinal)
<1> SUFFICES ASSUME NoInstances PROVE Spec => AnswerIsFinal
  OBVIOUS
<1>1. Init => IsolationInv
  BY IsolationInit
<1>2. IsolationInv /\ [Next]_vars => IsolationInv'
  BY IsolationStep
<1>3. IsolationInv /\ [Next]_vars =>
        [\A r \in Reqs : phase[r] = "done" =>
           errorStack'[r] = errorStack[r] /\ hooks'[r] = hooks[r] /\ phase'[r] = "done"]_vars
  BY AnswerStep
<1> QED
  BY <1>1, <1>2, <1>3, PTL DEF Spec, AnswerIsFinal

\* A local step is a step of Requests, or changes nothing of what it shows.
LEMMA LocalRefines ==
  ASSUME IInv, NEW r \in Reqs, Local(r)
  PROVE  Outside!Next \/ UNCHANGED <<phase, errorStack>>
<1>1. errorStack \in [Reqs -> Seq(Error)] /\ phase \in [Reqs -> {"idle", "open", "done"}]
      /\ (stack[r] # <<>> => phase[r] = "open")
  BY DEF IInv, Types, Phases
<1>2. errorStack' = errorStack \/ Outside!Append1(r)
  <2>1. ASSUME NEW e \in Error, e.by = r, errorStack' = [errorStack EXCEPT ![r] = Append(@, e)]
        PROVE  Outside!Append1(r)
    <3> DEFINE es == errorStack[r]
               new == errorStack'[r]
    <3>1. es \in Seq(Error) /\ new = Append(es, e)
      BY <1>1, <2>1
    <3> HIDE DEF es
    <3>2. Len(new) = Len(es) + 1 /\ new[Len(new)] = e /\ Len(new) # 0
      BY <3>1
    <3>3. new # <<>>
      BY <3>2
    <3>4. errorStack' = [errorStack EXCEPT ![r] = new]
      BY <1>1, <2>1
    <3> QED
      BY <2>1, <3>1, <3>2, <3>3, <3>4 DEF Outside!Append1, es
  <2> QED
    BY <2>1 DEF Local, LocalErrors
<1>3. CASE phase' = phase /\ stack[r] # <<>>
  BY <1>1, <1>2, <1>3 DEF Outside!Next, Outside!Report
<1>4. CASE /\ phase[r] = "idle" /\ errorStack' = errorStack
           /\ \E p \in {"open", "done"} : phase' = [phase EXCEPT ![r] = p]
  BY <1>4 DEF Outside!Next, Outside!Begin
<1>5. CASE stack[r] # <<>> /\ phase' = [phase EXCEPT ![r] = "done"]
  BY <1>1, <1>2, <1>5 DEF Outside!Next, Outside!Answer
<1> QED
  BY <1>3, <1>4, <1>5 DEF Local, LocalPhase

\* Without add(new Md()), the pipeline implements the safety of Requests: every
\* request is taken once and answered once, and its errors are its own.
THEOREM ImplementsRequests == NoInstances => (Spec => Outside!Safety)
<1> SUFFICES ASSUME NoInstances PROVE Spec => Outside!Safety
  OBVIOUS
<1>1. Init => IsolationInv
  BY IsolationInit
<1>2. IsolationInv /\ [Next]_vars => IsolationInv'
  BY IsolationStep
<1>3. Init => Outside!Init
  BY DEF Init, Outside!Init
<1>4. IsolationInv /\ [Next]_vars => [Outside!Next]_(Outside!vars)
  <2> SUFFICES ASSUME IsolationInv, [Next]_vars PROVE [Outside!Next]_(Outside!vars)
    OBVIOUS
  <2>1. IInv /\ IInv' /\ Own
    BY StepKeeps DEF IsolationInv
  <2>2. CASE UNCHANGED vars
    BY <2>2 DEF vars, Outside!vars
  <2>3. ASSUME NEW r \in Reqs, Begin(r) \/ Serve(r)
        PROVE  [Outside!Next]_(Outside!vars)
    BY <2>1, <2>3, StepLocal, LocalRefines DEF Outside!vars
  <2> QED
    BY <2>2, <2>3 DEF Next
<1> QED
  BY <1>1, <1>2, <1>3, <1>4, PTL DEF Spec, Outside!Safety

-----------------------------------------------------------------------------
(* Hooks apply to what stands behind them *)

\* The places can be numbered in the order in which a request reaches them: up
\* along each list, and a composed list between its ComposeMiddleware and the
\* item behind that one.  So it is when every composed list, the #mds of one
\* ComposeMiddleware, stands at one place.
InOrder(pos) ==
  /\ pos \in [Places -> Nat]
  /\ \A l \in DOMAIN mds : \A i, j \in 0 .. Len(mds[l]) : i < j => pos[<<l, i>>] < pos[<<l, j>>]
  /\ \A p \in Places : Role(p) = "compose" =>
       /\ \A i \in 1 .. Len(mds[ListOf(p)]) : pos[p] < pos[<<ListOf(p), i>>]
       /\ Successor(p) \in Places =>
            \A i \in 1 .. Len(mds[ListOf(p)]) : pos[<<ListOf(p), i>>] < pos[Successor(p)]

ComposedOnce == \E pos : InOrder(pos)

\* Middlewares call next() at most once: what made next() run has called it, and
\* every call below the running one waits for its next() or its list.
Begun(f) ==
  f.pc \in {"beforeNext", "create", "calling", "onNextError"} \/ (f.pc = "rejected" /\ Role(f.at) = "user")
    => f.calls # 0

HomeOwns(r, s, k) == Inner(s[k]) /\ s[k].at[1] # Main[r] => ListOf(s[s[k].home].at) = s[k].at[1]

Nested(r, s) ==
  \A k \in 1 .. Len(s) : Begun(s[k]) /\ (k < Len(s) => s[k].pc = "calling") /\ HomeOwns(r, s, k)

\* As long as the running call is one that was never reached before, the hooks
\* of its request stand ahead of it.
Unreached(f) == f.pc \in {"beforeInvoke", "compose"} \/ (f.pc = "body" /\ f.calls = 0)

HooksBelow(pos, bag, n) == \A t \in HookTypes : \A i \in DOMAIN bag[t] : pos[bag[t][i]] < n

Front(pos, bag, f) ==
  /\ Unreached(f) => HooksBelow(pos, bag, pos[f.at])
  /\ f.pc \in {"beforeNext", "create"} => HooksBelow(pos, bag, pos[f.at] + 1)
  /\ f.pc = "beforeInvoke" => \A i \in DOMAIN f.q : pos[f.q[i]] < pos[f.at]

Behind(pos, r) ==
  /\ phase[r] = "idle" => \A t \in HookTypes : hooks[r][t] = <<>>
  /\ Nested(r, stack[r])
  /\ stack[r] # <<>> => Front(pos, hooks[r], Top(stack[r]))

HookInv(pos) == IsolationInv /\ \A r \in Reqs : Behind(pos, r)

-----------------------------------------------------------------------------
\* The homes of r's calls are calls of r.
LEMMA HomeThere ==
  ASSUME NEW r \in Reqs, NEW s \in Seq(Frame), NEW ow, Chained(r, s, ow), NEW k \in 1 .. Len(s),
         Inner(s[k]), s[k].at[1] # Main[r]
  PROVE  s[k].home \in 1 .. Len(s) /\ s[k].home < k /\ Role(s[s[k].home].at) = "compose"
<1>1. s[k].home \in 2 .. k - 1 /\ Role(s[s[k].home].at) = "compose"
  BY DEF Chained
<1>2. Len(s) \in Nat
  OBVIOUS
<1> QED
  BY <1>1, <1>2

\* The running call goes on, returns or makes a call.
LEMMA GoNested ==
  ASSUME IInv, IInv', NEW r \in Reqs, stack[r] # <<>>, Nested(r, stack[r]),
         NEW f, SameCall(f, Top(stack[r])), Begun(f), Go(r, f)
  PROVE  Nested(r, stack'[r]) /\ Top(stack'[r]) = f
<1> DEFINE s == stack[r]
           t == stack'[r]
<1>1. /\ t # <<>> /\ Len(t) = Len(s) /\ Len(s) \in Nat \ {0} /\ t[Len(s)] = f /\ Top(t) = f
      /\ \A k \in 1 .. Len(s) - 1 : t[k] = s[k]
  BY AfterGo
<1>2. f.at = s[Len(s)].at /\ f.home = s[Len(s)].home
  BY DEF Top, SameCall
<1>3. \A k \in 1 .. Len(s) : Inner(s[k]) /\ s[k].at[1] # Main[r] => s[k].home \in 1 .. Len(s)
  <2>1. s \in Seq(Frame) /\ Chained(r, s, owner)
    BY DEF IInv, Types
  <2> HIDE DEF s
  <2> QED
    BY <2>1, HomeThere
<1>4. \A k \in 1 .. Len(s) : Begun(s[k]) /\ (k < Len(s) => s[k].pc = "calling") /\ HomeOwns(r, s, k)
  BY DEF Nested
<1> HIDE DEF s, t
<1>5. \A k \in 1 .. Len(s) : t[k].at = s[k].at /\ t[k].home = s[k].home
  BY <1>1, <1>2
<1>6. ASSUME NEW k \in 1 .. Len(t)
      PROVE  Begun(t[k]) /\ (k < Len(t) => t[k].pc = "calling") /\ HomeOwns(r, t, k)
  <2>1. k \in 1 .. Len(s) /\ (k < Len(t) => t[k] = s[k] /\ k < Len(s)) /\ (k = Len(t) => t[k] = f)
    BY <1>1
  <2>2. HomeOwns(r, t, k)
    BY <1>3, <1>4, <1>5, <2>1 DEF HomeOwns, Inner
  <2>3. CASE k = Len(t)
    BY <2>1, <2>2, <2>3
  <2>4. CASE k < Len(t)
    BY <1>4, <2>1, <2>2, <2>4
  <2> QED
    BY <1>1, <2>1, <2>3, <2>4
<1> QED
  BY <1>1, <1>6 DEF Nested, t

LEMMA GoBackNested ==
  ASSUME IInv, IInv', NEW r \in Reqs, Len(stack[r]) > 1, Nested(r, stack[r]),
         NEW f, SameCall(f, Caller(stack[r])), Begun(f), GoBack(r, f)
  PROVE  Nested(r, stack'[r]) /\ Top(stack'[r]) = f
<1> DEFINE s == stack[r]
           t == stack'[r]
<1>1. /\ t # <<>> /\ Len(t) = Len(s) - 1 /\ Len(s) \in Nat \ {0, 1} /\ t[Len(s) - 1] = f /\ Top(t) = f
      /\ \A k \in 1 .. Len(s) - 2 : t[k] = s[k]
  BY AfterGoBack
<1>2. f.at = s[Len(s) - 1].at /\ f.home = s[Len(s) - 1].home
  BY DEF Caller, SameCall
<1>3. \A k \in 1 .. Len(s) : Inner(s[k]) /\ s[k].at[1] # Main[r] => s[k].home \in 1 .. Len(s) /\ s[k].home < k
  <2>1. s \in Seq(Frame) /\ Chained(r, s, owner)
    BY DEF IInv, Types
  <2> HIDE DEF s
  <2> QED
    BY <2>1, HomeThere
<1>4. \A k \in 1 .. Len(s) : Begun(s[k]) /\ (k < Len(s) => s[k].pc = "calling") /\ HomeOwns(r, s, k)
  BY DEF Nested
<1> HIDE DEF s, t
<1>0. \A k \in 1 .. Len(t) : k \in 1 .. Len(s) /\ (k = Len(t) \/ k \in 1 .. Len(s) - 2)
  BY <1>1
<1>5. \A k \in 1 .. Len(t) : k \in 1 .. Len(s) /\ t[k].at = s[k].at /\ t[k].home = s[k].home
  BY <1>0, <1>1, <1>2
<1>6. ASSUME NEW k \in 1 .. Len(t)
      PROVE  Begun(t[k]) /\ (k < Len(t) => t[k].pc = "calling") /\ HomeOwns(r, t, k)
  <2>1. k \in 1 .. Len(s) /\ (k < Len(t) => t[k] = s[k] /\ k < Len(s)) /\ (k = Len(t) => t[k] = f)
    BY <1>1
  <2>2. HomeOwns(r, t, k)
    <3>1. Inner(s[k]) /\ s[k].at[1] # Main[r] => s[k].home \in 1 .. Len(t)
      BY <1>1, <1>3, <2>1
    <3> QED
      BY <1>4, <1>5, <2>1, <3>1 DEF HomeOwns, Inner
  <2>3. CASE k = Len(t)
    BY <2>1, <2>2, <2>3
  <2>4. CASE k < Len(t)
    BY <1>4, <2>1, <2>2, <2>4
  <2> QED
    BY <1>1, <2>1, <2>3, <2>4
<1> QED
  BY <1>1, <1>6 DEF Nested, t

LEMMA CallNested ==
  ASSUME IInv, IInv', NEW r \in Reqs, stack[r] # <<>>, Nested(r, stack[r]),
         NEW f, SameCall(f, Top(stack[r])), f.pc = "calling", Begun(f), NEW g, Begun(g),
         g.at[1] = Main[r] \/ (g.home \in 1 .. Len(stack[r]) /\ ListOf(stack[r][g.home].at) = g.at[1]),
         GoAndCall(r, f, g)
  PROVE  Nested(r, stack'[r]) /\ Top(stack'[r]) = g
<1> DEFINE s == stack[r]
           t == stack'[r]
<1>1. /\ t # <<>> /\ Len(t) = Len(s) + 1 /\ Len(s) \in Nat \ {0}
      /\ t[Len(s)] = f /\ t[Len(s) + 1] = g /\ Top(t) = g
      /\ \A k \in 1 .. Len(s) - 1 : t[k] = s[k]
  BY AfterCall
<1>2. f.at = s[Len(s)].at /\ f.home = s[Len(s)].home
  BY DEF Top, SameCall
<1>3. \A k \in 1 .. Len(s) : Inner(s[k]) /\ s[k].at[1] # Main[r] => s[k].home \in 1 .. Len(s)
  <2>1. s \in Seq(Frame) /\ Chained(r, s, owner)
    BY DEF IInv, Types
  <2> HIDE DEF s
  <2> QED
    BY <2>1, HomeThere
<1>4. \A k \in 1 .. Len(s) : Begun(s[k]) /\ (k < Len(s) => s[k].pc = "calling") /\ HomeOwns(r, s, k)
  BY DEF Nested
<1>5. g.at[1] = Main[r] \/ (g.home \in 1 .. Len(s) /\ ListOf(s[g.home].at) = g.at[1])
  OBVIOUS
<1> HIDE DEF s, t
<1>6. \A k \in 1 .. Len(s) : t[k].at = s[k].at /\ t[k].home = s[k].home
  BY <1>1, <1>2
<1>7. ASSUME NEW k \in 1 .. Len(t)
      PROVE  Begun(t[k]) /\ (k < Len(t) => t[k].pc = "calling") /\ HomeOwns(r, t, k)
  <2>1. CASE k = Len(s) + 1
    <3>1. t[k] = g /\ ~(k < Len(t))
      BY <1>1, <2>1
    <3>2. HomeOwns(r, t, k)
      BY <1>5, <1>6, <3>1 DEF HomeOwns
    <3> QED
      BY <3>1, <3>2
  <2>2. CASE k # Len(s) + 1
    <3>1. k \in 1 .. Len(s) /\ (k < Len(s) => t[k] = s[k]) /\ (k = Len(s) => t[k] = f)
      BY <1>1, <2>2
    <3>2. HomeOwns(r, t, k)
      BY <1>3, <1>4, <1>6, <3>1 DEF HomeOwns, Inner
    <3>3. Begun(t[k]) /\ t[k].pc = "calling"
      BY <1>1, <1>4, <3>1
    <3> QED
      BY <3>2, <3>3
  <2> QED
    BY <2>1, <2>2
<1> QED
  BY <1>1, <1>7 DEF Nested, t

-----------------------------------------------------------------------------
(* What the running call is after a step *)

\* What no hook and no next() is about to run for.
Past(f) ==
  f.pc \in {"calling", "onNextError", "rejected", "afterInvoke", "onError"} \/ (f.pc = "body" /\ f.calls # 0)

\* Then it does not matter which hooks are registered.
LEMMA PastFront ==
  ASSUME NEW pos, NEW bag, NEW f, Past(f)
  PROVE  Front(pos, bag, f)
BY DEF Past, Front, Unreached

\* The calls of a request that is being served, and the hooks ahead of it.
LEMMA BehindAfter ==
  ASSUME NEW pos, NEW r \in Reqs, phase'[r] # "idle", Nested(r, stack'[r]),
         NEW f, Top(stack'[r]) = f, Front(pos, hooks'[r], f)
  PROVE  Behind(pos, r)'
BY DEF Behind

\* What a step of r starts from.
LEMMA BehindFacts ==
  ASSUME NEW pos, NoInstances, HookInv(pos), NEW r \in Reqs, stack[r] # <<>>
  PROVE  LET f == Top(stack[r])
             c == Caller(stack[r])
         IN /\ Nested(r, stack[r]) /\ Begun(f) /\ Front(pos, hooks[r], f)
            /\ f \in Frame /\ FrameOK(f) /\ f.ctx = r /\ This(r, f).ctx = r
            /\ Len(stack[r]) > 1 => c \in Frame /\ c.pc = "calling" /\ c.calls # 0
            /\ f.pc \in {"beforeInvoke", "afterInvoke", "onError"} => Len(stack[r]) > 1
            /\ Inner(f) <=> Len(stack[r]) > 1
<1> DEFINE s == stack[r]
<1>1. /\ IInv /\ Own /\ Behind(pos, r) /\ Nested(r, s) /\ Front(pos, hooks[r], Top(s))
  BY DEF HookInv, IsolationInv, Behind
<1>2. /\ s \in Seq(Frame) /\ Len(s) \in Nat \ {0} /\ Top(s) = s[Len(s)]
      /\ Top(s) \in Frame /\ FrameOK(Top(s)) /\ (Inner(Top(s)) <=> Len(s) > 1)
  BY <1>1, TopFacts
<1>3. /\ Top(s).ctx = r /\ This(r, Top(s)).ctx = r
      /\ Top(s).pc \in {"beforeInvoke", "afterInvoke", "onError"} => Len(s) > 1
      /\ Len(s) > 1 => Caller(s) \in Frame
  BY <1>1, OwnFacts
<1>4. \A k \in 1 .. Len(s) : Begun(s[k]) /\ (k < Len(s) => s[k].pc = "calling")
  BY <1>1 DEF Nested
<1> HIDE DEF s
<1>5. Begun(Top(s))
  BY <1>2, <1>4
<1>6. Len(s) > 1 => Caller(s).pc = "calling" /\ Caller(s).calls # 0
  <2>1. Len(s) > 1 => Len(s) - 1 \in 1 .. Len(s) /\ Len(s) - 1 < Len(s)
    BY <1>2
  <2> QED
    BY <1>4, <2>1 DEF Caller, Begun
<1> QED
  BY <1>1, <1>2, <1>3, <1>5, <1>6 DEF s

\* The running call goes on as one that is past its hooks.
LEMMA PastGo ==
  ASSUME NEW pos, NoInstances, HookInv(pos), IInv', NEW r \in Reqs, stack[r] # <<>>, phase'[r] # "idle",
         NEW f, SameCall(f, Top(stack[r])), Begun(f), Past(f), Go(r, f)
  PROVE  Behind(pos, r)'
<1>1. IInv /\ Nested(r, stack[r])
  BY BehindFacts DEF HookInv, IsolationInv
<1>2. Nested(r, stack'[r]) /\ Top(stack'[r]) = f
  BY <1>1, GoNested
<1>3. Front(pos, hooks'[r], f)
  BY PastFront
<1> QED
  BY <1>2, <1>3, BehindAfter

\* The running call ends and its caller goes on as one that is past its hooks.
LEMMA PastGoBack ==
  ASSUME NEW pos, NoInstances, HookInv(pos), IInv', NEW r \in Reqs, Len(stack[r]) > 1, phase'[r] # "idle",
         NEW f, SameCall(f, Caller(stack[r])), Begun(f), Past(f), GoBack(r, f)
  PROVE  Behind(pos, r)'
<1>0. stack[r] \in Seq(Frame) /\ stack[r] # <<>>
  BY DEF HookInv, IsolationInv, IInv, Types
<1>1. IInv /\ Nested(r, stack[r])
  BY <1>0, BehindFacts DEF HookInv, IsolationInv
<1>2. Nested(r, stack'[r]) /\ Top(stack'[r]) = f
  BY <1>1, GoBackNested
<1>3. Front(pos, hooks'[r], f)
  BY PastFront
<1> QED
  BY <1>2, <1>3, BehindAfter

\* next() returns or rejects into a call that made it.
LEMMA ResumedPast ==
  ASSUME NEW f \in Frame, f.calls # 0
  PROVE  /\ SameCall(Resumed(f), f) /\ Begun(Resumed(f)) /\ Past(Resumed(f))
         /\ \A e : SameCall(Rejected(f, e), f) /\ Begun(Rejected(f, e)) /\ Past(Rejected(f, e))
<1>1. SameCall(Resumed(f), f) /\ Resumed(f).pc = "body" /\ Resumed(f).calls = f.calls
  BY DEF SameCall, Resumed, Frame
<1>2. \A e : SameCall(Rejected(f, e), f) /\ Rejected(f, e).pc = "rejected" /\ Rejected(f, e).calls = f.calls
  BY DEF SameCall, Rejected, Frame
<1> QED
  BY <1>1, <1>2 DEF Begun, Past

\* The catch clause of next().
LEMMA HandlingPast ==
  ASSUME NEW f \in Frame, NEW pc \in {"onError", "onNextError"}, pc = "onNextError" => f.calls # 0,
         NEW e, NEW c
  PROVE  LET h == Handling(f, pc, e, c) IN SameCall(h, f) /\ Begun(h) /\ Past(h)
<1> DEFINE h == Handling(f, pc, e, c)
<1>1. SameCall(h, f) /\ h.pc = pc /\ h.calls = f.calls
  <2> DEFINE q == HooksOf(c, "Error")
  <2>1. h = [f EXCEPT !.pc = pc, !.err = e, !.q = q]
    BY DEF Handling
  <2> HIDE DEF q, h
  <2> QED
    BY <2>1 DEF SameCall, Frame
<1> HIDE DEF h
<1>2. Begun(h) /\ Past(h)
  BY <1>1 DEF Begun, Past
<1> QED
  BY <1>1, <1>2 DEF h

\* A middleware ends with an error.
LEMMA FailBehind ==
  ASSUME NEW pos, NoInstances, HookInv(pos), IInv', NEW r \in Reqs, Len(stack[r]) > 1, phase'[r] # "idle",
         NEW e, Fail(r, e)
  PROVE  Behind(pos, r)'
<1> DEFINE f == Top(stack[r])
           c == Caller(stack[r])
           h == Handling(f, "onError", e, This(r, c).ctx)
<1>1. stack[r] \in Seq(Frame) /\ stack[r] # <<>>
  BY DEF HookInv, IsolationInv, IInv, Types
<1>2. f \in Frame /\ c \in Frame /\ c.calls # 0
  BY <1>1, BehindFacts
<1>3. GoBack(r, Rejected(c, e)) \/ GoBack(r, Rejected(c, TypeErrorFor(r, e))) \/ Go(r, h)
  BY DEF Fail
<1>4. SameCall(h, f) /\ Begun(h) /\ Past(h)
  BY <1>2, HandlingPast
<1> HIDE DEF h
<1>5. \A x : SameCall(Rejected(c, x), c) /\ Begun(Rejected(c, x)) /\ Past(Rejected(c, x))
  BY <1>2, ResumedPast
<1> QED
  BY <1>1, <1>3, <1>4, <1>5, PastGo, PastGoBack

\* next() ends with an error before it has a next middleware.
LEMMA FailNextBehind ==
  ASSUME NEW pos, NoInstances, HookInv(pos), IInv', NEW r \in Reqs, stack[r] # <<>>, phase'[r] # "idle",
         Top(stack[r]).pc \in {"beforeNext", "create"}, NEW e, FailNext(r, e)
  PROVE  Behind(pos, r)'
<1> DEFINE f == Top(stack[r])
           h == Handling(f, "onNextError", e, This(r, f).ctx)
<1>1. f \in Frame /\ f.calls # 0
  BY BehindFacts DEF Begun
<1>2. Go(r, Rejected(f, e)) \/ Go(r, Rejected(f, TypeErrorFor(r, e))) \/ Go(r, h)
  BY DEF FailNext
<1>3. SameCall(h, f) /\ Begun(h) /\ Past(h)
  BY <1>1, HandlingPast
<1> HIDE DEF h
<1>4. \A x : SameCall(Rejected(f, x), f) /\ Begun(Rejected(f, x)) /\ Past(Rejected(f, x))
  BY <1>1, ResumedPast
<1> QED
  BY <1>2, <1>3, <1>4, PastGo

-----------------------------------------------------------------------------
(* Every step leaves the hooks ahead of what they apply to *)

\* While r is served it has begun and does not become idle.
LEMMA NotIdle ==
  ASSUME IInv, NEW r \in Reqs, stack[r] # <<>>, LocalPhase(r)
  PROVE  phase'[r] # "idle"
BY DEF IInv, Phases, LocalPhase

\* Startup.invoke begins with no hook and ends with no call.
LEMMA StartupBehind ==
  ASSUME NEW pos, NoInstances, HookInv(pos), IInv', NEW r \in Reqs,
         Begin(r) \/ Answer(r) \/ CatchAndAnswer(r)
  PROVE  Behind(pos, r)'
<1> DEFINE none == <<>>
           g == NewFrame(<<Main[r], 0>>, r, 0, "compose", none)
<1>1. stack \in [Reqs -> Seq(Frame)] /\ phase \in [Reqs -> {"idle", "open", "done"}] /\ Behind(pos, r)
  BY DEF HookInv, IsolationInv, IInv, Types, Phases
<1>2. ASSUME phase'[r] # "idle", stack'[r] = none PROVE Behind(pos, r)'
  BY <1>2 DEF Behind, Nested
<1>3. CASE Begin(r)
  <2>1. g.at = <<Main[r], 0>> /\ g.pc = "compose"
    <3> HIDE DEF none
    <3> QED
      BY DEF NewFrame
  <2> HIDE DEF g, none
  <2>2. UNCHANGED hooks /\ phase[r] = "idle" /\ stack[r] = <<>>
        /\ \/ UNCHANGED stack /\ phase' = [phase EXCEPT ![r] = "done"]
           \/ stack' = [stack EXCEPT ![r] = <<g>>] /\ phase' = [phase EXCEPT ![r] = "open"]
    BY <1>3 DEF Begin, g, none, HookInv, IsolationInv, IInv, Phases
  <2>3. phase'[r] # "idle" /\ hooks'[r] = hooks[r]
    BY <1>1, <2>2
  <2>4. CASE UNCHANGED stack
    BY <1>2, <2>2, <2>3, <2>4 DEF none
  <2>5. CASE stack' = [stack EXCEPT ![r] = <<g>>]
    <3>1. stack'[r] = <<g>>
      BY <1>1, <2>5
    <3>2. Nested(r, stack'[r])
      BY <2>1, <3>1 DEF Nested, Begun, HomeOwns, Inner
    <3>3. \A t \in HookTypes : hooks'[r][t] = none
      BY <1>1, <2>2, <2>3 DEF Behind, none
    <3>4. DOMAIN none = {}
      BY DEF none
    <3>5. Front(pos, hooks'[r], g)
      BY <2>1, <3>3, <3>4 DEF Front, HooksBelow
    <3>6. Top(stack'[r]) = g
      BY <3>1 DEF Top
    <3> QED
      BY <2>3, <3>2, <3>5, <3>6, BehindAfter
  <2> QED
    BY <2>2, <2>4, <2>5
<1>4. CASE Answer(r) \/ CatchAndAnswer(r)
  <2>1. phase' = [phase EXCEPT ![r] = "done"] /\ stack' = [stack EXCEPT ![r] = none]
    BY <1>4 DEF Answer, CatchAndAnswer
  <2> QED
    BY <1>1, <1>2, <2>1
<1> QED
  BY <1>3, <1>4

\* Code that throws, and code that an error or a return value comes back to.
LEMMA ReturnBehind ==
  ASSUME NEW pos, NoInstances, HookInv(pos), IInv', NEW r \in Reqs, stack[r] # <<>>, phase'[r] # "idle",
         FirstFails(r) \/ ReturnFromInvoke(r) \/ ThrowInInvoke(r) \/ Propagate(r) \/ Swallow(r)
           \/ CreateFails(r) \/ FinishNext(r) \/ CatchError(r)
           \/ HookVetoes(r) \/ HookHandles(r) \/ HookThrows(r) \/ ErrorHookThrows(r)
  PROVE  Behind(pos, r)'
<1> DEFINE f == Top(stack[r])
           c == Caller(stack[r])
<1>1. /\ f \in Frame /\ FrameOK(f) /\ Begun(f)
      /\ Len(stack[r]) > 1 => c \in Frame /\ c.calls # 0
      /\ f.pc \in {"beforeInvoke", "afterInvoke", "onError"} => Len(stack[r]) > 1
      /\ Inner(f) <=> Len(stack[r]) > 1
  BY BehindFacts
<1>2. Len(stack[r]) > 1 =>
        /\ SameCall(Resumed(c), c) /\ Begun(Resumed(c)) /\ Past(Resumed(c))
        /\ \A e : SameCall(Rejected(c, e), c) /\ Begun(Rejected(c, e)) /\ Past(Rejected(c, e))
  BY <1>1, ResumedPast
<1>3. f.pc \in {"beforeNext", "onNextError"} =>
        /\ SameCall(Resumed(f), f) /\ Begun(Resumed(f)) /\ Past(Resumed(f))
        /\ \A e : SameCall(Rejected(f, e), f) /\ Begun(Rejected(f, e)) /\ Past(Rejected(f, e))
  BY <1>1, ResumedPast DEF Begun
<1>4. ASSUME \/ f.pc \in {"beforeNext", "onNextError"} /\ Go(r, Resumed(f))
             \/ Len(stack[r]) > 1 /\ GoBack(r, Resumed(c))
      PROVE  Behind(pos, r)'
  BY <1>2, <1>3, <1>4, PastGo, PastGoBack
<1>5. CASE FirstFails(r)
  <2>1. PICK e : f.pc = "compose" /\ Go(r, Rejected(f, e))
    BY <1>5 DEF FirstFails, Running
  <2>2. SameCall(Rejected(f, e), f) /\ Rejected(f, e).pc = "rejected" /\ Rejected(f, e).at = f.at
    BY <1>1 DEF SameCall, Rejected, Frame
  <2>3. Begun(Rejected(f, e)) /\ Past(Rejected(f, e))
    BY <1>1, <2>1, <2>2 DEF Begun, Past, FrameOK
  <2> QED
    BY <2>1, <2>2, <2>3, PastGo
<1>6. CASE ReturnFromInvoke(r)
  <2> DEFINE q == HooksOf(This(r, c).ctx, "AfterInvoke")
             g == [c EXCEPT !.pc = "body"]
             h == [f EXCEPT !.pc = "afterInvoke", !.q = q]
  <2>1. Len(stack[r]) > 1 /\ (GoBack(r, g) \/ Go(r, h))
    BY <1>6 DEF ReturnFromInvoke
  <2> HIDE DEF q
  <2>2. SameCall(g, c) /\ g.pc = "body" /\ g.calls # 0
    BY <1>1, <2>1 DEF SameCall, Frame
  <2>3. SameCall(h, f) /\ h.pc = "afterInvoke"
    BY <1>1 DEF SameCall, Frame
  <2> HIDE DEF g, h
  <2>4. Begun(g) /\ Past(g) /\ Begun(h) /\ Past(h)
    BY <2>2, <2>3 DEF Begun, Past
  <2> QED
    BY <2>1, <2>2, <2>3, <2>4, PastGo, PastGoBack
<1>7. CASE ThrowInInvoke(r)
  <2>1. PICK e : Fail(r, e)
    BY <1>7 DEF ThrowInInvoke
  <2>2. Len(stack[r]) > 1
    BY <1>1, <1>7 DEF ThrowInInvoke, InBody, Role, Inner
  <2> QED
    BY <2>1, <2>2, FailBehind
<1>8. CASE Propagate(r)
  BY <1>8, FailBehind DEF Propagate
<1>9. CASE Swallow(r)
  <2> DEFINE g == [f EXCEPT !.pc = "body", !.err = None]
  <2>1. Go(r, g) /\ f.pc = "rejected" /\ Role(f.at) = "user"
    BY <1>9 DEF Swallow, Running
  <2>2. SameCall(g, f) /\ g.pc = "body" /\ g.calls = f.calls
    BY <1>1 DEF SameCall, Frame
  <2> HIDE DEF g
  <2>3. Begun(g) /\ Past(g)
    BY <1>1, <2>1, <2>2 DEF Begun, Past
  <2> QED
    BY <2>1, <2>2, <2>3, PastGo
<1>10. CASE CreateFails(r)
  BY <1>10, FailNextBehind DEF CreateFails, Running
<1>11. CASE FinishNext(r)
  BY <1>1, <1>4, <1>11 DEF FinishNext, Running
<1>12. CASE CatchError(r)
  <2>1. \/ f.pc = "onError" /\ GoBack(r, Resumed(c))
        \/ f.pc = "onNextError" /\ Go(r, Resumed(f))
    BY <1>12 DEF CatchError, Running
  <2> QED
    BY <1>1, <1>4, <2>1
<1>13. CASE HookVetoes(r)
  BY <1>1, <1>4, <1>13 DEF HookVetoes, InHook
<1>14. CASE HookHandles(r)
  BY <1>1, <1>4, <1>14 DEF HookHandles, InHook
<1>15. CASE HookThrows(r)
  <2>1. PICK e : \/ f.pc \in {"beforeNext", "create"} /\ FailNext(r, e)
                 \/ Len(stack[r]) > 1 /\ Fail(r, e)
    BY <1>1, <1>15 DEF HookThrows, InHook
  <2> QED
    BY <2>1, FailBehind, FailNextBehind
<1>16. CASE ErrorHookThrows(r)
  <2>1. PICK e : \/ f.pc = "onError" /\ GoBack(r, Rejected(c, e))
                 \/ f.pc = "onNextError" /\ Go(r, Rejected(f, e))
    BY <1>16 DEF ErrorHookThrows, InHook
  <2> QED
    BY <1>1, <1>2, <1>3, <2>1, PastGo, PastGoBack
<1> QED
  BY <1>5, <1>6, <1>7, <1>8, <1>9, <1>10, <1>11, <1>12, <1>13, <1>14, <1>15, <1>16

\* The running call goes on, and the hooks of its request stand ahead of it.
LEMMA FrontGo ==
  ASSUME NEW pos, NoInstances, HookInv(pos), IInv', NEW r \in Reqs, stack[r] # <<>>, phase'[r] # "idle",
         NEW f, SameCall(f, Top(stack[r])), Begun(f), Front(pos, hooks'[r], f), Go(r, f)
  PROVE  Behind(pos, r)'
<1>1. IInv /\ Nested(r, stack[r])
  BY BehindFacts DEF HookInv, IsolationInv
<1>2. Nested(r, stack'[r]) /\ Top(stack'[r]) = f
  BY <1>1, GoNested
<1> QED
  BY <1>2, BehindAfter

\* What stands ahead of a place stands ahead of all that follow.
LEMMA BelowMore ==
  ASSUME NEW pos \in [Places -> Nat], IInv, NEW r \in Reqs, NEW m \in Nat, NEW n \in Nat, m <= n,
         HooksBelow(pos, hooks[r], m)
  PROVE  HooksBelow(pos, hooks[r], n)
<1> SUFFICES ASSUME NEW t \in HookTypes, NEW i \in DOMAIN hooks[r][t]
             PROVE  pos[hooks[r][t][i]] < n
  BY DEF HooksBelow
<1>1. hooks[r][t] \in Seq(Places)
  BY DEF IInv, Types
<1>2. pos[hooks[r][t][i]] \in Nat
  BY <1>1
<1>3. pos[hooks[r][t][i]] < m
  BY DEF HooksBelow
<1> QED
  BY <1>2, <1>3

\* next() and execHooks, as long as the call on top stays there.
LEMMA StayBehind ==
  ASSUME NEW pos \in [Places -> Nat], NoInstances, HookInv(pos), IInv',
         NEW r \in Reqs, stack[r] # <<>>, phase'[r] # "idle",
         AfterBeforeNext(r) \/ InvokeNext(r) \/ HookPasses(r) \/ HookEndsLoop(r) \/ EnterCompose(r)
  PROVE  Behind(pos, r)'
<1> DEFINE f == Top(stack[r])
<1>1. /\ f \in Frame /\ FrameOK(f) /\ Begun(f) /\ Front(pos, hooks[r], f) /\ hooks'[r] = hooks[r]
  BY BehindFacts DEF AfterBeforeNext, InvokeNext, HookPasses, HookEndsLoop, EnterCompose
<1>2. CASE AfterBeforeNext(r)
  <2> DEFINE q == ConstructorHooks(This(r, f).ctx, Successor(This(r, f).at))
             g == [f EXCEPT !.pc = "create", !.q = q]
  <2>1. f.pc = "beforeNext" /\ (Go(r, Resumed(f)) \/ Go(r, g))
    BY <1>2 DEF AfterBeforeNext, Running
  <2> HIDE DEF q
  <2>2. SameCall(g, f) /\ g.pc = "create" /\ g.at = f.at /\ g.calls = f.calls
    BY <1>1 DEF SameCall, Frame
  <2> HIDE DEF g
  <2>3. Begun(g) /\ Front(pos, hooks'[r], g)
    BY <1>1, <2>1, <2>2 DEF Begun, Front, Unreached
  <2>4. SameCall(Resumed(f), f) /\ Begun(Resumed(f)) /\ Past(Resumed(f))
    BY <1>1, <2>1, ResumedPast DEF Begun
  <2> QED
    BY <2>1, <2>2, <2>3, <2>4, FrontGo, PastGo
<1>3. CASE InvokeNext(r)
  <2> DEFINE g == [f EXCEPT !.pc = "body"]
  <2>1. Go(r, g) /\ f.pc = "beforeInvoke"
    BY <1>3 DEF InvokeNext, Running
  <2>2. SameCall(g, f) /\ g.pc = "body" /\ g.at = f.at
    BY <1>1 DEF SameCall, Frame
  <2> HIDE DEF g
  <2>3. Begun(g) /\ Front(pos, hooks'[r], g)
    BY <1>1, <2>1, <2>2 DEF Begun, Front, Unreached
  <2> QED
    BY <2>1, <2>2, <2>3, FrontGo
<1>4. CASE HookPasses(r)
  <2> DEFINE g == [f EXCEPT !.q = Tail(@)]
  <2>1. Go(r, g) /\ f.q # <<>> /\ f.q \in Seq(Places)
    BY <1>1, <1>4 DEF HookPasses, InHook, Frame
  <2>2. SameCall(g, f) /\ g.pc = f.pc /\ g.at = f.at /\ g.calls = f.calls /\ g.q = Tail(f.q)
    BY <1>1 DEF SameCall, Frame
  <2> HIDE DEF g
  <2>3. \A i \in DOMAIN Tail(f.q) : i + 1 \in DOMAIN f.q /\ Tail(f.q)[i] = f.q[i + 1]
    BY <2>1
  <2>4. Begun(g) /\ Front(pos, hooks'[r], g)
    BY <1>1, <2>2, <2>3 DEF Begun, Front, Unreached
  <2> QED
    BY <2>1, <2>2, <2>4, FrontGo
<1>5. CASE HookEndsLoop(r)
  <2> DEFINE none == <<>>
             g == [f EXCEPT !.q = none]
  <2>1. Go(r, g) /\ f.pc \in {"afterInvoke", "create", "compose"}
    BY <1>5 DEF HookEndsLoop, InHook
  <2> HIDE DEF none
  <2>2. SameCall(g, f) /\ g.pc = f.pc /\ g.at = f.at /\ g.calls = f.calls
    BY <1>1 DEF SameCall, Frame
  <2> HIDE DEF g
  <2>3. Begun(g) /\ Front(pos, hooks'[r], g)
    BY <1>1, <2>1, <2>2 DEF Begun, Front, Unreached
  <2> QED
    BY <2>1, <2>2, <2>3, FrontGo
<1>6. CASE EnterCompose(r)
  <2> DEFINE q == ConstructorHooks(Self(f).ctx, <<ListOf(f.at), 1>>)
             x == Self(f).ctx
             g == [f EXCEPT !.pc = "compose", !.ctx = x, !.q = q]
  <2>1. Go(r, g) /\ f.pc = "body" /\ f.calls = 0
    BY <1>6 DEF EnterCompose, InBody, Running
  <2> HIDE DEF q, x
  <2>2. SameCall(g, f) /\ g.pc = "compose" /\ g.at = f.at
    BY <1>1 DEF SameCall, Frame
  <2> HIDE DEF g
  <2>3. Begun(g) /\ Front(pos, hooks'[r], g)
    BY <1>1, <2>1, <2>2 DEF Begun, Front, Unreached
  <2> QED
    BY <2>1, <2>2, <2>3, FrontGo
<1> QED
  BY <1>2, <1>3, <1>4, <1>5, <1>6

\* next() is called for the first time: the hook that calls it has registered
\* itself, and stands ahead of what is next.
LEMMA CallNextBehind ==
  ASSUME NEW pos \in [Places -> Nat], MaxNext <= 1, NoInstances, HookInv(pos), IInv',
         NEW r \in Reqs, stack[r] # <<>>, phase'[r] # "idle", CallNext(r) \/ RegisterHook(r)
  PROVE  Behind(pos, r)'
<1> DEFINE f == Top(stack[r])
           q == hooks'[This(r, f).ctx]["BeforeNext"]
           g == [f EXCEPT !.pc = "beforeNext", !.calls = @ + 1, !.q = q]
           n == pos[f.at]
<1>1. f \in Frame /\ f.at \in Places /\ f.calls \in Nat /\ Front(pos, hooks[r], f) /\ This(r, f).ctx = r
  BY BehindFacts DEF Frame
<1>2. f.pc = "body" /\ f.calls = 0 /\ Go(r, g)
  <2>1. f.pc = "body" /\ (f.calls = 0 \/ f.calls < MaxNext)
    BY DEF CallNext, RegisterHook, InBody, Running
  <2>2. CallNext(r) => hooks' = hooks
    BY DEF CallNext
  <2>3. Go(r, g)
    BY <2>2 DEF CallNext, RegisterHook, StartNext
  <2> QED
    BY <1>1, <2>1, <2>3, BoundsAssumption
<1>3. SameCall(g, f) /\ g.pc = "beforeNext" /\ g.at = f.at /\ g.calls # 0
  <2> HIDE DEF q
  <2> QED
    BY <1>1, <1>2 DEF SameCall, Frame
<1> HIDE DEF g
<1>4. n \in Nat /\ n <= n + 1
  BY <1>1
<1>5. HooksBelow(pos, hooks[r], n + 1)
  <2>1. HooksBelow(pos, hooks[r], n)
    BY <1>1, <1>2 DEF Front, Unreached
  <2> QED
    BY <1>4, <2>1, BelowMore DEF HookInv, IsolationInv
<1>6. HooksBelow(pos, hooks'[r], n + 1)
  <2>1. CASE CallNext(r)
    BY <1>5, <2>1 DEF CallNext
  <2>2. CASE RegisterHook(r)
    <3> DEFINE t == ItemAt(f.at).arg
    <3>1. hooks' = [hooks EXCEPT ![This(r, f).ctx][t] = Append(@, f.at)]
      BY <2>2 DEF RegisterHook
    <3>2. hooks \in [Reqs -> [HookTypes -> Seq(Places)]]
      BY DEF HookInv, IsolationInv, IInv, Types
    <3>3. hooks'[r] = [hooks[r] EXCEPT ![t] = Append(@, f.at)]
      BY <1>1, <3>1, <3>2
    <3> HIDE DEF t
    <3>4. ASSUME NEW u \in HookTypes, NEW i \in DOMAIN hooks'[r][u]
          PROVE  pos[hooks'[r][u][i]] < n + 1
      <4>1. hooks[r][u] \in Seq(Places)
        BY <3>2
      <4>2. CASE u # t
        BY <1>5, <3>2, <3>3, <3>4, <4>2 DEF HooksBelow
      <4>3. CASE u = t
        <5>1. hooks'[r][u] = Append(hooks[r][u], f.at)
          BY <3>2, <3>3, <4>3
        <5>2. hooks'[r][u][i] = f.at \/ (i \in DOMAIN hooks[r][u] /\ hooks'[r][u][i] = hooks[r][u][i])
          BY <1>1, <3>4, <4>1, <5>1
        <5> QED
          BY <1>4, <1>5, <5>2 DEF HooksBelow
      <4> QED
        BY <4>2, <4>3
    <3> QED
      BY <3>4 DEF HooksBelow
  <2> QED
    BY <2>1, <2>2
<1>7. Begun(g) /\ Front(pos, hooks'[r], g)
  BY <1>3, <1>6 DEF Begun, Front, Unreached
<1> QED
  BY <1>2, <1>3, <1>7, FrontGo

\* The running call makes another one, further on.
LEMMA FrontCall ==
  ASSUME NEW pos, NoInstances, HookInv(pos), IInv', NEW r \in Reqs, stack[r] # <<>>, phase'[r] # "idle",
         NEW f, SameCall(f, Top(stack[r])), f.pc = "calling", Begun(f), NEW g, Begun(g),
         g.at[1] = Main[r] \/ (g.home \in 1 .. Len(stack[r]) /\ ListOf(stack[r][g.home].at) = g.at[1]),
         Front(pos, hooks'[r], g), GoAndCall(r, f, g)
  PROVE  Behind(pos, r)'
<1>1. IInv /\ Nested(r, stack[r])
  BY BehindFacts DEF HookInv, IsolationInv
<1>2. Nested(r, stack'[r]) /\ Top(stack'[r]) = g
  BY <1>1, CallNested
<1> QED
  BY <1>2, BehindAfter

\* The first middleware of a list stands behind what has the list.
LEMMA InvokeFirstBehind ==
  ASSUME NEW pos, InOrder(pos), NoInstances, HookInv(pos), IInv',
         NEW r \in Reqs, stack[r] # <<>>, phase'[r] # "idle", InvokeFirst(r)
  PROVE  Behind(pos, r)'
<1> DEFINE s == stack[r]
           f == Top(s)
           p == <<ListOf(f.at), 1>>
           none == <<>>
           f2 == [f EXCEPT !.pc = "calling", !.calls = 1]
           g == NewFrame(p, f.ctx, Len(s), "body", none)
<1>1. /\ f \in Frame /\ FrameOK(f) /\ f.at \in Places /\ f.pc = "compose" /\ Front(pos, hooks[r], f)
      /\ IInv /\ hooks'[r] = hooks[r] /\ (Inner(f) <=> Len(s) > 1)
  BY BehindFacts DEF Frame, InvokeFirst, Running, HookInv, IsolationInv
<1>2. Role(f.at) \in {"startup", "compose"} /\ s \in Seq(Frame) /\ Len(s) \in 1 .. Len(s) /\ f = s[Len(s)]
      /\ Chained(r, s, owner) /\ Len(s) \in Nat \ {0}
  BY <1>1, TopFacts DEF FrameOK, IInv
<1>3. Role(f.at) = "startup" => f.at = <<Main[r], 0>> /\ mds[Main[r]] # <<>> /\ ListOf(f.at) = Main[r]
  <2> SUFFICES ASSUME Role(f.at) = "startup"
               PROVE  f.at = <<Main[r], 0>> /\ mds[Main[r]] # <<>> /\ ListOf(f.at) = Main[r]
    OBVIOUS
  <2>1. ~Inner(f)
    <3> SUFFICES ASSUME Inner(f) PROVE FALSE
      OBVIOUS
    <3>1. ItemAt(f.at) \in Item /\ ItemAt(f.at).role = "startup"
      BY <1>1, ItemFacts DEF Role, Inner
    <3> QED
      BY <3>1 DEF Item
  <2>2. Len(s) = 1 /\ f = s[1] /\ 1 \in 1 .. Len(s)
    <3> HIDE DEF f, s
    <3>1. Len(s) \in Nat \ {0} /\ f = s[Len(s)]
      BY <1>2
    <3>2. ~(Len(s) > 1)
      BY <1>1, <2>1
    <3>3. Len(s) = 1
      BY <3>1, <3>2
    <3>4. 1 \in 1 .. Len(s)
      BY <3>3
    <3> QED
      BY <3>1, <3>3, <3>4
  <2>3. f.at = <<Main[r], 0>> /\ mds[Main[r]] # <<>>
    <3> HIDE DEF f, s
    <3> QED
      BY <1>2, <2>2 DEF Chained
  <2> QED
    BY <2>3 DEF ListOf
<1>4. p \in Places
  <2>1. Role(f.at) = "startup" => mds[f.at[1]] # <<>>
    BY <1>3
  <2> QED
    BY <1>1, <1>2, <2>1, FirstPlace
<1>5. ListOf(f.at) \in DOMAIN mds /\ 1 \in 1 .. Len(mds[ListOf(f.at)])
  <2>1. p[1] \in DOMAIN mds /\ p[2] <= Len(mds[p[1]])
    BY <1>4, PlaceType
  <2>2. p[1] = ListOf(f.at) /\ p[2] = 1
    OBVIOUS
  <2>3. ListOf(f.at) \in DOMAIN mds /\ 1 <= Len(mds[ListOf(f.at)])
    <3> HIDE DEF p
    <3> QED
      BY <2>1, <2>2
  <2>4. Len(mds[ListOf(f.at)]) \in Nat
    BY <2>3, ListsAssumption
  <2> HIDE DEF f
  <2> QED
    BY <2>3, <2>4
<1>6. pos[f.at] \in Nat /\ pos[p] \in Nat /\ pos[f.at] < pos[p]
  <2>1. pos[f.at] \in Nat /\ pos[p] \in Nat
    BY <1>1, <1>4 DEF InOrder
  <2>2. CASE Role(f.at) = "startup"
    <3> DEFINE l == Main[r]
    <3>1. f.at = <<l, 0>> /\ p = <<l, 1>> /\ l \in DOMAIN mds /\ Len(mds[l]) \in Nat /\ 1 \in 1 .. Len(mds[l])
      BY <1>3, <1>5, <2>2, ListsAssumption
    <3> HIDE DEF l, f, p
    <3>2. 0 \in 0 .. Len(mds[l]) /\ 1 \in 0 .. Len(mds[l]) /\ 0 < 1
      BY <3>1
    <3>3. pos[<<l, 0>>] < pos[<<l, 1>>]
      BY <3>1, <3>2 DEF InOrder
    <3> QED
      BY <2>1, <3>1, <3>3
  <2>3. CASE Role(f.at) = "compose"
    <3> HIDE DEF f
    <3> QED
      BY <1>1, <1>5, <2>1, <2>3 DEF InOrder
  <2> QED
    BY <1>2, <2>1, <2>2, <2>3
<1>7. HooksBelow(pos, hooks[r], pos[p])
  <2>1. HooksBelow(pos, hooks[r], pos[f.at])
    BY <1>1 DEF Front, Unreached
  <2>2. pos \in [Places -> Nat] /\ pos[f.at] <= pos[p]
    BY <1>6 DEF InOrder
  <2> HIDE DEF p, f
  <2> QED
    BY <1>1, <1>6, <2>1, <2>2, BelowMore
<1>8. g.at = p /\ g.home = Len(s) /\ g.pc = "body" /\ p[1] = ListOf(f.at)
  <2> HIDE DEF none, f
  <2> QED
    BY DEF NewFrame
<1>9. SameCall(f2, f) /\ f2.pc = "calling" /\ f2.calls = 1
  BY <1>1 DEF SameCall, Frame
<1>10. GoAndCall(r, f2, g)
  BY DEF InvokeFirst, GoAndCall
<1> HIDE DEF g, f2, p
<1>11. Begun(f2) /\ Begun(g) /\ Front(pos, hooks'[r], g)
  BY <1>1, <1>7, <1>8, <1>9 DEF Begun, Front, Unreached
<1>12. g.at[1] = Main[r] \/ (g.home \in 1 .. Len(s) /\ ListOf(s[g.home].at) = g.at[1])
  <2>1. g.home \in 1 .. Len(s) /\ s[g.home] = f
    BY <1>2, <1>8
  <2> QED
    BY <1>8, <2>1
<1> QED
  BY <1>9, <1>10, <1>11, <1>12, FrontCall

\* The next middleware stands behind the one that called next(), and a
\* composed list ahead of what is behind its ComposeMiddleware.
LEMMA InitNextBehind ==
  ASSUME NEW pos, InOrder(pos), NoInstances, HookInv(pos), IInv',
         NEW r \in Reqs, stack[r] # <<>>, phase'[r] # "idle", InitNext(r)
  PROVE  Behind(pos, r)'
<1> DEFINE s == stack[r]
           f == Top(s)
           this == This(r, f)
           p == Successor(this.at)
           q == HooksOf(this.ctx, "BeforeInvoke")
           f2 == [f EXCEPT !.pc = "calling"]
           g == NewFrame(p, this.ctx, this.home, "beforeInvoke", q)
<1>1. /\ f \in Frame /\ f.at \in Places /\ f.pc = "create" /\ Begun(f) /\ Front(pos, hooks[r], f)
      /\ IInv /\ hooks'[r] = hooks[r] /\ Nested(r, s) /\ this.ctx = r
  BY BehindFacts DEF Frame, InitNext, Running, HookInv, IsolationInv
<1>2. /\ s \in Seq(Frame) /\ Len(s) \in 1 .. Len(s) /\ Len(s) \in Nat /\ f = s[Len(s)]
      /\ Chained(r, s, owner) /\ this.at \in Places /\ this.at = ThisAt(s, Len(s))
  BY <1>1, TopFacts DEF IInv
<1>3. p \in Places /\ p = <<this.at[1], this.at[2] + 1>> /\ p[1] = this.at[1]
  BY <1>1, <1>2 DEF Chained, Successor
<1>4. \A k \in 1 .. Len(s) : HomeOwns(r, s, k)
  BY <1>1 DEF Nested
<1>5. \A k \in 1 .. Len(s) : Inner(s[k]) /\ s[k].at[1] # Main[r] =>
        s[k].home \in 1 .. Len(s) /\ Role(s[s[k].home].at) = "compose"
  <2> HIDE DEF s
  <2> QED
    BY <1>2, HomeThere
<1>6. \A k \in 1 .. Len(s) : ~Inner(s[k]) => s[k].at[1] = Main[r]
  <2> HIDE DEF s
  <2> QED
    BY <1>2 DEF Chained
<1>7. \E k \in 1 .. Len(s) :
        /\ this.at = s[k].at /\ this.home = s[k].home
        /\ pos[f.at] < pos[p]
  <2>1. pos \in [Places -> Nat]
    BY DEF InOrder
  <2>2. CASE Role(f.at) # "tail"
    <3>1. this.at = f.at /\ this.home = f.home
      BY <2>2 DEF This, Self
    <3> DEFINE l == f.at[1]
               i == f.at[2]
    <3>2. f.at = <<l, i>> /\ p = <<l, i + 1>> /\ l \in DOMAIN mds /\ i \in Nat /\ i + 1 <= Len(mds[l])
          /\ Len(mds[l]) \in Nat
      <4>1. f.at = <<f.at[1], f.at[2]>> /\ p = <<f.at[1], f.at[2] + 1>> /\ f.at[2] \in Nat
        BY <1>1, <1>3, <3>1, PlaceType
      <4>2. p[1] = f.at[1] /\ p[2] = f.at[2] + 1
        <5> HIDE DEF p, f
        <5> QED
          BY <4>1
      <4>3. p[1] \in DOMAIN mds /\ p[2] <= Len(mds[p[1]])
        BY <1>3, PlaceType
      <4>4. Len(mds[f.at[1]]) \in Nat
        BY <4>2, <4>3, ListsAssumption
      <4> QED
        BY <4>1, <4>2, <4>3, <4>4
    <3> HIDE DEF l, i, p, f
    <3>3. i \in 0 .. Len(mds[l]) /\ i + 1 \in 0 .. Len(mds[l]) /\ i < i + 1
      BY <3>2
    <3>4. pos[f.at] < pos[p]
      BY <3>2, <3>3 DEF InOrder
    <3> QED
      BY <1>2, <3>1, <3>4
  <2>3. CASE Role(f.at) = "tail"
    <3> DEFINE h == s[f.home]
    <3>1. f.at[2] # 0 /\ ItemAt(f.at).role = "tail"
      BY <2>3 DEF Role
    <3>2. Inner(f) /\ f.at[1] # Main[r]
      BY <1>1, <3>1, ItemFacts DEF Inner
    <3>3. f.home \in 1 .. Len(s) /\ Role(h.at) = "compose" /\ ListOf(h.at) = f.at[1]
      <4> HIDE DEF s, f
      <4> QED
        BY <1>2, <1>4, <1>5, <3>2 DEF HomeOwns
    <3>4. this.at = h.at /\ this.home = h.home
      BY <2>3 DEF This, Self
    <3> DEFINE l == f.at[1]
               i == f.at[2]
    <3>5. f.at = <<l, i>> /\ l \in DOMAIN mds /\ i \in Nat \ {0} /\ i <= Len(mds[l]) /\ Len(mds[l]) \in Nat
      BY <1>1, <3>1, PlaceType, ListsAssumption
    <3>6. h.at \in Places /\ p = Successor(h.at)
      BY <1>2, <3>4
    <3> HIDE DEF l, i, p, f, h, this
    <3>7. i \in 1 .. Len(mds[l])
      BY <3>5
    <3>8. pos[f.at] < pos[p]
      BY <1>3, <3>3, <3>5, <3>6, <3>7 DEF InOrder, l
    <3> QED
      BY <3>3, <3>4, <3>8 DEF h
  <2> QED
    BY <2>2, <2>3
<1>8. pos[f.at] \in Nat /\ pos[p] \in Nat /\ pos \in [Places -> Nat]
  BY <1>1, <1>3 DEF InOrder
<1>9. HooksBelow(pos, hooks[r], pos[p])
  <2>1. HooksBelow(pos, hooks[r], pos[f.at] + 1)
    BY <1>1 DEF Front
  <2>2. pos[f.at] < pos[p]
    BY <1>7
  <2> HIDE DEF p, f
  <2>3. pos[f.at] + 1 \in Nat /\ pos[f.at] + 1 <= pos[p]
    BY <1>8, <2>2
  <2> QED
    BY <1>1, <1>8, <2>1, <2>3, BelowMore
<1>10. \A i \in DOMAIN q : pos[q[i]] < pos[p]
  <2>1. q = hooks[r]["BeforeInvoke"]
    BY <1>1 DEF HooksOf
  <2> QED
    BY <1>9, <2>1 DEF HooksBelow, HookTypes
<1>11. g.at = p /\ g.home = this.home /\ g.pc = "beforeInvoke" /\ g.q = q
  <2> HIDE DEF q, this
  <2> QED
    BY DEF NewFrame
<1>12. SameCall(f2, f) /\ f2.pc = "calling" /\ f2.calls = f.calls
  BY <1>1 DEF SameCall, Frame
<1>13. GoAndCall(r, f2, g)
  BY DEF InitNext, GoAndCall
<1>14. g.at[1] = Main[r] \/ (g.home \in 1 .. Len(s) /\ ListOf(s[g.home].at) = g.at[1])
  <2>1. PICK k \in 1 .. Len(s) : this.at = s[k].at /\ this.home = s[k].home
    BY <1>7
  <2>2. g.at[1] = s[k].at[1] /\ g.home = s[k].home
    BY <1>3, <1>11, <2>1
  <2> HIDE DEF g, s
  <2> QED
    BY <1>4, <1>5, <1>6, <2>2 DEF HomeOwns
<1> HIDE DEF g, f2, p, q
<1>15. Begun(f2) /\ Begun(g) /\ Front(pos, hooks'[r], g)
  BY <1>1, <1>9, <1>10, <1>11, <1>12 DEF Begun, Front, Unreached
<1> QED
  BY <1>12, <1>13, <1>14, <1>15, FrontCall

\* Whatever step r takes.
LEMMA ServeBehind ==
  ASSUME NEW pos, InOrder(pos), MaxNext <= 1, NoInstances, HookInv(pos), IInv',
         NEW r \in Reqs, Begin(r) \/ Serve(r)
  PROVE  Behind(pos, r)'
<1>1. pos \in [Places -> Nat] /\ IInv /\ Own
  BY DEF InOrder, HookInv, IsolationInv
<1>2. CASE Begin(r) \/ Answer(r) \/ CatchAndAnswer(r)
  BY <1>2, StartupBehind
<1>3. CASE ~(Begin(r) \/ Answer(r) \/ CatchAndAnswer(r))
  <2>1. stack[r] # <<>>
    BY <1>3 DEF Serve, InvokeFirst, FirstFails, CallNext, RegisterHook, EnterCompose, ReturnFromInvoke,
       ThrowInInvoke, Propagate, Swallow, AfterBeforeNext, InitNext, CreateFails, InvokeNext, FinishNext,
       CatchError, HookPasses, HookEndsLoop, HookVetoes, HookHandles, HookThrows, ErrorHookThrows,
       InBody, Running, InHook
  <2>2. LocalPhase(r)
    BY <1>1, StepLocal DEF Local
  <2>3. phase'[r] # "idle"
    BY <1>1, <2>1, <2>2, NotIdle
  <2> QED
    BY <1>1, <1>3, <2>1, <2>3, ReturnBehind, StayBehind, CallNextBehind, InvokeFirstBehind,
       InitNextBehind DEF Serve
<1> QED
  BY <1>2, <1>3

\* At first no hook is registered and nothing runs.
LEMMA HookInit ==
  ASSUME NEW pos, Init
  PROVE  HookInv(pos)
<1> DEFINE none == <<>>
<1>1. \A r \in Reqs : stack[r] = none /\ \A t \in HookTypes : hooks[r][t] = none
  BY DEF Init
<1>2. Len(none) = 0 /\ none = <<>>
  OBVIOUS
<1> HIDE DEF none
<1> QED
  BY <1>1, <1>2, IsolationInit DEF HookInv, Behind, Nested

\* A step of one request leaves the hooks of the others alone.
LEMMA HookStep ==
  ASSUME NEW pos, InOrder(pos), MaxNext <= 1, NoInstances, HookInv(pos), [Next]_vars
  PROVE  HookInv(pos)'
<1>1. IsolationInv /\ IsolationInv' /\ IInv /\ IInv' /\ Own
  BY IsolationStep DEF HookInv, IsolationInv
<1>2. CASE UNCHANGED vars
  BY <1>1, <1>2 DEF vars, HookInv, Behind, Nested
<1>3. ASSUME NEW r \in Reqs, Begin(r) \/ Serve(r), NEW q \in Reqs
      PROVE  Behind(pos, q)'
  <2>1. CASE q = r
    BY <1>1, <1>3, <2>1, ServeBehind
  <2>2. CASE q # r
    <3>1. Local(r)
      BY <1>1, <1>3, StepLocal
    <3>2. stack'[q] = stack[q] /\ hooks'[q] = hooks[q]
      BY <2>2, <3>1 DEF Local, LocalStack, LocalHooks
    <3>3. phase'[q] = phase[q]
      BY <1>1, <2>2, <3>1 DEF Local, LocalPhase, IInv, Phases
    <3> QED
      BY <3>2, <3>3 DEF HookInv, Behind
  <2> QED
    BY <2>1, <2>2
<1> QED
  BY <1>1, <1>2, <1>3 DEF Next, HookInv

\* A hook that is about to run was registered ahead of the middleware it runs for.
LEMMA HookBehind ==
  ASSUME NEW pos, InOrder(pos), HookInv(pos)
  PROVE  HooksApplyBehindThem
<1> SUFFICES ASSUME NEW r \in Reqs, NEW k \in DOMAIN stack[r], stack[r][k].pc = "beforeInvoke",
                    NEW i \in DOMAIN stack[r][k].q, stack[r][k].q[i][1] = stack[r][k].at[1]
             PROVE  stack[r][k].q[i][2] < stack[r][k].at[2]
  BY DEF HooksApplyBehindThem
<1> DEFINE s == stack[r]
           f == s[k]
           h == f.q[i]
<1>1. s \in Seq(Frame) /\ k \in 1 .. Len(s) /\ Len(s) \in Nat /\ f \in Frame /\ s # <<>>
  BY DEF HookInv, IsolationInv, IInv, Types
<1>2. Behind(pos, r)
  BY DEF HookInv
<1>3. k = Len(s) /\ f = Top(s)
  <2>1. k < Len(s) => f.pc = "calling"
    BY <1>1, <1>2 DEF Behind, Nested
  <2> QED
    BY <1>1, <2>1 DEF Top
<1>4. pos[h] < pos[f.at]
  BY <1>1, <1>2, <1>3 DEF Behind, Front
<1>5. f.at \in Places /\ h \in Places
  BY <1>1 DEF Frame
<1> HIDE DEF f, h
<1>6. /\ f.at[1] \in DOMAIN mds /\ f.at[2] \in Nat /\ f.at[2] <= Len(mds[f.at[1]]) /\ f.at = <<f.at[1], f.at[2]>>
      /\ h[2] \in Nat /\ h[2] <= Len(mds[h[1]]) /\ h = <<h[1], h[2]>>
  BY <1>5, PlaceType
<1>7. pos[f.at] \in Nat /\ pos[h] \in Nat
  BY <1>5 DEF InOrder
<1>8. h[1] = f.at[1]
  BY DEF f, h
<1>9. Len(mds[f.at[1]]) \in Nat
  BY <1>6, ListsAssumption
<1>10. h[2] \in 0 .. Len(mds[f.at[1]]) /\ f.at[2] \in 0 .. Len(mds[f.at[1]])
  BY <1>6, <1>8, <1>9
<1>11. CASE f.at[2] < h[2]
  <2>1. pos[<<f.at[1], f.at[2]>>] < pos[<<f.at[1], h[2]>>]
    BY <1>6, <1>10, <1>11 DEF InOrder
  <2> QED
    BY <1>4, <1>6, <1>7, <1>8, <2>1
<1>12. CASE f.at[2] = h[2]
  BY <1>4, <1>6, <1>7, <1>8, <1>12
<1> QED
  BY <1>6, <1>11, <1>12 DEF f, h

\* A BeforeInvoke hook runs only for the middlewares behind it in its list, as
\* long as every composed list stands at one place, no middleware is an
\* instance shared by requests, and none calls next() twice.
THEOREM HooksRunBehind ==
  ComposedOnce /\ NoInstances /\ MaxNext <= 1 => (Spec => []HooksApplyBehindThem)
<1> SUFFICES ASSUME ComposedOnce, NoInstances, MaxNext <= 1
             PROVE  Spec => []HooksApplyBehindThem
  OBVIOUS
<1>1. PICK pos : InOrder(pos)
  BY DEF ComposedOnce
<1>2. Init => HookInv(pos)
  BY HookInit
<1>3. HookInv(pos) /\ [Next]_vars => HookInv(pos)'
  BY <1>1, HookStep
<1>4. HookInv(pos) => HooksApplyBehindThem
  BY <1>1, HookBehind
<1> QED
  BY <1>2, <1>3, <1>4, PTL DEF Spec

=============================================================================
