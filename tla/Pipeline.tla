------------------------------ MODULE Pipeline ------------------------------
(***************************************************************************)
(* The middleware pipeline of @ipare/core: Startup.invoke, the chain of    *)
(* Middleware.next() calls, the hooks HookMiddleware registers, the nested *)
(* chains of ComposeMiddleware, and the path every error takes.            *)
(*                                                                         *)
(* A request is one asynchronous call of Startup.invoke.  Its pending      *)
(* async functions form a stack of frames; a step of the model is the code *)
(* between two awaits, so the requests in flight interleave at every await.*)
(***************************************************************************)
EXTENDS Naturals, Sequences, FiniteSets

CONSTANTS
  Reqs,       \* the requests; request r owns the context r
  mds,        \* [list name -> sequence of items]: the #mds arrays
  Main,       \* [Reqs -> list name]: the list of the startup that serves r
  ErrorKinds, \* kinds of values user code throws
  MaxNext,    \* bound: calls of next() by one invocation of user code
  MaxErrors,  \* bound: values user code throws while serving one request
  None        \* no error, no context

Kinds == {"plain", "breakthrough", "primitive"}
HookTypes == {"BeforeInvoke", "AfterInvoke", "BeforeNext", "Constructor", "Error"}

(***************************************************************************)
(* Items of a list.  "build" says how createMiddleware obtains the         *)
(* middleware: an "instance" given to add(new Md()) is used as it is by    *)
(* every request, a "class" is constructed through the Constructor hooks,  *)
(* a "builder" is a function given to add() and a "lambda" one that use()  *)
(* or hook() made.  "tail" is the LambdaMiddleware ComposeMiddleware       *)
(* appends to its own list.                                                *)
(***************************************************************************)
Item == [build : {"instance", "class", "builder", "lambda"},
         role  : {"user", "hook", "compose", "tail"},
         arg   : HookTypes \cup DOMAIN mds \cup {"-"}]

Use                   == [build |-> "lambda", role |-> "user",    arg |-> "-"]
Add(build)            == [build |-> build,    role |-> "user",    arg |-> "-"]
Hook(type)            == [build |-> "lambda", role |-> "hook",    arg |-> type]
Compose(build, list)  == [build |-> build,    role |-> "compose", arg |-> list]
CallOuterNext         == [build |-> "lambda", role |-> "tail",    arg |-> "-"]

(***************************************************************************)
(* An instance stands at one place, in the list of a startup; a composed   *)
(* list, and no other, ends with the call of the outer next().             *)
(***************************************************************************)
ASSUME ListsAssumption ==
  /\ Main \in [Reqs -> DOMAIN mds]
  /\ \A l \in DOMAIN mds : mds[l] \in Seq(Item)
  /\ \A l \in DOMAIN mds : \A i \in 1 .. Len(mds[l]) :
       LET it == mds[l][i]
       IN /\ it.role = "hook" <=> it.arg \in HookTypes
          /\ it.role = "compose" <=> it.arg \in DOMAIN mds
          /\ it.role = "compose" => mds[it.arg] # <<>>
          /\ it.role = "tail" => i = Len(mds[l]) /\ \A r \in Reqs : Main[r] # l
          /\ it.build = "instance" => \E r \in Reqs : Main[r] = l

ASSUME BoundsAssumption ==
  /\ ErrorKinds \subseteq Kinds
  /\ MaxNext \in Nat /\ MaxErrors \in Nat

-----------------------------------------------------------------------------
VARIABLES
  phase,      \* [Reqs -> {"idle", "open", "done"}]: the request's life
  stack,      \* [Reqs -> Seq(Frame)]: its pending calls, the running one last
  hooks,      \* MIDDLEWARE_HOOK_BAG of each context: per type, the places of
              \* the HookMiddlewares that ran, in the order in which they did
  errorStack, \* [Reqs -> Seq(Error)]: Context.errorStack
  owner,      \* #ctx of every instance in the startup's list
  raised,     \* history: how many values were thrown while serving a request
  settled     \* history: thrown values that ended elsewhere than in errorStack

vars == <<phase, stack, hooks, errorStack, owner, raised, settled>>

Places == UNION {{<<l, i>> : i \in 0 .. Len(mds[l])} : l \in DOMAIN mds}
Error == [by : Reqs, n : Nat, kind : Kinds, origin : {"code", "errorHook", "catch"}]
PCs == {"body", "beforeNext", "create", "calling", "onNextError", "rejected",
        "compose", "beforeInvoke", "afterInvoke", "onError"}

\* What a catch clause receives is never mistaken for "no error".
ASSUME NoneAssumption == None \notin Error

(***************************************************************************)
(* One invocation of a middleware.  "at" is its place in the lists (index  *)
(* 0 stands for Startup.invoke itself), "ctx" its #ctx field, "home" the   *)
(* depth of the frame that owns the list, "q" the hooks execHooks has not  *)
(* yet called, "calls" how often it called next().                         *)
(***************************************************************************)
Frame == [at : Places, ctx : Reqs, home : Nat, pc : PCs,
          q : Seq(Places), calls : Nat, err : Error \cup {None}]

NewFrame(at, ctx, home, pc, q) ==
  [at |-> at, ctx |-> ctx, home |-> home, pc |-> pc, q |-> q, calls |-> 0, err |-> None]

ItemAt(p) == mds[p[1]][p[2]]
Role(p) == IF p[2] = 0 THEN "startup" ELSE ItemAt(p).role
\* Mutant: createMiddleware keeps what it constructs for the next request.
SharedWhenConstructed(p) == p[2] # 0 /\ ItemAt(p).build \in {"instance", "class"}
Shared(p) == p[2] # 0 /\ ItemAt(p).build = "instance"
Root(p) == p[2] = 1
ListOf(p) == IF p[2] = 0 THEN p[1] ELSE ItemAt(p).arg

Top(s) == s[Len(s)]
Caller(s) == s[Len(s) - 1]
SetTop(s, f) == [s EXCEPT ![Len(s)] = f]
Return(s, f) == [k \in 1 .. Len(s) - 1 |-> IF k = Len(s) - 1 THEN f ELSE s[k]]

Running(r, pc) == stack[r] # <<>> /\ Top(stack[r]).pc = pc
Go(r, f) == stack' = [stack EXCEPT ![r] = SetTop(@, f)]
GoBack(r, f) == stack' = [stack EXCEPT ![r] = Return(@, f)]

-----------------------------------------------------------------------------
(***************************************************************************)
(* The fields of the middleware whose next() a frame runs.  An instance    *)
(* has one #ctx for all requests; the tail of a composed list calls the    *)
(* next() of the ComposeMiddleware that owns the list.                     *)
(***************************************************************************)
Self(f) == [at |-> f.at, home |-> f.home,
            ctx |-> IF Shared(f.at) THEN owner[f.at] ELSE f.ctx]
This(r, f) == IF Role(f.at) = "tail" THEN Self(stack[r][f.home]) ELSE Self(f)

Successor(p) == <<p[1], p[2] + 1>>
HasNext(r, f) == This(r, f).at[2] + 1 <= Len(mds[This(r, f).at[1]])

HooksOf(c, type) == hooks[c][type]
ConstructorHooks(c, p) == IF ItemAt(p).build = "class" THEN HooksOf(c, "Constructor") ELSE <<>>
MayThrowWhenBuilt(p) == ItemAt(p).build \in {"class", "builder"}

NewError(r, n, kind, origin) == [by |-> r, n |-> n, kind |-> kind, origin |-> origin]

(***************************************************************************)
(* The catch clause of next().  An error that passes leaves next() and     *)
(* rejects into the code that called it; another one goes to the Error     *)
(* hooks.  For a primitive the test '"breakthrough" in error' itself       *)
(* throws a TypeError, which replaces it and passes.                       *)
(***************************************************************************)
Rejected(f, e) == [f EXCEPT !.pc = "rejected", !.err = e, !.q = <<>>]
Handling(f, pc, e, c) == [f EXCEPT !.pc = pc, !.err = e, !.q = HooksOf(c, "Error")]

Counted(r, e) == IF e.n > raised[r] THEN e.n ELSE raised[r]
Keep(r, e) == /\ raised' = [raised EXCEPT ![r] = Counted(r, e)]
              /\ UNCHANGED settled
TypeErrorFor(r, e) == NewError(r, Counted(r, e) + 1, "plain", "catch")
Displace(r, e) == /\ raised' = [raised EXCEPT ![r] = Counted(r, e) + 1]
                  /\ settled' = settled \cup {[err |-> e, how |-> "displaced"]}

\* Mutant: next() rethrows what its middleware threw.
FailAndRethrow(r, e) == GoBack(r, Rejected(Caller(stack[r]), e)) /\ Keep(r, e)

\* The invocation on top of the stack, or a hook around it, ends with e.
Fail(r, e) ==
  LET f == Top(stack[r])
      c == Caller(stack[r])
  IN \/ /\ Root(f.at) \/ e.kind = "breakthrough"
        /\ GoBack(r, Rejected(c, e)) /\ Keep(r, e)
     \/ /\ ~Root(f.at) /\ e.kind = "plain"
        /\ Go(r, Handling(f, "onError", e, This(r, c).ctx)) /\ Keep(r, e)
     \/ /\ ~Root(f.at) /\ e.kind = "primitive"
        /\ GoBack(r, Rejected(c, TypeErrorFor(r, e))) /\ Displace(r, e)

\* The next() of the frame on top ends with e before it has a next middleware.
FailNext(r, e) ==
  LET f == Top(stack[r])
  IN \/ /\ e.kind = "breakthrough"
        /\ Go(r, Rejected(f, e)) /\ Keep(r, e)
     \/ /\ e.kind = "plain"
        /\ Go(r, Handling(f, "onNextError", e, This(r, f).ctx)) /\ Keep(r, e)
     \/ /\ e.kind = "primitive"
        /\ Go(r, Rejected(f, TypeErrorFor(r, e))) /\ Displace(r, e)

\* What user code may throw now.
Thrown(r, origin) ==
  IF raised[r] < MaxErrors
  THEN {NewError(r, raised[r] + 1, kind, origin) : kind \in ErrorKinds}
  ELSE {}

-----------------------------------------------------------------------------
(* Startup.invoke and invokeMiddlewares *)

Init ==
  /\ phase = [r \in Reqs |-> "idle"]
  /\ stack = [r \in Reqs |-> <<>>]
  /\ hooks = [r \in Reqs |-> [t \in HookTypes |-> <<>>]]
  /\ errorStack = [r \in Reqs |-> <<>>]
  /\ owner = [p \in {p \in Places : Shared(p)} |-> None]
  /\ raised = [r \in Reqs |-> 0]
  /\ settled = {}

\* A new context; without middlewares the empty response is returned at once.
Begin(r) ==
  /\ phase[r] = "idle"
  /\ \/ /\ mds[Main[r]] = <<>>
        /\ phase' = [phase EXCEPT ![r] = "done"] /\ UNCHANGED stack
     \/ /\ mds[Main[r]] # <<>>
        /\ phase' = [phase EXCEPT ![r] = "open"]
        /\ stack' = [stack EXCEPT ![r] = <<NewFrame(<<Main[r], 0>>, r, 0, "compose", <<>>)>>]
  /\ UNCHANGED <<hooks, errorStack, owner, raised, settled>>

\* invokeMiddlewares: the first middleware is initialised and invoked directly.
InvokeFirst(r) ==
  /\ Running(r, "compose") /\ Top(stack[r]).q = <<>>
  /\ LET f == Top(stack[r])
         p == <<ListOf(f.at), 1>>
     IN /\ stack' = [stack EXCEPT ![r] =
              Append(SetTop(@, [f EXCEPT !.pc = "calling", !.calls = 1]),
                     NewFrame(p, f.ctx, Len(@), "body", <<>>))]
        /\ owner' = IF Shared(p) THEN [owner EXCEPT ![p] = f.ctx] ELSE owner
  /\ UNCHANGED <<phase, hooks, errorStack, raised, settled>>

\* createMiddleware throws in invokeMiddlewares.
FirstFails(r) ==
  /\ Running(r, "compose")
  /\ LET f == Top(stack[r])
     IN /\ MayThrowWhenBuilt(<<ListOf(f.at), 1>>) \/ f.q # <<>>
        /\ \E e \in Thrown(r, "code") : Go(r, Rejected(f, e)) /\ Keep(r, e)
  /\ UNCHANGED <<phase, hooks, errorStack, owner>>

\* The chain returned: Startup.invoke returns ctx.res.
Answer(r) ==
  /\ Running(r, "body") /\ Len(stack[r]) = 1
  /\ phase' = [phase EXCEPT ![r] = "done"]
  /\ stack' = [stack EXCEPT ![r] = <<>>]
  /\ UNCHANGED <<hooks, errorStack, owner, raised, settled>>

\* The chain rejected: catchError, and ctx.res all the same.
CatchAndAnswer(r) ==
  /\ Running(r, "rejected") /\ Len(stack[r]) = 1
  /\ errorStack' = [errorStack EXCEPT ![r] = Append(@, Top(stack[r]).err)]
  /\ phase' = [phase EXCEPT ![r] = "done"]
  /\ stack' = [stack EXCEPT ![r] = <<>>]
  /\ UNCHANGED <<hooks, owner, raised, settled>>

-----------------------------------------------------------------------------
(* The invoke() of a middleware *)

InBody(r, role) == Running(r, "body") /\ Role(Top(stack[r]).at) = role

\* next() begins: the BeforeNext hooks of its context, read at once.
StartNext(r, registered) ==
  Go(r, [Top(stack[r]) EXCEPT !.pc = "beforeNext", !.calls = @ + 1,
                              !.q = registered[This(r, Top(stack[r])).ctx]["BeforeNext"]])

CallNext(r) ==
  /\ \/ InBody(r, "user") /\ Top(stack[r]).calls < MaxNext
     \/ InBody(r, "tail") /\ Top(stack[r]).calls = 0
     \/ InBody(r, "compose") /\ Top(stack[r]).calls = 0   \* enable() said no
  /\ StartNext(r, hooks)
  /\ UNCHANGED <<phase, hooks, errorStack, owner, raised, settled>>

\* Mutant: the hooks are kept with the startup instead of the context.
RegisterForAll(r) ==
  /\ InBody(r, "hook") /\ Top(stack[r]).calls = 0
  /\ LET p == Top(stack[r]).at
     IN hooks' = [c \in Reqs |-> [hooks[c] EXCEPT ![ItemAt(p).arg] = Append(@, p)]]
  /\ StartNext(r, hooks')
  /\ UNCHANGED <<phase, errorStack, owner, raised, settled>>

\* HookMiddleware.invoke: register the hook, then next().
RegisterHook(r) ==
  /\ InBody(r, "hook") /\ Top(stack[r]).calls = 0
  /\ LET p == Top(stack[r]).at
     IN hooks' = [hooks EXCEPT ![This(r, Top(stack[r])).ctx][ItemAt(p).arg] = Append(@, p)]
  /\ StartNext(r, hooks')
  /\ UNCHANGED <<phase, errorStack, owner, raised, settled>>

\* ComposeMiddleware.invoke, enabled: invokeMiddlewares on its own list.
EnterCompose(r) ==
  /\ InBody(r, "compose") /\ Top(stack[r]).calls = 0
  /\ LET f == Top(stack[r])
     IN Go(r, [f EXCEPT !.pc = "compose", !.ctx = Self(f).ctx,
                        !.q = ConstructorHooks(Self(f).ctx, <<ListOf(f.at), 1>>)])
  /\ UNCHANGED <<phase, hooks, errorStack, owner, raised, settled>>

\* invoke() returns: into invokeMiddlewares, or into next() and its AfterInvoke hooks.
ReturnFromInvoke(r) ==
  /\ Running(r, "body") /\ Len(stack[r]) > 1
  /\ LET f == Top(stack[r])
         c == Caller(stack[r])
     IN /\ Role(f.at) = "user" \/ f.calls > 0
        /\ \/ /\ Root(f.at)
              /\ GoBack(r, [c EXCEPT !.pc = "body"])
           \/ /\ ~Root(f.at)
              /\ Go(r, [f EXCEPT !.pc = "afterInvoke", !.q = HooksOf(This(r, c).ctx, "AfterInvoke")])
  /\ UNCHANGED <<phase, hooks, errorStack, owner, raised, settled>>

\* User code throws: a middleware's own, or the enable() of a ComposeMiddleware.
ThrowInInvoke(r) ==
  /\ InBody(r, "user") \/ (InBody(r, "compose") /\ Top(stack[r]).calls = 0)
  /\ \E e \in Thrown(r, "code") : Fail(r, e)
  /\ UNCHANGED <<phase, hooks, errorStack, owner>>

\* next() rejected; the code around the call lets the error pass.
Propagate(r) ==
  /\ Running(r, "rejected") /\ Len(stack[r]) > 1
  /\ Fail(r, Top(stack[r]).err)
  /\ UNCHANGED <<phase, hooks, errorStack, owner>>

\* next() rejected; user code catches the error.
Swallow(r) ==
  /\ Running(r, "rejected") /\ Role(Top(stack[r]).at) = "user"
  /\ LET f == Top(stack[r])
     IN /\ settled' = settled \cup {[err |-> f.err, how |-> "swallowed"]}
        /\ Go(r, [f EXCEPT !.pc = "body", !.err = None])
  /\ UNCHANGED <<phase, hooks, errorStack, owner, raised>>

-----------------------------------------------------------------------------
(* Middleware.next() *)

\* next() is done: control is back in the body of the frame that called it.
Resumed(f) == [f EXCEPT !.pc = "body", !.err = None, !.q = <<>>]

\* The BeforeNext hooks let it pass: return at the end of the list, else create.
AfterBeforeNext(r) ==
  /\ Running(r, "beforeNext") /\ Top(stack[r]).q = <<>>
  /\ LET f == Top(stack[r])
     IN \/ ~HasNext(r, f) /\ Go(r, Resumed(f))
        \/ /\ HasNext(r, f)
           /\ Go(r, [f EXCEPT !.pc = "create",
                 !.q = ConstructorHooks(This(r, f).ctx, Successor(This(r, f).at))])
  /\ UNCHANGED <<phase, hooks, errorStack, owner, raised, settled>>

\* The next middleware is there: init() and its BeforeInvoke hooks.
InitNext(r) ==
  /\ Running(r, "create") /\ Top(stack[r]).q = <<>>
  /\ LET f == Top(stack[r])
         this == This(r, f)
         p == Successor(this.at)
     IN /\ stack' = [stack EXCEPT ![r] =
              Append(SetTop(@, [f EXCEPT !.pc = "calling"]),
                     NewFrame(p, this.ctx, this.home, "beforeInvoke", HooksOf(this.ctx, "BeforeInvoke")))]
        /\ owner' = IF Shared(p) THEN [owner EXCEPT ![p] = this.ctx] ELSE owner
  /\ UNCHANGED <<phase, hooks, errorStack, raised, settled>>

\* A builder or a constructor throws.
CreateFails(r) ==
  /\ Running(r, "create") /\ Top(stack[r]).q = <<>>
  /\ MayThrowWhenBuilt(Successor(This(r, Top(stack[r])).at))
  /\ \E e \in Thrown(r, "code") : FailNext(r, e)
  /\ UNCHANGED <<phase, hooks, errorStack, owner>>

\* The BeforeInvoke hooks let it pass.
InvokeNext(r) ==
  /\ Running(r, "beforeInvoke") /\ Top(stack[r]).q = <<>>
  /\ Go(r, [Top(stack[r]) EXCEPT !.pc = "body"])
  /\ UNCHANGED <<phase, hooks, errorStack, owner, raised, settled>>

\* The AfterInvoke hooks are done: next() returns.
FinishNext(r) ==
  /\ Running(r, "afterInvoke") /\ Top(stack[r]).q = <<>>
  /\ GoBack(r, Resumed(Caller(stack[r])))
  /\ UNCHANGED <<phase, hooks, errorStack, owner, raised, settled>>

\* Mutant: an error that no Error hook handled is dropped.
DropError(r) ==
  /\ Running(r, "onError") \/ Running(r, "onNextError")
  /\ Top(stack[r]).q = <<>>
  /\ IF Top(stack[r]).pc = "onError" THEN GoBack(r, Resumed(Caller(stack[r])))
                                     ELSE Go(r, Resumed(Top(stack[r])))
  /\ UNCHANGED <<phase, hooks, errorStack, owner, raised, settled>>

\* Mutant: catchError runs in next() and again for the middleware that failed.
CatchTwice(r) ==
  /\ Running(r, "onError") \/ Running(r, "onNextError")
  /\ Top(stack[r]).q = <<>>
  /\ LET f == Top(stack[r])
         c == IF f.pc = "onError" THEN Caller(stack[r]) ELSE f
     IN /\ errorStack' = [errorStack EXCEPT ![This(r, c).ctx] = @ \o <<f.err, f.err>>]
        /\ IF f.pc = "onError" THEN GoBack(r, Resumed(c)) ELSE Go(r, Resumed(c))
  /\ UNCHANGED <<phase, hooks, owner, raised, settled>>

\* No Error hook handled the error: catchError on the context of next().
CatchError(r) ==
  /\ Running(r, "onError") \/ Running(r, "onNextError")
  /\ Top(stack[r]).q = <<>>
  /\ LET f == Top(stack[r])
         c == IF f.pc = "onError" THEN Caller(stack[r]) ELSE f
     IN /\ errorStack' = [errorStack EXCEPT ![This(r, c).ctx] = Append(@, f.err)]
        /\ IF f.pc = "onError" THEN GoBack(r, Resumed(c)) ELSE Go(r, Resumed(c))
  /\ UNCHANGED <<phase, hooks, owner, raised, settled>>

-----------------------------------------------------------------------------
(* execHooks: one hook of the queue returns or throws *)

HookPhases == {"beforeNext", "create", "compose", "beforeInvoke", "afterInvoke",
               "onError", "onNextError"}
InHook(r, pcs) == stack[r] # <<>> /\ Top(stack[r]).pc \in pcs /\ Top(stack[r]).q # <<>>

\* No verdict: on to the next hook of that type.
HookPasses(r) ==
  /\ InHook(r, HookPhases)
  /\ Go(r, [Top(stack[r]) EXCEPT !.q = Tail(@)])
  /\ UNCHANGED <<phase, hooks, errorStack, owner, raised, settled>>

\* A verdict that ends the loop: false after an invocation, a built middleware.
HookEndsLoop(r) ==
  /\ InHook(r, {"afterInvoke", "create", "compose"})
  /\ Go(r, [Top(stack[r]) EXCEPT !.q = <<>>])
  /\ UNCHANGED <<phase, hooks, errorStack, owner, raised, settled>>

\* A BeforeNext or BeforeInvoke hook returns false: next() returns.
HookVetoes(r) ==
  /\ \/ /\ InHook(r, {"beforeNext"})
        /\ Go(r, Resumed(Top(stack[r])))
     \/ /\ InHook(r, {"beforeInvoke"})
        /\ GoBack(r, Resumed(Caller(stack[r])))
  /\ UNCHANGED <<phase, hooks, errorStack, owner, raised, settled>>

\* An Error hook returns true: next() returns.
HookHandles(r) ==
  /\ LET f == Top(stack[r])
     IN /\ \/ InHook(r, {"onError"}) /\ GoBack(r, Resumed(Caller(stack[r])))
           \/ InHook(r, {"onNextError"}) /\ Go(r, Resumed(f))
        /\ settled' = settled \cup {[err |-> f.err, how |-> "handled"]}
  /\ UNCHANGED <<phase, hooks, errorStack, owner, raised>>

\* A hook inside the try block throws.
HookThrows(r) ==
  /\ \/ /\ InHook(r, {"beforeNext", "create"})
        /\ \E e \in Thrown(r, "code") : FailNext(r, e)
     \/ /\ InHook(r, {"beforeInvoke", "afterInvoke"})
        /\ \E e \in Thrown(r, "code") : Fail(r, e)
  /\ UNCHANGED <<phase, hooks, errorStack, owner>>

\* An Error hook throws, in the catch block: its error leaves next().
ErrorHookThrows(r) ==
  /\ InHook(r, {"onError", "onNextError"})
  /\ LET f == Top(stack[r])
     IN \E e \in Thrown(r, "errorHook") :
          /\ IF f.pc = "onError" THEN GoBack(r, Rejected(Caller(stack[r]), e))
                                 ELSE Go(r, Rejected(f, e))
          /\ raised' = [raised EXCEPT ![r] = @ + 1]
          /\ settled' = settled \cup {[err |-> f.err, how |-> "displaced"]}
  /\ UNCHANGED <<phase, hooks, errorStack, owner>>

-----------------------------------------------------------------------------
Serve(r) ==
  \/ InvokeFirst(r) \/ FirstFails(r) \/ Answer(r) \/ CatchAndAnswer(r)
  \/ CallNext(r) \/ RegisterHook(r) \/ EnterCompose(r) \/ ReturnFromInvoke(r)
  \/ ThrowInInvoke(r) \/ Propagate(r) \/ Swallow(r)
  \/ AfterBeforeNext(r) \/ InitNext(r) \/ CreateFails(r) \/ InvokeNext(r)
  \/ FinishNext(r) \/ CatchError(r)
  \/ HookPasses(r) \/ HookEndsLoop(r) \/ HookVetoes(r) \/ HookHandles(r)
  \/ HookThrows(r) \/ ErrorHookThrows(r)

Next == \E r \in Reqs : Begin(r) \/ Serve(r)

\* Every await settles: a middleware or a hook that was called returns or throws.
Spec == Init /\ [][Next]_vars /\ \A r \in Reqs : WF_vars(Serve(r))

-----------------------------------------------------------------------------
(* Properties *)

\* The shape of the state: every frame, hook and error is one of its kind, and
\* a request has pending calls exactly while it is open.
TypeOK ==
  /\ phase \in [Reqs -> {"idle", "open", "done"}]
  /\ stack \in [Reqs -> Seq(Frame)]
  /\ hooks \in [Reqs -> [HookTypes -> Seq(Places)]]
  /\ errorStack \in [Reqs -> Seq(Error)]
  /\ owner \in [{p \in Places : Shared(p)} -> Reqs \cup {None}]
  /\ raised \in [Reqs -> Nat]
  /\ settled \subseteq [err : Error, how : {"handled", "swallowed", "displaced"}]
  /\ \A r \in Reqs : phase[r] = "open" <=> stack[r] # <<>>

\* e is the n-th value thrown while serving r: where it is.
IsRaised(e, r, n) == e # None /\ e.by = r /\ e.n = n
Pending(r, n) ==
  UNION {{<<"pending", q, k>> : k \in {k \in DOMAIN stack[q] : IsRaised(stack[q][k].err, r, n)}} : q \in Reqs}
Recorded(r, n) ==
  UNION {{<<"recorded", c, i>> : i \in {i \in DOMAIN errorStack[c] : IsRaised(errorStack[c][i], r, n)}} : c \in Reqs}
Settled(r, n) == {<<"settled", x.how, 0>> : x \in {x \in settled : IsRaised(x.err, r, n)}}
Whereabouts(r, n) == Pending(r, n) \cup Recorded(r, n) \cup Settled(r, n)

\* No thrown value is lost or reported twice by next() and Startup.invoke: it
\* is being carried by one pending call, or it stands once in one errorStack,
\* or one Error hook handled it, or user code or a later throw took its place.
ErrorAccounting ==
  \A r \in Reqs : \A n \in 1 .. raised[r] : Cardinality(Whereabouts(r, n)) = 1

\* An error is recorded in the context of the request whose code threw it,
\* however the requests interleave.
ErrorsReportedToOwner ==
  \A c \in Reqs : \A i \in DOMAIN errorStack[c] : errorStack[c][i].by = c

\* next() rejects into the middleware that called it only with a breakthrough
\* error, with what an Error hook threw, or with the catch clause's own error.
NextSparesItsCaller ==
  \A r \in Reqs : \A k \in DOMAIN stack[r] :
    LET f == stack[r][k]
    IN f.pc = "rejected" /\ Role(f.at) \notin {"startup", "compose"}
         => f.err.kind = "breakthrough" \/ f.err.origin # "code"

\* A BeforeInvoke hook runs only for the middlewares behind it in its list (as
\* long as no middleware calls next() twice).
HooksApplyBehindThem ==
  \A r \in Reqs : \A k \in DOMAIN stack[r] :
    LET f == stack[r][k]
    IN f.pc = "beforeInvoke" =>
         \A i \in DOMAIN f.q : f.q[i][1] = f.at[1] => f.q[i][2] < f.at[2]

\* Once Startup.invoke has returned, no step of any request touches the
\* request's error stack or its hooks again.
AnswerIsFinal ==
  [][\A r \in Reqs : phase[r] = "done" =>
       errorStack'[r] = errorStack[r] /\ hooks'[r] = hooks[r] /\ phase'[r] = "done"]_vars

\* What a caller of the startup sees of the requests.
Outside == INSTANCE Requests WITH life <- phase, reported <- errorStack
ServesRequests == Outside!Spec

=============================================================================
