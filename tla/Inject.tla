------------------------------- MODULE Inject -------------------------------
(***************************************************************************)
(* Dependency injection of @ipare/inject: parseInject resolves a key to an *)
(* object through the records of the singleton, scoped and transient bags, *)
(* injects the object's constructor arguments and properties, and runs its *)
(* initializing() and initialized(); the middleware of inject() disposes   *)
(* what the request created.                                               *)
(*                                                                         *)
(* The parsers of a request form a stack of frames; a step is the code     *)
(* between two awaits.  All inject() calls precede the middlewares that    *)
(* use them, and a middleware awaits each parseInject before the next.     *)
(***************************************************************************)
EXTENDS Naturals, Sequences, FiniteSets

CONSTANTS
  Reqs,      \* the requests
  Keys,      \* what can be injected: classes, strings, handlers of @Inject(handler)
  Classes,   \* the keys that are classes
  Args,      \* [Classes -> Seq(Keys)]: the constructor arguments
  Props,     \* [Classes -> Seq(Keys)]: the injected properties
  Binds,     \* the inject() calls of the startup, in order
  Default,   \* [Keys -> Binding]: what a key means without an inject() call
  Given,     \* the classes of the objects that exist before the first request
  Instances, \* those of them that are middlewares of the startup
  Wanted,    \* bound: the keys user code asks for
  MaxParses, \* bound: parseInject calls of one request's user code
  MaxErrors  \* bound: values user code throws while serving one request

Types == {"Singleton", "Scoped", "Transient"}

\* A class is constructed, a builder is called, an object is used as it is.
Target == [kind : {"class", "builder"}, of : Classes] \cup [kind : {"object"}, of : DOMAIN Given]
Binding == [anestor : Keys, target : Target, type : Types]

\* The anestor of a binding is its key; getExistMap takes the first one.
BindingOf(key) ==
  LET mine == {i \in DOMAIN Binds : Binds[i].anestor = key}
  IN IF mine = {} THEN Default[key] ELSE Binds[CHOOSE i \in mine : \A j \in mine : i <= j]

ASSUME InjectAssumption ==
  /\ Classes \subseteq Keys /\ "none" \notin Classes /\ Wanted \subseteq Keys
  /\ Args \in [Classes -> Seq(Keys)] /\ Props \in [Classes -> Seq(Keys)]
  /\ Given \in Seq(Classes) /\ Instances \subseteq DOMAIN Given
  /\ Binds \in Seq(Binding) /\ Default \in [Keys -> Binding]
  /\ MaxParses \in Nat /\ MaxErrors \in Nat

-----------------------------------------------------------------------------
VARIABLES
  objs,        \* every object, in the order of creation
  singletons,  \* SINGLETON_BAG, one array for all requests
  scoped,      \* [Reqs -> records]: SCOPED_BAG
  transients,  \* [Reqs -> records]: TRANSIENT_BAG
  phase,       \* [Reqs -> {"idle", "using", "disposing", "done"}]
  parsers,     \* [Reqs -> Seq(Parser)]: the pending parseInject calls, innermost last
  disposal,    \* [Reqs -> [at, queue]]: inject() calls to unwind, objects to dispose
  held,        \* [Reqs -> objects parseInject handed to user code]
  parses,      \* [Reqs -> Nat]: parseInject calls of user code
  thrown       \* [Reqs -> Nat]: values thrown by user code

vars == <<objs, singletons, scoped, transients, phase, parsers, disposal, held, parses, thrown>>

Ids == DOMAIN objs
Record == [key : Keys, value : Nat]
PCs == {"creating", "created", "found", "initializing", "props", "initialized"}

\* INITIALIZING_EXECUTED and INITIALIZED_EXECUTED are the two flags of an object;
\* "ready" says that initialized() returned, "starts" and "disposals" count calls.
NewObject(class, uses) ==
  [class |-> class, uses |-> uses, initializing |-> FALSE, initialized |-> FALSE,
   set |-> {}, ready |-> FALSE, starts |-> 0, disposals |-> 0]

\* One parseInject: "obj" is 0 until there is one, "i" counts arguments and properties.
Parser == [key : Keys, class : Classes \cup {"none"}, obj : Nat, pc : PCs, i : Nat \ {0}, args : SUBSET Nat]

TargetOf(p) == BindingOf(p.key).target

Top(s) == s[Len(s)]
Pop(s) == SubSeq(s, 1, Len(s) - 1)
SetTop(s, p) == [s EXCEPT ![Len(s)] = p]

At(r, pc) == parsers[r] # <<>> /\ Top(parsers[r]).pc = pc
Go(r, p) == parsers' = [parsers EXCEPT ![r] = SetTop(@, p)]

\* Mutants: a new array that is not stored in the bag; one bag for all requests.
RecordsForgotten(r, type) == IF type = "Singleton" THEN singletons ELSE <<>>
RecordsOfStartup(r, type) ==
  CASE type = "Singleton" -> singletons [] type = "Scoped" -> scoped[CHOOSE q \in Reqs : TRUE] [] OTHER -> <<>>

\* getExistInjectRecord: no record of a transient is ever found again.
Records(r, type) ==
  CASE type = "Singleton" -> singletons [] type = "Scoped" -> scoped[r] [] OTHER -> <<>>
Exists(r, key) == \E i \in DOMAIN Records(r, BindingOf(key).type) :
                    Records(r, BindingOf(key).type)[i].key = key
Existing(r, key) ==
  LET records == Records(r, BindingOf(key).type)
  IN records[CHOOSE i \in DOMAIN records :
               records[i].key = key /\ \A j \in 1 .. i - 1 : records[j].key # key].value

\* The synchronous beginning of parseTarget and parseKey.  A class injects the
\* properties of the class asked for, another key those of the object's class.
Parse(r, key) ==
  LET p == [key |-> key, class |-> IF key \in Classes THEN key ELSE "none",
            obj |-> 0, pc |-> "creating", i |-> 1, args |-> {}]
  IN IF Exists(r, key) THEN [p EXCEPT !.obj = Existing(r, key), !.pc = "found"] ELSE p

PropsOf(p) == Props[IF p.class = "none" THEN objs[p.obj].class ELSE p.class]

\* parseInject returns: to the parser that asked, or to user code.
ReturnFrom(r, p) ==
  LET rest == Pop(parsers[r])
      asker == Top(rest)
  IN IF rest = <<>>
     THEN /\ parsers' = [parsers EXCEPT ![r] = <<>>]
          /\ held' = [held EXCEPT ![r] = @ \cup {p.obj}]
     ELSE /\ parsers' = [parsers EXCEPT ![r] = SetTop(rest,
               IF asker.pc = "creating"
               THEN [asker EXCEPT !.i = @ + 1, !.args = @ \cup {p.obj}]
               ELSE [asker EXCEPT !.i = @ + 1])]
          /\ UNCHANGED held

\* The property a returning parser assigns in the object of its asker.
Assigned(r, p, heap) ==
  LET rest == Pop(parsers[r])
  IN IF rest # <<>> /\ Top(rest).pc = "props"
     THEN [heap EXCEPT ![Top(rest).obj].set = @ \cup {Top(rest).i},
                       ![Top(rest).obj].uses = @ \cup {p.obj}]
     ELSE heap

-----------------------------------------------------------------------------
Init ==
  /\ objs = [i \in DOMAIN Given |-> NewObject(Given[i], {})]
  /\ singletons = <<>>
  /\ scoped = [r \in Reqs |-> <<>>]
  /\ transients = [r \in Reqs |-> <<>>]
  /\ phase = [r \in Reqs |-> "idle"]
  /\ parsers = [r \in Reqs |-> <<>>]
  /\ disposal = [r \in Reqs |-> [at |-> 0, queue |-> <<>>]]
  /\ held = [r \in Reqs |-> {}]
  /\ parses = [r \in Reqs |-> 0]
  /\ thrown = [r \in Reqs |-> 0]

\* useInject and inject(): the bags and the map are there.
Begin(r) ==
  /\ phase[r] = "idle"
  /\ phase' = [phase EXCEPT ![r] = "using"]
  /\ UNCHANGED <<objs, singletons, scoped, transients, parsers, disposal, held, parses, thrown>>

AtRest(r) == phase[r] = "using" /\ parsers[r] = <<>>

\* User code, or the Constructor hook of useInject, asks for a key.
ParseKey(r) ==
  /\ AtRest(r) /\ parses[r] < MaxParses
  /\ \E key \in Wanted : parsers' = [parsers EXCEPT ![r] = <<Parse(r, key)>>]
  /\ parses' = [parses EXCEPT ![r] = @ + 1]
  /\ UNCHANGED <<objs, singletons, scoped, transients, phase, disposal, held, thrown>>

\* The BeforeInvoke hook of useInject injects a middleware that already exists.
ParseInstance(r) ==
  /\ AtRest(r) /\ parses[r] < MaxParses
  /\ \E o \in Instances :
       parsers' = [parsers EXCEPT ![r] =
         <<[key |-> objs[o].class, class |-> objs[o].class, obj |-> o, pc |-> "found", i |-> 1, args |-> {}]>>]
  /\ parses' = [parses EXCEPT ![r] = @ + 1]
  /\ UNCHANGED <<objs, singletons, scoped, transients, phase, disposal, held, thrown>>

\* createConstructorArg: the next argument of a class.
ParseArg(r) ==
  /\ At(r, "creating")
  /\ LET p == Top(parsers[r])
     IN /\ TargetOf(p).kind = "class" /\ p.i <= Len(Args[TargetOf(p).of])
        /\ parsers' = [parsers EXCEPT ![r] = Append(@, Parse(r, Args[TargetOf(p).of][p.i]))]
  /\ UNCHANGED <<objs, singletons, scoped, transients, phase, disposal, held, parses, thrown>>

\* The arguments are there, or there are none.
Creatable(p) == TargetOf(p).kind = "class" => p.i > Len(Args[TargetOf(p).of])

\* createObject: the object is constructed, built or given.
Create(r) ==
  /\ At(r, "creating")
  /\ LET p == Top(parsers[r])
         t == TargetOf(p)
     IN \/ /\ t.kind = "object"
           /\ Go(r, [p EXCEPT !.pc = "created", !.obj = t.of]) /\ UNCHANGED objs
        \/ /\ t.kind # "object" /\ Creatable(p)
           /\ objs' = Append(objs, NewObject(t.of, p.args))
           /\ Go(r, [p EXCEPT !.pc = "created", !.obj = Len(objs) + 1])
  /\ UNCHANGED <<singletons, scoped, transients, phase, disposal, held, parses, thrown>>

\* After the await of createObject: the record is pushed, whatever is there now.
PushRecord(r) ==
  /\ At(r, "created")
  /\ LET p == Top(parsers[r])
         rec == [key |-> p.key, value |-> p.obj]
         type == BindingOf(p.key).type
     IN /\ Go(r, [p EXCEPT !.pc = "found"])
        /\ singletons' = IF type = "Singleton" THEN Append(singletons, rec) ELSE singletons
        /\ scoped' = IF type = "Scoped" THEN [scoped EXCEPT ![r] = Append(@, rec)] ELSE scoped
        /\ transients' = IF type = "Transient" THEN [transients EXCEPT ![r] = Append(@, rec)] ELSE transients
  /\ UNCHANGED <<objs, phase, disposal, held, parses, thrown>>

\* injectObj on an object whose initialization has begun returns at once.
SkipInjection(r) ==
  /\ At(r, "found")
  /\ LET p == Top(parsers[r])
     IN objs[p.obj].initializing /\ ReturnFrom(r, p) /\ objs' = Assigned(r, p, objs)
  /\ UNCHANGED <<singletons, scoped, transients, phase, disposal, parses, thrown>>

\* injectObj: the flag is set and initializing() called before the first await.
StartInjection(r) ==
  /\ At(r, "found")
  /\ LET p == Top(parsers[r])
     IN /\ ~objs[p.obj].initializing
        /\ objs' = [objs EXCEPT ![p.obj].initializing = TRUE, ![p.obj].starts = @ + 1]
        /\ Go(r, [p EXCEPT !.pc = "initializing"])
  /\ UNCHANGED <<singletons, scoped, transients, phase, disposal, held, parses, thrown>>

\* initializing() returned: on to the properties.
InjectProps(r) ==
  /\ At(r, "initializing")
  /\ Go(r, [Top(parsers[r]) EXCEPT !.pc = "props", !.i = 1])
  /\ UNCHANGED <<objs, singletons, scoped, transients, phase, disposal, held, parses, thrown>>

\* The next property.  It is undefined: an object is injected once.
ParseProp(r) ==
  /\ At(r, "props")
  /\ LET p == Top(parsers[r])
     IN /\ p.i <= Len(PropsOf(p))
        /\ parsers' = [parsers EXCEPT ![r] = Append(@, Parse(r, PropsOf(p)[p.i]))]
  /\ UNCHANGED <<objs, singletons, scoped, transients, phase, disposal, held, parses, thrown>>

\* Mutant: initialized() is not awaited.
InitializeUnawaited(r) ==
  /\ At(r, "props")
  /\ LET p == Top(parsers[r])
     IN /\ p.i > Len(PropsOf(p))
        /\ objs' = Assigned(r, p, [objs EXCEPT ![p.obj].initialized = TRUE])
        /\ ReturnFrom(r, p)
  /\ UNCHANGED <<singletons, scoped, transients, phase, disposal, parses, thrown>>

\* All properties are there: initialized() is called.
Initialize(r) ==
  /\ At(r, "props")
  /\ LET p == Top(parsers[r])
     IN /\ p.i > Len(PropsOf(p))
        /\ objs' = [objs EXCEPT ![p.obj].initialized = TRUE]
        /\ Go(r, [p EXCEPT !.pc = "initialized"])
  /\ UNCHANGED <<singletons, scoped, transients, phase, disposal, held, parses, thrown>>

\* initialized() returned: so does parseInject.
FinishInjection(r) ==
  /\ At(r, "initialized")
  /\ LET p == Top(parsers[r])
     IN ReturnFrom(r, p) /\ objs' = Assigned(r, p, [objs EXCEPT ![p.obj].ready = TRUE])
  /\ UNCHANGED <<singletons, scoped, transients, phase, disposal, parses, thrown>>

\* A constructor, a builder, initializing() or initialized() throws: every
\* pending parseInject of the request rejects, into user code.
ParseFails(r) ==
  /\ thrown[r] < MaxErrors
  /\ \/ At(r, "creating") /\ Creatable(Top(parsers[r])) /\ TargetOf(Top(parsers[r])).kind # "object"
     \/ At(r, "initializing") \/ At(r, "initialized")
  /\ parsers' = [parsers EXCEPT ![r] = <<>>]
  /\ thrown' = [thrown EXCEPT ![r] = @ + 1]
  /\ UNCHANGED <<objs, singletons, scoped, transients, phase, disposal, held, parses>>

-----------------------------------------------------------------------------
(* dispose: the finally blocks of the inject() middlewares, innermost first *)

\* Mutant: the type of the inject() call is not looked at.
DisposeAnyType(r, bind) == IF Exists(r, bind.anestor) THEN <<Existing(r, bind.anestor)>> ELSE <<>>

\* The values of the records of a key, in their order.
ValuesOf(records, key) ==
  LET f[i \in 0 .. Len(records)] ==
        IF i = 0 THEN <<>>
        ELSE IF records[i].key = key THEN Append(f[i - 1], records[i].value) ELSE f[i - 1]
  IN f[Len(records)]

\* tryParseInject looks in the bag of the first binding of the key.
ToDispose(r, bind) ==
  CASE bind.type = "Scoped" ->
         IF Exists(r, bind.anestor) THEN <<Existing(r, bind.anestor)>> ELSE <<>>
    [] bind.type = "Transient" -> ValuesOf(transients[r], bind.anestor)
    [] OTHER -> <<>>

\* The dispose() of the first object of the queue is called.
CallDispose(r, at, queue) ==
  /\ disposal' = [disposal EXCEPT ![r] = [at |-> at, queue |-> queue]]
  /\ objs' = IF queue = <<>> THEN objs ELSE [objs EXCEPT ![Head(queue)].disposals = @ + 1]

\* Mutant: the innermost inject() has no finally block.
LeaveLast(r) ==
  /\ AtRest(r)
  /\ phase' = [phase EXCEPT ![r] = "disposing"]
  /\ disposal' = [disposal EXCEPT ![r].at = IF Binds = <<>> THEN 0 ELSE Len(Binds) - 1]
  /\ UNCHANGED <<objs, singletons, scoped, transients, parsers, held, parses, thrown>>

\* The chain behind the inject() middlewares returned or rejected.
Leave(r) ==
  /\ AtRest(r)
  /\ phase' = [phase EXCEPT ![r] = "disposing"]
  /\ disposal' = [disposal EXCEPT ![r].at = Len(Binds)]
  /\ UNCHANGED <<objs, singletons, scoped, transients, parsers, held, parses, thrown>>

\* Mutant: the outermost inject() is never left.
UnwindToFirst(r) ==
  /\ phase[r] = "disposing" /\ disposal[r].queue = <<>> /\ disposal[r].at > 1
  /\ CallDispose(r, disposal[r].at - 1, ToDispose(r, Binds[disposal[r].at]))
  /\ UNCHANGED <<singletons, scoped, transients, phase, parsers, held, parses, thrown>>

\* The finally block of the innermost inject() that has not run.
Unwind(r) ==
  /\ phase[r] = "disposing" /\ disposal[r].queue = <<>> /\ disposal[r].at > 0
  /\ CallDispose(r, disposal[r].at - 1, ToDispose(r, Binds[disposal[r].at]))
  /\ UNCHANGED <<singletons, scoped, transients, phase, parsers, held, parses, thrown>>

\* One dispose() returned: the next one.
DisposeNext(r) ==
  /\ disposal[r].queue # <<>>
  /\ CallDispose(r, disposal[r].at, Tail(disposal[r].queue))
  /\ UNCHANGED <<singletons, scoped, transients, phase, parsers, held, parses, thrown>>

\* A dispose() throws: the rest of its inject() call is skipped.
DisposeFails(r) ==
  /\ disposal[r].queue # <<>> /\ thrown[r] < MaxErrors
  /\ disposal' = [disposal EXCEPT ![r].queue = <<>>]
  /\ thrown' = [thrown EXCEPT ![r] = @ + 1]
  /\ UNCHANGED <<objs, singletons, scoped, transients, phase, parsers, held, parses>>

\* Every inject() middleware returned.
Finish(r) ==
  /\ phase[r] = "disposing" /\ disposal[r] = [at |-> 0, queue |-> <<>>]
  /\ phase' = [phase EXCEPT ![r] = "done"]
  /\ UNCHANGED <<objs, singletons, scoped, transients, parsers, disposal, held, parses, thrown>>

-----------------------------------------------------------------------------
Advance(r) ==
  \/ ParseArg(r) \/ Create(r) \/ PushRecord(r) \/ SkipInjection(r) \/ StartInjection(r)
  \/ InjectProps(r) \/ ParseProp(r) \/ Initialize(r) \/ FinishInjection(r) \/ ParseFails(r)
  \/ Leave(r) \/ Unwind(r) \/ DisposeNext(r) \/ DisposeFails(r) \/ Finish(r)

Next == \E r \in Reqs : Begin(r) \/ ParseKey(r) \/ ParseInstance(r) \/ Advance(r)

\* Every await settles, and user code ends.
Spec == Init /\ [][Next]_vars /\ \A r \in Reqs : WF_vars(Advance(r))

-----------------------------------------------------------------------------
(* Properties *)

\* The shape of the state; every record and every parser refers to an object
\* that exists.
TypeOK ==
  /\ objs \in Seq([class : Classes, uses : SUBSET Ids, initializing : BOOLEAN, initialized : BOOLEAN,
                    set : SUBSET Nat, ready : BOOLEAN, starts : Nat, disposals : Nat])
  /\ singletons \in Seq([key : Keys, value : Ids])
  /\ scoped \in [Reqs -> Seq([key : Keys, value : Ids])]
  /\ transients \in [Reqs -> Seq([key : Keys, value : Ids])]
  /\ phase \in [Reqs -> {"idle", "using", "disposing", "done"}]
  /\ parsers \in [Reqs -> Seq(Parser)]
  /\ \A r \in Reqs : \A k \in DOMAIN parsers[r] :
       parsers[r][k].pc # "creating" => parsers[r][k].obj \in Ids
  /\ disposal \in [Reqs -> [at : 0 .. Len(Binds), queue : Seq(Ids)]]
  /\ held \in [Reqs -> SUBSET Ids]

\* One object per key and request: what a request asks for twice, directly or
\* as an argument or property of something else, is the same scoped object.
OneScopedEach ==
  \A r \in Reqs : \A i, j \in DOMAIN scoped[r] : scoped[r][i].key = scoped[r][j].key => i = j

\* One object per key and startup.
OneSingletonEach ==
  \A i, j \in DOMAIN singletons : singletons[i].key = singletons[j].key => i = j

\* The scoped objects parseInject handed to user code have been initialized,
\* as long as nothing threw.
ScopedIsReady ==
  \A r \in Reqs : thrown[r] = 0 =>
    \A i \in DOMAIN scoped[r] : scoped[r][i].value \in held[r] => objs[scoped[r][i].value].ready

\* While a request's middlewares run, nothing they hold or reach is disposed.
NothingDisposedInUse ==
  \A r \in Reqs : phase[r] = "using" =>
    \A o \in held[r] \cup UNION {objs[h].uses : h \in held[r]} : objs[o].disposals = 0

\* A request's scoped and transient objects use its own objects and
\* singletons only, and no other request holds them.
ScopesAreApart ==
  LET Own(r) == {scoped[r][i].value : i \in DOMAIN scoped[r]}
                \cup {transients[r][i].value : i \in DOMAIN transients[r]}
  IN \A r, q \in Reqs : r # q =>
       /\ Own(r) \cap (Own(q) \cup held[q]) = {}
       /\ \A o \in Own(r) : objs[o].uses \cap Own(q) = {}

\* Every scoped and transient object an inject() call names is disposed once
\* by the end of its request, and no singleton ever is.
DisposedAtTheEnd ==
  LET Bound == {Binds[i].anestor : i \in DOMAIN Binds}
      Gone(recs) == \A i \in DOMAIN recs : recs[i].key \in Bound => objs[recs[i].value].disposals = 1
  IN /\ \A r \in Reqs : phase[r] = "done" /\ thrown[r] = 0 => Gone(scoped[r]) /\ Gone(transients[r])
     /\ \A i \in DOMAIN singletons : objs[singletons[i].value].disposals = 0

\* Every request that begins ends, with its inject() calls unwound.
EveryRequestEnds == \A r \in Reqs : phase[r] = "using" ~> phase[r] = "done"

=============================================================================
