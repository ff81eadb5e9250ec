----------------------------- MODULE HttpServer -----------------------------
(***************************************************************************)
(* One request through the middlewares of an http startup: the packages    *)
(* cors, body, jwt, static, filter, pipe, validator and router on the      *)
(* pipeline of @ipare/core, from HttpStartup.invoke to its response.       *)
(*                                                                         *)
(* The lists, hooks and errors of the pipeline itself are the subject of   *)
(* module Pipeline; here a chain is a sequence of items that know what     *)
(* they do, and the call stack is the number of the item that runs: item i *)
(* calls next(), which runs item i + 1 to its end.                         *)
(***************************************************************************)
EXTENDS HttpResponse, Routing, Filters, Pipes

CONSTANTS
  Cases,    \* the [chain, req] to serve: the items of a startup, a request
  Actions,  \* [class -> [used, inputs, built, does]]: the filters of
            \* UseFilters, the inputs to inject, whether as arguments of an
            \* injected "constructor" or, where there is none, each by
            \* "property", and what invoke() may do
  Has,      \* [filter -> the functions its class defines]
  Behaves,  \* [filter -> SUBSET {"pass", "refuse", "throw"}]
  Throws    \* the values filters and middlewares throw

VARIABLES
  chain, req, \* the case at hand
  mode,       \* what happens next, see Modes
  at,         \* the item whose code runs, 0 for Startup.invoke
  res,        \* ctx.res
  ctx,        \* what the middlewares left in the context, see NewContext
  again,      \* the CorsMiddlewares that will call next() once more
  todo,       \* [fn, queue, ran, left]: execFilters at work, and how many of
              \* the hooks of its kind are still to come
  err,        \* the value in flight
  errors,     \* ctx.errorStack
  trail       \* history: what the action, the filters and others did

vars == <<chain, req, mode, at, res, ctx, again, todo, err, errors, trail>>

(***************************************************************************)
(* "enter": next() of item at is called.  "invoke": item at begins.        *)
(* "leave": the next() of item at has returned.  "filters": the functions  *)
(* of one kind run.  "act": the body of the action.  "caught": the catch   *)
(* clause of next() of item at has err, thrown by item at + 1.             *)
(***************************************************************************)
Modes == {"enter", "invoke", "leave", "filters", "act", "caught", "done"}
Before3 == <<"onAuthorization", "onResourceExecuting", "onActionExecuting">>
After2 == <<"onActionExecuted", "onResourceExecuted">>

NoRoute == [found |-> "none"]
\* "hooks" counts how often useFilter's hooks were registered, "read" tells
\* that the source stream has been read, "args" are the values injected so far.
NewContext ==
  [jwt |-> << >>, route |-> NoRoute, params |-> << >>, body |-> Nothing, read |-> FALSE,
   args |-> << >>, inject |-> FALSE, hooks |-> 0, made |-> FALSE,
   globals |-> << >>, orders |-> << >>, pipes |-> << >>]
Idle == [fn |-> "-", queue |-> << >>, ran |-> 0, left |-> 0]

\* Items and actions name filters and actions that exist, and write what the
\* types of the packages let them.
Effects == {"none", "length", "blank", "drop", "ok"}
MapItems == [url : Seq(Seq(Strings)), methods : SUBSET Strings, action : DOMAIN Actions]
ItemAssumption(item) ==
  /\ item.kind = "cors" => item.origin \in Strings /\ item.expose \in Seq(Strings)
  /\ item.kind = "global" => item.filter \in DOMAIN Has
  /\ item.kind = "order" => item.order \in Int
  /\ item.kind = "match" => item.map \in Seq(MapItems)
  /\ item.kind = "use" => /\ item.before \subseteq Effects \cup {"throw", "stop"}
                          /\ item.after \subseteq Effects \cup {"throw"}
ClassAssumption(class) ==
  /\ class.used \in Seq(DOMAIN Has) /\ class.inputs \in Seq(ToSet(class.inputs))
  /\ \A input \in ToSet(class.inputs) : input.pipes \in Seq(ToSet(input.pipes))
  /\ class.does \subseteq [call : {"throw"} \cup DOMAIN SuccessStatus \cup DOMAIN ErrorStatus,
                           body : Bodies]
\* A startup calls useJwt and useRouter once.
CaseAssumption(items, request) ==
  /\ items \in Seq(ToSet(items))
  /\ \A k \in DOMAIN items : ItemAssumption(items[k])
  /\ \A k, l \in DOMAIN items :
       items[k].kind = items[l].kind /\ items[k].kind \in {"jwt", "match", "action"} => k = l
  /\ request.origin \in Seq(Strings) /\ request.path \in Seq(Seq(Strings))
ASSUME HttpAssumption ==
  /\ \A c \in Cases : CaseAssumption(c.chain, c.req)
  /\ DOMAIN Has \subseteq Strings /\ DOMAIN Actions \subseteq Strings
  /\ \A a \in DOMAIN Actions : ClassAssumption(Actions[a])
  /\ Throws \subseteq Thrown

(***************************************************************************)
(* What a property needs of a startup besides, where it is not true of     *)
(* each: no exception is made with a header of the response's own, a       *)
(* header without text comes of the middlewares of the application only,   *)
(* useCors is used once, and nothing follows useRouter.                    *)
(***************************************************************************)
NoThrownLength == \A x \in Throws : \A e \in ToSet(x.headers) : e.key[1] # "content-length"
NoThrownOrigin ==
  \A x \in Throws : \A e \in ToSet(x.headers) : e.key[1] \notin {"vary", "access-control-allow-origin"}
NoBlankHeader ==
  /\ \A x \in Throws : \A e \in ToSet(x.headers) : e.value # <<"">>
  /\ \A c \in Cases : \A k \in DOMAIN c.chain : c.chain[k].kind = "cors" =>
       /\ c.chain[k].origin # "" /\ c.chain[k].expose # <<"">>
       /\ c.chain[k].origin = "reflect" => c.req.origin # <<"">>
OneCors == \A c \in Cases : \A k, l \in DOMAIN c.chain :
  c.chain[k].kind = "cors" /\ c.chain[l].kind = "cors" => k = l
ActionLast == \A c \in Cases : \A k \in DOMAIN c.chain :
  c.chain[k].kind = "action" => k = Len(c.chain)

Init ==
  /\ \E c \in Cases : chain = c.chain /\ req = c.req
  /\ mode = "enter" /\ at = 0
  /\ res = NewResponse /\ ctx = NewContext
  /\ again = {} /\ todo = Idle
  /\ err = InternalServerError /\ errors = << >> /\ trail = << >>

Item == chain[at]
Event(e, fn, by) == [e |-> e, fn |-> fn, by |-> by]
Note(e, fn, by) == trail' = Append(trail, Event(e, fn, by))

\* The three ways on: call next(), return without it, throw.
CallNext == mode' = "enter" /\ UNCHANGED <<at, err>>
Return == mode' = "leave" /\ at' = at - 1 /\ UNCHANGED err
Throw(e) == mode' = "caught" /\ at' = at - 1 /\ err' = e

Running(kind) == mode = "invoke" /\ Item.kind = kind
Same == UNCHANGED <<chain, req>>
Quiet == Same /\ UNCHANGED <<again, todo, errors, trail>>

\* The method of a request, X-HTTP-Method-Override first.
Method == IF req.override # "-" THEN req.override ELSE req.method
\* The router sees that method.
Asked == [path |-> req.path, method |-> Method]

-----------------------------------------------------------------------------
(* Items that prepare the context and go on. *)

Inject == /\ Running("inject") /\ ctx' = [ctx EXCEPT !.inject = TRUE]
          /\ CallNext /\ Quiet /\ UNCHANGED res

\* useFilter: those of useInject and its own hooks.  HookMiddleware registers
\* them again when it runs again; those of useInject do nothing the second time.
UseFilter == /\ Running("filters") /\ ctx' = [ctx EXCEPT !.inject = TRUE, !.hooks = @ + 1]
             /\ CallNext /\ Quiet /\ UNCHANGED res

UseGlobalFilter ==
  /\ Running("global") /\ ctx' = [ctx EXCEPT !.globals = Append(@, Item.filter)]
  /\ CallNext /\ Quiet /\ UNCHANGED res

UseFilterOrder ==
  /\ Running("order") /\ ctx' = [ctx EXCEPT !.orders = SetOrder(@, Item.filter, Item.order)]
  /\ CallNext /\ Quiet /\ UNCHANGED res

UseGlobalPipe ==
  /\ Running("pipe") /\ ctx' = [ctx EXCEPT !.pipes = Append(@, Item.pipe)]
  /\ CallNext /\ Quiet /\ UNCHANGED res

-----------------------------------------------------------------------------
(* cors *)
Vary   == <<"vary", "Vary">>
Origin == <<"access-control-allow-origin", "Access-Control-Allow-Origin">>
Allow  == <<"access-control-allow-methods", "Access-Control-Allow-Methods">>
Expose == <<"access-control-expose-headers", "Access-Control-Expose-Headers">>
IsPreflight == Method = "OPTIONS"

CorsHeaders(headers) ==
  LET origin == SetHeader(headers, Origin, IF Item.origin = "reflect" THEN req.origin
                                           ELSE <<Item.origin>>)
  IN IF IsPreflight THEN SetHeader(origin, Allow, <<"GET", "POST">>)
     ELSE SetHeader(origin, Expose, Item.expose)

NoContent(r) == Success(r, "noContent", Undefined, << >>)

\* An origin function that returns "" makes #setCorsHeaders call next() and
\* set nothing; invoke() goes on as if it had not.
Cors ==
  /\ Running("cors")
  /\ LET varied == SetHeader(res.headers, Vary, <<"Origin">>)
         full == [res EXCEPT !.headers = CorsHeaders(varied)]
     IN \/ /\ IsPreflight /\ ~req.acrm
           /\ res' = [res EXCEPT !.headers = varied]
           /\ CallNext /\ UNCHANGED again
        \/ /\ ~(IsPreflight /\ ~req.acrm) /\ Item.origin = "rejects"
           /\ res' = [res EXCEPT !.headers = varied]
           /\ again' = again \cup {at} /\ CallNext
        \/ /\ IsPreflight /\ req.acrm /\ Item.origin # "rejects"
           /\ res' = NoContent(full) /\ Return /\ UNCHANGED again
        \/ /\ ~IsPreflight /\ Item.origin # "rejects"
           /\ res' = full /\ CallNext /\ UNCHANGED again
  /\ Same /\ UNCHANGED <<ctx, todo, errors, trail>>

CorsAgain ==
  /\ mode = "leave" /\ at \in again
  /\ again' = again \ {at}
  /\ IF IsPreflight THEN res' = NoContent(res) /\ Return /\ Note("wrote", "noContent", "-")
     ELSE UNCHANGED <<res, trail>> /\ CallNext
  /\ Same /\ UNCHANGED <<ctx, todo, errors>>

-----------------------------------------------------------------------------
(* body, jwt and static *)

\* A stream is read once: a second parser of the type, or a second run of this
\* one, fails like a payload that does not parse ("bad"); formidable, for
\* multipart, never comes back from it.  It makes undefined of such a payload.
BodyParser ==
  /\ Running("body")
  /\ LET bad == ctx.read \/ req.payload.t = "bad"
         read == [ctx EXCEPT !.read = TRUE]
     IN \/ /\ req.type # Item.type
           /\ CallNext /\ UNCHANGED <<res, ctx, trail>>
        \/ /\ req.type = Item.type /\ ~bad /\ req.payload \notin {Nothing, Null}
           /\ ctx' = [read EXCEPT !.body = req.payload]
           /\ CallNext /\ UNCHANGED <<res, trail>>
        \/ /\ req.type = Item.type /\ ~bad /\ req.payload \in {Nothing, Null}
           /\ ctx' = read /\ Return /\ UNCHANGED <<res, trail>>
        \/ /\ req.type = Item.type /\ bad /\ ~(ctx.read /\ Item.type = "multipart")
           /\ ctx' = read /\ res' = [res EXCEPT !.status = 400]
           /\ IF Item.onError \/ Item.type = "multipart" THEN Return /\ Note("wrote", "status", "-")
              ELSE Throw(OtherError("error")) /\ Note("wrote", "throw", "-")
  /\ Same /\ UNCHANGED <<again, todo, errors>>
BodyWaits ==
  /\ Running("body") /\ req.type = Item.type /\ Item.type = "multipart" /\ ctx.read
  /\ UNCHANGED vars

\* A token is [prefix, key], signed with key; "-" is no prefix and no key.  A
\* second run cannot define ctx.jwtToken once more.
UseJwt ==
  /\ Running("jwt")
  /\ IF ctx.jwt = << >>
     THEN ctx' = [ctx EXCEPT !.jwt = <<Item.options>>] /\ CallNext /\ UNCHANGED trail
     ELSE Throw(OtherError("error")) /\ Note("threw", "jwt", "-") /\ UNCHANGED ctx
  /\ Same /\ UNCHANGED <<res, again, todo, errors>>

SecretKey(options) ==
  CASE options.provider # "-" -> options.provider
    [] options.provider = "-" /\ options.secret # "-" -> options.secret
    [] OTHER -> options.publicKey
\* What #fixToken leaves of the header is a token when its prefix is the
\* expected one or missing.  Without useJwt there are no options: it throws.
Verified(jwt, token) ==
  /\ jwt # << >> /\ token.key # "-"
  /\ token.prefix \in {"-", jwt[1].prefix}
  /\ token.key = SecretKey(jwt[1])

\* useJwtVerify; its try encloses next().  An onError writes what it likes.
Unauthorized(r) == FailureMsg(r, "unauthorized")
Refused(item) == IF item.onError THEN res ELSE Unauthorized(res)
JwtVerify ==
  /\ Running("verify")
  /\ IF Item.skip \/ Verified(ctx.jwt, req.token) THEN CallNext /\ UNCHANGED <<res, trail>>
     ELSE res' = Refused(Item) /\ Return /\ Note("refused", "verify", "token")
  /\ Same /\ UNCHANGED <<ctx, again, todo, errors>>

JwtExtraAuth ==
  /\ Running("access")
  /\ IF Item.granted THEN CallNext /\ UNCHANGED <<res, trail>>
     ELSE res' = Unauthorized(res) /\ Return /\ Note("refused", "access", "-")
  /\ Same /\ UNCHANGED <<ctx, again, todo, errors>>

\* DirectoryMiddleware: the file the path names, or the index in it.
FilePath(item) ==
  LET path == Unprefixed(req.path, item.prefix)
      index == (IF path = NoPath THEN << >> ELSE path) \o <<<<"index">>>>
      named == {path} \cup (IF item.index THEN {index} ELSE {})
  IN IF item.prefix # NoPath /\ ~StartsWith(req.path, item.prefix) THEN {}
     ELSE IF path \in item.files THEN {path} ELSE named \cap item.files
MethodNotAllowed(r) ==
  [Failure(r, "methodNotAllowed", Undefined) EXCEPT
     !.headers = SetHeader(@, <<"allow", "Allow">>, <<"GET", "HEAD">>)]
Content(item) == IF item.encoded THEN "decoded" ELSE "whole"
FileResult(r, status, b) ==
  [r EXCEPT !.status = status, !.body = b, !.headers = SetHeader(@, ContentType, <<"file">>)]

IsMethodValid == Method \in {"GET", "HEAD"}

Static ==
  /\ Running("static")
  /\ LET valid == IsMethodValid
         there == FilePath(Item) # {}
     IN \/ /\ valid /\ there
           /\ \E content \in {Content(Item), "broken"} :
                res' = FileResult(res, 200, Body("stream", content))
           /\ Return /\ Note("wrote", "file", "-")
        \/ /\ valid /\ ~there /\ Item.file404
           /\ res' = FileResult(res, 404, Body("stream", Content(Item)))
           /\ Return /\ Note("wrote", "file", "-")
        \/ /\ ~valid /\ there /\ Item.use405
           /\ res' = MethodNotAllowed(res) /\ Return /\ Note("wrote", "allow", "-")
        \/ /\ \/ valid /\ ~there /\ ~Item.file404
              \/ ~valid /\ ~(there /\ Item.use405)
           /\ CallNext /\ UNCHANGED <<res, trail>>
  /\ Same /\ UNCHANGED <<ctx, again, todo, errors>>

\* FileMiddleware: one path, one file.
StaticFile ==
  /\ Running("file")
  /\ LET equal == Item.path = req.path
     IN \/ /\ equal /\ ~IsMethodValid /\ Item.use405
           /\ res' = MethodNotAllowed(res) /\ Return /\ Note("wrote", "allow", "-")
        \/ /\ equal /\ IsMethodValid /\ Item.exists
           /\ res' = FileResult(res, 200, Body("stream", Content(Item)))
           /\ Return /\ Note("wrote", "file", "-")
        \/ /\ ~equal \/ (IsMethodValid /\ ~Item.exists) \/ ~(IsMethodValid \/ Item.use405)
           /\ CallNext /\ UNCHANGED <<res, trail>>
  /\ Same /\ UNCHANGED <<ctx, again, todo, errors>>

-----------------------------------------------------------------------------
(* A middleware of the application, before and after its next(). *)
Stale == <<"content-length", "Content-Length">>
Effect(e) ==
  CASE e = "none" -> res
    [] e = "length" -> [res EXCEPT !.headers = SetHeader(@, Stale, <<"string", "declared">>)]
    [] e = "blank" -> [res EXCEPT !.headers = SetHeader(@, <<"x", "X">>, <<"">>)]
    [] e = "drop" -> [res EXCEPT !.body = Undefined]
    [] e = "ok" -> Success(res, "ok", Body("string", "text"), << >>)

Use ==
  /\ Running("use")
  /\ \E e \in Item.before :
       \/ /\ e = "throw" /\ \E x \in Throws : Throw(x)
          /\ Note("threw", "use", "-") /\ UNCHANGED res
       \/ /\ e = "stop" /\ Return /\ UNCHANGED <<res, trail>>
       \/ /\ e \notin {"throw", "stop"} /\ res' = Effect(e) /\ CallNext
          /\ IF e = "none" THEN UNCHANGED trail ELSE Note("wrote", e, "-")
  /\ Same /\ UNCHANGED <<ctx, again, todo, errors>>

-----------------------------------------------------------------------------
(* The middlewares of useRouter. *)

Match ==
  /\ Running("match")
  /\ LET r == Route(Item.map, Item.prefix, Item.custom, Asked)
     IN /\ ctx' = [ctx EXCEPT !.route = r]
        /\ IF r.found = "route" THEN UNCHANGED <<res, trail>>
           ELSE res' = FailureMsg(res, r.found) /\ Note("wrote", r.found, "-")
  /\ CallNext /\ Same /\ UNCHANGED <<again, todo, errors>>

SetParams ==
  /\ Running("params") /\ UNCHANGED res
  /\ \/ /\ ctx.route.found # "route" /\ CallNext /\ UNCHANGED <<ctx, trail>>
     \/ /\ ctx.route.found = "route" /\ ParamsFail(ctx.route.item, req.path)
        /\ Throw(OtherError("error")) /\ Note("threw", "params", "-") /\ UNCHANGED ctx
     \/ /\ ctx.route.found = "route" /\ ~ParamsFail(ctx.route.item, req.path)
        /\ ctx' = [ctx EXCEPT !.params = Params(ctx.route.item, req.path)]
        /\ CallNext /\ UNCHANGED trail
  /\ Same /\ UNCHANGED <<again, todo, errors>>

TextOf(seg) == FoldLeft(LAMBDA text, atom : text \o atom, "", seg)
Class == Actions[ctx.route.item.action]
Sources ==
  [param |-> Object([k \in {TextOf(key) : key \in DOMAIN ctx.params} |->
               Text(TextOf(ctx.params[CHOOSE key \in DOMAIN ctx.params : TextOf(key) = k]))]),
   query |-> Object(req.query), body |-> ctx.body]
\* What was injected once is recorded in the scope of the request.
Outcomes ==
  [i \in DOMAIN Class.inputs |-> IF i \in DOMAIN ctx.args THEN Gives(ctx.args[i])
                                 ELSE Argument(ctx.pipes, Sources, Class.inputs[i])]

\* The filters of the current action that have a function.
FiltersFor(fn, executing) ==
  GetFilters(ctx.globals, Class.used, ctx.orders, Has, fn, executing)
Exec(fn, executing, left) ==
  [fn |-> fn, queue |-> FiltersFor(fn, executing), ran |-> 0, left |-> left]

\* next() makes the action: its inputs are injected with the constructor, or
\* in the BeforeInvoke hook of inject, and the pipes run with them.  Only in
\* the second case does a failure find the action made.
ToAction == mode = "enter" /\ at < Len(chain) /\ chain[at + 1].kind = "action"
BlankAction ==
  /\ ToAction /\ ctx.route.found # "route"
  /\ at' = at + 1 /\ Quiet /\ UNCHANGED <<mode, res, ctx, err>>

FirstFailure == SelectInSeq(Outcomes, LAMBDA o : o.error # "none")
ErrorOf(outcome) ==
  IF outcome.error = "badRequest" THEN HttpException(400, << >>) ELSE OtherError("error")

MakeAction ==
  /\ ToAction /\ ctx.route.found = "route"
  /\ IF ctx.inject /\ FirstFailure # 0
     THEN /\ mode' = "caught" /\ err' = ErrorOf(Outcomes[FirstFailure]) /\ UNCHANGED <<at, todo>>
          /\ ctx' = [ctx EXCEPT !.made = Class.built = "property",
                       !.args = [i \in 1 .. FirstFailure - 1 |-> Outcomes[i].value]]
          /\ Note("threw", "inject", Class.built)
     ELSE /\ at' = at + 1 /\ UNCHANGED <<err, trail>>
          /\ ctx' = [ctx EXCEPT !.made = TRUE,
                       !.args = IF ctx.inject THEN [i \in DOMAIN Outcomes |-> Outcomes[i].value] ELSE @]
          /\ IF ctx.hooks > 0 THEN mode' = "filters" /\ todo' = Exec(Before3[1], TRUE, ctx.hooks - 1)
             ELSE mode' = "act" /\ UNCHANGED todo
  /\ Same /\ UNCHANGED <<res, again, errors>>

\* The AfterInvoke hooks follow the body of the action.
Invoked ==
  /\ IF ctx.hooks > 0 THEN mode' = "filters" /\ todo' = Exec(After2[1], FALSE, ctx.hooks - 1)
                           /\ UNCHANGED <<at, err>>
     ELSE Return /\ UNCHANGED todo
  /\ Note("act", "invoke", ctx.route.item.action)

Invoke ==
  /\ mode = "act"
  /\ \E does \in Class.does :
       \/ /\ does.call = "throw" /\ \E x \in Throws : Throw(x)
          /\ Note("act", "throw", ctx.route.item.action) /\ UNCHANGED <<res, todo>>
       \/ /\ does.call \in DOMAIN SuccessStatus
          /\ res' = Success(res, does.call, does.body, <<"here">>)
          /\ Invoked
       \/ /\ does.call \in DOMAIN ErrorStatus
          /\ res' = Failure(res, does.call, does.body)
          /\ Invoked
  /\ Same /\ UNCHANGED <<ctx, again, errors>>

-----------------------------------------------------------------------------
(***************************************************************************)
(* execFilters.  A filter that answers false stops the ones before the     *)
(* action and the exception filters; then next() returns without invoking  *)
(* the action, or the exception is not handled.                            *)
(***************************************************************************)
Executing(fn) == fn \notin {After2[1], After2[2]}
CatchError(e) == res' = CatchResponse(res, e) /\ errors' = CatchErrors(errors, e)
Unhandled == /\ mode' = "leave" /\ CatchError(err) /\ Note("told", "-", "-")
             /\ UNCHANGED <<at, err>>

\* What is thrown out of next() of item at reaches its code: the catch of
\* useJwtVerify, or the next() of the item before, and the trail is "noted".
ThrowOut(e, noted) ==
  IF at > 0 /\ Item.kind = "verify" /\ ~Item.skip
  THEN /\ res' = Refused(Item) /\ Return /\ Note("refused", "verify", "error")
       /\ UNCHANGED errors
  ELSE Throw(e) /\ trail' = noted /\ UNCHANGED <<res, errors>>

RunFilter ==
  /\ mode = "filters" /\ todo.queue # << >>
  /\ LET f == Head(todo.queue)
         threw == Append(trail, Event("threw", todo.fn, f))
     IN \E r \in Behaves[f] :
          \/ /\ r = "throw" /\ todo.fn # "onException"
             /\ \E x \in Throws : Throw(x)
             /\ trail' = threw /\ UNCHANGED <<res, errors, todo>>
          \/ /\ r = "throw" /\ todo.fn = "onException"
             /\ \E x \in Throws : ThrowOut(x, threw)
             /\ UNCHANGED todo
          \/ /\ r = "refuse" /\ todo.fn \in {Before3[i] : i \in 1 .. 3}
             /\ Return /\ Note("refused", todo.fn, f) /\ UNCHANGED <<res, errors, todo>>
          \/ /\ r = "refuse" /\ todo.fn = "onException" /\ todo.left = 0
             /\ Unhandled /\ UNCHANGED todo
          \/ /\ r = "refuse" /\ todo.fn = "onException" /\ todo.left > 0
             /\ todo' = Exec("onException", TRUE, todo.left - 1)
             /\ UNCHANGED <<mode, at, err, res, errors, trail>>
          \/ /\ r = "pass" \/ (r = "refuse" /\ ~Executing(todo.fn))
             /\ todo' = [todo EXCEPT !.queue = Tail(@), !.ran = @ + 1]
             /\ Note("filter", todo.fn, f) /\ UNCHANGED <<mode, at, err, res, errors>>
  /\ Same /\ UNCHANGED <<ctx, again>>

NextFunction(fn) ==
  CASE fn = Before3[1] -> Before3[2]
    [] fn = Before3[2] -> Before3[3]
    [] fn = After2[1] -> After2[2]
    [] OTHER -> "-"
\* The first function of the hook that fn is the last one of.
FirstFunction(fn) ==
  CASE fn = Before3[3] -> Before3[1]
    [] fn = After2[2] -> After2[1]
    [] OTHER -> fn

\* Mutant: whatever is not false handles an exception, undefined too.
HandledUnasked == TRUE

\* An exception is handled when a filter there was let it pass.
Handled == todo.ran > 0

\* Each hook that was registered runs its functions; the first that handles an
\* exception is the last one.
FiltersDone ==
  /\ mode = "filters" /\ todo.queue = << >>
  /\ \/ /\ NextFunction(todo.fn) # "-"
        /\ todo' = Exec(NextFunction(todo.fn), Executing(todo.fn), todo.left)
        /\ UNCHANGED <<mode, at, err, res, errors, trail>>
     \/ /\ NextFunction(todo.fn) = "-" /\ todo.left > 0
        /\ ~(todo.fn = "onException" /\ Handled)
        /\ todo' = Exec(FirstFunction(todo.fn), Executing(todo.fn), todo.left - 1)
        /\ UNCHANGED <<mode, at, err, res, errors, trail>>
     \/ /\ todo.fn = Before3[3] /\ todo.left = 0 /\ mode' = "act"
        /\ UNCHANGED <<at, err, res, errors, todo, trail>>
     \/ /\ todo.fn = After2[2] /\ todo.left = 0
        /\ Return /\ UNCHANGED <<res, errors, todo, trail>>
     \/ /\ todo.fn = "onException" /\ Handled
        /\ mode' = "leave" /\ Note("handled", "onException", "-")
        /\ UNCHANGED <<at, err, res, errors, todo>>
     \/ /\ todo.fn = "onException" /\ ~Handled /\ todo.left = 0
        /\ Unhandled /\ UNCHANGED todo
  /\ Same /\ UNCHANGED <<ctx, again>>

-----------------------------------------------------------------------------
(* next() of item at, and its end. *)

Enter ==
  /\ mode = "enter"
  /\ \/ at < Len(chain) /\ chain[at + 1].kind # "action" /\ mode' = "invoke" /\ at' = at + 1
     \/ at = Len(chain) /\ mode' = "leave" /\ UNCHANGED at
  /\ Quiet /\ UNCHANGED <<res, ctx, err>>

Leave ==
  /\ mode = "leave" /\ at > 0 /\ at \notin again
  /\ \E e \in IF Item.kind = "use" THEN Item.after ELSE {"none"} :
       \/ /\ e = "throw" /\ \E x \in Throws : Throw(x)
          /\ Note("threw", "use", "-") /\ UNCHANGED res
       \/ /\ e # "throw" /\ res' = Effect(e) /\ Return
          /\ IF e = "none" THEN UNCHANGED trail ELSE Note("wrote", e, "-")
  /\ Same /\ UNCHANGED <<ctx, again, todo, errors>>

\* The catch clause of next(), and of Startup.invoke for item 0.
Passing(e) == e.through \/ e.class = "primitive"
OfAction == at < Len(chain) /\ chain[at + 1].kind = "action" /\ ctx.made

CaughtByStartup ==
  /\ mode = "caught" /\ at = 0 /\ Unhandled
  /\ Same /\ UNCHANGED <<ctx, again, todo>>

\* '"breakthrough" in error' throws a TypeError for a primitive.
PassesThrough ==
  /\ mode = "caught" /\ at > 0 /\ Passing(err)
  /\ IF err.class # "primitive" THEN ThrowOut(err, trail)
     ELSE ThrowOut(OtherError("error"), Append(trail, Event("threw", "next", "-")))
  /\ Same /\ UNCHANGED <<ctx, again, todo>>

CaughtByNext ==
  /\ mode = "caught" /\ at > 0 /\ ~Passing(err)
  /\ IF ctx.hooks > 0 /\ OfAction
     THEN /\ mode' = "filters" /\ todo' = Exec("onException", TRUE, ctx.hooks - 1)
          /\ UNCHANGED <<at, err, res, errors, trail>>
     ELSE Unhandled /\ UNCHANGED todo
  /\ Same /\ UNCHANGED <<ctx, again>>

\* HttpStartup.invoke has the response of Startup.invoke.
Finish ==
  /\ mode = "leave" /\ at = 0
  /\ mode' = "done" /\ res' = SetType(res)
  /\ UNCHANGED <<at, ctx, err>> /\ Quiet

Done == mode = "done" /\ UNCHANGED vars

Next ==
  \/ Inject \/ UseFilter \/ UseGlobalFilter \/ UseFilterOrder \/ UseGlobalPipe
  \/ Cors \/ CorsAgain \/ BodyParser \/ BodyWaits \/ UseJwt \/ JwtVerify \/ JwtExtraAuth
  \/ Static \/ StaticFile \/ Use
  \/ Match \/ SetParams \/ BlankAction \/ MakeAction \/ Invoke
  \/ RunFilter \/ FiltersDone
  \/ Enter \/ Leave \/ CaughtByStartup \/ PassesThrough \/ CaughtByNext \/ Finish
  \/ Done

Spec == Init /\ [][Next]_vars

-----------------------------------------------------------------------------
\* The place, the response, the errors and the filters at work fit together.
TypeOK ==
  /\ \E c \in Cases : chain = c.chain /\ req = c.req
  /\ mode \in Modes /\ at \in 0 .. Len(chain) /\ again \subseteq 1 .. Len(chain)
  /\ res \in Response
  /\ DOMAIN ctx = DOMAIN NewContext /\ ctx.globals \in Seq(DOMAIN Has)
  /\ ctx.hooks \in Nat
  /\ ctx.route.found \in {"none", "route", "methodNotAllowed", "notFound"}
  /\ ctx.route.found = "route" => ctx.route.item \in MapItems
  /\ DOMAIN todo = DOMAIN Idle /\ todo.queue \in Seq(DOMAIN Has) /\ todo.ran \in Nat /\ todo.left \in Nat
  /\ err \in Thrown /\ errors \in Seq(Thrown)
  /\ trail \in Seq(ToSet(trail))

Acts == {i \in DOMAIN trail : trail[i].e = "act"}
Behind(kind) == {k \in DOMAIN chain : chain[k].kind = kind}
ActionAt == CHOOSE k \in Behind("action") : TRUE
Ahead(kind) == {k \in Behind(kind) : k < ActionAt}

(***************************************************************************)
(* The action runs for requests every guard ahead of it let pass only: the *)
(* token, the extra access, the body parser, a preflight's answer, and,    *)
(* once for every time it runs, each function of each filter that applies  *)
(* to it.                                                                  *)
(***************************************************************************)
Applies(f) == \/ \E k \in Ahead("global") : chain[k].filter = f
              \/ \E k \in DOMAIN Class.used : Class.used[k] = f
PassedBefore(f, fn, i) ==
  Cardinality({j \in 1 .. i : trail[j] = Event("filter", fn, f)})
    >= Cardinality({j \in Acts : j <= i})
ActionIsGuarded == Acts # {} =>
  /\ \A k \in Ahead("verify") : chain[k].skip \/ Verified(ctx.jwt, req.token)
  /\ \A k \in Ahead("access") : chain[k].granted
  /\ \A k \in Ahead("body") : req.type = chain[k].type =>
       req.payload.t # "bad" /\ req.payload \notin {Nothing, Null}
  /\ \A k \in Ahead("cors") : IsPreflight /\ req.acrm => chain[k].origin = "rejects"
  /\ Ahead("filters") # {} => \A i \in Acts : \A f \in DOMAIN Has :
       Applies(f) => \A n \in DOMAIN Before3 :
         Before3[n] \in Has[f] => PassedBefore(f, Before3[n], i)

(***************************************************************************)
(* What filters do around an action nests: from an action to the next, the *)
(* executed functions run in the reverse order of the executing ones ahead *)
(* of it, whatever order they were given.                                  *)
(***************************************************************************)
Having(pair) == {f \in DOMAIN Has : pair \subseteq Has[f]}
RanOf(events, pair, fn) ==
  LET both == Only(events, [e : {"filter"}, fn : {fn}, by : Having(pair)])
  IN [i \in DOMAIN both |-> both[i].by]
Nest(i, j, executing, executed) ==
  LET pair == {executing, executed}
  IN IsPrefix(RanOf(SubSeq(trail, i + 1, j), pair, executed),
              Reverse(RanOf(SubSeq(trail, 1, i - 1), pair, executing)))
FiltersNest == \A i \in Acts, j \in DOMAIN trail :
  i <= j /\ Acts \cap (i + 1 .. j) = {} =>
    Nest(i, j, Before3[2], After2[2]) /\ Nest(i, j, Before3[3], After2[1])

(***************************************************************************)
(* Every error ends: the client is told it, the exception filters let it   *)
(* pass, or useJwtVerify takes it for a refused token.  Nothing puts       *)
(* another error in its place but an exception filter that throws and the  *)
(* TypeError of a primitive, and nobody ends what is not in flight.  An    *)
(* exception filter hears of an error of the action, of the filters around *)
(* it or of a property injected into it, and of no other.                  *)
(***************************************************************************)
Threw(event) == event.e = "threw" \/ event.fn = "throw"
Ended(event) == event.e \in {"told", "handled"} \/ event.by = "error"
Replaces(event) == event.e = "threw" /\ event.fn \in {"onException", "next"}
OfTheAction(event) ==
  \/ event.e = "act" \/ event.fn \in ToSet(Before3) \cup ToSet(After2)
  \/ event.fn = "inject" /\ event.by = "property"
Heard(event) == event.fn = "onException"

Marks == {i \in DOMAIN trail : Threw(trail[i]) \/ Ended(trail[i])}
\* Event i put the error in flight that event j is about.
InFlight(i, j) == i < j /\ Threw(trail[i]) /\ Marks \cap (i + 1 .. j - 1) = {}
ErrorsEnd ==
  /\ \A j \in DOMAIN trail :
       /\ Ended(trail[j]) => \E i \in DOMAIN trail : InFlight(i, j)
       /\ Threw(trail[j]) => Replaces(trail[j]) \/ ~ \E i \in DOMAIN trail : InFlight(i, j)
       /\ Heard(trail[j]) => \E i \in DOMAIN trail : InFlight(i, j) /\ OfTheAction(trail[i])
       /\ trail[j].e = "handled" => trail[j - 1] \in [e : {"filter"}, fn : {"onException"}, by : DOMAIN Has]
  /\ mode = "done" => ~ \E i \in DOMAIN trail : InFlight(i, Len(trail) + 1)

(***************************************************************************)
(* The client is told the last error nobody handled, unless somebody wrote *)
(* to the response after it.                                               *)
(***************************************************************************)
ToldLast ==
  \E i \in DOMAIN trail :
    /\ trail[i].e = "told"
    /\ \A j \in i + 1 .. Len(trail) : trail[j].e \notin {"wrote", "refused", "act"}
FailureIsTold ==
  mode = "done" /\ ToldLast =>
    /\ res.status = Told(Last(errors)).status
    /\ res.body = Body("object", "error")

(***************************************************************************)
(* The length that leaves is that of the body that leaves, whatever was    *)
(* written before, unless a middleware declared one; without a body there  *)
(* is none, and never one for a stream.                                    *)
(***************************************************************************)
Wrote(what) == \E i \in DOMAIN trail : trail[i].e = "wrote" /\ trail[i].fn = what
Declared == Wrote("length")
LengthFitsBody == mode = "done" =>
  LET length == GetHeader(res.headers, ContentLength)
  IN /\ Falsy(res.body) => length = << >>
     /\ ~Falsy(res.body) /\ ~Declared =>
          length = IF res.body.t = "stream" THEN << >> ELSE LengthOf(res.body)

(***************************************************************************)
(* A browser can read every answer of a startup that begins with useCors,  *)
(* errors included: the headers set on the way in are on the answer.       *)
(***************************************************************************)
OriginOnEveryAnswer ==
  mode = "done" /\ chain # << >> /\ chain[1].kind = "cors" =>
    /\ GetHeader(res.headers, Vary) = <<"Origin">>
    /\ chain[1].origin # "rejects" /\ (IsPreflight => req.acrm) =>
         GetHeader(res.headers, Origin) =
           IF chain[1].origin = "reflect" THEN req.origin ELSE <<chain[1].origin>>

(***************************************************************************)
(* The route is the best of those that take the path and the method:       *)
(* literal segments before placeholders, from the left; then routes that   *)
(* name the method, those without methods, those for any.  404 means no    *)
(* route takes the path, 405 that none of them takes the method.  Unless   *)
(* the router cut off its prefix to find the route, a parameter is the     *)
(* segment of the request that stands for its placeholder, decoded.        *)
(***************************************************************************)
Rank(m) == CASE AnyMethod \in m.methods -> 2 [] m.methods = {} -> 1 [] OTHER -> 0
Better(m, n) ==
  LET SameUpTo(k) == \A j \in 1 .. k : HasCaret(m.url[j]) = HasCaret(n.url[j])
  IN \/ \E i \in DOMAIN m.url :
          SameUpTo(i - 1) /\ ~HasCaret(m.url[i]) /\ HasCaret(n.url[i])
     \/ SameUpTo(Len(m.url)) /\ Rank(m) < Rank(n)
ParamsFit(url, path) ==
  \A i \in DOMAIN url : IsPlaceholder(url[i]) =>
    \E j \in DOMAIN url : url[j] = url[i] /\ ctx.params[Tail(url[i])] = Decode(path[j])
RouteIsBest == ctx.route # NoRoute =>
  LET item == chain[CHOOSE k \in Behind("match") : TRUE]
      path == Unprefixed(req.path, item.prefix)
      fitting == {m \in ToSet(item.map) : FitsPath(m, path)}
      accepting == {m \in fitting : m.methods = {} \/ AcceptsMethod(m, Method, item.custom)}
  IN CASE ctx.route.found = "route" ->
            /\ ctx.route.item \in accepting
            /\ \A m \in accepting : ~Better(m, ctx.route.item)
            /\ ctx.params # << >> /\ path = req.path => ParamsFit(ctx.route.item.url, path)
       [] ctx.route.found = "methodNotAllowed" -> fitting # {} /\ accepting = {}
       [] ctx.route.found = "notFound" -> fitting = {}

(***************************************************************************)
(* Where the validator is the last pipe, every argument an action runs     *)
(* with keeps the rules of its property and of its class, after all that   *)
(* the pipes made of it.                                                   *)
(***************************************************************************)
ValidatorLast == ctx.pipes # << >> /\ Last(ctx.pipes).pipe = "validate"
                 /\ Last(ctx.pipes).type = "after" /\ ctx.inject
ArgumentsAreValid ==
  mode = "act" /\ ValidatorLast => \A i \in DOMAIN ctx.args :
    LET input == Class.inputs[i]
    IN \/ input.disabled /\ ctx.args[i].t = "object"
       \/ ValidParent(input, ctx.args[i]) /\ ValidModel(input, ctx.args[i])

(***************************************************************************)
(* native, alifc and lambda send the same answer, but for a stream that    *)
(* breaks or, on alifc, was opened with an encoding, a bare number, what   *)
(* JavaScript takes for no body, and a header without text, which lambda   *)
(* alone sends.  Where HTTP has no body, native alone leaves it out.       *)
(***************************************************************************)
HostsAgree ==
  LET bare == Bodiless(res, req.method)
  IN mode = "done" /\ ~Falsy(res.body) /\ res.body.t # "number" /\ ~Broken(res.body) =>
       /\ ~Decoded(res.body) => NativeAnswer(res, req.method) = Seen(AlifcAnswer(res), bare)
       /\ ~Wrote("blank") => NativeAnswer(res, req.method) = Seen(LambdaAnswer(res), bare)

=============================================================================
