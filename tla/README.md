# TLA+ models of ipare

ipare is a TypeScript framework for request handlers: a `Startup` runs a list of
middlewares over a `Context`; packages under `src/packages/` add dependency
injection, routing, HTTP, and several transports for microservices.  This
directory keeps models of its core logic, the TLC configurations that check them
and proofs checked by TLAPS.

To check a configuration: `tlc -config <Run>.cfg <Module>.tla`.  To check a
proof: `tlapm <Module>Proofs.tla`.

## 1. The system

Every part runs on one Node.js thread.  Concurrency is the interleaving of
requests at `await`, of event callbacks of sockets, brokers and streams, and of
timers.  There is no persistence, so there is no recovery to model; what fails
are calls, connections and user code.

| part | state it keeps | operations | hard behaviour |
| --- | --- | --- | --- |
| core: pipeline (`Startup`, `Middleware`, hooks, `ComposeMiddleware`) | list of middlewares per startup, `#ctx` and `#mds` per middleware, hook bag and `errorStack` per context | `invoke`, `next`, `hook`, compose, `catchError` | interleaving of requests, errors thrown at each level, hooks registered while the chain runs, instances shared by requests |
| core: `dynamicListen`, `closeServer` | server socket, port tried | listen, close | port in use, next port tried from inside an error callback |
| inject | three bags of records, flags on objects | `inject`, `parseInject`, `dispose`, three hooks | check-then-await-then-push, cycles, disposal while in use |
| micro: message handling | none | `handleMessage` | a pattern handler that throws outside the pipeline |
| micro-common: stream iterator, TCP framing | queue, one wake-up callback, end flag | push, end, iterate, parse | lost wake-ups, a frame split over two chunks |
| micro-tcp, micro-redis, micro-mqtt, micro-nats with their clients | pending calls by id, connection, subscriptions | connect, send, emit, answer, timeout, close | an answer after the timeout, close with pending calls, duplicated ids |
| micro-grpc and its client | server, services, one iterator per stream | listen, close, call, stream | end of stream before the last item is read, forced shutdown |
| micro-client | clients by name | create, connect, dispose | partly connected clients |
| router | map of actions, the route of a request | match, parameters | the most specific match, a prefix that is cut off |
| filter | filters of an action, global filters, their orders | select, execute | order by kind and number, a filter that ends the request, exception filters around a failed action |
| http | headers, status and body of one request, `errorStack` | set, get, append, results, `catchError`, `setType` | errors that meet an answer already written, header case, lengths that no longer fit |
| cors, body, jwt, static | the response, what they leave in the bag | one middleware each | who answers first, `next()` called twice, a `try` that encloses `next()` |
| pipe, validator | values of one request, rules by class and property | inject, transform, validate | order of the pipes, where a failure arises |
| native, lambda, alifc | the answer they send | write status, headers, body | three hosts that should send the same answer |
| swagger | the document, the components of classes | parse, serve | classes that refer to each other in cycles |
| context bag | singleton, scoped and transient values of a context | get, set, builder | values cached before they are replaced |
| mva, view, koa, cookie, env, logger, mongoose, redis, typeorm, testing | values of one request, connections of libraries | conversion and registration | little: glue around libraries |

A transport (native, lambda, micro-*) builds a `Request`, constructs the
`Context` and calls `Startup.invoke`; the pipeline runs the middlewares, among
them those of inject, router and filter, which keep what they need in the bags
of the context; the transport turns the `Response` into an answer.  Clients pair
answers with calls by id.

What makes each part correct, in short: an error ends in one place, in the
context of its request, and every request is answered (pipeline); one object per
key and scope, initialized before use and disposed once (inject); a value is
delivered once and in order, and a reader waiting for it wakes up (streams); a
call is settled once, by its own answer (clients); a server that listens can be
closed, and one that fails says so (listen); the action that runs is the most
specific match, or the answer says which of path and method did not fit (router); every
filter runs in its order, or none behind the one that ended the request, and no
action runs that a guard before it refused (filter, jwt, body, cors); the client
is told of an error nobody handled, with headers that fit the body (http); the
arguments of an action keep their rules (pipe, validator); every host sends the
same answer (native, lambda, alifc); a document has what it refers to, whole
(swagger).

## 2. The modules

| module | models | state |
| --- | --- | --- |
| `Pipeline` | `core/src/startup.ts`, `middlewares/*` | `phase`, `stack` (pending calls), `hooks`, `errorStack`, `owner` (`#ctx` of instances), two history variables |
| `Requests` | what a caller of `Startup.invoke` may rely on | `life`, `reported` |
| `MCPipeline` | small lists of middlewares | |
| `PipelineProofs` | theorems about `Pipeline` | |
| `Inject` | `inject/src` | `objs`, the three bags, `parsers` (pending `parseInject` calls), `disposal`, `held` |
| `MCInject` | small graphs of classes | |
| `InjectProofs` | theorems about `Inject`: its records and parsers, and what it disposes | |
| `MicroTcp` | `micro-tcp-client/src/client.ts`, the connection handler of `micro-tcp/src/startup.ts`, `handleMessage` of `micro`, `micro-common/src/tcp` | the client's `#socket`, `#tasks` and timers, connections and the frames on them, running handlers, history |
| `Calls` | what a caller of a client's `send()` may rely on | `status`, `handled` |
| `MicroTcpProofs` | theorems about `MicroTcp` | |
| `StreamIterator` | `micro-common/src/grpc/stream.ts` | `queue`, `isEnd`, the place of the loop over it (`onData` is set when it waits), the item in its hand |
| `MicroGrpc` | `send` and `emit` of `micro-grpc-client/src/client.ts`, the method implementations of `micro-grpc/src/startup.ts`; composes four `StreamIterator`s per call | what the client knows of a call, the handler, the items on the wire, history |
| `ItemStreams` | what the two ends of a stream may rely on | `sent`, `closed`, `got`, `finished`, `cut`, `replaced` |
| `MicroGrpcProofs` | theorems about `MicroGrpc` | |
| `MicroBroker` | `micro-redis-client`, `micro-mqtt-client`, `micro-nats-client` (`src/client.ts`), the message handlers of the three servers | `pub` and `sub`, where `connect()` or `dispose()` awaits, `#tasks`, timers, subscriptions, messages on their way, handlers, history |
| `MicroBrokerProofs` | theorems about `MicroBroker` | |
| `Listen` | `core/src/utils/net.ts`, the servers of `native/src/startup.ts` and `micro-tcp/src/startup.ts` | who holds a port, the tries of `dynamicListen` with their listeners, the event that is due, connections and their requests |
| `ListenProofs` | theorems about `Listen` | |
| `Lists` | `Array.prototype.filter` and `obj[key] = value`, which several modules share | `Only`, `With` |
| `HttpResponse` | the header dictionary, results, error results and exceptions of `http`, `catchError`, `setType`; how native, alifc and lambda send a response | operators on `ctx.res` |
| `Routing` | `router`: the map made of action files, matching, parameters; the methods of `methods` | operators |
| `Filters` | `filter`: which functions run, in which order | operators |
| `Pipes` | `pipe` and `validator`: where an input is read, its pipes, its rules | operators |
| `HttpServer` | one request through the middlewares of an http startup: cors, body, jwt, static, filter, router, the action and its errors | `chain` and `req` (the case), `mode` and `at` (where it is), `res`, `ctx`, `errors`, the filters and hooks that are left, history |
| `HttpServerProofs` | theorems about `HttpServer` | |
| `MCHttpServer` | startups and the requests they serve | |
| `SwaggerDoc` | `swagger`: the middleware and the parser with its schemas | the document, the operations and members that are left, the models being filled |
| `SwaggerDocProofs` | theorems about `SwaggerDoc` | |
| `MCSwaggerDoc` | small applications | |

### Pipeline

A request is an asynchronous call of `Startup.invoke`; its pending async
functions are a stack of frames, and a step is the code between two awaits.  A
frame names the place of its middleware (list and index), its `#ctx`, and where
it stands in `next()`: `beforeNext` hooks, creation of the next middleware
(Constructor hooks), `init`, `beforeInvoke` hooks, the middleware's own body,
`afterInvoke` hooks, and the Error hooks of the catch clause.  `Fail` and
`FailNext` are the catch clause; `Root` is the middleware that has no `next()`
around it, whose errors reach the `catch` of `Startup.invoke`
(`CatchAndAnswer`).  A composed list is run by its `ComposeMiddleware` with a
tail that calls the outer `next()` (`This`).  `owner` holds the one `#ctx` of a
middleware given as an instance, which `init` overwrites on every request.

Not modelled: the payloads of requests and responses; `isPrevInstanceOf` and
`isNextInstanceOf`, which read only.  Assumed: an instance stands at one place of
a startup's list; a middleware awaits the `next()` calls it makes; builders
return a middleware.

### Inject

A `parseInject` is a frame on the stack of its request: it looks for a record,
or creates the object after its constructor arguments, pushes the record after
the await, and injects properties between `initializing()` and `initialized()`.
`Records` is `getRecordsFromBag`: the transient bag is written and never found
again by key; singletons belong to the startup.  The middlewares of `inject()`
unwind in `finally` blocks (`Unwind`, `ToDispose`, `DisposeNext`).

Not modelled: calls of `inject()` behind middlewares that use the key, keys no
`inject()` call names, class graphs with a cycle through constructor
arguments, on which the code recurses without end, and a second `next()` ahead of
the `inject()` calls, which would run their `finally` blocks twice.  (A second
`next()` ahead of `useInject` registers its hooks again, which changes nothing:
an object that was injected is not injected once more.)  Assumed: a middleware awaits
each `parseInject`; a property is undefined before it is injected.

### MicroTcp

One client and one server.  `connect()` closes the socket it has and opens
another (`Connect`); a closed socket is `deaf`: `#close` removed its listeners,
so what arrives is not read and an error of it is an uncaught exception, after
which the client's process is gone (`up`).  `send()` puts its entry into `tasks`
(`#tasks`) and `timer` before it writes; the timer, the answer (`Callback`) and
`#close` take entries out.  The server starts a handler per message (`jobs`) and
answers when `handleMessage` returns, in any order.

A data event brings a chunk.  `parseTcpBuffer` keeps nothing from one chunk to
the next, so a chunk behaves like its whole frames taken one by one, followed by
what it rejects: the beginning of a frame, or the end of one and everything
behind it in the chunk (`Rejects`, `torn`).

Not modelled: `listen`, `dynamicListen` and `close` of the server, which are in
`Listen`; the payloads; malformed frames, which nobody sends here; that `connect()` resolves even when
the connection fails, since user code may call `send()` at any time anyway.

### MicroGrpc

A call is of one of four kinds: its request, its response, both or neither are
streams.  A stream has two iterators.  User code pushes into a `WriteIterator`
(`UserPush`, `UserEnd`); the pump, a loop of the framework over it, writes each
item to the call and ends the call behind the loop (`PumpLook`, `PumpWrite`,
`PumpEnd`); data and end events fill the `ReadIterator` at the other end
(`Deliver`, `DeliverEnd`), and user code loops over that (`Read`, `ReaderLook`,
`Consume`).  All of them take the steps of `StreamIterator`, whose `Look` is one
turn of the generator: an item, the end, or `onData` is set and the loop waits.
Items are numbered, so that a lost, doubled or overtaken one shows.

The server's pump begins when the pipeline of the call has ended and the body
still is the `WriteIterator` that `prehook` put there (`AnswerStream`); with
another body that is one item, 0, or none (`AnswerOther`, `replaced`).  A pattern
handler that throws leaves the call without an answer (`Throw`).  A call may
break at any time (`Break`): nothing travels any more, a callback hears of the
error, and the error event of a response stream, to which nobody listens, ends
the client's process (`up`).

Not modelled: `connect` and `dispose` of the client with its cache of services;
`listen` and `close` of the server; payloads.  Assumed: one loop at a time over
an iterator, and none after one that was told the end; an answer without data,
as an error leaves it, is answered by the gRPC library as data or as an error.

### MicroBroker

One client and its servers around a broker, which is external: it passes a
message on to whoever subscribes when it comes, or loses it (`Lose`).  The three
clients share their shape, so `broker` says which one a behaviour is of, and
where they differ an action belongs to one of them.  A `send()` subscribes to a
channel of its own, publishes, and waits for an answer or its timer.  Redis
awaits the subscription between the two (`SendRedis`, `Subscribed`): its timer
runs meanwhile, and `this.pub` may be closing when it goes on.  Mqtt keeps a task
per call in `#tasks`, which an answer removes (`DeliverMqtt`) and a timeout
leaves there.  In nats and redis the callback of the subscription resolves the
call (`Deliver`).  `NoResponders` is what nats answers when nobody subscribes: an
error, or a message the decoder throws on, after its timer was cleared (`mute`).

`#close` of mqtt takes one step (`CloseMqtt`); the others await one connection
after the other (`CloseAwaiting`, `PubClosed`, `SubClosed`), and `connect()` goes
on behind that.  `ready` and `connecting` are what the libraries say of a
connection, which they make again by themselves (`Drop`, `Connected`); nats
accepts a `send()` meanwhile, so it does not drop here.  Nobody listens to the
"error" event of the redis clients, so that a drop is an uncaught exception there:
the process may end (`alive`), or a handler of the application keeps it and the
library connects again.

The server starts a handler per message (`Receive`) and publishes the answer
when `handleMessage` returns (`Answered`).  `handleMessage` is not awaited: if
the pattern handler throws, the rejection is unhandled and may end the server's
process (`HandlerThrows`, `alive`).

Assumed: user code awaits `connect()` and `dispose()` before it calls the next;
patterns are registered before `listen()`, and the server listens all the time;
messages come at most once (QoS 0).  Not modelled: payloads; a client that is
closed before it is ready, which its library may still connect.

### Listen

Servers of one process, other processes that take and release ports, and
clients.  The server of Node is external: `server.listen(p)` binds within the
call and emits its event on the next tick (`Bind`, `event`); `server.close()`
frees the port and calls back when the last connection has ended (`Closed`).
A try of `dynamicListen` is a record of its port and its two flags `error` and
`listen`; `onListening` and `onError` hold the tries whose `once` listeners are
still registered.  A try that meets `EADDRINUSE` makes the next one (`Retry`)
and keeps its listener of "listening"; every other error, and the `RangeError`
that `listen()` throws beyond the last port, is `GiveUp`: it rejects the promise
of its own try, which for a try made by another one nobody handles, so that
`dynamicListen` is `Stuck` and Node may end the process (`Dies`).  `Fault` is an
error of a server that listens.

`closeServer` removes the listeners of the startup, too (`wired`), for good: a
startup that listens again answers nothing, and a request on a connection that
is still open goes to nobody in native, where it is an event of the server, but
to its handler in micro-tcp, where the socket has listeners of its own (`Hears`).

Assumed: no host name is looked up before the port is bound; user code awaits a
listen before it calls the next one, and a close before it listens again; no
server option changes what a connection is.  Not modelled: handles and paths
instead of ports, `logAddress`, the body of the answer.

### HttpServer

What `Pipeline` leaves open, this module fills in: what the middlewares of the
packages do.  A startup is a sequence of items, each a middleware with its
options; the call stack is a number, since item `at` runs because every item
before it awaits its `next()`.  `Enter` is `next()`, the action of the item's
kind is its `invoke` up to `next()`, `Leave` what follows it; `mode = "caught"` is
the catch clause of `next()` (`PassesThrough`, `CaughtByNext`) or of
`Startup.invoke` (`CaughtByStartup`); `Finish` is the end of
`HttpStartup.invoke`, which sets type and length.  A case is one startup and one
request; there is no other actor, and what varies within a case is which filters
pass, refuse or throw, what the action answers or throws, and what middlewares
of the application do before and behind their `next()`.

`MakeAction` is the Constructor and BeforeInvoke hooks of `next()`: an action gets
its inputs, through the pipes, with the constructor or as properties, and only
in the second case does an exception filter find it.  `todo` is the loop of
`execFilters` over the functions of one kind, and the number of the hooks of
that kind that are still to run.  Code one does not expect, and the
model has as it is: an origin function of cors that returns "" runs everything
behind it twice (`CorsAgain`), and on the second run `useFilter` registers its
hooks once more, so that every filter function runs twice around the action
(`ctx.hooks`), what was injected is taken from the scope of the request without
running the pipes again (`ctx.args`), `useJwt` throws, and a stream that was read
is not there any more: a text or json body fails to parse, and formidable never
calls back, so that the request hangs (`BodyWaits`, the one step besides `Done`
that goes nowhere); a body of null or undefined ends the request without an
answer of its own (`BodyParser`); the `try` of `useJwtVerify` encloses `next()`, so
that an error of any middleware behind it becomes a 401 (`ThrowOut`); a thrown
primitive becomes a TypeError in the catch clause (`PassesThrough`); the prefix
of the router is cut from the path that is matched and not from the path that
parameters are read from (`Params`); a body that JavaScript takes for false is
sent as none; what 204, 304 or an answer to HEAD has for a body is left out by
native, where Node does so, and sent by the two others (`Bodiless`); alifc fails
on a stream that was opened with an encoding (`Decoded`); a body injected into a
class gets what the class gives its members itself (`ReadInput`).

`ArgumentsAreValid`, `ActionIsGuarded` and `FiltersNest` speak of every run of the
action, also of those of a second `next()`.  A class into which properties are injected has no other members here than
its inputs.

The cases are a constant.  `HttpAssumption` says what a startup is: its items name
filters and actions that exist, and `useJwt` and `useRouter` are called once
(`CaseAssumption`; a second `useRouter` would add a second action and another
route).  `TextAssumption` of `HttpResponse` says that the texts of the package are
among the texts.  Five more predicates say what a theorem needs of a startup
besides: `NoThrownLength`, `NoThrownOrigin`, `NoBlankHeader`, `OneCors` and
`ActionLast`, that nothing follows `useRouter`.  `FiltersNest` is about an
action and what ran ahead of it; of the whole trail it would be false, since on a
second pass a filter may refuse before the action is reached again.

Texts are sequences of atoms where a part of them matters (`<<"^", "id">>` is a
placeholder), and else model values; headers are a dictionary from the lower case
name to name and values.  Libraries are external: class-validator (three of its
validators and an unknown one), jsonwebtoken (a token verifies with the key it
was signed with), co-body and mime.  Not modelled: letter case of paths, the
texts of errors, the getters of a request.

### SwaggerDoc

`PassOn`, `Redirect`, `Initializer` and `ReplaceBody` are the answers of the
middleware, `Parse` begins the document.  `ParseUrlMethodItem` takes the next
operation of the map, `ParseParam` and `ParseBody` the next pipe record of it.
Where the code calls itself for the class of a member or an item, the model
pushes it on `stack`: `SetComponent` begins a component, unless it is there or has
been begun, `SetMember` is one turn of the loop over the members, `EndModel` the
return.  Modelled as they are: of several decorators that set one option the last
one wins (`DynamicSetValue`); a component is extended by the rules of whoever refers to its class first; of the
placeholders of a url only the first is put into braces; a url whose route names
no methods gets a path without operations (`urls`); a file that cannot be read
ends the request with an error (`ReplaceBody`); the type of a body
property is looked up by the property's name; a class that comes to a body whose
schema was made for an array before finds no properties object to write to, and
the parser throws (`answer = "failed"`).

The applications are a constant.  `AppAssumption` says what decorators and the
router's map record: lists; a Response with the body it was declared with; an
action for every route of the map; members that have names of their own, since the
rules of a class are grouped by member; and no class that is what type metadata
calls an array or nothing.  A class is its name, as it is to the code, which
keys components by `modelType.name` only: two classes of one name would share the
component of whichever comes first.

Not modelled: the presets of the builder, the text of the HTML pages and the
options that are copied into the document unchanged.

## 3. What the runs check

| run | bounds | question |
| --- | --- | --- |
| `pipeline_errors` | 1 request, `next()` twice, 2 thrown values of 3 kinds, a composed list, Error, Constructor, AfterInvoke and BeforeNext hooks | does every thrown value end in exactly one place, is a caller of `next()` spared from what the hooks handle, is the request answered? |
| `pipeline_fresh` | 3 requests (one on an empty startup), 1 thrown value each | do interleaved requests stay apart, and does the pipeline implement `Requests`? |
| `pipeline_shared` | 2 requests, 1 instance | the same for `add(new Md())`: **violated**, see below |
| `inject_graph` | 2 requests, 5 classes, 1 thrown value each | do scopes stay apart and hold one object per key, is an object handed out initialized and disposed when nobody uses it, do requests end? |
| `inject_race` | 2 requests, 1 class | is a singleton created once? **violated** |
| `micro_tcp` | 2 calls (one without a timeout, one of an unknown pattern), 1 event, 2 `connect()`, 1 connection that fails, frames cut in both directions | do `#tasks` and timers agree with what waits, is a call answered once and settled, does the whole implement `Calls`? |
| `micro_tcp_split` | 1 call, 1 `connect()` | does every well-formed frame pass the parser? **violated** |
| `micro_grpc` | 1 call of each of the four kinds, 2 items in its streams, 1 call that breaks | are wake-ups lost, does the end come behind the items, do streams end, does the whole implement `ItemStreams`? |
| `micro_broker` | each of the 3 brokers, 2 calls (one without a timeout), 1 event, 2 `connect()`, 1 message or connection lost, a server for all patterns or for one | do `#tasks`, timers and subscriptions agree with what waits, is an answer heard, is every call settled, does the whole implement `Calls`? |
| `listen` | 2 servers (native, micro-tcp), 1 client, 3 ports of which 1 may not be bound, 2 listens, 1 port taken by another process, 1 error of a listening server | does `dynamicListen` return where its server listens, is it under way to an event, does a closed server stay closed, are requests answered, does `close()` end? |
| `http_request` | 762 cases of a startup and a request: filters and orders, errors of five kinds on the way in and out, tokens and keys, origins, files, bodies, a map with placeholders at three places, actions with pipes | does every action run behind its guards, do filters nest, does every error end, is a failure told, do headers fit the body, is the best route taken, do arguments keep their rules, do the hosts agree? |
| `swagger_doc` | 432 applications: 3 classes with members of each other's types, in lists and in cycles, 2 actions, 3 maps; 8 requests | does every `$ref` resolve, does the recursion end, is every component whole, are the components those that are reached? |

Why the bounds are enough.  An error path needs one error and a second thrown
while the first is handled (an Error hook that throws, a `finally` block of user
code), so two thrown values per request reach every pair of handlers; a list of
five items with a composed list of four has every neighbour relation (hook before
user, hook inside a composed list, class at the head of a list, tail).
`next()` twice is the smallest number that re-enters a chain.  Two requests are
enough for interference on `owner`, `objs` and `singletons`, since each of these
is written by one request and read by another; the third request of
`pipeline_fresh` is the empty list.  For injection, the graph has a class
argument, a property cycle, each of the three types, and an instance shared by
requests.  For the TCP client, a late answer, an answer to another call and a
frame torn from its end need two messages on one socket, and a late answer after
a reconnection needs two sockets; a third message adds a frame between them.
For the brokers, two calls are needed for an answer to reach the other one, two
`connect()` for a packet of the one before, and one loss for a timer that has to
settle a call; the calls share nothing but the connection and `#tasks`.
Calls of gRPC share nothing but the client's process; two items are the smallest
number that shows an order, and put one item beside another in every queue, in a
hand and on the wire.
For the servers, two of them meet at one port, three ports are a port in use, one
behind it and the end, and the third listen of two servers would repeat a first or
second one of either.
For `HttpServer`, requests share no state these middlewares keep (what they could
share, an instance or a singleton, is in `Pipeline` and `Inject`), so one request
is enough; what matters is which items meet.  Every item that goes on
meets one behind it that throws or answers; each filter function has two filters that differ in
whether they have it, so that orders, refusals and reversals show; placeholders
compete with literals at each of the first three places of a path.  Texts
do not meet, except where a case puts them together.
For `SwaggerDoc`, three classes are a cycle with a class between, and every one
of them can be the first that is reached; two actions are one that finds
components which the other has begun or added.  `MaxListens`, `MaxOthers`, `MaxFaults`, `MaxNext`, `MaxErrors`, `MaxParses`, `Wanted`, `MaxConnects`, `MaxItems`, `MaxBreaks` and
`MaxLost` are the bounds; they limit what user code and the network do, and nothing of the
framework.

Every run but `http_request` says `CHECK_DEADLOCK FALSE`: a system whose requests
have all been answered stops.  `HttpServer` has a step for the end (`Done`) and one
for the parser that waits for ever (`BodyWaits`), so that there a deadlock is a
request that got stuck anywhere else.

Fairness is weak fairness of the steps of a request that has begun
(`Serve(r)`, `Advance(r)`): Node runs the continuation of every settled promise,
and user code is assumed to return or throw.  No fairness is assumed of requests
beginning or of user code asking for injection.  In `MicroTcp`, timers fire,
bytes that were sent arrive on a connection that lives (`Transport`), and
handlers end (`Handled`); nothing makes user code call, connect or dispose, or a
connection fail.  In `MicroGrpc`, calls and items that were sent arrive, answers
are called back, pumps go on and user code that loops takes its next item;
nothing makes user code push, end, answer or begin a loop.  In `MicroBroker`,
timers fire, subscriptions are confirmed, the broker passes messages on
(`Receive`, `Answer`) unless it loses them, and handlers end (`Work`); nothing
makes user code call, a connection come up, or a `dispose()` get on.  In `Listen`, Node emits what is due
(`Emit`) and calls back from `close()` when no connection is left, and handlers
end (`Serve`); a client that has its answer again and again while its server is
closing leaves at last (strong fairness of `Leave`, restricted to closing
servers), since otherwise it could keep a server from closing by asking for ever.
`HttpServer` and `SwaggerDoc` state no fairness and no liveness: one request runs
with nobody to wait for.

### Violations

* `pipeline_shared`: `createMiddleware` returns an instance as it is and `init`
  overwrites its `#ctx`, so after an await it works on the context of another
  request.
* `inject_race`: the record of a singleton is looked for before an await and
  pushed after it.
* `micro_tcp_split`: TCP may cut a frame anywhere, and `parseTcpBuffer` throws
  when a chunk ends inside one; the server then answers with an error that names
  no call, the client's process dies of the uncaught error.

Two more are behaviours of the models, which their properties allow for, and no
findings since nothing in the repository says otherwise: a middleware that throws
a primitive makes the catch clause of `next()` throw a TypeError
(`Pipeline.FailNext`, `HttpServer.PassesThrough`), and `tryListen(port + 1).then(...)` has
no `catch`, so that `dynamicListen` may never settle (`Listen.Stuck`).

## 4. What is proved

All theorems hold for every value of the constants that the modules' assumptions
allow (`ListsAssumption`, `InjectAssumption` and the like), every number of requests
or calls and every bound.  `TypeCorrect` is about the `TypeOK` of each module, which
no run checks by itself.

* `TypeCorrect` (`PipelineProofs`): `Spec => []TypeOK`.  `TypeOK` is not
  inductive: that a frame can be popped, that its caller exists, and that the
  error of a rejected call is an error depends on how calls are stacked.  `IInv`
  adds `Chained`: Startup.invoke is at the bottom and nowhere else, a frame of a
  composed list has its `ComposeMiddleware` further down, an instance that runs
  has an owner, and a frame that creates a middleware has a successor.  There is
  one lemma per action, and lemmas for the four ways the stack changes (`Go`,
  `GoBack`, push, pop).
* `ErrorsAccounted` (`PipelineProofs`), for any lists, instances included.  An
  error is in one place because only the running call of a request carries one,
  and only while it fails (`Carried`); a value that is carried, or not yet thrown,
  is booked nowhere, and any other in one errorStack or as settled, once
  (`Ledger`).  A step throws, moves the error from call to call, or books it; there
  is one lemma for each of the three, and one per action that cites them.  The
  assumption `NoneAssumption` says that the value of a call without an error is
  none.
* `NextSparesCallers`, for any lists and any number of `next()` calls.  `Spared`
  adds to the property that `Startup.invoke` and a `ComposeMiddleware` never wait in
  a next() of their own, and that the head of a list is called by what runs the
  list: an error of user code leaves a next() only there.
* `HooksRunBehind`, without instances (`NoInstances`), for a middleware that calls
  `next()` at most once (`MaxNext <= 1`), and where a composed list stands at one
  place (`ComposedOnce`): then places can be numbered in the order in which a
  request reaches them.  `Behind`: as long as the running call was never reached
  before, all hooks of the request stand ahead of it.  The hypotheses are what the
  property needs: the hooks of a list composed twice come back to its head, and a
  second `next()` runs the middlewares behind with hooks they registered the first
  time.
* `ErrorsStayWithOwner`, `AnswersStay`, `ImplementsRequests`
  (`PipelineProofs`): for lists without an instance (`NoInstances`), an
  error is recorded with the request whose code threw it, nothing touches an
  answered request, and every step is a step of `Requests` or leaves it alone.
  `Own` strengthens `IInv`: the frames of a request carry its context and its
  errors; every action is then `Local`, and the three theorems follow from
  `Local`.  The assumption is needed: `pipeline_shared` is the counterexample
  without it.

* `TypeCorrect`, `ScopesStayApart` (`InjectProofs`).  `IInv` is the shape of the state and
  that whatever a record, a pending `parseInject`, user code or a disposal refers
  to is an object that exists (`Bounded`).  `StepOK` says once for all actions what
  a step of one request may do: nothing to the frames, records and objects of
  another request; its frames and records come to hold what they or it held
  before, a singleton, a given object, or a new one; the heap only grows, and an
  object comes to use only what its own request holds.  `Apart` then follows step
  by step: what a request has made nobody else holds, reaches or shares.  The
  hypothesis `GivenAreSingletons` is needed: `inject(key, object)` that is Scoped
  makes one existing object everybody's own.

* `OneScopedPerRequest` (`InjectProofs`): one scoped object per key and request,
  although a record is looked for before the awaits of the constructor arguments
  and pushed after them.  What saves it is an order: if no cycle goes through a
  constructor argument (`NoArgumentCycle`), keys have ranks (`Layered`), the frames of a
  request descend in rank, strictly above a frame that is creating (`Descending`),
  so nobody above it can push the record it found missing (`Unrecorded`).  Cycles
  of properties are allowed: an object is recorded before they are injected.
  Without the hypothesis the code recurses.

* `ScopedObjectsAreReady` (`InjectProofs`): what user code gets of its request's
  scoped objects is initialized, as long as nothing threw.  `INITIALIZING_EXECUTED`
  is set before the properties are injected, and every later `parseInject` returns
  at once for an object that has it.  `ReadyInv`: an object of a request that has
  the flag is ready, or a pending `parseInject` of the same request works on it
  (`AtWork`); so only that call's children, through a cycle, get it half made.

* `DisposedOnce` (`InjectProofs`).  `LifeInv`: a request that leaves has no
  pending `parseInject`, what it disposes is its own, and its records have objects
  of their own (`Separate`).  `Due` counts: the objects of the inject() calls that
  were unwound have been disposed once, but for those that wait in the queue.
  `DistinctBinds` is needed: two inject() calls for one key both dispose what is
  recorded under it.

* `NothingDisposedWhileUsed` (`InjectProofs`): a request holds and reaches
  its own objects and what the startup keeps, singletons and given objects
  (`KeptInv`), and a step disposes only objects of the request that takes it.
  `SingletonsUseSingletons` is needed: a singleton keeps the scoped object it was
  made with when that object's request has disposed it.  So is `SingletonsStay`: an
  inject() call for a scope disposes what is found under its key, a singleton too
  if another call made the key one.

The hypotheses of the theorems about `Inject` hold together in `inject_graph`.

* `TypeCorrect`, `NothingLeftBehind`, `OneAnswerEach`, `PromiseKept`
  (`MicroTcpProofs`), for any calls, events, number of connections and cuts.  The
  invariant `IInv` says where a message can be: every socket but the present one
  is deaf; a message is on the wire of the socket it was written to, once, and
  neither handled nor answered; a running handler has not answered; data on its
  way comes from a handler.  `PromiseKept` is the refinement of `Calls`: from
  `IInv`, every step settles, makes or handles one call as `Calls` allows, or
  leaves it alone (one lemma `...Maps` per action that does not).

* `TypeCorrect`, `NoWakeupLost`, `EndIsBehindAll`, `PromiseKept`
  (`MicroGrpcProofs`), for any calls, items and breaks.  The invariant `IInv`
  accounts for the items of a stream: the reader's user code, the hand and the
  queue of its loop, the wire, the hand and the queue of the pump hold
  consecutive numbers, without a gap as long as the call lives (`ReadInOrder`,
  `WrittenInOrder`); the end has passed a place only behind the items
  (`EndInOrder`); nothing is behind a pump that has not begun (`Untouched`), and a
  stream that was replaced carries at most one zero (`ReplacedOK`).  What the
  five steps of an iterator do is stated once (`PushFacts`, `EndFacts`,
  `GotoFacts`, `LookFacts`); a step touches one iterator, and `StepKeeps` reduces
  it to the one stream.  `EndMeansAll` alone is not inductive: it depends on
  where the items are.

* `TypeCorrect`, `AnswersHaveListeners`, `PromiseKept` (`MicroBrokerProofs`), for
  any calls, events, servers, number of connections and losses, and each of the
  brokers.  `IInv` adds two parts to the invariants of the run.  `ConnectionOK`:
  no call belongs to a connection that is still to be made, so that closing one
  may end its subscriptions.  `OnceOK`: a packet is not published yet, on its way,
  or handled, one of the three; without it, an answer could come for a call whose
  packet awaits its subscription.  With both, `AnswersAreHeard` is inductive.
  `PromiseKept` is again the refinement of `Calls`.

* `TypeCorrect`, `ResolvedHolds`, `ClosedHolds`, `UnderWayHolds` (`ListenProofs`),
  for any servers, ports, clients and bounds.  `IInv` says of every server
  (`Consistent`): it holds one port at most; the event that is due agrees with
  that; of the tries that listen for "listening" only the latest has not failed,
  and none once the promise settled; a pending `dynamicListen` is under way or
  stuck; a closed server has no listener.  `ResolvedWhereItListens` needs all of
  it: the old tries' listeners hear of the same event.  A step changes one server;
  `Untouched` carries the invariant of the others over.

* `TypeCorrect` (`HttpServerProofs`), for any startups, requests, actions, filters and
  thrown values of `HttpAssumption`.  `TInv` adds to `TypeOK` the place of a request
  (`Place`: items that run are in the chain, filters and the action behind a route
  that was found), that the route in the context is the one the map gives
  (`Routed`), and where the value in flight comes from (`ErrKnown`).
* `ActionsAreGuarded`.  `LetsPass(k)` is what item k asks of a request that goes on
  behind it; `GInv`: every item the request has passed lets it pass, whatever was
  added to the context since, a second `next()` included (`OneToken`: the options of
  a token are set once).  Which filters apply is settled by then, so the list
  `MakeAction` makes has each of them (`Queued`), and `CInv` counts: while the action
  is due, a function ahead of it ran once more than the action (`Due`, `Enough`),
  or oftener when its hook was registered twice.
* `FiltersAreNested`, for any filters, each registered as often as one likes, and any
  orders (numbers, `ItemAssumption`; a filter without one comes last).  The code never
  stores one order and reads it backwards: it selects and sorts anew for every
  function, reversed and with the comparison turned around for the executed ones.
  First, about lists: `Before` is a weak order (`BeforeOrders`); a stable sort gives a
  sorted list that keeps every class of equals (`SortKeeps`, by way of
  `InsertedSorted` and `InsertedSame`); there is one such list (`SortedOnce`); hence the
  filters with both functions come out of the one sort in the reverse order of the
  other (`SortMirrors`, `Mirror`).  Then, about steps: a hook
  that is registered n times runs its list n times (`Times`, defined as the last value
  of a function that exists by `RepeatsExists`), and such a list turned around is the
  list turned around n times (`TimesReversed`).  `ToCome` is what is left of it: the
  queue at work and the rounds that follow (`Rest`, `Rounds`), and a step takes it on
  by one function or leaves it (`RunsToCome`, `RoundsGoOn`).  `AheadInv`: the trail and
  what is to come end with all the rounds ahead of the action, until it runs;
  `BehindInv`: what ran since the action, with what is to come, begins what ran ahead
  of it, turned around.  `FiltersNest` itself follows at each step (`NestSteps`); it is
  not inductive, since it says nothing of what is to come.
* `ErrorIsTold`.  `FInv`: while the last error was told and nobody wrote since, status
  and body of the response are its own; a preflight on its way in was told nothing
  yet (`Untold`), so that what cors answers it covers no error.
* `LengthIsRight`, `SameAnswer`.  `HInv` says of every header of the response who wrote
  it, and that no key is there twice but for letter case; `content-length` is then
  `#setType`'s own, and the three hosts read the same dictionary.
  `NoThrownLength` is needed, since an `HttpException` may be made with any header;
  so is `NoBlankHeader`, since lambda alone sends a header without text.
* `OriginIsSent`.  `OInv`: behind the first item the headers of cors are on the response;
  an error result keeps the headers that are there.  `NoThrownOrigin` and `OneCors`
  are needed: an exception's headers, or a second `useCors`, write over them.
* `BestRoute`.  `MostLike` looks at one segment after the other; that at least one
  candidate is left and none that was dropped is better holds at each of them.  The
  proof is an induction over the segments, made with the well-foundedness of finite
  sets (`StrictSubsetOrdering`), as are the facts about `Only`, `StableSort`,
  `SetHeaders` and `ExecPipes`: these are recursive functions, not RECURSIVE
  operators.
* `ValidArguments`, where nothing follows the action (`ActionLast`).  `PipeInv`: once
  the request has passed the last `useGlobalPipe` of its startup, the last pipe in the
  context is that one's, on a second pass too.  `ArgsInv`: if that is the validator,
  whatever was injected so far is valid, be it injected now or taken from an earlier
  run (`MakeActionArgs`).  The hypothesis is what makes every
  `useGlobalPipe` of the startup one that ran ahead of the action; items behind a
  router run for requests without a route only, and are left out here, since
  `CaseAssumption` does not say that `match` stands ahead of the action it finds.  `ValidatedFacts` is what `ValidatePipe` answers for
  every value.

* `ReferencesResolve`, `NoModelReentered`, `WholeComponents`, `ReachedComponents`
  (`SwaggerDocProofs`), for any applications of `AppAssumption`, whatever refers to
  whatever.  `IInv` has six parts.  `Shape`: schemas, operations and calls have
  their fields, a call fills a schema that is there, and the members it has left are
  the last ones of its class (`MembersLeft`), so that `Done` says how far it is.
  `RefsCovered`: a schema of the document refers to what has a component or is
  awaited (`Covered`).  `Apart`: the calls that fill a component are for different
  classes; a call that begins one finds none there, and what is being filled is
  there.  `FillInv`: a component has what the first `Done` members of its class tell
  (`FilledTo`), all of them when no call fills it; the classes of these members are
  covered.  `ReachInv`: what has a component or is visited lies in every set of classes
  that has the roots and is closed (`Closed`).  `RootInv`: an operation is still to be
  parsed, or what it exchanges is covered but for the records that are left
  (`Exchanges`).  With an empty stack `FillInv` and `RootInv` make the components a
  closed set, and `ReachInv` the least one.  None of the four invariants of the run is
  inductive but for `NoReentry`.  Which classes an operator visits, and which its
  schema refers to, are lemmas of their own (`PropertyFacts`, `ParameterFacts`,
  `RecordParameters`, `BodyRefs`, `ResponseRefs`): that the two agree is what the
  code leaves to each caller.  One lemma per way the document changes
  (`ComponentPut`, `ContentPut`, `OperationAdded`, ...) and one per action.

  `MCHypotheses` of `MCHttpServer` makes TLC check that the instance meets the
  hypotheses of these theorems.

Only model-checked:

* Everything about liveness (`ServesRequests`, `EveryRequestEnds`, `EverySendSettles`,
  `HealthyCallsAnswered`, `StreamsEnd`, `RequestsAnswered`, `CloseEnds`), which the proof
  system does not cover.
* `ErrorsEnd` of `HttpServer`: where every error on the way through a startup ends.

`AnsweredAtMostOnce` and `TimersAreWaiting` of `MicroTcp` and `TasksAreUnanswered` of
`MicroBroker` are proved, as theorems or on the way to one, and checked by no run.

## 5. Plan

Done, in this order: `Pipeline` and `Requests`; `Inject`; `MicroTcp` and `Calls`;
`StreamIterator`, `MicroGrpc` and `ItemStreams`; `MicroBroker`; `Listen`; the proofs of
these; the http family (`HttpResponse`, `Routing`, `Filters`, `Pipes`, `HttpServer`);
`SwaggerDoc`; the proofs of `Inject`, of `HttpServer` and of `SwaggerDoc`.

Left, most valuable first:

1. `connect` and `dispose` of the gRPC client with its cache of services, and
   `listen` and `close` of that server.
2. The making of requests by the transports: what native, lambda and alifc read
   from their events.

### Not modelled

* context bag (`core/src/context`): get, set and builders of one context, by one
  request, without an await between reading and writing; its `errorStack`, its hook
  bag and the bag of injected objects are in `Pipeline` and `Inject`.
* core utilities: predicates without state and helpers for files.
* koa: copies headers, status and body between two libraries' objects.
* mva, view: rendering by a template library; the result they read is made by
  the http modules.
* cookie, env, logger: values set on one request, or files read at startup.
* mongoose, redis, typeorm: connections that their libraries keep, registered
  with `inject`.
* testing: doubles of the startups.
* Of the parts that are modelled, what is left out is named in their sections and
  in `PROJECT.json`.
