---------------------------- MODULE MCHttpServer ----------------------------
(* Startups of a few middlewares and the requests they serve. *)
EXTENDS HttpServer

\* ---- requests
Token(prefix, key) == [prefix |-> prefix, key |-> key]
Get(path) ==
  [path |-> path, method |-> "GET", override |-> "-", origin |-> <<"o1">>, acrm |-> TRUE,
   type |-> "none", payload |-> Nothing, token |-> Token("Bearer", "k1"), query |-> << >>]
A == <<<<"a">>>>
Asking(path, methods) == {[Get(path) EXCEPT !.method = m] : m \in methods}
Pairs(chains, reqs) == {[chain |-> c, req |-> r] : c \in chains, r \in reqs}

\* ---- items
Plain(kind) == [kind |-> kind]
Global(f) == [kind |-> "global", filter |-> f]
Order(f, n) == [kind |-> "order", filter |-> f, order |-> n]
App(before, after) == [kind |-> "use", before |-> before, after |-> after]
CorsOf(origin) == [kind |-> "cors", origin |-> origin, expose |-> <<"x">>]
Verify == [kind |-> "verify", skip |-> FALSE, onError |-> FALSE]
Jwt(provider, secret) ==
  [kind |-> "jwt", options |-> [provider |-> provider, secret |-> secret, publicKey |-> "k3",
                                prefix |-> "Bearer"]]
GlobalPipe(name, type) ==
  [kind |-> "pipe", pipe |-> [pipe |-> name, default |-> Nothing, type |-> type]]
Router(map, prefix) ==
  <<[kind |-> "match", map |-> map, prefix |-> prefix, custom |-> {"PURGE"}],
    Plain("params"), Plain("action")>>
One(class) ==
  Router(<<[url |-> A, methods |-> {"GET", "POST"}, action |-> class]>>, NoPath)

\* ---- the filters
MCHas ==
  [guard |-> {"onAuthorization", "onResourceExecuting", "onResourceExecuted", "onActionExecuted"},
   audit |-> {"onActionExecuting", "onActionExecuted", "onResourceExecuting",
              "onResourceExecuted", "onException"},
   catch |-> {"onActionExecuting", "onActionExecuted", "onException"}]
MCBehaves == [guard |-> {"pass", "refuse"}, audit |-> {"pass", "throw"},
              catch |-> {"pass", "refuse"}]
MCThrows ==
  {HttpException(403, << >>),
   HttpException(401, <<[key |-> <<"www", "WWW">>, value |-> <<"basic">>]>>),
   OtherError("error"), OtherError("primitive"),
   [HttpException(403, << >>) EXCEPT !.through = TRUE]}

\* ---- the actions
Ok(body) == [call |-> "ok", body |-> body]
Page == Body("string", "text")
Class0 == [used |-> << >>, inputs |-> << >>, built |-> "constructor", does |-> {Ok(Page)}]
Input(type, property, pipes, rules) ==
  [type |-> type, property |-> property, pipes |-> pipes, rules |-> rules,
   defaults |-> << >>, model |-> << >>, disabled |-> FALSE]
PipeOf(name) == [pipe |-> name, default |-> Number("12")]
Model == [Input("body", "", << >>, << >>) EXCEPT
            !.defaults = [s |-> Text("y")],
            !.model = [n |-> <<{"IsNumber"}>>, s |-> <<{"Required"}, {"IsString"}>>]]
Taking(inputs, built) == [Class0 EXCEPT !.inputs = inputs, !.built = built, !.used = <<"catch">>]
IntInput == Input("query", "q", <<PipeOf("int")>>, <<{"IsNumber"}>>)

MCActions ==
  [plain |-> Class0,
   filtered |-> [Class0 EXCEPT !.used = <<"audit", "catch">>,
      !.does = {Ok(Page), [call |-> "throw", body |-> Undefined],
                [call |-> "badRequest", body |-> Body("object", "mine")]}],
   failing |-> [Class0 EXCEPT !.used = <<"guard">>, !.does = {[call |-> "throw", body |-> Undefined]}],
   twice |-> [Class0 EXCEPT !.used = <<"audit", "catch">>],
   bodies |-> [Class0 EXCEPT !.does =
      {Ok(b) : b \in {Undefined, Page, Body("string", "markup"), Body("string", ""),
                      Body("zero", "0"), Body("number", "5"), Body("object", "o"),
                      Body("buffer", "b"), Body("stream", "whole"), Body("stream", "broken")}}
      \cup {[call |-> c, body |-> Page] : c \in {"created", "noContent", "redirect", "gone"}}],
   int     |-> Taking(<<IntInput>>, "constructor"),
   intProp |-> Taking(<<IntInput>>, "property"),
   float   |-> Taking(<<Input("query", "q", <<PipeOf("trim"), PipeOf("float")>>, << >>)>>, "property"),
   bool    |-> Taking(<<Input("query", "q", <<PipeOf("bool")>>, <<{"Required"}>>)>>, "constructor"),
   default |-> Taking(<<Input("query", "q", <<PipeOf("default")>>, <<{"IsNumber"}>>)>>, "constructor"),
   word    |-> Taking(<<Input("query", "q", <<PipeOf("trim")>>, <<{"Required"}>>)>>, "property"),
   text    |-> Taking(<<Input("query", "q", << >>, <<{"IsString"}, {"registered"}>>)>>, "constructor"),
   model   |-> Taking(<<Model>>, "constructor"),
   free    |-> Taking(<<[Model EXCEPT !.disabled = TRUE]>>, "property")]

\* ---- filters around an action, of the startup and of the class
FilterCases ==
  Pairs({<<Plain("filters"), Global("guard")>> \o One("filtered"),
         <<Plain("filters")>> \o One("failing"),
         <<Plain("filters"), Global("guard"), Order("audit", 1), Order("guard", 3),
           Order("guard", 2), Global("catch")>> \o One("filtered"),
         <<CorsOf("rejects"), Plain("filters")>> \o One("twice"),
         <<Plain("filters"), CorsOf("rejects")>> \o One("twice")},
        {Get(A)})

\* ---- errors on the way in and out, through useJwtVerify or not
ErrorCases ==
  Pairs({<<App({"none", "throw", "ok", "stop"}, {"none", "throw"}), Jwt("-", "k1"), Verify,
           [kind |-> "access", granted |-> g], Plain("filters")>> \o One("filtered")
           : g \in BOOLEAN}
        \cup {<<App({"none"}, {"none", "throw", "drop"}), [Verify EXCEPT !.skip = TRUE]>>
              \o One("plain")},
        {Get(A), [Get(A) EXCEPT !.token = Token("Bearer", "k2")]})
  \cup Pairs({j \o <<Verify>> \o One("plain") :
                j \in {<< >>, <<Jwt("-", "-")>>, <<Jwt("-", "k1")>>, <<Jwt("k2", "k1")>>}}
             \cup {<<Jwt("-", "k1"), [Verify EXCEPT !.onError = TRUE]>> \o One("plain")},
             {[Get(A) EXCEPT !.token = Token(p, k)] :
                p \in {"-", "Bearer", "Basic"}, k \in {"-", "k1", "k2", "k3"}})
  \cup Pairs({<<App({"none", "length", "blank"}, {"none", "drop"})>> \o One("bodies")}, {Get(A)})
  \cup Pairs({<< >>}, {Get(A)})

\* ---- origins
CorsCases ==
  Pairs({<<CorsOf(o), App({"none", "throw"}, {"none"})>> \o One("plain")
           : o \in {"*", "reflect", "rejects"}},
        {[r EXCEPT !.acrm = a, !.origin = o] :
           r \in Asking(A, {"GET", "PUT", "OPTIONS"}) \cup {[Get(A) EXCEPT !.override = "OPTIONS"]},
           a \in BOOLEAN, o \in {<<"o1">>, << >>}})

\* ---- files and bodies
StaticOf(prefix, index, f404, u405) ==
  [kind |-> "static", prefix |-> prefix, index |-> index, encoded |-> FALSE,
   files |-> {A, A \o <<<<"index">>>>, <<<<"d">>, <<"index">>>>}, file404 |-> f404, use405 |-> u405]
StaticCases ==
  Pairs({<<CorsOf("*"), App({"none"}, {"none", "drop"}), StaticOf(p, i, f, u)>>
           : p \in {NoPath, <<<<"s">>>>}, i \in BOOLEAN, f \in BOOLEAN, u \in BOOLEAN},
        UNION {Asking(p, {"GET", "HEAD", "POST"}) :
                 p \in {NoPath, A, <<<<"d">>>>, <<<<"s">>, <<"a">>>>, <<<<"s">>, <<"d">>>>}})
  \cup Pairs({<<[StaticOf(NoPath, FALSE, TRUE, FALSE) EXCEPT !.encoded = TRUE]>>},
             {Get(A), Get(NoPath)})
  \cup Pairs({<<[kind |-> "file", path |-> A, exists |-> e, encoded |-> d, use405 |-> u]>>
               : e \in BOOLEAN, d \in BOOLEAN, u \in BOOLEAN},
             Asking(A, {"GET", "HEAD", "POST"}) \cup {Get(NoPath)})
BodyCases ==
  Pairs({<<[kind |-> "body", type |-> t, onError |-> e]>> \o One("plain")
           : t \in {"json", "multipart"}, e \in BOOLEAN},
        {[Get(A) EXCEPT !.type = t, !.payload = p] :
           t \in {"json", "multipart"}, p \in {Text("x"), [t |-> "bad", v |-> "-"]}})

\* ---- a second next(): the stream is read, the token defined, and what was
\* injected stays
AgainCases ==
  Pairs({<<CorsOf("rejects"), i>> \o One("plain") :
           i \in {[kind |-> "body", type |-> t, onError |-> e] :
                    t \in {"json", "multipart"}, e \in BOOLEAN} \cup {Jwt("-", "k1")}}
        \cup {<<CorsOf("rejects"), Plain("filters"), GlobalPipe("validate", "after")>> \o One(c) :
                 c \in {"int", "intProp"}},
        {[Get(A) EXCEPT !.type = t, !.payload = Text("x"), !.query = [q |-> Text(v)]] :
           t \in {"json", "multipart"}, v \in {"12", "x"}})

\* ---- routes
File(folder, name, methods) == [folder |-> folder, name |-> name, methods |-> methods]
FileAction(file, decorated) ==
  [file |-> file, name |-> "default", decorated |-> decorated, patterns |-> << >>, class |-> "plain"]
Url1(kind, path) == [kind |-> kind, path |-> path]
Id == <<"^", "id">>
Sub == <<"^", "sub">>
Map == RouterMap(
  <<FileAction(File(<< >>, <<"_">>, {}), << >>),
    FileAction(File(<< >>, <<"todo">>, {}),
      <<[method |-> "GET", url |-> Url1("none", NoPath)],
        [method |-> "PUT", url |-> Url1("relative", <<Id>>)],
        [method |-> AnyMethod, url |-> Url1("relative", <<Id>>)],
        [method |-> "PURGE", url |-> Url1("absolute", <<Id, <<"list">>>>)]>>),
    [FileAction(File(<<<<"todo">>>>, <<"list">>, {"GET"}), << >>) EXCEPT
       !.patterns = <<Url1("absolute", <<<<"todo">>, Sub>>)>>],
    FileAction(File(<<<<"todo">>>>, Id, {"GET", "HEAD"}), << >>),
    FileAction(File(<<Id>>, Id, {"GET"}), << >>),
    [FileAction(File(<<<<"todo">>, Id>>, Sub, {}), << >>) EXCEPT !.name = "list"],
    FileAction(File(<<<<"todo">>, Id>>, <<"list">>, {"POST"}), << >>),
    FileAction(File(<<<<"todo">>, <<"x">>>>, Id, {"GET"}), << >>)>>)
Seg == {<<"todo">>, <<"list">>, <<"x">>, <<"7", "%20">>}
Paths == {NoPath} \cup [1 .. 1 -> Seg] \cup [1 .. 2 -> Seg]
         \cup {<<<<"todo">>, <<"x">>, s>> : s \in Seg \cup {<<"%zz">>}}
         \cup {<<<<"todo">>, s, <<"y">>, <<"list">>>> : s \in Seg}
RouteCases ==
  Pairs({<<Plain("filters")>> \o Router(Map, NoPath)},
        UNION {Asking(p, {"GET", "PUT", "POST", "PURGE", "BREW"}) : p \in Paths})
  \cup Pairs({Router(Map, <<<<"p">>>>)},
        {Get(p) : p \in {<<<<"p">>>>, <<<<"p">>, <<"todo">>>>, <<<<"p">>, <<"list">>>>,
                         <<<<"p", "todo">>, <<"list">>>>, <<<<"todo">>, <<"x">>, <<"list">>>>}})

\* ---- arguments
Queries == {<< >>} \cup {[q |-> Text(v)] : v \in {"12", "1.5", "x", "", " a ", " ", "0", "t"}}
PipeCases ==
  Pairs({p \o <<GlobalPipe("validate", "after"), Plain("filters")>> \o One(c) :
           p \in {<< >>, <<GlobalPipe("trim", "before")>>},
           c \in {"int", "intProp", "float", "bool", "default", "word", "text"}}
        \cup {<<GlobalPipe("validate", "before"), Plain("inject")>> \o One(c) : c \in {"int", "default"}},
        {[Get(A) EXCEPT !.query = q] : q \in Queries})
  \cup Pairs({<<[kind |-> "body", type |-> "json", onError |-> FALSE],
               GlobalPipe("validate", "after"), f>> \o One(c) :
                 f \in {Plain("filters"), Plain("inject")}, c \in {"model", "free"}},
        {[Get(A) EXCEPT !.type = "json", !.payload = p] :
           p \in {Nothing, Null, Text("x"), Object([n |-> Number("1"), s |-> Text("x")]),
                  Object([n |-> Text("1"), s |-> Text("x")]), Object([n |-> Number("1")])}})

MCCases == FilterCases \cup ErrorCases \cup CorsCases \cup StaticCases \cup BodyCases
           \cup AgainCases \cup RouteCases \cup PipeCases

\* The instance meets what the theorems about it ask.
ASSUME MCHypotheses == NoThrownLength /\ NoThrownOrigin /\ NoBlankHeader /\ OneCors /\ ActionLast
=============================================================================
