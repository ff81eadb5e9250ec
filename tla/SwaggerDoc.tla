----------------------------- MODULE SwaggerDoc -----------------------------
(***************************************************************************)
(* The OpenAPI document of @ipare/swagger.  SwaggerMiddlware serves it; the *)
(* Parser walks the router's map and, through decorators' metadata, the    *)
(* classes the actions exchange.  Classes refer to each other at will, in  *)
(* cycles too: a $ref is written at once and the component behind it is    *)
(* filled by a nested call, which "stack" stands for.                      *)
(*                                                                         *)
(* An app is [routes, actions, classes]: routes in the map's order, each   *)
(* [url, methods, action]; an action [rules, records], its own rules and   *)
(* its pipe records; a record [type, property, key, member, rules], "key"  *)
(* the type of what is decorated and "member" the type of the member that  *)
(* has the name "property"; a class [rules, members], a member [name,      *)
(* type, rules], in the order of their first decorator.  Rules are the     *)
(* validates of the RuleRecords with one key, in order, each [name, args,  *)
(* code, nested]: nested tells Items([T]) from Items(T), code is "default" *)
(* where a Response* decorator has no status.  A segment of a url is       *)
(* [name, caret].  Types are the names of String and its like, and the     *)
(* names of classes, which identify them.                                  *)
(***************************************************************************)
EXTENDS Naturals, Sequences, SequencesExt, Lists

CONSTANTS Apps, Requests

\* What decorators record: lists, with the body a Response is declared with;
\* the rules of a class are grouped by member, so members have names of
\* their own; and no class is what type metadata calls an array or nothing.
IsList(s) == s \in Seq(ToSet(s))
AreRules(rules) ==
  /\ IsList(rules)
  /\ \A v \in ToSet(rules) : IsList(v.args) /\ (v.name = "Response" => v.args # <<>>)
AreRuled(list) == IsList(list) /\ \A x \in ToSet(list) : AreRules(x.rules)
ASSUME AppAssumption ==
  \A a \in Apps :
    /\ IsList(a.routes)
    /\ \A route \in ToSet(a.routes) : IsList(route.methods) /\ route.action \in DOMAIN a.actions
    /\ \A action \in DOMAIN a.actions :
         AreRules(a.actions[action].rules) /\ AreRuled(a.actions[action].records)
    /\ \A class \in DOMAIN a.classes :
         LET members == a.classes[class].members
         IN /\ AreRuled(members)
            /\ \A i, j \in DOMAIN members : members[i].name = members[j].name => i = j
    /\ DOMAIN a.classes \cap {"none", "Array"} = {}

VARIABLES
  app,        \* what the decorators and the router's map say
  request,    \* [path, method, file], "path" relative to options.path
  answer,     \* what has become of the request
  doc,        \* the builder's: [tags, urls, operations, components]
  todo,       \* [url, method, action]: the loops of parsePaths
  current,    \* the operation being parsed: its key and its action
  records,    \* the pipe records of the operation that are left
  stack       \* the models being filled, the innermost first

vars == <<app, request, answer, doc, todo, current, records, stack>>

-----------------------------------------------------------------------------
(* The rules of a target, and what they set on it.                         *)

None == "none"
IsClass(type) == type \in DOMAIN app.classes

GetNamedValidates(rules, name) == Only(rules, {v \in ToSet(rules) : v.name = name})
ExistIgnore(rules) == \E i \in DOMAIN rules : rules[i].name = "Ignore"
ArgsOf(rules, name) ==
  LET validates == GetNamedValidates(rules, name)
  IN FlattenSeq([i \in DOMAIN validates |-> validates[i].args])

\* One row of a table: the decorator, the option it sets and what to.
ValueOf(how, v) ==
  CASE how = "array" -> v.args
    [] how = "value" -> SubSeq(v.args, 1, 1)
    [] OTHER -> <<how>>

\* Row by row, and within a row rule by rule: the last one to set it wins.
DynamicSetValue(options, rules, table) ==
  FoldLeft(LAMBDA opts, row :
             FoldLeft(LAMBDA o, v : With(o, row[2], ValueOf(row[3], v)),
                      opts, GetNamedValidates(rules, row[1])),
           options, table)

\* The rows that set an option no other row sets are like Description.
ActionRows ==
  << <<"Tags", "tags", "array">>, <<"Description", "description", "value">>,
     <<"Deprecated", "deprecated", "value">>, <<"Deprecated", "deprecated", "true">> >>
SchemaRows ==
  << <<"IsNotEmpty", "nullable", "false">>, <<"IsEmpty", "nullable", "true">>,
     <<"IsInt", "type", "integer">>, <<"IsInt", "format", "int32">>,
     <<"IsDate", "format", "date">>, <<"IsNumber", "type", "number">>,
     <<"IsString", "type", "string">>, <<"IsBoolean", "type", "boolean">>,
     <<"IsObject", "type", "object">>, <<"IsEmpty", "type", "null">>,
     <<"Description", "description", "value">>, <<"Min", "mininum", "value">>,
     <<"Required", "nullable", "false">>, <<"IsNotEmpty", "required", "true">>,
     <<"Enum", "enum", "array">>, <<"Format", "format", "value">> >>
ParamRows ==
  << <<"Description", "description", "value">>, <<"Required", "required", "true">>,
     <<"IsNotEmpty", "isNotEmpty", "true">>, <<"IsOptional", "allowEmptyValue", "true">> >>
BodyRows == << <<"Description", "description", "value">>, <<"Required", "required", "true">> >>

ApiType(type) ==
  CASE type = None -> "null"
    [] type \in {"String", "Date"} -> "string"
    [] type = "Number" -> "number"
    [] type = "Boolean" -> "boolean"
    [] type = "Array" -> "array"
    [] OTHER -> "object"

-----------------------------------------------------------------------------
(* Schemas.  "ref" is the class of a $ref; "props" counts when the schema  *)
(* has a properties object; the empty "required" is deleted.               *)

NoItems == [nested |-> FALSE, type |-> None, ref |-> None]
Blank == [ref |-> None, opts |-> <<>>, items |-> NoItems,
          object |-> FALSE, props |-> <<>>, required |-> {}]
Plain(type) == [Blank EXCEPT !.opts = [type |-> <<ApiType(type)>>]]
RefTo(class) == [Blank EXCEPT !.ref = class]
EmptyModel == [Plain("Object") EXCEPT !.object = TRUE]
SetSchemaValue(schema, rules) ==
  [schema EXCEPT !.opts = DynamicSetValue(schema.opts, rules, SchemaRows)]

\* One call of parseArraySchema for each value: the last one is the items.
ParseArraySchema(types, nested) ==
  IF types = <<>> THEN [NoItems EXCEPT !.nested = nested]
  ELSE LET type == Last(types)
       IN [nested |-> nested, type |-> ApiType(type),
           ref |-> IF IsClass(type) THEN type ELSE None]
ItemsOf(rules) ==
  LET items == GetNamedValidates(rules, "Items")
  IN IF items = <<>> THEN NoItems ELSE ParseArraySchema(Last(items).args, Last(items).nested)
ItemClasses(rules) == Only(ArgsOf(rules, "Items"), DOMAIN app.classes)

\* The schema and the classes it makes the parser visit.
ModelProperty(type, rules) ==
  IF type = "Array" THEN [Plain(type) EXCEPT !.items = ItemsOf(rules)]
  ELSE IF IsClass(type) THEN RefTo(type)
  ELSE SetSchemaValue(Plain(type), rules)
ClassesOf(type, rules) ==
  IF type = "Array" THEN ItemClasses(rules)
  ELSE IF IsClass(type) THEN <<type>> ELSE <<>>

NotNull(props) ==
  {p \in DOMAIN props : "nullable" \in DOMAIN props[p].opts /\ props[p].opts["nullable"] = <<"false">>}

-----------------------------------------------------------------------------
(* The stack: calls of setComponentModelSchema not yet begun, and calls of *)
(* setModelSchema, whose schema is a component's or a body's.              *)

Component(class, rules) == [step |-> "component", class |-> class, rules |-> rules]
Components(classes) == [i \in DOMAIN classes |-> Component(classes[i], <<>>)]
ModelOf(class, into) ==
  [step |-> "model", class |-> class, into |-> into, members |-> app.classes[class].members]
NoBody == [opts |-> <<>>, content |-> <<>>]
InComponent == <<>>
InBody(operation, contentType) == <<operation, contentType>>

SchemaAt(class, into) ==
  IF into = InComponent THEN doc.components[class]
  ELSE doc.operations[into[1]].body.content[into[2]]
WithSchema(class, into, schema) ==
  IF into = InComponent
  THEN [doc EXCEPT !.components = With(@, class, schema)]
  ELSE [doc EXCEPT !.operations[into[1]].body.content[into[2]] = schema]

\* "required" is written over, whatever IsNotEmpty set it to.
WithRequired(schema, names) ==
  [schema EXCEPT !.required = names,
                 !.opts = [o \in DOMAIN @ \ {"required"} |-> @[o]]]
\* The rules of the class itself; the properties stay.
BeginModel(class, schema) ==
  WithRequired(SetSchemaValue(schema, app.classes[class].rules), {})

-----------------------------------------------------------------------------
(* Responses, parameters and bodies.                                       *)

ResponseNames == {"ResponseDescription", "ResponseHeaders", "Response"}
OfCode(rules, name, code) ==
  Only(GetNamedValidates(rules, name), {v \in ToSet(rules) : v.code = code})
LastArgs(validates) == IF validates = <<>> THEN <<>> ELSE Last(validates).args
ContentTypes(rules, name) ==
  LET types == ArgsOf(rules, name) IN IF types = <<>> THEN <<"application/json">> ELSE types

\* A value that is neither an array nor a class is the schema, as it stands.
ContentSchema(v) ==
  IF v.nested THEN [Plain("Array") EXCEPT !.items = ParseArraySchema(v.args, FALSE)]
  ELSE IF IsClass(v.args[1]) THEN RefTo(v.args[1]) ELSE Blank
ResponseObject(rules, code) ==
  [description |-> LastArgs(OfCode(rules, "ResponseDescription", code)),
   headers |-> LastArgs(OfCode(rules, "ResponseHeaders", code)),
   content |-> LET bodies == OfCode(rules, "Response", code)
               IN IF bodies = <<>> THEN <<>>
                  ELSE [type \in ToSet(ContentTypes(rules, "ResponseContentTypes"))
                          |-> ContentSchema(Last(bodies))]]
ResponsesOf(rules) ==
  LET codes == {v.code : v \in {rules[i] : i \in {j \in DOMAIN rules : rules[j].name \in ResponseNames}}}
  IN [code \in (IF codes = {} THEN {"default"} ELSE codes) |-> ResponseObject(rules, code)]
\* Every Response is visited, the ones written over too; in which order makes no difference.
ResponseClasses(rules) == Only(ArgsOf(rules, "Response"), DOMAIN app.classes)

DocType(type) == IF type \in {"header", "query"} THEN type ELSE "path"
CreateParameter(property, in, rules, type) ==
  [name |-> property, in |-> DocType(in),
   opts |-> DynamicSetValue([required |-> <<IF in = "param" THEN "true" ELSE "false">>], rules, ParamRows),
   schema |-> IF IsClass(type) THEN RefTo(type)
              ELSE [SetSchemaValue(Plain(type), rules)
                      EXCEPT !.items = IF type = "Array" THEN ItemsOf(rules) ELSE @]]
\* Mutant: the class of a single parameter is not visited.
ItemVisitsOnly(rules, type) ==
  IF type = "Array" THEN Components(ItemClasses(rules)) ELSE <<>>
ParameterVisits(rules, type) ==
  IF IsClass(type) THEN <<Component(type, rules)>>
  ELSE IF type = "Array" THEN Components(ItemClasses(rules)) ELSE <<>>

Told(members) == Only(members, {m \in ToSet(members) : ~ExistIgnore(m.rules)})
\* The parameters of a record, and the components they need.
ParametersOf(r) ==
  IF r.property # None THEN <<CreateParameter(r.property, r.type, r.rules, r.key)>>
  ELSE IF IsClass(r.key)
       THEN LET members == Told(app.classes[r.key].members)
            IN [i \in DOMAIN members |->
                  CreateParameter(members[i].name, r.type, members[i].rules, members[i].type)]
       ELSE <<>>
VisitsOfParam(r) ==
  IF r.property # None THEN ParameterVisits(r.rules, r.key)
  ELSE IF IsClass(r.key)
       THEN LET members == Told(app.classes[r.key].members)
            IN <<Component(r.key, <<>>)>> \o
                 FlattenSeq([i \in DOMAIN members |-> ParameterVisits(members[i].rules, members[i].type)])
       ELSE <<>>

\* parseModelProperty is given the action, and looks for a member "property".
BodySchema(r, old) ==
  IF r.property # None
  THEN LET schema == IF old = Blank THEN Plain("Object") ELSE old
           props == With(schema.props, r.property, ModelProperty(r.member, r.rules))
       IN WithRequired([schema EXCEPT !.object = TRUE, !.props = props], NotNull(props))
  ELSE IF r.key = "Array"
       THEN [SetSchemaValue(Plain("Array"), r.rules) EXCEPT !.items = ItemsOf(r.rules)]
  ELSE LET new == IF IsClass(r.key) THEN EmptyModel ELSE Plain(r.key)
       IN SetSchemaValue(IF old = Blank THEN new ELSE old, r.rules)
\* Mutant: the body's schema is filled in place, its component forgotten.
VisitsOfBodyInline(r, into) ==
  IF r.property # None THEN Components(ClassesOf(r.member, r.rules))
  ELSE IF IsClass(r.key) THEN <<[step |-> "body", class |-> r.key, into |-> into]>>
  ELSE Components(ClassesOf(r.key, r.rules))
VisitsOfBody(r, into) ==
  IF r.property # None THEN Components(ClassesOf(r.member, r.rules))
  ELSE IF IsClass(r.key)
       THEN <<Component(r.key, r.rules), [step |-> "body", class |-> r.key, into |-> into]>>
       ELSE Components(ClassesOf(r.key, r.rules))

-----------------------------------------------------------------------------
(* What the parser starts from.                                            *)

RouteIgnored(route) == ExistIgnore(app.actions[route.action].rules)
TagsOf ==
  FoldLeft(LAMBDA tags, route :
             IF RouteIgnored(route) THEN tags
             ELSE FoldLeft(LAMBDA ts, tag : IF Contains(ts, tag) THEN ts ELSE Append(ts, tag),
                           tags, ArgsOf(app.actions[route.action].rules, "Tags")),
           <<>>, app.routes)

\* The items of a url stay together, where the first of them was.
OpensUrl(i) == \A j \in 1 .. i - 1 : app.routes[j].url # app.routes[i].url
Operations(route) ==
  [i \in DOMAIN route.methods |->
     [url |-> route.url, method |-> route.methods[i], action |-> route.action]]
OperationsAt(url) ==
  FlattenSeq([i \in DOMAIN app.routes |->
                IF app.routes[i].url = url THEN Operations(app.routes[i]) ELSE <<>>])
AllOperations ==
  FlattenSeq([i \in DOMAIN app.routes |->
                IF OpensUrl(i) THEN OperationsAt(app.routes[i].url) ELSE <<>>])

\* The pattern has no "g": the first ^segment alone is put into braces.
DocUrl(url) ==
  [i \in DOMAIN url |->
     [name |-> url[i].name,
      how |-> IF ~url[i].caret THEN "text"
              ELSE IF \E j \in 1..i-1 : url[j].caret THEN "caret" ELSE "braced"]]
KeyOf(operation) == <<DocUrl(operation.url), operation.method>>

-----------------------------------------------------------------------------
(* The middleware.                                                         *)

NewDoc == [tags |-> <<>>, urls |-> {}, operations |-> <<>>, components |-> <<>>]
Idle == [key |-> <<>>, action |-> None]

Init ==
  /\ app \in Apps
  /\ request \in Requests
  /\ answer = None
  /\ doc = NewDoc
  /\ todo = <<>> /\ current = Idle /\ records = <<>> /\ stack = <<>>

Parsing == answer = "parsing"
Unparsed == UNCHANGED <<app, request, doc, todo, current, records, stack>>

\* Not below options.path, or no GET: the next middleware answers.
PassOn ==
  /\ answer = None
  /\ request.path = "outside" \/ request.method # "GET"
  /\ answer' = "passed"
  /\ Unparsed
Redirect ==
  /\ answer = None
  /\ request = [path |-> "itself", method |-> "GET"]
  /\ answer' = "redirected"
  /\ Unparsed
Initializer ==
  /\ answer = None
  /\ request = [path |-> "swagger-initializer.js", method |-> "GET"]
  /\ answer' = "script"
  /\ Unparsed
\* The static middleware behind it answers; a stream is read into a text, or
\* breaks, which rejects invoke().
ReplaceBody ==
  /\ answer = None
  /\ request.method = "GET"
  /\ \/ request.path = "index.html" /\ answer' \in {"rewritten", "failed"}
     \/ request.path = "asset" /\ answer' \in {"text", "failed"}
     \/ request.path = "missing" /\ answer' = "passed"
  /\ Unparsed
\* A url is in the document whether or not its routes name a method.
Parse ==
  /\ answer = None
  /\ request = [path |-> "index.json", method |-> "GET"]
  /\ answer' = "parsing"
  /\ doc' = [NewDoc EXCEPT !.tags = TagsOf, !.urls = {DocUrl(route.url) : route \in ToSet(app.routes)}]
  /\ todo' = AllOperations
  /\ UNCHANGED <<app, request, current, records, stack>>

-----------------------------------------------------------------------------
(* The parser.                                                             *)

ParseUrlMethodItem ==
  /\ Parsing /\ stack = <<>> /\ records = <<>> /\ todo # <<>>
  /\ LET operation == Head(todo)
         action == app.actions[operation.action]
     IN IF ExistIgnore(action.rules)
        THEN UNCHANGED <<doc, current, records, stack>>
        ELSE /\ doc' = [doc EXCEPT !.operations =
                          With(@, KeyOf(operation),
                               [opts |-> DynamicSetValue(<<>>, action.rules, ActionRows),
                                responses |-> ResponsesOf(action.rules), params |-> <<>>, body |-> NoBody])]
             /\ current' = [key |-> KeyOf(operation), action |-> operation.action]
             /\ records' = action.records
             /\ stack' = Components(ResponseClasses(action.rules))
  /\ todo' = Tail(todo)
  /\ UNCHANGED <<app, request, answer>>

NextRecord == Parsing /\ stack = <<>> /\ records # <<>> /\ records' = Tail(records)

ParseParam ==
  /\ NextRecord
  /\ LET r == Head(records)
     IN /\ r.type # "body"
        /\ IF ExistIgnore(r.rules) THEN UNCHANGED <<doc, stack>>
           ELSE /\ doc' = [doc EXCEPT !.operations[current.key].params = @ \o ParametersOf(r)]
                /\ stack' = VisitsOfParam(r)
  /\ UNCHANGED <<app, request, answer, todo, current>>

ParseBody ==
  /\ NextRecord
  /\ LET r == Head(records)
         body == doc.operations[current.key].body
         types == ContentTypes(app.actions[current.action].rules, "ContentTypes")
         old(type) == IF type \in DOMAIN body.content THEN body.content[type] ELSE Blank
         content == [type \in ToSet(types) \cup DOMAIN body.content |->
                       IF type \in ToSet(types) THEN BodySchema(r, old(type)) ELSE body.content[type]]
     IN /\ r.type = "body"
        /\ IF ExistIgnore(r.rules) THEN UNCHANGED <<doc, stack>>
           ELSE /\ doc' = [doc EXCEPT !.operations[current.key].body =
                             [opts |-> DynamicSetValue(body.opts, r.rules, BodyRows), content |-> content]]
                /\ stack' = FlattenSeq([i \in DOMAIN types |-> VisitsOfBody(r, InBody(current.key, types[i]))])
  /\ UNCHANGED <<app, request, answer, todo, current>>

Unfilled == UNCHANGED <<app, request, answer, todo, current, records>>
Top == Head(stack)

\* Mutant: setComponentModelSchema does not look for the component first.
SetComponentAnew ==
  /\ Parsing /\ stack # <<>> /\ Top.step = "component"
  /\ doc' = WithSchema(Top.class, InComponent,
                      BeginModel(Top.class, SetSchemaValue(EmptyModel, Top.rules)))
  /\ stack' = <<ModelOf(Top.class, InComponent)>> \o Tail(stack)
  /\ Unfilled

\* setComponentModelSchema: the component is there before it is filled.
SetComponent ==
  /\ Parsing /\ stack # <<>> /\ Top.step = "component"
  /\ IF Top.class \in DOMAIN doc.components
     THEN stack' = Tail(stack) /\ UNCHANGED doc
     ELSE /\ doc' = WithSchema(Top.class, InComponent,
                      BeginModel(Top.class, SetSchemaValue(EmptyModel, Top.rules)))
          /\ stack' = <<ModelOf(Top.class, InComponent)>> \o Tail(stack)
  /\ Unfilled

SetBodyModel ==
  /\ Parsing /\ stack # <<>> /\ Top.step = "body"
  /\ doc' = WithSchema(Top.class, Top.into, BeginModel(Top.class, SchemaAt(Top.class, Top.into)))
  /\ stack' = <<ModelOf(Top.class, Top.into)>> \o Tail(stack)
  /\ Unfilled

\* Mutant: an ignored member ends the loop, a "break" for the "continue".
SetMemberBreaks ==
  /\ Parsing /\ stack # <<>> /\ Top.step = "model" /\ Top.members # <<>>
  /\ LET m == Head(Top.members)
         schema == SchemaAt(Top.class, Top.into)
         prop == ModelProperty(m.type, m.rules)
         rest(members) == <<[Top EXCEPT !.members = members]>> \o Tail(stack)
     IN IF ExistIgnore(m.rules)
        THEN stack' = rest(<<>>) /\ UNCHANGED <<doc, answer>>
        ELSE IF ~schema.object
        THEN answer' = "failed" /\ UNCHANGED <<doc, stack>>
        ELSE /\ doc' = WithSchema(Top.class, Top.into,
                         [schema EXCEPT !.props = With(@, m.name, prop),
                                        !.required = @ \cup NotNull([name \in {m.name} |-> prop])])
             /\ stack' = Components(ClassesOf(m.type, m.rules)) \o rest(Tail(Top.members))
             /\ UNCHANGED answer
  /\ UNCHANGED <<app, request, todo, current, records>>

\* One turn of the loop over the members; a class is visited within it.
SetMember ==
  /\ Parsing /\ stack # <<>> /\ Top.step = "model" /\ Top.members # <<>>
  /\ LET m == Head(Top.members)
         schema == SchemaAt(Top.class, Top.into)
         prop == ModelProperty(m.type, m.rules)
         rest == <<[Top EXCEPT !.members = Tail(@)]>> \o Tail(stack)
     IN IF ExistIgnore(m.rules)
        THEN stack' = rest /\ UNCHANGED <<doc, answer>>
        ELSE IF ~schema.object    \* there is no properties object to write to
        THEN answer' = "failed" /\ UNCHANGED <<doc, stack>>
        ELSE /\ doc' = WithSchema(Top.class, Top.into,
                         [schema EXCEPT !.props = With(@, m.name, prop),
                                        !.required = @ \cup NotNull([name \in {m.name} |-> prop])])
             /\ stack' = Components(ClassesOf(m.type, m.rules)) \o rest
             /\ UNCHANGED answer
  /\ UNCHANGED <<app, request, todo, current, records>>

EndModel ==
  /\ Parsing /\ stack # <<>> /\ Top.step = "model" /\ Top.members = <<>>
  /\ stack' = Tail(stack)
  /\ UNCHANGED doc /\ Unfilled

GetSpec ==
  /\ Parsing /\ stack = <<>> /\ records = <<>> /\ todo = <<>>
  /\ answer' = "document"
  /\ Unparsed

Next ==
  \/ PassOn \/ Redirect \/ Initializer \/ ReplaceBody \/ Parse
  \/ ParseUrlMethodItem \/ ParseParam \/ ParseBody
  \/ SetComponent \/ SetBodyModel \/ SetMember \/ EndModel \/ GetSpec

Spec == Init /\ [][Next]_vars

-----------------------------------------------------------------------------
(* Properties.                                                             *)

RefsIn(schema) ==
  ({schema.ref, schema.items.ref}
     \cup {schema.props[p].ref : p \in DOMAIN schema.props}
     \cup {schema.props[p].items.ref : p \in DOMAIN schema.props}) \ {None}
SchemasOf(operation) ==
  {operation.params[i].schema : i \in DOMAIN operation.params}
    \cup {operation.body.content[type] : type \in DOMAIN operation.body.content}
    \cup UNION {LET content == operation.responses[code].content
                IN {content[type] : type \in DOMAIN content} : code \in DOMAIN operation.responses}
RefsOf(d) ==
  (UNION {RefsIn(d.components[class]) : class \in DOMAIN d.components})
    \cup UNION {UNION {RefsIn(schema) : schema \in SchemasOf(d.operations[key])} : key \in DOMAIN d.operations}
Awaited == {stack[i].class : i \in {j \in DOMAIN stack : stack[j].step = "component"}}
BeingFilled == {i \in DOMAIN stack : stack[i].step = "model" /\ stack[i].into = InComponent}

\* Every $ref names a component that is there, or that a call under way is
\* about to add: none is left dangling when the document is sent.  The
\* places that write a $ref and the ones that visit its class are apart.
RefsResolve == RefsOf(doc) \subseteq DOMAIN doc.components \cup Awaited

\* Classes may refer to each other in a cycle: no component is begun while
\* it is being filled, which is what makes the nested calls come to an end.
NoReentry ==
  \A i, j \in BeingFilled : stack[i].class = stack[j].class => i = j

\* A component that is not being filled is whole, whoever referred to its
\* class first and wherever in a cycle that was: it has every member that is
\* decorated and not ignored, and "required" names the ones that cannot be null.
ComponentsAreWhole ==
  \A class \in DOMAIN doc.components \ {stack[i].class : i \in BeingFilled} :
    LET schema == doc.components[class]
    IN /\ DOMAIN schema.props = {m.name : m \in ToSet(Told(app.classes[class].members))}
       /\ schema.required = NotNull(schema.props)

\* The components of a document are the classes one gets to from what its
\* operations exchange by members that are not ignored, and no others: an
\* ignored action, body or member brings none in, nor does an action that
\* names no method, for which there is no operation.
TypesToldBy(type, rules) == ToSet(ClassesOf(type, rules))
Successors(class) ==
  UNION {TypesToldBy(m.type, m.rules) : m \in ToSet(Told(app.classes[class].members))}
Exchanged(r) ==
  TypesToldBy(IF r.type = "body" /\ r.property # None THEN r.member
              ELSE IF r.type # "body" /\ r.property = None /\ r.key = "Array" THEN None
              ELSE r.key, r.rules)
RootsOf(action) ==
  ToSet(ResponseClasses(action.rules))
    \cup UNION {Exchanged(r) : r \in {s \in ToSet(action.records) : ~ExistIgnore(s.rules)}}
HasOperations(route) == ~RouteIgnored(route) /\ route.methods # <<>>
Roots == UNION {RootsOf(app.actions[route.action]) : route \in {r \in ToSet(app.routes) : HasOperations(r)}}
Closed(classes) == Roots \subseteq classes /\ \A class \in classes : Successors(class) \subseteq classes
ComponentsAreReached ==
  answer = "document" =>
    /\ Closed(DOMAIN doc.components)
    /\ \A classes \in SUBSET DOMAIN doc.components : Closed(classes) => classes = DOMAIN doc.components
=============================================================================
