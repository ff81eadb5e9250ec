---------------------------- MODULE MCSwaggerDoc ----------------------------
(***************************************************************************)
(* Small applications for SwaggerDoc: three classes that may refer to each *)
(* other, and themselves, in any way, and two actions that exchange them.  *)
(***************************************************************************)
EXTENDS SwaggerDoc

V(name, args) == [name |-> name, args |-> args, code |-> "default", nested |-> FALSE]
Ignore == V("Ignore", <<>>)
Required == V("Required", <<>>)
Described == V("Description", <<"text">>)
Items(types, nested) == [V("Items", types) EXCEPT !.nested = nested]
Response(code, type, nested) == [V("Response", <<type>>) EXCEPT !.code = code, !.nested = nested]

Member(name, type, rules) == [name |-> name, type |-> type, rules |-> rules]
Class(rules, members) == [rules |-> rules, members |-> members]

\* What a class may refer to: itself or the next ones, one by one and in lists.
ModelsOfA ==
  { Class(<<Described>>, <<Member("name", "String", <<Required>>), Member("b", "B", <<Described>>)>>),
    Class(<<>>, <<Member("a", "A", <<V("IsOptional", <<>>)>>),
                  Member("bs", "Array", <<Items(<<"B">>, FALSE)>>)>>),
    Class(<<>>, <<Member("hidden", "B", <<Ignore>>), Member("n", "Number", <<V("IsInt", <<>>)>>)>>),
    Class(<<>>, <<Member("rows", "Array", <<Items(<<"String", "B">>, TRUE)>>)>>) }
ModelsOfB ==
  { Class(<<>>, <<Member("a", "A", <<Described>>), Member("c", "C", <<Described>>)>>),
    Class(<<>>, <<Member("flag", "Boolean", <<V("IsNotEmpty", <<>>), V("IsEmpty", <<>>)>>)>>),
    Class(<<>>, <<>>) }
ModelsOfC ==
  { Class(<<>>, <<Member("as", "Array", <<Items(<<"A">>, FALSE), Items(<<"String">>, FALSE)>>)>>),
    Class(<<>>, <<Member("c", "C", <<Required>>)>>) }

Record(type, property, key, member, rules) ==
  [type |-> type, property |-> property, key |-> key, member |-> member, rules |-> rules]

Segment(name, caret) == [name |-> name, caret |-> caret]
Url == <<Segment("user", FALSE), Segment("id", TRUE), Segment("of", TRUE)>>
Other == <<Segment("user", FALSE)>>

\* The second action is the same in all of them.
Second ==
  [rules |-> <<V("Tags", <<"two">>)>>,
   records |-> <<Record("body", None, "A", None, <<Required>>)>>]
First ==
  { [rules |-> <<V("Tags", <<"one", "two">>), Response("200", "B", FALSE), Response("default", "C", TRUE),
                 V("ResponseDescription", <<"all">>)>>, records |-> <<>>],
    [rules |-> <<V("Tags", <<"one">>), V("Tags", <<"three">>), V("ContentTypes", <<"json", "form">>)>>,
     records |-> <<Record("body", "part", "B", "B", <<Required>>),
                   Record("body", None, "A", None, <<V("IsNotEmpty", <<>>)>>)>>],
    [rules |-> <<V("ContentTypes", <<"json">>)>>,
     records |-> <<Record("body", None, "Array", None, <<Items(<<"C">>, FALSE)>>),
                   Record("body", None, "B", None, <<>>)>>],
    [rules |-> <<>>,
     records |-> <<Record("param", "id", "String", None, <<V("IsNotEmpty", <<>>)>>),
                   Record("query", None, "B", None, <<>>),
                   Record("header", "h", "A", None, <<Described>>),
                   Record("query", None, "String", None, <<>>)>>],
    [rules |-> <<>>,
     records |-> <<Record("query", None, "A", None, <<Ignore>>),
                   Record("body", "b", "C", None, <<>>),
                   Record("header", "hs", "Array", None, <<Items(<<"C">>, TRUE)>>),
                   Record("body", "n", "Number", "Number", <<Ignore>>)>>],
    [rules |-> <<Ignore, V("Tags", <<"gone">>), Response("200", "C", FALSE)>>,
     records |-> <<Record("body", None, "C", None, <<>>)>>] }

Route(url, methods, action) == [url |-> url, methods |-> methods, action |-> action]
Maps ==
  { <<Route(Url, <<"get", "post">>, "First"), Route(Other, <<"post">>, "Second")>>,
    <<Route(Other, <<"post">>, "Second"), Route(Url, <<"get">>, "First"),
      Route(Other, <<"get">>, "First")>>,
    <<Route(Url, <<"get">>, "First"), Route(Other, <<>>, "Second")>> }

MCApps ==
  { [routes |-> map, actions |-> [First |-> first, Second |-> Second],
     classes |-> [A |-> a, B |-> b, C |-> c]] :
    map \in Maps, first \in First, a \in ModelsOfA, b \in ModelsOfB, c \in ModelsOfC }

MCRequests ==
  [path : {"index.json"}, method : {"GET"}]
    \cup [path : {"outside", "itself", "swagger-initializer.js", "index.html", "asset", "missing"},
          method : {"GET"}]
    \cup [path : {"index.json"}, method : {"POST"}]
=============================================================================
