------------------------------- MODULE Routing -------------------------------
(***************************************************************************)
(* The router of @ipare/router: the map made of the action files, and the  *)
(* route, the answer or the parameters a request gets.                     *)
(*                                                                         *)
(* A path is a sequence of segments, a segment a sequence of atoms; the    *)
(* empty path is <<<<>>>>, as "".split("/") is.  A placeholder begins with *)
(* the atom "^".  Atoms stand for text up to case, which matching ignores. *)
(***************************************************************************)
EXTENDS Naturals, SequencesExt, Lists

AnyMethod == "ANY"
KnownMethods == {AnyMethod, "GET", "POST", "PUT", "DELETE", "PATCH", "HEAD", "OPTIONS", "TRACE",
                 "CONNECT", "MOVE", "COPY", "LINK", "UNLINK", "WRAPPED"}
\* HttpMethods.matched: a method nobody knows must be a custom one.
Matched(method, custom) == IF method \in KnownMethods \cup custom THEN {method} ELSE {}

NoPath == <<<<>>>>
IsPlaceholder(seg) == seg # <<>> /\ seg[1] = "^"
HasCaret(seg) == Contains(seg, "^")

-----------------------------------------------------------------------------
(***************************************************************************)
(* MapItem.  A file is [folder, name, methods]: the folders it is in, its  *)
(* name up to the first dot ("_" alone stands for the folder), and the     *)
(* parts between that dot and the extension.  An action is [file, name,    *)
(* decorated, patterns, class]: decorated are the [method, url] of its     *)
(* HttpXxx decorators, patterns the urls of MicroPattern.  A url is        *)
(* [kind, path], "relative" when it begins with "//".                      *)
(***************************************************************************)
Path(segments) == IF segments = <<>> THEN NoPath ELSE segments
UrlFromPath(action) ==
  Path(action.file.folder
       \o (IF action.file.name = <<"_">> THEN <<>> ELSE <<action.file.name>>)
       \o (IF action.name = "default" THEN <<>> ELSE <<<<action.name>>>>))
\* A relative url below the root keeps the slash: its first segment is empty.
Url(action, url) ==
  CASE url.kind = "none" -> UrlFromPath(action)
    [] url.kind = "relative" -> UrlFromPath(action) \o url.path
    [] url.kind = "absolute" -> url.path

MapItem(action, url, methods) ==
  [url |-> Url(action, url), methods |-> methods, action |-> action.class]

\* One item per decorator; a file without decorators is named by its path.
CreateMapItems(action) ==
  LET decorated == [i \in DOMAIN action.decorated |->
                      MapItem(action, action.decorated[i].url, {action.decorated[i].method})]
      patterns == [i \in DOMAIN action.patterns |-> MapItem(action, action.patterns[i], {})]
  IN IF decorated \o patterns # <<>> THEN decorated \o patterns
     ELSE <<MapItem(action, [kind |-> "none", path |-> NoPath], action.file.methods)>>

\* The files of a folder come before its folders, those in alphabetic order:
\* "actions" is given in that order.
RouterMap(actions) == FlattenSeq([i \in DOMAIN actions |-> CreateMapItems(actions[i])])

-----------------------------------------------------------------------------
(* MapMatcher *)
StartsWith(path, prefix) ==
  LET n == Len(prefix)
  IN /\ Len(path) >= n
     /\ SubSeq(path, 1, n - 1) = SubSeq(prefix, 1, n - 1)
     /\ IsPrefix(prefix[n], path[n])

\* The text of the prefix is cut off, then one slash.
Unprefixed(path, prefix) ==
  IF prefix = NoPath \/ ~StartsWith(path, prefix) THEN path
  ELSE LET n == Len(prefix)
           rest == SubSeq(path[n], Len(prefix[n]) + 1, Len(path[n]))
           behind == SubSeq(path, n + 1, Len(path))
       IN IF rest = <<>> /\ behind # <<>> THEN behind ELSE <<rest>> \o behind

FitsPath(item, path) ==
  /\ Len(path) = Len(item.url)
  /\ \A i \in DOMAIN path : item.url[i] = path[i] \/ IsPlaceholder(item.url[i])
AcceptsMethod(item, method, custom) ==
  AnyMethod \in item.methods \/ Matched(method, custom) \cap item.methods # {}

MatchedItems(map, path, method, custom) ==
  LET fitting == {m \in ToSet(map) : FitsPath(m, path)}
  IN Only(map, {m \in fitting : m.methods # {} /\ AcceptsMethod(m, method, custom)})
     \o Only(map, {m \in fitting : m.methods = {} \/ AnyMethod \in m.methods})

\* Keeps the items that are good, when some are and some are not.
Prefer(items, good) ==
  IF ToSet(items) \cap good # {} THEN Only(items, good) ELSE items

\* Mutant: the first one will do.
MostLikeFirst(items) == Head(items)

MostLike(items) ==
  LET rest[i \in 0 .. Len(items[1].url)] ==
        IF i = 0 THEN items
        ELSE Prefer(rest[i - 1], {m \in ToSet(rest[i - 1]) : ~HasCaret(m.url[i])})
      literal == rest[Len(items[1].url)]
  IN Head(Prefer(literal, {m \in ToSet(literal) : AnyMethod \notin m.methods}))

\* What the second middleware of useRouterParser makes of a request.
Route(map, prefix, custom, req) ==
  LET path == Unprefixed(req.path, prefix)
      items == MatchedItems(map, path, req.method, custom)
  IN CASE items # <<>> -> [found |-> "route", item |-> MostLike(items)]
       [] items = <<>> /\ \E i \in DOMAIN map : FitsPath(map[i], path) ->
            [found |-> "methodNotAllowed"]
       [] OTHER -> [found |-> "notFound"]

-----------------------------------------------------------------------------
\* decodeURIComponent on one atom; it throws on "%zz".
Decodes(seg) == ~Contains(seg, "%zz")
Decode(seg) == [i \in DOMAIN seg |-> IF seg[i] = "%20" THEN " " ELSE seg[i]]

\* The third middleware: the segments of the request's whole path.
ParamPlaces(item, path) ==
  {i \in 1 .. (IF Len(item.url) < Len(path) THEN Len(item.url) ELSE Len(path)) :
     IsPlaceholder(item.url[i])}
ParamsFail(item, path) == \E i \in ParamPlaces(item, path) : ~Decodes(path[i])

\* A later placeholder of the same name replaces an earlier one.
Params(item, path) ==
  LET places == ParamPlaces(item, path)
      Key(i) == Tail(item.url[i])
  IN [k \in {Key(i) : i \in places} |->
        Decode(path[CHOOSE i \in places :
          Key(i) = k /\ \A j \in places : Key(j) = k => j <= i])]
=============================================================================
