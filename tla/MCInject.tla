------------------------------ MODULE MCInject ------------------------------
(* Small object graphs for model checking Inject. *)
EXTENDS Inject

Class(c) == [kind |-> "class", of |-> c]
Build(c) == [kind |-> "builder", of |-> c]
Object(i) == [kind |-> "object", of |-> i]
Bind(k, t, ty) == [anestor |-> k, target |-> t, type |-> ty]

ScopedByDefault == [k \in Keys |-> Bind(k, Class(k), "Scoped")]
\* A scoped A needs the singleton B to be constructed; its property C is a
\* transient whose own property is the A again.  The middleware instance M has
\* the singleton S, whose builder returns the same object every time.
GraphArgs  == [A |-> <<"B">>, B |-> <<>>, C |-> <<>>, M |-> <<>>, S |-> <<>>]
GraphProps == [A |-> <<"C">>, B |-> <<>>, C |-> <<"A">>, M |-> <<"S">>, S |-> <<>>]
GraphBinds == <<Bind("S", Object(2), "Singleton"), Bind("B", Class("B"), "Singleton"),
                Bind("A", Class("A"), "Scoped"), Bind("C", Build("C"), "Transient")>>
GraphGiven == <<"M", "S">>

\* inject(B, InjectType.Singleton) and inject(S, new S()), which is Scoped
\* because that form of inject() takes no type.
PairArgs  == [B |-> <<>>, S |-> <<>>]
PairBinds == <<Bind("B", Class("B"), "Singleton"), Bind("S", Object(1), "Scoped")>>
PairGiven == <<"S">>
=============================================================================
