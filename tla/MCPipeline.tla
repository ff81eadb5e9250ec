---------------------------- MODULE MCPipeline ----------------------------
(* Small chains of middlewares for model checking Pipeline. *)
EXTENDS Pipeline

\* Every request is served by one startup.
OneStartup == [r \in Reqs |-> "main"]

\* Hooks of several types ahead of a composed list with a class at its head,
\* behind a middleware that may catch or call next() twice.
ErrorChain ==
  [main  |-> <<Use, Hook("Error"), Hook("Constructor"), Compose("builder", "inner"), Add("class")>>,
   inner |-> <<Add("class"), Hook("AfterInvoke"), Hook("BeforeNext"), CallOuterNext>>]

\* Two requests through middlewares of their own, one of a bare startup.
FreshChain ==
  [main |-> <<Add("class"), Hook("BeforeInvoke"), Hook("Error"), Use>>, empty |-> <<>>]
FreshStartups == [r1 |-> "main", r2 |-> "main", r3 |-> "empty"]

\* The same, with one instance for all requests.
SharedChain == [main |-> <<Add("instance"), Use>>]
=============================================================================
