---------------------------- MODULE MCClaudeCode ----------------------------
(***************************************************************************)
(* Instances of ClaudeCode for TLC: an execution, two calls of an adapter, *)
(* two repositories of one provider.                                       *)
(***************************************************************************)
EXTENDS ClaudeCode

CONSTANTS r1, r2, x1, p1, p2, github, elsewhere, norepo

Repos == {r1, r2}
Executors == {x1}
Posters == {p1, p2}
OneProvider == [r \in Repos |-> github]

\* An event of GitHub whose text mentions another repository, and messages from
\* elsewhere: one whose metadata mentions two, one that mentions none.
Jobs ==
  {[repo |-> r1, texts |-> << <<elsewhere, r2, r2>>, <<r1>> >>, metadata |-> {}],
   [repo |-> norepo, texts |-> << <<elsewhere>> >>, metadata |-> {<<r1>>, <<r2, elsewhere>>}],
   [repo |-> norepo, texts |-> << << >> >>, metadata |-> {}]}
=============================================================================
