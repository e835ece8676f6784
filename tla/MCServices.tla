------------------------------ MODULE MCServices ------------------------------
(***************************************************************************)
(* An instance of Services for TLC: four requests at a limit of two, two   *)
(* registrations with a login and refreshes, three containers, two fact    *)
(* jobs, two calls of the provider and of retrieval, and short legal and   *)
(* plain documents with every choice of page breaks.                       *)
(***************************************************************************)
EXTENDS Services

CONSTANTS c1, c2, c3, c4, s, e1, e2, a1, a2, w1, k1, k2, h1, h2, a, b, x, y, z,
          f, g, h, blank

\* Registrations that meet on the tenant, the address or both; refreshes and a
\* logout that may present one token.
BodiesOf ==
  [r \in AuthRequests |->
     CASE r = c1 -> {<<"register", <<s, e1>>>>}
       [] r = c2 -> {<<"register", <<s, e1>>>>, <<"register", <<s, e2>>>>, <<"login", <<s, e1>>>>}
       [] r = c3 -> {<<"register", <<s, e2>>>>, <<"login", <<s, e1>>>>, <<"refresh", <<s, e1>>>>}
       [] r = c4 -> {<<"refresh", <<s, e1>>>>, <<"logout", <<s, e1>>>>}]

ProcessesOf == {<<a1, 1>>, <<a1, 2>>, <<a2, 1>>, <<w1, 1>>}

\* Facts f and g are alike (one key, values that say the same); h is another.
\* The lists have a blank fact, a repetition, and both orders of two facts.
SimilarFacts == {<<p, p>> : p \in {f, g, h}} \cup {<<f, g>>, <<g, f>>}
FactLists == {<<f, h>>, <<blank, g>>, <<f, f>>, <<>>}

\* A text twice in one list, more texts than a batch or the LRU holds.
TextLists == {<<a, b, a>>, <<b>>}
OneHostEach == [c \in Callers |-> IF c = k1 THEN h1 ELSE h2]

\* A hit found twice with two scores, the same hits in two orders; more hits than
\* candidates.
HitOf(id, dense) == [id |-> id, dense |-> dense]
SearchResults == {<<>>, <<HitOf(x, 2), HitOf(y, 1), HitOf(z, 1)>>, <<HitOf(y, 3)>>}

Documents == {<<"text", "dieu", "text", "chuong", "dieu", "dieu">>,
              <<"text", "text", "text", "dieu">>, <<>>}
=============================================================================
