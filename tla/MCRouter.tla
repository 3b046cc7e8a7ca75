------------------------------- MODULE MCRouter -------------------------------
(* Small catalogs for Router.  Words: 2 and 3 are the letters A and B, 4 to 7  *)
(* are segments.                                                               *)
EXTENDS Router

MCItem == 1..6
MCLetter == [i \in MCItem |-> IF i <= 2 THEN 2 ELSE 3]

Ask_(ns, max, target) == [ns |-> ns, max |-> max, target |-> target]
\* no namespaces; two; one large namespace with parts; one large without parts; half of them without
MCRequest == {Ask_([i \in 1..5 |-> << >>], 2, 2),
              Ask_([i \in 1..6 |-> << >>], 3, 1),
              Ask_(<< <<4>>, <<4>>, <<5>>, <<5>> >>, 2, 2),
              Ask_(<< <<4, 6>>, <<4, 6>>, <<4, 7>>, <<4>>, <<5>> >>, 3, 3),
              Ask_(<< <<4, 6>>, <<4, 6>>, <<4, 7>>, <<4, 7>>, <<5>> >>, 3, 3),
              Ask_(<< <<4>>, <<4>>, <<4>>, <<4>>, <<5>> >>, 3, 3),
              Ask_(<< <<4>>, << >>, <<4>>, << >>, <<4>> >>, 3, 3)}
MCActives == {1..6, {2, 5}, {1, 3, 4}}
MCPinSets == {{}, {2}, {1, 2, 5, 6}}

\* two namespaces that outgrow a node
TwoLarge == {Ask_([i \in 1..6 |-> IF i % 2 = 0 THEN <<4>> ELSE <<5>>], 2, 2)}
=============================================================================
