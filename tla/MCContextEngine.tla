---------------------------- MODULE MCContextEngine ----------------------------
(* Small instances of the context engine: a turn, its tool call and its result. *)
EXTENDS ContextEngine, TLC

CONSTANTS u1, c1, r1, x1

ChainKind == u1 :> "user_turn" @@ c1 :> "tool_call" @@ r1 :> "tool_result"
ChainParent == u1 :> None @@ c1 :> u1 @@ r1 :> c1
TwoPhases == {{"tool_result"}, {"user_turn", "tool_call", "tool_result"}}
Costs == "raw" :> 3 @@ "summary" :> 2 @@ "mask" :> 1
Plain == [redact |-> FALSE, open |-> FALSE, closed |-> FALSE, strict |-> FALSE]
Modes == {Plain, [Plain EXCEPT !.open = TRUE, !.strict = TRUE], [Plain EXCEPT !.closed = TRUE],
          [Plain EXCEPT !.redact = TRUE, !.open = TRUE]}
================================================================================
