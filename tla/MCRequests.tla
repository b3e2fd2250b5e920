------------------------------ MODULE MCRequests -------------------------------
(* Requests on small instances: the settings clients send. *)
EXTENDS Requests, TLC

CONSTANTS c1, c2

Plain == [stream |-> FALSE, usage |-> FALSE, max |-> 7, tools |-> {"function"}, choice |-> "unset"]

\* A plain call, a stream whose client wants no usage told and names no limit,
\* and a choice among tools only one protocol has.
McSettings ==
  {Plain, [Plain EXCEPT !.stream = TRUE, !.max = 0, !.choice = "required"],
   [Plain EXCEPT !.stream = TRUE, !.tools = {"builtin", "function"}],
   [Plain EXCEPT !.tools = {"builtin"}, !.choice = "auto"]}

\* Long enough for two calls, their results and something after them; shorter
\* where only the settings matter.
McMaxMessages ==
  [sc \in McSettings \X BOOLEAN |-> IF sc[1] = Plain /\ sc[2] THEN 5 ELSE 2]

Symmetry == Permutations(Calls)

=============================================================================
