-------------------------- MODULE MCStreamConverter ---------------------------
(* StreamConverter on small instances: the usage providers report. *)
EXTENDS WholeAnswers

CONSTANTS c1, c2

\* A proper report, one without a total, one with more cached tokens than
\* prompt and parts beyond MaxTok, one whose total is zero.
McReports ==
  {[prompt |-> 2, cached |-> 1, completion |-> 1, total |-> 3],
   [prompt |-> 2, cached |-> 0, completion |-> 1, total |-> Nothing],
   [prompt |-> 4, cached |-> 5, completion |-> 2, total |-> Nothing],
   [prompt |-> 1, cached |-> 0, completion |-> 1, total |-> 0]}

McStarts ==
  {[in |-> 1, cc |-> 1, cr |-> 1, out |-> 0], [in |-> 4, cc |-> 0, cr |-> 0, out |-> 0],
   [in |-> 4, cc |-> 1, cr |-> 2, out |-> 0]}

McDeltas ==
  {[in |-> Nothing, out |-> 1, cr |-> Nothing, cc |-> Nothing],
   [in |-> Nothing, out |-> 2, cr |-> 1, cc |-> 1],
   [in |-> 4, out |-> 2, cr |-> Nothing, cc |-> Nothing],
   [in |-> Nothing, out |-> Nothing, cr |-> Nothing, cc |-> Nothing]}

\* A message of two blocks with its start and end takes eight Anthropic events.
McMaxEvents == [openai |-> 5, anthropic |-> 8, responses |-> 4]

Symmetry == Permutations(Calls)

=============================================================================
