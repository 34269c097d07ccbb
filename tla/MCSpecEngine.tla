---------------------------- MODULE MCSpecEngine ----------------------------
(* SpecEngine with two tokens, two drafters and pools too small for all.   *)
EXTENDS SpecEngine, TLC

CONSTANTS t1, t2

\* A target that follows two t1 with t2 and everything else with t1.
AfterTwo(tokens) ==
  LET n == Len(tokens)
  IN  IF n >= 2 /\ tokens[n] = t1 /\ tokens[n - 1] = t1 THEN t2 ELSE t1

Request(tokens, priority, max) == [tokens |-> tokens, lora |-> 0, priority |-> priority, max |-> max]

\* A greedy request and a sampled one.
GreedyOne == <<t1, t1, t2, t1>>
Pair == {Request(GreedyOne, 1, 4), Request(<<t1, t1, t2, t2>>, 0, 4)}
GreedyPrompts == {GreedyOne}

\* A long request that drafts alone, and a short one beside which a batch is too large to.
Overload == {Request(<<t1, t1>>, 1, 6), Request(<<t1, t2>>, 1, 3)}

BlockSymmetry == Permutations(Block)
=============================================================================
