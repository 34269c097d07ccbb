------------------------------ MODULE MCEngine ------------------------------
(* Engine on small pools and a few request shapes; the .cfg files choose.  *)
EXTENDS Engine, TLC

CONSTANTS t1, t2   \* two tokens

Request(tokens, lora, priority, max) ==
  [tokens |-> tokens, lora |-> lora, priority |-> priority, max |-> max]

\* Prompts that share a block with each other, in one adapter and across two;
\* a long one of low priority; outputs that outgrow a block.
Mixed ==
  {Request(<<t1, t1, t2>>, 0, 1, 2), Request(<<t1, t1>>, 0, 0, 3), Request(<<t1, t1, t2>>, 1, 0, 1),
   Request(<<t1, t1, t2, t2, t1>>, 0, 0, 1)}

\* Short prompts with long outputs: 5 tokens of K/V at most.
Growing == {Request(<<t1, t1>>, 0, 0, 4), Request(<<t2, t1>>, 0, 1, 4)}

\* One that outgrows a step's budget, one that preempts it and shares its prefix.
Resuming == {Request(<<t1, t1>>, 0, 0, 4), Request(<<t1, t1, t2>>, 0, 1, 2)}

BlockSymmetry == Permutations(Block)
=============================================================================
