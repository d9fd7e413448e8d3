-------------------------- MODULE MCRunnerRegistry --------------------------
EXTENDS RunnerRegistry, TLC

Symmetry == Permutations(Sandboxes) \cup Permutations(Tokens)
              \cup Permutations(Instances)
=============================================================================
