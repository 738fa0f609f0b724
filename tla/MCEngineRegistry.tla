-------------------------- MODULE MCEngineRegistry --------------------------
(* EngineRegistry for TLC: threads, engines and dicts are interchangeable.  *)
EXTENDS EngineRegistry, TLC

Symmetry == Permutations(Threads) \cup Permutations(Engines) \cup Permutations(Sets)
=============================================================================
