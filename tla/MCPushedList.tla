----------------------------- MODULE MCPushedList -----------------------------
(* Small instances of PushedList for TLC.                                  *)
EXTENDS PushedList, TLC

Interchangeable == Permutations(Callers)
==============================================================================
