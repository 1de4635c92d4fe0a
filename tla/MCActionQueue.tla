---------------------------- MODULE MCActionQueue ----------------------------
(***************************************************************************)
(* ActionQueue on a small instance.  Actions and workers are               *)
(* interchangeable in the safety run, where every action has a handler.    *)
(***************************************************************************)
EXTENDS ActionQueue, TLC

Symmetric == Permutations(Action) \cup Permutations(Worker)

=============================================================================
