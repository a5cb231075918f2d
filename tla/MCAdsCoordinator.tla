-------------------------- MODULE MCAdsCoordinator --------------------------
(* Small instances of AdsCoordinator for TLC. *)
EXTENDS AdsCoordinator, TLC

CONSTANTS light, room, bool     \* two symbols and a type

(* A light is async, a room temperature is polled. *)
MCAsyncPoints == <<[name |-> light, type |-> bool]>>
MCPollPoints == <<[name |-> room, type |-> bool]>>
MCTwoAsync == <<[name |-> light, type |-> bool], [name |-> room, type |-> bool]>>
MCNone == <<>>

(* No value and no poller or writer is special. *)
Symmetry == Permutations(Values) \union Permutations(Pollers) \union Permutations(Writers)
=============================================================================
