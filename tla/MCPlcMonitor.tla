---------------------------- MODULE MCPlcMonitor ----------------------------
(* Small instances of PlcMonitor for TLC. *)
EXTENDS PlcMonitor

CONSTANTS temperature, output, v1, run

(* A group of two variables. *)
MCVariables == <<temperature, output>>

(* Values and states are interchangeable: the PLC may start with any.  *)
MCInit == Init /\ plc = [n \in Names |-> v1] /\ plc_state = run
MCSpec == MCInit /\ [][Next]_vars /\ Fairness
=============================================================================
