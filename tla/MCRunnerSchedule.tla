--------------------------- MODULE MCRunnerSchedule ---------------------------
(* RunnerSchedule for TLC: every correction configured, and none.            *)
EXTENDS RunnerSchedule

Settings == {[autoWake |-> TRUE, reconcileWhileAwake |-> b, enforceSleep |-> b] : b \in BOOLEAN}
=============================================================================
