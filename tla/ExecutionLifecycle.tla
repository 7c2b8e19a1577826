-------------------------- MODULE ExecutionLifecycle --------------------------
(***************************************************************************)
(* What the record of an execution promises to everybody who reads it: it  *)
(* is created once, runs, and ends once; a result that has been shown is   *)
(* never replaced by another.  Only a reset of the database removes it.    *)
(***************************************************************************)
CONSTANTS Executions, Seeded

VARIABLE status

Results == {"success", "failed", "interrupted"}

Init == status = [e \in Executions |-> IF e \in Seeded THEN "running" ELSE "none"]

\* What one step may do to one record.
Step(old, new) ==
  \/ new = old
  \/ old = "none" /\ new \in Results \cup {"running"}
  \/ old = "running" /\ new \in Results

\* Several records may move in one step: the emergency operation writes one per policy.
Advance ==
  /\ status' \in [Executions -> Results \cup {"none", "running"}]
  /\ \A e \in Executions : Step(status[e], status'[e])

\* A reset of the database drops every record and starts from seeded ones.
Reset ==
  \E seeds \in SUBSET {e \in Executions : status[e] = "none"} :
    status' = [e \in Executions |-> IF e \in seeds THEN "running" ELSE "none"]

Next == Advance \/ Reset

Spec == Init /\ [][Next]_status
===============================================================================
