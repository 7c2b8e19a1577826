-------------------------- MODULE MCPolicyScheduler --------------------------
(* PolicyScheduler for TLC; the constants get their values in the cfg files. *)
EXTENDS PolicyScheduler, TLC

\* Run slots are interchangeable, and so are tick slots (safety runs only).
SlotSymmetry == Permutations(Runs) \cup Permutations(Ticks)
=============================================================================
