---------------------------- MODULE MCExecutions ----------------------------
(***************************************************************************)
(* What the console shows of executions, for TLC: the log of one execution *)
(* (ExecutionLogs), the bar and summary computed from it (RolloutProgress), *)
(* the pages that start executions (PolicyTriggers) and the mock API       *)
(* (MockServer).                                                           *)
(*                                                                         *)
(* The components do not share state; `part' chooses the one that runs, so *)
(* that the state space is the union of theirs and not the product.        *)
(* MockServer, ExecutionLogs and PolicyTriggers are extended, with the     *)
(* constants of executions.cfg.  Mock: triggers, sockets and a reset;      *)
(* nobody edits or cancels.  Logs: four lines over a ring of two and a     *)
(* channel of one, so that overflow, replay and reconnects happen.         *)
(* Triggers: two requests of two policies, from cards or the detail page,  *)
(* which can be under way at once; the answers alone turn the pages.       *)
(* Emergencies, edits and cancellations run on a second database.          *)
(***************************************************************************)
EXTENDS MockServer, ExecutionLogs, PolicyTriggers

VARIABLES
  part,
  kind, apply, idle, log, pc, size, wave, todo, rest, nodes, drained, errors, status,
  policies2, execs2, exceptions2, lines2, seq2, born2, timers2, sockets2, reset2, emergency2, edits2

rollout == <<kind, apply, idle, log, pc, size, wave, todo, rest, nodes, drained, errors, status>>
routes  == <<policies2, execs2, exceptions2, lines2, seq2, born2, timers2, sockets2, reset2,
             emergency2, edits2>>
suite   == <<part, logsVars, rollout, vars, routes, triggersVars>>

\* Three workloads of two kinds, at once or in two waves, and two nodes to drain.
Listed == <<<<"Deployment", "a">>, <<"Deployment", "b">>, <<"StatefulSet", "c">>>>
Rollout == INSTANCE RolloutProgress WITH
  Workloads <- {Listed[1], Listed[2], Listed[3]},
  Nodes <- {"n1", "n2"}, WaveSizes <- {0, 2}, Grain <- 60

\* Triggers and an emergency, without sockets.
Emergency == INSTANCE MockServer WITH
  policies <- policies2, execs <- execs2, exceptions <- exceptions2, lines <- lines2, seq <- seq2,
  born <- born2, timers <- timers2, sockets <- sockets2, reset <- reset2, emergency <- emergency2,
  edits <- edits2,
  StreamLines <- 0, Cancels <- FALSE, Emergencies <- TRUE, Resets <- FALSE,
  MaxPolicies <- 2, MaxExecs <- 4, MaxExceptions <- 0, MaxStreams <- 0, MaxEdits <- 0

\* Edits, imports and cancellations.
Routes == INSTANCE MockServer WITH
  policies <- policies2, execs <- execs2, exceptions <- exceptions2, lines <- lines2, seq <- seq2,
  born <- born2, timers <- timers2, sockets <- sockets2, reset <- reset2, emergency <- emergency2,
  edits <- edits2,
  StreamLines <- 1, Cancels <- TRUE, Emergencies <- FALSE, Resets <- FALSE,
  MaxPolicies <- 4, MaxExecs <- 2, MaxExceptions <- 2, MaxStreams <- 0, MaxEdits <- 2

\* All pages: the list changes while a dialog is up, the URL while a request is under way.
Moving == INSTANCE PolicyTriggers WITH
  Policies <- {1, 2}, Places <- {"overview", "list", "detail"},
  MaxRuns <- 1, MaxToggles <- 1, MaxMoves <- 2

ASSUME SizesAssumption
ASSUME Rollout!RolloutAssumption
ASSUME MockAssumption /\ Emergency!MockAssumption /\ Routes!MockAssumption
ASSUME PolicyTriggersAssumption /\ Moving!PolicyTriggersAssumption

SuiteInit ==
  /\ part \in {"logs", "rollout", "life", "emergency", "routes", "triggers", "moving"}
  /\ LogsInit /\ Rollout!Init /\ Init /\ Routes!Init
  /\ IF part = "moving" THEN Moving!TriggersInit ELSE TriggersInit
  /\ part # "rollout" => kind = "sleep" /\ apply /\ idle = {}
  \* their names differ and nothing else matters: which of them are idle is a matter of number
  /\ \E many \in 0..3 : idle = {Listed[i] : i \in 1..many}
  /\ part \notin {"triggers", "moving"} => at.place = "list"

SuiteNext ==
  \/ part = "logs" /\ LogsNext /\ UNCHANGED <<part, rollout, vars, routes, triggersVars>>
  \/ part = "rollout" /\ Rollout!Next /\ UNCHANGED <<part, logsVars, vars, routes, triggersVars>>
  \/ part = "life" /\ Next /\ UNCHANGED <<part, logsVars, rollout, routes, triggersVars>>
  \/ part = "emergency" /\ Emergency!Next /\ UNCHANGED <<part, logsVars, rollout, vars, triggersVars>>
  \/ part = "routes" /\ Routes!Next /\ UNCHANGED <<part, logsVars, rollout, vars, triggersVars>>
  \/ part = "triggers" /\ TriggersNext /\ UNCHANGED <<part, logsVars, rollout, vars, routes>>
  \/ part = "moving" /\ Moving!TriggersNext /\ UNCHANGED <<part, logsVars, rollout, vars, routes>>

SuiteSpec == SuiteInit /\ [][SuiteNext]_suite

----------------------------------------------------------------------------
(* Properties. *)


\* The database of the mock stays consistent when policies and exceptions are edited, imported and
\* deleted, executions cancelled and an emergency started (MockServer).
RoutesSound ==
  /\ part = "emergency" => Emergency!DatabaseSound
  /\ part = "routes" => Routes!DatabaseSound
=============================================================================
