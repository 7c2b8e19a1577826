---------------------------- MODULE RunnerSchedule ----------------------------
(***************************************************************************)
(* What the scheduler does with the executions of SnapshotRunner: the      *)
(* state that a finished execution records for the policy, and the         *)
(* executions that a tick starts on that state alone (internal/scheduler/  *)
(* policy_scheduler.go, execution.go; internal/api/admin.go).  A tick      *)
(* compares the recorded state with the intent: when they differ it starts *)
(* a transition, when they agree it corrects only what it is configured to *)
(* correct and what the open snapshots show it.  Nothing else comes back   *)
(* to a workload by itself.                                                *)
(***************************************************************************)
EXTENDS SnapshotRunner

\* the SchedulerConfig values to check: [autoWake, reconcileWhileAwake, enforceSleep]
CONSTANT Configs
ASSUME ConfigsAssumption ==
  Configs \subseteq [autoWake : BOOLEAN, reconcileWhileAwake : BOOLEAN, enforceSleep : BOOLEAN]

VARIABLES
  config,   \* the scheduler's settings
  enabled,  \* policy.Enabled
  state,    \* policy.CurrentState once no execution is under way
  whole     \* history: an execution in apply mode of the whole policy recorded it

schedule == <<config, enabled, state, whole>>
svars == <<vars, schedule>>

States == {"unknown", "sleeping", "awake"}

SInit ==
  /\ Init
  /\ config \in Configs /\ enabled = TRUE
  /\ state = "unknown" /\ whole = FALSE

(***************************************************************************)
(* Executions start for any reason, also an operator's or an exception's,  *)
(* in apply or plan mode.  The emergency restore disables the policy.      *)
(***************************************************************************)
Starts ==
  /\ Begin
  /\ enabled' = (enabled /\ job'.kind # "emergency")
  /\ UNCHANGED <<config, state, whole>>

\* seeded fault: a failed execution settles the state like a successful one
RecordedAnyway ==
  IF job.scoped THEN States
  ELSE IF job.kind \in {"sleep", "enforce"} THEN {"sleeping"} ELSE {"awake"}

\* updatePolicyState, in plan mode too; restoreBaselineState, with the state its
\* caller had read; the emergency restore records nothing if it found no snapshot
Recorded ==
  IF ~Success THEN {"unknown"}
  ELSE IF job.scoped THEN States
  ELSE IF job.kind = "emergency" /\ \A w \in Workloads : worker[w] = "idle" THEN {state}
  ELSE IF job.kind \in {"sleep", "enforce"} THEN {"sleeping"} ELSE {"awake"}

Settles ==
  /\ End
  /\ state' \in Recorded
  /\ whole' = /\ state' # "unknown" /\ job.apply /\ ~job.scoped
              /\ job.kind = "enforce" => whole /\ state = "sleeping"
              /\ job.kind = "emergency" => whole /\ state' = state
  /\ UNCHANGED <<config, enabled>>

\* the next boot resets a transition that was under way; an emergency restore is none
Crashes ==
  /\ Crash
  /\ IF job.kind = "emergency" THEN UNCHANGED <<state, whole>>
     ELSE state' = "unknown" /\ whole' = FALSE
  /\ UNCHANGED <<config, enabled>>

\* an operator disables the policy, which counts as an intervention, or enables it; a tick
\* reads it when nothing is under way
Switch ==
  /\ job.kind = "idle" /\ enabled' = ~enabled
  /\ IF enabled THEN Meddle ELSE UNCHANGED meddling
  /\ UNCHANGED <<cluster, snap, job, worker, shield, goal, faults, touched, orig, config, state, whole>>

Works(w) == WorkerStep(w) /\ UNCHANGED schedule
Passes   == (WorkDone \/ NodesDone) /\ UNCHANGED schedule

SNext ==
  \/ Starts
  \/ \E w \in Workloads : Works(w)
  \/ Passes \/ Settles
  \/ Cancel /\ UNCHANGED schedule
  \/ Crashes
  \/ Others /\ UNCHANGED schedule
  \/ Switch

(***************************************************************************)
(* What a tick starts (evaluatePolicy).  A targeted exception comes before *)
(* any correction (reconcileScopedExceptions).                             *)
(***************************************************************************)
Unshielded == \A w \in Workloads : shield[w] = "none"

\* HasDriftedFromSleep
Drifted == \E i \in Restorable : snap[i].w \in exists /\ replicas[snap[i].w] > 0

FullSleep == BeginSleep(TRUE, FALSE, FALSE, Workloads, {})
FullWake  == BeginWake(TRUE, FALSE, Workloads)

TransitionSleep == FullSleep /\ enabled /\ state # "sleeping" /\ UNCHANGED schedule

TransitionWake ==
  FullWake /\ enabled /\ state # "awake" /\ config.autoWake /\ UNCHANGED schedule

\* reconcileAwakePolicy: CountOpenSnapshotsForRestore # 0
CorrectiveWake ==
  /\ FullWake /\ enabled /\ state = "awake" /\ Unshielded
  /\ config.reconcileWhileAwake /\ Restorable # {}
  /\ UNCHANGED schedule

\* enforceSleepPolicy
CorrectiveSleep ==
  /\ BeginEnforce(TRUE) /\ enabled /\ state = "sleeping" /\ Unshielded
  /\ config.enforceSleep /\ Drifted
  /\ UNCHANGED schedule

Tick == TransitionSleep \/ TransitionWake \/ CorrectiveWake \/ CorrectiveSleep

(***************************************************************************)
(* Goroutines make progress.  When ticks find something to start again and *)
(* again, one starts it: no other actor occupies the policy at every tick. *)
(***************************************************************************)
ScheduleFairness ==
  /\ \A w \in Workloads : WF_svars(Works(w))
  /\ WF_svars(Passes \/ Settles)
  /\ SF_svars(Tick)

ScheduleSpec == SInit /\ [][SNext]_svars /\ ScheduleFairness

(***************************************************************************)
(* Properties.                                                             *)
(***************************************************************************)
\* nothing but the schedule of an enabled policy is left to ask for anything
Quiet == enabled /\ Unshielded /\ ~job.scoped

\* the recorded state is not one that only a plan, a scoped execution or an
\* emergency restore has recorded: then no tick looks at the workloads again
Earned(s) == state # s \/ whole

(* When the schedule keeps asking for a wake, every workload that nobody     *)
(* touched at last runs its original number of replicas again, its snapshot  *)
(* closed, and stays so, unless the recorded state was not earned; and every *)
(* snapshot to restore is at last closed, whoever intervened, if corrective  *)
(* wakes are configured (policy_scheduler.go:436-484, 514-562, 676-699;      *)
(* snapshots.go:42-47).                                                      *)
EventuallyRestored ==
  <>[](goal = "wake" /\ Quiet) /\ config.autoWake =>
    /\ <>[]Earned("awake") =>
         <>[](\A w \in Workloads : ~touched[w] => replicas[w] = orig[w] /\ OpenOf(w) = {})
    /\ config.reconcileWhileAwake => <>[](Restorable = {})

(* When the schedule keeps asking for sleep, every workload that nobody      *)
(* touched is at last at zero, and stays there, unless the recorded state    *)
(* was not earned; and every workload with a snapshot to restore is at last  *)
(* at zero, also one that somebody scaled up or recreated, if enforcement is *)
(* configured (policy_scheduler.go:436-484, 564-600; policy_scaler.go:       *)
(* 328-475; execution.go:150-156).                                           *)
EventuallyAsleep ==
  <>[](goal = "sleep" /\ Quiet) =>
    /\ <>[]Earned("sleeping") => <>[](\A w \in Workloads : ~touched[w] => replicas[w] = 0)
    /\ config.enforceSleep =>
         <>[](\A i \in Restorable : snap[i].w \in exists => replicas[snap[i].w] = 0)

=============================================================================
