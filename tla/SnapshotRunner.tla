---------------------------- MODULE SnapshotRunner ----------------------------
(***************************************************************************)
(* The policy runner: how the executions of one policy put workloads to    *)
(* sleep and wake them again, with one durable snapshot per workload as    *)
(* the only memory of the replica count to restore (internal/scaler/       *)
(* policy_scaler.go, workloads.go, targeting.go; internal/store/           *)
(* snapshots.go; the emergency restore of internal/api/admin.go).          *)
(*                                                                         *)
(* The database and the cluster share no transaction: every action below   *)
(* is one database statement or one API call, and the process may crash,   *)
(* be cancelled, or lose the answer of a call between any two of them,     *)
(* while other actors scale, delete and recreate the same workloads.       *)
(* Executions of a policy do not overlap (PolicyScheduler!                 *)
(* ExclusiveExecution); within one, the workloads are handled              *)
(* concurrently.  An API call that fails may have been applied, but it is  *)
(* not applied later than its error is returned.                           *)
(***************************************************************************)
EXTENDS Naturals, FiniteSets

CONSTANTS
  Workloads,    \* kind/namespace/name keys the policy selects
  NoWorkload,   \* the workload of a free snapshot slot
  Slots,        \* rows for open snapshots
  NoSlot,       \* "no open snapshot"
  Replicas,     \* replica counts that occur (a set of naturals)
  MaxFaults,    \* bound: failed statements, failed calls, crashes, cancellations
  MaxMeddling   \* bound: changes by other actors, exceptions, emergency restores

ASSUME NoneAssumption == NoWorkload \notin Workloads /\ NoSlot \notin Slots
ASSUME ReplicasAssumption == Replicas \subseteq Nat /\ {0, 1} \subseteq Replicas
ASSUME BoundAssumption == MaxFaults \in Nat /\ MaxMeddling \in Nat

VARIABLES
  exists,    \* workloads present in the cluster
  replicas,  \* spec.replicas of each workload
  snap,      \* open WorkloadSnapshot rows (a closed row is read by no operation)
  job,       \* the execution under way
  worker,    \* progress of the execution with each workload
  shield,    \* effectiveExceptionType of each workload
  goal,      \* which direction the scheduler asks for
  faults,
  meddling,
  owned,     \* history: the workload is at zero because this system put it there
  touched,   \* history: another actor, an exception or the emergency restore intervened
  orig       \* history: replica count before this system first touched the workload

vars == <<exists, replicas, snap, job, worker, shield, goal, faults, meddling,
          owned, touched, orig>>

cluster == <<exists, replicas, owned>>
ghosts  == <<touched, orig>>

NoSnap == [phase |-> "none", w |-> NoWorkload, base |-> 0, zero |-> FALSE]
NoJob  == [kind |-> "idle", apply |-> FALSE, scoped |-> FALSE, stage |-> "idle",
           listed |-> [w \in Workloads |-> 0], held |-> [w \in Workloads |-> NoSlot],
           skipNodes |-> FALSE, errors |-> FALSE, cancelled |-> FALSE]
\* an execution that starts: what it read, and whether reading failed
Job(kind, apply, scoped, listed, held, skipNodes, errors) ==
  [kind |-> kind, apply |-> apply, scoped |-> scoped, stage |-> "work",
   listed |-> listed, held |-> held, skipNodes |-> skipNodes, errors |-> errors,
   cancelled |-> FALSE]

\* WakeExecutionID IS NULL AND was_deleted_at_wake = false
Open(i)      == snap[i].phase # "none"
OpenOf(w)    == {i \in Slots : Open(i) /\ snap[i].w = w}
\* ... AND was_already_zero = false: what a wake restores
Restorable   == {i \in Slots : Open(i) /\ ~snap[i].zero}
\* snappedSet: the open snapshot a run finds for a workload
Held(w)      == IF OpenOf(w) = {} THEN NoSlot ELSE CHOOSE i \in OpenOf(w) : TRUE
HeldBy(W)    == [w \in Workloads |-> IF w \in W THEN Held(w) ELSE NoSlot]
Unlisted     == [w \in Workloads |-> 0]
NoProgress   == [w \in Workloads |-> "idle"]
Finished     == \A w \in Workloads : worker[w] \in {"idle", "done"}

\* a workload may be created later; it then never was ours to restore
Init ==
  /\ exists \in SUBSET Workloads
  /\ replicas \in [Workloads -> Replicas]
  /\ \A w \in Workloads \ exists : replicas[w] = 0
  /\ snap = [i \in Slots |-> NoSnap]
  /\ job = NoJob
  /\ worker = NoProgress
  /\ shield = [w \in Workloads |-> "none"]
  /\ goal = "sleep"
  /\ faults = 0 /\ meddling = 0
  /\ owned = [w \in Workloads |-> FALSE]
  /\ touched = [w \in Workloads |-> w \notin exists]
  /\ orig = replicas

Fault  == faults < MaxFaults /\ faults' = faults + 1
Meddle == meddling < MaxMeddling /\ meddling' = meddling + 1

Advance(w, pc) == worker' = [worker EXCEPT ![w] = pc]
\* (scaled | skipped, errored = false)
Succeed(w) == Advance(w, "done") /\ UNCHANGED job
\* seeded fault: the error is logged and not counted
FailSilently(w) == Advance(w, "done") /\ UNCHANGED job
\* errored = true: counts.Errors++
Fail(w) == Advance(w, "done") /\ job' = [job EXCEPT !.errors = TRUE]
\* a database statement or a lookup fails
OpFails(w) == Fault /\ Fail(w)

(***************************************************************************)
(* ScaleDeployment / ScaleStatefulSet.  A failed call may have been        *)
(* applied: the answer got lost, or the context ended while it was sent.   *)
(***************************************************************************)
Write(w, n) ==
  /\ w \in exists
  /\ replicas' = [replicas EXCEPT ![w] = n]
  /\ owned' = [owned EXCEPT ![w] = (n = 0) /\ (owned[w] \/ replicas[w] > 0)]
  /\ UNCHANGED exists

ScaleSucceeds(w, n) == ~job.cancelled /\ Write(w, n) /\ UNCHANGED faults

ScaleFails(w, n) ==
  /\ \/ (w \notin exists \/ job.cancelled) /\ UNCHANGED faults
     \/ Fault
  /\ UNCHANGED cluster \/ Write(w, n)

\* effectiveExceptionType is stay_awake: no sleep
Protected(w) == shield[w] = "stay_awake"

(***************************************************************************)
(* RunPolicySleep.  Open snapshots, the listed workloads and the active    *)
(* exceptions are read once; `absent` are the workloads of a kind whose    *)
(* LIST failed, `scope` the targets of a scoped exception.                 *)
(***************************************************************************)
BeginSleep(apply, scoped, forced, scope, absent) ==
  LET selected == exists \ absent
      entries  == {w \in selected : w \in scope /\ (forced \/ ~Protected(w))}
      deferred == \E i \in Restorable : snap[i].phase = "prepared" /\ snap[i].w \notin entries
  IN
  /\ job.kind = "idle" /\ goal = "sleep"
  /\ forced => scoped
  /\ ~scoped => scope = Workloads
  /\ (absent = {} /\ UNCHANGED faults) \/ (absent # {} /\ Fault)
  /\ job' = Job("sleep", apply, scoped,
                 [w \in Workloads |-> IF w \in entries THEN replicas[w] ELSE 0],
                 HeldBy(entries), scoped \/ entries # selected \/ deferred, absent # {})
  /\ worker' = [w \in Workloads |-> IF w \in entries THEN "persist" ELSE "idle"]
  /\ UNCHANGED <<cluster, snap, shield, goal, meddling, ghosts>>

\* runConcurrent looks at ctx.Err() before it starts on an item
Skips(w) ==
  /\ worker[w] \in {"persist", "lookup"} /\ job.cancelled
  /\ Succeed(w)
  /\ UNCHANGED <<cluster, snap, shield, goal, faults, meddling, ghosts>>

\* the open snapshot a sleep reuses, and the step after it has one: WasAlreadyZero:
\* return; entry.Replicas > 0: scale; else only mark
Reuses(w) == job.held[w] # NoSlot
AfterRow(w, zero) ==
  IF zero THEN "done" ELSE IF job.listed[w] > 0 THEN "scale" ELSE "mark"

\* seeded faults: a failed insert is no reason not to sleep; a reused snapshot takes
\* over the replica count of today
CreateFailsScales(w) == Fault /\ Advance(w, "scale") /\ UNCHANGED job
KeepsToday(w) ==
  /\ snap' = [snap EXCEPT ![job.held[w]].base = job.listed[w]]
  /\ UNCHANGED <<job, faults>>

CreateFails(w) == OpFails(w)

\* an open snapshot stays as it is, its baseline in particular
KeepsRow(w) == UNCHANGED <<snap, job, faults>>

\* sleepWorkload up to the scale call: reuse the open snapshot or create one
Persist(w) ==
  LET n == job.listed[w] IN
  /\ worker[w] = "persist"
  /\ \/ ~job.apply /\ Succeed(w) /\ UNCHANGED <<snap, faults>>
     \/ /\ job.apply /\ Reuses(w) /\ KeepsRow(w)
        /\ Advance(w, AfterRow(w, snap[job.held[w]].zero))
     \/ /\ job.apply /\ ~Reuses(w)
        /\ \E i \in Slots :
             /\ ~Open(i)
             /\ snap' = [snap EXCEPT ![i] = [phase |-> "prepared", w |-> w, base |-> n,
                                             zero |-> (n = 0)]]
             /\ job' = [job EXCEPT !.held[w] = i]
        /\ Advance(w, AfterRow(w, n = 0)) /\ UNCHANGED faults
     \/ /\ job.apply /\ ~Reuses(w) /\ CreateFails(w)
        /\ UNCHANGED snap
  /\ UNCHANGED <<cluster, shield, goal, meddling, ghosts>>

SleepScale(w) ==
  /\ worker[w] = "scale"
  /\ \/ ScaleSucceeds(w, 0) /\ Advance(w, "mark") /\ UNCHANGED job
     \/ ScaleFails(w, 0) /\ Fail(w)
  /\ UNCHANGED <<snap, shield, goal, meddling, ghosts>>

\* seeded fault: a state that no query knows
MarkMisspelt(w) ==
  /\ worker[w] = "mark"
  /\ snap' = [snap EXCEPT ![job.held[w]].phase = "asleep"]
  /\ Succeed(w) /\ UNCHANGED <<faults, cluster, shield, goal, meddling, ghosts>>

\* MarkSnapshotApplied
Mark(w) ==
  /\ worker[w] = "mark"
  /\ \/ /\ snap' = [snap EXCEPT ![job.held[w]].phase = "applied"]
        /\ Succeed(w) /\ UNCHANGED faults
     \/ OpFails(w) /\ UNCHANGED snap
  /\ UNCHANGED <<cluster, shield, goal, meddling, ghosts>>

(***************************************************************************)
(* RunPolicyWake.  The open snapshots are read once; with a scope or any   *)
(* active exception, filterWakeSnapshots looks each workload up first (one *)
(* failed lookup fails the run) and only a full wake keeps deleted ones.   *)
(***************************************************************************)
BeginWake(apply, scoped, scope) ==
  LET filtered == scoped \/ \E w \in Workloads : shield[w] # "none"
      keeps(w) == IF w \in exists THEN w \in scope /\ shield[w] # "force_sleep" ELSE ~scoped
  IN
  /\ job.kind = "idle" /\ goal = "wake"
  /\ ~scoped => scope = Workloads
  /\ \E failed \in BOOLEAN :
       /\ (failed /\ filtered /\ Fault) \/ (~failed /\ UNCHANGED faults)
       /\ job' = Job("wake", apply, scoped, Unlisted, HeldBy(Workloads), FALSE, failed)
       /\ worker' = [w \in Workloads |->
                       IF ~failed /\ Held(w) # NoSlot /\ (filtered => keeps(w))
                         THEN "lookup" ELSE "idle"]
  /\ UNCHANGED <<cluster, snap, shield, goal, meddling, ghosts>>

\* seeded fault: the snapshot of a deleted workload is left open
SkippedIfGone == "done"

\* a deleted workload cannot be restored: its snapshot is taken out of the way
NextIfGone == "gone"

\* wakeWorkload up to its first write; handleExternallyScaled when replicas # 0
Lookup(w) ==
  LET s == snap[job.held[w]] IN
  /\ worker[w] = "lookup"
  /\ \/ s.zero /\ Advance(w, IF job.apply THEN "close" ELSE "done") /\ UNCHANGED <<job, faults>>
     \/ ~s.zero /\ ~job.cancelled /\ OpFails(w)
     \/ ~s.zero /\ job.cancelled /\ Fail(w) /\ UNCHANGED faults
     \/ /\ ~s.zero /\ ~job.cancelled /\ w \notin exists
        /\ Advance(w, IF job.apply THEN NextIfGone ELSE "done") /\ UNCHANGED <<job, faults>>
     \/ /\ ~s.zero /\ ~job.cancelled /\ w \in exists
        /\ Advance(w, IF shield[w] = "force_sleep" \/ ~job.apply THEN "done"
                      ELSE IF replicas[w] = s.base THEN "close" ELSE "restore")
        /\ UNCHANGED <<job, faults>>
  /\ UNCHANGED <<cluster, snap, shield, goal, meddling, ghosts>>

\* seeded fault: the snapshot is closed whether or not the workload was scaled
RestoreUnchecked(w) ==
  /\ worker[w] = "restore"
  /\ LET target == snap[job.held[w]].base IN ScaleSucceeds(w, target) \/ ScaleFails(w, target)
  /\ Advance(w, "close") /\ UNCHANGED job
  /\ UNCHANGED <<snap, shield, goal, meddling, ghosts>>

Restore(w) ==
  LET target == snap[job.held[w]].base IN
  /\ worker[w] = "restore"
  /\ \/ ScaleSucceeds(w, target) /\ Advance(w, "close") /\ UNCHANGED job
     \/ ScaleFails(w, target) /\ Fail(w)
  /\ UNCHANGED <<snap, shield, goal, meddling, ghosts>>

\* CloseSnapshot ("close") and MarkSnapshotDeletedAtWake ("gone")
Close(w) ==
  /\ worker[w] \in {"close", "gone"}
  /\ \/ /\ snap' = [snap EXCEPT ![job.held[w]] = NoSnap]
        /\ Succeed(w) /\ UNCHANGED faults
     \/ OpFails(w) /\ UNCHANGED snap
  /\ UNCHANGED <<cluster, shield, goal, meddling, ghosts>>

(***************************************************************************)
(* RunPolicySleepReconcile: no new snapshots, live lookups, no ctx check.  *)
(***************************************************************************)
BeginEnforce(apply) ==
  /\ job.kind = "idle" /\ goal = "sleep"
  /\ job' = Job("enforce", apply, FALSE, Unlisted, HeldBy(Workloads), FALSE, FALSE)
  /\ worker' = [w \in Workloads |-> IF Held(w) \in Restorable THEN "check" ELSE "idle"]
  /\ UNCHANGED <<cluster, snap, shield, goal, faults, meddling, ghosts>>

Check(w) ==
  LET s == snap[job.held[w]] IN
  /\ worker[w] = "check"
  /\ \/ job.cancelled /\ Fail(w) /\ UNCHANGED faults
     \/ ~job.cancelled /\ OpFails(w)
     \/ /\ ~job.cancelled
        /\ Advance(w, IF w \notin exists \/ Protected(w) \/ ~job.apply THEN "done"
                      ELSE IF replicas[w] > 0 THEN "quash"
                      ELSE IF s.phase = "prepared" THEN "mark" ELSE "done")
        /\ UNCHANGED <<job, faults>>
  /\ UNCHANGED <<cluster, snap, shield, goal, meddling, ghosts>>

\* scale back to zero; the snapshot keeps its phase and its baseline
Quash(w) ==
  /\ worker[w] = "quash"
  /\ \/ ScaleSucceeds(w, 0) /\ Succeed(w)
     \/ ScaleFails(w, 0) /\ Fail(w)
  /\ UNCHANGED <<snap, shield, goal, meddling, ghosts>>

(***************************************************************************)
(* emergencyScaleSnapshots: every restorable snapshot goes to one replica  *)
(* and is closed.  Its context is not the scheduler's.                     *)
(***************************************************************************)
BeginEmergency ==
  /\ job.kind = "idle" /\ Meddle
  /\ job' = Job("emergency", TRUE, FALSE, Unlisted, HeldBy(Workloads), FALSE, FALSE)
  /\ worker' = [w \in Workloads |-> IF Held(w) \in Restorable THEN "force" ELSE "idle"]
  /\ touched' = [w \in Workloads |-> touched[w] \/ Held(w) \in Restorable]
  /\ UNCHANGED <<cluster, snap, shield, goal, faults, orig>>

ScaleToOne(w) ==
  /\ worker[w] = "force"
  /\ \/ ScaleSucceeds(w, 1) /\ Advance(w, "close") /\ UNCHANGED job
     \/ /\ w \notin exists /\ Advance(w, "gone")
        /\ UNCHANGED <<cluster, job, faults>>
     \/ ScaleFails(w, 1) /\ w \in exists /\ Fail(w)
  /\ UNCHANGED <<snap, shield, goal, meddling, ghosts>>

(***************************************************************************)
(* The end of an execution.  Only a sleep goes on to the nodes, and only   *)
(* when it is complete.                                                    *)
(***************************************************************************)
\* seeded fault: errors of the workloads do not hold back the nodes
DrainsNodesAnyway == ~job.cancelled /\ ~job.skipNodes

DrainsNodes == ~job.errors /\ ~job.cancelled /\ ~job.skipNodes

WorkDone ==
  /\ job.stage = "work" /\ Finished
  /\ job' = [job EXCEPT !.stage = IF job.kind = "sleep" /\ DrainsNodes THEN "nodes" ELSE "done"]
  /\ UNCHANGED <<cluster, snap, worker, shield, goal, faults, meddling, ghosts>>

\* drainNodes; an error there counts like any other
NodesDone ==
  /\ job.stage = "nodes"
  /\ \/ job' = [job EXCEPT !.stage = "done"] /\ UNCHANGED faults
     \/ Fault /\ job' = [job EXCEPT !.stage = "done", !.errors = TRUE]
  /\ UNCHANGED <<cluster, snap, worker, shield, goal, meddling, ghosts>>

\* RunPolicySleep and RunPolicyWake return nil
Success == job.stage = "done" /\ ~job.errors /\ ~job.cancelled

End ==
  /\ job.stage = "done"
  /\ job' = NoJob /\ worker' = NoProgress
  /\ UNCHANGED <<cluster, snap, shield, goal, faults, meddling, ghosts>>

Cancel ==
  /\ job.kind \in {"sleep", "wake", "enforce"} /\ job.stage \in {"work", "nodes"}
  /\ ~job.cancelled /\ Fault
  /\ job' = [job EXCEPT !.cancelled = TRUE]
  /\ UNCHANGED <<cluster, snap, worker, shield, goal, meddling, ghosts>>

Crash ==
  /\ job.kind # "idle" /\ Fault
  /\ job' = NoJob /\ worker' = NoProgress
  /\ UNCHANGED <<cluster, snap, shield, goal, meddling, ghosts>>

(***************************************************************************)
(* Other actors.                                                           *)
(***************************************************************************)
Touch(w) == touched' = [touched EXCEPT ![w] = TRUE]

ExternalScale(w, n) ==
  /\ w \in exists /\ n # replicas[w] /\ Meddle
  /\ replicas' = [replicas EXCEPT ![w] = n]
  /\ owned' = [owned EXCEPT ![w] = FALSE]
  /\ Touch(w)
  /\ UNCHANGED <<exists, snap, job, worker, shield, goal, faults, orig>>

ExternalDelete(w) ==
  /\ w \in exists /\ Meddle
  /\ exists' = exists \ {w}
  /\ owned' = [owned EXCEPT ![w] = FALSE]
  /\ Touch(w)
  /\ UNCHANGED <<replicas, snap, job, worker, shield, goal, faults, orig>>

ExternalCreate(w, n) ==
  /\ w \notin exists /\ Meddle
  /\ exists' = exists \cup {w}
  /\ replicas' = [replicas EXCEPT ![w] = n]
  /\ Touch(w)
  /\ UNCHANGED <<owned, snap, job, worker, shield, goal, faults, orig>>

\* an exception that matches the workload starts or ends
ExceptionChanges(w, e) ==
  /\ e # shield[w] /\ Meddle
  /\ shield' = [shield EXCEPT ![w] = e]
  /\ Touch(w)
  /\ UNCHANGED <<cluster, snap, job, worker, goal, faults, orig>>

\* a window opens or closes
GoalFlips ==
  /\ goal' = IF goal = "sleep" THEN "wake" ELSE "sleep"
  /\ UNCHANGED <<cluster, snap, job, worker, shield, faults, meddling, ghosts>>

WorkerStep(w) ==
  \/ Skips(w) \/ Persist(w) \/ SleepScale(w) \/ Mark(w)
  \/ Lookup(w) \/ Restore(w) \/ Close(w) \/ Check(w) \/ Quash(w) \/ ScaleToOne(w)

JobStep == WorkDone \/ NodesDone \/ End

Begin ==
  \/ \E apply, scoped, forced \in BOOLEAN, scope, absent \in SUBSET Workloads :
       BeginSleep(apply, scoped, forced, scope, absent)
  \/ \E apply, scoped \in BOOLEAN, scope \in SUBSET Workloads : BeginWake(apply, scoped, scope)
  \/ \E apply \in BOOLEAN : BeginEnforce(apply)
  \/ BeginEmergency

Others ==
  \/ \E w \in Workloads, n \in Replicas : ExternalScale(w, n) \/ ExternalCreate(w, n)
  \/ \E w \in Workloads : ExternalDelete(w)
  \/ \E w \in Workloads, e \in {"none", "stay_awake", "force_sleep"} : ExceptionChanges(w, e)
  \/ GoalFlips

Next ==
  \/ Begin
  \/ \E w \in Workloads : WorkerStep(w)
  \/ JobStep
  \/ Cancel \/ Crash
  \/ Others

Spec == Init /\ [][Next]_vars

(***************************************************************************)
(* Properties.                                                             *)
(***************************************************************************)
SnapType == [phase : {"none", "prepared", "applied"}, w : Workloads \cup {NoWorkload},
             base : Nat, zero : BOOLEAN]
JobType == [kind : {"idle", "sleep", "wake", "enforce", "emergency"}, apply : BOOLEAN,
            scoped : BOOLEAN, stage : {"idle", "work", "nodes", "done"},
            listed : [Workloads -> Nat], held : [Workloads -> Slots \cup {NoSlot}],
            skipNodes : BOOLEAN, errors : BOOLEAN, cancelled : BOOLEAN]
WorkerType == {"idle", "done", "persist", "scale", "mark", "lookup", "restore", "close",
               "gone", "check", "quash", "force"}

(* Type invariant: the cluster, the snapshot rows and the progress of the    *)
(* execution hold values of their types (models.go:164-189).                 *)
TypeOK ==
  /\ exists \in SUBSET Workloads
  /\ replicas \in [Workloads -> Nat]
  /\ snap \in [Slots -> SnapType]
  /\ job \in JobType
  /\ worker \in [Workloads -> WorkerType]
  /\ shield \in [Workloads -> {"none", "stay_awake", "force_sleep"}]
  /\ goal \in {"sleep", "wake"}
  /\ faults \in Nat /\ meddling \in Nat
  /\ owned \in [Workloads -> BOOLEAN]
  /\ touched \in [Workloads -> BOOLEAN]
  /\ orig \in [Workloads -> Nat]

(* A workload that this system has scaled to zero always has an open         *)
(* snapshot with a positive replica count to restore, whatever crashed,      *)
(* failed or was retried in between (workloads.go:26-68, 81-151;             *)
(* reliability-review.md:12).                                                *)
BaselineKept ==
  \A w \in Workloads : owned[w] =>
    \E i \in Slots : snap[i].phase # "none" /\ snap[i].w = w /\ ~snap[i].zero /\ snap[i].base > 0

(* No workload ever has two open snapshots: a repeated or recovered sleep    *)
(* reuses the one it finds, so there is one baseline (workloads.go:29-49).   *)
OneOpenSnapshot ==
  \A i, j \in Slots : Open(i) /\ Open(j) /\ snap[i].w = snap[j].w => i = j

(***************************************************************************)
(* Why BaselineKept holds: the inductive invariant of the runner.          *)
(***************************************************************************)
\* a workload this system put to sleep exists and is at zero
OwnedZero == \A w \in Workloads : owned[w] => w \in exists /\ replicas[w] = 0

\* an open row names a workload and, unless it was zero already, a positive baseline
RowShape ==
  \A i \in Slots : Open(i) => snap[i].w \in Workloads /\ (snap[i].zero \/ snap[i].base > 0)

\* at a step that writes to the cluster or to a row, the worker still holds the
\* open row of its workload; it scales down or restores only a positive one, and
\* closes a row only once the workload does not depend on it
RowHeld(w) ==
  /\ worker[w] = "persist" /\ job.held[w] = NoSlot => OpenOf(w) = {}
  /\ worker[w] = "persist" /\ job.held[w] # NoSlot => job.held[w] \in OpenOf(w)
  /\ worker[w] \notin {"idle", "done", "persist"} => job.held[w] \in OpenOf(w)
  /\ worker[w] \in {"scale", "restore", "check", "quash", "force"} => ~snap[job.held[w]].zero
  /\ worker[w] \in {"close", "gone"} => ~owned[w]

(* Everything the loss of a baseline would have to go through: the workers'  *)
(* rows are the open rows of their workloads, one each, with a positive      *)
(* baseline wherever a workload is scaled to zero or depends on the row      *)
(* (workloads.go:26-151, policy_scaler.go:410-475, admin.go:227-259).        *)
RowsInv ==
  /\ OwnedZero /\ RowShape
  /\ OneOpenSnapshot /\ BaselineKept
  /\ \A w \in Workloads : RowHeld(w)

(***************************************************************************)
(* Why an execution that reports success has done what it reports.         *)
(***************************************************************************)
\* which executions take which steps, and only while they work on workloads
Duty ==
  \A w \in Workloads :
    /\ worker[w] \in {"persist", "scale"} => job.kind = "sleep"
    /\ worker[w] = "mark" => job.kind \in {"sleep", "enforce"}
    /\ worker[w] \in {"lookup", "restore"} => job.kind = "wake"
    /\ worker[w] \in {"close", "gone"} => job.kind \in {"wake", "emergency"}
    /\ worker[w] \in {"check", "quash"} => job.kind = "enforce"
    /\ worker[w] = "force" => job.kind = "emergency"
    /\ worker[w] \notin {"idle", "done"} => job.stage = "work"

\* an execution of the whole policy that has nothing to report yet
Flawless(kind) ==
  job.kind = kind /\ job.apply /\ ~job.scoped /\ ~job.errors /\ ~job.cancelled

\* a workload nobody else intervened with: it runs its original number of replicas
\* or none, its open row remembers that number, it is down only while it has a row,
\* and an execution that is done with it has moved it
Intact(w) ==
  /\ w \in exists /\ shield[w] = "none" /\ worker[w] \notin {"force", "gone"}
  /\ replicas[w] \in {0, orig[w]}
  /\ OpenOf(w) = {} => replicas[w] = orig[w]
  /\ \A i \in OpenOf(w) : snap[i].base = orig[w] /\ (snap[i].zero <=> orig[w] = 0)
  /\ worker[w] \in {"persist", "scale"} => job.listed[w] = replicas[w]
  /\ worker[w] = "close" => replicas[w] = orig[w]
  /\ Flawless("sleep") /\ worker[w] \in {"idle", "done", "mark"} => replicas[w] = 0
  /\ Flawless("wake") /\ worker[w] \in {"idle", "done"} => replicas[w] = orig[w]

\* a sleep that will go on to the nodes still works on every prepared row
IntentsServed ==
  job.apply /\ \/ job.stage = "nodes"
               \/ /\ job.kind = "sleep" /\ job.stage = "work"
                  /\ ~job.errors /\ ~job.cancelled /\ ~job.skipNodes
    => \A i \in Restorable : snap[i].phase = "prepared" =>
         worker[snap[i].w] \in {"persist", "scale", "mark"}

OutcomeInv ==
  /\ Duty /\ IntentsServed
  /\ \A w \in Workloads : ~touched[w] => Intact(w)

(* Nodes are drained only when every sleep intent of the policy has been     *)
(* carried out: none is still merely "prepared", also outside the selection  *)
(* of this execution (policy_scaler.go:231-247; reliability-review.md:13).   *)
NodesAfterSleep ==
  job.stage = "nodes" => \A i \in Restorable : job.apply => snap[i].phase = "applied"

(* A sleep of the whole policy that reports success has every workload at    *)
(* zero, unless another actor or an exception intervened, also when earlier  *)
(* executions crashed, failed or lost an answer (policy_scaler.go:159-260).  *)
SleepSuccessComplete ==
  Success /\ job.kind = "sleep" /\ job.apply /\ ~job.scoped =>
    \A w \in Workloads : ~touched[w] => replicas[w] = 0

(* A wake of the whole policy that reports success has every workload back   *)
(* at its original replica count, unless another actor, an exception or an   *)
(* emergency restore intervened, after any history of crashes, ambiguous     *)
(* calls and repeated sleeps (policy_scaler.go:262-326, workloads.go:79-151).*)
WakeSuccessExact ==
  Success /\ job.kind = "wake" /\ job.apply /\ ~job.scoped =>
    \A w \in Workloads : ~touched[w] => replicas[w] = orig[w]

(* The emergency restore brings every sleeping workload to at least one      *)
(* replica: it never lowers a replica count (admin.go:99-100, 227-259;       *)
(* feature-policy-based-scaling.md:55).                                      *)
EmergencyNeverScalesDown ==
  [][\A w \in Workloads : worker[w] = "force" /\ worker'[w] # "force"
       => replicas'[w] >= replicas[w]]_vars

=============================================================================
