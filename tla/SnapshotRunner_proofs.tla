------------------------ MODULE SnapshotRunner_proofs ------------------------
(* Machine-checked theorems about SnapshotRunner. *)
EXTENDS SnapshotRunner, TLAPS

(* The choice of an open snapshot finds one whenever there is one.            *)
LEMMA HeldFinds ==
  ASSUME NEW w \in Workloads
  PROVE  /\ Held(w) \in Slots \cup {NoSlot}
         /\ Held(w) # NoSlot => Held(w) \in OpenOf(w)
         /\ Held(w) = NoSlot => OpenOf(w) = {}
<1>1. CASE OpenOf(w) = {}
  BY <1>1 DEF Held
<1>2. CASE OpenOf(w) # {}
  <2>1. PICK i : i \in OpenOf(w)
    BY <1>2
  <2>2. (CHOOSE j \in OpenOf(w) : TRUE) \in OpenOf(w)
    BY <2>1
  <2>3. Held(w) \in OpenOf(w)
    BY <1>2, <2>2 DEF Held
  <2>4. OpenOf(w) \subseteq Slots
    BY DEF OpenOf
  <2> QED
    BY <2>3, <2>4, NoneAssumption
<1> QED
  BY <1>1, <1>2

(* The updates an action makes to the execution keep it in its type.          *)
LEMMA JobUpdates ==
  ASSUME TypeOK
  PROVE  /\ [job EXCEPT !.errors = TRUE] \in JobType
         /\ [job EXCEPT !.cancelled = TRUE] \in JobType
         /\ \A s \in {"nodes", "done"} : [job EXCEPT !.stage = s] \in JobType
         /\ [job EXCEPT !.stage = "done", !.errors = TRUE] \in JobType
         /\ \A w \in Workloads, i \in Slots : [job EXCEPT !.held[w] = i] \in JobType
BY DEF TypeOK, JobType

(* The same for the snapshot rows.                                            *)
LEMMA SnapUpdates ==
  ASSUME TypeOK, NEW i \in Slots
  PROVE  /\ [snap EXCEPT ![i].phase = "applied"] \in [Slots -> SnapType]
         /\ [snap EXCEPT ![i] = NoSnap] \in [Slots -> SnapType]
         /\ \A w \in Workloads, n \in Nat :
              [snap EXCEPT ![i] = [phase |-> "prepared", w |-> w, base |-> n, zero |-> (n = 0)]]
                \in [Slots -> SnapType]
BY DEF TypeOK, SnapType, NoSnap

(* A step of a worker keeps worker and job in their types.                    *)
LEMMA AdvanceType ==
  ASSUME TypeOK, NEW w \in Workloads
  PROVE  /\ \A pc \in WorkerType : Advance(w, pc) => worker' \in [Workloads -> WorkerType]
         /\ Succeed(w) => job' \in JobType /\ worker' \in [Workloads -> WorkerType]
         /\ Fail(w) => job' \in JobType /\ worker' \in [Workloads -> WorkerType]
         /\ OpFails(w) => /\ job' \in JobType /\ worker' \in [Workloads -> WorkerType]
                         /\ faults' \in Nat
<1>1. \A pc \in WorkerType : Advance(w, pc) => worker' \in [Workloads -> WorkerType]
  BY DEF TypeOK, Advance
<1>2. "done" \in WorkerType
  BY DEF WorkerType
<1>3. Succeed(w) => job' \in JobType /\ worker' \in [Workloads -> WorkerType]
  BY <1>1, <1>2 DEF TypeOK, Succeed
<1>4. Fail(w) => job' \in JobType /\ worker' \in [Workloads -> WorkerType]
  BY <1>1, <1>2, JobUpdates DEF Fail
<1>5. Fault => faults' \in Nat
  BY DEF TypeOK, Fault
<1> QED
  BY <1>1, <1>3, <1>4, <1>5 DEF OpFails

(* A scale call, whatever its outcome, keeps the cluster in its types.        *)
LEMMA ScaleType ==
  ASSUME TypeOK, NEW w \in Workloads, NEW n \in Nat, ScaleSucceeds(w, n) \/ ScaleFails(w, n)
  PROVE  /\ exists' \in SUBSET Workloads
         /\ replicas' \in [Workloads -> Nat]
         /\ owned' \in [Workloads -> BOOLEAN]
         /\ faults' \in Nat
<1>1. Write(w, n) => /\ exists' \in SUBSET Workloads
                     /\ replicas' \in [Workloads -> Nat]
                     /\ owned' \in [Workloads -> BOOLEAN]
  BY DEF Write, TypeOK
<1>2. UNCHANGED cluster => /\ exists' \in SUBSET Workloads
                           /\ replicas' \in [Workloads -> Nat]
                           /\ owned' \in [Workloads -> BOOLEAN]
  BY DEF cluster, TypeOK
<1>3. faults' \in Nat
  BY DEF ScaleSucceeds, ScaleFails, Fault, TypeOK
<1> QED
  BY <1>1, <1>2, <1>3 DEF ScaleSucceeds, ScaleFails

(* Every step keeps every variable in its type.                               *)
LEMMA TypeStep ==
  TypeOK /\ RowsInv /\ [Next]_vars => TypeOK'
<1> SUFFICES ASSUME TypeOK, RowsInv, [Next]_vars
             PROVE  TypeOK'
  OBVIOUS
<1> USE NoneAssumption, ReplicasAssumption, BoundAssumption
<1>a. /\ NoJob \in JobType /\ NoSnap \in SnapType
      /\ NoProgress \in [Workloads -> WorkerType]
  BY DEF NoJob, NoSnap, NoProgress, JobType, SnapType, WorkerType
<1>h. /\ \A W \in SUBSET Workloads : HeldBy(W) \in [Workloads -> Slots \cup {NoSlot}]
      /\ Unlisted \in [Workloads -> Nat]
  BY HeldFinds DEF HeldBy, Unlisted
<1>j. ASSUME NEW kind \in {"sleep", "wake", "enforce", "emergency"}, NEW apply \in BOOLEAN,
             NEW scoped \in BOOLEAN, NEW listed \in [Workloads -> Nat],
             NEW held \in [Workloads -> Slots \cup {NoSlot}],
             NEW skipNodes \in BOOLEAN, NEW errors \in BOOLEAN
      PROVE  Job(kind, apply, scoped, listed, held, skipNodes, errors) \in JobType
  BY DEF Job, JobType
<1>1. ASSUME NEW apply \in BOOLEAN, NEW scoped \in BOOLEAN, NEW forced \in BOOLEAN,
             NEW scope \in SUBSET Workloads, NEW absent \in SUBSET Workloads,
             BeginSleep(apply, scoped, forced, scope, absent)
      PROVE  TypeOK'
  <2>1. job' \in JobType
    BY <1>1, <1>h, <1>j, ZenonT(60) DEF BeginSleep, TypeOK
  <2> QED
    BY <1>1, <2>1 DEF BeginSleep, TypeOK, WorkerType, Fault, cluster, ghosts
<1>2. ASSUME NEW apply \in BOOLEAN, NEW scoped \in BOOLEAN, NEW scope \in SUBSET Workloads,
             BeginWake(apply, scoped, scope)
      PROVE  TypeOK'
  <2>1. job' \in JobType
    <3>1. PICK failed \in BOOLEAN : job' = Job("wake", apply, scoped, Unlisted,
                                               HeldBy(Workloads), FALSE, failed)
      BY <1>2 DEF BeginWake
    <3> QED
      BY <3>1, <1>h, <1>j
  <2>2. worker' \in [Workloads -> WorkerType]
    BY <1>2 DEF BeginWake, WorkerType
  <2>3. faults' \in Nat
    BY <1>2 DEF BeginWake, Fault, TypeOK
  <2> QED
    BY <1>2, <2>1, <2>2, <2>3 DEF BeginWake, TypeOK, cluster, ghosts
<1>3. ASSUME NEW apply \in BOOLEAN, BeginEnforce(apply)
      PROVE  TypeOK'
  <2>1. job' \in JobType
    BY <1>3, <1>h, <1>j DEF BeginEnforce, TypeOK
  <2> QED
    BY <1>3, <2>1 DEF BeginEnforce, TypeOK, WorkerType, cluster, ghosts
<1>4. CASE BeginEmergency
  <2>1. job' \in JobType
    BY <1>4, <1>h, <1>j DEF BeginEmergency, TypeOK
  <2>2. touched' \in [Workloads -> BOOLEAN]
    BY <1>4, Zenon DEF BeginEmergency
  <2>3. worker' \in [Workloads -> WorkerType]
    BY <1>4 DEF BeginEmergency, WorkerType
  <2>4. Meddle /\ UNCHANGED <<cluster, snap, shield, goal, faults, orig>>
    BY <1>4 DEF BeginEmergency
  <2> QED
    BY <2>1, <2>2, <2>3, <2>4 DEF TypeOK, Meddle, cluster
<1>5. ASSUME NEW w \in Workloads, WorkerStep(w)
      PROVE  TypeOK'
  <2> USE <1>5, AdvanceType DEF WorkerType
  <2>1. CASE Skips(w)
    BY <2>1 DEF Skips, TypeOK, cluster, ghosts
  <2>2. CASE Persist(w)
    <3>1. job.listed[w] \in Nat
      BY DEF TypeOK, JobType
    <3>2. worker' \in [Workloads -> WorkerType]
      BY <2>2 DEF Persist, AfterRow, CreateFails
    <3>3. job' \in JobType
      BY <2>2, JobUpdates DEF Persist, KeepsRow, CreateFails, TypeOK
    <3>4. snap' \in [Slots -> SnapType]
      <4>1. \/ snap' = snap
            \/ \E i \in Slots : snap' = [snap EXCEPT ![i] =
                 [phase |-> "prepared", w |-> w, base |-> job.listed[w], zero |-> (job.listed[w] = 0)]]
        BY <2>2 DEF Persist, KeepsRow
      <4>2. ASSUME NEW i \in Slots
            PROVE  [snap EXCEPT ![i] = [phase |-> "prepared", w |-> w, base |-> job.listed[w],
                                        zero |-> (job.listed[w] = 0)]] \in [Slots -> SnapType]
        BY <3>1, SnapUpdates
      <4> QED
        BY <4>1, <4>2 DEF TypeOK
    <3>5. faults' \in Nat
      BY <2>2 DEF Persist, KeepsRow, CreateFails, TypeOK
    <3> QED
      BY <2>2, <3>2, <3>3, <3>4, <3>5 DEF Persist, TypeOK, cluster, ghosts
  <2>3. CASE SleepScale(w)
    <3>1. job' \in JobType /\ worker' \in [Workloads -> WorkerType]
      BY <2>3 DEF SleepScale, TypeOK
    <3> QED
      BY <2>3, <3>1, ScaleType DEF SleepScale, TypeOK, ghosts
  <2>4. CASE Mark(w)
    BY <2>4, SnapUpdates DEF Mark, TypeOK, JobType, cluster, ghosts
  <2>5. CASE Lookup(w)
    BY <2>5 DEF Lookup, NextIfGone, TypeOK, cluster, ghosts
  <2>6. CASE Restore(w)
    <3>1. job.held[w] \in Slots
      BY <2>6 DEF Restore, RowsInv, RowHeld, OpenOf
    <3>2. snap[job.held[w]].base \in Nat
      BY <3>1 DEF TypeOK, SnapType
    <3>3. job' \in JobType /\ worker' \in [Workloads -> WorkerType]
      BY <2>6 DEF Restore, TypeOK
    <3> QED
      BY <2>6, <3>2, <3>3, ScaleType DEF Restore, TypeOK, ghosts
  <2>7. CASE Close(w)
    <3>1. snap' \in [Slots -> SnapType]
      BY <2>7, <1>a DEF Close, TypeOK
    <3>2. job' \in JobType /\ worker' \in [Workloads -> WorkerType] /\ faults' \in Nat
      BY <2>7 DEF Close, TypeOK
    <3> QED
      BY <2>7, <3>1, <3>2 DEF Close, TypeOK, cluster, ghosts
  <2>8. CASE Check(w)
    BY <2>8 DEF Check, TypeOK, cluster, ghosts
  <2>9. CASE Quash(w)
    BY <2>9, ScaleType DEF Quash, TypeOK, ghosts
  <2>10. CASE ScaleToOne(w)
    BY <2>10, ScaleType DEF ScaleToOne, TypeOK, cluster, ghosts
  <2> QED
    BY <1>5, <2>1, <2>2, <2>3, <2>4, <2>5, <2>6, <2>7, <2>8, <2>9, <2>10 DEF WorkerStep
<1>6. CASE JobStep
  <2>1. CASE WorkDone
    BY <2>1, JobUpdates DEF WorkDone, TypeOK, cluster, ghosts
  <2>2. CASE NodesDone
    BY <2>2, JobUpdates DEF NodesDone, TypeOK, Fault, cluster, ghosts
  <2>3. CASE End
    BY <2>3, <1>a DEF End, TypeOK, cluster, ghosts
  <2> QED
    BY <1>6, <2>1, <2>2, <2>3 DEF JobStep
<1>7. CASE Cancel \/ Crash
  <2>1. CASE Cancel
    BY <2>1, JobUpdates DEF Cancel, TypeOK, Fault, cluster, ghosts
  <2>2. CASE Crash
    BY <2>2, <1>a DEF Crash, TypeOK, Fault, cluster, ghosts
  <2> QED
    BY <1>7, <2>1, <2>2
<1>8. CASE Others
  <2> USE DEF TypeOK, Touch, Meddle
  <2>1. ASSUME NEW w \in Workloads, NEW n \in Replicas, ExternalScale(w, n)
        PROVE  TypeOK'
    BY <2>1 DEF ExternalScale
  <2>2. ASSUME NEW w \in Workloads, NEW n \in Replicas, ExternalCreate(w, n)
        PROVE  TypeOK'
    BY <2>2 DEF ExternalCreate
  <2>3. ASSUME NEW w \in Workloads, ExternalDelete(w)
        PROVE  TypeOK'
    BY <2>3 DEF ExternalDelete
  <2>4. ASSUME NEW w \in Workloads, NEW e \in {"none", "stay_awake", "force_sleep"},
               ExceptionChanges(w, e)
        PROVE  TypeOK'
    BY <2>4 DEF ExceptionChanges, cluster
  <2>5. CASE GoalFlips
    BY <2>5 DEF GoalFlips, cluster, ghosts
  <2> QED
    BY <1>8, <2>1, <2>2, <2>3, <2>4, <2>5 DEF Others
<1>9. CASE UNCHANGED vars
  BY <1>9 DEF vars, TypeOK
<1> QED
  BY <1>1, <1>2, <1>3, <1>4, <1>5, <1>6, <1>7, <1>8, <1>9 DEF Next, Begin

-----------------------------------------------------------------------------
(***************************************************************************)
(* RowsInv is inductive.  A step disturbs the rows, the cluster or the     *)
(* progress of one worker; the frame lemmas dispose of what it leaves      *)
(* alone.                                                                  *)
(***************************************************************************)
(* A step that writes no row leaves the rows as they were.                    *)
LEMMA RowsFrame ==
  ASSUME RowsInv, UNCHANGED snap
  PROVE  /\ RowShape' /\ OneOpenSnapshot'
         /\ \A w \in Workloads : OpenOf(w)' = OpenOf(w)
BY DEF RowsInv, RowShape, OneOpenSnapshot, OpenOf, Open

(* A step that writes neither rows nor the cluster.                           *)
LEMMA ClusterFrame ==
  ASSUME RowsInv, UNCHANGED cluster
  PROVE  OwnedZero' /\ (UNCHANGED snap => BaselineKept')
BY DEF RowsInv, OwnedZero, BaselineKept, cluster

(* A worker that a step does not move keeps its hold on its row.              *)
LEMMA WorkerFrame ==
  ASSUME RowsInv, UNCHANGED snap, NEW v \in Workloads, worker'[v] = worker[v],
         job'.held[v] = job.held[v], owned'[v] = owned[v]
  PROVE  RowHeld(v)'
BY RowsFrame DEF RowsInv, RowHeld

(* A scale call touches one workload, keeps what BaselineKept needs when the  *)
(* worker holds a positive row, and a completed one to a positive count ends  *)
(* the dependency on the row.                                                 *)
LEMMA ScaleKeeps ==
  ASSUME TypeOK, RowsInv, UNCHANGED snap, NEW w \in Workloads, NEW n \in Nat,
         ScaleSucceeds(w, n) \/ ScaleFails(w, n),
         job.held[w] \in OpenOf(w), ~snap[job.held[w]].zero
  PROVE  /\ OwnedZero' /\ BaselineKept'
         /\ \A v \in Workloads \ {w} : owned'[v] = owned[v]
         /\ ScaleSucceeds(w, n) /\ n > 0 => ~owned'[w]
<1>1. CASE UNCHANGED cluster
  <2>1. OwnedZero' /\ BaselineKept' /\ \A v \in Workloads \ {w} : owned'[v] = owned[v]
    BY <1>1, ClusterFrame DEF cluster
  <2>2. Write(w, n) => (owned'[w] => n = 0)
    BY DEF Write, TypeOK
  <2> QED
    BY <2>1, <2>2 DEF ScaleSucceeds
<1>2. CASE Write(w, n)
  <2>1. \A v \in Workloads \ {w} : owned'[v] = owned[v] /\ replicas'[v] = replicas[v]
    BY <1>2 DEF Write, TypeOK
  <2>2. owned'[w] => n = 0
    BY <1>2 DEF Write, TypeOK
  <2>3. replicas'[w] = n /\ exists' = exists /\ w \in exists
    BY <1>2 DEF Write, TypeOK
  <2>4. OwnedZero'
    <3> SUFFICES ASSUME NEW v \in Workloads, owned'[v]
                 PROVE  v \in exists' /\ replicas'[v] = 0
      BY DEF OwnedZero
    <3>1. CASE v = w
      BY <2>2, <2>3, <3>1
    <3>2. CASE v # w
      BY <2>1, <2>3, <3>2 DEF RowsInv, OwnedZero
    <3> QED
      BY <3>1, <3>2
  <2>5. \E i \in Slots : snap[i].phase # "none" /\ snap[i].w = w /\ ~snap[i].zero /\ snap[i].base > 0
    BY DEF RowsInv, RowShape, OpenOf, Open
  <2>6. BaselineKept'
    BY <2>1, <2>5 DEF RowsInv, BaselineKept
  <2> QED
    BY <2>1, <2>2, <2>4, <2>6
<1> QED
  BY <1>1, <1>2 DEF ScaleSucceeds, ScaleFails

(* What a worker's outcomes do to its own progress and to nothing else.       *)
LEMMA Outcomes ==
  ASSUME TypeOK, NEW w \in Workloads
  PROVE  /\ \A pc : Advance(w, pc) => worker'[w] = pc
                      /\ \A v \in Workloads \ {w} : worker'[v] = worker[v]
         /\ Succeed(w) \/ Fail(w) \/ OpFails(w) =>
              /\ worker'[w] = "done" /\ job'.held = job.held
              /\ \A v \in Workloads \ {w} : worker'[v] = worker[v]
BY DEF Advance, Succeed, Fail, OpFails, TypeOK, JobType

(* A worker step that writes neither rows nor the cluster.                    *)
LEMMA QuietStep ==
  ASSUME TypeOK, RowsInv, NEW w \in Workloads, UNCHANGED <<cluster, snap>>,
         \A v \in Workloads \ {w} : worker'[v] = worker[v], job'.held = job.held,
         RowHeld(w)'
  PROVE  RowsInv'
<1>1. OwnedZero' /\ RowShape' /\ OneOpenSnapshot' /\ BaselineKept'
  BY RowsFrame, ClusterFrame
<1>2. ASSUME NEW v \in Workloads \ {w}
      PROVE  RowHeld(v)'
  BY <1>2, WorkerFrame DEF cluster
<1> QED
  BY <1>1, <1>2 DEF RowsInv

(* A worker that is done holds nothing.                                       *)
LEMMA DoneHolds ==
  ASSUME NEW w \in Workloads, worker'[w] = "done"
  PROVE  RowHeld(w)'
BY DEF RowHeld

(* A worker step that scales its workload while it holds a positive row.      *)
LEMMA ScaleStep ==
  ASSUME TypeOK, RowsInv, NEW w \in Workloads, NEW n \in Nat, UNCHANGED snap,
         ScaleSucceeds(w, n) \/ ScaleFails(w, n),
         job.held[w] \in OpenOf(w), ~snap[job.held[w]].zero,
         \A v \in Workloads \ {w} : worker'[v] = worker[v], job'.held = job.held,
         \/ worker'[w] \in {"done", "mark"}
         \/ worker'[w] = "close" /\ ScaleSucceeds(w, n) /\ n > 0
  PROVE  RowsInv'
<1>1. OwnedZero' /\ RowShape' /\ OneOpenSnapshot' /\ BaselineKept'
  BY RowsFrame, ScaleKeeps
<1>2. ASSUME NEW v \in Workloads \ {w}
      PROVE  RowHeld(v)'
  BY <1>2, WorkerFrame, ScaleKeeps
<1>3. job'.held[w] \in OpenOf(w)'
  BY RowsFrame
<1>4. RowHeld(w)'
  BY <1>3, ScaleKeeps DEF RowHeld
<1> QED
  BY <1>1, <1>2, <1>4 DEF RowsInv

(* Every step of a worker keeps the invariant.                                *)
LEMMA WorkerRows ==
  ASSUME TypeOK, RowsInv, NEW w \in Workloads, WorkerStep(w)
  PROVE  RowsInv'
<1> USE Outcomes
<1>h. RowHeld(w)
  BY DEF RowsInv
<1>o. UNCHANGED snap => OpenOf(w)' = OpenOf(w)
  BY RowsFrame
<1>1. CASE Skips(w)
  BY <1>1, QuietStep, DoneHolds DEF Skips
<1>2. CASE SleepScale(w)
  <2>1. job.held[w] \in OpenOf(w) /\ ~snap[job.held[w]].zero
    BY <1>2, <1>h DEF SleepScale, RowHeld
  <2> QED
    BY <1>2, <2>1, ScaleStep DEF SleepScale
<1>3. CASE Quash(w)
  <2>1. job.held[w] \in OpenOf(w) /\ ~snap[job.held[w]].zero
    BY <1>3, <1>h DEF Quash, RowHeld
  <2> QED
    BY <1>3, <2>1, ScaleStep DEF Quash
<1>4. CASE Restore(w)
  <2>1. job.held[w] \in OpenOf(w) /\ ~snap[job.held[w]].zero
    BY <1>4, <1>h DEF Restore, RowHeld
  <2>2. snap[job.held[w]].base \in Nat /\ snap[job.held[w]].base > 0
    BY <2>1 DEF RowsInv, RowShape, OpenOf, TypeOK, SnapType
  <2> QED
    BY <1>4, <2>1, <2>2, ScaleStep DEF Restore
<1>5. CASE ScaleToOne(w)
  <2>1. job.held[w] \in OpenOf(w) /\ ~snap[job.held[w]].zero
    BY <1>5, <1>h DEF ScaleToOne, RowHeld
  <2>2. CASE w \notin exists /\ Advance(w, "gone") /\ UNCHANGED <<cluster, job, snap>>
    <3>1. ~owned'[w]
      BY <2>2 DEF RowsInv, OwnedZero, cluster
    <3>2. RowHeld(w)'
      BY <2>1, <2>2, <3>1, <1>o DEF RowHeld
    <3> QED
      BY <2>2, <3>2, QuietStep
  <2>3. CASE ScaleSucceeds(w, 1) /\ Advance(w, "close") /\ UNCHANGED <<job, snap>>
    BY <2>1, <2>3, ScaleStep
  <2>4. CASE ScaleFails(w, 1) /\ Fail(w) /\ UNCHANGED snap
    BY <2>1, <2>4, ScaleStep
  <2> QED
    BY <1>5, <2>2, <2>3, <2>4 DEF ScaleToOne
<1>6. CASE Lookup(w)
  <2>1. job.held[w] \in OpenOf(w)
    BY <1>6, <1>h DEF Lookup, RowHeld
  <2>2. job'.held = job.held /\ \A v \in Workloads \ {w} : worker'[v] = worker[v]
    BY <1>6 DEF Lookup
  <2>3. snap[job.held[w]].zero => ~owned[w]
    BY <2>1 DEF RowsInv, OneOpenSnapshot, BaselineKept, OpenOf, Open
  <2>4. ~snap[job.held[w]].zero /\ replicas[w] = snap[job.held[w]].base => ~owned[w]
    BY <2>1 DEF RowsInv, RowShape, OwnedZero, OpenOf
  <2>5. w \notin exists => ~owned[w]
    BY DEF RowsInv, OwnedZero
  <2>6. \/ worker'[w] = "done"
        \/ worker'[w] \in {"close", "gone"} /\ ~owned[w]
        \/ worker'[w] = "restore" /\ ~snap[job.held[w]].zero
    BY <1>6, <2>3, <2>4, <2>5 DEF Lookup, NextIfGone
  <2>7. UNCHANGED <<cluster, snap>>
    BY <1>6 DEF Lookup
  <2>8. RowHeld(w)'
    BY <2>1, <2>2, <2>6, <2>7, <1>o DEF RowHeld, cluster
  <2> QED
    BY <2>2, <2>7, <2>8, QuietStep
<1>7. CASE Check(w)
  <2>1. job.held[w] \in OpenOf(w) /\ ~snap[job.held[w]].zero
    BY <1>7, <1>h DEF Check, RowHeld
  <2>2. /\ job'.held = job.held /\ \A v \in Workloads \ {w} : worker'[v] = worker[v]
        /\ UNCHANGED <<cluster, snap>>
    BY <1>7 DEF Check
  <2>3. worker'[w] \in {"done", "quash", "mark"}
    BY <1>7 DEF Check
  <2>4. RowHeld(w)'
    BY <2>1, <2>2, <2>3, <1>o DEF RowHeld
  <2> QED
    BY <2>2, <2>4, QuietStep
<1>8. CASE Persist(w)
  <2>1. CASE UNCHANGED snap /\ (Succeed(w) \/ OpFails(w))
    BY <1>8, <2>1, QuietStep, DoneHolds DEF Persist
  <2>2. CASE /\ job.held[w] # NoSlot /\ UNCHANGED <<snap, job>>
             /\ \E pc : /\ Advance(w, pc) /\ pc \in {"done", "scale", "mark"}
                        /\ pc = "scale" => ~snap[job.held[w]].zero
    <3>1. job.held[w] \in OpenOf(w)
      BY <1>8, <1>h, <2>2 DEF Persist, RowHeld
    <3>2. RowHeld(w)'
      BY <2>2, <3>1, <1>o DEF RowHeld
    <3> QED
      BY <1>8, <2>2, <3>2, QuietStep DEF Persist
  <2>3. ASSUME NEW i \in Slots, ~Open(i), job.held[w] = NoSlot,
               job' = [job EXCEPT !.held[w] = i],
               snap' = [snap EXCEPT ![i] = [phase |-> "prepared", w |-> w,
                          base |-> job.listed[w], zero |-> (job.listed[w] = 0)]],
               Advance(w, IF job.listed[w] = 0 THEN "done"
                          ELSE IF job.listed[w] > 0 THEN "scale" ELSE "mark")
        PROVE  RowsInv'
    <3> DEFINE n == job.listed[w]
    <3>1. n \in Nat
      BY DEF TypeOK, JobType
    <3>2. OpenOf(w) = {}
      BY <1>8, <1>h, <2>3 DEF Persist, RowHeld
    <3>3. /\ snap'[i].phase = "prepared" /\ snap'[i].w = w /\ snap'[i].base = n
          /\ snap'[i].zero <=> (n = 0)
          /\ \A j \in Slots \ {i} : snap'[j] = snap[j]
      BY <2>3 DEF TypeOK
    <3>4. job'.held[w] = i /\ \A v \in Workloads \ {w} : job'.held[v] = job.held[v]
      BY <2>3 DEF TypeOK, JobType
    <3>5. RowShape'
      <4>1. n = 0 \/ n > 0
        BY <3>1
      <4> HIDE DEF n
      <4> QED
        BY <3>3, <4>1 DEF RowsInv, RowShape, Open
    <3>6. OneOpenSnapshot'
      BY <3>2, <3>3 DEF RowsInv, OneOpenSnapshot, OpenOf, Open
    <3>7. UNCHANGED cluster
      BY <1>8 DEF Persist
    <3>8. OwnedZero' /\ BaselineKept'
      BY <2>3, <3>3, <3>7, ClusterFrame DEF RowsInv, BaselineKept, Open, cluster
    <3>9. ASSUME NEW v \in Workloads \ {w}
          PROVE  RowHeld(v)'
      <4>1. OpenOf(v)' = OpenOf(v)
        BY <2>3, <3>3 DEF OpenOf, Open
      <4>2. worker'[v] = worker[v]
        BY <2>3
      <4>3. \A j \in OpenOf(v) : snap'[j] = snap[j]
        BY <2>3, <3>3 DEF OpenOf
      <4> QED
        BY <3>4, <3>7, <4>1, <4>2, <4>3 DEF RowsInv, RowHeld, cluster
    <3>10. RowHeld(w)'
      <4>1. job'.held[w] \in OpenOf(w)'
        BY <3>3, <3>4 DEF OpenOf, Open
      <4>2. worker'[w] = IF n = 0 THEN "done" ELSE IF n > 0 THEN "scale" ELSE "mark"
        BY <2>3
      <4>3. worker'[w] = "done" \/ (worker'[w] = "scale" /\ n # 0)
        BY <3>1, <4>2
      <4> HIDE DEF n
      <4> QED
        BY <3>3, <3>4, <4>1, <4>3 DEF RowHeld
    <3> QED
      BY <3>5, <3>6, <3>8, <3>9, <3>10 DEF RowsInv
  <2> QED
    BY <1>8, <2>1, <2>2, <2>3 DEF Persist, Reuses, KeepsRow, CreateFails, AfterRow
<1>9. CASE Mark(w)
  <2>1. CASE UNCHANGED snap
    BY <1>9, <2>1, QuietStep, DoneHolds DEF Mark
  <2>2. CASE snap' = [snap EXCEPT ![job.held[w]].phase = "applied"] /\ Succeed(w)
    <3> DEFINE i == job.held[w]
    <3>1. i \in OpenOf(w)
      BY <1>9, <1>h DEF Mark, RowHeld
    <3>2. \A j \in Slots : /\ snap'[j].phase = IF j = i THEN "applied" ELSE snap[j].phase
                           /\ snap'[j].w = snap[j].w /\ snap'[j].base = snap[j].base
                           /\ snap'[j].zero = snap[j].zero
      BY <2>2, <3>1 DEF TypeOK, SnapType, OpenOf
    <3>3. \A j \in Slots : Open(j)' = Open(j)
      BY <3>1, <3>2 DEF OpenOf, Open
    <3>4. RowShape' /\ OneOpenSnapshot'
      BY <3>2, <3>3 DEF RowsInv, RowShape, OneOpenSnapshot
    <3>5. UNCHANGED cluster
      BY <1>9 DEF Mark
    <3>6. OwnedZero' /\ BaselineKept'
      BY <3>2, <3>3, <3>5, ClusterFrame DEF RowsInv, BaselineKept, Open, cluster
    <3>7. ASSUME NEW v \in Workloads \ {w}
          PROVE  RowHeld(v)'
      <4>1. OpenOf(v)' = OpenOf(v)
        BY <3>2, <3>3 DEF OpenOf
      <4>2. worker'[v] = worker[v] /\ job'.held[v] = job.held[v]
        BY <2>2
      <4>3. \A j \in OpenOf(v) : snap'[j].zero = snap[j].zero
        BY <3>2 DEF OpenOf
      <4> QED
        BY <3>5, <4>1, <4>2, <4>3 DEF RowsInv, RowHeld, cluster
    <3> QED
      BY <2>2, <3>4, <3>6, <3>7, DoneHolds DEF RowsInv
  <2> QED
    BY <1>9, <2>1, <2>2 DEF Mark
<1>10. CASE Close(w)
  <2>1. CASE UNCHANGED snap
    BY <1>10, <2>1, QuietStep, DoneHolds DEF Close
  <2>2. CASE snap' = [snap EXCEPT ![job.held[w]] = NoSnap] /\ Succeed(w)
    <3> DEFINE i == job.held[w]
    <3>1. i \in OpenOf(w) /\ ~owned[w]
      BY <1>10, <1>h DEF Close, RowHeld
    <3>2. snap'[i] = NoSnap /\ \A j \in Slots \ {i} : snap'[j] = snap[j]
      BY <2>2, <3>1 DEF TypeOK, OpenOf
    <3>3. RowShape' /\ OneOpenSnapshot'
      BY <3>2 DEF RowsInv, RowShape, OneOpenSnapshot, Open, NoSnap
    <3>4. UNCHANGED cluster
      BY <1>10 DEF Close
    <3>5. BaselineKept'
      BY <3>1, <3>2, <3>4 DEF RowsInv, BaselineKept, OpenOf, cluster
    <3>6. ASSUME NEW v \in Workloads \ {w}
          PROVE  RowHeld(v)'
      <4>1. OpenOf(v)' = OpenOf(v)
        BY <3>1, <3>2 DEF OpenOf, Open, NoSnap
      <4>2. worker'[v] = worker[v] /\ job'.held[v] = job.held[v]
        BY <2>2
      <4>3. \A j \in OpenOf(v) : snap'[j] = snap[j]
        BY <3>1, <3>2 DEF OpenOf
      <4> QED
        BY <3>4, <4>1, <4>2, <4>3 DEF RowsInv, RowHeld, cluster
    <3> QED
      BY <2>2, <3>3, <3>4, <3>5, <3>6, DoneHolds, ClusterFrame DEF RowsInv
  <2> QED
    BY <1>10, <2>1, <2>2 DEF Close
<1> QED
  BY <1>1, <1>2, <1>3, <1>4, <1>5, <1>6, <1>7, <1>8, <1>9, <1>10 DEF WorkerStep

(* An execution that starts holds the open row of each workload it takes on.  *)
LEMMA BeginRows ==
  ASSUME TypeOK, RowsInv, Begin
  PROVE  RowsInv'
<1>u. UNCHANGED <<cluster, snap>>
  <2>1. \A apply, scoped, forced, scope, absent :
          BeginSleep(apply, scoped, forced, scope, absent) => UNCHANGED <<cluster, snap>>
    BY DEF BeginSleep
  <2>2. \A apply, scoped, scope : BeginWake(apply, scoped, scope) => UNCHANGED <<cluster, snap>>
    BY DEF BeginWake
  <2>3. \A apply : BeginEnforce(apply) => UNCHANGED <<cluster, snap>>
    BY DEF BeginEnforce
  <2>4. BeginEmergency => UNCHANGED <<cluster, snap>>
    BY DEF BeginEmergency
  <2> QED
    BY <2>1, <2>2, <2>3, <2>4 DEF Begin
<1> SUFFICES ASSUME NEW w \in Workloads
             PROVE  RowHeld(w)'
  BY <1>u, RowsFrame, ClusterFrame DEF RowsInv
<1>1. ASSUME job'.held[w] = Held(w),
             \/ worker'[w] \in {"idle", "persist"}
             \/ worker'[w] = "lookup" /\ Held(w) # NoSlot
             \/ worker'[w] \in {"check", "force"} /\ Held(w) \in Restorable
      PROVE  RowHeld(w)'
  <2>1. OpenOf(w)' = OpenOf(w)
    BY <1>u, RowsFrame
  <2>2. Held(w) \in Restorable => Held(w) # NoSlot /\ ~snap[Held(w)].zero
    BY NoneAssumption DEF Restorable
  <2> QED
    BY <1>1, <1>u, <2>1, <2>2, HeldFinds DEF RowHeld
<1>2. HeldBy(Workloads)[w] = Held(w)
  BY DEF HeldBy
<1>3. ASSUME NEW apply \in BOOLEAN, NEW scoped \in BOOLEAN, NEW forced \in BOOLEAN,
             NEW scope \in SUBSET Workloads, NEW absent \in SUBSET Workloads,
             BeginSleep(apply, scoped, forced, scope, absent)
      PROVE  RowHeld(w)'
  <2>2. \/ worker'[w] = "idle"
        \/ worker'[w] = "persist" /\ job'.held[w] = Held(w)
    BY <1>3 DEF BeginSleep, Job, HeldBy
  <2>3. worker'[w] = "idle" => RowHeld(w)'
    BY DEF RowHeld
  <2> QED
    BY <2>2, <2>3, <1>1
<1>4. ASSUME NEW apply \in BOOLEAN, NEW scoped \in BOOLEAN, NEW scope \in SUBSET Workloads,
             BeginWake(apply, scoped, scope)
      PROVE  RowHeld(w)'
  <2>2. job'.held = HeldBy(Workloads)
    BY <1>4 DEF BeginWake, Job
  <2>3. worker'[w] = "idle" \/ (worker'[w] = "lookup" /\ Held(w) # NoSlot)
    BY <1>4 DEF BeginWake
  <2> QED
    BY <2>2, <2>3, <1>1, <1>2
<1>5. ASSUME NEW apply \in BOOLEAN, BeginEnforce(apply)
      PROVE  RowHeld(w)'
  <2>1. job'.held = HeldBy(Workloads)
    BY <1>5 DEF BeginEnforce, Job
  <2>2. worker'[w] = "idle" \/ (worker'[w] = "check" /\ Held(w) \in Restorable)
    BY <1>5 DEF BeginEnforce
  <2> QED
    BY <2>1, <2>2, <1>1, <1>2
<1>6. ASSUME BeginEmergency
      PROVE  RowHeld(w)'
  <2>1. job'.held = HeldBy(Workloads)
    BY <1>6 DEF BeginEmergency, Job
  <2>2. worker'[w] = "idle" \/ (worker'[w] = "force" /\ Held(w) \in Restorable)
    BY <1>6 DEF BeginEmergency
  <2> QED
    BY <2>1, <2>2, <1>1, <1>2
<1> QED
  BY <1>3, <1>4, <1>5, <1>6 DEF Begin

(* The end, the cancellation and the loss of an execution.                    *)
LEMMA JobRows ==
  ASSUME TypeOK, RowsInv, JobStep \/ Cancel \/ Crash
  PROVE  RowsInv'
<1>1. UNCHANGED <<cluster, snap>>
  BY DEF JobStep, WorkDone, NodesDone, End, Cancel, Crash
<1>2. ASSUME NEW w \in Workloads
      PROVE  RowHeld(w)'
  <2>1. CASE job' = NoJob /\ worker' = NoProgress
    BY <2>1 DEF NoProgress, RowHeld
  <2>2. CASE job'.held = job.held /\ worker' = worker
    BY <2>2, <1>1, WorkerFrame DEF cluster
  <2> QED
    BY <2>1, <2>2 DEF JobStep, WorkDone, NodesDone, End, Cancel, Crash, TypeOK, JobType
<1> QED
  BY <1>1, <1>2, RowsFrame, ClusterFrame DEF RowsInv

(* Other actors never create a dependency on a row.                           *)
LEMMA OthersRows ==
  ASSUME TypeOK, RowsInv, Others
  PROVE  RowsInv'
<1>1. UNCHANGED <<snap, job, worker>>
  BY DEF Others, ExternalScale, ExternalCreate, ExternalDelete, ExceptionChanges, GoalFlips
<1>2. ASSUME NEW v \in Workloads, owned'[v]
      PROVE  owned[v] /\ v \in exists' /\ replicas'[v] = 0
  <2>0. owned[v] => v \in exists /\ replicas[v] = 0
    BY DEF RowsInv, OwnedZero
  <2>1. ASSUME NEW w \in Workloads, NEW n \in Replicas, ExternalScale(w, n)
        PROVE  owned[v] /\ v \in exists' /\ replicas'[v] = 0
    BY <1>2, <2>0, <2>1 DEF ExternalScale, TypeOK
  <2>2. ASSUME NEW w \in Workloads, NEW n \in Replicas, ExternalCreate(w, n)
        PROVE  owned[v] /\ v \in exists' /\ replicas'[v] = 0
    BY <1>2, <2>0, <2>2 DEF ExternalCreate, TypeOK
  <2>3. ASSUME NEW w \in Workloads, ExternalDelete(w)
        PROVE  owned[v] /\ v \in exists' /\ replicas'[v] = 0
    BY <1>2, <2>0, <2>3 DEF ExternalDelete, TypeOK
  <2>4. ASSUME UNCHANGED cluster
        PROVE  owned[v] /\ v \in exists' /\ replicas'[v] = 0
    BY <1>2, <2>0, <2>4 DEF cluster
  <2> QED
    BY <2>1, <2>2, <2>3, <2>4 DEF Others, ExceptionChanges, GoalFlips
<1>3. OwnedZero' /\ BaselineKept'
  BY <1>1, <1>2 DEF RowsInv, OwnedZero, BaselineKept
<1>4. ASSUME NEW v \in Workloads
      PROVE  RowHeld(v)'
  <2>1. RowHeld(v)
    BY DEF RowsInv
  <2> QED
    BY <1>1, <1>2, <2>1, RowsFrame DEF RowHeld
<1> QED
  BY <1>1, <1>3, <1>4, RowsFrame DEF RowsInv

(* Every step keeps the invariant.                                            *)
LEMMA RowsStep ==
  TypeOK /\ RowsInv /\ [Next]_vars => RowsInv'
<1> SUFFICES ASSUME TypeOK, RowsInv, [Next]_vars
             PROVE  RowsInv'
  OBVIOUS
<1>1. CASE UNCHANGED vars
  BY <1>1, RowsFrame, ClusterFrame, WorkerFrame DEF RowsInv, vars, cluster
<1> QED
  BY <1>1, BeginRows, WorkerRows, JobRows, OthersRows DEF Next

(* The initial states satisfy the invariant.                                  *)
LEMMA RowsInit ==
  Init => TypeOK /\ RowsInv
<1> SUFFICES ASSUME Init
             PROVE  TypeOK /\ RowsInv
  OBVIOUS
<1>1. NoJob \in JobType /\ NoSnap \in SnapType /\ NoProgress \in [Workloads -> WorkerType]
  BY NoneAssumption DEF NoJob, NoSnap, NoProgress, JobType, SnapType, WorkerType
<1>2. TypeOK
  BY <1>1, ReplicasAssumption DEF Init, TypeOK
<1>3. \A i \in Slots : ~Open(i)
  BY DEF Init, Open, NoSnap
<1>4. \A w \in Workloads : ~owned[w] /\ worker[w] = "idle"
  BY DEF Init, NoProgress
<1> QED
  BY <1>2, <1>3, <1>4 DEF RowsInv, OwnedZero, RowShape, OneOpenSnapshot, BaselineKept, RowHeld

(***************************************************************************)
(* The theorems.                                                           *)
(***************************************************************************)
(* The inductive invariant holds in every reachable state, for any number of  *)
(* workloads, rows, replica counts, faults and interventions: each worker of  *)
(* sleepWorkload, wakeWorkload, reconcileSnapshotSleep and                    *)
(* emergencyScaleSnapshots acts on the one open row of its workload.          *)
THEOREM RowsSafe == Spec => [](TypeOK /\ RowsInv)
  BY RowsInit, TypeStep, RowsStep, PTL DEF Spec

(* The runner's variables always hold values of their types (models.go).      *)
THEOREM TypeCorrect == Spec => []TypeOK
  BY RowsSafe, PTL

(* A workload that this system put to zero always has an open snapshot with a *)
(* positive replica count to restore, across crashes, lost answers, retries,  *)
(* cancellation, exceptions and other actors (workloads.go:26-151).           *)
THEOREM BaselineSafe == Spec => []BaselineKept
<1>1. RowsInv => BaselineKept
  BY DEF RowsInv
<1> QED
  BY <1>1, RowsSafe, PTL

(* There is never a second open snapshot of a workload, hence never a choice  *)
(* between two baselines (workloads.go:29-49, snapshots.go:32-56).            *)
THEOREM OneBaseline == Spec => []OneOpenSnapshot
<1>1. RowsInv => OneOpenSnapshot
  BY DEF RowsInv
<1> QED
  BY <1>1, RowsSafe, PTL

-----------------------------------------------------------------------------
(***************************************************************************)
(* OutcomeInv is inductive relative to TypeOK and RowsInv.  What an        *)
(* execution has read and decided stays fixed while its workers step; only *)
(* the error count grows.                                                  *)
(***************************************************************************)
\* the execution goes on: at most it counts an error or is cancelled
GoesOn ==
  /\ job'.kind = job.kind /\ job'.apply = job.apply /\ job'.scoped = job.scoped
  /\ job'.stage = job.stage /\ job'.listed = job.listed /\ job'.skipNodes = job.skipNodes
  /\ job.errors => job'.errors
  /\ job.cancelled => job'.cancelled

(* A worker's outcome leaves the execution going on, and a failure is         *)
(* counted (counts.Errors++, policy_scaler.go).                               *)
LEMMA OutcomeCounts ==
  ASSUME TypeOK, NEW w \in Workloads
  PROVE  /\ UNCHANGED job => GoesOn
         /\ Succeed(w) => GoesOn
         /\ Fail(w) \/ OpFails(w) => GoesOn /\ job'.errors
         /\ \A i : job' = [job EXCEPT !.held[w] = i] => GoesOn
BY DEF GoesOn, Succeed, Fail, OpFails, TypeOK, JobType

(* A scale call changes the replica count of its workload only, to what was   *)
(* asked for; it does so for certain when it succeeds.                        *)
LEMMA ScaleWrites ==
  ASSUME TypeOK, NEW w \in Workloads, NEW n \in Nat, ScaleSucceeds(w, n) \/ ScaleFails(w, n)
  PROVE  /\ exists' = exists
         /\ \A v \in Workloads \ {w} : replicas'[v] = replicas[v]
         /\ replicas'[w] \in {replicas[w], n}
         /\ ScaleSucceeds(w, n) => replicas'[w] = n
<1>1. Write(w, n) => /\ exists' = exists /\ replicas'[w] = n
                     /\ \A v \in Workloads \ {w} : replicas'[v] = replicas[v]
  BY DEF Write, TypeOK
<1>2. UNCHANGED cluster => exists' = exists /\ replicas' = replicas
  BY DEF cluster
<1> QED
  BY <1>1, <1>2 DEF ScaleSucceeds, ScaleFails

(* What one worker's step does beside its own workload: nothing.  In          *)
(* particular no worker writes to the row or the replicas of another          *)
(* workload (runConcurrent runs them side by side).                           *)
LEMMA WorkerLocal ==
  ASSUME TypeOK, RowsInv, NEW w \in Workloads, WorkerStep(w)
  PROVE  /\ GoesOn /\ UNCHANGED <<exists, shield, ghosts>>
         /\ job'.cancelled = job.cancelled
         /\ \A v \in Workloads \ {w} :
              /\ worker'[v] = worker[v] /\ replicas'[v] = replicas[v]
              /\ OpenOf(v)' = OpenOf(v)
              /\ \A i \in OpenOf(v) : snap'[i] = snap[i]
<1> DEFINE Beside == \A v \in Workloads \ {w} :
                       /\ worker'[v] = worker[v] /\ replicas'[v] = replicas[v]
                       /\ OpenOf(v)' = OpenOf(v)
                       /\ \A i \in OpenOf(v) : snap'[i] = snap[i]
<1>h. RowHeld(w)
  BY DEF RowsInv
<1>n. /\ job.held[w] \in OpenOf(w) => job.held[w] \in Slots /\ snap[job.held[w]].base \in Nat
      /\ 0 \in Nat /\ 1 \in Nat
  BY DEF OpenOf, TypeOK, SnapType
<1>s. ASSUME NEW pc, Advance(w, pc), UNCHANGED snap,
             \A v \in Workloads \ {w} : replicas'[v] = replicas[v]
      PROVE  Beside
  BY <1>s, Outcomes DEF OpenOf, Open
<1>q. ASSUME NEW pc, Advance(w, pc), UNCHANGED <<cluster, snap>>
      PROVE  Beside
  BY <1>q, <1>s DEF cluster
<1>c. ASSUME NEW i \in Slots, snap'[i].w \in {w, NoWorkload}, i \in OpenOf(w) \/ ~Open(i),
             snap'[i].w # w => snap'[i].phase = "none",
             \A j \in Slots \ {i} : snap'[j] = snap[j], NEW pc, Advance(w, pc),
             UNCHANGED cluster
      PROVE  Beside
  <2> SUFFICES ASSUME NEW v \in Workloads \ {w}
               PROVE  OpenOf(v)' = OpenOf(v) /\ \A j \in OpenOf(v) : snap'[j] = snap[j]
    BY <1>c, Outcomes DEF cluster
  <2>1. i \notin OpenOf(v) /\ i \notin OpenOf(v)'
    BY <1>c, NoneAssumption DEF OpenOf, Open
  <2> QED
    BY <1>c, <2>1 DEF OpenOf, Open
<1>d. /\ Succeed(w) => Advance(w, "done") /\ GoesOn /\ UNCHANGED job
      /\ Fail(w) => Advance(w, "done") /\ GoesOn /\ job'.cancelled = job.cancelled
      /\ OpFails(w) => Advance(w, "done") /\ GoesOn /\ job'.cancelled = job.cancelled
      /\ UNCHANGED job => GoesOn /\ job'.cancelled = job.cancelled
  BY OutcomeCounts DEF Succeed, Fail, OpFails, TypeOK, JobType
<1>g. UNCHANGED cluster => exists' = exists
  BY DEF cluster
<1>1. CASE Skips(w)
  BY <1>1, <1>d, <1>q, <1>g DEF Skips
<1>2. CASE SleepScale(w)
  BY <1>2, <1>d, <1>s, <1>n, ScaleWrites DEF SleepScale
<1>3. CASE Quash(w)
  BY <1>3, <1>d, <1>s, <1>n, ScaleWrites DEF Quash
<1>4. CASE Restore(w)
  <2>1. snap[job.held[w]].base \in Nat
    BY <1>4, <1>h, <1>n DEF Restore, RowHeld
  <2> QED
    BY <1>4, <2>1, <1>d, <1>s, ScaleWrites DEF Restore
<1>5. CASE ScaleToOne(w)
  <2>1. CASE Advance(w, "gone") /\ UNCHANGED <<cluster, job, snap>>
    BY <1>5, <2>1, <1>d, <1>q, <1>g DEF ScaleToOne
  <2> QED
    BY <1>5, <2>1, <1>d, <1>s, <1>n, ScaleWrites DEF ScaleToOne
<1>6. CASE Lookup(w)
  BY <1>6, <1>d, <1>q, <1>g DEF Lookup
<1>7. CASE Check(w)
  BY <1>7, <1>d, <1>q, <1>g DEF Check
<1>8. CASE Persist(w)
  <2>1. CASE UNCHANGED snap
    <3>1. \/ Succeed(w) \/ OpFails(w) \/ UNCHANGED job
          \/ \E i \in Slots : job' = [job EXCEPT !.held[w] = i]
      BY <1>8 DEF Persist, KeepsRow, CreateFails
    <3>2. GoesOn /\ job'.cancelled = job.cancelled
      BY <3>1, <1>d, OutcomeCounts DEF TypeOK, JobType
    <3>3. \/ Succeed(w) \/ OpFails(w)
          \/ Advance(w, AfterRow(w, snap[job.held[w]].zero))
          \/ Advance(w, AfterRow(w, job.listed[w] = 0))
      BY <1>8 DEF Persist, CreateFails
    <3>4. PICK pc : Advance(w, pc)
      BY <3>3, <1>d
    <3> QED
      BY <1>8, <2>1, <3>2, <3>4, <1>q, <1>g DEF Persist
  <2>2. ASSUME NEW i \in Slots, ~Open(i), job' = [job EXCEPT !.held[w] = i],
               snap' = [snap EXCEPT ![i] = [phase |-> "prepared", w |-> w,
                          base |-> job.listed[w], zero |-> (job.listed[w] = 0)]],
               NEW pc, Advance(w, pc)
        PROVE  Beside /\ GoesOn /\ job'.cancelled = job.cancelled
    <3>1. snap'[i].w = w /\ \A j \in Slots \ {i} : snap'[j] = snap[j]
      BY <2>2 DEF TypeOK
    <3>2. GoesOn /\ job'.cancelled = job.cancelled
      BY <2>2, OutcomeCounts DEF TypeOK, JobType
    <3>3. UNCHANGED cluster
      BY <1>8 DEF Persist
    <3> QED
      BY <2>2, <3>1, <3>2, <3>3, <1>c
  <2>3. UNCHANGED <<cluster, shield, ghosts>>
    BY <1>8 DEF Persist
  <2>4. \/ UNCHANGED snap
        \/ \E i \in Slots :
             /\ ~Open(i) /\ job' = [job EXCEPT !.held[w] = i]
             /\ snap' = [snap EXCEPT ![i] = [phase |-> "prepared", w |-> w,
                          base |-> job.listed[w], zero |-> (job.listed[w] = 0)]]
             /\ Advance(w, AfterRow(w, job.listed[w] = 0))
    BY <1>8 DEF Persist, KeepsRow
  <2> QED
    BY <2>1, <2>2, <2>3, <2>4, <1>g
<1>9. CASE Mark(w)
  <2>1. CASE UNCHANGED snap
    BY <1>9, <2>1, <1>d, <1>q, <1>g DEF Mark
  <2>2. CASE snap' = [snap EXCEPT ![job.held[w]].phase = "applied"] /\ Succeed(w)
    <3>1. job.held[w] \in OpenOf(w) /\ job.held[w] \in Slots
      BY <1>9, <1>h, <1>n DEF Mark, RowHeld
    <3>2. snap'[job.held[w]].w = w /\ \A j \in Slots \ {job.held[w]} : snap'[j] = snap[j]
      BY <2>2, <3>1 DEF TypeOK, SnapType, OpenOf
    <3> QED
      BY <1>9, <2>2, <3>1, <3>2, <1>c, <1>d, <1>g DEF Mark
  <2> QED
    BY <1>9, <2>1, <2>2 DEF Mark
<1>10. CASE Close(w)
  <2>1. CASE UNCHANGED snap
    BY <1>10, <2>1, <1>d, <1>q, <1>g DEF Close
  <2>2. CASE snap' = [snap EXCEPT ![job.held[w]] = NoSnap] /\ Succeed(w)
    <3>1. job.held[w] \in OpenOf(w) /\ job.held[w] \in Slots
      BY <1>10, <1>h, <1>n DEF Close, RowHeld
    <3>2. snap'[job.held[w]] = NoSnap /\ \A j \in Slots \ {job.held[w]} : snap'[j] = snap[j]
      BY <2>2, <3>1 DEF TypeOK
    <3>3. snap'[job.held[w]].w = NoWorkload /\ snap'[job.held[w]].phase = "none"
      BY <3>2 DEF NoSnap
    <3> QED
      BY <1>10, <2>2, <3>1, <3>2, <3>3, <1>c, <1>d, <1>g DEF Close
  <2> QED
    BY <1>10, <2>1, <2>2 DEF Close
<1> QED
  BY <1>1, <1>2, <1>3, <1>4, <1>5, <1>6, <1>7, <1>8, <1>9, <1>10 DEF WorkerStep

(* The steps an execution takes after each other on one workload.             *)
LEMMA DutyStep ==
  ASSUME TypeOK, RowsInv, Duty, NEW w \in Workloads, WorkerStep(w)
  PROVE  Duty' /\ job.stage = "work"
<1> USE Outcomes
<1>1. /\ worker[w] \notin {"idle", "done"}
      /\ \/ worker'[w] = "done"
         \/ worker[w] = "persist" /\ worker'[w] \in {"scale", "mark"}
         \/ worker[w] = "scale" /\ worker'[w] = "mark"
         \/ worker[w] = "lookup" /\ worker'[w] \in {"close", "gone", "restore"}
         \/ worker[w] = "restore" /\ worker'[w] = "close"
         \/ worker[w] = "check" /\ worker'[w] \in {"quash", "mark"}
         \/ worker[w] = "force" /\ worker'[w] \in {"close", "gone"}
  <2>1. CASE Skips(w)
    BY <2>1 DEF Skips
  <2>2. CASE Persist(w)
    <3>1. \/ Succeed(w) \/ OpFails(w)
          \/ Advance(w, AfterRow(w, snap[job.held[w]].zero))
          \/ Advance(w, AfterRow(w, job.listed[w] = 0))
      BY <2>2 DEF Persist, CreateFails
    <3> QED
      BY <2>2, <3>1 DEF Persist, AfterRow
  <2>3. CASE SleepScale(w)
    BY <2>3 DEF SleepScale
  <2>4. CASE Mark(w)
    BY <2>4 DEF Mark
  <2>5. CASE Lookup(w)
    BY <2>5 DEF Lookup, NextIfGone
  <2>6. CASE Restore(w)
    BY <2>6 DEF Restore
  <2>7. CASE Close(w)
    BY <2>7 DEF Close
  <2>8. CASE Check(w)
    BY <2>8 DEF Check
  <2>9. CASE Quash(w)
    BY <2>9 DEF Quash
  <2>10. CASE ScaleToOne(w)
    BY <2>10 DEF ScaleToOne
  <2> QED
    BY <2>1, <2>2, <2>3, <2>4, <2>5, <2>6, <2>7, <2>8, <2>9, <2>10 DEF WorkerStep
<1>2. job'.kind = job.kind /\ job'.stage = job.stage
  BY WorkerLocal DEF GoesOn
<1>3. \A v \in Workloads \ {w} : worker'[v] = worker[v]
  BY WorkerLocal
<1> QED
  BY <1>1, <1>2, <1>3 DEF Duty

(* A sleep that is done with a workload and has nothing to report has no      *)
(* intent left on it (sleepWorkload, workloads.go:26-68).                     *)
LEMMA SleepMoves ==
  ASSUME TypeOK, RowsInv, Duty, NEW w \in Workloads, WorkerStep(w), job.kind = "sleep",
         job.apply, ~job'.errors, ~job'.cancelled
  PROVE  \/ worker'[w] \in {"scale", "mark"}
         \/ \A i \in Slots : snap'[i].phase = "prepared" /\ snap'[i].w = w => snap'[i].zero
<1> USE Outcomes, OutcomeCounts
<1>h. RowHeld(w)
  BY DEF RowsInv
<1>k. worker[w] \in {"persist", "scale", "mark"} /\ job'.cancelled = job.cancelled
  BY WorkerLocal DEF Duty, WorkerStep, Skips, Persist, SleepScale, Mark, Lookup, Restore, Close,
                     Check, Quash, ScaleToOne
<1>1. CASE Skips(w)
  BY <1>1, <1>k DEF Skips
<1>2. CASE SleepScale(w)
  BY <1>2 DEF SleepScale
<1>3. CASE Mark(w)
  <2>1. job.held[w] \in OpenOf(w)
    BY <1>3, <1>h DEF Mark, RowHeld
  <2>2. snap' = [snap EXCEPT ![job.held[w]].phase = "applied"]
    BY <1>3 DEF Mark
  <2>3. ASSUME NEW i \in Slots, snap'[i].phase = "prepared", snap'[i].w = w
        PROVE  FALSE
    <3>1. i # job.held[w] /\ snap'[i] = snap[i]
      BY <2>1, <2>2, <2>3 DEF TypeOK, SnapType, OpenOf
    <3> QED
      BY <2>1, <2>3, <3>1 DEF RowsInv, OneOpenSnapshot, OpenOf, Open
  <2> QED
    BY <2>3
<1>4. CASE Persist(w)
  <2>1. CASE job.held[w] # NoSlot
    <3>1. job.held[w] \in OpenOf(w) /\ snap' = snap
      BY <1>4, <1>h, <2>1 DEF Persist, Reuses, KeepsRow, RowHeld
    <3>2. Advance(w, AfterRow(w, snap[job.held[w]].zero))
      BY <1>4, <2>1 DEF Persist, Reuses
    <3>3. CASE snap[job.held[w]].zero
      BY <3>1, <3>3 DEF RowsInv, OneOpenSnapshot, OpenOf, Open
    <3>4. CASE ~snap[job.held[w]].zero
      BY <3>2, <3>4 DEF AfterRow
    <3> QED
      BY <3>3, <3>4
  <2>2. CASE job.held[w] = NoSlot
    <3>1. PICK j \in Slots :
            snap' = [snap EXCEPT ![j] = [phase |-> "prepared", w |-> w, base |-> job.listed[w],
                                         zero |-> (job.listed[w] = 0)]]
      BY <1>4, <2>2 DEF Persist, Reuses, CreateFails
    <3>2. Advance(w, AfterRow(w, job.listed[w] = 0))
      BY <1>4, <2>2 DEF Persist, Reuses, CreateFails
    <3>3. OpenOf(w) = {}
      BY <1>4, <1>h, <2>2 DEF Persist, RowHeld
    <3>4. CASE job.listed[w] = 0
      BY <3>1, <3>3, <3>4 DEF TypeOK, OpenOf, Open
    <3>5. CASE job.listed[w] # 0
      BY <3>2, <3>5 DEF AfterRow
    <3> QED
      BY <3>4, <3>5
  <2> QED
    BY <2>1, <2>2
<1> QED
  BY <1>1, <1>2, <1>3, <1>4, <1>k
       DEF WorkerStep, Lookup, Restore, Close, Check, Quash, ScaleToOne

(* A step of a worker keeps every intent of a clean sleep served.             *)
LEMMA IntentsStep ==
  ASSUME TypeOK, RowsInv, Duty, IntentsServed, NEW w \in Workloads, WorkerStep(w)
  PROVE  IntentsServed'
<1>1. job.stage = "work"
  BY DutyStep
<1>g. GoesOn
  BY WorkerLocal
<1> SUFFICES ASSUME job.apply, job.kind = "sleep", ~job'.errors, ~job'.cancelled,
                    ~job.errors, ~job.cancelled, ~job.skipNodes,
                    NEW i \in Slots, snap'[i].phase = "prepared", ~snap'[i].zero
             PROVE  worker'[snap'[i].w] \in {"persist", "scale", "mark"}
  BY <1>1, <1>g DEF IntentsServed, Restorable, Open, GoesOn
<1>2. RowShape'
  BY WorkerRows DEF RowsInv
<1>3. snap'[i].w \in Workloads
  BY <1>2 DEF RowShape, Open
<1>4. CASE snap'[i].w = w
  BY <1>4, SleepMoves
<1>5. CASE snap'[i].w # w
  <2>1. i \in OpenOf(snap'[i].w) /\ snap'[i] = snap[i]
                                 /\ worker'[snap'[i].w] = worker[snap'[i].w]
    <3> DEFINE v == snap'[i].w
    <3>1. i \in {j \in Slots : snap'[j].phase # "none" /\ snap'[j].w = v}
      OBVIOUS
    <3>2. \A u : OpenOf(u)' = {j \in Slots : snap'[j].phase # "none" /\ snap'[j].w = u}
      BY DEF OpenOf, Open
    <3>3. v \in Workloads \ {w}
      BY <1>3, <1>5
    <3> HIDE DEF v
    <3>4. OpenOf(v) = {j \in Slots : snap'[j].phase # "none" /\ snap'[j].w = v}
      BY <3>2, <3>3, WorkerLocal
    <3>5. i \in OpenOf(v) /\ snap'[i] = snap[i] /\ worker'[v] = worker[v]
      BY <3>1, <3>3, <3>4, WorkerLocal
    <3> QED
      BY <3>5 DEF v
  <2> QED
    BY <1>1, <2>1 DEF IntentsServed, Restorable, Open
<1> QED
  BY <1>4, <1>5

(* A clean execution was clean before the step.                               *)
LEMMA FlawlessBefore ==
  ASSUME GoesOn, NEW kind
  PROVE  Flawless(kind)' => /\ Flawless(kind) /\ job.kind = kind /\ job.apply /\ ~job.scoped
                            /\ ~job'.errors /\ ~job.cancelled
BY DEF GoesOn, Flawless

(* Nothing changes for a workload that a step leaves alone.                   *)
LEMMA IntactFrame ==
  ASSUME NEW v \in Workloads, Intact(v), GoesOn, v \in exists', shield'[v] = shield[v],
         orig'[v] = orig[v], worker'[v] = worker[v], replicas'[v] = replicas[v],
         OpenOf(v)' = OpenOf(v), \A i \in OpenOf(v) : snap'[i] = snap[i]
  PROVE  Intact(v)'
<1>1. /\ Flawless("sleep")' => Flawless("sleep")
      /\ Flawless("wake")' => Flawless("wake")
  BY FlawlessBefore
<1>2. job'.listed = job.listed
  BY DEF GoesOn
<1> QED
  BY <1>1, <1>2 DEF Intact

(* Every step of its worker keeps a workload intact: this is sleepWorkload,   *)
(* wakeWorkload and reconcileSnapshotSleep, one call at a time                *)
(* (workloads.go:26-151, policy_scaler.go:410-475).                           *)
LEMMA IntactStep ==
  ASSUME TypeOK, RowsInv, Duty, NEW w \in Workloads, Intact(w), WorkerStep(w)
  PROVE  Intact(w)'
<1> USE Outcomes
<1>h. RowHeld(w)
  BY DEF RowsInv
<1>l. /\ exists' = exists /\ shield' = shield /\ orig' = orig /\ GoesOn
      /\ job'.listed = job.listed /\ job'.cancelled = job.cancelled
  BY WorkerLocal DEF GoesOn, ghosts
<1>f. /\ Flawless("sleep")' => Flawless("sleep") /\ job.kind = "sleep" /\ job.apply /\ ~job'.errors
                               /\ ~job.cancelled
      /\ Flawless("wake")' => Flawless("wake") /\ job.kind = "wake" /\ job.apply /\ ~job'.errors
                               /\ ~job.cancelled
  BY <1>l, FlawlessBefore
<1>e. (Fail(w) \/ OpFails(w) => job'.errors) /\ orig[w] \in Nat /\ job.listed[w] \in Nat
  BY OutcomeCounts DEF TypeOK, JobType
\* what is left to show for a step that keeps the row
<1>k. ASSUME OpenOf(w)' = OpenOf(w),
             \A i \in OpenOf(w) : snap'[i].base = snap[i].base /\ snap'[i].zero = snap[i].zero,
             replicas'[w] \in {0, orig[w]},
             OpenOf(w) = {} => replicas'[w] = replicas[w],
             worker'[w] \notin {"force", "gone", "persist"},
             worker'[w] = "scale" => job.listed[w] = replicas'[w],
             worker'[w] = "close" => replicas'[w] = orig[w],
             Flawless("sleep")' /\ worker'[w] \in {"done", "mark"} => replicas'[w] = 0,
             Flawless("wake")' /\ worker'[w] = "done" => replicas'[w] = orig[w],
             worker'[w] # "idle"
      PROVE  Intact(w)'
  BY <1>k, <1>l DEF Intact
<1>o. UNCHANGED snap => /\ OpenOf(w)' = OpenOf(w)
                        /\ \A i \in OpenOf(w) : snap'[i].base = snap[i].base
                                                 /\ snap'[i].zero = snap[i].zero
  BY DEF OpenOf, Open
<1>r. replicas' = replicas => replicas'[w] \in {0, orig[w]}
  BY DEF Intact
<1>c. UNCHANGED cluster => replicas' = replicas
  BY DEF cluster
<1>1. CASE Skips(w)
  BY <1>1, <1>k, <1>o, <1>r, <1>c, <1>f DEF Skips
<1>2. CASE SleepScale(w)
  <2>1. job.held[w] \in OpenOf(w) /\ UNCHANGED snap /\ job.kind = "sleep"
    BY <1>2, <1>h DEF SleepScale, RowHeld, Duty
  <2>2. replicas'[w] \in {0, orig[w]}
    BY <1>2, ScaleWrites DEF SleepScale, Intact
  <2>3. \/ worker'[w] = "mark" /\ replicas'[w] = 0
        \/ worker'[w] = "done" /\ job'.errors
    BY <1>2, <1>e, ScaleWrites DEF SleepScale
  <2> QED
    BY <2>1, <2>2, <2>3, <1>k, <1>o, <1>f
<1>3. CASE Quash(w)
  <2>1. job.held[w] \in OpenOf(w) /\ UNCHANGED snap /\ job.kind = "enforce"
    BY <1>3, <1>h DEF Quash, RowHeld, Duty
  <2>2. replicas'[w] \in {0, orig[w]}
    BY <1>3, ScaleWrites DEF Quash, Intact
  <2>3. worker'[w] = "done"
    BY <1>3 DEF Quash
  <2> QED
    BY <2>1, <2>2, <2>3, <1>k, <1>o, <1>f
<1>4. CASE Restore(w)
  <2>1. job.held[w] \in OpenOf(w) /\ UNCHANGED snap /\ job.kind = "wake"
    BY <1>4, <1>h DEF Restore, RowHeld, Duty
  <2>2. snap[job.held[w]].base = orig[w]
    BY <2>1 DEF Intact
  <2>3. replicas'[w] \in {0, orig[w]}
    BY <1>4, <2>2, <1>e, ScaleWrites DEF Restore, Intact
  <2>4. \/ worker'[w] = "close" /\ replicas'[w] = orig[w]
        \/ worker'[w] = "done" /\ job'.errors
    BY <1>4, <2>2, <1>e, ScaleWrites DEF Restore
  <2> QED
    BY <2>1, <2>3, <2>4, <1>k, <1>o, <1>f
<1>5. CASE ScaleToOne(w)
  BY <1>5 DEF ScaleToOne, Intact
<1>6. CASE Lookup(w)
  <2>1. /\ job.held[w] \in OpenOf(w) /\ UNCHANGED snap /\ job.kind = "wake"
        /\ replicas' = replicas
    BY <1>6, <1>h, <1>c DEF Lookup, RowHeld, Duty
  <2>2. /\ snap[job.held[w]].base = orig[w] /\ (snap[job.held[w]].zero => orig[w] = 0)
        /\ w \in exists /\ shield[w] = "none"
    BY <2>1 DEF Intact
  <2>3. \/ worker'[w] = "close" /\ replicas[w] = orig[w]
        \/ worker'[w] = "restore"
        \/ worker'[w] = "done" /\ (job'.errors \/ ~job.apply)
    BY <1>6, <2>2, <1>e DEF Lookup, Intact
  <2> QED
    BY <2>1, <2>3, <1>k, <1>o, <1>f, <1>r
<1>7. CASE Check(w)
  <2>1. UNCHANGED snap /\ job.kind = "enforce" /\ replicas' = replicas
    BY <1>7, <1>c DEF Check, Duty
  <2>2. worker'[w] \in {"done", "quash", "mark"}
    BY <1>7 DEF Check
  <2> QED
    BY <2>1, <2>2, <1>k, <1>o, <1>f, <1>r
<1>8. CASE Persist(w)
  <2>1. job.kind = "sleep" /\ replicas' = replicas /\ job.listed[w] = replicas[w]
    BY <1>8, <1>c DEF Persist, Duty, Intact
  <2>2. CASE UNCHANGED snap /\ ((~job.apply /\ Succeed(w)) \/ OpFails(w))
    BY <2>1, <2>2, <1>k, <1>o, <1>f, <1>r, <1>e
  <2>3. CASE /\ job.held[w] # NoSlot /\ UNCHANGED snap
             /\ Advance(w, AfterRow(w, snap[job.held[w]].zero))
    <3>1. job.held[w] \in OpenOf(w)
      BY <1>8, <2>3, <1>h DEF Persist, RowHeld
    <3>2. snap[job.held[w]].zero => replicas[w] = 0
      BY <3>1 DEF Intact
    <3>3. \/ worker'[w] = "scale"
          \/ worker'[w] \in {"done", "mark"} /\ replicas[w] = 0
      BY <2>1, <2>3, <3>2, <1>e DEF AfterRow
    <3> QED
      BY <2>1, <2>3, <3>3, <1>k, <1>o, <1>f, <1>r
  <2>4. ASSUME NEW j \in Slots, ~Open(j), job.held[w] = NoSlot,
               snap' = [snap EXCEPT ![j] = [phase |-> "prepared", w |-> w,
                          base |-> job.listed[w], zero |-> (job.listed[w] = 0)]],
               Advance(w, AfterRow(w, job.listed[w] = 0))
        PROVE  Intact(w)'
    <3>1. OpenOf(w) = {} /\ replicas[w] = orig[w]
      BY <1>8, <2>4, <1>h DEF Persist, RowHeld, Intact
    <3>2. /\ snap'[j].phase = "prepared" /\ snap'[j].w = w /\ snap'[j].base = job.listed[w]
          /\ snap'[j].zero <=> (job.listed[w] = 0)
          /\ \A i \in Slots \ {j} : snap'[i] = snap[i]
      BY <2>4 DEF TypeOK
    <3>3. OpenOf(w)' = {j}
      BY <3>1, <3>2 DEF OpenOf, Open
    <3>4. \A i \in OpenOf(w)' : snap'[i].base = orig[w] /\ (snap'[i].zero <=> orig[w] = 0)
      BY <2>1, <3>1, <3>2, <3>3
    <3>5. \/ worker'[w] = "scale"
          \/ worker'[w] \in {"done", "mark"} /\ replicas[w] = 0
      BY <2>1, <2>4, <1>e DEF AfterRow
    <3> QED
      BY <2>1, <3>1, <3>3, <3>4, <3>5, <1>l, <1>f DEF Intact
  <2> QED
    BY <1>8, <2>2, <2>3, <2>4 DEF Persist, Reuses, KeepsRow, CreateFails
<1>9. CASE Mark(w)
  <2>1. /\ job.held[w] \in OpenOf(w) /\ job.kind \in {"sleep", "enforce"}
        /\ replicas' = replicas /\ worker'[w] = "done"
    BY <1>9, <1>h, <1>c DEF Mark, RowHeld, Duty
  <2>2. /\ OpenOf(w)' = OpenOf(w)
        /\ \A i \in OpenOf(w) : snap'[i].base = snap[i].base /\ snap'[i].zero = snap[i].zero
    <3>1. CASE UNCHANGED snap
      BY <3>1, <1>o
    <3>2. CASE snap' = [snap EXCEPT ![job.held[w]].phase = "applied"]
      <4>1. \A i \in Slots : /\ snap'[i].base = snap[i].base /\ snap'[i].zero = snap[i].zero
                             /\ snap'[i].w = snap[i].w
                             /\ snap'[i].phase = IF i = job.held[w] THEN "applied"
                                                 ELSE snap[i].phase
        BY <2>1, <3>2 DEF TypeOK, SnapType, OpenOf
      <4> QED
        BY <2>1, <4>1 DEF OpenOf, Open
    <3> QED
      BY <1>9, <3>1, <3>2 DEF Mark
  <2>3. Flawless("sleep")' => replicas[w] = 0
    BY <1>9, <1>f DEF Intact, Mark
  <2> QED
    BY <2>1, <2>2, <2>3, <1>k, <1>f, <1>r
<1>10. CASE Close(w)
  <2>1. /\ job.held[w] \in OpenOf(w) /\ job.kind \in {"wake", "emergency"}
        /\ replicas' = replicas /\ worker'[w] = "done" /\ replicas[w] = orig[w]
    BY <1>10, <1>h, <1>c DEF Close, RowHeld, Duty, Intact
  <2>2. CASE UNCHANGED snap
    BY <2>1, <2>2, <1>k, <1>o, <1>f, <1>r
  <2>3. CASE snap' = [snap EXCEPT ![job.held[w]] = NoSnap]
    <3>1. /\ snap'[job.held[w]].phase = "none"
          /\ \A i \in Slots \ {job.held[w]} : snap'[i] = snap[i]
      BY <2>1, <2>3 DEF TypeOK, OpenOf, NoSnap
    <3>2. OpenOf(w)' = {}
      BY <2>1, <3>1 DEF OpenOf, Open, RowsInv, OneOpenSnapshot
    <3> QED
      BY <2>1, <3>2, <1>l, <1>f, <1>r DEF Intact
  <2> QED
    BY <1>10, <2>2, <2>3 DEF Close
<1> QED
  BY <1>1, <1>2, <1>3, <1>4, <1>5, <1>6, <1>7, <1>8, <1>9, <1>10 DEF WorkerStep

(* A step of a worker keeps the whole invariant.                              *)
LEMMA WorkerOutcome ==
  ASSUME TypeOK, RowsInv, OutcomeInv, NEW w \in Workloads, WorkerStep(w)
  PROVE  OutcomeInv'
<1>1. Duty' /\ IntentsServed'
  BY DutyStep, IntentsStep DEF OutcomeInv
<1>2. ASSUME NEW v \in Workloads, ~touched'[v]
      PROVE  Intact(v)'
  <2>1. Intact(v) /\ v \in exists' /\ shield'[v] = shield[v] /\ orig'[v] = orig[v] /\ GoesOn
    BY <1>2, WorkerLocal DEF OutcomeInv, Intact, ghosts
  <2>2. CASE v = w
    BY <2>1, <2>2, IntactStep DEF OutcomeInv
  <2>3. CASE v # w
    BY <2>1, <2>3, WorkerLocal, IntactFrame
  <2> QED
    BY <2>2, <2>3
<1> QED
  BY <1>1, <1>2 DEF OutcomeInv

(* An execution starts on every workload it is responsible for: a sleep of    *)
(* the whole policy on every workload without an exception, a wake on every   *)
(* workload with an open snapshot; and a sleep that may go on to the nodes on *)
(* every prepared row (policy_scaler.go:159-326, admin.go:227-259).           *)
LEMMA BeginOutcome ==
  ASSUME TypeOK, RowsInv, OutcomeInv, Begin
  PROVE  OutcomeInv'
<1>r. ASSUME UNCHANGED snap, NEW v \in Workloads
      PROVE  OpenOf(v)' = OpenOf(v)
  BY <1>r, RowsFrame
\* a workload that the step leaves as it is and whose worker starts
<1>k. ASSUME NEW v \in Workloads, Intact(v), UNCHANGED <<exists, replicas, shield, orig, snap>>,
             worker'[v] \in {"idle", "persist", "lookup", "check"},
             worker'[v] = "persist" => job'.listed[v] = replicas[v],
             Flawless("sleep")' => worker'[v] = "persist",
             Flawless("wake")' /\ worker'[v] = "idle" => OpenOf(v) = {}
      PROVE  Intact(v)'
  BY <1>k, <1>r DEF Intact
<1>1. ASSUME NEW apply \in BOOLEAN, NEW scoped \in BOOLEAN, NEW forced \in BOOLEAN,
             NEW scope \in SUBSET Workloads, NEW absent \in SUBSET Workloads,
             BeginSleep(apply, scoped, forced, scope, absent)
      PROVE  OutcomeInv'
  <2> DEFINE selected == exists \ absent
             entries  == {w \in selected : w \in scope /\ (forced \/ ~Protected(w))}
             deferred == \E i \in Restorable : snap[i].phase = "prepared" /\ snap[i].w \notin entries
  <2>1. /\ UNCHANGED <<exists, replicas, shield, touched, orig, snap>>
        /\ \A w \in Workloads : worker'[w] = IF w \in entries THEN "persist" ELSE "idle"
    BY <1>1 DEF BeginSleep, cluster, ghosts
  <2>2. job' = Job("sleep", apply, scoped,
                 [w \in Workloads |-> IF w \in entries THEN replicas[w] ELSE 0],
                 HeldBy(entries), scoped \/ entries # selected \/ deferred, absent # {})
    BY <1>1 DEF BeginSleep
  <2>3. /\ job'.kind = "sleep" /\ job'.stage = "work" /\ job'.scoped = scoped
        /\ job'.errors = (absent # {})
        /\ job'.skipNodes = (scoped \/ entries # selected \/ deferred)
        /\ \A w \in Workloads : job'.listed[w] = IF w \in entries THEN replicas[w] ELSE 0
    BY <2>2 DEF Job
  <2>4. Duty'
    BY <2>1, <2>3 DEF Duty
  <2>5. IntentsServed'
    <3> SUFFICES ASSUME ~deferred, NEW i \in Slots, snap[i].phase = "prepared", ~snap[i].zero
                 PROVE  worker'[snap[i].w] \in {"persist", "scale", "mark"}
      BY <2>1, <2>3 DEF IntentsServed, Restorable, Open
    <3>1. snap[i].w \in Workloads
      BY DEF RowsInv, RowShape, Open
    <3>2. snap[i].w \in entries
      BY DEF Restorable, Open
    <3> QED
      BY <2>1, <3>1, <3>2
  <2>6. ASSUME NEW v \in Workloads, ~touched'[v]
        PROVE  Intact(v)'
    <3>1. Intact(v)
      BY <2>1, <2>6 DEF OutcomeInv
    <3>2. Flawless("sleep")' => absent = {} /\ ~scoped
      BY <2>3 DEF Flawless
    <3>3. absent = {} /\ ~scoped => v \in entries
      BY <1>1, <3>1 DEF BeginSleep, Intact, Protected
    <3>4. ~Flawless("wake")'
      BY <2>3 DEF Flawless
    <3>5. worker'[v] = (IF v \in entries THEN "persist" ELSE "idle")
      BY <2>1
    <3>6. worker'[v] = "persist" => job'.listed[v] = replicas[v]
      BY <2>3, <3>5
    <3> QED
      BY <2>1, <3>1, <3>2, <3>3, <3>4, <3>5, <3>6, <1>k
  <2> QED
    BY <2>4, <2>5, <2>6 DEF OutcomeInv
<1>2. ASSUME NEW apply \in BOOLEAN, NEW scoped \in BOOLEAN, NEW scope \in SUBSET Workloads,
             BeginWake(apply, scoped, scope)
      PROVE  OutcomeInv'
  <2> DEFINE filtered == scoped \/ \E w \in Workloads : shield[w] # "none"
             keeps(w) == IF w \in exists THEN w \in scope /\ shield[w] # "force_sleep" ELSE ~scoped
  <2>1. /\ UNCHANGED <<exists, replicas, shield, touched, orig, snap>>
        /\ ~scoped => scope = Workloads
    BY <1>2 DEF BeginWake, cluster, ghosts
  <2>2. PICK failed \in BOOLEAN :
          /\ job' = Job("wake", apply, scoped, Unlisted, HeldBy(Workloads), FALSE, failed)
          /\ worker' = [w \in Workloads |->
                          IF ~failed /\ Held(w) # NoSlot /\ (filtered => keeps(w))
                            THEN "lookup" ELSE "idle"]
    BY <1>2 DEF BeginWake
  <2>3. /\ job'.kind = "wake" /\ job'.stage = "work" /\ job'.scoped = scoped
        /\ job'.errors = failed
    BY <2>2 DEF Job
  <2>4. \A w \in Workloads : worker'[w] \in {"lookup", "idle"}
    BY <2>2
  <2>5. Duty' /\ IntentsServed'
    BY <2>3, <2>4 DEF Duty, IntentsServed
  <2>6. ASSUME NEW v \in Workloads, ~touched'[v]
        PROVE  Intact(v)'
    <3>1. Intact(v)
      BY <2>1, <2>6 DEF OutcomeInv
    <3>2. ~Flawless("sleep")'
      BY <2>3 DEF Flawless
    <3>3. Flawless("wake")' /\ worker'[v] = "idle" => OpenOf(v) = {}
      <4>1. Flawless("wake")' => ~failed /\ ~scoped
        BY <2>3 DEF Flawless
      <4>2. ~scoped => keeps(v)
        BY <2>1, <3>1 DEF Intact
      <4>3. ~failed /\ ~scoped /\ worker'[v] = "idle" => Held(v) = NoSlot
        BY <2>2, <4>2
      <4> QED
        BY <4>1, <4>3, HeldFinds
    <3> QED
      BY <2>1, <2>4, <3>1, <3>2, <3>3, <1>k
  <2> QED
    BY <2>5, <2>6 DEF OutcomeInv
<1>3. ASSUME NEW apply \in BOOLEAN, BeginEnforce(apply)
      PROVE  OutcomeInv'
  <2>1. UNCHANGED <<exists, replicas, shield, touched, orig, snap>>
    BY <1>3 DEF BeginEnforce, cluster, ghosts
  <2>2. job'.kind = "enforce" /\ job'.stage = "work"
    BY <1>3 DEF BeginEnforce, Job
  <2>3. \A w \in Workloads : worker'[w] \in {"check", "idle"}
    BY <1>3 DEF BeginEnforce
  <2>4. Duty' /\ IntentsServed'
    BY <2>2, <2>3 DEF Duty, IntentsServed
  <2>5. ~Flawless("sleep")' /\ ~Flawless("wake")'
    BY <2>2 DEF Flawless
  <2>6. ASSUME NEW v \in Workloads, ~touched'[v]
        PROVE  Intact(v)'
    <3>1. Intact(v)
      BY <2>1, <2>6 DEF OutcomeInv
    <3> QED
      BY <2>1, <2>3, <2>5, <3>1, <1>k
  <2> QED
    BY <2>4, <2>6 DEF OutcomeInv
<1>4. CASE BeginEmergency
  <2>1. UNCHANGED <<exists, replicas, shield, orig, snap>>
    BY <1>4 DEF BeginEmergency, cluster
  <2>2. job'.kind = "emergency" /\ job'.stage = "work"
    BY <1>4 DEF BeginEmergency, Job
  <2>3. \A w \in Workloads : worker'[w] = IF Held(w) \in Restorable THEN "force" ELSE "idle"
    BY <1>4 DEF BeginEmergency
  <2>4. Duty' /\ IntentsServed'
    BY <2>2, <2>3 DEF Duty, IntentsServed
  <2>5. ~Flawless("sleep")' /\ ~Flawless("wake")'
    BY <2>2 DEF Flawless
  <2>6. ASSUME NEW v \in Workloads, ~touched'[v]
        PROVE  Intact(v)'
    <3>1. touched'[v] = (touched[v] \/ Held(v) \in Restorable)
      BY <1>4, Zenon DEF BeginEmergency
    <3>2. ~touched[v] /\ Held(v) \notin Restorable
      BY <2>6, <3>1
    <3>3. Intact(v) /\ worker'[v] = "idle"
      BY <2>3, <3>2 DEF OutcomeInv
    <3> QED
      BY <2>1, <2>5, <3>3, <1>k
  <2> QED
    BY <2>4, <2>6 DEF OutcomeInv
<1> QED
  BY <1>1, <1>2, <1>3, <1>4 DEF Begin

(* The end of an execution, its cancellation and its loss: the workloads and  *)
(* the rows stay, and the nodes are reached only with every worker done.      *)
LEMMA JobOutcome ==
  ASSUME TypeOK, RowsInv, OutcomeInv, JobStep \/ Cancel \/ Crash
  PROVE  OutcomeInv'
<1>u. UNCHANGED <<exists, replicas, shield, touched, orig, snap>>
  BY DEF JobStep, WorkDone, NodesDone, End, Cancel, Crash, cluster, ghosts
<1>o. ASSUME NEW v \in Workloads
      PROVE  OpenOf(v)' = OpenOf(v)
  BY <1>u, RowsFrame
<1>i. ASSUME NEW v \in Workloads, ~touched'[v]
      PROVE  Intact(v)
  BY <1>i, <1>u DEF OutcomeInv
<1>1. CASE job' = NoJob /\ worker' = NoProgress
  <2>1. job'.kind = "idle" /\ job'.stage = "idle" /\ \A w \in Workloads : worker'[w] = "idle"
    BY <1>1 DEF NoJob, NoProgress
  <2>2. Duty' /\ IntentsServed'
    BY <2>1 DEF Duty, IntentsServed
  <2>3. ~Flawless("sleep")' /\ ~Flawless("wake")'
    BY <2>1 DEF Flawless
  <2>4. ASSUME NEW v \in Workloads, ~touched'[v]
        PROVE  Intact(v)'
    BY <1>u, <1>o, <1>i, <2>1, <2>3, <2>4 DEF Intact
  <2> QED
    BY <2>2, <2>4 DEF OutcomeInv
<1>2. ASSUME worker' = worker,
             job'.kind = job.kind, job'.apply = job.apply, job'.scoped = job.scoped,
             job'.listed = job.listed, job.errors => job'.errors,
             job.cancelled => job'.cancelled,
             (\A w \in Workloads : worker[w] \in {"idle", "done"}) \/ job'.stage = job.stage
      PROVE  Duty' /\ \A v \in Workloads : ~touched'[v] => Intact(v)'
  <2>1. Duty'
    BY <1>2 DEF OutcomeInv, Duty
  <2>2. /\ Flawless("sleep")' => Flawless("sleep")
        /\ Flawless("wake")' => Flawless("wake")
    BY <1>2 DEF Flawless
  <2>3. ASSUME NEW v \in Workloads, ~touched'[v]
        PROVE  Intact(v)'
    BY <1>2, <1>u, <1>o, <1>i, <2>2, <2>3 DEF Intact
  <2> QED
    BY <2>1, <2>3
<1>3. CASE WorkDone
  <2>1. PICK s \in {"nodes", "done"} :
          /\ job' = [job EXCEPT !.stage = s]
          /\ s = "nodes" => job.kind = "sleep" /\ DrainsNodes
    BY <1>3 DEF WorkDone
  <2>2. /\ job'.kind = job.kind /\ job'.apply = job.apply /\ job'.scoped = job.scoped
        /\ job'.listed = job.listed /\ job'.errors = job.errors
        /\ job'.cancelled = job.cancelled /\ job'.stage = s
    BY <2>1 DEF TypeOK, JobType
  <2>3. /\ worker' = worker /\ job.stage = "work"
        /\ \A w \in Workloads : worker[w] \in {"idle", "done"}
    BY <1>3 DEF WorkDone, Finished
  <2>4. IntentsServed'
    BY <2>1, <2>2, <2>3, <1>u DEF OutcomeInv, IntentsServed, DrainsNodes, Restorable, Open
  <2> QED
    BY <2>2, <2>3, <2>4, <1>2, <1>u DEF OutcomeInv
<1>4. CASE NodesDone
  <2>1. /\ job'.kind = job.kind /\ job'.apply = job.apply /\ job'.scoped = job.scoped
        /\ job'.listed = job.listed /\ (job.errors => job'.errors)
        /\ job'.cancelled = job.cancelled /\ job'.stage = "done"
    BY <1>4 DEF NodesDone, TypeOK, JobType
  <2>2. worker' = worker /\ \A w \in Workloads : worker[w] \in {"idle", "done"}
    BY <1>4 DEF NodesDone, OutcomeInv, Duty
  <2>3. IntentsServed'
    BY <2>1 DEF IntentsServed
  <2> QED
    BY <2>1, <2>2, <2>3, <1>2 DEF OutcomeInv
<1>5. CASE Cancel
  <2>1. /\ job'.kind = job.kind /\ job'.apply = job.apply /\ job'.scoped = job.scoped
        /\ job'.listed = job.listed /\ job'.errors = job.errors
        /\ job'.cancelled /\ job'.stage = job.stage
    BY <1>5 DEF Cancel, TypeOK, JobType
  <2>2. worker' = worker
    BY <1>5 DEF Cancel
  <2>3. IntentsServed'
    BY <2>1, <2>2, <1>u DEF OutcomeInv, IntentsServed, Restorable, Open
  <2> QED
    BY <2>1, <2>2, <2>3, <1>2 DEF OutcomeInv
<1> QED
  BY <1>1, <1>3, <1>4, <1>5 DEF JobStep, End, Crash

(* Other actors touch what they change.                                       *)
LEMMA OthersOutcome ==
  ASSUME TypeOK, RowsInv, OutcomeInv, Others
  PROVE  OutcomeInv'
<1>1. UNCHANGED <<snap, job, worker, orig>>
  BY DEF Others, ExternalScale, ExternalCreate, ExternalDelete, ExceptionChanges, GoalFlips, ghosts
<1>2. Duty' /\ IntentsServed'
  BY <1>1 DEF OutcomeInv, Duty, IntentsServed, Restorable, Open
<1>3. ASSUME NEW v \in Workloads, ~touched'[v]
      PROVE  /\ ~touched[v] /\ replicas'[v] = replicas[v] /\ shield'[v] = shield[v]
             /\ v \in exists => v \in exists'
  <2> USE <1>3 DEF TypeOK, Touch
  <2>1. ASSUME NEW w \in Workloads, NEW n \in Replicas, ExternalScale(w, n) \/ ExternalCreate(w, n)
        PROVE  /\ ~touched[v] /\ replicas'[v] = replicas[v] /\ shield'[v] = shield[v]
               /\ v \in exists => v \in exists'
    BY <2>1 DEF ExternalScale, ExternalCreate
  <2>2. ASSUME NEW w \in Workloads, ExternalDelete(w)
        PROVE  /\ ~touched[v] /\ replicas'[v] = replicas[v] /\ shield'[v] = shield[v]
               /\ v \in exists => v \in exists'
    BY <2>2 DEF ExternalDelete
  <2>3. ASSUME NEW w \in Workloads, NEW e \in {"none", "stay_awake", "force_sleep"},
               ExceptionChanges(w, e)
        PROVE  /\ ~touched[v] /\ replicas'[v] = replicas[v] /\ shield'[v] = shield[v]
               /\ v \in exists => v \in exists'
    BY <2>3 DEF ExceptionChanges, cluster
  <2>4. CASE GoalFlips
    BY <2>4 DEF GoalFlips, cluster, ghosts
  <2> QED
    BY <2>1, <2>2, <2>3, <2>4 DEF Others
<1>4. GoesOn
  BY <1>1 DEF GoesOn
<1>5. ASSUME NEW v \in Workloads, ~touched'[v]
      PROVE  Intact(v)'
  <2>1. Intact(v) /\ v \in exists
    BY <1>3, <1>5 DEF OutcomeInv, Intact
  <2>2. OpenOf(v)' = OpenOf(v)
    BY <1>1, RowsFrame
  <2> QED
    BY <1>1, <1>3, <1>4, <1>5, <2>1, <2>2, IntactFrame
<1> QED
  BY <1>2, <1>5 DEF OutcomeInv

(* Every step keeps the invariant, and the initial states satisfy it.         *)
LEMMA OutcomeStep ==
  TypeOK /\ RowsInv /\ OutcomeInv /\ [Next]_vars => OutcomeInv'
<1> SUFFICES ASSUME TypeOK, RowsInv, OutcomeInv, [Next]_vars
             PROVE  OutcomeInv'
  OBVIOUS
<1>1. CASE UNCHANGED vars
  <2>1. \A v \in Workloads : OpenOf(v)' = OpenOf(v)
    BY <1>1, RowsFrame DEF vars
  <2>2. GoesOn
    BY <1>1 DEF vars, GoesOn
  <2>3. Duty' /\ IntentsServed'
    BY <1>1 DEF vars, OutcomeInv, Duty, IntentsServed, Restorable, Open
  <2>4. ASSUME NEW v \in Workloads, ~touched'[v]
        PROVE  Intact(v)'
    <3>1. Intact(v) /\ v \in exists
      BY <1>1, <2>4 DEF OutcomeInv, Intact, vars
    <3> QED
      BY <1>1, <2>1, <2>2, <3>1, IntactFrame DEF vars
  <2> QED
    BY <2>3, <2>4 DEF OutcomeInv
<1> QED
  BY <1>1, BeginOutcome, WorkerOutcome, JobOutcome, OthersOutcome DEF Next

(* Before the first execution every workload is intact.                       *)
LEMMA OutcomeInit ==
  Init => OutcomeInv
<1> SUFFICES ASSUME Init
             PROVE  OutcomeInv
  OBVIOUS
<1>1. /\ job.kind = "idle" /\ job.stage = "idle"
      /\ \A w \in Workloads : worker[w] = "idle" /\ shield[w] = "none" /\ (touched[w] \/ w \in exists)
      /\ orig = replicas
  BY DEF Init, NoJob, NoProgress
<1>2. \A w \in Workloads : OpenOf(w) = {}
  BY DEF Init, OpenOf, Open, NoSnap
<1>3. ~Flawless("sleep") /\ ~Flawless("wake")
  BY <1>1 DEF Flawless
<1> QED
  BY <1>1, <1>2, <1>3 DEF OutcomeInv, Duty, IntentsServed, Intact

(* The outcomes of executions are what they report, in every reachable state: *)
(* the second inductive invariant of the runner, relative to the first.       *)
THEOREM OutcomesSafe == Spec => [](TypeOK /\ RowsInv /\ OutcomeInv)
  BY RowsSafe, OutcomeInit, OutcomeStep, PTL DEF Spec

(* Nodes are drained only when every sleep intent of the policy, also outside *)
(* the execution's selection, has been carried out                            *)
(* (policy_scaler.go:231-247).                                                *)
THEOREM NodesSafe == Spec => []NodesAfterSleep
<1>1. TypeOK /\ RowsInv /\ OutcomeInv => NodesAfterSleep
  <2> SUFFICES ASSUME TypeOK, RowsInv, OutcomeInv, job.stage = "nodes", job.apply,
                      NEW i \in Restorable
               PROVE  snap[i].phase = "applied"
    BY DEF NodesAfterSleep
  <2>1. i \in Slots /\ snap[i].phase # "none" /\ snap[i].w \in Workloads
    BY DEF Restorable, Open, RowsInv, RowShape
  <2>2. worker[snap[i].w] \in {"idle", "done"}
    BY <2>1 DEF OutcomeInv, Duty
  <2>3. snap[i].phase # "prepared"
    BY <2>2 DEF OutcomeInv, IntentsServed
  <2> QED
    BY <2>1, <2>3 DEF TypeOK, SnapType
<1> QED
  BY <1>1, OutcomesSafe, PTL

(* A sleep of the whole policy that reports success has every workload at     *)
(* zero that nobody else touched, whatever failed or crashed before           *)
(* (policy_scaler.go:159-260, workloads.go:26-68).                            *)
THEOREM SleepComplete == Spec => []SleepSuccessComplete
<1>1. OutcomeInv => SleepSuccessComplete
  <2> SUFFICES ASSUME OutcomeInv, Success, job.kind = "sleep", job.apply, ~job.scoped,
                      NEW w \in Workloads, ~touched[w]
               PROVE  replicas[w] = 0
    BY DEF SleepSuccessComplete
  <2>1. worker[w] \in {"idle", "done"}
    BY DEF OutcomeInv, Duty, Success
  <2>2. Flawless("sleep")
    BY DEF Flawless, Success
  <2> QED
    BY <2>1, <2>2 DEF OutcomeInv, Intact
<1> QED
  BY <1>1, OutcomesSafe, PTL

(* A wake of the whole policy that reports success has every workload that    *)
(* nobody else touched at the replica count it had before this system first   *)
(* touched it (policy_scaler.go:262-326, workloads.go:79-151).                *)
THEOREM WakeExact == Spec => []WakeSuccessExact
<1>1. OutcomeInv => WakeSuccessExact
  <2> SUFFICES ASSUME OutcomeInv, Success, job.kind = "wake", job.apply, ~job.scoped,
                      NEW w \in Workloads, ~touched[w]
               PROVE  replicas[w] = orig[w]
    BY DEF WakeSuccessExact
  <2>1. worker[w] \in {"idle", "done"}
    BY DEF OutcomeInv, Duty, Success
  <2>2. Flawless("wake")
    BY DEF Flawless, Success
  <2> QED
    BY <2>1, <2>2 DEF OutcomeInv, Intact
<1> QED
  BY <1>1, OutcomesSafe, PTL

=============================================================================
