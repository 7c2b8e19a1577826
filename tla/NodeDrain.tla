------------------------------- MODULE NodeDrain --------------------------------
(***************************************************************************)
(* The node phase of a sleep execution and the ownership that guards it:   *)
(* processes that hold the advisory lock of the database on one session,   *)
(* check it before every change of the cluster and exit when it is lost;   *)
(* drain phases that cordon nodes under a marker, evict or delete pods,    *)
(* wait, delete the node, and undo their cordon when a step fails; and the *)
(* recovery of marked cordons at start-up.                                 *)
(*                                                                         *)
(* A change is two steps, the check (after the read it is based on) and    *)
(* the request: anything may happen in between. A task is the work of a    *)
(* drain phase, or of the start-up of a process, on one node.              *)
(***************************************************************************)
EXTENDS Integers, FiniteSets

CONSTANTS
  Procs,        \* processes of the backend; the lock admits one
  Phases,       \* node phases that can run at once, one per policy
  Nodes, Pods,  \* nodes and names of pods that are not of a DaemonSet
  Protected,    \* nodes with a protected label or taint
  Critical,     \* pods of protected namespaces or of critical priority
  Home,         \* the node on which each pod runs at first
  Concurrency,  \* ScalingConcurrency
  Overlap,      \* may two policies drain at the same time
  Roaming,      \* may critical pods move to another node
  CleanupFails, \* may the request that undoes a cordon fail
  MaxPhases, MaxFaults, MaxCrashes, MaxLosses, MaxMeddling, MaxJoins, MaxUid   \* bounds

\* What the instance must satisfy.
DrainAssumption ==
  /\ {MaxPhases, MaxFaults, MaxCrashes, MaxLosses, MaxMeddling, MaxJoins, MaxUid} \subseteq Nat
  /\ Concurrency \in Nat \ {0} /\ Procs \cap Phases = {} /\ MaxUid >= 1
  /\ "none" \notin Procs \cup Nodes \cup Pods
  /\ Protected \subseteq Nodes /\ Critical \subseteq Pods /\ Home \in [Pods -> Nodes]
  /\ {Overlap, Roaming, CleanupFails} \subseteq BOOLEAN

VARIABLES
  proc,     \* process: "down", "booting" (holds the lock), "recovering", "up"
  session,  \* its ownership session: "none", "live", "dead"
  phase,    \* drain phase: [by, cancelled]; by = None: not running
  task,     \* per phase or starting process and node, see NoTask
  node,     \* cluster: [up, gen, cordoned, mark]; mark 0: no owner annotation
  pod,      \* cluster: [uid, on, ending]; on = None: no pod of this name
  kept,     \* history: nodes an operator cordoned and did not release
  freed,    \* history: nodes an operator uncordoned
  listed, killed,  \* history: pods a drain listed; pods a drain removed
  crushed,  \* history: pods on a node when its owner deleted it
  marks, count     \* markers given out; uses of each bound

vars == <<proc, session, phase, task, node, pod, kept, freed, listed, killed, crushed, marks, count>>
history == <<kept, freed, listed, killed, crushed>>

None == "none"
Tasks == Phases \cup Procs
NoRead == [up |-> FALSE, gen |-> 0, cordoned |-> FALSE, mark |-> 0]

\* owner: marker of this drain; read: the node as read before an update; todo: pods
\* to evict, at: the current one; failed: some pod could not be removed; late:
\* requests sent without the lock.
NoTask == [pc |-> "idle", owner |-> 0, read |-> NoRead, todo |-> {}, at |-> <<None, 0>>,
           failed |-> FALSE, late |-> 0]
Ended == {"idle", "done", "failed"}
Bounds == [phases |-> MaxPhases, faults |-> MaxFaults, crashes |-> MaxCrashes, losses |-> MaxLosses,
           meddling |-> MaxMeddling, joins |-> MaxJoins]

Init ==
  /\ proc = [p \in Procs |-> "down"] /\ session = [p \in Procs |-> "none"]
  /\ phase = [e \in Phases |-> [by |-> None, cancelled |-> FALSE]]
  /\ task = [t \in Tasks |-> [n \in Nodes |-> NoTask]]
  /\ kept \in SUBSET Nodes
  /\ node = [n \in Nodes |-> [up |-> TRUE, gen |-> 0, cordoned |-> n \in kept, mark |-> 0]]
  /\ pod = [x \in Pods |-> [uid |-> 1, on |-> Home[x], ending |-> FALSE]]
  /\ freed = {} /\ listed = {} /\ killed = {} /\ crushed = {}
  /\ marks = 0 /\ count = [b \in DOMAIN Bounds |-> 0]

Spend(b) == count[b] < Bounds[b] /\ count' = [count EXCEPT ![b] = @ + 1]

\* The process a task runs in, and whether owner.Check lets it change the cluster.
ProcOf(t) == IF t \in Procs THEN t ELSE phase[t].by
Running(t) == ProcOf(t) /= None
Owns(t) == session[ProcOf(t)] = "live"
Cancelled(t) == t \in Phases /\ phase[t].cancelled

Checked(t) == ~Cancelled(t) /\ Owns(t)

At(t, n, pc) == Running(t) /\ task[t][n].pc = pc
Become(t, n, r) == task' = [task EXCEPT ![t][n] = r]
Go(t, n, pc) == Become(t, n, [task[t][n] EXCEPT !.pc = pc])

\* A request was sent and the task goes on with r; one sent without the lock is counted.
Sent(t, n, r) == Become(t, n, [r EXCEPT !.late = IF Owns(t) THEN @ ELSE @ + 1])
SentTo(t, n, pc) == Sent(t, n, [task[t][n] EXCEPT !.pc = pc])

\* The deferred function of DrainNode: undo the cordon if this drain made one.
AfterError(w) == IF w.owner /= 0 THEN "recover" ELSE "failed"
Fail(t, n) == Go(t, n, AfterError(task[t][n]))

PodsOn(n) == {x \in Pods : pod[x].on = n}
Same(x) == pod[x[1]].on /= None /\ pod[x[1]].uid = x[2]
Absent(x) == pod[x[1]].on = None

(***************************************************************************)
(* Processes and ownership                                                 *)
(***************************************************************************)

\* AcquireSchedulerOwnership, then RecoverInterruptedState on the same session.
Acquire(p) ==
  /\ proc[p] = "down" /\ \A q \in Procs : session[q] /= "live"
  /\ proc' = [proc EXCEPT ![p] = "booting"] /\ session' = [session EXCEPT ![p] = "live"]
  /\ UNCHANGED <<phase, task, node, pod, history, marks, count>>

\* Mutant of ListOwned: the annotation is looked for on schedulable nodes only.
ListOwnedFree(p) ==
  /\ proc[p] = "booting"
  /\ proc' = [proc EXCEPT ![p] = "recovering"]
  /\ task' = [task EXCEPT ![p] = [n \in Nodes |->
       IF node[n].up /\ node[n].mark /= 0 /\ ~node[n].cordoned
       THEN [NoTask EXCEPT !.pc = "recover", !.owner = node[n].mark] ELSE NoTask]]
  /\ UNCHANGED <<session, phase, node, pod, history, marks, count>>
\* RecoverOwnedCordons lists the nodes that carry the annotation.
ListOwned(p) ==
  /\ proc[p] = "booting"
  /\ proc' = [proc EXCEPT ![p] = "recovering"]
  /\ task' = [task EXCEPT ![p] = [n \in Nodes |->
       IF node[n].up /\ node[n].mark /= 0
       THEN [NoTask EXCEPT !.pc = "recover", !.owner = node[n].mark] ELSE NoTask]]
  /\ UNCHANGED <<session, phase, node, pod, history, marks, count>>

Serve(p) ==
  /\ proc[p] = "recovering" /\ \A n \in Nodes : task[p][n].pc \in {"idle", "done"}
  /\ proc' = [proc EXCEPT ![p] = "up"] /\ task' = [task EXCEPT ![p] = [n \in Nodes |-> NoTask]]
  /\ UNCHANGED <<session, phase, node, pod, history, marks, count>>

\* The process ends and takes its tasks with it.
Exit(p) ==
  /\ proc' = [proc EXCEPT ![p] = "down"] /\ session' = [session EXCEPT ![p] = "none"]
  /\ phase' = [e \in Phases |-> IF phase[e].by = p THEN [by |-> None, cancelled |-> FALSE] ELSE phase[e]]
  /\ task' = [t \in Tasks |-> IF t = p \/ (t \in Phases /\ phase[t].by = p)
                              THEN [n \in Nodes |-> NoTask] ELSE task[t]]
  /\ UNCHANGED <<node, pod, history, marks>>

StartupFails(p) ==
  /\ proc[p] = "recovering" /\ \E n \in Nodes : task[p][n].pc = "failed"
  /\ Exit(p) /\ UNCHANGED count

\* watchSchedulerOwnership
Watch(p) == proc[p] /= "down" /\ session[p] = "dead" /\ Exit(p) /\ UNCHANGED count

Crash(p) == proc[p] /= "down" /\ Spend("crashes") /\ Exit(p)

\* The database ends the session and with it the lock; the process does not know yet.
LoseSession(p) ==
  /\ session[p] = "live" /\ Spend("losses") /\ session' = [session EXCEPT ![p] = "dead"]
  /\ UNCHANGED <<proc, phase, task, node, pod, history, marks>>

(***************************************************************************)
(* A drain phase                                                           *)
(***************************************************************************)

CriticalNodes == {n \in Nodes : PodsOn(n) \cap Critical /= {}}

\* drainNodes: list nodes and pods, classify, collect the targets.
StartPhase(e, p) ==
  /\ proc[p] = "up" /\ phase[e].by = None
  /\ Overlap \/ \A f \in Phases : phase[f].by = None
  /\ Spend("phases") /\ phase' = [phase EXCEPT ![e] = [by |-> p, cancelled |-> FALSE]]
  /\ task' = [task EXCEPT ![e] = [n \in Nodes |->
       IF node[n].up /\ n \notin Protected \cup CriticalNodes
       THEN [NoTask EXCEPT !.pc = "queued"] ELSE NoTask]]
  /\ UNCHANGED <<proc, session, node, pod, history, marks>>

Cancel(e) ==
  /\ phase[e].by /= None /\ ~phase[e].cancelled /\ Spend("faults")
  /\ phase' = [phase EXCEPT ![e].cancelled = TRUE]
  /\ UNCHANGED <<proc, session, task, node, pod, history, marks>>

\* drainConcurrent: a slot of the semaphore, or the end of the loop when cancelled.
Dequeue(e, n) ==
  /\ At(e, n, "queued")
  /\ \/ Cancelled(e) /\ Go(e, n, "done")
     \/ /\ ~Cancelled(e)
        /\ Cardinality({m \in Nodes : task[e][m].pc \notin Ended \cup {"queued"}}) < Concurrency
        /\ Go(e, n, "cordon")
  /\ UNCHANGED <<proc, session, phase, node, pod, history, marks, count>>

FinishPhase(e) ==
  /\ phase[e].by /= None /\ \A n \in Nodes : task[e][n].pc \in Ended
  /\ phase' = [phase EXCEPT ![e] = [by |-> None, cancelled |-> FALSE]]
  /\ task' = [task EXCEPT ![e] = [n \in Nodes |-> NoTask]]
  /\ UNCHANGED <<proc, session, node, pod, history, marks, count>>

\* cordonForDrain: a node that is already unschedulable is drained without a marker.
ReadNode(e, n) ==
  /\ At(e, n, "cordon")
  /\ \/ (~node[n].up \/ (~node[n].cordoned /\ ~Checked(e))) /\ Go(e, n, "failed") /\ UNCHANGED marks
     \/ node[n].up /\ node[n].cordoned /\ Go(e, n, "list") /\ UNCHANGED marks
     \/ /\ node[n].up /\ ~node[n].cordoned /\ Checked(e) /\ marks' = marks + 1
        /\ Become(e, n, [task[e][n] EXCEPT !.pc = "mark", !.owner = marks + 1, !.read = node[n]])
  /\ UNCHANGED <<proc, session, phase, node, pod, history, count>>

Marked(nd, m) == [nd EXCEPT !.cordoned = TRUE, !.mark = m]

\* The update of the node: applied, applied with a lost answer, in conflict, or failed.
SendMark(e, n) ==
  LET w == task[e][n]
  IN /\ At(e, n, "mark")
     /\ \/ /\ node[n] = w.read /\ node' = [node EXCEPT ![n] = Marked(@, w.owner)]
           /\ \/ SentTo(e, n, "list") /\ UNCHANGED count
              \/ SentTo(e, n, AfterError(w)) /\ Spend("faults")
        \/ node[n] /= w.read /\ SentTo(e, n, AfterError(w)) /\ UNCHANGED <<node, count>>
        \/ SentTo(e, n, AfterError(w)) /\ Spend("faults") /\ UNCHANGED node
     /\ UNCHANGED <<proc, session, phase, pod, history, marks>>

ListPods(e, n) ==
  LET found == {<<x, pod[x].uid>> : x \in PodsOn(n)}
  IN /\ At(e, n, "list")
     /\ \/ /\ ~Cancelled(e) /\ listed' = listed \cup found /\ UNCHANGED count
           /\ Become(e, n, [task[e][n] EXCEPT !.pc = "evict", !.todo = found])
        \/ Cancelled(e) /\ Fail(e, n) /\ UNCHANGED <<listed, count>>
        \/ Fail(e, n) /\ Spend("faults") /\ UNCHANGED listed
     /\ UNCHANGED <<proc, session, phase, node, pod, kept, freed, killed, crushed, marks>>

\* evictPods: the next pod, after a check; at the end the failures are joined.
NextPod(e, n) ==
  LET w == task[e][n]
  IN /\ At(e, n, "evict")
     /\ \/ w.todo = {} /\ ~w.failed /\ Go(e, n, "wait")
        \/ w.todo = {} /\ w.failed /\ Fail(e, n)
        \/ w.todo /= {} /\ ~Checked(e) /\ Fail(e, n)
        \/ Checked(e) /\ \E x \in w.todo :
             Become(e, n, [w EXCEPT !.pc = "evicting", !.at = x, !.todo = @ \ {x}])
     /\ UNCHANGED <<proc, session, phase, node, pod, history, marks, count>>

\* The eviction names the UID that was listed; a pod that is gone is no error.
SendEvict(e, n) ==
  LET w == task[e][n]
  IN /\ At(e, n, "evicting")
     /\ \/ /\ Same(w.at) /\ SentTo(e, n, "evict")
           /\ pod' = [pod EXCEPT ![w.at[1]].ending = TRUE] /\ killed' = killed \cup {w.at}
           /\ UNCHANGED count
        \/ Absent(w.at) /\ SentTo(e, n, "evict") /\ UNCHANGED <<pod, killed, count>>
        \/ ~Absent(w.at) /\ ~Same(w.at) /\ SentTo(e, n, "fallback") /\ UNCHANGED <<pod, killed, count>>
        \/ SentTo(e, n, "fallback") /\ Spend("faults") /\ UNCHANGED <<pod, killed>>
     /\ UNCHANGED <<proc, session, phase, node, kept, freed, listed, crushed, marks>>

\* Mutant of Fallback: the deletion follows the eviction without another check.
FallbackUnchecked(e, n) ==
  /\ At(e, n, "fallback") /\ Go(e, n, "killing")
  /\ UNCHANGED <<proc, session, phase, node, pod, history, marks, count>>
Fallback(e, n) ==
  /\ At(e, n, "fallback")
  /\ \/ Checked(e) /\ Go(e, n, "killing")
     \/ ~Checked(e) /\ Fail(e, n)
  /\ UNCHANGED <<proc, session, phase, node, pod, history, marks, count>>

SendKill(e, n) ==
  LET w == task[e][n]
      failing == [w EXCEPT !.pc = "evict", !.failed = TRUE]
  IN /\ At(e, n, "killing")
     /\ \/ /\ Same(w.at) /\ SentTo(e, n, "evict")
           /\ pod' = [pod EXCEPT ![w.at[1]].on = None, ![w.at[1]].ending = FALSE]
           /\ killed' = killed \cup {w.at} /\ UNCHANGED count
        \/ Absent(w.at) /\ SentTo(e, n, "evict") /\ UNCHANGED <<pod, killed, count>>
        \/ ~Absent(w.at) /\ ~Same(w.at) /\ Sent(e, n, failing) /\ UNCHANGED <<pod, killed, count>>
        \/ Sent(e, n, failing) /\ Spend("faults") /\ UNCHANGED <<pod, killed>>
     /\ UNCHANGED <<proc, session, phase, node, kept, freed, listed, crushed, marks>>

\* waitForDrain: the poll finds no pod, or the deadline, the context or a failed poll ends it.
WaitForDrain(e, n) ==
  /\ At(e, n, "wait")
  /\ \/ PodsOn(n) = {} /\ ~Cancelled(e) /\ Go(e, n, "delete")
     \/ Fail(e, n)
  /\ UNCHANGED <<proc, session, phase, node, pod, history, marks, count>>

\* DeleteNode: the check, then the request.
CheckDelete(e, n) ==
  /\ At(e, n, "delete") /\ Go(e, n, IF Checked(e) THEN "deleting" ELSE "reread")
  /\ UNCHANGED <<proc, session, phase, node, pod, history, marks, count>>

SendDelete(e, n) ==
  LET w == task[e][n]
  IN /\ At(e, n, "deleting")
     /\ \/ /\ node[n].up /\ node' = [node EXCEPT ![n].up = FALSE, ![n].cordoned = FALSE, ![n].mark = 0]
           /\ pod' = [x \in Pods |-> IF pod[x].on = n THEN [pod[x] EXCEPT !.on = None, !.ending = FALSE]
                                     ELSE pod[x]]
           /\ crushed' = IF Owns(e) /\ n \notin freed THEN crushed \cup PodsOn(n) ELSE crushed
           /\ kept' = kept \ {n}
           /\ \/ SentTo(e, n, "done") /\ UNCHANGED count
              \/ SentTo(e, n, "reread") /\ Spend("faults")
        \/ ~node[n].up /\ SentTo(e, n, "reread") /\ UNCHANGED <<node, pod, kept, crushed, count>>
        \/ SentTo(e, n, "reread") /\ Spend("faults") /\ UNCHANGED <<node, pod, kept, crushed>>
     /\ UNCHANGED <<proc, session, phase, freed, listed, killed, marks>>

\* RecoverNodeCordon takes over whatever marker the node carries now.
Reread(e, n) ==
  /\ At(e, n, "reread")
  /\ IF node[n].up
     THEN Become(e, n, [task[e][n] EXCEPT !.pc = "recover", !.owner = node[n].mark])
     ELSE Go(e, n, "failed")
  /\ UNCHANGED <<proc, session, phase, node, pod, history, marks, count>>

(***************************************************************************)
(* recoverCordon, after a failed drain or deletion and at start-up         *)
(***************************************************************************)

Recovered(t) == IF t \in Procs THEN "done" ELSE "failed"

\* The clean-up context is not cancelled with the execution: only ownership counts.
RecoverReads(t, n) ==
  LET mine == node[n].up /\ task[t][n].owner /= 0 /\ node[n].mark = task[t][n].owner
  IN /\ At(t, n, "recover")
     /\ \/ ~mine /\ Go(t, n, Recovered(t))
        \/ mine /\ ~Owns(t) /\ Go(t, n, "failed")
        \/ mine /\ Owns(t) /\ Become(t, n, [task[t][n] EXCEPT !.pc = "uncordon", !.read = node[n]])
     /\ UNCHANGED <<proc, session, phase, node, pod, history, marks, count>>

\* A conflict reads again (retryOnConflict).
SendUncordon(t, n) ==
  LET w == task[t][n]
  IN /\ At(t, n, "uncordon")
     /\ \/ /\ node[n] = w.read /\ node' = [node EXCEPT ![n].cordoned = FALSE, ![n].mark = 0]
           /\ SentTo(t, n, Recovered(t)) /\ UNCHANGED count
        \/ node[n] /= w.read /\ SentTo(t, n, "recover") /\ UNCHANGED <<node, count>>
        \/ CleanupFails /\ Spend("faults") /\ SentTo(t, n, "failed") /\ UNCHANGED node
     /\ UNCHANGED <<proc, session, phase, pod, history, marks>>

(***************************************************************************)
(* The cluster and its operators (external)                                *)
(***************************************************************************)

\* An operator who takes over a cordon removes the marker, as the notes require.
OperatorCordons(n) ==
  /\ node[n].up /\ n \notin kept /\ Spend("meddling") /\ kept' = kept \cup {n}
  /\ node' = [node EXCEPT ![n].cordoned = TRUE, ![n].mark = 0]
  /\ UNCHANGED <<proc, session, phase, task, pod, freed, listed, killed, crushed, marks>>

OperatorUncordons(n) ==
  /\ node[n].up /\ node[n].cordoned /\ Spend("meddling")
  /\ node' = [node EXCEPT ![n].cordoned = FALSE, ![n].mark = 0]
  /\ kept' = kept \ {n} /\ freed' = freed \cup {n}
  /\ UNCHANGED <<proc, session, phase, task, pod, listed, killed, crushed, marks>>

\* A pod terminates after an eviction, or for reasons of its own.
PodEnds(x) ==
  /\ pod[x].on /= None /\ (pod[x].ending \/ Roaming \/ x \notin Critical)
  /\ pod' = [pod EXCEPT ![x].on = None, ![x].ending = FALSE]
  /\ UNCHANGED <<proc, session, phase, task, node, history, marks, count>>

\* A controller replaces the pod on a node that accepts it.
PodStarts(x, n) ==
  /\ pod[x].on = None /\ pod[x].uid < MaxUid /\ node[n].up /\ ~node[n].cordoned
  /\ pod' = [pod EXCEPT ![x] = [uid |-> @.uid + 1, on |-> n, ending |-> FALSE]]
  /\ UNCHANGED <<proc, session, phase, task, node, history, marks, count>>

\* The autoscaler or the kubelet registers the node again.
NodeJoins(n) ==
  /\ ~node[n].up /\ Spend("joins")
  /\ node' = [node EXCEPT ![n] = [up |-> TRUE, gen |-> @.gen + 1, cordoned |-> FALSE, mark |-> 0]]
  /\ UNCHANGED <<proc, session, phase, task, pod, history, marks>>

Step(e, n) ==
  \/ Dequeue(e, n) \/ ReadNode(e, n) \/ SendMark(e, n) \/ ListPods(e, n) \/ NextPod(e, n)
  \/ SendEvict(e, n) \/ Fallback(e, n) \/ SendKill(e, n) \/ WaitForDrain(e, n)
  \/ CheckDelete(e, n) \/ SendDelete(e, n) \/ Reread(e, n)
Recovery(t, n) == RecoverReads(t, n) \/ SendUncordon(t, n)
Boot(p) == Acquire(p) \/ ListOwned(p) \/ Serve(p) \/ StartupFails(p) \/ Watch(p)

Next ==
  \/ \E p \in Procs : Boot(p) \/ Crash(p) \/ LoseSession(p)
  \/ \E e \in Phases : \/ \E p \in Procs : StartPhase(e, p)
                       \/ Cancel(e) \/ FinishPhase(e)
                       \/ \E n \in Nodes : Step(e, n)
  \/ \E t \in Tasks, n \in Nodes : Recovery(t, n)
  \/ \E n \in Nodes : OperatorCordons(n) \/ OperatorUncordons(n) \/ NodeJoins(n)
  \/ \E x \in Pods : PodEnds(x) \/ \E n \in Nodes : PodStarts(x, n)

Spec == Init /\ [][Next]_vars

(***************************************************************************)
(* Properties                                                              *)
(***************************************************************************)

NodeStates == [up : BOOLEAN, gen : 0..MaxJoins, cordoned : BOOLEAN, mark : 0..marks]
TypeOK ==
  /\ proc \in [Procs -> {"down", "booting", "recovering", "up"}]
  /\ session \in [Procs -> {"none", "live", "dead"}]
  /\ phase \in [Phases -> [by : Procs \cup {None}, cancelled : BOOLEAN]]
  /\ node \in [Nodes -> NodeStates]
  /\ pod \in [Pods -> [uid : 1..MaxUid, on : Nodes \cup {None}, ending : BOOLEAN]]
  /\ \A t \in Tasks, n \in Nodes :
       /\ task[t][n].owner \in 0..marks /\ task[t][n].read \in NodeStates
       /\ task[t][n].todo \subseteq listed
  /\ kept \subseteq Nodes /\ freed \subseteq Nodes /\ crushed \subseteq Pods /\ marks \in Nat
  /\ \A b \in DOMAIN Bounds : count[b] \in 0..Bounds[b]

\* Places of a drain that relies on its cordon.
Draining == {"list", "evict", "evicting", "fallback", "killing", "wait", "delete", "deleting"}

\* While a drain of the owning process goes on under the cordon it made, the node stays
\* cordoned unless an operator released it: nobody else's clean-up undoes the cordon.
CordonHeld ==
  \A e \in Phases, n \in Nodes :
    (Running(e) /\ Owns(e) /\ task[e][n].pc \in Draining /\ task[e][n].owner /= 0
       /\ node[n].up /\ node[n].gen = task[e][n].read.gen /\ n \notin freed) => node[n].cordoned

\* A node that an operator cordoned stays cordoned until the operator releases it, whatever
\* failed drains, failed deletions and start-up recovery undo meanwhile.
OperatorCordonKept == \A n \in kept : node[n].up => node[n].cordoned

\* The owner deletes a node only when nothing runs on it: no pod comes back between
\* the last poll of waitForDrain and DeleteNode.
DeletedEmpty == crushed = {}

\* A process that lost its session sends at most the one request per node whose check it had
\* already passed: every change of the cluster has a check of its own.
LateAtMostOne == \A t \in Tasks, n \in Nodes : task[t][n].late <= 1

\* A drain removes only pods that it saw on a node it drains, never a later pod of
\* the same name.
OnlyListedPods == killed \subseteq listed

\* A drain removes no pod that is critical or in a protected namespace.
CriticalSpared == \A x \in killed : x[1] \notin Critical

\* A marked cordon that no drain is responsible for any more is undone, or the node is gone.
Stranded(n) ==
  /\ node[n].up /\ node[n].cordoned /\ node[n].mark /= 0
  /\ \A e \in Phases : task[e][n].pc \in Ended \/ task[e][n].owner /= node[n].mark
CordonsRecovered == \A n \in Nodes : Stranded(n) ~> ~Stranded(n)

\* What drains, failures, lost ownership and recovery may do to nodes and pods.  Two policies that
\* drain the same node at once are left out of the first line (Overlap): the second relies on the
\* cordon the first undoes.  Critical pods that move after the classification are left out of the
\* last (Roaming).
DrainSafe ==
  /\ TypeOK /\ OperatorCordonKept /\ LateAtMostOne /\ OnlyListedPods
  /\ Overlap \/ (CordonHeld /\ DeletedEmpty)
  /\ Roaming \/ CriticalSpared

(***************************************************************************)
(* Why DrainSafe holds                                                     *)
(***************************************************************************)

Sending == {"mark", "evicting", "killing", "deleting", "uncordon"}
Places == Ended \cup Draining \cup {"queued", "cordon", "mark", "reread", "recover", "uncordon"}
PodIds == Pods \X (1..MaxUid)
NodeShapes == [up : BOOLEAN, gen : Nat, cordoned : BOOLEAN, mark : Nat]
TaskShapes == [pc : Places, owner : Nat, read : NodeShapes, todo : SUBSET PodIds,
               at : PodIds \cup {<<None, 0>>}, failed : BOOLEAN, late : Nat]

\* The sets the values of the variables come from.
Shapes ==
  /\ proc \in [Procs -> {"down", "booting", "recovering", "up"}]
  /\ session \in [Procs -> {"none", "live", "dead"}]
  /\ phase \in [Phases -> [by : Procs \cup {None}, cancelled : BOOLEAN]]
  /\ task \in [Tasks -> [Nodes -> TaskShapes]]
  /\ node \in [Nodes -> NodeShapes]
  /\ pod \in [Pods -> [uid : 1..MaxUid, on : Nodes \cup {None}, ending : BOOLEAN]]
  /\ kept \subseteq Nodes /\ freed \subseteq Nodes /\ crushed \subseteq Pods
  /\ listed \subseteq PodIds /\ marks \in Nat /\ count \in [DOMAIN Bounds -> Nat]

\* Counters and what was read from them.
Numbers ==
  /\ \A b \in DOMAIN Bounds : count[b] <= Bounds[b]
  /\ \A n \in Nodes : node[n].mark <= marks /\ node[n].gen <= count["joins"]
  /\ \A t \in Tasks, n \in Nodes :
       /\ task[t][n].owner <= marks /\ task[t][n].read.mark <= marks
       /\ task[t][n].read.gen <= count["joins"]

\* The lock admits one session, and work exists only in a process of the right stage.
Lives ==
  /\ \A p \in Procs : proc[p] = "down" <=> session[p] = "none"
  /\ \A p, q \in Procs : session[p] = "live" /\ session[q] = "live" => p = q
  /\ \A e \in Phases : phase[e].by /= None => proc[phase[e].by] = "up"
  /\ \A e \in Phases, n \in Nodes : phase[e].by = None => task[e][n].pc = "idle"
  /\ \A p \in Procs, n \in Nodes :
       /\ task[p][n].pc \in Ended \cup {"recover", "uncordon"}
       /\ proc[p] /= "recovering" => task[p][n].pc = "idle"

\* What a task knows where it stands: a request was checked, and the node read before an update
\* was free (a cordon) or carried the marker (its removal).
Requests ==
  \A t \in Tasks, n \in Nodes :
    LET w == task[t][n]
    IN /\ w.pc = "mark" => w.read.up /\ ~w.read.cordoned /\ w.owner /= 0
       /\ w.pc = "uncordon" => w.read.mark = w.owner /\ w.owner /= 0
       /\ w.late <= 1
       /\ w.pc \in Sending => w.late = 0
       /\ w.pc /= "idle" /\ Owns(t) => w.late = 0
       /\ w.pc = "idle" => w.late = 0

\* Pods to remove were listed.
Pending ==
  /\ \A t \in Tasks, n \in Nodes :
       /\ task[t][n].todo \subseteq listed
       /\ task[t][n].pc \in {"evicting", "fallback", "killing"} => task[t][n].at \in listed
  /\ killed \subseteq listed

\* A marker that is about to be written is nowhere yet.
Fresh ==
  \A t \in Tasks, n \in Nodes : task[t][n].pc = "mark" =>
    /\ \A m \in Nodes : node[m].mark /= task[t][n].owner
    /\ \A u \in Tasks, m \in Nodes :
         /\ task[u][m].read.mark /= task[t][n].owner
         /\ task[u][m].pc = "mark" /\ task[u][m].owner = task[t][n].owner => u = t /\ m = n

\* Markers are on cordoned nodes, and never on one that an operator holds.
Marks ==
  /\ \A n \in Nodes : node[n].mark /= 0 => node[n].up /\ node[n].cordoned
  /\ \A n \in kept : node[n].up /\ node[n].cordoned /\ node[n].mark = 0

\* A process that lost the lock can still undo a marked cordon only until the new owner has
\* finished its own recovery of that node.
Cleaners ==
  \A p \in Procs, t \in Tasks, n \in Nodes :
    (session[p] = "live" /\ ProcOf(t) /= p /\ task[t][n].pc = "uncordon"
       /\ task[t][n].read.mark = node[n].mark) =>
    \/ proc[p] = "booting"
    \/ /\ proc[p] = "recovering" /\ task[p][n].owner = node[n].mark
       /\ task[p][n].pc \in {"recover", "uncordon", "failed"}

\* One phase at a time keeps its nodes up, cordoned while it owns the lock, and empty once it
\* has waited.
Held ==
  /\ \A e, f \in Phases : phase[e].by /= None /\ phase[f].by /= None => e = f
  /\ \A e \in Phases, n \in Nodes :
       /\ task[e][n].pc \in Draining => node[n].up
       /\ task[e][n].pc \in Draining /\ Owns(e) /\ n \notin freed => node[n].cordoned
       /\ task[e][n].pc \in {"delete", "deleting"} /\ Owns(e) /\ n \notin freed =>
            \A x \in Pods : pod[x].on /= n
  /\ crushed = {}

\* Critical pods stay on nodes that no phase touches.
Spared ==
  /\ \A x \in Critical : pod[x].on = Home[x] /\ ~pod[x].ending
  /\ \A e \in Phases, n \in Nodes :
       /\ task[e][n].pc /= "idle" => \A x \in Critical : Home[x] /= n
       /\ \A x \in task[e][n].todo : x[1] \notin Critical
       /\ task[e][n].pc \in {"evicting", "fallback", "killing"} => task[e][n].at[1] \notin Critical
  /\ \A x \in killed : x[1] \notin Critical

DrainInv ==
  /\ Shapes /\ Numbers /\ Lives /\ Requests /\ Pending /\ Fresh /\ Marks /\ Cleaners
  /\ Overlap \/ Held
  /\ Roaming \/ Spared

=================================================================================
