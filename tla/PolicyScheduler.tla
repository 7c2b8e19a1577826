--------------------------- MODULE PolicyScheduler ---------------------------
(***************************************************************************)
(* The policy scheduler of the backend: the tick loop that compares the    *)
(* intended with the recorded state of every cached policy, the claim that *)
(* precedes an execution, the goroutine that runs and finalises it, and    *)
(* the administrative operations that stop, restart, crash and recover it  *)
(* (internal/scheduler/policy_scheduler.go, execution.go; the emergency    *)
(* operation of internal/api/admin.go; internal/store/policies.go).        *)
(*                                                                         *)
(* Every policy is known twice: as a row of the database and as an entry   *)
(* of the scheduler's in-memory cache.  The two are written by separate    *)
(* steps, and so are the in-flight set, the claim and the execution row.   *)
(* An action below is one step between two places where the code gives up  *)
(* the mutex or finishes a database statement.                             *)
(***************************************************************************)
EXTENDS Naturals, FiniteSets

CONSTANTS
  Policies,      \* policy IDs
  NoPolicy,      \* the policy of a run slot that is not in use
  Runs,          \* slots for concurrent calls of PolicyScheduler.run
  Ticks,         \* slots for tick-loop goroutines (an old one may survive a restart)
  MaxGen,        \* bound: execution contexts created by start since boot
  MaxFaults,     \* bound: crashes, failures, cancellations and timeouts
  MaxRequests,   \* bound: API calls (triggers, enable/disable, admin operations)
  AutoWake,      \* SchedulerConfig.AutoWake
  DBErrors,      \* TRUE iff a database write may fail
  ScopedRuns,    \* TRUE iff exceptions with targeting filters exist
  Overrun,       \* TRUE iff an execution may outlive its timeout by the grace period
  Emergencies    \* TRUE iff the emergency operation may be called

ASSUME NoPolicyAssumption == NoPolicy \notin Policies
ASSUME TickSlotAssumption == {"api", "none"} \cap Ticks = {}
ASSUME BoundAssumption == MaxGen \in Nat /\ MaxFaults \in Nat /\ MaxRequests \in Nat
ASSUME SwitchAssumption ==
  {AutoWake, DBErrors, ScopedRuns, Overrun, Emergencies} \subseteq BOOLEAN

VARIABLES
  db,        \* policy row: [state, enabled, old]; old: "transitioning" since longer than
             \* stuckTimeout (state_since matters in no other state)
  cache,     \* ps.policies: [state, old], state "absent" when there is no entry
  inflight,  \* ps.inflightPolicies
  backoff,   \* policies and clocks (transition, reconcile, exception) within reconcileBackoff
  run,       \* calls of run and the execution goroutines they start
  orphan,    \* policies with a "running" execution row that no goroutine will finish
  tick,      \* tick-loop goroutines
  intended,  \* what windows and policy-wide exceptions ask for now
  gen,       \* the current execCtx (0 is the parent context given to Start)
  live,      \* FALSE once Stop has cancelled the current execCtx and tick context
  admin,     \* progress of an administrative stop/restart
  faults,    \* faults so far
  requests,  \* API calls so far
  quieted    \* history: an emergency operation has restarted the scheduler

vars == <<db, cache, inflight, backoff, run, orphan, tick, intended, gen, live,
          admin, faults, requests, quieted>>

Settled == {"sleeping", "awake", "unknown"}
States  == Settled \cup {"transitioning"}
Clocks  == {"transition", "reconcile", "exception"}

\* run, before the execution goroutine exists: the caller is still inside run
Calling   == {"enter", "claim", "unclaim", "claimed", "create", "rollback", "uncache"}
\* the execution goroutine, counted by the WaitGroup ps.inflight
Spawned   == {"spawned", "scaling", "finish", "settle", "sync", "leave"}
\* the policy is in inflightPolicies on behalf of this run
Holding   == (Calling \ {"enter"}) \cup Spawned

\* the run has claimed its policy in the database and has not yet recorded the outcome
Claiming  == {"claimed", "create", "spawned", "scaling", "finish", "settle"}

\* a call of run, with what its caller read
Called(pc, p, dir, base, scoped, g, caller) ==
  [pc |-> pc, policy |-> p, dir |-> dir, base |-> base, prior |-> "unknown", scoped |-> scoped,
   gen |-> g, caller |-> caller, cancelled |-> FALSE, expired |-> FALSE, status |-> "running"]
Freed == Called("free", NoPolicy, "sleep", "unknown", FALSE, 0, "none")

\* a tick loop with the copies it still has to evaluate
Loop(pc, g, snap, old, want, todo) ==
  [pc |-> pc, gen |-> g, snap |-> snap, old |-> old, want |-> want, todo |-> todo,
   cur |-> NoPolicy]
NoCopies(pc, g) == Loop(pc, g, [p \in Policies |-> "absent"], [p \in Policies |-> FALSE],
                        [p \in Policies |-> "unknown"], {})
Off == NoCopies("off", 0)

Dead == [p \in Policies |-> [state |-> "absent", old |-> FALSE]]

(***************************************************************************)
(* Contexts.  A run's context is done when the execCtx it was given has    *)
(* been cancelled (context 0, the parent, is not cancelled by Stop), when  *)
(* CancelExecution called its cancel function, or when it timed out.       *)
(***************************************************************************)
Cancelled(g)  == g > 0 /\ (g < gen \/ ~live)
CtxDone(r)    == Cancelled(run[r].gen) \/ run[r].cancelled \/ run[r].expired
FreeRuns      == {r \in Runs : run[r].pc = "free"}
RunsOf(p)     == {r \in Runs : run[r].policy = p /\ run[r].pc \in Holding}
Executing     == {r \in Runs : run[r].pc \in Spawned}

Init ==
  /\ db \in [Policies -> [state : Settled, enabled : {TRUE}, old : {FALSE}]]
  /\ cache = Dead
  /\ inflight = {} /\ backoff = {} /\ orphan = {}
  /\ run = [r \in Runs |-> Freed]
  /\ tick = [t \in Ticks |-> Off]
  /\ intended \in [Policies -> {"sleeping", "awake"}]
  /\ gen = 0 /\ live = FALSE /\ admin = "down"
  /\ faults = 0 /\ requests = 0
  /\ quieted = FALSE

Fault   == faults < MaxFaults /\ faults' = faults + 1
Request == requests < MaxRequests /\ requests' = requests + 1
Move(r, pc) == run' = [run EXCEPT ![r].pc = pc]
\* `if cp, ok := ps.policies[id]; ok { ... }`
CacheState(p, s, old) ==
  cache' = IF cache[p].state = "absent" THEN cache
           ELSE [cache EXCEPT ![p] = [state |-> s, old |-> old]]

(***************************************************************************)
(* run: the call, from the in-flight check to the start of the goroutine.  *)
(***************************************************************************)
\* A caller has copied the policy and evaluated execContext(); it calls run.
Call(r, p, dir, base, scoped, g, caller) ==
  /\ r \in FreeRuns
  /\ run' = [run EXCEPT ![r] = Called("enter", p, dir, base, scoped, g, caller)]

\* seeded fault: no in-flight check
EnterUnchecked(r) ==
  /\ run[r].pc = "enter"
  /\ Move(r, "claim") /\ inflight' = inflight \cup {run[r].policy}
  /\ UNCHANGED <<db, cache, backoff, orphan, tick, intended, gen, live, admin,
                 faults, requests, quieted>>

Enter(r) ==
  /\ run[r].pc = "enter"
  /\ IF run[r].policy \in inflight
       THEN run' = [run EXCEPT ![r] = Freed] /\ UNCHANGED inflight
       ELSE Move(r, "claim") /\ inflight' = inflight \cup {run[r].policy}
  /\ UNCHANGED <<db, cache, backoff, orphan, tick, intended, gen, live, admin,
                 faults, requests, quieted>>

\* history: the state a scoped run displaces with its claim
Claimed(x, s) == [x EXCEPT !.pc = "claimed", !.prior = IF x.scoped THEN s ELSE "unknown"]

\* SetPolicyTransitioning: UPDATE ... WHERE current_state != 'transitioning'
SetPolicyTransitioning(r) ==
  LET p == run[r].policy IN
  /\ run[r].pc = "claim"
  /\ \/ /\ db[p].state # "transitioning"
        /\ db' = [db EXCEPT ![p].state = "transitioning", ![p].old = FALSE]
        /\ run' = [run EXCEPT ![r] = Claimed(run[r], db[p].state)]
        /\ UNCHANGED faults
     \/ /\ db[p].state = "transitioning"
        /\ Move(r, "unclaim") /\ UNCHANGED <<db, faults>>
     \/ DBErrors /\ Fault /\ Move(r, "unclaim") /\ UNCHANGED db
  /\ UNCHANGED <<cache, inflight, backoff, orphan, tick, intended, gen, live, admin,
                 requests, quieted>>

\* seeded fault: the error path forgets the in-flight mark
UnclaimLeaks(r) ==
  /\ run[r].pc = "unclaim"
  /\ run' = [run EXCEPT ![r] = Freed]
  /\ UNCHANGED <<db, cache, inflight, backoff, orphan, tick, intended, gen, live, admin,
                 faults, requests, quieted>>

Unclaim(r) ==
  /\ run[r].pc = "unclaim"
  /\ inflight' = inflight \ {run[r].policy}
  /\ run' = [run EXCEPT ![r] = Freed]
  /\ UNCHANGED <<db, cache, backoff, orphan, tick, intended, gen, live, admin,
                 faults, requests, quieted>>

ClaimCache(r) ==
  /\ run[r].pc = "claimed"
  /\ CacheState(run[r].policy, "transitioning", FALSE)
  /\ Move(r, "create")
  /\ UNCHANGED <<db, inflight, backoff, orphan, tick, intended, gen, live, admin,
                 faults, requests, quieted>>

CreateExecution(r) ==
  /\ run[r].pc = "create"
  /\ \/ Move(r, "spawned") /\ UNCHANGED faults
     \/ DBErrors /\ Fault /\ Move(r, "rollback")
  /\ UNCHANGED <<db, cache, inflight, backoff, orphan, tick, intended, gen, live, admin,
                 requests, quieted>>

\* UpdatePolicyState(id, s): an unconditional UPDATE whose failure is only logged
UpdatePolicyState(p, s) ==
  \/ db' = [db EXCEPT ![p].state = s, ![p].old = FALSE] /\ UNCHANGED faults
  \/ DBErrors /\ Fault /\ UNCHANGED db

Rollback(r) ==
  /\ run[r].pc = "rollback"
  /\ UpdatePolicyState(run[r].policy, "unknown")
  /\ Move(r, "uncache")
  /\ UNCHANGED <<cache, inflight, backoff, orphan, tick, intended, gen, live, admin,
                 requests, quieted>>

RollbackCache(r) ==
  /\ run[r].pc = "uncache"
  /\ CacheState(run[r].policy, "unknown", FALSE)
  /\ inflight' = inflight \ {run[r].policy}
  /\ run' = [run EXCEPT ![r] = Freed]
  /\ UNCHANGED <<db, backoff, orphan, tick, intended, gen, live, admin,
                 faults, requests, quieted>>

(***************************************************************************)
(* executeAndFinalize, in its own goroutine.                               *)
(***************************************************************************)
RegisterCancel(r) ==
  /\ run[r].pc = "spawned"
  /\ Move(r, "scaling")
  /\ UNCHANGED <<db, cache, inflight, backoff, orphan, tick, intended, gen, live, admin,
                 faults, requests, quieted>>

\* RunPolicySleepReconcile: the only runner that does not end with ctx.Err()
EnforceSleep(x) ==
  x.caller \in Ticks /\ ~x.scoped /\ x.dir = "sleep" /\ x.base = "sleeping"

Ended(x, s) == [x EXCEPT !.pc = "finish", !.status = s]

\* the runner returns: nil only when its context is still alive, or when an
\* enforce-sleep run had nothing to look up; an error is "interrupted" when the
\* context is done and "failed" otherwise; a panic is recovered at any time
ScalerEnds(r) ==
  /\ run[r].pc = "scaling"
  /\ \E s \in {"success", "interrupted", "failed", "panic"} :
       /\ s = "success" => ~CtxDone(r) \/ EnforceSleep(run[r])
       /\ s = "interrupted" => CtxDone(r)
       /\ s = "failed" => ~CtxDone(r)
       /\ IF s \in {"failed", "panic"} THEN Fault ELSE UNCHANGED faults
       /\ run' = [run EXCEPT ![r] = Ended(run[r], s)]
  /\ UNCHANGED <<db, cache, inflight, backoff, orphan, tick, intended, gen, live, admin,
                 requests, quieted>>

\* FinishPolicyExecution; a failed write leaves the row "running"
FinishExecution(r) ==
  /\ run[r].pc = "finish"
  /\ \/ UNCHANGED <<orphan, faults>>
     \/ DBErrors /\ Fault /\ orphan' = orphan \cup {run[r].policy}
  /\ Move(r, "settle")
  /\ UNCHANGED <<db, cache, inflight, backoff, tick, intended, gen, live, admin,
                 requests, quieted>>

\* the state updatePolicyState or restoreBaselineState records; a panic takes
\* updatePolicyState's failure path even for a scoped execution
FinalState(x) ==
  IF x.scoped /\ x.status # "panic"
    THEN IF x.status = "success" /\ x.base # "transitioning" THEN x.base ELSE "unknown"
    ELSE IF x.status # "success" THEN "unknown"
         ELSE IF x.dir = "sleep" THEN "sleeping" ELSE "awake"

Settle(r) ==
  LET x == run[r]
      unscoped == ~x.scoped \/ x.status = "panic"
  IN
  /\ x.pc = "settle"
  /\ backoff' = IF ~unscoped THEN backoff
                ELSE IF x.status = "success" THEN backoff \ {<<x.policy, "transition">>}
                ELSE backoff \cup {<<x.policy, "transition">>}
  /\ UpdatePolicyState(x.policy, FinalState(x))
  /\ Move(r, "sync")
  /\ UNCHANGED <<cache, inflight, orphan, tick, intended, gen, live, admin, requests, quieted>>

\* seeded fault: the final state is written to the database only
SyncCacheSkipped(r) ==
  /\ run[r].pc = "sync"
  /\ Move(r, "leave")
  /\ UNCHANGED <<db, cache, inflight, backoff, orphan, tick, intended, gen, live, admin,
                 faults, requests, quieted>>

SyncCache(r) ==
  /\ run[r].pc = "sync"
  /\ CacheState(run[r].policy, FinalState(run[r]), FALSE)
  /\ Move(r, "leave")
  /\ UNCHANGED <<db, inflight, backoff, orphan, tick, intended, gen, live, admin,
                 faults, requests, quieted>>

\* seeded fault: the deferred delete is missing
LeaveLeaks(r) ==
  /\ run[r].pc = "leave"
  /\ run' = [run EXCEPT ![r] = Freed]
  /\ UNCHANGED <<db, cache, inflight, backoff, orphan, tick, intended, gen, live, admin,
                 faults, requests, quieted>>

\* deferred: delete from inflightPolicies and inflightCancels, WaitGroup.Done
Leave(r) ==
  /\ run[r].pc = "leave"
  /\ inflight' = inflight \ {run[r].policy}
  /\ run' = [run EXCEPT ![r] = Freed]
  /\ UNCHANGED <<db, cache, backoff, orphan, tick, intended, gen, live, admin,
                 faults, requests, quieted>>

\* seeded fault: the cancel handler settles the policy itself
CancelExecutionSettles(r) ==
  /\ run[r].pc = "scaling" /\ ~run[r].cancelled
  /\ Fault
  /\ run' = [run EXCEPT ![r].cancelled = TRUE]
  /\ db' = [db EXCEPT ![run[r].policy].state = "unknown"]
  /\ UNCHANGED <<cache, inflight, backoff, orphan, tick, intended, gen, live, admin,
                 requests, quieted>>

\* CancelExecution finds the registered cancel function
CancelExecution(r) ==
  /\ run[r].pc = "scaling" /\ ~run[r].cancelled
  /\ Fault
  /\ run' = [run EXCEPT ![r].cancelled = TRUE]
  /\ UNCHANGED <<db, cache, inflight, backoff, orphan, tick, intended, gen, live, admin,
                 requests, quieted>>

Timeout(r) ==
  /\ run[r].pc = "scaling" /\ ~run[r].expired
  /\ Fault
  /\ run' = [run EXCEPT ![r].expired = TRUE]
  /\ UNCHANGED <<db, cache, inflight, backoff, orphan, tick, intended, gen, live, admin,
                 requests, quieted>>

(***************************************************************************)
(* The tick loop.  A tick copies the cache once, then evaluates the copies *)
(* one after the other; run is called synchronously up to the go statement.*)
(***************************************************************************)
Waiting(t) == \E r \in Runs : run[r].caller = t /\ run[r].pc \in Calling
Direction(s) == IF s = "awake" THEN "wake" ELSE "sleep"

\* seeded fault: a tick also evaluates policies that have left the cache
TickBeginsAll(t) ==
  /\ tick[t].pc = "idle"
  /\ tick' = [tick EXCEPT ![t] = Loop("eval", tick[t].gen,
                 [p \in Policies |-> cache[p].state], [p \in Policies |-> cache[p].old],
                 intended, Policies)]
  /\ UNCHANGED <<db, cache, inflight, backoff, run, orphan, intended, gen, live, admin,
                 faults, requests, quieted>>

\* select: with both channels ready the choice is random, so a cancelled loop
\* may still take one more tick
TickBegins(t) ==
  /\ tick[t].pc = "idle"
  /\ tick' = [tick EXCEPT ![t] = Loop("eval", tick[t].gen,
                 [p \in Policies |-> cache[p].state], [p \in Policies |-> cache[p].old],
                 intended, {p \in Policies : cache[p].state # "absent"})]
  /\ UNCHANGED <<db, cache, inflight, backoff, run, orphan, intended, gen, live, admin,
                 faults, requests, quieted>>

\* the copy of p is not looked at again; `pc` and `cur` say what comes next
Evaluated(t, p, pc, cur) ==
  tick' = [tick EXCEPT ![t] =
             [pc |-> pc, gen |-> tick[t].gen, cur |-> cur, todo |-> tick[t].todo \ {p},
              snap |-> [tick[t].snap EXCEPT ![p] = "absent"],
              old  |-> [tick[t].old EXCEPT ![p] = FALSE],
              want |-> [tick[t].want EXCEPT ![p] = "unknown"]]]

\* evaluatePolicy, the branches that start an execution or do nothing
Evaluate(t, p) ==
  LET s == tick[t].snap[p]
      w == tick[t].want[p]
      start(scoped, dir, g) == \E r \in Runs : Call(r, p, dir, s, scoped, g, t)
  IN
  /\ tick[t].pc \in {"eval", "recover"} /\ p \in tick[t].todo /\ ~Waiting(t)
  /\ FreeRuns # {}
  /\ \/ \* no windows
        /\ w = "unknown" /\ UNCHANGED <<run, backoff>>
     \/ \* reconcileScopedExceptions
        /\ w # "unknown" /\ s = w /\ ScopedRuns
        /\ <<p, "exception">> \notin backoff
        /\ backoff' = backoff \cup {<<p, "exception">>}
        /\ \E dir \in {"sleep", "wake"} : start(TRUE, dir, gen)
     \/ \* reconcileAwakePolicy, enforceSleepPolicy: a corrective run of the same direction
        /\ w # "unknown" /\ s = w /\ tick[t].pc = "eval"
        /\ <<p, "reconcile">> \notin backoff
        /\ backoff' = backoff \cup {<<p, "reconcile">>}
        /\ \E scoped \in {FALSE, ScopedRuns /\ w = "awake"} :
             start(scoped, Direction(w), gen)
     \/ \* nothing to correct, or every corrective clock still running
        /\ s = w /\ UNCHANGED <<run, backoff>>
     \/ \* executeTransition
        /\ w # "unknown" /\ s \notin {w, "transitioning"} /\ tick[t].pc = "eval"
        /\ IF (w = "awake" => AutoWake) /\ <<p, "transition">> \notin backoff
             THEN start(FALSE, Direction(w), gen) ELSE UNCHANGED run
        /\ UNCHANGED backoff
     \/ \* RecoverPolicies: no gate, no backoff, and the parent context
        /\ w # "unknown" /\ s # w /\ tick[t].pc = "recover"
        /\ start(FALSE, Direction(w), 0)
        /\ UNCHANGED backoff
     \/ \* resetStuckTransition returns early
        /\ w # "unknown" /\ s = "transitioning" /\ tick[t].pc = "eval"
        /\ p \in inflight \/ ~tick[t].old[p]
        /\ UNCHANGED <<run, backoff>>
  /\ Evaluated(t, p, tick[t].pc, NoPolicy)
  /\ UNCHANGED <<db, cache, inflight, orphan, intended, gen, live, admin, faults,
                 requests, quieted>>

\* resetStuckTransition, past its two checks
ResetChecks(t, p) ==
  /\ tick[t].pc = "eval" /\ p \in tick[t].todo /\ ~Waiting(t)
  /\ tick[t].want[p] # "unknown" /\ tick[t].snap[p] = "transitioning"
  /\ p \notin inflight /\ tick[t].old[p]
  /\ Evaluated(t, p, "reset", p)
  /\ UNCHANGED <<db, cache, inflight, backoff, run, orphan, intended, gen, live, admin,
                 faults, requests, quieted>>

ResetState(t) ==
  /\ tick[t].pc = "reset"
  /\ UpdatePolicyState(tick[t].cur, "unknown")
  /\ tick' = [tick EXCEPT ![t].pc = "resetcache"]
  /\ UNCHANGED <<cache, inflight, backoff, run, orphan, intended, gen, live, admin,
                 requests, quieted>>

ResetCache(t) ==
  /\ tick[t].pc = "resetcache"
  /\ CacheState(tick[t].cur, "unknown", cache[tick[t].cur].old)
  /\ tick' = [tick EXCEPT ![t].pc = "eval", ![t].cur = NoPolicy]
  /\ UNCHANGED <<db, inflight, backoff, run, orphan, intended, gen, live, admin,
                 faults, requests, quieted>>

\* evaluateAll returns, or RecoverPolicies returns and the tick loop starts
TickEnds(t) ==
  /\ tick[t].pc \in {"eval", "recover"} /\ tick[t].todo = {} /\ ~Waiting(t)
  /\ tick' = [tick EXCEPT ![t] = NoCopies("idle", tick[t].gen)]
  /\ UNCHANGED <<db, cache, inflight, backoff, run, orphan, intended, gen, live, admin,
                 faults, requests, quieted>>

\* RecoverPolicies stops at its first failed query; safeEvaluateAll recovers a panic
TickAborts(t) ==
  /\ tick[t].pc \in {"eval", "recover"} /\ tick[t].todo # {} /\ ~Waiting(t)
  /\ tick[t].pc = "recover" => DBErrors
  /\ Fault
  /\ tick' = [tick EXCEPT ![t] = NoCopies("idle", tick[t].gen)]
  /\ UNCHANGED <<db, cache, inflight, backoff, run, orphan, intended, gen, live, admin,
                 requests, quieted>>

TickExits(t) ==
  /\ tick[t].pc = "idle" /\ Cancelled(tick[t].gen)
  /\ tick' = [tick EXCEPT ![t] = Off]
  /\ UNCHANGED <<db, cache, inflight, backoff, run, orphan, intended, gen, live, admin,
                 faults, requests, quieted>>

(***************************************************************************)
(* Start, Stop, Restart, the emergency operation and Reload.               *)
(***************************************************************************)
\* reload: ListEnabledPolicies into a fresh map
Reloaded == [p \in Policies |-> IF db[p].enabled
                                  THEN [state |-> db[p].state, old |-> db[p].old]
                                  ELSE [state |-> "absent", old |-> FALSE]]

Reload ==
  /\ admin # "down" /\ Request
  /\ cache' = Reloaded
  /\ UNCHANGED <<db, inflight, backoff, run, orphan, tick, intended, gen, live, admin,
                 faults, quieted>>

\* seeded faults: a boot that recovers only one of the two tables
UnrecoveredRow(row) == row
UnrecoveredExecutions == orphan

\* RecoverInterruptedState: interrupted transitions become "unknown" ...
RecoveredRow(row) ==
  IF row.state = "transitioning" THEN [row EXCEPT !.state = "unknown", !.old = FALSE] ELSE row
\* ... and "running" executions become "interrupted"
RecoveredExecutions == {}

\* RecoverInterruptedState, then Start(ctx): contexts, reload, RecoverPolicies
Boot(t) ==
  /\ admin = "down" /\ tick[t].pc = "off"
  /\ LET rows == [p \in Policies |-> RecoveredRow(db[p])] IN
       /\ db' = rows
       /\ cache' = [p \in Policies |-> IF rows[p].enabled
                      THEN [state |-> rows[p].state, old |-> rows[p].old]
                      ELSE [state |-> "absent", old |-> FALSE]]
       /\ tick' = [tick EXCEPT ![t] = Loop("recover", 1,
                      [p \in Policies |-> rows[p].state], [p \in Policies |-> FALSE],
                      intended, {p \in Policies : rows[p].enabled})]
  /\ orphan' = RecoveredExecutions
  /\ gen' = 1 /\ live' = TRUE /\ admin' = "none"
  /\ UNCHANGED <<inflight, backoff, run, intended, faults, requests, quieted>>

Serving == admin # "down" /\ \A t \in Ticks : tick[t].pc # "recover"

\* Stop cancels both contexts; "stop1" is the emergency operation's own Stop,
\* "stop2" the one inside Restart
BeginStop(pc) ==
  /\ Serving /\ admin = "none" /\ Request
  /\ pc = "stop1" => Emergencies
  /\ admin' = pc /\ live' = FALSE
  /\ UNCHANGED <<db, cache, inflight, backoff, run, orphan, tick, intended, gen, faults,
                 quieted>>

\* ps.inflight.Wait() returns when no execution goroutine is left
StopReturns ==
  /\ admin \in {"stop1", "stop2"} /\ Executing = {}
  /\ admin' = IF admin = "stop1" THEN "disable" ELSE "start"
  /\ UNCHANGED <<db, cache, inflight, backoff, run, orphan, tick, intended, gen, live,
                 faults, requests, quieted>>

DisableAllPolicies ==
  /\ admin = "disable"
  /\ db' = [p \in Policies |-> [db[p] EXCEPT !.enabled = FALSE]]
  /\ admin' = "scale"
  /\ UNCHANGED <<cache, inflight, backoff, run, orphan, tick, intended, gen, live,
                 faults, requests, quieted>>

\* emergencyScaleSnapshots, then Restart: the policies W with open snapshots are
\* recorded as "awake", or "unknown" after an error, whatever claims them now; a
\* failed write leaves the row of their synthetic execution "running"
EmergencyScale ==
  /\ admin = "scale"
  /\ \E W \in SUBSET Policies, s \in [Policies -> {"awake", "unknown"}] :
       db' = [p \in Policies |-> IF p \in W THEN [db[p] EXCEPT !.state = s[p], !.old = FALSE]
                                 ELSE db[p]]
  /\ \/ UNCHANGED <<orphan, faults>>
     \/ DBErrors /\ Fault /\ \E W \in SUBSET Policies : orphan' = orphan \cup W
  /\ admin' = "stop2" /\ quieted' = TRUE
  /\ UNCHANGED <<cache, inflight, backoff, run, tick, intended, gen, live, requests>>

\* start(ctx, recover = false)
Start(t) ==
  /\ admin = "start" /\ tick[t].pc = "off" /\ gen < MaxGen
  /\ gen' = gen + 1 /\ live' = TRUE
  /\ cache' = Reloaded
  /\ tick' = [tick EXCEPT ![t] = NoCopies("idle", gen')]
  /\ admin' = "none"
  /\ UNCHANGED <<db, inflight, backoff, run, orphan, intended, faults, requests,
                 quieted>>

\* an error of DisableAllPolicies, GetAllOpenSnapshots or reload ends the handler:
\* no tick loop runs until a later Restart
AdminFails ==
  /\ DBErrors /\ Fault
  /\ admin' = "none"
  /\ \/ admin \in {"disable", "scale"} /\ UNCHANGED <<gen, live>>
     \/ /\ admin = "start" /\ gen < MaxGen
        /\ gen' = gen + 1 /\ live' = TRUE
  /\ UNCHANGED <<db, cache, inflight, backoff, run, orphan, tick, intended, requests,
                 quieted>>

Crash ==
  /\ admin # "down" /\ Fault
  /\ admin' = "down" /\ live' = FALSE /\ gen' = 0
  /\ \E W \in SUBSET (IF admin = "scale" THEN Policies ELSE {}) :
       orphan' = orphan \cup W \cup {run[r].policy : r \in
                   {q \in Runs : run[q].pc \in {"spawned", "scaling", "finish"}}}
  /\ run' = [r \in Runs |-> Freed]
  /\ tick' = [t \in Ticks |-> Off]
  /\ cache' = Dead /\ inflight' = {} /\ backoff' = {}
  /\ quieted' = FALSE
  /\ UNCHANGED <<db, intended, requests>>

(***************************************************************************)
(* API requests and the passage of time.                                   *)
(***************************************************************************)
\* runNow, and runExceptionScoped for an exception that starts, ends or is
\* deleted: GetPolicy and execContext(), then run
RequestRun(r, p, dir, scoped) ==
  /\ Serving /\ Request
  /\ scoped => ScopedRuns /\ db[p].enabled
  /\ Call(r, p, dir, db[p].state, scoped, gen, "api")
  /\ UNCHANGED <<db, cache, inflight, backoff, orphan, tick, intended, gen, live, admin,
                 faults, quieted>>

\* updatePolicy with enabled = b: UpdatePolicy here, its Reload is a later step
SetEnabled(p, b) ==
  /\ Serving /\ Request
  /\ db[p].enabled # b
  /\ db' = [db EXCEPT ![p].enabled = b]
  /\ quieted' = FALSE
  /\ UNCHANGED <<cache, inflight, backoff, run, orphan, tick, intended, gen, live, admin,
                 faults>>

\* a window opens or closes, a policy-wide exception starts or ends
IntentChanges(p) ==
  /\ Request
  /\ \E s \in Settled \ {intended[p]} : intended' = [intended EXCEPT ![p] = s]
  /\ UNCHANGED <<db, cache, inflight, backoff, run, orphan, tick, gen, live, admin,
                 faults, quieted>>

BackoffElapses(b) ==
  /\ b \in backoff
  /\ backoff' = backoff \ {b}
  /\ UNCHANGED <<db, cache, inflight, run, orphan, tick, intended, gen, live, admin,
                 faults, requests, quieted>>

\* state_since passes stuckTimeout: execution timeout plus the grace period
Ages(p) ==
  /\ admin # "down"
  /\ \/ db[p].state = "transitioning" /\ ~db[p].old
     \/ cache[p].state = "transitioning" /\ ~cache[p].old
  /\ \A r \in RunsOf(p) : Overrun /\ run[r].expired
  /\ db' = [db EXCEPT ![p].old = (db[p].state = "transitioning")]
  /\ cache' = [cache EXCEPT ![p].old = (cache[p].state = "transitioning")]
  /\ UNCHANGED <<inflight, backoff, run, orphan, tick, intended, gen, live, admin,
                 faults, requests, quieted>>

RunStep(r) ==
  \/ Enter(r) \/ SetPolicyTransitioning(r) \/ Unclaim(r) \/ ClaimCache(r)
  \/ CreateExecution(r) \/ Rollback(r) \/ RollbackCache(r)
  \/ RegisterCancel(r) \/ ScalerEnds(r) \/ FinishExecution(r) \/ Settle(r)
  \/ SyncCache(r) \/ Leave(r)

TickStep(t) ==
  \/ TickBegins(t) \/ (\E p \in Policies : Evaluate(t, p) \/ ResetChecks(t, p))
  \/ ResetState(t) \/ ResetCache(t) \/ TickEnds(t) \/ TickExits(t)

AdminStep ==
  \/ StopReturns \/ DisableAllPolicies \/ EmergencyScale \/ \E t \in Ticks : Boot(t) \/ Start(t)

Environment ==
  \/ Reload \/ AdminFails \/ Crash
  \/ \E t \in Ticks : TickAborts(t)
  \/ \E pc \in {"stop1", "stop2"} : BeginStop(pc)
  \/ \E r \in Runs : CancelExecution(r) \/ Timeout(r)
  \/ \E r \in Runs, p \in Policies, dir \in {"sleep", "wake"}, scoped \in BOOLEAN :
       RequestRun(r, p, dir, scoped)
  \/ \E p \in Policies : IntentChanges(p) \/ Ages(p) \/ \E b \in BOOLEAN : SetEnabled(p, b)
  \/ \E b \in Policies \X Clocks : BackoffElapses(b)

Next ==
  \/ \E r \in Runs : RunStep(r)
  \/ \E t \in Ticks : TickStep(t)
  \/ AdminStep
  \/ Environment

Spec == Init /\ [][Next]_vars

(***************************************************************************)
(* Goroutines that can run do run, a stopped process is started again, and *)
(* every backoff and stuck-state clock runs on.  A cancelled tick loop     *)
(* leaves at some select (its choice among ready channels is random, hence *)
(* the strong fairness).  API calls and faults are never obliged to happen.*)
(***************************************************************************)
Fairness ==
  /\ \A r \in Runs : WF_vars(RunStep(r))
  /\ \A t \in Ticks : WF_vars(TickStep(t)) /\ SF_vars(TickExits(t))
  /\ WF_vars(AdminStep)
  /\ \A b \in Policies \X Clocks : WF_vars(BackoffElapses(b))
  /\ \A p \in Policies : WF_vars(Ages(p))

FairSpec == Spec /\ Fairness

(***************************************************************************)
(* Properties.                                                             *)
(***************************************************************************)
RunType == [pc : {"free"} \cup Calling \cup Spawned, policy : Policies \cup {NoPolicy},
            dir : {"sleep", "wake"}, base : States, prior : States, scoped : BOOLEAN, gen : Nat,
            caller : Ticks \cup {"api", "none"}, cancelled : BOOLEAN, expired : BOOLEAN,
            status : {"running", "success", "interrupted", "failed", "panic"}]

TickType == [pc : {"off", "idle", "eval", "recover", "reset", "resetcache"}, gen : Nat,
             snap : [Policies -> States \cup {"absent"}], old : [Policies -> BOOLEAN],
             want : [Policies -> Settled], todo : SUBSET Policies,
             cur : Policies \cup {NoPolicy}]

(* Type invariant: every variable holds a value the scheduler's data types   *)
(* allow, and a slot that is in use names a policy (execution.go:36).        *)
TypeOK ==
  /\ db \in [Policies -> [state : States, enabled : BOOLEAN, old : BOOLEAN]]
  /\ cache \in [Policies -> [state : States \cup {"absent"}, old : BOOLEAN]]
  /\ inflight \in SUBSET Policies
  /\ backoff \in SUBSET (Policies \X Clocks)
  /\ run \in [Runs -> RunType]
  /\ \A r \in Runs : run[r].pc # "free" => run[r].policy \in Policies
  /\ orphan \in SUBSET Policies
  /\ tick \in [Ticks -> TickType]
  /\ \A t \in Ticks :
       /\ tick[t].pc \in {"reset", "resetcache"} => tick[t].cur \in Policies
       /\ \A p \in tick[t].todo : tick[t].snap[p] # "absent"
  /\ intended \in [Policies -> Settled]
  /\ gen \in Nat /\ live \in BOOLEAN
  /\ admin \in {"down", "none", "stop1", "disable", "scale", "stop2", "start"}
  /\ faults \in Nat /\ requests \in Nat
  /\ quieted \in BOOLEAN

(* Two executions of one policy never overlap, whichever of the tick loop, a *)
(* surviving old tick loop, recovery and the API started them, and whatever  *)
(* Stop, Restart, a failed write or a stuck-state reset did in between       *)
(* (the in-flight check of run, execution.go:37-43).                         *)
ExclusiveExecution ==
  \A r1, r2 \in Runs :
    r1 # r2 /\ run[r1].pc \in Holding /\ run[r2].pc \in Holding
      => run[r1].policy # run[r2].policy

(* A policy is marked in flight exactly while a run holds it: no error path, *)
(* panic or rollback leaves the mark behind (which would stop the policy for *)
(* the life of the process) or removes another run's mark                    *)
(* (execution.go:46-49, 67-75, 84-89).                                       *)
InflightExact ==
  inflight = {run[r].policy : r \in {q \in Runs : run[q].pc \in Holding}}

(* From its claim until its final write, a run finds its policy's row still  *)
(* "transitioning": nobody, a stuck-state reset included, releases the claim *)
(* of a live execution (policies.go:78-95, policy_scheduler.go:648-672).     *)
ClaimHeld ==
  \A r \in Runs :
    run[r].pc \in Claiming => db[run[r].policy].state = "transitioning"

(* When nothing is under way for a policy, the cached state that the next    *)
(* tick acts on is the state the database and the UI show, also once an      *)
(* administrative stop, restart or emergency operation is over               *)
(* (execution.go:261-290, policy_scheduler.go:702-733).                      *)
CacheAgrees ==
  \A p \in Policies :
    /\ RunsOf(p) = {} /\ cache[p].state # "absent" /\ admin = "none"
    /\ \A t \in Ticks : tick[t].cur # p
    => cache[p].state = db[p].state

(***************************************************************************)
(* Why CacheAgrees and ClaimHeld hold: their inductive invariants.         *)
(***************************************************************************)
ClaimedBy(p)  == \E r \in Runs : run[r].policy = p /\ run[r].pc \in Claiming
Underway(p)   == \E r \in Runs : run[r].policy = p /\ run[r].pc \in Claiming \cup {"sync"}
Resetting(p)  == \E t \in Ticks : tick[t].pc = "resetcache" /\ tick[t].cur = p
\* "transitioning" in the database, and no run will change that
Stuck(p) ==
  /\ db[p].state = "transitioning"
  /\ \A r \in Runs : run[r].policy = p => run[r].pc \notin Claiming \cup {"rollback"}

\* while no write fails and no run overruns, every transition has its run, so that the
\* clock of a stuck transition never runs and nothing is ever rolled back or reset
NothingStuck ==
  /\ \A p \in Policies :
       /\ ~db[p].old /\ ~cache[p].old
       /\ admin # "down" /\ db[p].state = "transitioning" => ClaimedBy(p)
       /\ admin # "down" /\ cache[p].state = "transitioning" => Underway(p)
  /\ \A t \in Ticks :
       /\ tick[t].pc \notin {"reset", "resetcache"}
       /\ \A p \in Policies : ~tick[t].old[p]
  /\ \A r \in Runs : run[r].pc \notin {"rollback", "uncache"}

\* the cache lags behind the database only while a run is about to write it or a
\* restart is about to reload it
CacheFollows ==
  /\ \A p \in Policies : cache[p].state \notin {"absent", db[p].state} =>
       Underway(p) \/ admin \in {"stop2", "start"}
  /\ \A r \in Runs : run[r].pc = "sync" =>
       db[run[r].policy].state = FinalState(run[r]) \/ admin = "stop2"

AgreeInv == NothingStuck /\ CacheFollows

\* an old "transitioning" that a tick loop acts on belongs to no run, also when
\* the loop has read it from the cache some time ago
StuckExact ==
  /\ \A p \in Policies :
       /\ db[p].old => Stuck(p)
       /\ cache[p].state = "transitioning" =>
            \/ db[p].state = "transitioning" \/ Resetting(p)
            \/ \E r \in Runs : run[r].policy = p /\ run[r].pc \in {"uncache", "sync"}
       /\ cache[p].state = "transitioning" /\ cache[p].old => Stuck(p) \/ Resetting(p)
  /\ \A t \in Ticks :
       /\ tick[t].pc = "reset" => Stuck(tick[t].cur)
       /\ tick[t].pc \in {"reset", "resetcache"} => tick[t].cur \notin tick[t].todo
       /\ \A p \in tick[t].todo : tick[t].snap[p] = "transitioning" /\ tick[t].old[p] => Stuck(p)

\* a process that is down runs nothing, and no emergency operation is under way
ProcessShape ==
  /\ admin = "down" => /\ \A r \in Runs : run[r].pc = "free"
                       /\ \A t \in Ticks : tick[t].pc = "off"
  /\ admin # "down" => gen > 0
  /\ \A t \in Ticks : tick[t].pc = "off" => tick[t].todo = {}
  /\ admin \notin {"stop1", "disable", "scale"}

\* no tick loop has survived a restart
OneLoop == \A t1, t2 \in Ticks : tick[t1].pc # "off" /\ tick[t2].pc # "off" => t1 = t2

ClaimInv == ProcessShape /\ OneLoop /\ StuckExact /\ ClaimHeld

(* Every claimed transition ends: a policy does not stay "transitioning",    *)
(* through cancellation, timeout, panic, restart and crash                   *)
(* (execution.go:261-290, ownership.go:45-65, policy_scheduler.go:648-672).  *)
TransitionsEnd ==
  \A p \in Policies : db[p].state = "transitioning" ~> db[p].state # "transitioning"

(* No execution row stays "running" for ever: its goroutine finishes it or   *)
(* the next boot marks it interrupted (execution.go:229-248,                 *)
(* ownership.go:45-65).                                                      *)
ExecutionsFinish ==
  LET rowRunning(p) == p \in orphan \/ \E r \in Runs :
                         run[r].policy = p /\ run[r].pc \in {"spawned", "scaling", "finish"}
  IN \A p \in Policies : rowRunning(p) ~> ~rowRunning(p)

(* When the intent and the enabled flag stop changing, the policy comes to   *)
(* the intended state again and again, and at last leaves it only for the    *)
(* transition of a corrective execution, after any finite number of crashes, *)
(* failures, cancellations and manual triggers (policy_scheduler.go:402-464, *)
(* 676-699).                                                                 *)
Converges ==
  \A p \in Policies, s \in {"sleeping", "awake"} :
    <>[](intended[p] = s /\ db[p].enabled)
      => /\ []<>(db[p].state = s)
         /\ <>[](db[p].state \in {s, "transitioning"})

(* Stop cancels every execution it then waits for, so that the wait does not *)
(* last until a per-execution timeout (policy_scheduler.go:168-184).         *)
StopCancelsWaited ==
  admin \in {"stop1", "stop2"} => \A r \in Executing : CtxDone(r)

(* A scoped execution puts back the baseline state that it displaced with    *)
(* its claim, or "unknown": its success does not stand in for a baseline     *)
(* (policy_scheduler.go:482-483, execution.go:163-177).                      *)
ScopedRestoresBaseline ==
  \A r \in Runs :
    run[r].pc = "settle" /\ run[r].scoped
      => FinalState(run[r]) \in {run[r].prior, "unknown"}

(* After the emergency operation has disabled every policy and restarted the *)
(* scheduler, no execution started by a tick is at work (admin.go:179).      *)
EmergencyQuiet ==
  quieted /\ admin = "none" =>
    \A r \in Runs : run[r].caller \in Ticks /\ run[r].pc = "scaling" => CtxDone(r)

=============================================================================
