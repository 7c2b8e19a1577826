----------------------------- MODULE DangerZone -----------------------------
(***************************************************************************)
(* The two destructive operations of the settings page, database reset and *)
(* emergency scale: two dialogs and a typed phrase, a request that streams *)
(* progress events, and a server handler that stops the policy scheduler,  *)
(* works through its steps and restarts the scheduler.                     *)
(*                                                                         *)
(* A handler runs to its end whether or not anybody reads its stream, and  *)
(* nothing keeps a second operation, from the same page or another one,    *)
(* from running beside it.                                                 *)
(***************************************************************************)
EXTENDS Integers, Sequences, FiniteSets

CONSTANTS Tabs, MaxOps, MaxFaults, MaxLosses   \* open settings pages; bounds

\* What the instance must satisfy.
DangerZoneAssumption == IsFiniteSet(Tabs) /\ {MaxOps, MaxFaults, MaxLosses} \subseteq Nat

VARIABLES
  ui,         \* tab -> [op, stage, phrase, events, done]
  job,        \* handlers: id -> [tab, op, pc, failed, result]
  wire,       \* id -> events on the way to the tab, or Cut
  running,    \* the policy scheduler ticks
  schema,     \* "ok", "dropped" or "bare" (not seeded)
  enabled,    \* some policy is enabled
  asleep,     \* workloads are scaled to zero and have open snapshots
  disturbed,  \* history: the scheduler put workloads to sleep during an operation
  faults, losses

vars == <<ui, job, wire, running, schema, enabled, asleep, disturbed, faults, losses>>

Ops == {"reset", "emergency"}
None == "none"
Cut == <<"cut">>

\* What a handler does, in order.  It announces each step before it takes it.
Steps(op) == IF op = "reset" THEN <<"stop", "drop", "migrate", "seed", "restart">>
             ELSE <<"stop", "disable", "cancel", "find", "scale", "restart">>

Closed == [op |-> None, stage |-> "closed", phrase |-> None, events |-> <<>>, done |-> FALSE, id |-> 0]

Init ==
  /\ ui = [t \in Tabs |-> Closed] /\ job = <<>> /\ wire = <<>> /\ running = TRUE /\ schema = "ok"
  /\ enabled = TRUE /\ asleep = FALSE /\ disturbed = FALSE /\ faults = 0 /\ losses = 0

server == <<job, running, schema, enabled, asleep, disturbed, faults>>

----------------------------------------------------------------------------
(* The page. *)

Shown(t, stage) == ui[t].stage = stage

OpenStep1(t, op) ==
  /\ Shown(t, "closed") /\ ui' = [ui EXCEPT ![t].op = op, ![t].stage = "step1"]
  /\ UNCHANGED <<wire, losses, server>>

ConfirmStep1(t) ==
  /\ Shown(t, "step1") /\ ui' = [ui EXCEPT ![t].stage = "step2", ![t].phrase = None]
  /\ UNCHANGED <<wire, losses, server>>

TypePhrase(t, op) ==
  /\ Shown(t, "step2") /\ ui[t].phrase # op /\ ui' = [ui EXCEPT ![t].phrase = op]
  /\ UNCHANGED <<wire, losses, server>>

Cancel(t) ==
  /\ Shown(t, "step1") \/ Shown(t, "step2")
  /\ ui' = [ui EXCEPT ![t] = Closed]
  /\ UNCHANGED <<wire, losses, server>>

\* Each operation has its own phrase.
ConfirmStep2(t) ==
  /\ Shown(t, "step2") /\ ui[t].phrase = ui[t].op /\ Len(job) < MaxOps
  /\ ui' = [ui EXCEPT ![t] = [@ EXCEPT !.stage = "progress", !.phrase = None, !.events = <<>>, !.done = FALSE,
                                       !.id = Len(job) + 1]]
  /\ job' = Append(job, [tab |-> t, op |-> ui[t].op, pc |-> 1, said |-> FALSE, failed |-> FALSE, result |-> None])
  /\ wire' = Append(wire, <<>>)
  /\ UNCHANGED <<running, schema, enabled, asleep, disturbed, faults, losses>>

\* One event of the stream; "done" and "error" end the loop.
Receive(t) ==
  /\ Shown(t, "progress") /\ ~ui[t].done
  /\ LET w == wire[ui[t].id] IN
     /\ w # Cut /\ w # <<>>
     /\ ui' = [ui EXCEPT ![t].events = Append(@, Head(w)), ![t].done = Head(w) \in {"done", "error"}]
     /\ wire' = [wire EXCEPT ![ui[t].id] = Tail(w)]
  /\ UNCHANGED <<losses, server>>

\* Mutant of Interrupted: the end of the stream is taken for success.
InterruptedAsDone(t) ==
  /\ Shown(t, "progress") /\ ~ui[t].done /\ wire[ui[t].id] = Cut
  /\ ui' = [ui EXCEPT ![t].events = Append(@, "done"), ![t].done = TRUE]
  /\ UNCHANGED <<wire, losses, server>>

\* The stream ends early: with an exception, or silently between two events.
Interrupted(t) ==
  /\ Shown(t, "progress") /\ ~ui[t].done /\ wire[ui[t].id] = Cut
  /\ \E e \in {<<"error">>, <<>>} : ui' = [ui EXCEPT ![t].events = @ \o e, ![t].done = TRUE]
  /\ UNCHANGED <<wire, losses, server>>

\* Title of the progress dialog.
Title(t) == IF ~ui[t].done THEN "running"
            ELSE IF \E i \in DOMAIN ui[t].events : ui[t].events[i] = "done" THEN "complete" ELSE "failed"

CloseProgress(t) ==
  /\ Shown(t, "progress") /\ ui[t].done /\ ui' = [ui EXCEPT ![t] = Closed]
  /\ UNCHANGED <<wire, losses, server>>

\* The connection breaks, or the page is reloaded.
Lose(t) ==
  /\ Shown(t, "progress") /\ ~ui[t].done /\ losses < MaxLosses /\ losses' = losses + 1
  /\ wire' = [wire EXCEPT ![ui[t].id] = Cut]
  /\ \E reload \in BOOLEAN : ui' = IF reload THEN [ui EXCEPT ![t] = Closed] ELSE ui
  /\ UNCHANGED server

----------------------------------------------------------------------------
(* The handlers. *)

Active(j) == job[j].result = None
Step(j) == Steps(job[j].op)[job[j].pc]
Emit(j, e) == wire' = IF wire[j] = Cut THEN wire ELSE [wire EXCEPT ![j] = Append(@, e)]

\* The step is announced to the client.
Announce(j) ==
  /\ Active(j) /\ ~job[j].said
  /\ Emit(j, "step") /\ job' = [job EXCEPT ![j].said = TRUE]
  /\ UNCHANGED <<ui, running, schema, enabled, asleep, disturbed, faults, losses>>

\* Statements on tables that are not there fail.
Possible(s) == s \in {"disable", "find", "seed"} => schema # "dropped"

Effect(s) ==
  /\ running' = IF s = "stop" THEN FALSE ELSE IF s = "restart" THEN TRUE ELSE running
  /\ schema' = CASE s = "drop" -> "dropped" [] s = "migrate" -> "bare" [] s = "seed" -> "ok" [] OTHER -> schema
  /\ enabled' = (enabled /\ s \notin {"disable", "drop"})
  /\ asleep' = (asleep /\ s \notin {"scale", "drop"})

\* A step succeeds; the last one ends the handler.  A failed scale is reported after the restart.
Take(j) ==
  /\ Active(j) /\ job[j].said /\ Possible(Step(j)) /\ Effect(Step(j))
  /\ LET last == job[j].pc = Len(Steps(job[j].op))
         verdict == IF job[j].failed THEN "error" ELSE "done"
     IN IF last THEN job' = [job EXCEPT ![j].result = verdict] /\ Emit(j, verdict)
        ELSE job' = [job EXCEPT ![j].pc = @ + 1, ![j].said = FALSE] /\ UNCHANGED wire
  /\ UNCHANGED <<ui, disturbed, faults, losses>>

\* Steps that are allowed to fail without ending the operation.
Tolerated == {"cancel", "scale"}

\* A step fails: the handler reports the error and returns, the scheduler stays as it is.
Fail(j) ==
  /\ Active(j) /\ job[j].said /\ Step(j) # "stop"
  /\ \/ faults < MaxFaults /\ faults' = faults + 1
     \/ ~Possible(Step(j)) /\ UNCHANGED faults
  /\ IF Step(j) \in Tolerated
     THEN /\ job' = [job EXCEPT ![j].pc = @ + 1, ![j].said = FALSE, ![j].failed = (@ \/ Step(j) = "scale")]
          /\ UNCHANGED wire
     ELSE /\ job' = [job EXCEPT ![j].result = "error"] /\ Emit(j, "error")
  /\ UNCHANGED <<ui, running, schema, enabled, asleep, disturbed, losses>>

\* The scheduler ticks, an administrator enables a policy again.
Between(j) == Active(j) /\ job[j].pc > 1
Tick ==
  /\ running /\ schema = "ok" /\ enabled /\ ~asleep /\ asleep' = TRUE
  /\ disturbed' = (disturbed \/ \E j \in DOMAIN job : Between(j))
  /\ UNCHANGED <<ui, job, wire, running, schema, enabled, faults, losses>>

Enable ==
  /\ schema = "ok" /\ ~enabled /\ enabled' = TRUE
  /\ UNCHANGED <<ui, job, wire, running, schema, asleep, disturbed, faults, losses>>

Next ==
  \/ \E t \in Tabs : \/ \E op \in Ops : OpenStep1(t, op) \/ TypePhrase(t, op)
                     \/ ConfirmStep1(t) \/ ConfirmStep2(t) \/ Cancel(t)
                     \/ Receive(t) \/ Interrupted(t) \/ CloseProgress(t) \/ Lose(t)
  \/ \E j \in DOMAIN job : Announce(j) \/ Take(j) \/ Fail(j)
  \/ Tick \/ Enable

Spec == Init /\ [][Next]_vars

----------------------------------------------------------------------------
(* Properties. *)

TypeOK ==
  /\ \A t \in Tabs : ui[t].op \in Ops \cup {None} /\ ui[t].stage \in {"closed", "step1", "step2", "progress"}
  /\ \A j \in DOMAIN job : job[j].op \in Ops /\ job[j].pc \in DOMAIN Steps(job[j].op) /\ job[j].result \in {None, "done", "error"}
  /\ schema \in {"ok", "dropped", "bare"} /\ DOMAIN wire = DOMAIN job

\* The dialog reports completion only of an operation the server completed without an error.
CompleteIsTrue ==
  \A t \in Tabs : (Shown(t, "progress") /\ Title(t) = "complete") => job[ui[t].id].result = "done"

\* From its stop to its restart no policy puts workloads to sleep under an operation.
UndisturbedOperation == ~disturbed

\* When no operation is under way the policy scheduler is running.
SchedulerResumes == (\A j \in DOMAIN job : ~Active(j)) => running

\* What the page reports is what the server did, and an operation that nobody disturbs leaves the
\* scheduler as it found it.  Left out: a failed step returns without the restart, and where several
\* pages are open or a stream was lost a second operation restarts the scheduler under the first.
OutcomeTruthful ==
  /\ TypeOK /\ CompleteIsTrue
  /\ Cardinality(Tabs) > 1 \/ losses > 0 \/ UndisturbedOperation
  /\ faults > 0 \/ SchedulerResumes

----------------------------------------------------------------------------
(* Why OutcomeTruthful holds.                                                 *)

Events == {"step", "done", "error"}
Results == {None, "done", "error"}
Dialogs == [op : Ops \cup {None}, stage : {"closed", "step1", "step2", "progress"}, phrase : Ops \cup {None},
            events : Seq(Events), done : BOOLEAN, id : Nat]
Handlers == [tab : Tabs, op : Ops, pc : 1..6, said : BOOLEAN, failed : BOOLEAN, result : Results]
Shapes ==
  /\ ui \in [Tabs -> Dialogs] /\ job \in Seq(Handlers)
  /\ \A j \in DOMAIN job : job[j].pc <= Len(Steps(job[j].op))
  /\ wire \in Seq(Seq(Events) \cup {Cut}) /\ Len(wire) = Len(job)
  /\ \A t \in Tabs : ui[t].stage \in {"step1", "step2"} => ui[t].op # None
  /\ schema \in {"ok", "dropped", "bare"} /\ running \in BOOLEAN /\ enabled \in BOOLEAN
  /\ asleep \in BOOLEAN /\ disturbed \in BOOLEAN /\ faults \in 0..MaxFaults /\ losses \in 0..MaxLosses

\* A "done", on the way or received, is the server's own.
DoneIsReal ==
  /\ \A j \in DOMAIN job : \A i \in DOMAIN wire[j] : wire[j][i] = "done" => job[j].result = "done"
  /\ \A t \in Tabs : Shown(t, "progress") =>
       /\ ui[t].id \in DOMAIN job
       /\ \A i \in DOMAIN ui[t].events : ui[t].events[i] = "done" => job[ui[t].id].result = "done"

\* With one page that has lost no connection, an operation that is under way is the one the page shows,
\* its end is not on the way yet, and from its stop on the policy scheduler stands still.
Alone == Cardinality(Tabs) <= 1 /\ losses = 0
OneOperation ==
  /\ \A j \in DOMAIN job : wire[j] # Cut
  /\ \A j \in DOMAIN job : Active(j) =>
       /\ \A t \in Tabs : Shown(t, "progress") /\ ui[t].id = j /\ ~ui[t].done
       /\ \A i \in DOMAIN wire[j] : wire[j][i] = "step"
       /\ Between(j) => ~running

\* As long as no step failed, what has stopped the scheduler or dropped the tables is a handler that goes on.
HandlersGoOn ==
  /\ ~running => \E j \in DOMAIN job : Between(j)
  /\ schema = "dropped" => \E j \in DOMAIN job : Active(j) /\ Step(j) = "migrate"

OutcomeInv ==
  /\ Shapes /\ DoneIsReal
  /\ Alone => OneOperation /\ ~disturbed
  /\ faults = 0 => HandlersGoOn
=============================================================================
