------------------------------- MODULE MCLive -------------------------------
(***************************************************************************)
(* What must happen in the end, for TLC: the log of an execution in the    *)
(* browser (ExecutionLogs), the end of exceptions (ScheduledExceptions),   *)
(* the recovery of cordons (NodeDrain) and the overview of the cluster     *)
(* (ClusterOverview), each under the fairness of its own goroutines,       *)
(* timers and connections.                                                 *)
(*                                                                         *)
(* The components do not share state; `part' chooses the one that runs.    *)
(* Crashes, faults, lost connections, users and operators are never fair.  *)
(* ScheduledExceptions is extended, its constants are in live.cfg: one     *)
(* exception, changed or cancelled before or while it runs, one refused    *)
(* execution.                                                              *)
(***************************************************************************)
EXTENDS ScheduledExceptions

VARIABLES
  part,
  stage, n, kept, db, sub, handler, frames, sock, hook, opened, known, stored, toast, faults, opens,
  lossy,
  proc, session, phase, task, node, pod, keeps, freed, listed, killed, crushed, marks, count,
  world, lister, saved, policies, saving, timer, eventful, build, snap, memo, lock, sse, rest, wire,
  shown, paused, refetches, drops

logs       == <<stage, n, kept, db, sub, handler, frames, sock, hook, opened, known, stored, toast,
                faults, opens, lossy>>
drain      == <<proc, session, phase, task, node, pod, keeps, freed, listed, killed, crushed, marks,
                count>>
overview   == <<world, lister, saved, policies, saving, timer, eventful, build, snap, memo, lock, sse,
                rest, wire, shown, paused, refetches, drops>>
suite      == <<part, logs, vars, drain, overview>>

----------------------------------------------------------------------------
\* A log longer than ring and channel, one fault, one viewer.
Logs == INSTANCE ExecutionLogs WITH
  saved <- kept, wire <- frames,
  MaxLines <- 2, RingSize <- 1, ChannelSize <- 1, FlushSize <- 1, MaxHistory <- 2, MaxSeen <- 4,
  SeenTrim <- 2, MaxRetries <- 1, MaxFaults <- 1, MaxOpens <- 1, Crowded <- TRUE

\* A drain that meets a fault, crashes or is cancelled, and an operator.
Drain == INSTANCE NodeDrain WITH
  kept <- keeps,
  Procs <- {"p1"}, Phases <- {"e1"}, Nodes <- {"n1"}, Pods <- {"a"}, Protected <- {}, Critical <- {},
  Home <- [x \in {"a"} |-> "n1"], Concurrency <- 1, Overlap <- FALSE, Roaming <- FALSE,
  CleanupFails <- FALSE, MaxPhases <- 2, MaxFaults <- 1, MaxCrashes <- 1, MaxLosses <- 0,
  MaxMeddling <- 1, MaxJoins <- 0, MaxUid <- 2

\* A change of the cluster, seen through the stream or a plain request.
Overview == INSTANCE ClusterOverview WITH
  Builders <- {1}, Delay <- 1, WireSize <- 1, Busy <- FALSE, MaxChanges <- 1, MaxSaved <- 0,
  MaxPolicies <- 0, MaxRefetch <- 0, MaxDrops <- 0

ASSUME Logs!SizesAssumption /\ ScheduledExceptionsAssumption
ASSUME Drain!DrainAssumption /\ Overview!OverviewAssumption

SuiteInit ==
  /\ part \in {"logs", "exceptions", "drain", "overview"}
  /\ Logs!LogsInit /\ Init /\ Drain!Init /\ Overview!Init

\* The component that runs.
InLogs(A)       == part = "logs" /\ A
InExceptions(A) == part = "exceptions" /\ A
InDrain(A)      == part = "drain" /\ A
InOverview(A)   == part = "overview" /\ A

SuiteNext ==
  \/ InLogs(Logs!LogsNext) /\ UNCHANGED <<part, vars, drain, overview>>
  \/ InExceptions(Next) /\ UNCHANGED <<part, logs, drain, overview>>
  \/ InDrain(Drain!Next) /\ UNCHANGED <<part, logs, vars, overview>>
  \/ InOverview(Overview!Next) /\ UNCHANGED <<part, logs, vars, drain>>

----------------------------------------------------------------------------
(* Fairness.  A step of one component leaves the others alone, so that the subscript of its own *)
(* variables says what `suite' would. *)

\* The goroutines of the execution and of the connection run, the status query polls, a failed
\* log query is retried, messages are delivered or the socket closes, and frames are drawn.
LogsFair ==
  /\ WF_logs(InLogs(Logs!Flush)) /\ WF_logs(InLogs(Logs!LogChannelDrained))
  /\ WF_logs(InLogs(Logs!BrokerClose)) /\ WF_logs(InLogs(Logs!FinishExecution))
  /\ WF_logs(InLogs(Logs!Server)) /\ WF_logs(InLogs(Logs!PollStatus))
  /\ WF_logs(InLogs(Logs!FetchLogs)) /\ WF_logs(InLogs(Logs!Receive \/ Logs!OnClose))
  /\ WF_logs(InLogs(Logs!Frame))

\* Time passes, ticks are taken and calls finish.
ExceptionsFair ==
  /\ WF_vars(InExceptions(Advance)) /\ WF_vars(InExceptions(Tick))
  /\ WF_vars(InExceptions(\E c \in calls : Write(c)))

\* Goroutines run, timers fire and the Deployment starts the process again.
DrainFair ==
  /\ WF_drain(InDrain(Drain!Boot("p1"))) /\ WF_drain(InDrain(Drain!FinishPhase("e1")))
  /\ WF_drain(InDrain(Drain!Step("e1", "n1")))
  /\ \A t \in Drain!Tasks : WF_drain(InDrain(Drain!Recovery(t, "n1")))

\* Informers, timers, the rebuild, the handler of the stream with its connection, the plain
\* request and the browser make progress.  At most one step of each is possible at a time.
OverviewFair ==
  /\ WF_overview(InOverview(Overview!Deliver)) /\ WF_overview(InOverview(Overview!Resync))
  /\ WF_overview(InOverview(Overview!Tick)) /\ WF_overview(InOverview(Overview!Receive))
  /\ WF_overview(InOverview(Overview!Build(1) \/ Overview!Publish(1) \/ Overview!Notify(1)))
  /\ WF_overview(InOverview(\/ Overview!Connect \/ Overview!StreamOverview
                        \/ Overview!Write \/ Overview!Signalled))
  /\ WF_overview(InOverview(Overview!RequestOverview \/ Overview!Answer))

SuiteSpec == SuiteInit /\ [][SuiteNext]_suite /\ LogsFair /\ ExceptionsFair /\ DrainFair /\ OverviewFair

----------------------------------------------------------------------------
(* Properties. *)

\* An open viewer of a finished execution ends up showing exactly the stored log, whatever was
\* lost on the way (ExecutionLogs).
EventuallyShown == part = "logs" => Logs!EventuallyShown

\* A cordon no drain is responsible for any more is undone, or its node is gone (NodeDrain).
CordonsRecovered == part = "drain" => Drain!CordonsRecovered

\* Once the cluster and the rows stop changing, the card of the dashboard shows them
\* (ClusterOverview).
OverviewConverges == part = "overview" => Overview!Converges
=============================================================================
