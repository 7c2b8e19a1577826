----------------------------- MODULE MCBackend -----------------------------
(***************************************************************************)
(* Backend components and the pages on top of them, for TLC: node drains   *)
(* under scheduler ownership (NodeDrain), the audit trail (AuditLog) and   *)
(* scheduled exceptions (ScheduledExceptions).                             *)
(*                                                                         *)
(* The components do not share state; `part' chooses the instance that     *)
(* runs, so that the state space is the union of theirs, not the product.  *)
(* NodeDrain and AuditLog are extended, with the constants of backend.cfg. *)
(* Drains: two processes, a drain of one of two nodes (the other has a     *)
(* critical pod), one lost session, failing request, intervention and      *)
(* returning node each; a process crashes in MCLive.  Audit: typing and    *)
(* paging over the entries of two users; the other instances of AuditLog   *)
(* have the same variables.                                                *)
(***************************************************************************)
EXTENDS NodeDrain, AuditLog

VARIABLES
  part,
  exc, now, calls, todo, claimed, started, skipped, reverts, seen, page, ops, refused

exceptions == <<exc, now, calls, todo, claimed, started, skipped, reverts, seen, page, ops, refused>>
suite      == <<part, vars, auditVars, exceptions>>

\* The pod "b", which is critical, runs on the second node.
Placement == [x \in Pods |-> IF x = "b" THEN "n2" ELSE "n1"]

----------------------------------------------------------------------------
(* The audit trail. *)

NoImages == {<<>>}

\* Handlers, a small channel, database failures and a shutdown.
Writer == INSTANCE AuditLog WITH
  Users <- {"ann"}, PageOpen <- FALSE,
  MaxEntries <- 5, MaxHandlers <- 3, MaxFailures <- 2, MaxCleans <- 0

\* Entries written and removed between the pages of an export with a cap.
Export == INSTANCE AuditLog WITH
  Users <- {"ann"}, Filters <- {""}, TablePage <- 5,
  MaxEntries <- 3, MaxHandlers <- 1, MaxFailures <- 1, MaxCleans <- 1

\* All pairs of images over two fields.
Images == UNION {[S -> {"x", "y"}] : S \in SUBSET {"name", "tz"}}
Differences == INSTANCE AuditLog WITH
  Users <- {"ann"}, Filters <- {""}, Fields <- {"name", "tz"}, Snapshots <- Images,
  MaxEntries <- 1, MaxHandlers <- 1, MaxFailures <- 0, MaxCleans <- 0

----------------------------------------------------------------------------
(* Scheduled exceptions. *)

\* Overlapping calls, ticks, refused and passed over executions on one exception.
Calls == INSTANCE ScheduledExceptions WITH
  Ids <- {1}, Hours <- 2, DayLength <- 2, MaxCalls <- 2, MaxOps <- 3, MaxRefused <- 1

\* Two exceptions, one call at a time, and a list of any age.
Apart == INSTANCE ScheduledExceptions WITH
  Ids <- {1, 2}, Hours <- 2, DayLength <- 2, MaxCalls <- 1, MaxOps <- 2, MaxRefused <- 0

\* One exception and the page: history, details, cancellation.
Calendar == INSTANCE ScheduledExceptions WITH
  Ids <- {1}, Hours <- 2, DayLength <- 2, MaxCalls <- 1, MaxOps <- 2, MaxRefused <- 0

----------------------------------------------------------------------------
ASSUME DrainAssumption
ASSUME AuditAssumption /\ Writer!AuditAssumption /\ Export!AuditAssumption
ASSUME Differences!AuditAssumption
ASSUME Calls!ScheduledExceptionsAssumption /\ Apart!ScheduledExceptionsAssumption
ASSUME Calendar!ScheduledExceptionsAssumption

SuiteInit ==
  /\ part \in {"drain", "table", "writer", "export", "differences", "calls", "apart", "calendar"}
  /\ Init /\ (part # "drain" => kept = {})
  /\ AuditInit
  /\ IF part = "apart" THEN Apart!Init ELSE Calls!Init

SuiteNext ==
  \/ part = "drain" /\ Next /\ UNCHANGED <<part, auditVars, exceptions>>
  \/ /\ \/ part = "table" /\ AuditNext
        \/ part = "writer" /\ Writer!AuditNext
        \/ part = "export" /\ Export!AuditNext
        \/ part = "differences" /\ Differences!AuditNext
     /\ UNCHANGED <<part, vars, exceptions>>
  \/ part = "calls" /\ Calls!Next /\ UNCHANGED <<part, vars, auditVars>>
  \/ part = "apart" /\ (Apart!Next \/ Apart!Poll) /\ UNCHANGED <<part, vars, auditVars>>
  \/ part = "calendar" /\ Calendar!PageNext /\ UNCHANGED <<part, vars, auditVars>>

SuiteSpec == SuiteInit /\ [][SuiteNext]_suite

----------------------------------------------------------------------------
(* Properties. *)

\* The calendar shows every exception once, opposite exceptions stay apart and none completes
\* without having run or been passed over (ScheduledExceptions).
ExceptionsSound ==
  /\ part = "calls" => Calls!ExceptionsSound
  /\ part = "apart" => Apart!ExceptionsSound
  /\ part = "calendar" => Calendar!ExceptionsSound
=============================================================================
