------------------------------ MODULE MockServer ------------------------------
(***************************************************************************)
(* The mock API the frontend is developed against: an in-memory database,  *)
(* the route handlers that change it, the timers that finish an execution, *)
(* the log socket that plays an execution and finishes it too, and the two *)
(* administrative streams that reset or rewrite the database step by step. *)
(*                                                                         *)
(* Handlers run to completion; timers and sockets keep REFERENCES to the   *)
(* policy and execution objects they were started with, so every object    *)
(* has an identity `oid' next to the `id' the API shows.  Updating an      *)
(* object that left the database changes nothing anybody reads.            *)
(***************************************************************************)
EXTENDS Integers, Sequences, FiniteSets, SequencesExt, FiniteSetsExt

CONSTANTS
  Names,         \* policy names
  NewNames,      \* names offered as newName of an import
  Resolutions,   \* values of conflictResolution
  StreamLines,   \* lines a log socket plays
  Cancels, Emergencies, Resets,   \* whether these routes are called
  MaxPolicies, MaxExecs, MaxExceptions, MaxStreams, MaxEdits   \* bounds

\* What the bounds and switches must satisfy.
MockAssumption ==
  /\ {StreamLines, MaxPolicies, MaxExecs, MaxExceptions, MaxStreams, MaxEdits} \subseteq Nat
  /\ {Cancels, Emergencies, Resets} \subseteq BOOLEAN
  /\ Cardinality(Names) >= 2

VARIABLES
  policies,    \* db.policies
  execs,       \* db.executions
  exceptions,  \* db.exceptions
  lines,       \* db.logLines: [exec, seq, oid], oid the execution it was written for
  seq,         \* db._seq
  born,        \* identities given out: [policy, exec]
  timers,      \* pending finishExecution calls
  sockets,     \* open log sockets of running executions
  reset,       \* interval of reset-db: lines written, or Idle
  emergency,   \* interval of emergency-scale: lines written, or Idle
  edits        \* requests that edit policies and exceptions, up to MaxEdits

vars == <<policies, execs, exceptions, lines, seq, born, timers, sockets, reset, emergency, edits>>

Idle == -1
ResetSteps == 4
EmergencySteps == 2   \* twelve in the code; the effects come with the last

----------------------------------------------------------------------------
(* The database. *)

Name1 == CHOOSE n \in Names : TRUE
Name2 == CHOOSE n \in Names : n # Name1

\* createSeedData, two of its policies: one in transition with a running execution, one asleep.
SeedPolicies(o) ==
  <<[oid |-> o + 1, id |-> 1, name |-> Name1, mode |-> "apply", enabled |-> TRUE, state |-> "transitioning"],
    [oid |-> o + 2, id |-> 2, name |-> Name2, mode |-> "apply", enabled |-> TRUE, state |-> "sleeping"]>>

SeedExecs(o) == <<[oid |-> o + 1, id |-> 1, policy |-> 1, dir |-> "sleep", status |-> "running"]>>

SeedExceptions == <<[id |-> 1, policy |-> 1, future |-> TRUE]>>

SeedSeq == [policy |-> 3, exec |-> 2, exception |-> 2]

Init ==
  /\ policies = SeedPolicies(0) /\ execs = SeedExecs(0) /\ exceptions = SeedExceptions
  /\ lines = {} /\ seq = SeedSeq /\ born = [policy |-> 2, exec |-> 1]
  /\ timers = {} /\ sockets = {} /\ reset = Idle /\ emergency = Idle /\ edits = 0

\* Array.find by id: the first match.
Find(list, id) ==
  LET hits == {i \in DOMAIN list : list[i].id = id} IN IF hits = {} THEN 0 ELSE Min(hits)

FindName(name) ==
  LET hits == {i \in DOMAIN policies : policies[i].name = name} IN IF hits = {} THEN 0 ELSE Min(hits)

Found(list, id) == Find(list, id) # 0

\* An assignment through a reference to an object that may have left the list.
Update(list, oid, F(_)) == [i \in DOMAIN list |-> IF list[i].oid = oid THEN F(list[i]) ELSE list[i]]

----------------------------------------------------------------------------
(* Routes of policies. *)

NewPolicy(name, mode, enabled, state) ==
  [oid |-> born.policy + 1, id |-> seq.policy, name |-> name, mode |-> mode, enabled |-> enabled, state |-> state]

\* nextId and push.
AddPolicy(p) ==
  /\ Len(policies) < MaxPolicies /\ born.policy < MaxPolicies + 1
  /\ policies' = Append(policies, p)
  /\ seq' = [seq EXCEPT !.policy = @ + 1]
  /\ born' = [born EXCEPT !.policy = @ + 1]

\* POST /api/policies
CreatePolicy(name, mode, enabled) ==
  /\ AddPolicy(NewPolicy(name, mode, enabled, "awake"))
  /\ UNCHANGED <<execs, exceptions, lines, timers, sockets, reset, emergency>>

\* PUT /api/policies/:id
UpdatePolicy(id, mode, enabled) ==
  /\ Found(policies, id)
  /\ policies' = [policies EXCEPT ![Find(policies, id)].mode = mode, ![Find(policies, id)].enabled = enabled]
  /\ UNCHANGED <<execs, exceptions, lines, seq, born, timers, sockets, reset, emergency>>

\* Mutant of DeletePolicy: ids are given by position.
DeletePolicyReuses(id) ==
  /\ Found(policies, id)
  /\ policies' = RemoveAt(policies, Find(policies, id))
  /\ seq' = [seq EXCEPT !.policy = Len(policies)]
  /\ UNCHANGED <<execs, exceptions, lines, born, timers, sockets, reset, emergency>>

\* DELETE /api/policies/:id: executions and exceptions of the policy stay.
DeletePolicy(id) ==
  /\ Found(policies, id)
  /\ policies' = RemoveAt(policies, Find(policies, id))
  /\ UNCHANGED <<execs, exceptions, lines, seq, born, timers, sockets, reset, emergency>>

\* createExecution
Started(p, dir) ==
  [oid |-> born.exec + 1, id |-> seq.exec, policy |-> p.id, dir |-> dir, status |-> "running"]

FirstLines(e) == {[exec |-> e.id, seq |-> k, oid |-> e.oid] : k \in {1, 2}}

\* POST /api/policies/:id/sleep and /wake
Trigger(id, dir) ==
  /\ Found(policies, id) /\ born.exec < MaxExecs
  /\ LET p == policies[Find(policies, id)]
         e == Started(p, dir)
     IN /\ execs' = Append(execs, e)
        /\ lines' = lines \cup FirstLines(e)
        /\ policies' = Update(policies, p.oid, LAMBDA q : [q EXCEPT !.state = "transitioning"])
        /\ timers' = timers \cup {[exec |-> e.oid, id |-> e.id, policy |-> p.oid, dir |-> dir]}
  /\ seq' = [seq EXCEPT !.exec = @ + 1] /\ born' = [born EXCEPT !.exec = @ + 1]
  /\ UNCHANGED <<exceptions, sockets, reset, emergency>>

StateAfter(dir) == IF dir = "sleep" THEN "sleeping" ELSE "awake"

\* finishExecution, when the timer of a trigger fires: whatever happened meanwhile.
Finish(t) ==
  /\ t \in timers /\ timers' = timers \ {t}
  /\ execs' = Update(execs, t.exec, LAMBDA e : [e EXCEPT !.status = "success"])
  /\ policies' = Update(policies, t.policy, LAMBDA p : [p EXCEPT !.state = StateAfter(t.dir)])
  /\ lines' = lines \cup {[exec |-> t.id, seq |-> k, oid |-> t.exec] : k \in {3, 4}}
  /\ UNCHANGED <<exceptions, seq, born, sockets, reset, emergency>>

\* POST /api/policies/:id/cancel: the first running execution of the policy.
Cancel(id) ==
  LET hits == {i \in DOMAIN execs : execs[i].policy = id /\ execs[i].status = "running"} IN
  /\ Cancels /\ hits # {}
  /\ execs' = [execs EXCEPT ![Min(hits)].status = "interrupted"]
  /\ UNCHANGED <<policies, exceptions, lines, seq, born, timers, sockets, reset, emergency>>

----------------------------------------------------------------------------
(* Import of a policy. *)

\* policyImportFields on an existing or a new policy.
Imported(p, incoming) == [p EXCEPT !.mode = "plan", !.enabled = FALSE]

\* conflictResolution 'rename': refused (409) when the new name is taken too.
ImportRename(incoming, newName) ==
  /\ FindName(incoming.name) # 0 /\ FindName(newName) = 0
  /\ AddPolicy(Imported(NewPolicy(newName, "plan", FALSE, "unknown"), incoming))

\* conflictResolution 'overwrite': the policy of that name.
ImportOverwrite(incoming) ==
  /\ FindName(incoming.name) # 0
  /\ policies' = [policies EXCEPT ![FindName(incoming.name)] = Imported(@, incoming)]
  /\ UNCHANGED <<seq, born>>

\* No conflict, or a resolution that is neither: a new policy.
ImportCreate(incoming) ==
  AddPolicy(Imported(NewPolicy(incoming.name, "plan", FALSE, "unknown"), incoming))

\* POST /api/policies/import/apply
ImportPolicy(incoming, resolution, newName) ==
  /\ IF FindName(incoming.name) # 0 /\ resolution = "overwrite" THEN ImportOverwrite(incoming)
     ELSE IF FindName(incoming.name) # 0 /\ resolution = "rename" THEN ImportRename(incoming, newName)
     ELSE ImportCreate(incoming)
  /\ UNCHANGED <<execs, exceptions, lines, timers, sockets, reset, emergency>>

\* The policy part of an export, in either mode and state.
Envelopes == [name : Names, mode : {"plan", "apply"}, enabled : BOOLEAN]

----------------------------------------------------------------------------
(* Routes of exceptions. *)

AddException(pid) ==
  /\ Len(exceptions) < MaxExceptions /\ seq.exception <= MaxExceptions + 1
  /\ exceptions' = Append(exceptions, [id |-> seq.exception, policy |-> pid, future |-> TRUE])
  /\ seq' = [seq EXCEPT !.exception = @ + 1]
  /\ UNCHANGED <<policies, execs, lines, born, timers, sockets, reset, emergency>>

\* POST /api/exceptions: any policyId is accepted, an existing one or not.
CreateException(pid) == AddException(pid)

\* exceptionExportBody: the parent by name, if it is still there.
ExportException(x) ==
  [policyName |-> IF Found(policies, x.policy) THEN policies[Find(policies, x.policy)].name ELSE "null",
   future |-> x.future]

\* validateExceptionEnvelope and resolveParent: 0 is an accepted envelope.
Refusal(env) ==
  IF env.policyName = "null" THEN 400
  ELSE IF ~env.future THEN 422
  ELSE IF FindName(env.policyName) = 0 THEN 422 ELSE 0

\* POST /api/exceptions/import/apply
ImportException(env) == /\ Refusal(env) = 0 /\ AddException(policies[FindName(env.policyName)].id)

\* DELETE /api/exceptions/:id
DeleteException(id) ==
  /\ Found(exceptions, id)
  /\ exceptions' = RemoveAt(exceptions, Find(exceptions, id))
  /\ UNCHANGED <<policies, execs, lines, seq, born, timers, sockets, reset, emergency>>

\* PUT /api/exceptions/:id: new times; the parent cannot be changed.
UpdateException(id, future) ==
  /\ Found(exceptions, id)
  /\ exceptions' = [exceptions EXCEPT ![Find(exceptions, id)].future = future]
  /\ UNCHANGED <<policies, execs, lines, seq, born, timers, sockets, reset, emergency>>

\* Time passes the start of an exception.
Begin(i) ==
  /\ exceptions[i].future
  /\ exceptions' = [exceptions EXCEPT ![i].future = FALSE]
  /\ UNCHANGED <<policies, execs, lines, seq, born, timers, sockets, reset, emergency>>

----------------------------------------------------------------------------
(* The log socket. *)

\* handleConnection of a running execution whose policy exists; all other cases only send and close.
OpenSocket(id) ==
  /\ Found(execs, id) /\ Cardinality(sockets) < MaxStreams
  /\ LET e == execs[Find(execs, id)] IN
     /\ e.status = "running" /\ Found(policies, e.policy)
     /\ LET s == [exec |-> e.oid, id |-> e.id, dir |-> e.dir,
                  policy |-> policies[Find(policies, e.policy)].oid, sent |-> 0]
        IN s \notin sockets /\ sockets' = sockets \cup {s}
  /\ UNCHANGED <<policies, execs, exceptions, lines, seq, born, timers, reset, emergency>>

Running(oid) == \E i \in DOMAIN execs : execs[i].oid = oid /\ execs[i].status = "running"

\* Mutant of SocketLine: the finished socket overwrites the result.
SocketLineAlways(s) ==
  /\ s \in sockets
  /\ sockets' = IF s.sent < StreamLines THEN (sockets \ {s}) \cup {[s EXCEPT !.sent = @ + 1]} ELSE sockets \ {s}
  /\ lines' = IF s.sent < StreamLines THEN lines \cup {[exec |-> s.id, seq |-> s.sent + 1, oid |-> s.exec]} ELSE lines
  /\ execs' = IF s.sent < StreamLines THEN execs
              ELSE Update(execs, s.exec, LAMBDA e : [e EXCEPT !.status = "failed"])
  /\ UNCHANGED <<policies, exceptions, seq, born, timers, reset, emergency>>

\* sendNext: the next line, or after the last one the end of an execution that still runs.
SocketLine(s) ==
  /\ s \in sockets
  /\ IF s.sent < StreamLines
     THEN /\ sockets' = (sockets \ {s}) \cup {[s EXCEPT !.sent = @ + 1]}
          /\ lines' = lines \cup {[exec |-> s.id, seq |-> s.sent + 1, oid |-> s.exec]}
          /\ UNCHANGED <<execs, policies>>
     ELSE /\ sockets' = sockets \ {s}
          /\ execs' = IF Running(s.exec)
                      THEN Update(execs, s.exec, LAMBDA e : [e EXCEPT !.status = "success"]) ELSE execs
          /\ policies' = IF Running(s.exec)
                         THEN Update(policies, s.policy, LAMBDA p : [p EXCEPT !.state = StateAfter(s.dir)])
                         ELSE policies
          /\ UNCHANGED lines
  /\ UNCHANGED <<exceptions, seq, born, timers, reset, emergency>>

\* The client closes the socket: playback is aborted.
CloseSocket(s) ==
  /\ s \in sockets /\ sockets' = sockets \ {s}
  /\ UNCHANGED <<policies, execs, exceptions, lines, seq, born, timers, reset, emergency>>

----------------------------------------------------------------------------
(* Administrative streams. *)

\* Mutant of ResetDB: the counters start again with the stream, before the data is replaced.
ResetDBEarly ==
  /\ Resets /\ reset = Idle /\ born.policy + 2 <= MaxPolicies /\ born.exec < MaxExecs
  /\ reset' = 0 /\ seq' = SeedSeq
  /\ UNCHANGED <<policies, execs, exceptions, lines, born, timers, sockets, emergency>>

\* POST /api/danger/reset-db opens the interval.
ResetDB ==
  /\ Resets /\ reset = Idle /\ born.policy + 2 <= MaxPolicies /\ born.exec < MaxExecs
  /\ reset' = 0
  /\ UNCHANGED <<policies, execs, exceptions, lines, seq, born, timers, sockets, emergency>>

\* One line of the stream; the third one replaces the database.
ResetTick ==
  /\ reset # Idle
  /\ reset' = IF reset + 1 >= ResetSteps THEN Idle ELSE reset + 1
  /\ IF reset = 2
     THEN /\ policies' = SeedPolicies(born.policy) /\ execs' = SeedExecs(born.exec)
          /\ exceptions' = SeedExceptions /\ lines' = {} /\ seq' = SeedSeq
          /\ born' = [policy |-> born.policy + 2, exec |-> born.exec + 1]
     ELSE UNCHANGED <<policies, execs, exceptions, lines, seq, born>>
  /\ UNCHANGED <<timers, sockets, emergency>>

\* POST /api/danger/emergency-scale opens the interval.
EmergencyScale ==
  /\ Emergencies /\ emergency = Idle /\ born.exec + Len(policies) < MaxExecs
  /\ emergency' = 0
  /\ UNCHANGED <<policies, execs, exceptions, lines, seq, born, timers, sockets, reset>>

\* The record of one policy: its id is ++_seq, while nextId returns _seq++.
EmergencyExec(k) ==
  [oid |-> born.exec + k, id |-> seq.exec + k, policy |-> policies[k].id, dir |-> "wake", status |-> "success"]

\* The last line disables and wakes every policy and records one execution each.
EmergencyTick ==
  /\ emergency # Idle
  /\ emergency + 1 >= EmergencySteps => born.exec + Len(policies) <= MaxExecs
  /\ emergency' = IF emergency + 1 >= EmergencySteps THEN Idle ELSE emergency + 1
  /\ IF emergency + 1 >= EmergencySteps
     THEN /\ policies' = [i \in DOMAIN policies |->
               [policies[i] EXCEPT !.enabled = FALSE, !.state = "awake"]]
          /\ execs' = Reverse([k \in DOMAIN policies |-> EmergencyExec(k)]) \o execs
          /\ seq' = [seq EXCEPT !.exec = @ + Len(policies)]
          /\ born' = [born EXCEPT !.exec = @ + Len(policies)]
     ELSE UNCHANGED <<policies, execs, seq, born>>
  /\ UNCHANGED <<exceptions, lines, timers, sockets, reset>>

\* Requests that edit policies and exceptions.
Edit ==
  \/ \E n \in Names, m \in {"plan", "apply"}, on \in BOOLEAN : CreatePolicy(n, m, on)
  \/ \E i \in DOMAIN policies, m \in {"plan", "apply"}, on \in BOOLEAN : UpdatePolicy(policies[i].id, m, on)
  \/ \E i \in DOMAIN policies : DeletePolicy(policies[i].id)
  \/ \E inc \in Envelopes, r \in Resolutions, n \in NewNames : ImportPolicy(inc, r, n)
  \/ \E i \in DOMAIN policies : CreateException(policies[i].id)
  \/ \E i \in DOMAIN exceptions : ImportException(ExportException(exceptions[i]))
  \/ \E i \in DOMAIN exceptions : DeleteException(exceptions[i].id)
  \/ \E i \in DOMAIN exceptions, f \in BOOLEAN : UpdateException(exceptions[i].id, f)

\* Timers, sockets, triggers and the administrative streams.
Run ==
  \/ \E i \in DOMAIN exceptions : Begin(i)
  \/ \E i \in DOMAIN policies, d \in {"sleep", "wake"} : Trigger(policies[i].id, d)
  \/ \E t \in timers : Finish(t)
  \/ \E i \in DOMAIN policies : Cancel(policies[i].id)
  \/ \E i \in DOMAIN execs : OpenSocket(execs[i].id)
  \/ \E s \in sockets : SocketLine(s) \/ CloseSocket(s)
  \/ ResetDB \/ ResetTick \/ EmergencyScale \/ EmergencyTick

Next ==
  \/ Edit /\ edits < MaxEdits /\ edits' = edits + 1
  \/ Run /\ edits' = edits

\* Timers of Node fire; nobody is obliged to call a route.
Spec == Init /\ [][Next]_vars

----------------------------------------------------------------------------
(* Properties. *)

TypeOK ==
  /\ \A i \in DOMAIN policies :
       policies[i].state \in {"awake", "sleeping", "transitioning", "unknown"} /\ policies[i].id < seq.policy
  /\ \A i \in DOMAIN execs : execs[i].status \in {"running", "success", "interrupted"}
  /\ \A i \in DOMAIN exceptions : exceptions[i].id < seq.exception
  /\ reset \in Idle..ResetSteps - 1 /\ emergency \in Idle..EmergencySteps - 1

Distinct(list) == \A i, j \in DOMAIN list : list[i].id = list[j].id => i = j

\* Every entity has an id of its own, through creations, imports, deletions and resets
\* (data.mjs: "All entities are cross-referenced by ID"). The emergency route takes its ids from
\* the counter in another way and is left out here.
IdsUnique == ~Emergencies => Distinct(policies) /\ Distinct(execs) /\ Distinct(exceptions)

\* The log route lists lines by execution id: every line it lists under an execution of the
\* database was written for that execution. (Not with resets: ids are given out again while timers
\* of the old database still write; nor with the ids of the emergency route.)
LinesOwn == ~Resets /\ ~Emergencies => \A l \in lines : \A i \in DOMAIN execs : execs[i].id = l.exec => execs[i].oid = l.oid

\* A policy is left in transition only by the seeded execution, which no timer finishes, or while
\* a timer that will settle it is pending.
TransitionPending ==
  \A i \in DOMAIN policies :
    policies[i].state = "transitioning" =>
      \/ \E t \in timers : t.policy = policies[i].oid
      \/ policies[i].id = 1 /\ \E j \in DOMAIN execs : execs[j].id = 1

\* The database stays consistent whatever requests, timers, sockets and administrative streams do.
DatabaseSound == TypeOK /\ IdsUnique /\ LinesOwn /\ TransitionPending

\* The status each execution shows, by identity: the refinement mapping to ExecutionLifecycle.
StatusShown ==
  [o \in 1..MaxExecs |->
     IF \E i \in DOMAIN execs : execs[i].oid = o
     THEN execs[CHOOSE i \in DOMAIN execs : execs[i].oid = o].status ELSE "none"]

Lifecycle == INSTANCE ExecutionLifecycle
  WITH Executions <- 1..MaxExecs, Seeded <- {1}, status <- StatusShown

\* The records of the executions keep the promise of ExecutionLifecycle.
KeepsLifecycle == Lifecycle!Spec

----------------------------------------------------------------------------
(* Why the database stays sound and the records of executions keep their promise. *)

Directions == {"sleep", "wake"}
PolicyRecords == [oid : Nat, id : Nat, name : Names \cup NewNames, mode : {"plan", "apply"}, enabled : BOOLEAN,
                  state : {"awake", "sleeping", "transitioning", "unknown"}]
ExecRecords == [oid : Nat, id : Nat, policy : Nat, dir : Directions, status : {"running", "success", "interrupted"}]
ExceptionRecords == [id : Nat, policy : Nat, future : BOOLEAN]
Timers == [exec : Nat, id : Nat, policy : Nat, dir : Directions]
Sockets == [exec : Nat, id : Nat, dir : Directions, policy : Nat, sent : Nat]
Shapes ==
  /\ policies \in Seq(PolicyRecords) /\ execs \in Seq(ExecRecords) /\ exceptions \in Seq(ExceptionRecords)
  /\ lines \subseteq [exec : Nat, seq : Nat, oid : Nat] /\ timers \subseteq Timers /\ sockets \subseteq Sockets
  /\ seq \in [policy : Nat, exec : Nat, exception : Nat] /\ born \in [policy : Nat, exec : Nat]
  /\ reset \in Idle..ResetSteps - 1 /\ emergency \in Idle..EmergencySteps - 1
  /\ (~Resets => reset = Idle) /\ (~Emergencies => emergency = Idle)

\* The counters are ahead of every id of policies and exceptions, whatever a reset sets them to.
IdsGiven ==
  /\ \A i \in DOMAIN policies : policies[i].id < seq.policy
  /\ \A i \in DOMAIN exceptions : exceptions[i].id < seq.exception
  /\ Distinct(policies) /\ Distinct(exceptions)

\* No execution object is twice in the list, none is a future one; but for the emergency route the
\* ids are given out the same way, and without resets an id is the identity.
ExecsGiven ==
  /\ \A i \in DOMAIN execs : execs[i].oid \in 1..born.exec
  /\ \A i, j \in DOMAIN execs : execs[i].oid = execs[j].oid => i = j
  /\ ~Emergencies => Distinct(execs) /\ \A i \in DOMAIN execs : execs[i].id < seq.exec
  /\ ~Emergencies /\ ~Resets => seq.exec = born.exec + 1 /\ \A i \in DOMAIN execs : execs[i].id = execs[i].oid

\* Without resets, what timers and sockets still write goes to an execution of the same id.
WritersOwn ==
  ~Emergencies /\ ~Resets =>
    /\ \A l \in lines : l.exec = l.oid
    /\ \A t \in timers \cup sockets : t.id = t.exec

\* Without cancellations only a running execution gets a result.
NoneInterrupted == ~Cancels => \A i \in DOMAIN execs : execs[i].status # "interrupted"

MockInv == Shapes /\ IdsGiven /\ ExecsGiven /\ WritersOwn /\ TransitionPending /\ NoneInterrupted
===============================================================================
