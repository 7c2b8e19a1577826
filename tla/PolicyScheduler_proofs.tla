------------------------ MODULE PolicyScheduler_proofs ------------------------
(* Machine-checked theorems about PolicyScheduler. *)
EXTENDS PolicyScheduler, TLAPS

PCs == {"free"} \cup Calling \cup Spawned

(* The values a run slot and a tick slot are given have their types.          *)
LEMMA Constructed ==
  /\ Freed \in RunType
  /\ \A p \in Policies, dir \in {"sleep", "wake"}, base \in States, scoped \in BOOLEAN, g \in Nat,
        caller \in Ticks \cup {"api"} : Called("enter", p, dir, base, scoped, g, caller) \in RunType
  /\ Off \in TickType
  /\ \A g \in Nat : NoCopies("idle", g) \in TickType
  /\ \A pc \in {"eval", "recover"}, g \in Nat, snap \in [Policies -> States \cup {"absent"}],
        old \in [Policies -> BOOLEAN], want \in [Policies -> Settled], todo \in SUBSET Policies :
        Loop(pc, g, snap, old, want, todo) \in TickType
<1>1. Freed \in RunType
  BY DEF Freed, Called, RunType, States, Settled
<1>2. \A p \in Policies, dir \in {"sleep", "wake"}, base \in States, scoped \in BOOLEAN, g \in Nat,
        caller \in Ticks \cup {"api"} : Called("enter", p, dir, base, scoped, g, caller) \in RunType
  BY DEF Called, RunType, Calling, States, Settled
<1>3. Off \in TickType
  BY DEF Off, NoCopies, Loop, TickType, Settled
<1>4. \A g \in Nat : NoCopies("idle", g) \in TickType
  BY DEF NoCopies, Loop, TickType, Settled
<1>5. \A pc \in {"eval", "recover"}, g \in Nat, snap \in [Policies -> States \cup {"absent"}],
        old \in [Policies -> BOOLEAN], want \in [Policies -> Settled], todo \in SUBSET Policies :
        Loop(pc, g, snap, old, want, todo) \in TickType
  BY DEF Loop, TickType
<1> QED
  BY <1>1, <1>2, <1>3, <1>4, <1>5

(* What the claim and the end of the runner note in a run keeps its type.     *)
LEMMA Marks ==
  ASSUME NEW x \in RunType
  PROVE  /\ \A s \in States : Claimed(x, s) \in RunType /\ Claimed(x, s).policy = x.policy
                              /\ Claimed(x, s).pc = "claimed"
         /\ \A s \in {"success", "interrupted", "failed", "panic"} :
              Ended(x, s) \in RunType /\ Ended(x, s).policy = x.policy /\ Ended(x, s).pc = "finish"
<1>1. "claimed" \in Calling /\ "finish" \in Spawned /\ "unknown" \in States
  BY DEF Calling, Spawned, States, Settled
<1>2. \A s \in States : Claimed(x, s) \in RunType /\ Claimed(x, s).policy = x.policy
                        /\ Claimed(x, s).pc = "claimed"
  BY <1>1 DEF Claimed, RunType
<1>3. \A s \in {"success", "interrupted", "failed", "panic"} :
        Ended(x, s) \in RunType /\ Ended(x, s).policy = x.policy /\ Ended(x, s).pc = "finish"
  BY <1>1 DEF Ended, RunType
<1> QED
  BY <1>2, <1>3

\* run slots that TypeOK admits
RunsOK == run \in [Runs -> RunType] /\ \A r \in Runs : run[r].pc # "free" => run[r].policy \in Policies

(* Moving a run in use to another place of the code keeps every slot well     *)
(* formed, and so does freeing it.                                            *)
LEMMA Moves ==
  ASSUME TypeOK, NEW r \in Runs
  PROVE  /\ \A pc \in PCs : run[r].pc # "free" /\ Move(r, pc) => RunsOK'
         /\ run' = [run EXCEPT ![r] = Freed] => RunsOK'
         /\ UNCHANGED run => RunsOK'
<1>1. run \in [Runs -> RunType] /\ \A q \in Runs : run[q].pc # "free" => run[q].policy \in Policies
  BY DEF TypeOK
<1>2. ASSUME NEW pc \in PCs, run[r].pc # "free", Move(r, pc)
      PROVE  RunsOK'
  BY <1>1, <1>2 DEF Move, RunsOK, RunType, PCs
<1>3. ASSUME run' = [run EXCEPT ![r] = Freed]
      PROVE  RunsOK'
  <2>1. Freed.pc = "free"
    BY DEF Freed, Called
  <2> QED
    BY <1>1, <1>3, <2>1, Constructed DEF RunsOK
<1> QED
  BY <1>1, <1>2, <1>3 DEF RunsOK

(* Writing a policy's cached and recorded state keeps both well formed.       *)
LEMMA StateWrites ==
  ASSUME TypeOK, NEW p \in Policies, NEW s \in States
  PROVE  /\ \A old \in BOOLEAN : CacheState(p, s, old) =>
              cache' \in [Policies -> [state : States \cup {"absent"}, old : BOOLEAN]]
         /\ UpdatePolicyState(p, s) =>
              /\ db' \in [Policies -> [state : States, enabled : BOOLEAN, old : BOOLEAN]]
              /\ faults' \in Nat
         /\ [db EXCEPT ![p].state = s, ![p].old = FALSE]
              \in [Policies -> [state : States, enabled : BOOLEAN, old : BOOLEAN]]
<1>1. \A old \in BOOLEAN : CacheState(p, s, old) =>
              cache' \in [Policies -> [state : States \cup {"absent"}, old : BOOLEAN]]
  BY DEF CacheState, TypeOK
<1>2. UpdatePolicyState(p, s) => faults' \in Nat
  BY DEF UpdatePolicyState, Fault, TypeOK
<1>3. [db EXCEPT ![p].state = s, ![p].old = FALSE]
        \in [Policies -> [state : States, enabled : BOOLEAN, old : BOOLEAN]]
  BY ZenonT(60) DEF TypeOK
<1> QED
  BY <1>1, <1>2, <1>3 DEF UpdatePolicyState, TypeOK

(* A step of a run keeps the types.                                           *)
LEMMA RunTypes ==
  ASSUME TypeOK, NEW r \in Runs, RunStep(r)
  PROVE  TypeOK'
<1> DEFINE p == run[r].policy
<1>p. run[r].pc # "free" => p \in Policies
  BY DEF TypeOK
<1>q. PCs = {"free", "enter", "claim", "unclaim", "claimed", "create", "rollback", "uncache",
             "spawned", "scaling", "finish", "settle", "sync", "leave"}
  BY DEF PCs, Calling, Spawned
<1>s. {"transitioning", "unknown", "sleeping", "awake"} = States
  BY DEF States, Settled
<1>1. CASE Enter(r)
  <2>1. RunsOK'
    BY <1>1, <1>q, Moves DEF Enter
  <2> QED
    BY <1>1, <1>p, <2>1 DEF Enter, TypeOK, RunsOK
<1>2. CASE SetPolicyTransitioning(r)
  <2>1. RunsOK'
    <3>1. CASE Move(r, "unclaim")
      BY <1>2, <1>q, <3>1, Moves DEF SetPolicyTransitioning
    <3>2. CASE run' = [run EXCEPT ![r] = Claimed(run[r], db[p].state)]
      <4>1. db[p].state \in States /\ run[r].pc # "free"
        BY <1>2, <1>p DEF SetPolicyTransitioning, TypeOK
      <4> DEFINE x == Claimed(run[r], db[p].state)
      <4>2. x \in RunType /\ x.policy = p
        BY <4>1, Marks DEF TypeOK
      <4> HIDE DEF x
      <4> QED
        BY <3>2, <4>1, <4>2, <1>p DEF TypeOK, RunsOK, x
    <3> QED
      BY <1>2, <3>1, <3>2 DEF SetPolicyTransitioning
  <2>2. db' \in [Policies -> [state : States, enabled : BOOLEAN, old : BOOLEAN]]
    <3>1. p \in Policies /\ "transitioning" \in States
      BY <1>2, <1>p, <1>s DEF SetPolicyTransitioning
    <3>2. [db EXCEPT ![p].state = "transitioning", ![p].old = FALSE]
            \in [Policies -> [state : States, enabled : BOOLEAN, old : BOOLEAN]]
      BY <3>1, StateWrites
    <3>3. db' = db \/ db' = [db EXCEPT ![p].state = "transitioning", ![p].old = FALSE]
      BY <1>2 DEF SetPolicyTransitioning
    <3> QED
      BY <3>2, <3>3 DEF TypeOK
  <2>3. faults' \in Nat
    BY <1>2 DEF SetPolicyTransitioning, TypeOK, Fault
  <2> QED
    BY <1>2, <2>1, <2>2, <2>3 DEF SetPolicyTransitioning, TypeOK, RunsOK
<1>3. CASE Unclaim(r) \/ Leave(r)
  <2>1. RunsOK'
    BY <1>3, Moves DEF Unclaim, Leave
  <2> QED
    BY <1>3, <2>1 DEF Unclaim, Leave, TypeOK, RunsOK
<1>4. CASE ClaimCache(r)
  <2>1. RunsOK'
    BY <1>4, <1>q, Moves DEF ClaimCache
  <2>2. cache' \in [Policies -> [state : States \cup {"absent"}, old : BOOLEAN]]
    BY <1>4, <1>p, <1>s, StateWrites DEF ClaimCache
  <2> QED
    BY <1>4, <2>1, <2>2 DEF ClaimCache, TypeOK, RunsOK
<1>5. CASE CreateExecution(r)
  <2>1. RunsOK'
    BY <1>5, <1>q, Moves DEF CreateExecution
  <2> QED
    BY <1>5, <2>1 DEF CreateExecution, TypeOK, RunsOK, Fault
<1>6. CASE Rollback(r)
  <2>1. RunsOK'
    BY <1>6, <1>q, Moves DEF Rollback
  <2>2. /\ db' \in [Policies -> [state : States, enabled : BOOLEAN, old : BOOLEAN]]
        /\ faults' \in Nat
    BY <1>6, <1>p, <1>s, StateWrites DEF Rollback
  <2> QED
    BY <1>6, <2>1, <2>2 DEF Rollback, TypeOK, RunsOK
<1>7. CASE RollbackCache(r)
  <2>1. RunsOK'
    BY <1>7, Moves DEF RollbackCache
  <2>2. cache' \in [Policies -> [state : States \cup {"absent"}, old : BOOLEAN]]
    BY <1>7, <1>p, <1>s, StateWrites DEF RollbackCache
  <2> QED
    BY <1>7, <2>1, <2>2 DEF RollbackCache, TypeOK, RunsOK
<1>8. CASE RegisterCancel(r)
  <2>1. RunsOK'
    BY <1>8, <1>q, Moves DEF RegisterCancel
  <2> QED
    BY <1>8, <2>1 DEF RegisterCancel, TypeOK, RunsOK
<1>9. CASE ScalerEnds(r)
  <2>1. PICK s \in {"success", "interrupted", "failed", "panic"} :
          run' = [run EXCEPT ![r] = Ended(run[r], s)]
    BY <1>9 DEF ScalerEnds
  <2>2. RunsOK'
    <3>1. run[r].pc # "free"
      BY <1>9 DEF ScalerEnds
    <3> QED
      BY <2>1, <3>1, <1>p, Marks DEF TypeOK, RunsOK
  <2>3. faults' \in Nat
    BY <1>9 DEF ScalerEnds, TypeOK, Fault
  <2> QED
    BY <1>9, <2>2, <2>3 DEF ScalerEnds, TypeOK, RunsOK
<1>10. CASE FinishExecution(r)
  <2>1. RunsOK'
    BY <1>10, <1>q, Moves DEF FinishExecution
  <2> QED
    BY <1>10, <1>p, <2>1 DEF FinishExecution, TypeOK, RunsOK, Fault
<1>f. FinalState(run[r]) \in States
  BY <1>s DEF FinalState, TypeOK, RunType
<1>11. CASE Settle(r)
  <2>1. RunsOK'
    BY <1>11, <1>q, Moves DEF Settle
  <2>2. /\ db' \in [Policies -> [state : States, enabled : BOOLEAN, old : BOOLEAN]]
        /\ faults' \in Nat
    BY <1>11, <1>p, <1>f, StateWrites DEF Settle
  <2>3. backoff' \in SUBSET (Policies \X Clocks)
    BY <1>11, <1>p DEF Settle, TypeOK, Clocks
  <2> QED
    BY <1>11, <2>1, <2>2, <2>3 DEF Settle, TypeOK, RunsOK
<1>12. CASE SyncCache(r)
  <2>1. RunsOK'
    BY <1>12, <1>q, Moves DEF SyncCache
  <2>2. cache' \in [Policies -> [state : States \cup {"absent"}, old : BOOLEAN]]
    BY <1>12, <1>p, <1>f, StateWrites DEF SyncCache
  <2> QED
    BY <1>12, <2>1, <2>2 DEF SyncCache, TypeOK, RunsOK
<1> QED
  BY <1>1, <1>2, <1>3, <1>4, <1>5, <1>6, <1>7, <1>8, <1>9, <1>10, <1>11, <1>12 DEF RunStep

\* a tick loop that TypeOK admits
LoopOK(x) == /\ x \in TickType
             /\ x.pc \in {"reset", "resetcache"} => x.cur \in Policies
             /\ \A p \in x.todo : x.snap[p] # "absent"
TicksOK == tick \in [Ticks -> TickType] /\ \A t \in Ticks : LoopOK(tick[t])

(* A slot that is given to a caller is well formed.                           *)
LEMMA CallTypes ==
  ASSUME TypeOK, NEW r \in Runs, NEW p \in Policies, NEW dir \in {"sleep", "wake"},
         NEW base \in States, NEW scoped \in BOOLEAN, NEW g \in Nat,
         NEW caller \in Ticks \cup {"api"}, Call(r, p, dir, base, scoped, g, caller)
  PROVE  RunsOK'
<1>1. run' = [run EXCEPT ![r] = Called("enter", p, dir, base, scoped, g, caller)]
  BY DEF Call
<1>2. /\ Called("enter", p, dir, base, scoped, g, caller) \in RunType
      /\ Called("enter", p, dir, base, scoped, g, caller).policy = p
  BY Constructed DEF Called
<1> QED
  BY <1>1, <1>2 DEF TypeOK, RunsOK

(* Giving a tick loop a well-formed value keeps all of them well formed.      *)
LEMMA LoopTypes ==
  ASSUME TypeOK, NEW t \in Ticks, NEW x, LoopOK(x), tick' = [tick EXCEPT ![t] = x]
  PROVE  TicksOK'
BY DEF TypeOK, TicksOK, LoopOK

(* The tick loops the code starts are well formed.                            *)
LEMMA Loops ==
  /\ LoopOK(Off)
  /\ \A g \in Nat : LoopOK(NoCopies("idle", g))
  /\ \A pc \in {"eval", "recover"}, g \in Nat, snap \in [Policies -> States \cup {"absent"}],
        old \in [Policies -> BOOLEAN], want \in [Policies -> Settled], todo \in SUBSET Policies :
        (\A p \in todo : snap[p] # "absent") => LoopOK(Loop(pc, g, snap, old, want, todo))
<1>1. LoopOK(Off)
  BY Constructed DEF LoopOK, Off, NoCopies, Loop
<1>2. \A g \in Nat : LoopOK(NoCopies("idle", g))
  BY Constructed DEF LoopOK, NoCopies, Loop
<1>3. ASSUME NEW pc \in {"eval", "recover"}, NEW g \in Nat,
             NEW snap \in [Policies -> States \cup {"absent"}], NEW old \in [Policies -> BOOLEAN],
             NEW want \in [Policies -> Settled], NEW todo \in SUBSET Policies,
             \A p \in todo : snap[p] # "absent"
      PROVE  LoopOK(Loop(pc, g, snap, old, want, todo))
  <2>1. Loop(pc, g, snap, old, want, todo) \in TickType
    BY <1>3, Constructed
  <2> QED
    BY <1>3, <2>1 DEF LoopOK, Loop
<1> QED
  BY <1>1, <1>2, <1>3

(* So is a tick loop that is done with one policy.                            *)
LEMMA EvaluatedTypes ==
  ASSUME TypeOK, NEW t \in Ticks, NEW p \in Policies,
         NEW pc \in {"eval", "recover", "reset"}, NEW cur \in Policies \cup {NoPolicy},
         pc = "reset" => cur \in Policies, Evaluated(t, p, pc, cur)
  PROVE  TicksOK'
<1> DEFINE x == [pc |-> pc, gen |-> tick[t].gen, cur |-> cur, todo |-> tick[t].todo \ {p},
                 snap |-> [tick[t].snap EXCEPT ![p] = "absent"],
                 old  |-> [tick[t].old EXCEPT ![p] = FALSE],
                 want |-> [tick[t].want EXCEPT ![p] = "unknown"]]
<1>1. tick[t] \in TickType /\ \A q \in tick[t].todo : tick[t].snap[q] # "absent"
  BY DEF TypeOK
<1>2. x \in TickType
  BY <1>1 DEF TickType, Settled
<1>3. LoopOK(x)
  BY <1>1, <1>2 DEF LoopOK, TickType
<1>4. tick' = [tick EXCEPT ![t] = x]
  BY DEF Evaluated
<1> QED
  BY <1>3, <1>4, LoopTypes

(* A step of a tick loop keeps the types.                                     *)
LEMMA TickTypes ==
  ASSUME TypeOK, NEW t \in Ticks, TickStep(t)
  PROVE  TypeOK'
<1>t. tick[t] \in TickType
  BY DEF TypeOK
<1>1. CASE TickBegins(t)
  <2>1. /\ tick[t].gen \in Nat
        /\ [p \in Policies |-> cache[p].state] \in [Policies -> States \cup {"absent"}]
        /\ [p \in Policies |-> cache[p].old] \in [Policies -> BOOLEAN]
        /\ intended \in [Policies -> Settled]
    BY <1>t DEF TypeOK, TickType
  <2>2. LoopOK(Loop("eval", tick[t].gen, [p \in Policies |-> cache[p].state],
                    [p \in Policies |-> cache[p].old], intended,
                    {p \in Policies : cache[p].state # "absent"}))
    BY <2>1, Loops
  <2>3. TicksOK'
    BY <1>1, <2>2, LoopTypes DEF TickBegins
  <2> QED
    BY <1>1, <2>3 DEF TickBegins, TypeOK, TicksOK, LoopOK
<1>2. ASSUME NEW p \in Policies, Evaluate(t, p)
      PROVE  TypeOK'
  <2>1. TicksOK'
    BY <1>2, EvaluatedTypes DEF Evaluate
  <2>2. tick[t].snap[p] \in States /\ tick[t].want[p] \in Settled /\ gen \in Nat
    <3>1. p \in tick[t].todo
      BY <1>2 DEF Evaluate
    <3> QED
      BY <1>t, <3>1 DEF TypeOK, TickType
  <2>3. \A s \in Settled : Direction(s) \in {"sleep", "wake"}
    BY DEF Direction
  <2>4. RunsOK'
    <3>1. \/ UNCHANGED run
          \/ \E r \in Runs, dir \in {"sleep", "wake"}, scoped \in BOOLEAN, g \in Nat :
               Call(r, p, dir, tick[t].snap[p], scoped, g, t)
      BY <1>2, <2>2, <2>3, SwitchAssumption DEF Evaluate
    <3> QED
      BY <2>2, <3>1, CallTypes DEF TypeOK, RunsOK
  <2>5. backoff' \in SUBSET (Policies \X Clocks)
    <3>1. backoff' = backoff \/ \E c \in Clocks : backoff' = backoff \cup {<<p, c>>}
      BY <1>2 DEF Evaluate, Clocks
    <3> QED
      BY <3>1 DEF TypeOK
  <2> QED
    BY <1>2, <2>1, <2>4, <2>5 DEF Evaluate, TypeOK, TicksOK, LoopOK, RunsOK
<1>3. ASSUME NEW p \in Policies, ResetChecks(t, p)
      PROVE  TypeOK'
  <2>1. Evaluated(t, p, "reset", p)
    BY <1>3 DEF ResetChecks
  <2>2. TicksOK'
    BY <2>1, EvaluatedTypes
  <2> QED
    BY <1>3, <2>2 DEF ResetChecks, TypeOK, TicksOK, LoopOK
<1>4. CASE ResetState(t)
  <2>1. tick[t].cur \in Policies /\ "unknown" \in States
    BY <1>4 DEF ResetState, TypeOK, States, Settled
  <2>2. /\ db' \in [Policies -> [state : States, enabled : BOOLEAN, old : BOOLEAN]]
        /\ faults' \in Nat
    BY <1>4, <2>1, StateWrites DEF ResetState
  <2>3. TicksOK'
    <3>1. LoopOK([tick[t] EXCEPT !.pc = "resetcache"])
      BY <1>t, <2>1 DEF LoopOK, TypeOK, TickType
    <3>2. tick' = [tick EXCEPT ![t] = [tick[t] EXCEPT !.pc = "resetcache"]]
      BY <1>4 DEF ResetState
    <3> QED
      BY <3>1, <3>2, LoopTypes
  <2> QED
    BY <1>4, <2>2, <2>3 DEF ResetState, TypeOK, TicksOK, LoopOK
<1>5. CASE ResetCache(t)
  <2>1. tick[t].cur \in Policies /\ "unknown" \in States /\ cache[tick[t].cur].old \in BOOLEAN
    BY <1>5 DEF ResetCache, TypeOK, States, Settled
  <2>2. cache' \in [Policies -> [state : States \cup {"absent"}, old : BOOLEAN]]
    <3>1. CacheState(tick[t].cur, "unknown", cache[tick[t].cur].old)
      BY <1>5 DEF ResetCache
    <3> QED
      BY <2>1, <3>1 DEF CacheState, TypeOK
  <2>3. TicksOK'
    <3>1. LoopOK([tick[t] EXCEPT !.pc = "eval", !.cur = NoPolicy])
      BY <1>t DEF LoopOK, TypeOK, TickType
    <3>2. tick' = [tick EXCEPT ![t] = [tick[t] EXCEPT !.pc = "eval", !.cur = NoPolicy]]
      BY <1>5 DEF ResetCache
    <3> QED
      BY <3>1, <3>2, LoopTypes
  <2> QED
    BY <1>5, <2>2, <2>3 DEF ResetCache, TypeOK, TicksOK, LoopOK
<1>6. CASE TickEnds(t)
  <2>1. TicksOK'
    BY <1>6, <1>t, Loops, LoopTypes DEF TickEnds, TickType
  <2> QED
    BY <1>6, <2>1 DEF TickEnds, TypeOK, TicksOK, LoopOK
<1>7. CASE TickExits(t)
  <2>1. TicksOK'
    BY <1>7, Loops, LoopTypes DEF TickExits
  <2> QED
    BY <1>7, <2>1 DEF TickExits, TypeOK, TicksOK, LoopOK
<1> QED
  BY <1>1, <1>2, <1>3, <1>4, <1>5, <1>6, <1>7 DEF TickStep

(* A step of an administrative operation keeps the types.                     *)
LEMMA AdminTypes ==
  ASSUME TypeOK, AdminStep
  PROVE  TypeOK'
<1>1. CASE StopReturns
  BY <1>1 DEF StopReturns, TypeOK
<1>2. CASE DisableAllPolicies
  <2>1. db' \in [Policies -> [state : States, enabled : BOOLEAN, old : BOOLEAN]]
    BY <1>2, ZenonT(60) DEF DisableAllPolicies, TypeOK
  <2> QED
    BY <1>2, <2>1 DEF DisableAllPolicies, TypeOK
<1>3. ASSUME NEW t \in Ticks, Boot(t)
      PROVE  TypeOK'
  <2> DEFINE rows == [p \in Policies |-> RecoveredRow(db[p])]
  <2>1. rows \in [Policies -> [state : States, enabled : BOOLEAN, old : BOOLEAN]]
    <3>1. ASSUME NEW x \in [state : States, enabled : BOOLEAN, old : BOOLEAN]
          PROVE  RecoveredRow(x) \in [state : States, enabled : BOOLEAN, old : BOOLEAN]
      BY DEF RecoveredRow, States, Settled
    <3> QED
      BY <3>1 DEF TypeOK
  <2>2. db' = rows /\ cache' = [p \in Policies |-> IF rows[p].enabled
                      THEN [state |-> rows[p].state, old |-> rows[p].old]
                      ELSE [state |-> "absent", old |-> FALSE]]
    BY <1>3 DEF Boot
  <2>3. tick' = [tick EXCEPT ![t] = Loop("recover", 1,
                      [p \in Policies |-> rows[p].state], [p \in Policies |-> FALSE],
                      intended, {p \in Policies : rows[p].enabled})]
    BY <1>3 DEF Boot
  <2> HIDE DEF rows
  <2>4. cache' \in [Policies -> [state : States \cup {"absent"}, old : BOOLEAN]]
    BY <2>1, <2>2
  <2>5. LoopOK(Loop("recover", 1, [p \in Policies |-> rows[p].state], [p \in Policies |-> FALSE],
                    intended, {p \in Policies : rows[p].enabled}))
    <3>1. /\ [p \in Policies |-> rows[p].state] \in [Policies -> States \cup {"absent"}]
          /\ [p \in Policies |-> FALSE] \in [Policies -> BOOLEAN]
          /\ intended \in [Policies -> Settled]
          /\ {p \in Policies : rows[p].enabled} \in SUBSET Policies
      BY <2>1 DEF TypeOK
    <3>2. \A p \in Policies : rows[p].state # "absent"
      BY <2>1 DEF States, Settled
    <3> QED
      BY <3>1, <3>2, Loops
  <2>6. TicksOK'
    BY <2>3, <2>5, LoopTypes
  <2>7. /\ UNCHANGED <<inflight, backoff, run, intended, faults, requests, quieted>>
        /\ orphan' = {} /\ gen' = 1 /\ live' = TRUE /\ admin' = "none"
    BY <1>3 DEF Boot, RecoveredExecutions
  <2> QED
    BY <2>1, <2>2, <2>4, <2>6, <2>7 DEF TypeOK, TicksOK, LoopOK
<1>r. Reloaded \in [Policies -> [state : States \cup {"absent"}, old : BOOLEAN]]
  BY DEF Reloaded, TypeOK
<1>4. ASSUME NEW t \in Ticks, Start(t)
      PROVE  TypeOK'
  <2>1. gen' \in Nat
    BY <1>4 DEF Start, TypeOK
  <2>2. TicksOK'
    BY <1>4, <2>1, Loops, LoopTypes DEF Start
  <2> QED
    BY <1>4, <1>r, <2>1, <2>2 DEF Start, TypeOK, TicksOK, LoopOK
<1>5. CASE EmergencyScale
  <2> DEFINE Row == [state : States, enabled : BOOLEAN, old : BOOLEAN]
  <2>1. PICK W \in SUBSET Policies, s \in [Policies -> {"awake", "unknown"}] :
          db' = [p \in Policies |-> IF p \in W
                   THEN [db[p] EXCEPT !.state = s[p], !.old = FALSE] ELSE db[p]]
    BY <1>5 DEF EmergencyScale
  <2>2. \A x \in Row, u \in {"awake", "unknown"} : [x EXCEPT !.state = u, !.old = FALSE] \in Row
    BY DEF States, Settled
  <2>3. db' \in [Policies -> Row]
    <3>1. db \in [Policies -> Row]
      BY DEF TypeOK
    <3> HIDE DEF Row
    <3> QED
      BY <2>1, <2>2, <3>1
  <2>4. orphan' \in SUBSET Policies /\ faults' \in Nat
    <3>1. CASE UNCHANGED <<orphan, faults>>
      BY <3>1 DEF TypeOK
    <3>2. CASE Fault /\ \E V \in SUBSET Policies : orphan' = orphan \cup V
      <4>1. PICK V \in SUBSET Policies : orphan' = orphan \cup V
        BY <3>2
      <4>2. faults' = faults + 1
        BY <3>2 DEF Fault
      <4> QED
        BY <4>1, <4>2 DEF TypeOK
    <3> QED
      BY <1>5, <3>1, <3>2 DEF EmergencyScale
  <2>5. /\ admin' = "stop2" /\ quieted' = TRUE
        /\ UNCHANGED <<cache, inflight, backoff, run, tick, intended, gen, live, requests>>
    BY <1>5 DEF EmergencyScale
  <2>6. quieted' \in BOOLEAN
    BY <2>5, Zenon
  <2> QED
    BY <2>3, <2>4, <2>5, <2>6 DEF TypeOK
<1> QED
  BY <1>1, <1>2, <1>3, <1>4, <1>5 DEF AdminStep

(* Requests, faults and the passage of time keep the types.                   *)
LEMMA EnvironmentTypes ==
  ASSUME TypeOK, Environment
  PROVE  TypeOK'
<1>1. CASE Reload
  <2>1. Reloaded \in [Policies -> [state : States \cup {"absent"}, old : BOOLEAN]]
    BY DEF Reloaded, TypeOK
  <2> QED
    BY <1>1, <2>1 DEF Reload, Request, TypeOK
<1>2. CASE AdminFails
  <2>1. gen' \in Nat /\ live' \in BOOLEAN /\ faults' \in Nat
    <3>1. /\ (gen' = gen /\ live' = live) \/ (gen' = gen + 1 /\ live' = TRUE)
          /\ faults' = faults + 1
      BY <1>2 DEF AdminFails, Fault
    <3>2. live' \in BOOLEAN
      BY <3>1, Zenon DEF TypeOK
    <3> QED
      BY <3>1, <3>2 DEF TypeOK
  <2> QED
    BY <1>2, <2>1 DEF AdminFails, TypeOK
<1>3. CASE Crash
  <2>1. RunsOK'
    <3>1. Freed.pc = "free"
      BY DEF Freed, Called
    <3> QED
      BY <1>3, <3>1, Constructed DEF Crash, RunsOK
  <2>2. TicksOK'
    BY <1>3, Loops DEF Crash, TicksOK, LoopOK
  <2>3. cache' \in [Policies -> [state : States \cup {"absent"}, old : BOOLEAN]]
    BY <1>3 DEF Crash, Dead
  <2>4. orphan' \in SUBSET Policies
    BY <1>3 DEF Crash, TypeOK
  <2> QED
    <3>1. /\ faults' = faults + 1 /\ admin' = "down" /\ live' = FALSE /\ gen' = 0
          /\ inflight' = {} /\ backoff' = {} /\ quieted' = FALSE
          /\ UNCHANGED <<db, intended, requests>>
      BY <1>3 DEF Crash, Fault
    <3>2. live' \in BOOLEAN /\ quieted' \in BOOLEAN
      BY <3>1, Zenon
    <3> QED
      BY <2>1, <2>2, <2>3, <2>4, <3>1, <3>2 DEF TypeOK, TicksOK, LoopOK, RunsOK
<1>4. ASSUME NEW pc \in {"stop1", "stop2"}, BeginStop(pc)
      PROVE  TypeOK'
  <2>1. /\ requests' = requests + 1 /\ live' = FALSE /\ admin' = pc
        /\ UNCHANGED <<db, cache, inflight, backoff, run, orphan, tick, intended, gen, faults,
                       quieted>>
    BY <1>4 DEF BeginStop, Request
  <2>2. live' \in BOOLEAN
    BY <2>1, Zenon
  <2> QED
    BY <2>1, <2>2 DEF TypeOK
<1>5. ASSUME NEW r \in Runs, CancelExecution(r) \/ Timeout(r)
      PROVE  TypeOK'
  <2>0. ASSUME NEW x \in RunType
        PROVE  /\ [x EXCEPT !.cancelled = TRUE] \in RunType
               /\ [x EXCEPT !.cancelled = TRUE].pc = x.pc
               /\ [x EXCEPT !.cancelled = TRUE].policy = x.policy
               /\ [x EXCEPT !.expired = TRUE] \in RunType
               /\ [x EXCEPT !.expired = TRUE].pc = x.pc
               /\ [x EXCEPT !.expired = TRUE].policy = x.policy
    BY DEF RunType
  <2>1. RunsOK'
    <3>1. CASE CancelExecution(r)
      BY <2>0, <3>1 DEF CancelExecution, TypeOK, RunsOK
    <3>2. CASE Timeout(r)
      BY <2>0, <3>2 DEF Timeout, TypeOK, RunsOK
    <3> QED
      BY <1>5, <3>1, <3>2
  <2> QED
    BY <1>5, <2>1 DEF CancelExecution, Timeout, Fault, TypeOK, RunsOK
<1>6. ASSUME NEW r \in Runs, NEW p \in Policies, NEW dir \in {"sleep", "wake"},
             NEW scoped \in BOOLEAN, RequestRun(r, p, dir, scoped)
      PROVE  TypeOK'
  <2>1. db[p].state \in States /\ gen \in Nat
    BY DEF TypeOK
  <2>2. RunsOK'
    BY <1>6, <2>1, CallTypes DEF RequestRun
  <2> QED
    BY <1>6, <2>2 DEF RequestRun, Request, TypeOK, RunsOK
<1>7. ASSUME NEW p \in Policies, IntentChanges(p)
      PROVE  TypeOK'
  BY <1>7 DEF IntentChanges, Request, TypeOK
<1>8. ASSUME NEW p \in Policies, Ages(p)
      PROVE  TypeOK'
  <2>1. db' \in [Policies -> [state : States, enabled : BOOLEAN, old : BOOLEAN]]
    <3>1. ASSUME NEW x \in [state : States, enabled : BOOLEAN, old : BOOLEAN], NEW b \in BOOLEAN
          PROVE  [x EXCEPT !.old = b] \in [state : States, enabled : BOOLEAN, old : BOOLEAN]
      OBVIOUS
    <3>2. db' = [db EXCEPT ![p].old = (db[p].state = "transitioning")]
      BY <1>8 DEF Ages
    <3>3. (db[p].state = "transitioning") \in BOOLEAN
      BY Zenon
    <3> QED
      BY <3>1, <3>2, <3>3 DEF TypeOK
  <2>2. cache' \in [Policies -> [state : States \cup {"absent"}, old : BOOLEAN]]
    BY <1>8, ZenonT(60) DEF Ages, TypeOK
  <2> QED
    BY <1>8, <2>1, <2>2 DEF Ages, TypeOK
<1>9. ASSUME NEW p \in Policies, NEW b \in BOOLEAN, SetEnabled(p, b)
      PROVE  TypeOK'
  <2>1. db' \in [Policies -> [state : States, enabled : BOOLEAN, old : BOOLEAN]]
    BY <1>9 DEF SetEnabled, TypeOK
  <2> QED
    <3>1. /\ requests' = requests + 1 /\ quieted' = FALSE
          /\ UNCHANGED <<cache, inflight, backoff, run, orphan, tick, intended, gen, live, admin,
                         faults>>
      BY <1>9 DEF SetEnabled, Request
    <3>2. quieted' \in BOOLEAN
      BY <3>1, Zenon
    <3> QED
      BY <2>1, <3>1, <3>2 DEF TypeOK
<1>10. ASSUME NEW b \in Policies \X Clocks, BackoffElapses(b)
       PROVE  TypeOK'
  BY <1>10 DEF BackoffElapses, TypeOK
<1>11. ASSUME NEW t \in Ticks, TickAborts(t)
       PROVE  TypeOK'
  <2>1. tick[t] \in TickType
    BY DEF TypeOK
  <2>2. TicksOK'
    BY <1>11, <2>1, Loops, LoopTypes DEF TickAborts, TickType
  <2> QED
    BY <1>11, <2>2 DEF TickAborts, Fault, TypeOK, TicksOK, LoopOK
<1> QED
  BY <1>1, <1>2, <1>3, <1>4, <1>5, <1>6, <1>7, <1>8, <1>9, <1>10, <1>11 DEF Environment

(* Every step keeps every variable in its type.                               *)
LEMMA TypeStep ==
  TypeOK /\ [Next]_vars => TypeOK'
<1> SUFFICES ASSUME TypeOK, [Next]_vars
             PROVE  TypeOK'
  OBVIOUS
<1>1. CASE UNCHANGED vars
  BY <1>1 DEF vars, TypeOK
<1> QED
  BY <1>1, RunTypes, TickTypes, AdminTypes, EnvironmentTypes DEF Next

-----------------------------------------------------------------------------
(***************************************************************************)
(* Exclusion: the in-flight set is exactly the policies of the runs that   *)
(* hold one, and no two hold the same.  Neither half is inductive alone.   *)
(***************************************************************************)
Exclusion == ExclusiveExecution /\ InflightExact

(* InflightExact without the set of images.                                   *)
LEMMA InflightMembers ==
  InflightExact <=> \A p : p \in inflight <=> \E q \in Runs : run[q].pc \in Holding /\ run[q].policy = p
BY DEF InflightExact

(* The same for the next state.                                               *)
LEMMA InflightMembersNext ==
  InflightExact' <=>
    \A p : p \in inflight' <=> \E q \in Runs : run'[q].pc \in Holding /\ run'[q].policy = p
BY DEF InflightExact

(* A step in which no run starts or stops holding its policy.                 *)
LEMMA HoldFrame ==
  ASSUME Exclusion, UNCHANGED inflight,
         \A q \in Runs : /\ run'[q].pc \in Holding <=> run[q].pc \in Holding
                         /\ run[q].pc \in Holding => run'[q].policy = run[q].policy
  PROVE  Exclusion'
<1>1. ExclusiveExecution'
  BY DEF Exclusion, ExclusiveExecution
<1>2. InflightExact'
  BY InflightMembers, InflightMembersNext DEF Exclusion
<1> QED
  BY <1>1, <1>2 DEF Exclusion

(* A run that gives up its policy takes away its own mark only.               *)
LEMMA Releases ==
  ASSUME TypeOK, Exclusion, NEW r \in Runs, run[r].pc \in Holding,
         run' = [run EXCEPT ![r] = Freed], inflight' = inflight \ {run[r].policy}
  PROVE  Exclusion'
<1>1. Freed.pc \notin Holding
  BY DEF Freed, Called, Holding, Calling, Spawned
<1>2. run'[r].pc \notin Holding /\ \A q \in Runs \ {r} : run'[q] = run[q]
  BY <1>1 DEF TypeOK
<1>3. \A q \in Runs \ {r} : run[q].pc \in Holding => run[q].policy # run[r].policy
  BY DEF Exclusion, ExclusiveExecution
<1>4. ExclusiveExecution'
  BY <1>2 DEF Exclusion, ExclusiveExecution
<1>5. InflightExact'
  BY <1>2, <1>3, InflightMembers, InflightMembersNext DEF Exclusion
<1> QED
  BY <1>4, <1>5 DEF Exclusion

(* A slot that is filled or emptied outside a hold changes nothing.           *)
LEMMA Unheld ==
  ASSUME TypeOK, Exclusion, NEW r \in Runs, NEW x, run[r].pc \notin Holding, x.pc \notin Holding,
         run' = [run EXCEPT ![r] = x], UNCHANGED inflight
  PROVE  Exclusion'
<1>1. run'[r] = x /\ \A q \in Runs \ {r} : run'[q] = run[q]
  BY DEF TypeOK
<1> QED
  BY <1>1, HoldFrame

(* A step of a run keeps the exclusion.                                       *)
LEMMA RunExclusion ==
  ASSUME TypeOK, Exclusion, NEW r \in Runs, RunStep(r)
  PROVE  Exclusion'
<1>h. /\ Holding = {"claim", "unclaim", "claimed", "create", "rollback", "uncache",
                    "spawned", "scaling", "finish", "settle", "sync", "leave"}
      /\ "enter" \notin Holding /\ "free" \notin Holding
  BY DEF Holding, Calling, Spawned
<1>m. ASSUME NEW pc \in Holding, run[r].pc \in Holding, Move(r, pc), UNCHANGED inflight
      PROVE  Exclusion'
  <2>1. \A q \in Runs : /\ run'[q].pc \in Holding <=> run[q].pc \in Holding
                        /\ run'[q].policy = run[q].policy
    BY <1>m DEF Move, TypeOK, RunType
  <2> QED
    BY <1>m, <2>1, HoldFrame
<1>x. ASSUME NEW x, run[r].pc \in Holding, x.pc \in Holding, x.policy = run[r].policy,
             run' = [run EXCEPT ![r] = x], UNCHANGED inflight
      PROVE  Exclusion'
  <2>1. run'[r] = x /\ \A q \in Runs \ {r} : run'[q] = run[q]
    BY <1>x DEF TypeOK
  <2> QED
    BY <1>x, <2>1, HoldFrame
<1>1. CASE Enter(r)
  <2>1. CASE run' = [run EXCEPT ![r] = Freed] /\ UNCHANGED inflight
    <3>1. Freed.pc \notin Holding /\ run[r].pc \notin Holding
      BY <1>1, <1>h DEF Freed, Called, Enter
    <3> QED
      BY <2>1, <3>1, Unheld
  <2>2. CASE /\ run[r].policy \notin inflight /\ Move(r, "claim")
             /\ inflight' = inflight \cup {run[r].policy}
    <3>1. /\ run'[r].pc \in Holding /\ run'[r].policy = run[r].policy
          /\ \A q \in Runs \ {r} : run'[q] = run[q]
      BY <2>2, <1>h DEF Move, TypeOK, RunType
    <3>2. run[r].pc \notin Holding
      BY <1>1, <1>h DEF Enter
    <3>3. \A q \in Runs : run[q].pc \in Holding => run[q].policy # run[r].policy
      BY <2>2, InflightMembers DEF Exclusion
    <3>4. ExclusiveExecution'
      BY <3>1, <3>3 DEF Exclusion, ExclusiveExecution
    <3>5. InflightExact'
      BY <2>2, <3>1, <3>2, InflightMembers, InflightMembersNext DEF Exclusion
    <3> QED
      BY <3>4, <3>5 DEF Exclusion
  <2> QED
    BY <1>1, <2>1, <2>2 DEF Enter
<1>2. CASE SetPolicyTransitioning(r)
  <2>1. CASE Move(r, "unclaim")
    BY <1>2, <2>1, <1>h, <1>m DEF SetPolicyTransitioning
  <2>2. CASE run' = [run EXCEPT ![r] = Claimed(run[r], db[run[r].policy].state)]
    <3>1. run[r].pc \in Holding /\ run[r].policy \in Policies
      BY <1>2, <1>h DEF SetPolicyTransitioning, TypeOK
    <3>2. run[r] \in RunType /\ db[run[r].policy].state \in States
      BY <3>1 DEF TypeOK
    <3> DEFINE x == Claimed(run[r], db[run[r].policy].state)
    <3>3. x.pc \in Holding /\ x.policy = run[r].policy
      BY <3>2, <1>h, Marks
    <3> HIDE DEF x
    <3> QED
      BY <1>2, <2>2, <3>1, <3>3, <1>x DEF SetPolicyTransitioning, x
  <2> QED
    BY <1>2, <2>1, <2>2 DEF SetPolicyTransitioning
<1>3. CASE Unclaim(r) \/ RollbackCache(r) \/ Leave(r)
  BY <1>3, <1>h, Releases DEF Unclaim, RollbackCache, Leave
<1>4. CASE ClaimCache(r)
  BY <1>4, <1>h, <1>m DEF ClaimCache
<1>5. CASE CreateExecution(r)
  BY <1>5, <1>h, <1>m DEF CreateExecution
<1>6. CASE Rollback(r)
  BY <1>6, <1>h, <1>m DEF Rollback
<1>7. CASE RegisterCancel(r)
  BY <1>7, <1>h, <1>m DEF RegisterCancel
<1>8. CASE ScalerEnds(r)
  <2>1. PICK s \in {"success", "interrupted", "failed", "panic"} :
          run' = [run EXCEPT ![r] = Ended(run[r], s)]
    BY <1>8 DEF ScalerEnds
  <2> DEFINE x == Ended(run[r], s)
  <2>2. x.pc \in Holding /\ x.policy = run[r].policy
    BY <1>h, Marks DEF TypeOK
  <2>3. run[r].pc \in Holding /\ UNCHANGED inflight
    BY <1>8, <1>h DEF ScalerEnds
  <2> HIDE DEF x
  <2> QED
    BY <2>1, <2>2, <2>3, <1>x DEF x
<1>9. CASE FinishExecution(r)
  BY <1>9, <1>h, <1>m DEF FinishExecution
<1>10. CASE Settle(r)
  BY <1>10, <1>h, <1>m DEF Settle
<1>11. CASE SyncCache(r)
  BY <1>11, <1>h, <1>m DEF SyncCache
<1> QED
  BY <1>1, <1>2, <1>3, <1>4, <1>5, <1>6, <1>7, <1>8, <1>9, <1>10, <1>11 DEF RunStep

(* So does every call of run by a tick loop or by the API, every restart and  *)
(* every crash.                                                               *)
LEMMA OtherExclusion ==
  ASSUME TypeOK, Exclusion, (\E t \in Ticks : TickStep(t)) \/ AdminStep \/ Environment
  PROVE  Exclusion'
<1>h. "enter" \notin Holding /\ "free" \notin Holding /\ "scaling" \in Holding
  BY DEF Holding, Calling, Spawned
<1>u. ASSUME UNCHANGED <<run, inflight>>
      PROVE  Exclusion'
  BY <1>u, HoldFrame
<1>c. ASSUME NEW r \in Runs, NEW p, NEW dir, NEW base, NEW scoped, NEW g, NEW caller,
             Call(r, p, dir, base, scoped, g, caller), UNCHANGED inflight
      PROVE  Exclusion'
  <2>1. run[r].pc \notin Holding
    BY <1>c, <1>h DEF Call, FreeRuns
  <2>2. Called("enter", p, dir, base, scoped, g, caller).pc \notin Holding
    BY <1>h DEF Called
  <2> QED
    BY <1>c, <2>1, <2>2, Unheld DEF Call
<1>1. ASSUME NEW t \in Ticks, TickStep(t)
      PROVE  Exclusion'
  <2>1. ASSUME NEW p \in Policies, Evaluate(t, p)
        PROVE  Exclusion'
    <3>1. UNCHANGED inflight
      BY <2>1 DEF Evaluate
    <3>2. \/ UNCHANGED run
          \/ \E r \in Runs : \E dir, scoped, g : Call(r, p, dir, tick[t].snap[p], scoped, g, t)
      BY <2>1 DEF Evaluate
    <3> QED
      BY <3>1, <3>2, <1>u, <1>c
  <2>2. ASSUME NEW p \in Policies, ResetChecks(t, p)
        PROVE  Exclusion'
    BY <2>2, <1>u DEF ResetChecks
  <2>3. CASE TickBegins(t) \/ ResetState(t) \/ ResetCache(t) \/ TickEnds(t) \/ TickExits(t)
    BY <2>3, <1>u DEF TickBegins, ResetState, ResetCache, TickEnds, TickExits
  <2> QED
    BY <1>1, <2>1, <2>2, <2>3 DEF TickStep
<1>2. CASE AdminStep
  <2>1. ASSUME NEW t \in Ticks, Boot(t) \/ Start(t)
        PROVE  Exclusion'
    BY <2>1, <1>u DEF Boot, Start
  <2> QED
    BY <1>2, <2>1, <1>u DEF AdminStep, StopReturns, DisableAllPolicies, EmergencyScale
<1>3. CASE Environment
  <2>1. CASE Crash
    <3>1. Freed.pc \notin Holding
      BY <1>h DEF Freed, Called
    <3>2. inflight' = {} /\ \A q \in Runs : run'[q].pc \notin Holding
      BY <2>1, <3>1 DEF Crash
    <3> QED
      BY <3>2, InflightMembersNext DEF Exclusion, ExclusiveExecution
  <2>2. ASSUME NEW r \in Runs, CancelExecution(r) \/ Timeout(r)
        PROVE  Exclusion'
    <3>1. /\ UNCHANGED inflight
          /\ \A q \in Runs : run'[q].pc = run[q].pc /\ run'[q].policy = run[q].policy
      <4>1. CASE CancelExecution(r)
        BY <4>1 DEF CancelExecution, TypeOK, RunType
      <4>2. CASE Timeout(r)
        BY <4>2 DEF Timeout, TypeOK, RunType
      <4> QED
        BY <2>2, <4>1, <4>2
    <3> QED
      BY <3>1, HoldFrame
  <2>3. ASSUME NEW r \in Runs, NEW p \in Policies, NEW dir \in {"sleep", "wake"},
               NEW scoped \in BOOLEAN, RequestRun(r, p, dir, scoped)
        PROVE  Exclusion'
    BY <2>3, <1>c DEF RequestRun
  <2>4. ASSUME NEW p \in Policies, NEW b \in BOOLEAN, IntentChanges(p) \/ Ages(p) \/ SetEnabled(p, b)
        PROVE  Exclusion'
    BY <2>4, <1>u DEF IntentChanges, Ages, SetEnabled
  <2>5. ASSUME NEW b \in Policies \X Clocks, BackoffElapses(b)
        PROVE  Exclusion'
    BY <2>5, <1>u DEF BackoffElapses
  <2>6. ASSUME NEW pc \in {"stop1", "stop2"}, BeginStop(pc)
        PROVE  Exclusion'
    BY <2>6, <1>u DEF BeginStop
  <2>7. CASE Reload \/ AdminFails
    BY <2>7, <1>u DEF Reload, AdminFails
  <2>8. ASSUME NEW t \in Ticks, TickAborts(t)
        PROVE  Exclusion'
    BY <2>8, <1>u DEF TickAborts
  <2> QED
    BY <1>3, <2>1, <2>2, <2>3, <2>4, <2>5, <2>6, <2>7, <2>8 DEF Environment
<1> QED
  BY <1>1, <1>2, <1>3

(* The initial states satisfy the invariant.                                  *)
LEMMA InitOK ==
  Init => TypeOK /\ Exclusion
<1> SUFFICES ASSUME Init
             PROVE  TypeOK /\ Exclusion
  OBVIOUS
<1>1. Freed.pc = "free" /\ "free" \notin Holding
  BY DEF Freed, Called, Holding, Calling, Spawned
<1>2. run \in [Runs -> RunType] /\ \A r \in Runs : run[r].pc = "free"
  BY <1>1, Constructed DEF Init
<1>3. tick \in [Ticks -> TickType] /\ \A t \in Ticks : LoopOK(tick[t])
  BY Constructed, Loops DEF Init
<1>4. /\ db \in [Policies -> [state : States, enabled : BOOLEAN, old : BOOLEAN]]
      /\ cache \in [Policies -> [state : States \cup {"absent"}, old : BOOLEAN]]
      /\ intended \in [Policies -> Settled]
  BY DEF Init, Dead, States, Settled
<1>5. /\ inflight = {} /\ backoff = {} /\ orphan = {} /\ gen = 0 /\ faults = 0 /\ requests = 0
      /\ admin = "down" /\ live \in BOOLEAN /\ quieted \in BOOLEAN
  BY Zenon DEF Init
<1>6. TypeOK
  BY <1>2, <1>3, <1>4, <1>5 DEF TypeOK, LoopOK
<1>7. Exclusion
  BY <1>1, <1>2, <1>5, InflightMembers DEF Exclusion, ExclusiveExecution
<1> QED
  BY <1>6, <1>7

(***************************************************************************)
(* The theorems.                                                           *)
(***************************************************************************)
(* Every variable of the scheduler always holds a value of its type           *)
(* (policy_scheduler.go:91-118), for any number of policies, calls and loops. *)
THEOREM TypeCorrect == Spec => []TypeOK
<1>1. Init => TypeOK
  BY InitOK
<1> QED
  BY <1>1, TypeStep, PTL DEF Spec

(* The in-flight set and the runs agree and no policy is held twice, in every *)
(* reachable state: the check-and-set of run is the only way in, and each of  *)
(* its ways out gives back exactly its own mark (execution.go:36-104).        *)
THEOREM ExclusionSafe == Spec => []Exclusion
<1>1. TypeOK /\ Exclusion /\ [Next]_vars => Exclusion'
  <2> SUFFICES ASSUME TypeOK, Exclusion, [Next]_vars
               PROVE  Exclusion'
    OBVIOUS
  <2>1. CASE UNCHANGED vars
    BY <2>1, HoldFrame DEF vars
  <2> QED
    BY <2>1, RunExclusion, OtherExclusion DEF Next
<1> QED
  BY <1>1, InitOK, TypeStep, PTL DEF Spec

(* Two executions of one policy never overlap, whoever started them and       *)
(* whatever was stopped, restarted, lost or reset (execution.go:37-43).       *)
THEOREM ExclusiveSafe == Spec => []ExclusiveExecution
<1>1. Exclusion => ExclusiveExecution
  BY DEF Exclusion
<1> QED
  BY <1>1, ExclusionSafe, PTL

(* No error path leaks or steals an in-flight mark (execution.go:46-49,       *)
(* 67-75, 84-89).                                                             *)
THEOREM InflightSafe == Spec => []InflightExact
<1>1. Exclusion => InflightExact
  BY DEF Exclusion
<1> QED
  BY <1>1, ExclusionSafe, PTL


-----------------------------------------------------------------------------
(***************************************************************************)
(* Agreement of the cache with the database, while no database write fails *)
(* and no execution outlives its timeout by the grace period.              *)
(***************************************************************************)
(* The places of the code between a claim and its final write.                *)
LEMMA ClaimingPlaces ==
  /\ Claiming \subseteq Holding /\ "sync" \in Holding
  /\ {"free", "enter", "claim", "unclaim", "rollback", "uncache", "sync", "leave"} \cap Claiming = {}
BY DEF Claiming, Holding, Calling, Spawned

(* A run that moves on keeps its policy and what it will record.              *)
LEMMA MovedRun ==
  ASSUME TypeOK, NEW r \in Runs, NEW pc, Move(r, pc)
  PROVE  /\ run'[r].pc = pc /\ run'[r].policy = run[r].policy
         /\ FinalState(run'[r]) = FinalState(run[r])
         /\ \A q \in Runs \ {r} : run'[q] = run[q]
<1>1. /\ run'[r].pc = pc /\ run'[r].policy = run[r].policy /\ run'[r].dir = run[r].dir
      /\ run'[r].base = run[r].base /\ run'[r].scoped = run[r].scoped
      /\ run'[r].status = run[r].status
      /\ \A q \in Runs \ {r} : run'[q] = run[q]
  BY DEF Move, TypeOK, RunType
<1> QED
  BY <1>1 DEF FinalState

(* A run records a settled state.                                             *)
LEMMA FinalSettled ==
  ASSUME NEW x \in RunType
  PROVE  FinalState(x) \in Settled
BY DEF FinalState, RunType, States, Settled

\* tick loops as NothingStuck has them
Unreset == \A t \in Ticks : /\ tick[t].pc \notin {"reset", "resetcache"}
                            /\ \A p \in Policies : ~tick[t].old[p]

(* A step that writes neither the database nor the cache, and in which no     *)
(* claim ends and no final write is made.                                     *)
LEMMA AgreeFrame ==
  ASSUME AgreeInv, UNCHANGED <<db, cache, admin>>, Unreset',
         \A q \in Runs :
           /\ run[q].pc \in Claiming => run'[q].pc \in Claiming /\ run'[q].policy = run[q].policy
           /\ run[q].pc = "sync" => run'[q].pc = "sync" /\ run'[q].policy = run[q].policy
           /\ run'[q].pc = "sync" => /\ run[q].pc = "sync" /\ run'[q].policy = run[q].policy
                                     /\ FinalState(run'[q]) = FinalState(run[q])
           /\ run'[q].pc \notin {"rollback", "uncache"}
  PROVE  AgreeInv'
<1>1. ASSUME NEW p
      PROVE  (ClaimedBy(p) => ClaimedBy(p)') /\ (Underway(p) => Underway(p)')
  BY DEF ClaimedBy, Underway
<1>2. NothingStuck'
  BY <1>1 DEF AgreeInv, NothingStuck, Unreset
<1>3. CacheFollows'
  BY <1>1 DEF AgreeInv, CacheFollows
<1> QED
  BY <1>2, <1>3 DEF AgreeInv

(* The same for a step that changes one run slot only.                        *)
LEMMA AgreeRun ==
  ASSUME TypeOK, AgreeInv, UNCHANGED <<db, cache, admin>>, Unreset', NEW r \in Runs, NEW x,
         run' = [run EXCEPT ![r] = x],
         run[r].pc \in Claiming => x.pc \in Claiming /\ x.policy = run[r].policy,
         run[r].pc # "sync", x.pc \notin {"sync", "rollback", "uncache"}
  PROVE  AgreeInv'
<1>1. run'[r] = x /\ \A q \in Runs \ {r} : run'[q] = run[q]
  BY DEF TypeOK
<1>2. \A q \in Runs : run[q].pc \notin {"rollback", "uncache"}
  BY DEF AgreeInv, NothingStuck
<1> QED
  BY <1>1, <1>2, AgreeFrame

(* A step of a run keeps the cache in agreement.                              *)
LEMMA RunAgrees ==
  ASSUME TypeOK, Exclusion, AgreeInv, ~DBErrors, NEW r \in Runs, RunStep(r)
  PROVE  AgreeInv'
<1> DEFINE p == run[r].policy
<1>p. run[r].pc # "free" => p \in Policies
  BY DEF TypeOK
<1>u. UNCHANGED tick => Unreset'
  BY DEF AgreeInv, NothingStuck, Unreset
<1>m. ASSUME NEW pc \in Claiming \cup {"free", "enter", "claim", "unclaim", "leave"}, Move(r, pc),
             UNCHANGED <<db, cache, admin, tick>>, run[r].pc # "sync",
             run[r].pc \in Claiming => pc \in Claiming
      PROVE  AgreeInv'
  <2>1. \A q \in Runs : run[q].pc \notin {"rollback", "uncache"}
    BY DEF AgreeInv, NothingStuck
  <2> QED
    BY <1>m, <1>u, <2>1, MovedRun, ClaimingPlaces, AgreeFrame
<1>f. ASSUME run' = [run EXCEPT ![r] = Freed], UNCHANGED <<db, cache, admin, tick>>,
             run[r].pc \in {"enter", "unclaim", "leave"}
      PROVE  AgreeInv'
  <2>1. Freed.pc = "free"
    BY DEF Freed, Called
  <2> QED
    BY <1>f, <1>u, <2>1, ClaimingPlaces, AgreeRun
<1>e. \A q \in Runs \ {r} : run[q].pc \in Claiming \cup {"sync"} /\ run[r].pc \in Holding
                              => run[q].policy # p
  BY ClaimingPlaces DEF Exclusion, ExclusiveExecution
\* what another run is doing for another policy goes on
<1>o. ASSUME \A q \in Runs \ {r} : run'[q] = run[q], NEW v, v # p
      PROVE  (ClaimedBy(v) => ClaimedBy(v)') /\ (Underway(v) => Underway(v)')
  BY <1>o DEF ClaimedBy, Underway
<1>1. CASE Enter(r)
  <2>1. CASE run' = [run EXCEPT ![r] = Freed]
    BY <1>1, <2>1, <1>f DEF Enter
  <2>2. CASE Move(r, "claim")
    BY <1>1, <2>2, <1>m, ClaimingPlaces DEF Enter
  <2> QED
    BY <1>1, <2>1, <2>2 DEF Enter
<1>2. CASE SetPolicyTransitioning(r)
  <2>1. CASE Move(r, "unclaim") /\ UNCHANGED db
    BY <1>2, <2>1, <1>m, ClaimingPlaces DEF SetPolicyTransitioning
  <2>2. CASE /\ db' = [db EXCEPT ![p].state = "transitioning", ![p].old = FALSE]
             /\ run' = [run EXCEPT ![r] = Claimed(run[r], db[p].state)]
    <3>1. run[r].pc = "claim" /\ p \in Policies /\ UNCHANGED <<cache, admin, tick>>
      BY <1>2, <1>p DEF SetPolicyTransitioning
    <3>2. run[r] \in RunType /\ db[p].state \in States
      BY <3>1 DEF TypeOK
    <3> DEFINE x == Claimed(run[r], db[p].state)
    <3>3. x.pc = "claimed" /\ x.policy = p
      BY <3>2, Marks
    <3> HIDE DEF x
    <3>4. run'[r].pc = "claimed" /\ run'[r].policy = p /\ \A q \in Runs \ {r} : run'[q] = run[q]
      BY <2>2, <3>3 DEF TypeOK, x
    <3>5. /\ db'[p].state = "transitioning" /\ ~db'[p].old
          /\ \A v \in Policies \ {p} : db'[v] = db[v]
      BY <2>2, <3>1 DEF TypeOK
    <3>6. ClaimedBy(p)' /\ Underway(p)'
      BY <3>4 DEF ClaimedBy, Underway, Claiming
    <3>7. NothingStuck'
      BY <3>1, <3>4, <3>5, <3>6, <1>o, <1>u DEF AgreeInv, NothingStuck, Unreset
    <3>8. ASSUME NEW q \in Runs, run'[q].pc = "sync"
          PROVE  db'[run'[q].policy].state = FinalState(run'[q]) \/ admin' = "stop2"
      <4>1. q # r /\ run'[q] = run[q] /\ run[q].policy \in Policies
        BY <3>4, <3>8 DEF TypeOK
      <4>2. run[q].policy # p
        BY <3>1, <3>8, <4>1, <1>e DEF Holding, Calling
      <4> QED
        BY <3>1, <3>5, <3>8, <4>1, <4>2 DEF AgreeInv, CacheFollows
    <3>9. CacheFollows'
      BY <3>1, <3>4, <3>5, <3>6, <3>8, <1>o DEF AgreeInv, CacheFollows
    <3> QED
      BY <3>7, <3>9 DEF AgreeInv
  <2> QED
    BY <1>2, <2>1, <2>2 DEF SetPolicyTransitioning
<1>3. CASE Unclaim(r) \/ Leave(r)
  BY <1>3, <1>f DEF Unclaim, Leave
<1>4. CASE ClaimCache(r)
  <2>1. run[r].pc = "claimed" /\ p \in Policies /\ UNCHANGED <<db, admin, tick>>
    BY <1>4, <1>p DEF ClaimCache
  <2>2. /\ run'[r].pc = "create" /\ run'[r].policy = p
        /\ \A q \in Runs \ {r} : run'[q] = run[q]
    BY <1>4, MovedRun DEF ClaimCache
  <2>3. ~cache'[p].old /\ \A v \in Policies \ {p} : cache'[v] = cache[v]
    BY <1>4, <2>1 DEF ClaimCache, CacheState, TypeOK, AgreeInv, NothingStuck
  <2>4. ClaimedBy(p)' /\ Underway(p)'
    BY <2>2 DEF ClaimedBy, Underway, Claiming
  <2>5. NothingStuck'
    BY <2>1, <2>2, <2>3, <2>4, <1>o, <1>u DEF AgreeInv, NothingStuck, Unreset
  <2>6. CacheFollows'
    <3>1. \A q \in Runs : run'[q].pc = "sync" => run'[q] = run[q]
      BY <2>2
    <3>2. \A q \in Runs : run'[q].pc = "sync" =>
            db'[run'[q].policy].state = FinalState(run'[q]) \/ admin' = "stop2"
      BY <2>1, <3>1 DEF AgreeInv, CacheFollows
    <3> QED
      BY <2>1, <2>2, <2>3, <2>4, <3>2, <1>o DEF AgreeInv, CacheFollows
  <2> QED
    BY <2>5, <2>6 DEF AgreeInv
<1>5. CASE CreateExecution(r)
  <2>1. Move(r, "spawned")
    BY <1>5 DEF CreateExecution
  <2> QED
    BY <1>5, <2>1, <1>m DEF CreateExecution, Claiming
<1>6. CASE Rollback(r) \/ RollbackCache(r)
  BY <1>6 DEF Rollback, RollbackCache, AgreeInv, NothingStuck
<1>7. CASE RegisterCancel(r)
  BY <1>7, <1>m DEF RegisterCancel, Claiming
<1>8. CASE ScalerEnds(r)
  <2>1. PICK s \in {"success", "interrupted", "failed", "panic"} :
          run' = [run EXCEPT ![r] = Ended(run[r], s)]
    BY <1>8 DEF ScalerEnds
  <2> DEFINE x == Ended(run[r], s)
  <2>2. x.pc = "finish" /\ x.policy = p
    BY Marks DEF TypeOK
  <2> HIDE DEF x
  <2>3. run' = [run EXCEPT ![r] = x]
    BY <2>1 DEF x
  <2>4. run[r].pc = "scaling" /\ UNCHANGED <<db, cache, admin, tick>>
    BY <1>8 DEF ScalerEnds
  <2> QED
    BY <2>2, <2>3, <2>4, <1>u, AgreeRun DEF Claiming
<1>9. CASE FinishExecution(r)
  BY <1>9, <1>m DEF FinishExecution, Claiming
<1>10. CASE Settle(r)
  <2>1. run[r].pc = "settle" /\ p \in Policies /\ UNCHANGED <<cache, admin, tick>>
    BY <1>10, <1>p DEF Settle
  <2>2. /\ run'[r].pc = "sync" /\ run'[r].policy = p /\ FinalState(run'[r]) = FinalState(run[r])
        /\ \A q \in Runs \ {r} : run'[q] = run[q]
    BY <1>10, MovedRun DEF Settle
  <2>3. db' = [db EXCEPT ![p].state = FinalState(run[r]), ![p].old = FALSE]
    BY <1>10 DEF Settle, UpdatePolicyState
  <2>4. /\ db'[p].state = FinalState(run[r]) /\ ~db'[p].old
        /\ \A v \in Policies \ {p} : db'[v] = db[v]
    BY <2>1, <2>3 DEF TypeOK
  <2>5. FinalState(run[r]) # "transitioning"
    BY FinalSettled DEF TypeOK, Settled
  <2>6. Underway(p)'
    BY <2>2 DEF Underway
  <2>7. NothingStuck'
    BY <2>1, <2>2, <2>4, <2>5, <2>6, <1>o, <1>u DEF AgreeInv, NothingStuck, Unreset
  <2>8. ASSUME NEW q \in Runs, run'[q].pc = "sync"
        PROVE  db'[run'[q].policy].state = FinalState(run'[q]) \/ admin' = "stop2"
    <3>1. CASE q = r
      BY <2>2, <2>4, <3>1
    <3>2. CASE q # r
      <4>1. run'[q] = run[q] /\ run[q].policy \in Policies
        BY <2>2, <2>8, <3>2 DEF TypeOK
      <4>2. run[q].policy # p
        BY <2>1, <2>8, <3>2, <4>1, <1>e DEF Holding, Spawned
      <4> QED
        BY <2>1, <2>4, <2>8, <4>1, <4>2 DEF AgreeInv, CacheFollows
    <3> QED
      BY <3>1, <3>2
  <2>9. CacheFollows'
    BY <2>1, <2>2, <2>4, <2>6, <2>8, <1>o DEF AgreeInv, CacheFollows
  <2> QED
    BY <2>7, <2>9 DEF AgreeInv
<1>11. CASE SyncCache(r)
  <2>1. run[r].pc = "sync" /\ p \in Policies /\ UNCHANGED <<db, admin, tick>>
    BY <1>11, <1>p DEF SyncCache
  <2>2. /\ run'[r].pc = "leave" /\ \A q \in Runs \ {r} : run'[q] = run[q]
    BY <1>11, MovedRun DEF SyncCache
  <2>3. /\ cache'[p].state \in {"absent", FinalState(run[r])} /\ ~cache'[p].old
        /\ \A v \in Policies \ {p} : cache'[v] = cache[v]
    BY <1>11, <2>1 DEF SyncCache, CacheState, TypeOK, AgreeInv, NothingStuck
  <2>4. FinalState(run[r]) # "transitioning"
    BY FinalSettled DEF TypeOK, Settled
  <2>5. db[p].state = FinalState(run[r]) \/ admin = "stop2"
    BY <2>1 DEF AgreeInv, CacheFollows
  <2>6. ClaimedBy(p) => FALSE
    BY <2>1, <1>e, ClaimingPlaces DEF ClaimedBy
  <2>7. NothingStuck'
    BY <2>1, <2>2, <2>3, <2>4, <2>6, <1>o, <1>u DEF AgreeInv, NothingStuck, Unreset
  <2>8. \A q \in Runs : run'[q].pc = "sync" => run'[q] = run[q]
    BY <2>2
  <2>9. CacheFollows'
    BY <2>1, <2>2, <2>3, <2>5, <2>8, <1>o DEF AgreeInv, CacheFollows
  <2> QED
    BY <2>7, <2>9 DEF AgreeInv
<1> QED
  BY <1>1, <1>2, <1>3, <1>4, <1>5, <1>6, <1>7, <1>8, <1>9, <1>10, <1>11 DEF RunStep

(* A tick loop starts with what it copies from the cache, and evaluates it.   *)
LEMMA TickAgrees ==
  ASSUME TypeOK, AgreeInv, NEW t \in Ticks, TickStep(t)
  PROVE  AgreeInv'
<1>u. Unreset
  BY DEF AgreeInv, NothingStuck, Unreset
<1>k. ASSUME NEW x, x.pc \notin {"reset", "resetcache"}, \A p \in Policies : ~x.old[p],
             tick' = [tick EXCEPT ![t] = x]
      PROVE  Unreset'
  BY <1>k, <1>u DEF TypeOK, Unreset
<1>f. ASSUME Unreset', UNCHANGED <<db, cache, admin, run>>
      PROVE  AgreeInv'
  BY <1>f, AgreeFrame DEF AgreeInv, NothingStuck
<1>n. /\ Off.pc = "off" /\ \A p \in Policies : ~Off.old[p]
      /\ \A g : NoCopies("idle", g).pc = "idle" /\ \A p \in Policies : ~NoCopies("idle", g).old[p]
  BY DEF Off, NoCopies, Loop
<1>e. ASSUME NEW p \in Policies, NEW pc \in {"eval", "recover"}, Evaluated(t, p, pc, NoPolicy)
      PROVE  Unreset'
  <2> DEFINE x == [pc |-> pc, gen |-> tick[t].gen, cur |-> NoPolicy, todo |-> tick[t].todo \ {p},
                   snap |-> [tick[t].snap EXCEPT ![p] = "absent"],
                   old  |-> [tick[t].old EXCEPT ![p] = FALSE],
                   want |-> [tick[t].want EXCEPT ![p] = "unknown"]]
  <2>1. x.pc = pc /\ \A q \in Policies : ~x.old[q]
    BY <1>u DEF Unreset, TypeOK, TickType
  <2>2. tick' = [tick EXCEPT ![t] = x]
    BY <1>e DEF Evaluated
  <2> HIDE DEF x
  <2> QED
    BY <1>e, <2>1, <2>2, <1>k
<1>1. CASE TickBegins(t)
  <2> DEFINE x == Loop("eval", tick[t].gen, [p \in Policies |-> cache[p].state],
                       [p \in Policies |-> cache[p].old], intended,
                       {p \in Policies : cache[p].state # "absent"})
  <2>1. x.pc = "eval" /\ \A p \in Policies : ~x.old[p]
    BY DEF Loop, AgreeInv, NothingStuck
  <2>2. tick' = [tick EXCEPT ![t] = x] /\ UNCHANGED <<db, cache, admin, run>>
    BY <1>1 DEF TickBegins
  <2> HIDE DEF x
  <2> QED
    BY <2>1, <2>2, <1>k, <1>f
<1>2. ASSUME NEW p \in Policies, Evaluate(t, p)
      PROVE  AgreeInv'
  <2>1. /\ tick[t].pc \in {"eval", "recover"} /\ Evaluated(t, p, tick[t].pc, NoPolicy)
        /\ UNCHANGED <<db, cache, admin>>
    BY <1>2 DEF Evaluate
  <2>2. Unreset'
    BY <2>1, <1>e
  <2>3. CASE UNCHANGED run
    BY <2>1, <2>2, <2>3, <1>f
  <2>4. ASSUME NEW r \in Runs, NEW dir, NEW scoped, NEW g,
               Call(r, p, dir, tick[t].snap[p], scoped, g, t)
        PROVE  AgreeInv'
    <3> DEFINE x == Called("enter", p, dir, tick[t].snap[p], scoped, g, t)
    <3>1. x.pc = "enter"
      BY DEF Called
    <3> HIDE DEF x
    <3>2. run[r].pc = "free" /\ run' = [run EXCEPT ![r] = x]
      BY <2>4 DEF Call, FreeRuns, x
    <3> QED
      BY <2>1, <2>2, <3>1, <3>2, AgreeRun, ClaimingPlaces
  <2>5. \/ UNCHANGED run
        \/ \E r \in Runs : \E dir, scoped, g : Call(r, p, dir, tick[t].snap[p], scoped, g, t)
    BY <1>2 DEF Evaluate
  <2> QED
    BY <2>3, <2>4, <2>5
<1>3. ASSUME NEW p \in Policies, ResetChecks(t, p)
      PROVE  AgreeInv'
  BY <1>3, <1>u DEF ResetChecks, Unreset
<1>4. CASE ResetState(t) \/ ResetCache(t)
  BY <1>4, <1>u DEF ResetState, ResetCache, Unreset
<1>5. CASE TickEnds(t)
  BY <1>5, <1>n, <1>k, <1>f DEF TickEnds
<1>6. CASE TickExits(t)
  BY <1>6, <1>n, <1>k, <1>f DEF TickExits
<1> QED
  BY <1>1, <1>2, <1>3, <1>4, <1>5, <1>6 DEF TickStep

(* A reload brings the cache up to date, disabled policies aside.             *)
LEMMA ReloadAgrees ==
  ASSUME AgreeInv, cache' = Reloaded, UNCHANGED <<db, run>>, Unreset',
         admin # "down", admin' # "down", admin' = admin \/ admin # "stop2"
  PROVE  AgreeInv'
<1>1. \A p \in Policies : /\ cache'[p].state \in {"absent", db[p].state}
                          /\ ~cache'[p].old
  BY DEF Reloaded, AgreeInv, NothingStuck
<1>2. \A p : ClaimedBy(p)' = ClaimedBy(p) /\ Underway(p)' = Underway(p)
  BY DEF ClaimedBy, Underway
<1>3. \A p : ClaimedBy(p) => Underway(p)
  BY DEF ClaimedBy, Underway
<1>4. NothingStuck'
  BY <1>1, <1>2, <1>3 DEF AgreeInv, NothingStuck, Unreset
<1>5. CacheFollows'
  BY <1>1 DEF AgreeInv, CacheFollows
<1> QED
  BY <1>4, <1>5 DEF AgreeInv

(* A step of an administrative operation keeps the cache in agreement.        *)
LEMMA AdminAgrees ==
  ASSUME TypeOK, AgreeInv, AdminStep
  PROVE  AgreeInv'
<1>u. Unreset
  BY DEF AgreeInv, NothingStuck, Unreset
<1>k. ASSUME NEW t \in Ticks, NEW x, x.pc \notin {"reset", "resetcache"},
             \A p \in Policies : ~x.old[p], tick' = [tick EXCEPT ![t] = x]
      PROVE  Unreset'
  BY <1>k, <1>u DEF TypeOK, Unreset
<1>r. UNCHANGED run => \A p : ClaimedBy(p)' = ClaimedBy(p) /\ Underway(p)' = Underway(p)
  BY DEF ClaimedBy, Underway
<1>1. CASE StopReturns
  <2>1. UNCHANGED <<db, cache, run, tick>> /\ admin' # "down" /\ admin # "down"
    BY <1>1 DEF StopReturns
  <2>2. \A r \in Runs : run[r].pc # "sync"
    BY <1>1 DEF StopReturns, Executing, Spawned
  <2>3. admin \in {"stop2", "start"} => admin' \in {"stop2", "start"}
    BY <1>1 DEF StopReturns
  <2>4. NothingStuck'
    BY <2>1, <1>r DEF AgreeInv, NothingStuck
  <2>5. CacheFollows'
    BY <2>1, <2>2, <2>3, <1>r DEF AgreeInv, CacheFollows
  <2> QED
    BY <2>4, <2>5 DEF AgreeInv
<1>2. CASE DisableAllPolicies
  <2>1. /\ UNCHANGED <<cache, run, tick>> /\ admin' = "scale" /\ admin = "disable"
        /\ db' = [p \in Policies |-> [db[p] EXCEPT !.enabled = FALSE]]
    BY <1>2 DEF DisableAllPolicies
  <2>2. \A p \in Policies : db'[p].state = db[p].state /\ db'[p].old = db[p].old
    BY <2>1 DEF TypeOK
  <2>3. NothingStuck'
    BY <2>1, <2>2, <1>r DEF AgreeInv, NothingStuck
  <2>4. \A r \in Runs : run[r].pc = "sync" => run[r].policy \in Policies
    BY DEF TypeOK
  <2>5. CacheFollows'
    BY <2>1, <2>2, <2>4, <1>r DEF AgreeInv, CacheFollows
  <2> QED
    BY <2>3, <2>5 DEF AgreeInv
<1>3. CASE EmergencyScale
  <2>1. UNCHANGED <<cache, run, tick>> /\ admin' = "stop2" /\ admin = "scale"
    BY <1>3 DEF EmergencyScale
  <2>2. ASSUME NEW p \in Policies
        PROVE  ~db'[p].old /\ (db'[p].state = "transitioning" => db[p].state = "transitioning")
    <3>1. PICK W \in SUBSET Policies, s \in [Policies -> {"awake", "unknown"}] :
            db' = [q \in Policies |-> IF q \in W
                     THEN [db[q] EXCEPT !.state = s[q], !.old = FALSE] ELSE db[q]]
      BY <1>3 DEF EmergencyScale
    <3>2. \/ db'[p] = db[p]
          \/ \E u \in {"awake", "unknown"} : db'[p] = [db[p] EXCEPT !.state = u, !.old = FALSE]
      BY <3>1
    <3>3. db[p] \in [state : States, enabled : BOOLEAN, old : BOOLEAN] /\ ~db[p].old
      BY DEF TypeOK, AgreeInv, NothingStuck
    <3> QED
      BY <3>2, <3>3
  <2>3. NothingStuck'
    BY <2>1, <2>2, <1>r DEF AgreeInv, NothingStuck
  <2>4. CacheFollows'
    BY <2>1 DEF CacheFollows
  <2> QED
    BY <2>3, <2>4 DEF AgreeInv
<1>4. ASSUME NEW t \in Ticks, Boot(t)
      PROVE  AgreeInv'
  <2> DEFINE rows == [p \in Policies |-> RecoveredRow(db[p])]
  <2>1. /\ db' = rows /\ UNCHANGED run /\ admin' = "none" /\ admin = "down"
        /\ cache' = [p \in Policies |-> IF rows[p].enabled
                       THEN [state |-> rows[p].state, old |-> rows[p].old]
                       ELSE [state |-> "absent", old |-> FALSE]]
        /\ tick' = [tick EXCEPT ![t] = Loop("recover", 1,
                      [p \in Policies |-> rows[p].state], [p \in Policies |-> FALSE],
                      intended, {p \in Policies : rows[p].enabled})]
    BY <1>4 DEF Boot
  <2>2. \A p \in Policies : /\ ~rows[p].old /\ rows[p].state # "transitioning"
                            /\ db[p].state # "transitioning" => rows[p].state = db[p].state
    <3>1. ASSUME NEW x \in [state : States, enabled : BOOLEAN, old : BOOLEAN], ~x.old
          PROVE  /\ ~RecoveredRow(x).old /\ RecoveredRow(x).state # "transitioning"
                 /\ x.state # "transitioning" => RecoveredRow(x).state = x.state
      BY <3>1 DEF RecoveredRow
    <3>2. \A p \in Policies : db[p] \in [state : States, enabled : BOOLEAN, old : BOOLEAN]
                              /\ ~db[p].old
      BY DEF TypeOK, AgreeInv, NothingStuck
    <3> QED
      BY <3>1, <3>2
  <2> HIDE DEF rows
  <2>3. \A p \in Policies : cache'[p].state \in {"absent", rows[p].state} /\ ~cache'[p].old
    BY <2>1, <2>2
  <2>4. Unreset'
    <3> DEFINE x == Loop("recover", 1, [p \in Policies |-> rows[p].state],
                         [p \in Policies |-> FALSE], intended, {p \in Policies : rows[p].enabled})
    <3>1. x.pc = "recover" /\ \A p \in Policies : ~x.old[p]
      BY DEF Loop
    <3>2. tick' = [tick EXCEPT ![t] = x]
      BY <2>1
    <3> HIDE DEF x
    <3> QED
      BY <3>1, <3>2, <1>k
  <2>5. NothingStuck'
    BY <2>1, <2>2, <2>3, <2>4 DEF AgreeInv, NothingStuck, Unreset
  <2>6. ASSUME NEW r \in Runs, run'[r].pc = "sync"
        PROVE  db'[run'[r].policy].state = FinalState(run'[r])
    <3>1. /\ run' = run /\ run[r].policy \in Policies /\ run[r] \in RunType
      BY <2>1, <2>6 DEF TypeOK
    <3>2. db[run[r].policy].state = FinalState(run[r])
      BY <2>1, <2>6, <3>1 DEF AgreeInv, CacheFollows
    <3>3. FinalState(run[r]) # "transitioning"
      BY <3>1, FinalSettled DEF Settled
    <3> QED
      BY <2>1, <2>2, <3>1, <3>2, <3>3
  <2>7. CacheFollows'
    BY <2>1, <2>3, <2>6 DEF CacheFollows
  <2> QED
    BY <2>5, <2>7 DEF AgreeInv
<1>5. ASSUME NEW t \in Ticks, Start(t)
      PROVE  AgreeInv'
  <2>1. /\ cache' = Reloaded /\ UNCHANGED <<db, run>> /\ admin = "start" /\ admin' = "none"
        /\ tick' = [tick EXCEPT ![t] = NoCopies("idle", gen')]
    BY <1>5 DEF Start
  <2>2. \A g : NoCopies("idle", g).pc = "idle" /\ \A p \in Policies : ~NoCopies("idle", g).old[p]
    BY DEF NoCopies, Loop
  <2>3. Unreset'
    BY <2>1, <2>2, <1>k
  <2> QED
    BY <2>1, <2>3, ReloadAgrees
<1> QED
  BY <1>1, <1>2, <1>3, <1>4, <1>5 DEF AdminStep

(* Requests, faults and the passage of time keep the cache in agreement; in   *)
(* particular no clock of a stuck transition runs.                            *)
LEMMA EnvironmentAgrees ==
  ASSUME TypeOK, AgreeInv, ~DBErrors, ~Overrun, Environment
  PROVE  AgreeInv'
<1>u. Unreset /\ (UNCHANGED tick => Unreset')
  BY DEF AgreeInv, NothingStuck, Unreset
<1>n. \A r \in Runs : run[r].pc \notin {"rollback", "uncache"}
  BY DEF AgreeInv, NothingStuck
<1>r. UNCHANGED run => \A p : ClaimedBy(p)' = ClaimedBy(p) /\ Underway(p)' = Underway(p)
  BY DEF ClaimedBy, Underway
<1>f. ASSUME UNCHANGED <<db, cache, admin, run, tick>>
      PROVE  AgreeInv'
  BY <1>f, <1>u, <1>n, AgreeFrame
<1>1. CASE Reload
  BY <1>1, <1>u, ReloadAgrees DEF Reload
<1>2. CASE AdminFails
  BY <1>2 DEF AdminFails
<1>3. CASE Crash
  <2>1. /\ UNCHANGED db /\ admin' = "down" /\ cache' = Dead
        /\ run' = [r \in Runs |-> Freed] /\ tick' = [t \in Ticks |-> Off]
    BY <1>3 DEF Crash
  <2>2. /\ \A p \in Policies : cache'[p].state = "absent" /\ ~cache'[p].old
        /\ \A r \in Runs : run'[r].pc = "free"
        /\ Unreset'
    BY <2>1 DEF Dead, Freed, Called, Off, NoCopies, Loop, Unreset
  <2>3. NothingStuck'
    BY <2>1, <2>2 DEF AgreeInv, NothingStuck, Unreset
  <2>4. CacheFollows'
    BY <2>2 DEF CacheFollows
  <2> QED
    BY <2>3, <2>4 DEF AgreeInv
<1>4. ASSUME NEW pc \in {"stop1", "stop2"}, BeginStop(pc)
      PROVE  AgreeInv'
  <2>1. UNCHANGED <<db, cache, run, tick>> /\ admin = "none" /\ admin' # "down"
    BY <1>4 DEF BeginStop
  <2>2. NothingStuck'
    BY <2>1, <1>r DEF AgreeInv, NothingStuck
  <2>3. CacheFollows'
    BY <2>1, <1>r DEF AgreeInv, CacheFollows
  <2> QED
    BY <2>2, <2>3 DEF AgreeInv
<1>5. ASSUME NEW r \in Runs, CancelExecution(r) \/ Timeout(r)
      PROVE  AgreeInv'
  <2>1. /\ run[r].pc = "scaling" /\ UNCHANGED <<db, cache, admin, tick>>
        /\ \A q \in Runs : run'[q].pc = run[q].pc /\ run'[q].policy = run[q].policy
        /\ \A q \in Runs \ {r} : run'[q] = run[q]
    <3>1. CASE CancelExecution(r)
      BY <3>1 DEF CancelExecution, TypeOK, RunType
    <3>2. CASE Timeout(r)
      BY <3>2 DEF Timeout, TypeOK, RunType
    <3> QED
      BY <1>5, <3>1, <3>2
  <2> QED
    BY <2>1, <1>u, <1>n, AgreeFrame
<1>6. ASSUME NEW r \in Runs, NEW p \in Policies, NEW dir \in {"sleep", "wake"},
             NEW scoped \in BOOLEAN, RequestRun(r, p, dir, scoped)
      PROVE  AgreeInv'
  <2> DEFINE x == Called("enter", p, dir, db[p].state, scoped, gen, "api")
  <2>1. x.pc = "enter"
    BY DEF Called
  <2> HIDE DEF x
  <2>2. run[r].pc = "free" /\ run' = [run EXCEPT ![r] = x] /\ UNCHANGED <<db, cache, admin, tick>>
    BY <1>6 DEF RequestRun, Call, FreeRuns, x
  <2> QED
    BY <2>1, <2>2, <1>u, AgreeRun, ClaimingPlaces
<1>7. ASSUME NEW p \in Policies, IntentChanges(p)
      PROVE  AgreeInv'
  BY <1>7, <1>f DEF IntentChanges
<1>8. ASSUME NEW p \in Policies, Ages(p)
      PROVE  AgreeInv'
  <2>1. RunsOf(p) = {}
    BY <1>8 DEF Ages
  <2>2. Underway(p)
    BY <1>8, <2>1 DEF Ages, AgreeInv, NothingStuck, ClaimedBy, Underway
  <2> QED
    BY <2>1, <2>2, ClaimingPlaces DEF Underway, RunsOf
<1>9. ASSUME NEW p \in Policies, NEW b \in BOOLEAN, SetEnabled(p, b)
      PROVE  AgreeInv'
  <2>1. UNCHANGED <<cache, run, tick, admin>> /\ db' = [db EXCEPT ![p].enabled = b]
    BY <1>9 DEF SetEnabled
  <2>2. \A q \in Policies : db'[q].state = db[q].state /\ db'[q].old = db[q].old
    BY <2>1 DEF TypeOK
  <2>3. NothingStuck'
    BY <2>1, <2>2, <1>r DEF AgreeInv, NothingStuck
  <2>4. \A r \in Runs : run[r].pc = "sync" => run[r].policy \in Policies
    BY DEF TypeOK
  <2>5. CacheFollows'
    BY <2>1, <2>2, <2>4, <1>r DEF AgreeInv, CacheFollows
  <2> QED
    BY <2>3, <2>5 DEF AgreeInv
<1>10. ASSUME NEW b \in Policies \X Clocks, BackoffElapses(b)
       PROVE  AgreeInv'
  BY <1>10, <1>f DEF BackoffElapses
<1>11. ASSUME NEW t \in Ticks, TickAborts(t)
       PROVE  AgreeInv'
  <2>1. \A g : NoCopies("idle", g).pc = "idle" /\ \A p \in Policies : ~NoCopies("idle", g).old[p]
    BY DEF NoCopies, Loop
  <2>2. Unreset'
    BY <1>11, <2>1, <1>u DEF TickAborts, Unreset, TypeOK
  <2> QED
    BY <1>11, <2>2, <1>n, AgreeFrame DEF TickAborts
<1> QED
  BY <1>1, <1>2, <1>3, <1>4, <1>5, <1>6, <1>7, <1>8, <1>9, <1>10, <1>11 DEF Environment

(* Initially nothing is cached, claimed or stuck.                             *)
LEMMA AgreeInit ==
  Init => AgreeInv
<1> SUFFICES ASSUME Init
             PROVE  AgreeInv
  OBVIOUS
<1>1. /\ \A r \in Runs : run[r].pc = "free"
      /\ \A t \in Ticks : tick[t].pc = "off" /\ \A p \in Policies : ~tick[t].old[p]
      /\ \A p \in Policies : ~db[p].old /\ cache[p].state = "absent" /\ ~cache[p].old
      /\ admin = "down"
  BY DEF Init, Freed, Called, Off, NoCopies, Loop, Dead
<1> QED
  BY <1>1 DEF AgreeInv, NothingStuck, CacheFollows

(* Every step keeps the cache in agreement.                                   *)
LEMMA AgreeStep ==
  ASSUME ~DBErrors, ~Overrun
  PROVE  TypeOK /\ Exclusion /\ AgreeInv /\ [Next]_vars => AgreeInv'
<1> SUFFICES ASSUME TypeOK, Exclusion, AgreeInv, [Next]_vars
             PROVE  AgreeInv'
  OBVIOUS
<1>1. CASE UNCHANGED vars
  BY <1>1, AgreeFrame DEF vars, AgreeInv, NothingStuck, Unreset
<1> QED
  BY <1>1, RunAgrees, TickAgrees, AdminAgrees, EnvironmentAgrees DEF Next

(* As long as database writes succeed and no execution outlives its timeout   *)
(* by the grace period, the cache a tick acts on and the database agree about *)
(* every policy for which nothing is under way, through any number of         *)
(* concurrent calls, restarts, crashes and emergency operations               *)
(* (execution.go:261-290, policy_scheduler.go:702-733).                       *)
THEOREM CacheSafe ==
  ASSUME ~DBErrors, ~Overrun
  PROVE  Spec => []CacheAgrees
<1>1. AgreeInv => CacheAgrees
  <2> SUFFICES ASSUME AgreeInv, NEW p \in Policies, RunsOf(p) = {}, cache[p].state # "absent",
                      admin = "none"
               PROVE  cache[p].state = db[p].state
    BY DEF CacheAgrees
  <2>1. ~Underway(p)
    BY ClaimingPlaces DEF Underway, RunsOf
  <2> QED
    BY <2>1 DEF AgreeInv, CacheFollows
<1>2. TypeOK /\ Exclusion /\ AgreeInv /\ [Next]_vars => AgreeInv'
  BY AgreeStep
<1> QED
  BY <1>1, <1>2, AgreeInit, TypeCorrect, ExclusionSafe, PTL DEF Spec

-----------------------------------------------------------------------------
(***************************************************************************)
(* The claim is held: nobody releases the claim of a live execution, while *)
(* no emergency operation runs and no execution outlives its timeout by    *)
(* the grace period.  Database writes may fail here, so that transitions   *)
(* do get stuck and are reset.                                             *)
(***************************************************************************)
(* The values a stopped, restarted or finished tick loop has.                 *)
LEMMA EmptyLoops ==
  /\ Off.pc = "off" /\ Off.todo = {}
  /\ \A g : NoCopies("idle", g).pc = "idle" /\ NoCopies("idle", g).todo = {}
  /\ Freed.pc = "free"
BY DEF Off, NoCopies, Loop, Freed, Called

(* One tick loop steps at a time.                                             *)
LEMMA LoopSet ==
  ASSUME TypeOK, NEW t \in Ticks, NEW x, tick' = [tick EXCEPT ![t] = x]
  PROVE  tick'[t] = x /\ \A u \in Ticks \ {t} : tick'[u] = tick[u]
BY DEF TypeOK

(* A loop that is done with a policy has it off its list.                     *)
LEMMA LoopEvaluated ==
  ASSUME TypeOK, NEW t \in Ticks, NEW p, NEW pc, NEW cur, Evaluated(t, p, pc, cur)
  PROVE  /\ tick'[t].pc = pc /\ tick'[t].cur = cur /\ tick'[t].todo = tick[t].todo \ {p}
         /\ \A q \in Policies \ {p} : /\ tick'[t].snap[q] = tick[t].snap[q]
                                      /\ tick'[t].old[q] = tick[t].old[q]
         /\ \A u \in Ticks \ {t} : tick'[u] = tick[u]
BY DEF Evaluated, TypeOK, TickType

(* The two writes of a stuck-state reset leave the loop's list alone.         *)
LEMMA LoopReset ==
  ASSUME TypeOK, NEW t \in Ticks
  PROVE  /\ ResetState(t) =>
              /\ tick'[t].pc = "resetcache" /\ tick'[t].cur = tick[t].cur
              /\ tick'[t].todo = tick[t].todo /\ tick'[t].snap = tick[t].snap
              /\ tick'[t].old = tick[t].old
              /\ \A u \in Ticks \ {t} : tick'[u] = tick[u]
         /\ ResetCache(t) =>
              /\ tick'[t].pc = "eval" /\ tick'[t].todo = tick[t].todo
              /\ tick'[t].snap = tick[t].snap /\ tick'[t].old = tick[t].old
              /\ \A u \in Ticks \ {t} : tick'[u] = tick[u]
<1>1. tick \in [Ticks -> TickType]
  BY DEF TypeOK
<1>2. ResetState(t) =>
              /\ tick'[t].pc = "resetcache" /\ tick'[t].cur = tick[t].cur
              /\ tick'[t].todo = tick[t].todo /\ tick'[t].snap = tick[t].snap
              /\ tick'[t].old = tick[t].old
              /\ \A u \in Ticks \ {t} : tick'[u] = tick[u]
  BY <1>1 DEF ResetState, TickType
<1>3. ResetCache(t) =>
              /\ tick'[t].pc = "eval" /\ tick'[t].todo = tick[t].todo
              /\ tick'[t].snap = tick[t].snap /\ tick'[t].old = tick[t].old
              /\ \A u \in Ticks \ {t} : tick'[u] = tick[u]
  BY <1>1 DEF ResetCache, TickType
<1> QED
  BY <1>2, <1>3

(* What a step of a tick loop, its end by a panic included, does to the       *)
(* loops: it concerns one that runs, and an empty list goes with its exit.    *)
LEMMA LoopRuns ==
  ASSUME TypeOK, NEW t \in Ticks, TickStep(t) \/ TickAborts(t)
  PROVE  /\ tick[t].pc # "off" /\ (tick'[t].pc = "off" => tick'[t].todo = {})
         /\ \A u \in Ticks \ {t} : tick'[u] = tick[u]
<1>1. CASE TickBegins(t)
  <2> DEFINE x == Loop("eval", tick[t].gen, [p \in Policies |-> cache[p].state],
                       [p \in Policies |-> cache[p].old], intended,
                       {p \in Policies : cache[p].state # "absent"})
  <2>1. x.pc = "eval"
    BY DEF Loop
  <2>2. tick[t].pc = "idle" /\ tick' = [tick EXCEPT ![t] = x]
    BY <1>1 DEF TickBegins
  <2> HIDE DEF x
  <2> QED
    BY <2>1, <2>2, LoopSet
<1>2. ASSUME NEW p \in Policies, Evaluate(t, p) \/ ResetChecks(t, p)
      PROVE  /\ tick[t].pc # "off" /\ (tick'[t].pc = "off" => tick'[t].todo = {})
             /\ \A u \in Ticks \ {t} : tick'[u] = tick[u]
  <2>1. PICK pc \in {"eval", "recover", "reset"} : \E cur \in {NoPolicy, p} : Evaluated(t, p, pc, cur)
    BY <1>2 DEF Evaluate, ResetChecks
  <2>2. tick[t].pc # "off"
    BY <1>2 DEF Evaluate, ResetChecks
  <2> QED
    BY <2>1, <2>2, LoopEvaluated
<1>3. CASE ResetState(t) \/ ResetCache(t)
  <2>1. tick[t].pc # "off"
    BY <1>3 DEF ResetState, ResetCache
  <2> QED
    BY <1>3, <2>1, LoopReset
<1>4. CASE TickEnds(t) \/ TickExits(t) \/ TickAborts(t)
  <2>1. PICK x \in {Off, NoCopies("idle", tick[t].gen)} : tick' = [tick EXCEPT ![t] = x]
    BY <1>4 DEF TickEnds, TickExits, TickAborts
  <2>2. tick[t].pc # "off"
    BY <1>4 DEF TickEnds, TickExits, TickAborts
  <2> QED
    BY <2>1, <2>2, LoopSet, EmptyLoops
<1> QED
  BY <1>1, <1>2, <1>3, <1>4 DEF TickStep

(* A process that is down stays quiet until it boots.                         *)
LEMMA ShapeStep ==
  ASSUME TypeOK, ProcessShape, ~Emergencies, [Next]_vars
  PROVE  ProcessShape'
<1> USE DEF ProcessShape
<1>1. ASSUME NEW r \in Runs, RunStep(r)
      PROVE  ProcessShape'
  <2>1. run[r].pc # "free" /\ UNCHANGED <<tick, admin, gen>>
    BY <1>1 DEF RunStep, Enter, SetPolicyTransitioning, Unclaim, ClaimCache, CreateExecution,
                Rollback, RollbackCache, RegisterCancel, ScalerEnds, FinishExecution, Settle,
                SyncCache, Leave
  <2> QED
    BY <2>1
<1>2. ASSUME NEW t \in Ticks, TickStep(t) \/ TickAborts(t)
      PROVE  ProcessShape'
  <2>1. UNCHANGED <<admin, gen>>
    BY <1>2 DEF TickStep, TickBegins, Evaluate, ResetChecks, ResetState, ResetCache, TickEnds,
                TickExits, TickAborts
  <2> QED
    BY <1>2, <2>1, LoopRuns
<1>3. CASE AdminStep
  <2>1. CASE StopReturns
    BY <2>1 DEF StopReturns
  <2>2. CASE DisableAllPolicies \/ EmergencyScale
    BY <2>2 DEF DisableAllPolicies, EmergencyScale
  <2>3. ASSUME NEW t \in Ticks, Boot(t)
        PROVE  ProcessShape'
    <3> DEFINE rows == [p \in Policies |-> RecoveredRow(db[p])]
               x == Loop("recover", 1, [p \in Policies |-> rows[p].state],
                         [p \in Policies |-> FALSE], intended, {p \in Policies : rows[p].enabled})
    <3>1. x.pc = "recover"
      BY DEF Loop
    <3>2. tick' = [tick EXCEPT ![t] = x] /\ admin' = "none" /\ gen' = 1
      BY <2>3 DEF Boot
    <3> HIDE DEF x
    <3>3. tick'[t].pc = "recover" /\ \A u \in Ticks \ {t} : tick'[u] = tick[u]
      BY <3>1, <3>2 DEF TypeOK
    <3> QED
      BY <3>2, <3>3
  <2>4. ASSUME NEW t \in Ticks, Start(t)
        PROVE  ProcessShape'
    <3>1. /\ admin' = "none" /\ gen' = gen + 1
          /\ tick' = [tick EXCEPT ![t] = NoCopies("idle", gen')]
      BY <2>4 DEF Start
    <3>2. tick'[t].pc = "idle" /\ \A u \in Ticks \ {t} : tick'[u] = tick[u]
      BY <3>1, EmptyLoops DEF TypeOK
    <3> QED
      BY <3>1, <3>2 DEF TypeOK
  <2> QED
    BY <1>3, <2>1, <2>2, <2>3, <2>4 DEF AdminStep
<1>4. CASE Environment
  <2>1. CASE Reload
    BY <2>1 DEF Reload
  <2>2. CASE AdminFails
    <3>1. admin # "down" /\ admin' = "none" /\ gen' \in {gen, gen + 1} /\ UNCHANGED tick
      BY <2>2 DEF AdminFails
    <3> QED
      BY <3>1 DEF TypeOK
  <2>3. CASE Crash
    BY <2>3, EmptyLoops DEF Crash
  <2>4. ASSUME NEW pc \in {"stop1", "stop2"}, BeginStop(pc)
        PROVE  ProcessShape'
    BY <2>4 DEF BeginStop
  <2>5. ASSUME NEW r \in Runs, CancelExecution(r) \/ Timeout(r)
        PROVE  ProcessShape'
    BY <2>5 DEF CancelExecution, Timeout
  <2>6. ASSUME NEW r \in Runs, NEW p \in Policies, NEW dir \in {"sleep", "wake"},
               NEW scoped \in BOOLEAN, RequestRun(r, p, dir, scoped)
        PROVE  ProcessShape'
    BY <2>6 DEF RequestRun, Serving
  <2>7. ASSUME NEW p \in Policies, NEW b \in BOOLEAN,
               IntentChanges(p) \/ Ages(p) \/ SetEnabled(p, b)
        PROVE  ProcessShape'
    BY <2>7 DEF IntentChanges, Ages, SetEnabled
  <2>8. ASSUME NEW b \in Policies \X Clocks, BackoffElapses(b)
        PROVE  ProcessShape'
    BY <2>8 DEF BackoffElapses
  <2> QED
    BY <1>2, <1>4, <2>1, <2>2, <2>3, <2>4, <2>5, <2>6, <2>7, <2>8 DEF Environment
<1>5. CASE UNCHANGED vars
  BY <1>5 DEF vars
<1> QED
  BY <1>1, <1>2, <1>3, <1>4, <1>5 DEF Next

(* At most one tick loop runs, when the process is not restarted or when      *)
(* there is room for one loop only, so that a restart waits for the old one.  *)
LEMMA OneLoopStep ==
  ASSUME TypeOK, ProcessShape, OneLoop, [Next]_vars,
         MaxGen <= 1 \/ \A t1, t2 \in Ticks : t1 = t2
  PROVE  OneLoop'
<1> USE DEF OneLoop
<1>1. ASSUME NEW t \in Ticks, TickStep(t) \/ TickAborts(t)
      PROVE  OneLoop'
  BY <1>1, LoopRuns
<1>2. ASSUME NEW t \in Ticks, Boot(t)
      PROVE  OneLoop'
  <2>1. \A u \in Ticks \ {t} : tick'[u].pc = "off"
    BY <1>2 DEF Boot, ProcessShape, TypeOK
  <2> QED
    BY <2>1
<1>3. ASSUME NEW t \in Ticks, Start(t)
      PROVE  OneLoop'
  <2>1. CASE MaxGen <= 1
    BY <1>3, <2>1, BoundAssumption DEF Start, ProcessShape, TypeOK
  <2>2. CASE \A t1, t2 \in Ticks : t1 = t2
    BY <2>2
  <2> QED
    BY <2>1, <2>2
<1>4. CASE Crash
  BY <1>4, EmptyLoops DEF Crash
<1>5. CASE UNCHANGED tick
  BY <1>5
<1>6. ASSUME NEW r \in Runs, RunStep(r)
      PROVE  UNCHANGED tick
  BY <1>6 DEF RunStep, Enter, SetPolicyTransitioning, Unclaim, ClaimCache, CreateExecution,
              Rollback, RollbackCache, RegisterCancel, ScalerEnds, FinishExecution, Settle,
              SyncCache, Leave
<1>7. CASE AdminStep
  BY <1>2, <1>3, <1>5, <1>7 DEF AdminStep, StopReturns, DisableAllPolicies, EmergencyScale
<1>8. CASE Environment
  BY <1>1, <1>4, <1>5, <1>8 DEF Environment, Reload, AdminFails, BeginStop, CancelExecution,
       Timeout, RequestRun, IntentChanges, Ages, SetEnabled, BackoffElapses
<1> QED
  BY <1>1, <1>5, <1>6, <1>7, <1>8 DEF Next, vars

-----------------------------------------------------------------------------
\* where a run stands when it still has to write its policy's cached state
Unsynced == {"uncache", "sync"}

\* the five things a step of a run can do to its policy p
Quiet(r, p) ==
  /\ db'[p] = db[p] /\ cache'[p] = cache[p] /\ run[r].pc \notin Unsynced
  /\ run'[r].pc \in Claiming => run[r].pc \in Claiming
  /\ run'[r].pc = "rollback" => run[r].pc \in Claiming
ClaimsRow(r, p) ==
  /\ run[r].pc = "claim" /\ run'[r].pc = "claimed" /\ run'[r].policy = p
  /\ db[p].state # "transitioning" /\ db'[p].state = "transitioning" /\ ~db'[p].old
  /\ cache'[p] = cache[p]
ClaimsCache(r, p) ==
  /\ run[r].pc = "claimed" /\ run'[r].pc = "create" /\ run'[r].policy = p
  /\ db'[p] = db[p] /\ (cache'[p].state = "transitioning" => ~cache'[p].old)
WritesFinal(r, p) ==
  /\ run[r].pc \in {"rollback", "settle"} /\ run'[r].pc \in Unsynced /\ run'[r].policy = p
  /\ cache'[p] = cache[p]
  /\ db'[p] = db[p] \/ ~db'[p].old
WritesCache(r, p) ==
  /\ run[r].pc \in Unsynced /\ run'[r].pc \in {"free", "leave"}
  /\ db'[p] = db[p] /\ cache'[p].state # "transitioning"

(* A step of a run concerns its own slot and its own policy, and does one of  *)
(* five things to them.                                                       *)
LEMMA RunLocal ==
  ASSUME TypeOK, NEW r \in Runs, RunStep(r), NEW p, p = run[r].policy
  PROVE  /\ p \in Policies /\ run[r].pc # "free" /\ UNCHANGED <<tick, admin>>
         /\ \A q \in Runs \ {r} : run'[q] = run[q]
         /\ run'[r].policy = p \/ run'[r].pc = "free"
         /\ \A v \in Policies \ {p} : db'[v] = db[v] /\ cache'[v] = cache[v]
         /\ \/ Quiet(r, p) \/ ClaimsRow(r, p) \/ ClaimsCache(r, p)
            \/ WritesFinal(r, p) \/ WritesCache(r, p)
<1>1. run[r].pc # "free" /\ UNCHANGED <<tick, admin>>
  BY DEF RunStep, Enter, SetPolicyTransitioning, Unclaim, ClaimCache, CreateExecution,
         Rollback, RollbackCache, RegisterCancel, ScalerEnds, FinishExecution, Settle,
         SyncCache, Leave
<1>2. p \in Policies
  BY <1>1 DEF TypeOK
<1> DEFINE Good == /\ \A q \in Runs \ {r} : run'[q] = run[q]
                   /\ run'[r].policy = p \/ run'[r].pc = "free"
                   /\ \A v \in Policies \ {p} : db'[v] = db[v] /\ cache'[v] = cache[v]
                   /\ \/ Quiet(r, p) \/ ClaimsRow(r, p) \/ ClaimsCache(r, p)
                      \/ WritesFinal(r, p) \/ WritesCache(r, p)
<1> SUFFICES Good
  BY <1>1, <1>2
<1>f. ASSUME run' = [run EXCEPT ![r] = Freed]
      PROVE  run'[r].pc = "free" /\ \A q \in Runs \ {r} : run'[q] = run[q]
  BY <1>f, EmptyLoops DEF TypeOK
<1>m. ASSUME NEW pc, Move(r, pc)
      PROVE  run'[r].pc = pc /\ run'[r].policy = p /\ \A q \in Runs \ {r} : run'[q] = run[q]
  BY <1>m, MovedRun
<1>s. \A s \in Settled : s # "transitioning"
  BY DEF Settled
<1>u. ASSUME NEW s \in Settled, UpdatePolicyState(p, s)
      PROVE  /\ \A v \in Policies \ {p} : db'[v] = db[v]
             /\ db'[p] = db[p] \/ ~db'[p].old
  BY <1>u, <1>2 DEF UpdatePolicyState, TypeOK
<1>c. ASSUME NEW s, NEW old, CacheState(p, s, old)
      PROVE  /\ \A v \in Policies \ {p} : cache'[v] = cache[v]
             /\ cache'[p].state = "absent" \/ (cache'[p].state = s /\ cache'[p].old = old)
  BY <1>c, <1>2 DEF CacheState, TypeOK
<1>n. {"free", "claim", "unclaim", "leave", "rollback"} \cap (Claiming \cup Unsynced) = {}
  BY DEF Claiming, Unsynced
<1>q. ASSUME UNCHANGED <<db, cache>>, run[r].pc \notin Unsynced,
             \A q \in Runs \ {r} : run'[q] = run[q], run'[r].policy = p \/ run'[r].pc = "free",
             run'[r].pc \in Claiming => run[r].pc \in Claiming,
             run'[r].pc = "rollback" => run[r].pc \in Claiming
      PROVE  Good
  BY <1>q DEF Quiet
<1>3. CASE Enter(r)
  <2>1. run[r].pc = "enter" /\ UNCHANGED <<db, cache>>
    BY <1>3 DEF Enter
  <2>2. run' = [run EXCEPT ![r] = Freed] \/ Move(r, "claim")
    BY <1>3 DEF Enter
  <2>3. run[r].pc \notin Unsynced
    BY <2>1 DEF Unsynced
  <2> QED
    BY <2>1, <2>2, <2>3, <1>f, <1>m, <1>n, <1>q
<1>4. CASE SetPolicyTransitioning(r)
  <2>1. run[r].pc = "claim" /\ UNCHANGED cache /\ run[r].pc \notin Unsynced
    BY <1>4 DEF SetPolicyTransitioning, Unsynced
  <2>2. CASE Move(r, "unclaim") /\ UNCHANGED db
    BY <2>1, <2>2, <1>m, <1>n, <1>q
  <2>3. CASE /\ db[p].state # "transitioning"
             /\ db' = [db EXCEPT ![p].state = "transitioning", ![p].old = FALSE]
             /\ run' = [run EXCEPT ![r] = Claimed(run[r], db[p].state)]
    <3>1. run[r] \in RunType /\ db[p].state \in States
      BY <1>2 DEF TypeOK
    <3> DEFINE x == Claimed(run[r], db[p].state)
    <3>2. x.pc = "claimed" /\ x.policy = p
      BY <3>1, Marks
    <3> HIDE DEF x
    <3>3. run'[r].pc = "claimed" /\ run'[r].policy = p /\ \A q \in Runs \ {r} : run'[q] = run[q]
      BY <2>3, <3>2 DEF TypeOK, x
    <3>4. /\ db'[p].state = "transitioning" /\ ~db'[p].old
          /\ \A v \in Policies \ {p} : db'[v] = db[v]
      BY <2>3, <1>2 DEF TypeOK
    <3> QED
      BY <2>1, <2>3, <3>3, <3>4 DEF ClaimsRow
  <2> QED
    BY <1>4, <2>2, <2>3 DEF SetPolicyTransitioning
<1>5. CASE Unclaim(r) \/ Leave(r)
  <2>1. /\ run[r].pc \in {"unclaim", "leave"} /\ UNCHANGED <<db, cache>>
        /\ run' = [run EXCEPT ![r] = Freed]
    BY <1>5 DEF Unclaim, Leave
  <2> QED
    BY <2>1, <1>f, <1>n, <1>q
<1>6. CASE ClaimCache(r)
  <2>1. /\ run[r].pc = "claimed" /\ UNCHANGED db
        /\ CacheState(p, "transitioning", FALSE) /\ Move(r, "create")
    BY <1>6 DEF ClaimCache
  <2> QED
    BY <2>1, <1>m, <1>c DEF ClaimsCache
<1>7. CASE CreateExecution(r) \/ RegisterCancel(r) \/ FinishExecution(r)
  <2>1. run[r].pc \in {"create", "spawned", "finish"} /\ UNCHANGED <<db, cache>>
    BY <1>7 DEF CreateExecution, RegisterCancel, FinishExecution
  <2>2. PICK pc : Move(r, pc)
    BY <1>7 DEF CreateExecution, RegisterCancel, FinishExecution
  <2> QED
    BY <2>1, <2>2, <1>m, <1>q DEF Claiming, Unsynced
<1>8. CASE ScalerEnds(r)
  <2>1. PICK s \in {"success", "interrupted", "failed", "panic"} :
          run' = [run EXCEPT ![r] = Ended(run[r], s)]
    BY <1>8 DEF ScalerEnds
  <2> DEFINE x == Ended(run[r], s)
  <2>2. x.pc = "finish" /\ x.policy = p
    BY Marks DEF TypeOK
  <2> HIDE DEF x
  <2>3. run'[r].pc = "finish" /\ run'[r].policy = p /\ \A q \in Runs \ {r} : run'[q] = run[q]
    BY <2>1, <2>2 DEF TypeOK, x
  <2>4. run[r].pc = "scaling" /\ UNCHANGED <<db, cache>>
    BY <1>8 DEF ScalerEnds
  <2> QED
    BY <2>3, <2>4, <1>q DEF Claiming, Unsynced
<1>9. CASE Rollback(r) \/ Settle(r)
  <2>1. PICK s \in Settled : UpdatePolicyState(p, s)
    <3>1. FinalState(run[r]) \in Settled /\ "unknown" \in Settled
      BY FinalSettled DEF TypeOK, Settled
    <3> QED
      BY <1>9, <3>1 DEF Rollback, Settle
  <2>2. /\ run[r].pc \in {"rollback", "settle"} /\ UNCHANGED cache
        /\ Move(r, "uncache") \/ Move(r, "sync")
    BY <1>9 DEF Rollback, Settle
  <2> QED
    BY <2>1, <2>2, <1>m, <1>u DEF WritesFinal, Unsynced
<1>10. CASE RollbackCache(r)
  <2>1. /\ run[r].pc = "uncache" /\ UNCHANGED db
        /\ CacheState(p, "unknown", FALSE) /\ run' = [run EXCEPT ![r] = Freed]
    BY <1>10 DEF RollbackCache
  <2>2. /\ cache'[p].state \in {"absent", "unknown"}
        /\ \A v \in Policies \ {p} : cache'[v] = cache[v]
    BY <2>1, <1>c
  <2>3. WritesCache(r, p)
    BY <2>1, <2>2, <1>f DEF WritesCache, Unsynced
  <2> QED
    BY <2>1, <2>2, <2>3, <1>f
<1>11. CASE SyncCache(r)
  <2>1. /\ run[r].pc = "sync" /\ UNCHANGED db
        /\ CacheState(p, FinalState(run[r]), FALSE) /\ Move(r, "leave")
    BY <1>11 DEF SyncCache
  <2>2. FinalState(run[r]) # "transitioning"
    BY FinalSettled, <1>s DEF TypeOK
  <2> QED
    BY <2>1, <2>2, <1>m, <1>c DEF WritesCache, Unsynced
<1> HIDE DEF Good
<1> QED
  BY <1>3, <1>4, <1>5, <1>6, <1>7, <1>8, <1>9, <1>10, <1>11 DEF RunStep

\* no run takes a policy up, or gives it back, in this step
SameRuns == \A q \in Runs : \/ run'[q] = run[q]
                            \/ run[q].pc = "free" /\ run'[q].pc = "enter"
                            \/ /\ run'[q].pc = run[q].pc /\ run'[q].policy = run[q].policy

(* Steps of the tick loops, the administrator and the environment start no    *)
(* claim: they leave the runs where they are, or end them all.                *)
LEMMA OtherRuns ==
  ASSUME TypeOK, Next, ~(\E r \in Runs : RunStep(r))
  PROVE  SameRuns \/ \A q \in Runs : run'[q].pc = "free"
<1>c. ASSUME NEW r \in Runs, NEW p, NEW dir, NEW base, NEW scoped, NEW g, NEW caller,
             Call(r, p, dir, base, scoped, g, caller)
      PROVE  SameRuns
  <2> DEFINE x == Called("enter", p, dir, base, scoped, g, caller)
  <2>1. x.pc = "enter"
    BY DEF Called
  <2> HIDE DEF x
  <2>2. run[r].pc = "free" /\ run' = [run EXCEPT ![r] = x]
    BY <1>c DEF Call, FreeRuns, x
  <2> QED
    BY <2>1, <2>2 DEF TypeOK, SameRuns
<1>u. UNCHANGED run => SameRuns
  BY DEF SameRuns
<1>1. ASSUME NEW t \in Ticks, TickStep(t)
      PROVE  SameRuns
  <2>1. ASSUME NEW p \in Policies, Evaluate(t, p)
        PROVE  SameRuns
    <3>1. \/ UNCHANGED run
          \/ \E r \in Runs : \E dir, scoped, g : Call(r, p, dir, tick[t].snap[p], scoped, g, t)
      BY <2>1 DEF Evaluate
    <3> QED
      BY <3>1, <1>c, <1>u
  <2>2. (\E p \in Policies : Evaluate(t, p)) \/ UNCHANGED run
    BY <1>1 DEF TickStep, TickBegins, ResetChecks, ResetState, ResetCache, TickEnds, TickExits
  <2> QED
    BY <2>1, <2>2, <1>u
<1>2. CASE AdminStep
  BY <1>2, <1>u DEF AdminStep, StopReturns, DisableAllPolicies, EmergencyScale, Boot, Start
<1>3. ASSUME NEW r \in Runs, CancelExecution(r) \/ Timeout(r)
      PROVE  SameRuns
  <2>1. CASE CancelExecution(r)
    BY <2>1 DEF CancelExecution, TypeOK, RunType, SameRuns
  <2>2. CASE Timeout(r)
    BY <2>2 DEF Timeout, TypeOK, RunType, SameRuns
  <2> QED
    BY <1>3, <2>1, <2>2
<1>4. ASSUME NEW r \in Runs, NEW p \in Policies, NEW dir \in {"sleep", "wake"},
             NEW scoped \in BOOLEAN, RequestRun(r, p, dir, scoped)
      PROVE  SameRuns
  BY <1>4, <1>c DEF RequestRun
<1>5. CASE Crash
  BY <1>5, EmptyLoops DEF Crash
<1>6. CASE Environment
  BY <1>3, <1>4, <1>5, <1>6, <1>u DEF Environment, Reload, AdminFails, TickAborts, BeginStop,
       IntentChanges, Ages, SetEnabled, BackoffElapses
<1> QED
  BY <1>1, <1>2, <1>6 DEF Next

(* Only a stuck-state reset, a boot, the emergency operation and the passage  *)
(* of time write a row besides the runs.                                      *)
LEMMA OtherRows ==
  ASSUME TypeOK, Next, ~(\E r \in Runs : RunStep(r)), NEW p \in Policies
  PROVE  \/ db'[p].state = db[p].state
         \/ \E t \in Ticks : ResetState(t) /\ tick[t].cur = p
         \/ admin = "down" \/ admin = "scale"
<1>1. ASSUME NEW t \in Ticks, ResetState(t), tick[t].cur # p
      PROVE  db'[p].state = db[p].state
  BY <1>1 DEF ResetState, UpdatePolicyState, TypeOK
<1>2. CASE DisableAllPolicies
  BY <1>2 DEF DisableAllPolicies, TypeOK
<1>3. ASSUME NEW v \in Policies, Ages(v) \/ \E b \in BOOLEAN : SetEnabled(v, b)
      PROVE  db'[p].state = db[p].state
  BY <1>3, SMTT(60) DEF Ages, SetEnabled, TypeOK
<1>4. ASSUME NEW t \in Ticks, TickStep(t)
      PROVE  ResetState(t) \/ UNCHANGED db
  BY <1>4 DEF TickStep, TickBegins, Evaluate, ResetChecks, ResetCache, TickEnds, TickExits
<1>5. CASE AdminStep
  BY <1>2, <1>5 DEF AdminStep, StopReturns, EmergencyScale, Boot, Start
<1>6. CASE Environment
  BY <1>3, <1>6 DEF Environment, Reload, AdminFails, Crash, TickAborts, BeginStop,
       CancelExecution, Timeout, RequestRun, IntentChanges, BackoffElapses
<1> QED
  BY <1>1, <1>4, <1>5, <1>6 DEF Next

(* A claim is held through every step, provided that a tick loop resets only  *)
(* transitions that are stuck.                                                *)
LEMMA ClaimStep ==
  ASSUME TypeOK, Exclusion, ProcessShape, ClaimHeld, [Next]_vars,
         \A t \in Ticks : tick[t].pc = "reset" => Stuck(tick[t].cur)
  PROVE  ClaimHeld'
<1>1. CASE UNCHANGED vars
  BY <1>1 DEF vars, ClaimHeld
<1>2. ASSUME NEW r \in Runs, RunStep(r)
      PROVE  ClaimHeld'
  <2> DEFINE p == run[r].policy
  <2>1. /\ p \in Policies
        /\ \A q \in Runs \ {r} : run'[q] = run[q]
        /\ run'[r].policy = p \/ run'[r].pc = "free"
        /\ \A v \in Policies \ {p} : db'[v] = db[v]
        /\ \/ Quiet(r, p) \/ ClaimsRow(r, p) \/ ClaimsCache(r, p)
           \/ WritesFinal(r, p) \/ WritesCache(r, p)
    BY <1>2, RunLocal
  <2> HIDE DEF p
  <2>2. ASSUME NEW q \in Runs, run'[q].pc \in Claiming
        PROVE  db'[run'[q].policy].state = "transitioning"
    <3>1. CASE q = r
      <4>1. run'[r].policy = p
        BY <2>1, <2>2, <3>1 DEF Claiming
      <4>2. CASE Quiet(r, p) \/ ClaimsCache(r, p)
        BY <2>2, <3>1, <4>1, <4>2 DEF Quiet, ClaimsCache, ClaimHeld, Claiming, p
      <4>3. CASE ClaimsRow(r, p)
        BY <3>1, <4>1, <4>3 DEF ClaimsRow
      <4>4. CASE WritesFinal(r, p) \/ WritesCache(r, p)
        BY <2>2, <3>1, <4>4 DEF WritesFinal, WritesCache, Unsynced, Claiming
      <4> QED
        BY <2>1, <4>2, <4>3, <4>4
    <3>2. CASE q # r
      <4>1. /\ run'[q] = run[q] /\ run[q].pc \in Claiming /\ run[q].pc \in Holding
            /\ run[q].policy \in Policies /\ db[run[q].policy].state = "transitioning"
        BY <2>1, <2>2, <3>2, ClaimingPlaces DEF ClaimHeld, TypeOK, Claiming
      <4>2. run[r].pc \in Holding => run[q].policy # p
        BY <3>2, <4>1 DEF Exclusion, ExclusiveExecution, p
      <4>3. run[r].pc \notin Holding => Quiet(r, p)
        BY <2>1 DEF ClaimsRow, ClaimsCache, WritesFinal, WritesCache, Unsynced, Holding, Calling, Spawned
      <4> QED
        BY <2>1, <4>1, <4>2, <4>3 DEF Quiet
    <3> QED
      BY <3>1, <3>2
  <2> QED
    BY <2>2 DEF ClaimHeld
<1>3. CASE Next /\ ~(\E r \in Runs : RunStep(r))
  <2>1. ASSUME NEW q \in Runs, run'[q].pc \in Claiming
        PROVE  db'[run'[q].policy].state = "transitioning"
    <3>1. /\ run[q].pc = run'[q].pc /\ run[q].policy = run'[q].policy
      BY <1>3, <2>1, OtherRuns DEF SameRuns, Claiming
    <3>2. /\ run[q].policy \in Policies /\ db[run[q].policy].state = "transitioning"
          /\ admin # "down" /\ admin # "scale"
      BY <2>1, <3>1 DEF ClaimHeld, TypeOK, Claiming, ProcessShape
    <3>3. ASSUME NEW t \in Ticks, ResetState(t)
          PROVE  tick[t].cur # run[q].policy
      BY <2>1, <3>1, <3>3 DEF ResetState, Stuck
    <3> QED
      BY <1>3, <3>1, <3>2, <3>3, OtherRows
  <2> QED
    BY <2>1 DEF ClaimHeld
<1> QED
  BY <1>1, <1>2, <1>3

-----------------------------------------------------------------------------
(* What SameRuns keeps: a stuck policy stays stuck while its row is not       *)
(* written, and a run that has to write the cache still has to.               *)
LEMMA StuckKept ==
  ASSUME SameRuns, NEW p
  PROVE  /\ Stuck(p) /\ db'[p].state = db[p].state => Stuck(p)'
         /\ \A r \in Runs : run[r].policy = p /\ run[r].pc \in {"uncache", "sync"} =>
                            run'[r].policy = p /\ run'[r].pc \in {"uncache", "sync"}
BY DEF SameRuns, Stuck, Claiming

(* A step of a run keeps StuckExact: a policy is stuck for no run that holds  *)
(* a claim on it.                                                             *)
LEMMA StuckRun ==
  ASSUME TypeOK, Exclusion, ClaimHeld, StuckExact, NEW r \in Runs, RunStep(r)
  PROVE  StuckExact'
<1>1. PICK p \in Policies :
      /\ run[r].policy = p /\ UNCHANGED <<tick, admin>>
      /\ \A q \in Runs \ {r} : run'[q] = run[q]
      /\ run'[r].policy = p \/ run'[r].pc = "free"
      /\ \A v \in Policies \ {p} : db'[v] = db[v] /\ cache'[v] = cache[v]
      /\ \/ Quiet(r, p) \/ ClaimsRow(r, p) \/ ClaimsCache(r, p)
         \/ WritesFinal(r, p) \/ WritesCache(r, p)
  BY RunLocal
<1>2. \A v : Resetting(v)' = Resetting(v)
  BY <1>1 DEF Resetting
\* other policies
<1>3. ASSUME NEW v \in Policies, v # p, Stuck(v)
      PROVE  Stuck(v)'
  BY <1>1, <1>3 DEF Stuck, Claiming
<1>4. ASSUME NEW v \in Policies, v # p
      PROVE  /\ db'[v].old => Stuck(v)'
             /\ cache'[v].state = "transitioning" =>
                  \/ db'[v].state = "transitioning" \/ Resetting(v)'
                  \/ \E q \in Runs : run'[q].policy = v /\ run'[q].pc \in {"uncache", "sync"}
             /\ cache'[v].state = "transitioning" /\ cache'[v].old => Stuck(v)' \/ Resetting(v)'
  <2>1. db'[v] = db[v] /\ cache'[v] = cache[v]
    BY <1>1, <1>4
  <2>2. ASSUME NEW q \in Runs, run[q].policy = v
        PROVE  run'[q] = run[q]
    BY <1>1, <1>4, <2>2
  <2> QED
    BY <1>2, <1>3, <1>4, <2>1, <2>2 DEF StuckExact
\* the policy of the run, and which stuck policies stay so
<1>5. /\ db'[p].old => Stuck(p)'
      /\ cache'[p].state = "transitioning" =>
           \/ db'[p].state = "transitioning" \/ Resetting(p)'
           \/ \E q \in Runs : run'[q].policy = p /\ run'[q].pc \in {"uncache", "sync"}
      /\ cache'[p].state = "transitioning" /\ cache'[p].old => Stuck(p)' \/ Resetting(p)'
      /\ Stuck(p) => Stuck(p)'
  <2>0. /\ db[p].old => Stuck(p)
        /\ cache[p].state = "transitioning" =>
             \/ db[p].state = "transitioning" \/ Resetting(p)
             \/ \E q \in Runs : run[q].policy = p /\ run[q].pc \in {"uncache", "sync"}
        /\ cache[p].state = "transitioning" /\ cache[p].old => Stuck(p) \/ Resetting(p)
    BY <1>1 DEF StuckExact
  <2>1. CASE Quiet(r, p)
    <3>1. Stuck(p) => Stuck(p)'
      BY <1>1, <2>1 DEF Quiet, Stuck, Claiming
    <3>2. ASSUME NEW q \in Runs, run[q].policy = p, run[q].pc \in {"uncache", "sync"}
          PROVE  run'[q] = run[q]
      BY <1>1, <2>1, <3>2 DEF Quiet, Unsynced
    <3> QED
      BY <2>0, <2>1, <3>1, <3>2, <1>2 DEF Quiet
  <2>2. CASE ClaimsRow(r, p)
    BY <2>0, <2>2, <1>2 DEF ClaimsRow, Stuck
  <2>3. CASE ClaimsCache(r, p)
    <3>1. ~Stuck(p) /\ db[p].state = "transitioning"
      BY <1>1, <2>3 DEF ClaimsCache, Stuck, ClaimHeld, Claiming
    <3> QED
      BY <2>0, <2>3, <3>1 DEF ClaimsCache
  <2>4. CASE WritesFinal(r, p)
    <3>1. ~Stuck(p)
      BY <1>1, <2>4 DEF WritesFinal, Stuck, Claiming
    <3>2. run'[r].policy = p /\ run'[r].pc \in {"uncache", "sync"}
      BY <2>4 DEF WritesFinal, Unsynced
    <3> QED
      BY <2>0, <2>4, <3>1, <3>2, <1>2 DEF WritesFinal
  <2>5. CASE WritesCache(r, p)
    <3>1. Stuck(p) => Stuck(p)'
      BY <1>1, <2>5 DEF WritesCache, Stuck, Claiming
    <3> QED
      BY <2>0, <2>5, <3>1 DEF WritesCache
  <2> QED
    BY <1>1, <2>1, <2>2, <2>3, <2>4, <2>5
<1>6. \A v \in Policies : Stuck(v) => Stuck(v)'
  BY <1>3, <1>5
<1>7. ASSUME NEW t \in Ticks
      PROVE  /\ (tick[t].pc = "reset" => Stuck(tick[t].cur))'
             /\ tick'[t].pc \in {"reset", "resetcache"} => tick'[t].cur \notin tick'[t].todo
             /\ \A v \in tick'[t].todo : tick'[t].snap[v] = "transitioning" /\ tick'[t].old[v]
                                          => Stuck(v)'
  <2>1. tick' = tick /\ tick[t].todo \subseteq Policies
        /\ (tick[t].pc = "reset" => tick[t].cur \in Policies)
    BY <1>1 DEF TypeOK, TickType
  <2>2. ASSUME NEW c \in Policies, tick[t].cur = c, tick[t].pc = "reset"
        PROVE  Stuck(c)'
    BY <1>6, <2>2 DEF StuckExact
  <2>3. (tick[t].pc = "reset" => Stuck(tick[t].cur))'
    BY <2>1, <2>2
  <2> QED
    BY <1>6, <2>1, <2>3 DEF StuckExact
<1> QED
  BY <1>4, <1>5, <1>7 DEF StuckExact

\* StuckExact for one policy and for one tick loop
PolicyStuck(p) ==
  /\ db[p].old => Stuck(p)
  /\ cache[p].state = "transitioning" =>
       \/ db[p].state = "transitioning" \/ Resetting(p)
       \/ \E r \in Runs : run[r].policy = p /\ run[r].pc \in {"uncache", "sync"}
  /\ cache[p].state = "transitioning" /\ cache[p].old => Stuck(p) \/ Resetting(p)
LoopStuck(t) ==
  /\ tick[t].pc = "reset" => Stuck(tick[t].cur)
  /\ tick[t].pc \in {"reset", "resetcache"} => tick[t].cur \notin tick[t].todo
  /\ \A p \in tick[t].todo : tick[t].snap[p] = "transitioning" /\ tick[t].old[p] => Stuck(p)

(* StuckExact holds when it holds of every policy and of every loop.          *)
LEMMA StuckParts ==
  /\ StuckExact <=> (\A p \in Policies : PolicyStuck(p)) /\ (\A t \in Ticks : LoopStuck(t))
  /\ StuckExact' <=> (\A p \in Policies : PolicyStuck(p)') /\ (\A t \in Ticks : LoopStuck(t)')
BY DEF StuckExact, PolicyStuck, LoopStuck

(* A policy whose row and cache entry a step leaves alone, and whose reset no *)
(* loop finishes in it.                                                       *)
LEMMA PolicyKept ==
  ASSUME SameRuns, NEW p, PolicyStuck(p), db'[p].state = db[p].state, db'[p].old = db[p].old,
         cache'[p] = cache[p], Resetting(p) => Resetting(p)'
  PROVE  PolicyStuck(p)'
BY StuckKept DEF PolicyStuck

(* A loop with nothing on its list, in no reset.                              *)
LEMMA LoopEmpty ==
  ASSUME NEW t, tick'[t].pc \in {"off", "idle"}, tick'[t].todo = {}
  PROVE  LoopStuck(t)'
BY DEF LoopStuck

(* A step of the only tick loop keeps StuckExact: what it copies from the     *)
(* cache as old is stuck, and stays so until the loop has reset it.           *)
LEMMA StuckTick ==
  ASSUME TypeOK, ProcessShape, OneLoop, StuckExact, NEW t \in Ticks, TickStep(t) \/ TickAborts(t),
         SameRuns
  PROVE  StuckExact'
<1>p. \A p \in Policies : PolicyStuck(p)
  BY StuckParts
<1>l. LoopStuck(t)
  BY StuckParts
<1>o. \A u \in Ticks \ {t} : tick'[u] = tick[u] /\ tick[u].pc = "off" /\ tick[u].todo = {}
  BY LoopRuns DEF OneLoop, ProcessShape
<1>u. \A u \in Ticks \ {t} : LoopStuck(u)'
  BY <1>o, LoopEmpty
<1>t. tick[t] \in TickType /\ tick[t].todo \subseteq Policies
  BY DEF TypeOK, TickType
<1>r. \A p : Resetting(p) => tick[t].pc = "resetcache" /\ tick[t].cur = p
  BY <1>o DEF Resetting
<1>s. ASSUME UNCHANGED <<db, cache>>, tick[t].pc # "resetcache", LoopStuck(t)'
      PROVE  StuckExact'
  BY <1>s, <1>p, <1>r, <1>u, PolicyKept, StuckParts
<1>1. CASE TickBegins(t)
  <2> DEFINE todo == {p \in Policies : cache[p].state # "absent"}
             x == Loop("eval", tick[t].gen, [p \in Policies |-> cache[p].state],
                       [p \in Policies |-> cache[p].old], intended, todo)
  <2>1. /\ x.pc = "eval" /\ x.todo = todo
        /\ \A p \in Policies : x.snap[p] = cache[p].state /\ x.old[p] = cache[p].old
    BY DEF Loop
  <2>2. tick' = [tick EXCEPT ![t] = x]
    BY <1>1 DEF TickBegins
  <2>3. tick[t].pc = "idle" /\ UNCHANGED <<db, cache>>
    BY <1>1 DEF TickBegins
  <2> HIDE DEF x
  <2>4. tick'[t] = x
    BY <2>2 DEF TypeOK
  <2>5. ASSUME NEW p \in todo, x.snap[p] = "transitioning", x.old[p]
        PROVE  Stuck(p)'
    BY <2>1, <2>3, <2>5, <1>p, <1>r, StuckKept DEF PolicyStuck
  <2>6. LoopStuck(t)'
    BY <2>1, <2>4, <2>5 DEF LoopStuck
  <2> QED
    BY <2>3, <2>6, <1>s
<1>2. ASSUME NEW p \in Policies, Evaluate(t, p) \/ ResetChecks(t, p)
      PROVE  StuckExact'
  <2>1. /\ UNCHANGED <<db, cache>> /\ tick[t].pc \in {"eval", "recover"} /\ p \in tick[t].todo
        /\ \/ \E pc \in {"eval", "recover"} : Evaluated(t, p, pc, NoPolicy)
           \/ /\ Evaluated(t, p, "reset", p) /\ tick[t].snap[p] = "transitioning" /\ tick[t].old[p]
    BY <1>2 DEF Evaluate, ResetChecks
  <2>2. /\ tick'[t].todo = tick[t].todo \ {p}
        /\ \A q \in Policies \ {p} : /\ tick'[t].snap[q] = tick[t].snap[q]
                                     /\ tick'[t].old[q] = tick[t].old[q]
        /\ \/ tick'[t].pc \in {"eval", "recover"}
           \/ tick'[t].pc = "reset" /\ tick'[t].cur = p /\ Stuck(p)
    BY <2>1, <1>l, LoopEvaluated DEF LoopStuck
  <2>3. \A q \in Policies : Stuck(q) => Stuck(q)'
    BY <2>1, StuckKept
  <2>4. (tick[t].pc = "reset" => Stuck(tick[t].cur))'
    BY <2>2, <2>3
  <2>5. LoopStuck(t)'
    BY <2>2, <2>3, <2>4, <1>l, <1>t DEF LoopStuck
  <2> QED
    BY <2>1, <2>5, <1>s
<1>3. CASE ResetState(t)
  <2>1. PICK c \in Policies : tick[t].cur = c
    BY <1>3 DEF ResetState, TypeOK
  <2>2. /\ tick[t].pc = "reset" /\ UNCHANGED cache /\ Stuck(c) /\ c \notin tick[t].todo
        /\ UpdatePolicyState(c, "unknown")
    BY <1>3, <2>1, <1>l DEF ResetState, LoopStuck
  <2>3. /\ tick'[t].pc = "resetcache" /\ tick'[t].cur = c /\ tick'[t].todo = tick[t].todo
        /\ tick'[t].snap = tick[t].snap /\ tick'[t].old = tick[t].old
    BY <1>3, <2>1, LoopReset
  <2>4. /\ \A v \in Policies \ {c} : db'[v] = db[v]
        /\ db'[c] = db[c] \/ ~db'[c].old
    BY <2>2 DEF UpdatePolicyState, TypeOK
  <2>5. Resetting(c)'
    BY <2>3 DEF Resetting
  <2>6. ASSUME NEW v \in Policies \ {c}
        PROVE  PolicyStuck(v)' /\ (Stuck(v) => Stuck(v)')
    <3>1. db'[v] = db[v] /\ cache'[v] = cache[v] /\ ~Resetting(v)
      BY <2>2, <2>4, <2>6, <1>r
    <3> QED
      BY <3>1, <1>p, PolicyKept, StuckKept
  <2>7. PolicyStuck(c)'
    BY <2>2, <2>4, <2>5, StuckKept DEF PolicyStuck
  <2>8. LoopStuck(t)'
    BY <2>2, <2>3, <2>6, <1>l, <1>t DEF LoopStuck
  <2> QED
    BY <2>6, <2>7, <2>8, <1>u, StuckParts
<1>4. CASE ResetCache(t)
  <2>1. PICK c \in Policies : tick[t].cur = c
    BY <1>4 DEF ResetCache, TypeOK
  <2>2. tick[t].pc = "resetcache" /\ UNCHANGED db /\ \E old : CacheState(c, "unknown", old)
    BY <1>4, <2>1 DEF ResetCache
  <2>3. /\ tick'[t].pc = "eval" /\ tick'[t].todo = tick[t].todo
        /\ tick'[t].snap = tick[t].snap /\ tick'[t].old = tick[t].old
    BY <1>4, LoopReset
  <2>4. /\ cache'[c].state # "transitioning"
        /\ \A v \in Policies \ {c} : cache'[v] = cache[v]
    BY <2>2 DEF CacheState, TypeOK
  <2>5. ASSUME NEW v \in Policies \ {c}
        PROVE  PolicyStuck(v)'
    <3>1. ~Resetting(v) /\ cache'[v] = cache[v] /\ db'[v] = db[v]
      BY <2>1, <2>2, <2>4, <2>5, <1>r
    <3> QED
      BY <3>1, <1>p, PolicyKept
  <2>6. PolicyStuck(c)'
    BY <2>2, <2>4, <1>p, StuckKept DEF PolicyStuck
  <2>7. LoopStuck(t)'
    BY <2>2, <2>3, <1>l, <1>t, StuckKept DEF LoopStuck
  <2> QED
    BY <2>5, <2>6, <2>7, <1>u, StuckParts
<1>5. CASE TickEnds(t) \/ TickExits(t) \/ TickAborts(t)
  <2>1. PICK x \in {Off, NoCopies("idle", tick[t].gen)} : tick' = [tick EXCEPT ![t] = x]
    BY <1>5 DEF TickEnds, TickExits, TickAborts
  <2>2. tick[t].pc # "resetcache" /\ UNCHANGED <<db, cache>>
    BY <1>5 DEF TickEnds, TickExits, TickAborts
  <2>3. tick'[t] = x
    BY <2>1 DEF TypeOK
  <2> QED
    BY <2>1, <2>2, <2>3, <1>s, EmptyLoops, LoopEmpty
<1> QED
  BY <1>1, <1>2, <1>3, <1>4, <1>5 DEF TickStep

(* A reload copies the rows, so that what it caches as old is stuck.          *)
LEMMA ReloadStuck ==
  ASSUME StuckExact, UNCHANGED <<db, run>>, cache' = Reloaded, NEW p \in Policies
  PROVE  PolicyStuck(p)'
<1>1. \/ cache'[p].state = "absent"
      \/ cache'[p].state = db[p].state /\ cache'[p].old = db[p].old
  BY DEF Reloaded
<1>2. Stuck(p)' = Stuck(p)
  BY DEF Stuck
<1>3. PolicyStuck(p)
  BY StuckParts
<1> QED
  BY <1>1, <1>2, <1>3 DEF PolicyStuck

(* Administrative operations, requests, faults and the passage of time keep   *)
(* StuckExact: while no execution overruns, time makes a transition old only  *)
(* when no run is left for it.                                                *)
LEMMA StuckRest ==
  ASSUME TypeOK, ProcessShape, StuckExact, ~Overrun, AdminStep \/ Environment,
         \A t \in Ticks : ~TickAborts(t)
  PROVE  StuckExact'
<1>n. SameRuns \/ Crash
  <2>1. ASSUME NEW r \in Runs, NEW p, NEW dir, NEW scoped, RequestRun(r, p, dir, scoped)
        PROVE  SameRuns
    <3> DEFINE x == Called("enter", p, dir, db[p].state, scoped, gen, "api")
    <3>1. x.pc = "enter"
      BY DEF Called
    <3> HIDE DEF x
    <3>2. run[r].pc = "free" /\ run' = [run EXCEPT ![r] = x]
      BY <2>1 DEF RequestRun, Call, FreeRuns, x
    <3> QED
      BY <3>1, <3>2 DEF TypeOK, SameRuns
  <2>2. ASSUME NEW r \in Runs, CancelExecution(r)
        PROVE  SameRuns
    BY <2>2 DEF CancelExecution, TypeOK, RunType, SameRuns
  <2>3. ASSUME NEW r \in Runs, Timeout(r)
        PROVE  SameRuns
    BY <2>3 DEF Timeout, TypeOK, RunType, SameRuns
  <2>4. UNCHANGED run => SameRuns
    BY DEF SameRuns
  <2>5. CASE AdminStep
    BY <2>4, <2>5 DEF AdminStep, StopReturns, DisableAllPolicies, EmergencyScale, Boot, Start
  <2>6. CASE Environment
    BY <2>1, <2>2, <2>3, <2>4, <2>6 DEF Environment, Reload, AdminFails, TickAborts, BeginStop,
       IntentChanges, Ages, SetEnabled, BackoffElapses
  <2> QED
    BY <2>5, <2>6
<1>x. (\A p \in Policies : PolicyStuck(p)) /\ (\A t \in Ticks : LoopStuck(t))
  BY StuckParts
<1>y. \A t \in Ticks : /\ tick[t].todo \subseteq Policies
                       /\ tick[t].pc = "reset" => tick[t].cur \in Policies
  BY DEF TypeOK, TickType
<1>s. ASSUME SameRuns, \A p \in Policies : db'[p].state = db[p].state, UNCHANGED tick,
             NEW t \in Ticks
      PROVE  LoopStuck(t)'
  <2>1. \A p \in Policies : Stuck(p) => Stuck(p)'
    BY <1>s, StuckKept
  <2>2. ASSUME NEW c \in Policies, tick[t].cur = c, tick[t].pc = "reset"
        PROVE  Stuck(c)'
    BY <1>x, <2>1, <2>2 DEF LoopStuck
  <2>3. (tick[t].pc = "reset" => Stuck(tick[t].cur))'
    BY <1>s, <1>y, <2>2
  <2> QED
    BY <1>s, <1>x, <1>y, <2>1, <2>3 DEF LoopStuck
<1>f. ASSUME SameRuns, UNCHANGED <<cache, tick>>,
             \A p \in Policies : db'[p].state = db[p].state /\ db'[p].old = db[p].old
      PROVE  StuckExact'
  <2>1. \A p : Resetting(p)' = Resetting(p)
    BY <1>f DEF Resetting
  <2> QED
    BY <1>f, <1>s, <1>x, <2>1, PolicyKept, StuckParts
<1>1. CASE AdminStep
  <2>1. CASE StopReturns
    BY <2>1, <1>f DEF StopReturns, SameRuns
  <2>2. CASE DisableAllPolicies \/ EmergencyScale
    BY <2>2 DEF DisableAllPolicies, EmergencyScale, ProcessShape
  <2>3. ASSUME NEW t \in Ticks, Boot(t)
        PROVE  StuckExact'
    <3> DEFINE rows == [p \in Policies |-> RecoveredRow(db[p])]
    <3>1. /\ db' = rows /\ UNCHANGED run /\ admin = "down"
          /\ cache' = [p \in Policies |-> IF rows[p].enabled
                         THEN [state |-> rows[p].state, old |-> rows[p].old]
                         ELSE [state |-> "absent", old |-> FALSE]]
          /\ tick' = [tick EXCEPT ![t] = Loop("recover", 1,
                        [p \in Policies |-> rows[p].state], [p \in Policies |-> FALSE],
                        intended, {p \in Policies : rows[p].enabled})]
      BY <2>3 DEF Boot
    <3>2. \A p \in Policies : ~rows[p].old /\ rows[p].state # "transitioning"
      <4>1. ASSUME NEW x \in [state : States, enabled : BOOLEAN, old : BOOLEAN],
                   x.old => x.state = "transitioning"
            PROVE  ~RecoveredRow(x).old /\ RecoveredRow(x).state # "transitioning"
        BY <4>1 DEF RecoveredRow
      <4>2. \A p \in Policies : /\ db[p] \in [state : States, enabled : BOOLEAN, old : BOOLEAN]
                                /\ db[p].old => db[p].state = "transitioning"
        BY <1>x DEF TypeOK, PolicyStuck, Stuck
      <4> QED
        BY <4>1, <4>2
    <3> HIDE DEF rows
    <3>3. \A p \in Policies : cache'[p].state # "transitioning"
      BY <3>1, <3>2
    <3>4. \A p \in Policies : PolicyStuck(p)'
      BY <3>1, <3>2, <3>3 DEF PolicyStuck
    <3> DEFINE x == Loop("recover", 1, [p \in Policies |-> rows[p].state],
                         [p \in Policies |-> FALSE], intended, {p \in Policies : rows[p].enabled})
    <3>5. x.pc = "recover" /\ x.todo \subseteq Policies /\ \A p \in Policies : ~x.old[p]
      BY DEF Loop
    <3>6. tick' = [tick EXCEPT ![t] = x]
      BY <3>1
    <3> HIDE DEF x
    <3>7. tick'[t] = x /\ \A u \in Ticks \ {t} : tick'[u] = tick[u]
      BY <3>6 DEF TypeOK
    <3>8. ASSUME NEW u \in Ticks \ {t}
          PROVE  LoopStuck(u)'
      <4>1. tick'[u].pc = "off" /\ tick'[u].todo = {}
        BY <3>1, <3>7 DEF ProcessShape
      <4> QED
        BY <4>1, LoopEmpty
    <3>9. LoopStuck(t)'
      BY <3>5, <3>7 DEF LoopStuck
    <3> QED
      BY <3>4, <3>8, <3>9, StuckParts
  <2>4. ASSUME NEW t \in Ticks, Start(t)
        PROVE  StuckExact'
    <3>1. /\ cache' = Reloaded /\ UNCHANGED <<db, run>> /\ tick[t].pc = "off"
          /\ tick' = [tick EXCEPT ![t] = NoCopies("idle", gen')]
      BY <2>4 DEF Start
    <3>2. /\ tick'[t].pc = "idle" /\ tick'[t].todo = {}
          /\ \A u \in Ticks \ {t} : tick'[u] = tick[u]
      BY <3>1, EmptyLoops DEF TypeOK
    <3>3. \A p : Stuck(p)' = Stuck(p)
      BY <3>1 DEF Stuck
    <3>4. ASSUME NEW u \in Ticks \ {t}
          PROVE  LoopStuck(u)'
      <4>1. ASSUME NEW c, tick[u].cur = c, tick[u].pc = "reset"
            PROVE  Stuck(c)'
        BY <1>x, <3>3, <4>1 DEF LoopStuck
      <4>2. (tick[u].pc = "reset" => Stuck(tick[u].cur))'
        BY <3>2, <4>1
      <4> QED
        BY <1>x, <3>2, <3>3, <4>2 DEF LoopStuck
    <3>5. \A p \in Policies : PolicyStuck(p)'
      BY <3>1, ReloadStuck
    <3> QED
      BY <3>2, <3>4, <3>5, LoopEmpty, StuckParts
  <2> QED
    BY <1>1, <2>1, <2>2, <2>3, <2>4 DEF AdminStep
<1>2. CASE Reload
  <2>1. cache' = Reloaded /\ UNCHANGED <<db, run, tick>> /\ SameRuns
    BY <1>2 DEF Reload, SameRuns
  <2>2. \A p \in Policies : PolicyStuck(p)'
    BY <2>1, ReloadStuck
  <2> QED
    BY <2>1, <2>2, <1>s, StuckParts
<1>3. CASE Crash
  <2>1. /\ UNCHANGED db /\ \A p \in Policies : cache'[p].state = "absent"
        /\ \A r \in Runs : run'[r].pc = "free"
        /\ \A t \in Ticks : tick'[t].pc = "off" /\ tick'[t].todo = {}
    BY <1>3, EmptyLoops DEF Crash, Dead
  <2>2. \A p \in Policies : PolicyStuck(p)'
    BY <2>1, <1>x DEF PolicyStuck, Stuck, Claiming
  <2> QED
    BY <2>1, <2>2, LoopEmpty, StuckParts
<1>4. ASSUME NEW p \in Policies, Ages(p)
      PROVE  StuckExact'
  <2>1. /\ RunsOf(p) = {} /\ UNCHANGED <<run, tick>> /\ SameRuns
        /\ db' = [db EXCEPT ![p].old = (db[p].state = "transitioning")]
        /\ cache' = [cache EXCEPT ![p].old = (cache[p].state = "transitioning")]
    BY <1>4 DEF Ages, SameRuns
  <2>2. /\ db'[p].state = db[p].state /\ (db'[p].old => db[p].state = "transitioning")
        /\ cache'[p].state = cache[p].state
        /\ \A v \in Policies \ {p} : db'[v] = db[v] /\ cache'[v] = cache[v]
    BY <2>1, ZenonT(60) DEF TypeOK
  <2>3. \A r \in Runs : run[r].policy = p => run[r].pc \notin Holding
    BY <2>1 DEF RunsOf
  <2>4. db[p].state = "transitioning" => Stuck(p)'
    BY <2>1, <2>2, <2>3 DEF Stuck, Claiming, Holding, Calling, Spawned
  <2>5. \A v : Resetting(v)' = Resetting(v)
    BY <2>1 DEF Resetting
  <2>6. cache[p].state = "transitioning" => db[p].state = "transitioning" \/ Resetting(p)
    BY <1>x, <2>3 DEF PolicyStuck, Holding, Calling, Spawned
  <2>7. PolicyStuck(p)'
    BY <2>2, <2>4, <2>5, <2>6 DEF PolicyStuck
  <2>8. \A v \in Policies \ {p} : PolicyStuck(v)'
    BY <1>x, <2>1, <2>2, <2>5, PolicyKept
  <2>9. \A v \in Policies : db'[v].state = db[v].state
    BY <2>2
  <2>10. \A t \in Ticks : LoopStuck(t)'
    BY <2>1, <2>9, <1>s
  <2> QED
    BY <2>7, <2>8, <2>10, StuckParts
<1>5. ASSUME NEW p \in Policies, NEW b \in BOOLEAN, SetEnabled(p, b)
      PROVE  StuckExact'
  <2>1. UNCHANGED <<cache, run, tick>> /\ SameRuns
    BY <1>5 DEF SetEnabled, SameRuns
  <2>2. \A v \in Policies : db'[v].state = db[v].state /\ db'[v].old = db[v].old
    BY <1>5 DEF SetEnabled, TypeOK
  <2> QED
    BY <2>1, <2>2, <1>f
<1>6. CASE Environment /\ UNCHANGED <<db, cache, tick>> /\ SameRuns
  BY <1>6, <1>f
<1>7. CASE Environment
  BY <1>2, <1>3, <1>4, <1>5, <1>6, <1>7, <1>n
     DEF Environment, AdminFails, BeginStop, CancelExecution, Timeout, RequestRun, IntentChanges,
         BackoffElapses
<1> QED
  BY <1>1, <1>7

(* A step keeps StuckExact, when one tick loop runs at most.                  *)
LEMMA StuckStep ==
  ASSUME TypeOK, Exclusion, ProcessShape, OneLoop, ClaimHeld, StuckExact, ~Overrun, [Next]_vars
  PROVE  StuckExact'
<1>1. CASE UNCHANGED vars
  BY <1>1 DEF vars, StuckExact, Stuck, Resetting
<1>2. ASSUME NEW t \in Ticks, TickStep(t) \/ TickAborts(t)
      PROVE  StuckExact'
  <2>1. SameRuns
    <3>1. UNCHANGED run => SameRuns
      BY DEF SameRuns
    <3>2. ASSUME NEW p \in Policies, Evaluate(t, p)
          PROVE  SameRuns
      <4>1. \/ UNCHANGED run
            \/ \E r \in Runs : \E dir, scoped, g : Call(r, p, dir, tick[t].snap[p], scoped, g, t)
        BY <3>2 DEF Evaluate
      <4>2. ASSUME NEW r \in Runs, NEW dir, NEW scoped, NEW g,
                   Call(r, p, dir, tick[t].snap[p], scoped, g, t)
            PROVE  SameRuns
        <5> DEFINE x == Called("enter", p, dir, tick[t].snap[p], scoped, g, t)
        <5>1. x.pc = "enter"
          BY DEF Called
        <5> HIDE DEF x
        <5>2. run[r].pc = "free" /\ run' = [run EXCEPT ![r] = x]
          BY <4>2 DEF Call, FreeRuns, x
        <5> QED
          BY <5>1, <5>2 DEF TypeOK, SameRuns
      <4> QED
        BY <3>1, <4>1, <4>2
    <3> QED
      BY <1>2, <3>1, <3>2 DEF TickStep, TickBegins, ResetChecks, ResetState, ResetCache, TickEnds,
                              TickExits, TickAborts
  <2> QED
    BY <1>2, <2>1, StuckTick
<1> QED
  BY <1>1, <1>2, StuckRun, StuckRest DEF Next

(* Initially no process runs and nothing is claimed.                          *)
LEMMA ClaimInit ==
  Init => ClaimInv
<1> SUFFICES ASSUME Init
             PROVE  ClaimInv
  OBVIOUS
<1>1. /\ \A r \in Runs : run[r].pc = "free"
      /\ \A t \in Ticks : tick[t].pc = "off" /\ tick[t].todo = {}
      /\ \A p \in Policies : ~db[p].old /\ cache[p].state = "absent"
      /\ admin = "down"
  BY EmptyLoops DEF Init, Dead
<1> QED
  BY <1>1 DEF ClaimInv, ProcessShape, OneLoop, StuckExact, ClaimHeld, Claiming

(* From its claim until its final write, an execution finds its policy still  *)
(* claimed, and no stuck-state reset releases a claim that is alive           *)
(* (policies.go:78-95, policy_scheduler.go:648-672).  The emergency operation *)
(* is excluded, because it overwrites claims by design, and so are executions *)
(* that outlive their timeout by the grace period.  Database writes may fail  *)
(* when no tick loop survives a restart; when they do not fail, any number of *)
(* loops and restarts is allowed.                                             *)
THEOREM ClaimSafe ==
  ASSUME ~Overrun, ~Emergencies,
         ~DBErrors \/ MaxGen <= 1 \/ \A t1, t2 \in Ticks : t1 = t2
  PROVE  Spec => []ClaimHeld
<1>1. CASE ~DBErrors
  <2>1. Init => ProcessShape /\ ClaimHeld
    BY ClaimInit DEF ClaimInv
  <2>2. TypeOK /\ Exclusion /\ AgreeInv /\ ProcessShape /\ ClaimHeld /\ [Next]_vars
          => (ProcessShape /\ ClaimHeld)'
    BY ShapeStep, ClaimStep DEF AgreeInv, NothingStuck
  <2>3. TypeOK /\ Exclusion /\ AgreeInv /\ [Next]_vars => AgreeInv'
    BY <1>1, AgreeStep
  <2> QED
    BY <2>1, <2>2, <2>3, AgreeInit, TypeCorrect, ExclusionSafe, PTL DEF Spec
<1>2. CASE MaxGen <= 1 \/ \A t1, t2 \in Ticks : t1 = t2
  <2>1. TypeOK /\ Exclusion /\ ClaimInv /\ [Next]_vars => ClaimInv'
    <3> SUFFICES ASSUME TypeOK, Exclusion, ClaimInv, [Next]_vars
                 PROVE  ClaimInv'
      OBVIOUS
    <3>1. ProcessShape /\ OneLoop /\ StuckExact /\ ClaimHeld
      BY DEF ClaimInv
    <3>2. ClaimHeld'
      BY <3>1, ClaimStep DEF StuckExact
    <3> QED
      BY <1>2, <3>1, <3>2, ShapeStep, OneLoopStep, StuckStep DEF ClaimInv
  <2>2. ClaimInv => ClaimHeld
    BY DEF ClaimInv
  <2> QED
    BY <2>1, <2>2, ClaimInit, TypeCorrect, ExclusionSafe, PTL DEF Spec
<1> QED
  BY <1>1, <1>2
=============================================================================
