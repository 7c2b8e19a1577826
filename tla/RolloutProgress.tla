--------------------------- MODULE RolloutProgress ---------------------------
(***************************************************************************)
(* What the log viewer computes from the lines of an execution: the        *)
(* progress bar (parseLogState, buildPhases, computeProgress and the       *)
(* fills and labels of the bar in LogViewer.tsx) and the summary           *)
(* (parseSummary.ts, ExecutionSummary.tsx).  Both parse the wording of the *)
(* runner, so the lines are produced here in the order the runner emits    *)
(* them (scaler/policy_scaler.go, workloads.go, waves.go, nodes.go).       *)
(*                                                                         *)
(* A line is a record: what the regular expressions tell apart, and the    *)
(* number or name they capture.  Weights and progress are integers: Grain  *)
(* stands for one thousandth of the bar.                                   *)
(***************************************************************************)
EXTENDS Naturals, Integers, Sequences, FiniteSets, SequencesExt

CONSTANTS
  Workloads,   \* <<kind, name>> pairs the execution selects
  Nodes,       \* nodes of the cluster (sleep only)
  WaveSizes,   \* guardrails.WakeWaveSize; 0: no waves
  Grain        \* divisible by the wave and workload counts of the instance

\* What the instance must satisfy.
RolloutAssumption ==
  /\ Grain \in Nat \ {0} /\ WaveSizes \subseteq Nat
  /\ IsFiniteSet(Workloads) /\ IsFiniteSet(Nodes)

VARIABLES
  kind,     \* "sleep", "enforce" (shown as a sleep) or "wake"
  apply,    \* policy.Mode is apply, not plan
  idle,     \* workloads at zero replicas already (sleep), or with nothing to restore (wake)
  log,      \* the lines so far
  pc,       \* the runner: "opening", "scaling", "listing", "nodes", "closing", "over"
  size,     \* size of a wave
  wave,     \* number of the current wave
  todo,     \* workloads of the current wave
  rest,     \* workloads of later waves
  nodes,    \* nodes still to drain
  drained,  \* nodes drained and not yet deleted
  errors,   \* counts.Errors > 0
  status    \* of the execution row

vars == <<kind, apply, idle, log, pc, size, wave, todo, rest, nodes, drained, errors, status>>
what == <<kind, apply, idle, size>>

dir == IF kind = "wake" THEN "wake" ELSE "sleep"

----------------------------------------------------------------------------
(* The runner's lines.  A line that neither parser reads is an "info". *)

CeilDiv(a, b) == (a + b - 1) \div b

WaveCount == IF size = 0 THEN 0 ELSE CeilDiv(Cardinality(Workloads), size)

Line(k, arg) == [kind |-> k, arg |-> arg]

Emit(lines) == log' = log \o lines

Init ==
  /\ kind \in {"sleep", "enforce", "wake"} /\ apply \in BOOLEAN
  /\ idle \in SUBSET Workloads
  /\ size \in (IF kind = "wake" THEN WaveSizes ELSE {0})
  /\ log = <<>> /\ pc = "opening" /\ wave = 0
  /\ todo = (IF size = 0 THEN Workloads ELSE {})
  /\ rest = (IF size = 0 THEN {} ELSE Workloads)
  /\ nodes = {} /\ drained = {}
  /\ errors = FALSE /\ status = "running"

\* The headers.  A wake counts its snapshots, a sleep only what is not at zero ("Estimate"),
\* an enforcement names no number that the bar reads.
Open ==
  LET awake == Cardinality(Workloads \ idle) IN
  /\ pc = "opening" /\ pc' = "scaling"
  /\ Emit(CASE kind = "wake" -> <<Line("estimate", Cardinality(Workloads))>>
            [] kind = "sleep" -> [i \in 1..3 |-> Line("info", i)]
                  \o (IF awake = 0 THEN <<>> ELSE <<Line("estimate", awake)>>)
            [] OTHER -> <<Line("info", 0)>>)
  /\ UNCHANGED <<what, wave, todo, rest, nodes, drained, errors, status>>

\* Guardrails, snapshots or the scope cannot be read: an error is returned, no line is written.
Abort ==
  /\ pc = "opening" /\ pc' = "over" /\ status' = "failed"
  /\ UNCHANGED <<what, log, wave, todo, rest, nodes, drained, errors>>

\* runWaves: "Wave i/n" opens a wave.
StartWave ==
  /\ pc = "scaling" /\ todo = {} /\ rest # {}
  /\ \E chunk \in SUBSET rest :
       /\ Cardinality(chunk) = (IF Cardinality(rest) < size THEN Cardinality(rest) ELSE size)
       /\ todo' = chunk /\ rest' = rest \ chunk
  /\ wave' = wave + 1
  /\ Emit(<<Line("wave", wave + 1)>>)
  /\ UNCHANGED <<what, pc, nodes, drained, errors, status>>

\* waitForWaveReady repeats "Wave i/n" once the wave has been scaled, before the next one.
WaveReady ==
  /\ pc = "scaling" /\ wave > 0 /\ todo = {} /\ rest # {} /\ Last(log).kind # "wave"
  /\ \E i \in DOMAIN log : log[i].kind = "workload"
  /\ Emit(<<Line("wave", wave)>>)
  /\ UNCHANGED <<what, pc, wave, todo, rest, nodes, drained, errors, status>>

\* "Slept", "Restored", "Enforced" or the plan line of a workload, or an error.  A workload
\* without work is passed over: silently by a sleep in apply mode and by an enforcement, with a
\* line of no number by a wake; a sleep in plan mode names it all the same, and one in apply
\* mode when it finishes what an earlier execution began.
ScaleWorkload ==
  /\ pc = "scaling"
  /\ \E w \in todo :
       /\ todo' = todo \ {w}
       /\ \/ /\ w \in idle => kind = "sleep"
             /\ Emit(<<Line("workload", w)>>) /\ UNCHANGED errors
          \/ Emit(<<Line("error", w)>>) /\ errors' = TRUE
          \/ /\ w \in idle /\ ~(kind = "sleep" /\ ~apply)
             /\ Emit(IF kind = "wake" THEN <<Line("info", w)>> ELSE <<>>) /\ UNCHANGED errors
  /\ UNCHANGED <<what, pc, wave, rest, nodes, drained, status>>

\* After the workloads of a sleep: its nodes, or "Node operations skipped: workload sleep is
\* incomplete", also when the selection was narrowed or an older intent is unresolved.
ScalingDone ==
  /\ pc = "scaling" /\ todo = {} /\ rest = {}
  /\ \/ kind = "sleep" /\ ~errors /\ Emit(<<Line("drainPhase", 0)>>) /\ pc' = "listing"
     \/ kind = "sleep" /\ Emit(<<Line("incomplete", 0)>>) /\ pc' = "closing"
     \/ kind # "sleep" /\ pc' = "closing" /\ UNCHANGED log
  /\ UNCHANGED <<what, wave, todo, rest, nodes, drained, errors, status>>

\* drainNodes: protected nodes are named and left alone; a failed list ends the phase.
ListNodes ==
  /\ pc = "listing"
  /\ \/ \E guarded \in SUBSET Nodes :
          /\ nodes' = Nodes \ guarded
          /\ Emit(SetToSeq({Line("protected", d) : d \in guarded})
                  \o (IF guarded = Nodes THEN <<>> ELSE <<Line("drainPhase", 0)>>))
          /\ pc' = "nodes" /\ UNCHANGED errors
     \/ /\ Emit(<<Line("error", "list")>>) /\ errors' = TRUE
        /\ pc' = "closing" /\ UNCHANGED nodes
  /\ UNCHANGED <<what, wave, todo, rest, drained, status>>

\* drainAndDeleteNode, first half; in plan mode it only says what it would do.
DrainNode ==
  /\ pc = "nodes"
  /\ \E d \in nodes :
       /\ nodes' = nodes \ {d}
       /\ \/ apply /\ Emit(<<Line("drained", d)>>) /\ drained' = drained \cup {d} /\ UNCHANGED errors
          \/ apply /\ Emit(<<Line("drainFailed", d)>>) /\ errors' = TRUE /\ UNCHANGED drained
          \/ /\ ~apply /\ Emit(<<Line("wouldDrain", d), Line("info", d)>>)
             /\ UNCHANGED <<errors, drained>>
  /\ UNCHANGED <<what, pc, wave, todo, rest, status>>

\* ... and second half: "Deleted node object", or an error.
DeleteNode ==
  /\ pc = "nodes"
  /\ \E d \in drained :
       /\ drained' = drained \ {d}
       /\ \/ Emit(<<Line("deleted", d)>>) /\ UNCHANGED errors
          \/ Emit(<<Line("error", d)>>) /\ errors' = TRUE
  /\ UNCHANGED <<what, pc, wave, todo, rest, nodes, status>>

NodesDone ==
  /\ pc = "nodes" /\ nodes = {} /\ drained = {} /\ pc' = "closing"
  /\ UNCHANGED <<what, log, wave, todo, rest, nodes, drained, errors, status>>

\* The closing line, and the status the scheduler writes afterwards.
Close ==
  /\ pc = "closing" /\ pc' = "over"
  /\ Emit(<<Line("complete", 0)>>)
  /\ status' = IF errors THEN "failed" ELSE "success"
  /\ UNCHANGED <<what, wave, todo, rest, nodes, drained, errors>>

\* The context ends; an enforcement does not look at it.
Interrupt ==
  /\ kind # "enforce" /\ pc \in {"scaling", "listing", "nodes", "closing"} /\ pc' = "over"
  /\ Emit(IF kind = "sleep" /\ pc = "scaling" THEN <<Line("incomplete", 0), Line("interrupted", 0)>>
          ELSE <<Line("interrupted", 0)>>)
  /\ status' = "interrupted"
  /\ UNCHANGED <<what, wave, todo, rest, nodes, drained, errors>>

Next ==
  \/ Open \/ Abort \/ StartWave \/ WaveReady \/ ScaleWorkload \/ ScalingDone
  \/ ListNodes \/ DrainNode \/ DeleteNode \/ NodesDone \/ Close \/ Interrupt

Spec == Init /\ [][Next]_vars

----------------------------------------------------------------------------
(* parseLogState, for a list l of lines. *)

At(l, kinds) == {i \in DOMAIN l : l[i].kind \in kinds}

\* WORKLOAD_NAME_RE captures namespace and name, not the kind.
NameOf(w) == w[2]

NamesIn(l, from) == {NameOf(l[i].arg) : i \in At(l, {"workload"}) \cap from}

\* Lines after the last line that opened wave w and before the next wave.
WaveLines(l, w) ==
  {i \in DOMAIN l : \E j \in At(l, {"wave"}) :
      /\ j < i /\ l[j].arg = w
      /\ \A k \in At(l, {"wave"}) : k < i => k <= j}

HasWaves(l) == At(l, {"wave"}) # {}

\* DRAIN_PHASE_RE, DRAINED_RE and COMPLETE_RE, which also finds "incomplete".
Parsed(l) ==
  [total     |-> IF At(l, {"estimate"}) = {} THEN 0 ELSE l[Min(At(l, {"estimate"}))].arg,
   scaled    |-> Cardinality(NamesIn(l, DOMAIN l)),
   hasDrain  |-> At(l, {"drainPhase", "drained", "drainFailed", "wouldDrain"}) # {},
   drained   |-> Cardinality(At(l, {"drained", "wouldDrain"})),
   hasWaves  |-> HasWaves(l),
   wave      |-> IF ~HasWaves(l) THEN 0 ELSE l[Max(At(l, {"wave"}))].arg,
   waveTotal |-> WaveCount,
   lines     |-> Len(l),
   done      |-> At(l, {"complete", "incomplete", "interrupted"}) # {}]

----------------------------------------------------------------------------
(* buildPhases and computeProgress. *)

Full == 1000 * Grain

\* buildPhases: labels and weights; one phase per wave when there are several.
Phases(l) ==
  LET scale == (IF dir = "sleep" THEN 780 ELSE 880) * Grain IN
     <<[label |-> "Discover", weight |-> 100 * Grain]>>
     \o (IF HasWaves(l) /\ WaveCount > 1
           THEN [i \in 1..WaveCount |-> [label |-> "", weight |-> scale \div WaveCount]]
           ELSE <<[label |-> "Scale", weight |-> scale]>>)
     \o (IF dir = "sleep" THEN <<[label |-> "Drain", weight |-> 100 * Grain]>> ELSE <<>>)
     \o <<[label |-> "Done", weight |-> 20 * Grain]>>

\* bounds[i]: where phase i starts; phases are numbered from 1 here, from 0 in the code.
Bound(l, i) == FoldLeft(LAMBDA sum, p : sum + p.weight, 0, SubSeq(Phases(l), 1, i - 1))

AtMost(a, b) == IF a < b THEN a ELSE b
AtLeast(a, b) == IF a > b THEN a ELSE b

\* effectiveTotal
Whole(s) == AtLeast(AtLeast(s.total, s.scaled), 1)

\* computeProgress: the filled part of the bar and the active phase, for lines l and status st.
Progress(l, st) ==
  LET s       == Parsed(l)
      total   == Whole(s)
      drain   == IF dir = "sleep" THEN Len(Phases(l)) - 1 ELSE 0
      clamp   == (IF st \in {"failed", "interrupted"} THEN 950 ELSE 980) * Grain
      ending  == IF drain > 0 THEN Bound(l, drain) ELSE Bound(l, Len(Phases(l)))
      inWave  == Cardinality(NamesIn(l, WaveLines(l, s.wave)))
      perWave == AtLeast(CeilDiv(total, s.waveTotal), 1)
  IN CASE st = "success" \/ s.done -> [value |-> Full, active |-> Len(Phases(l))]
       [] s.lines = 0 -> [value |-> 0, active |-> 1]
       [] s.hasDrain /\ s.drained > 0 /\ drain > 0 ->
            [value |-> AtMost(Bound(l, drain)
                        + (AtMost(s.drained * 300, 1000) * (Bound(l, drain + 1) - Bound(l, drain)))
                            \div 1000, clamp),
             active |-> drain]
       [] s.scaled > 0 /\ s.scaled >= total /\ drain > 0 /\ ~s.hasDrain ->
            [value |-> AtMost((Bound(l, drain) * 99) \div 100, clamp), active |-> drain]
       [] s.scaled = 0 -> [value |-> (AtMost(s.lines * 120, 900) * Bound(l, 2)) \div 1000, active |-> 1]
       [] s.hasWaves /\ s.waveTotal > 1 ->
            [value |-> AtMost(Bound(l, s.wave + 1)
                        + (AtMost(inWave, perWave) * Phases(l)[s.wave + 1].weight) \div perWave, clamp),
             active |-> s.wave + 1]
       [] OTHER ->
            [value |-> AtMost(Bound(l, 2)
                        + (AtMost(s.scaled, total) * (ending - Bound(l, 2))) \div total, clamp),
             active |-> 2]

Shown == Progress(log, status)

\* buildFillSegments: how much of phase i is filled; equal colours are merged afterwards.
FillOf(i) == AtLeast(AtMost(Shown.value, Bound(log, i + 1)) - Bound(log, i), 0)

\* buildLabelGroups: the waves share one label.
LabelGroups ==
  {{i} : i \in {j \in DOMAIN Phases(log) : Phases(log)[j].label # ""}}
  \cup ({{j \in DOMAIN Phases(log) : Phases(log)[j].label = ""}} \ {{}})

\* The labels above the bar: passed, active, failed or not reached.
LabelTone(g) ==
  CASE status = "success" \/ \A i \in g : i < Shown.active -> "passed"
    [] Shown.active \in g /\ status = "running" -> "active"
    [] Shown.active \in g -> "failed"
    [] OTHER -> "idle"

\* What is drawn over the bar: the pulsing tip while running, the flash on success.
Overlay ==
  CASE status = "running" /\ Shown.value > 0 -> "tip"
    [] status = "success" -> "flash"
    [] OTHER -> "none"

----------------------------------------------------------------------------
(* parseSummary and the summary panel. *)

NodeLines == At(log, {"drained", "deleted", "wouldDrain", "protected"})


\* nodeMap: the last line about a node decides, but a plan line replaces none.
NodeEntries ==
  {<<log[i].arg, log[i].kind>> :
     i \in {j \in NodeLines : \A k \in NodeLines : log[k].arg = log[j].arg =>
              IF log[k].kind = "wouldDrain" THEN j <= k ELSE k <= j}}

Summary ==
  [workloads |-> {log[i].arg : i \in At(log, {"workload"})},
   nodes     |-> NodeEntries,
   errors    |-> Cardinality(At(log, {"error", "drainFailed"})),
   stats     |-> At(log, {"complete"}) # {}]

\* ExecutionSummary renders nothing while there is nothing to report.
SummaryShown ==
  \/ Summary.workloads # {} \/ Summary.nodes # {}
  \/ Summary.errors > 0 \/ Summary.stats

----------------------------------------------------------------------------
(* Properties. *)

TypeOK ==
  /\ kind \in {"sleep", "enforce", "wake"} /\ apply \in BOOLEAN /\ idle \subseteq Workloads
  /\ size \in WaveSizes \cup {0}
  /\ \A i \in DOMAIN log : log[i].kind \in {"info", "estimate", "wave", "workload", "error",
       "drainPhase", "protected", "wouldDrain", "drained", "deleted", "drainFailed", "incomplete",
       "complete", "interrupted"}
  /\ pc \in {"opening", "scaling", "listing", "nodes", "closing", "over"}
  /\ wave \in 0..Cardinality(Workloads)
  /\ todo \subseteq Workloads /\ rest \subseteq Workloads
  /\ nodes \subseteq Nodes /\ drained \subseteq Nodes
  /\ errors \in BOOLEAN /\ status \in {"running", "success", "failed", "interrupted"}

\* The bar is full only when no workload and no node is left to handle, and stays at or below its
\* clamp before, whatever waves, errors, skipped workloads and drains are reported; and an
\* execution that succeeded shows a full bar.
FullOnlyWhenDone ==
  /\ Shown.value > 980 * Grain => Shown.value = Full /\ pc \in {"closing", "over"}
  /\ status = "success" => Shown.value = Full

\* A later line never takes back what an earlier one has filled, although phases, waves and
\* totals are computed again from the whole log.
NeverShrinks ==
  \A n \in 1..Len(log) :
    Progress(SubSeq(log, 1, n - 1), "running").value <= Progress(SubSeq(log, 1, n), "running").value

\* The tip of the bar lies in the phase that is marked active, except in the moment between
\* the last workload and the first word of the drain, when the bar waits before its phase.
TipInActivePhase ==
  /\ Shown.active \in DOMAIN Phases(log)
  /\ Shown.value <= Bound(log, Shown.active + 1)
  /\ Shown.value >= Bound(log, Shown.active) \/ Phases(log)[Shown.active].label = "Drain"
  /\ Overlay = "tip" => Cardinality({g \in LabelGroups : LabelTone(g) = "active"}) = 1
  /\ Overlay = "flash" => \A g \in LabelGroups : LabelTone(g) = "passed"

\* The coloured segments add up to the progress: buildFillSegments leaves no hole and paints
\* nothing twice.
FillsAddUp ==
  FoldLeft(LAMBDA sum, i : sum + FillOf(i), 0, [i \in DOMAIN Phases(log) |-> i]) = Shown.value

\* Bar and summary read the same log and agree, in apply and plan mode: workloads counted once
\* each, a node once although it is drained and then deleted, protected nodes shown and not
\* counted; and neither of them counts what was skipped ("accurate counting").
SummaryAgrees ==
  /\ Cardinality(Summary.workloads) = Parsed(log).scaled
  /\ Cardinality({e \in Summary.nodes : e[2] # "protected"}) = Parsed(log).drained
  /\ \A e, f \in Summary.nodes : e[1] = f[1] => e = f
  /\ Parsed(log).scaled > 0 => SummaryShown
  /\ errors <=> Summary.errors > 0

=============================================================================
