----------------------------- MODULE ClusterOverview -----------------------------
(***************************************************************************)
(* The path of a change of the cluster to the overview card: informers     *)
(* that trigger a debounced rebuild of the cached snapshot, subscribers    *)
(* that are signalled, the memo of the encoded overview, the stream and    *)
(* the plain request that serve it, and the browser, which takes data from *)
(* both and reconnects.                                                    *)
(*                                                                         *)
(* Cluster, saved replica counts and policies are version numbers; an      *)
(* overview is the versions it was built from. Time is a count of seconds. *)
(***************************************************************************)
EXTENDS Integers, Sequences, FiniteSets

CONSTANTS
  Builders,     \* goroutines of the debounce timer that may run at once
  Delay,        \* debounceInterval in seconds
  WireSize,     \* overviews the connection holds before a write blocks
  Busy,         \* does the cluster produce an event in every second
  MaxChanges, MaxSaved, MaxPolicies, MaxRefetch, MaxDrops   \* bounds

\* What the instance must satisfy.
OverviewAssumption ==
  /\ {MaxChanges, MaxSaved, MaxPolicies, MaxRefetch, MaxDrops} \subseteq Nat
  /\ {Delay, WireSize} \subseteq Nat \ {0} /\ Busy \in BOOLEAN

VARIABLES
  world, lister,   \* the cluster, and the informers' copy of it
  saved, policies, \* open snapshot rows; policies known to store and scheduler
  saving,          \* a policy handler has saved and not yet invalidated the memo
  timer, eventful, \* seconds left, 0: not armed; was there an event in this second
  build,           \* per builder [pc, read]
  snap,            \* the cached snapshot
  memo, lock,      \* overviewMemo: [ok, data, stamp], stamp the FetchedAt; holder of its mutex
  sse,             \* stream handler: [pc, stamp, data, signal, last]; last: history, cluster it sent last
  rest,            \* plain request: [pc, stamp, data, since]
  wire,            \* overviews on their way to the browser
  shown, paused,   \* the query cache entry; "Live updates paused"
  refetches, drops

vars == <<world, lister, saved, policies, saving, timer, eventful, build, snap, memo, lock, sse,
          rest, wire, shown, paused, refetches, drops>>
cluster == <<world, lister, timer, eventful>>
cached == <<build, snap>>
db == <<saved, policies, saving>>
browser == <<shown, paused, refetches, drops>>

Data(v, s, p) == [v |-> v, saved |-> s, policies |-> p]
Nothing == Data(0, 0, 0)
Off == [pc |-> "off", stamp |-> 0, data |-> Nothing, signal |-> FALSE, last |-> 0]
NoMemo == [ok |-> FALSE, data |-> Nothing, stamp |-> 0]
NoRequest == [pc |-> "off", stamp |-> 0, data |-> Nothing, since |-> 0]

Init ==
  /\ world = 1 /\ lister = 1 /\ saved = 0 /\ policies = 0 /\ saving = FALSE
  /\ timer = 0 /\ eventful = FALSE
  /\ build = [b \in Builders |-> [pc |-> "off", read |-> 0]]
  /\ snap = 1 /\ memo = NoMemo
  /\ lock = "free" /\ sse = Off /\ rest = [NoRequest EXCEPT !.pc = "ask"] /\ wire = <<>>
  /\ shown = Nothing /\ paused = FALSE /\ refetches = 0 /\ drops = 0

(***************************************************************************)
(* Informers and debounce                                                  *)
(***************************************************************************)

\* debouncer.Trigger stops the timer that runs and starts a new one.
Trigger == timer' = Delay

Change ==
  /\ world <= MaxChanges /\ world' = world + 1
  /\ UNCHANGED <<lister, timer, eventful, cached, db, memo, lock, sse, rest, wire, browser>>

\* The watch delivers the change and calls the event handler.
Deliver ==
  /\ lister < world /\ lister' = world /\ Trigger /\ eventful' = Busy
  /\ UNCHANGED <<world, cached, db, memo, lock, sse, rest, wire, browser>>

\* In a busy cluster some pod or node reports its status in every second.
Heartbeat ==
  /\ Busy /\ ~eventful /\ Trigger /\ eventful' = Busy
  /\ UNCHANGED <<world, lister, cached, db, memo, lock, sse, rest, wire, browser>>

\* The informers resync after minutes, long after the last event was handled.
Resync ==
  /\ ~Busy /\ timer = 0 /\ Trigger /\ eventful' = Busy
  /\ UNCHANGED <<world, lister, cached, db, memo, lock, sse, rest, wire, browser>>

\* A second passes; at the end of the delay the timer runs the rebuild in a goroutine.
Tick ==
  /\ Busy => eventful
  /\ eventful' = FALSE /\ timer' = IF timer = 0 THEN 0 ELSE timer - 1
  /\ IF timer /= 1 THEN UNCHANGED build
     ELSE \E b \in Builders : build[b].pc = "off" /\ build' = [build EXCEPT ![b].pc = "queued"]
  /\ UNCHANGED <<world, lister, snap, db, memo, lock, sse, rest, wire, browser>>

(***************************************************************************)
(* rebuildSnapshot                                                         *)
(***************************************************************************)

\* Under rebuildMu: read the listers.
Build(b) ==
  /\ build[b].pc = "queued" /\ \A c \in Builders : build[c].pc \in {"off", "queued"}
  /\ build' = [build EXCEPT ![b] = [pc |-> "built", read |-> lister]]
  /\ UNCHANGED <<cluster, snap, db, memo, lock, sse, rest, wire, browser>>

\* The times that requests hold, counted back from the snapshot: 0 is the current one.
Asking == {h \in {sse, rest} : h.pc \in {"look", "build"}}
Times == {h.stamp : h \in Asking}
Older(h) == IF h \in Asking THEN [h EXCEPT !.stamp = 1 + Cardinality({t \in Times : t < h.stamp})]
            ELSE h

\* Mutant of Publish: FetchedAt is taken over from the previous snapshot.
PublishSameTime(b) ==
  /\ build[b].pc = "built" /\ snap' = build[b].read
  /\ build' = [build EXCEPT ![b] = [pc |-> "published", read |-> 0]]
  /\ UNCHANGED <<cluster, db, memo, sse, rest, lock, wire, browser>>
\* A new snapshot with a new FetchedAt: what requests and memo hold is older now. A memo
\* whose time no request holds can never be served again and is forgotten.
Publish(b) ==
  /\ build[b].pc = "built" /\ snap' = build[b].read
  /\ build' = [build EXCEPT ![b] = [pc |-> "published", read |-> 0]]
  /\ sse' = Older(sse) /\ rest' = Older(rest)
  /\ memo' = IF memo.ok /\ memo.stamp \in Times
             THEN [memo EXCEPT !.stamp = 1 + Cardinality({t \in Times : t < memo.stamp})] ELSE NoMemo
  /\ UNCHANGED <<cluster, db, lock, wire, browser>>

\* Mutant of Notify: the channel has no buffer, a handler that is writing misses the signal.
NotifyIdle(b) ==
  /\ build[b].pc = "published" /\ build' = [build EXCEPT ![b].pc = "off"]
  /\ sse' = [sse EXCEPT !.signal = @ \/ sse.pc = "wait"]
  /\ UNCHANGED <<cluster, snap, db, memo, lock, rest, wire, browser>>
\* A subscribed handler finds the signal in its buffered channel.
Notify(b) ==
  /\ build[b].pc = "published" /\ build' = [build EXCEPT ![b].pc = "off"]
  /\ sse' = [sse EXCEPT !.signal = sse.pc /= "off"]
  /\ UNCHANGED <<cluster, snap, db, memo, lock, rest, wire, browser>>

(***************************************************************************)
(* overviewBytes, for the stream and for the plain request                 *)
(***************************************************************************)

\* The marker is read before the mutex is taken.
Marker(h) == [h EXCEPT !.pc = "look", !.stamp = 0]
Hit(h) == memo.ok /\ memo.stamp = h.stamp
\* buildOverview starts with the snapshot and the open rows, and ends with the policies.
Begun(h) == [h EXCEPT !.pc = "build", !.data = Data(snap, saved, 0)]
Served(h) == [h EXCEPT !.pc = "reply", !.data = memo.data, !.stamp = 0]
Built(h) == [h EXCEPT !.pc = "reply", !.data.policies = policies, !.stamp = 0]
Remembered(h) == [ok |-> TRUE, data |-> Built(h).data, stamp |-> h.stamp]

\* One step of overviewBytes by handler h, named who, which becomes h2.
Overview(who, h, h2) ==
  \/ h.pc = "ask" /\ h2 = Marker(h) /\ UNCHANGED <<memo, lock>>
  \/ h.pc = "look" /\ lock = "free" /\ Hit(h) /\ h2 = Served(h) /\ UNCHANGED <<memo, lock>>
  \/ h.pc = "look" /\ lock = "free" /\ ~Hit(h) /\ lock' = who /\ h2 = Begun(h) /\ UNCHANGED memo
  \/ h.pc = "build" /\ lock' = "free" /\ memo' = Remembered(h) /\ h2 = Built(h)

StreamOverview ==
  /\ sse' \in {Marker(sse), Served(sse), Begun(sse), Built(sse)} /\ Overview("sse", sse, sse')
  /\ UNCHANGED <<cluster, cached, db, rest, wire, browser>>
RequestOverview ==
  /\ rest' \in {Marker(rest), Served(rest), Begun(rest), Built(rest)} /\ Overview("rest", rest, rest')
  /\ UNCHANGED <<cluster, cached, db, sse, wire, browser>>

\* An execution writes or closes snapshot rows; the memo is not told.
SaveReplicas ==
  /\ saved < MaxSaved /\ saved' = saved + 1
  /\ UNCHANGED <<cluster, cached, policies, saving, memo, lock, sse, rest, wire, browser>>

\* A policy is saved and the scheduler reloaded, then the memo is invalidated.
SavePolicy ==
  /\ ~saving /\ policies < MaxPolicies /\ policies' = policies + 1 /\ saving' = TRUE
  /\ UNCHANGED <<cluster, cached, saved, memo, lock, sse, rest, wire, browser>>

Invalidate ==
  /\ saving /\ lock = "free" /\ saving' = FALSE /\ memo' = NoMemo
  /\ UNCHANGED <<cluster, cached, saved, policies, lock, sse, rest, wire, browser>>

(***************************************************************************)
(* streamCluster and useClusterStream                                      *)
(***************************************************************************)

\* The handler subscribes, then sends the current overview.
Connect ==
  /\ sse.pc = "off" /\ sse' = [Off EXCEPT !.pc = "ask"]
  /\ UNCHANGED <<cluster, cached, db, memo, lock, rest, wire, browser>>

Write ==
  /\ sse.pc = "reply" /\ Len(wire) < WireSize /\ wire' = Append(wire, sse.data)
  /\ sse' = [sse EXCEPT !.pc = "wait", !.last = sse.data.v, !.data = Nothing]
  /\ UNCHANGED <<cluster, cached, db, memo, lock, rest, browser>>

Signalled ==
  /\ sse.pc = "wait" /\ sse.signal /\ sse' = [sse EXCEPT !.pc = "ask", !.signal = FALSE]
  /\ UNCHANGED <<cluster, cached, db, memo, lock, rest, wire, browser>>

Receive ==
  /\ wire /= <<>> /\ shown' = Head(wire) /\ paused' = FALSE /\ wire' = Tail(wire)
  /\ UNCHANGED <<cluster, cached, db, memo, lock, sse, rest, refetches, drops>>

\* The connection breaks: the handler unsubscribes, the hook waits and tries again.
Drop ==
  /\ sse.pc \in {"wait", "reply"} /\ drops < MaxDrops /\ drops' = drops + 1
  /\ sse' = Off /\ wire' = <<>> /\ paused' = TRUE
  /\ UNCHANGED <<cluster, cached, db, memo, lock, rest, shown, refetches>>

\* The query is invalidated after a trigger, or polls while the stream is down.
Refetch ==
  /\ rest.pc = "off"
  /\ \/ paused /\ UNCHANGED refetches
     \/ ~paused /\ refetches < MaxRefetch /\ refetches' = refetches + 1
  /\ rest' = [NoRequest EXCEPT !.pc = "ask", !.since = IF saving THEN policies - 1 ELSE policies]
  /\ UNCHANGED <<cluster, cached, db, memo, lock, sse, wire, shown, paused, drops>>

Answer ==
  /\ rest.pc = "reply" /\ shown' = rest.data /\ rest' = NoRequest
  /\ UNCHANGED <<cluster, cached, db, memo, lock, sse, wire, paused, refetches, drops>>

Server ==
  \/ Invalidate \/ StreamOverview \/ RequestOverview \/ Write \/ Signalled
  \/ \E b \in Builders : Build(b) \/ Publish(b) \/ Notify(b)
Next ==
  \/ Change \/ Deliver \/ Heartbeat \/ Resync \/ Tick \/ SaveReplicas \/ SavePolicy \/ Server
  \/ Connect \/ Receive \/ Drop \/ Refetch \/ Answer

Spec == Init /\ [][Next]_vars

(***************************************************************************)
(* Properties                                                              *)
(***************************************************************************)

AllData == [v : 0..world, saved : 0..saved, policies : 0..policies]
TypeOK ==
  /\ lister \in 1..world /\ world \in 1..(MaxChanges + 1) /\ timer \in 0..Delay
  /\ build \in [Builders -> [pc : {"off", "queued", "built", "published"}, read : 0..lister]]
  /\ snap \in 1..lister /\ memo.data \in AllData
  /\ sse.pc \in {"off", "ask", "look", "build", "reply", "wait"} /\ sse.data \in AllData
  /\ rest.pc \in {"off", "ask", "look", "build", "reply"} /\ rest.data \in AllData
  /\ lock \in {"free", "sse", "rest"} /\ Len(wire) <= WireSize /\ shown \in AllData

\* A stream handler that waits without a signal has sent the overview of the current
\* snapshot, however snapshots, signals, the memo and other requests interleave.
StreamCurrent ==
  (sse.pc = "wait" /\ ~sse.signal /\ \A b \in Builders : build[b].pc /= "published")
    => sse.last = snap

\* A request that starts after a policy was saved and its handler returned shows that policy.
PolicyVisible == rest.pc = "reply" => rest.data.policies >= rest.since

\* Once changes stop, the card shows the state of the cluster, the rows and the policies.
Converges == <>[](shown = Data(world, saved, policies))

\* No signal is lost between rebuild and stream, and no request is served a memo older than a
\* policy whose handler had returned.
OverviewCurrent == TypeOK /\ StreamCurrent /\ PolicyVisible

(***************************************************************************)
(* Why OverviewCurrent holds: its inductive invariant.                     *)
(***************************************************************************)
\* the handler has been signalled, or will be by a rebuild that has published its snapshot
Due == sse.signal \/ \E b \in Builders : build[b].pc = "published"
\* the policies whose handler has returned
Known == IF saving THEN policies - 1 ELSE policies

Shapes ==
  /\ saved \in Nat /\ policies \in Nat /\ saving \in BOOLEAN /\ (saving => policies > 0)
  /\ memo \in [ok : BOOLEAN, data : AllData, stamp : Nat] /\ wire \in Seq(AllData)
  /\ sse \in [pc : {"off", "ask", "look", "build", "reply", "wait"}, stamp : Nat, data : AllData,
              signal : BOOLEAN, last : Nat]
  /\ rest \in [pc : {"off", "ask", "look", "build", "reply"}, stamp : Nat, data : AllData, since : Nat]
  /\ \A b \in Builders : build[b].pc = "built" => build[b].read > 0

\* stamp 0 stands for the current snapshot in the memo and in an overview under construction
StampsCurrent ==
  /\ memo.ok /\ memo.stamp = 0 => memo.data.v = snap
  /\ sse.pc = "build" /\ sse.stamp = 0 => sse.data.v = snap
  /\ rest.pc = "build" /\ rest.stamp = 0 => rest.data.v = snap

\* a handler that works with an older snapshot will be signalled
LateIsDue ==
  /\ sse.pc \in {"look", "build"} => sse.stamp = 0 \/ Due
  /\ sse.pc = "reply" => sse.data.v = snap \/ Due
  /\ sse.pc = "wait" => sse.last = snap \/ Due

\* the memo holds every policy whose handler has returned
PoliciesKnown ==
  /\ memo.ok => memo.data.policies >= Known
  /\ rest.since <= Known

OverviewInv == OverviewCurrent /\ Shapes /\ StampsCurrent /\ LateIsDue /\ PoliciesKnown
=============================================================================
