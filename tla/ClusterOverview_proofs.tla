----------------------- MODULE ClusterOverview_proofs -----------------------
(***************************************************************************)
(* Machine-checked theorems about ClusterOverview: no interleaving of      *)
(* rebuilds, signals, requests and saved policies leaves a stream with an  *)
(* old overview, or serves a request a memo older than a policy it must    *)
(* show.                                                                   *)
(***************************************************************************)
EXTENDS ClusterOverview, TLAPS, FiniteSetTheorems

Types == TypeOK /\ Shapes

(* Versions only grow, and data that was well formed stays so.                *)
LEMMA DataGrows ==
  ASSUME Types, world' \in Nat, saved' \in Nat, policies' \in Nat,
         world <= world', saved <= saved', policies <= policies'
  PROVE  AllData \subseteq AllData' /\ \A s \in Seq(AllData) : s \in Seq(AllData')
<1>1. /\ 0..world \subseteq 0..(world') /\ 0..saved \subseteq 0..(saved')
      /\ 0..policies \subseteq 0..(policies')
  BY DEF Types, TypeOK, Shapes
<1>2. AllData \subseteq AllData'
  BY <1>1 DEF AllData
<1> QED
  BY <1>2

(* The empty overview is well formed.                                         *)
LEMMA NothingData ==
  ASSUME Types
  PROVE  Nothing \in AllData
BY DEF Nothing, Data, AllData, Types, TypeOK, Shapes

(* An overview that is completed with the current policies.                   *)
LEMMA DataParts ==
  ASSUME Types, NEW d \in AllData
  PROVE  /\ d.v \in Nat
         /\ [d EXCEPT !.policies = policies] \in AllData
         /\ [d EXCEPT !.policies = policies].v = d.v
         /\ [d EXCEPT !.policies = policies].policies = policies
<1>1. policies \in 0..policies /\ 0..world \subseteq Nat
  BY DEF Types, Shapes
<1> QED
  BY <1>1 DEF AllData

(* A stream handler that waits unsignalled has sent the current snapshot.     *)
LEMMA CurrentFromDue ==
  (Shapes /\ LateIsDue => StreamCurrent) /\ (Shapes' /\ LateIsDue' => StreamCurrent')
BY DEF StreamCurrent, LateIsDue, Due, Shapes

(* The step changes neither snapshot, memo, handlers nor what is saved.       *)
LEMMA ServedAlike ==
  ASSUME OverviewInv, UNCHANGED <<snap, memo, sse, rest, policies, saving>>, Types',
         \A b \in Builders : build[b].pc = "published" => build'[b].pc = "published"
  PROVE  OverviewInv'
<1>1. Due => Due'
  BY DEF Due
<1>2. LateIsDue'
  BY <1>1 DEF OverviewInv, LateIsDue
<1>3. StampsCurrent'
  BY DEF OverviewInv, StampsCurrent
<1>4. PoliciesKnown' /\ PolicyVisible'
  BY DEF OverviewInv, OverviewCurrent, PoliciesKnown, PolicyVisible, Known
<1>5. StreamCurrent'
  BY <1>2, CurrentFromDue DEF Types
<1> QED
  BY <1>2, <1>3, <1>4, <1>5 DEF OverviewInv, OverviewCurrent, Types

(* Changes of the cluster, their delivery, the debounce and the start of a    *)
(* rebuild leave every overview as it is.                                     *)
LEMMA ClusterStep ==
  ASSUME OverviewAssumption, OverviewInv,
         Change \/ Deliver \/ Heartbeat \/ Resync \/ Tick \/ \E b \in Builders : Build(b)
  PROVE  OverviewInv'
<1> USE DEF OverviewAssumption
<1>t. Types
  BY DEF OverviewInv, OverviewCurrent, Types
<1>d. UNCHANGED <<world, saved, policies>> => AllData' = AllData
  BY DEF AllData
<1>1. CASE Change
  <2>1. /\ world' = world + 1 /\ world <= MaxChanges
        /\ UNCHANGED <<lister, timer, build, snap, saved, policies, saving, memo, lock, sse, rest,
                       wire, shown>>
    BY <1>1 DEF Change, cached, db, browser
  <2>2. AllData \subseteq AllData' /\ wire \in Seq(AllData')
    BY <1>t, <2>1, DataGrows, SMTT(60) DEF Types, TypeOK, Shapes
  <2>3. TypeOK'
    BY <1>t, <2>1, <2>2, SMTT(60) DEF Types, TypeOK
  <2>4. Shapes'
    BY <1>t, <2>1, <2>2 DEF Types, Shapes
  <2> QED
    BY <2>1, <2>3, <2>4, ServedAlike DEF Types
<1>2. CASE Deliver \/ Heartbeat \/ Resync
  <2>1. /\ UNCHANGED <<world, build, snap, saved, policies, saving, memo, lock, sse, rest, wire, shown>>
        /\ lister' \in {lister, world} /\ timer' = Delay
    BY <1>2 DEF Deliver, Heartbeat, Resync, Trigger, cached, db, browser
  <2>2. TypeOK'
    BY <1>t, <1>d, <2>1 DEF Types, TypeOK
  <2>3. Shapes'
    BY <1>t, <1>d, <2>1 DEF Types, Shapes
  <2> QED
    BY <2>1, <2>2, <2>3, ServedAlike DEF Types
<1>3. CASE Tick
  <2>1. /\ UNCHANGED <<world, lister, snap, saved, policies, saving, memo, lock, sse, rest, wire, shown>>
        /\ timer' \in 0..Delay
        /\ \/ UNCHANGED build
           \/ \E b \in Builders : build[b].pc = "off" /\ build' = [build EXCEPT ![b].pc = "queued"]
    BY <1>t, <1>3, SMTT(60) DEF Tick, db, browser, Types, TypeOK
  <2>2. TypeOK'
    BY <1>t, <1>d, <2>1 DEF Types, TypeOK
  <2>3. /\ \A b \in Builders : build'[b].pc = "built" => build'[b].read > 0
        /\ \A b \in Builders : build[b].pc = "published" => build'[b].pc = "published"
    <3>1. CASE UNCHANGED build
      BY <1>t, <3>1 DEF Types, Shapes
    <3>2. ASSUME NEW b \in Builders, build[b].pc = "off", build' = [build EXCEPT ![b].pc = "queued"]
          PROVE  /\ build'[b].pc = "queued" /\ \A c \in Builders \ {b} : build'[c] = build[c]
      BY <1>t, <3>2 DEF Types, TypeOK
    <3> QED
      BY <1>t, <2>1, <3>1, <3>2, ZenonT(60) DEF Types, Shapes
  <2>4. Shapes'
    BY <1>t, <1>d, <2>1, <2>3 DEF Types, Shapes
  <2> QED
    BY <2>1, <2>2, <2>3, <2>4, ServedAlike DEF Types
<1>4. ASSUME NEW b \in Builders, Build(b)
      PROVE  OverviewInv'
  <2>1. /\ UNCHANGED <<world, lister, timer, snap, saved, policies, saving, memo, lock, sse, rest,
                       wire, shown>>
        /\ build[b].pc = "queued" /\ build' = [build EXCEPT ![b] = [pc |-> "built", read |-> lister]]
    BY <1>4 DEF Build, cluster, db, browser
  <2>2. TypeOK'
    BY <1>t, <1>d, <2>1 DEF Types, TypeOK
  <2>3. /\ \A c \in Builders : build'[c].pc = "built" => build'[c].read > 0
        /\ \A c \in Builders : build[c].pc = "published" => build'[c].pc = "published"
    <3>1. /\ build'[b] = [pc |-> "built", read |-> lister]
          /\ \A c \in Builders \ {b} : build'[c] = build[c]
      BY <1>t, <2>1 DEF Types, TypeOK
    <3>2. lister > 0
      BY <1>t DEF Types, TypeOK
    <3> QED
      BY <1>t, <2>1, <3>1, <3>2 DEF Types, Shapes
  <2>4. Shapes'
    BY <1>t, <1>d, <2>1, <2>3 DEF Types, Shapes
  <2> QED
    BY <2>1, <2>2, <2>3, <2>4, ServedAlike DEF Types
<1> QED
  BY <1>1, <1>2, <1>3, <1>4

-----------------------------------------------------------------------------
(* Times counted back from a new snapshot are positive: an older snapshot is  *)
(* never taken for the current one.                                           *)
LEMMA CountedBack ==
  ASSUME Types, NEW n
  PROVE  1 + Cardinality({t \in Times : t < n}) \in Nat \ {0}
<1>1. IsFiniteSet({sse.stamp} \cup {rest.stamp})
  BY FS_Singleton, FS_AddElement
<1>2. {t \in Times : t < n} \in SUBSET ({sse.stamp} \cup {rest.stamp})
  BY DEF Times, Asking
<1>3. Cardinality({t \in Times : t < n}) \in Nat
  BY <1>1, <1>2, FS_Subset, FS_CardinalityType
<1> QED
  BY <1>3

(* A published snapshot makes every time that is held an older one, and a     *)
(* signal due.                                                                *)
LEMMA PublishStep ==
  ASSUME OverviewInv, NEW b \in Builders, Publish(b)
  PROVE  OverviewInv'
<1>t. Types
  BY DEF OverviewInv, OverviewCurrent, Types
<1>1. /\ UNCHANGED <<world, lister, timer, saved, policies, saving, lock, wire, shown>>
      /\ build[b].pc = "built" /\ snap' = build[b].read
      /\ build' = [build EXCEPT ![b] = [pc |-> "published", read |-> 0]]
      /\ sse' = Older(sse) /\ rest' = Older(rest)
      /\ memo' = IF memo.ok /\ memo.stamp \in Times
                 THEN [memo EXCEPT !.stamp = 1 + Cardinality({t \in Times : t < memo.stamp})]
                 ELSE NoMemo
  BY DEF Publish, cluster, db, browser
<1>2. AllData' = AllData /\ Nothing \in AllData
  BY <1>1, <1>t, NothingData DEF AllData
<1>3. /\ build'[b] = [pc |-> "published", read |-> 0]
      /\ \A c \in Builders \ {b} : build'[c] = build[c]
  BY <1>t, <1>1 DEF Types, TypeOK
<1>4. Due'
  BY <1>3 DEF Due
<1>5. /\ sse' \in [pc : {"off", "ask", "look", "build", "reply", "wait"}, stamp : Nat,
                   data : AllData, signal : BOOLEAN, last : Nat]
      /\ sse'.pc = sse.pc /\ (sse.pc \in {"look", "build"} => sse'.stamp # 0)
  <2>1. CASE sse \in Asking
    <3> DEFINE n == 1 + Cardinality({t \in Times : t < sse.stamp})
    <3>1. n \in Nat \ {0}
      BY <1>t, CountedBack
    <3>2. sse' = [sse EXCEPT !.stamp = n]
      BY <1>1, <2>1 DEF Older
    <3> HIDE DEF n
    <3> QED
      BY <1>t, <3>1, <3>2 DEF Types, Shapes
  <2>2. CASE sse \notin Asking
    BY <1>t, <1>1, <2>2 DEF Older, Asking, Types, Shapes
  <2> QED
    BY <2>1, <2>2
<1>6. /\ rest' \in [pc : {"off", "ask", "look", "build", "reply"}, stamp : Nat, data : AllData,
                    since : Nat]
      /\ rest'.pc = rest.pc /\ rest'.since = rest.since /\ rest'.data = rest.data
      /\ (rest.pc \in {"look", "build"} => rest'.stamp # 0)
  <2>1. CASE rest \in Asking
    <3> DEFINE n == 1 + Cardinality({t \in Times : t < rest.stamp})
    <3>1. n \in Nat \ {0}
      BY <1>t, CountedBack
    <3>2. rest' = [rest EXCEPT !.stamp = n]
      BY <1>1, <2>1 DEF Older
    <3> HIDE DEF n
    <3> QED
      BY <1>t, <3>1, <3>2 DEF Types, Shapes
  <2>2. CASE rest \notin Asking
    BY <1>t, <1>1, <2>2 DEF Older, Asking, Types, Shapes
  <2> QED
    BY <2>1, <2>2
<1>7. /\ memo' \in [ok : BOOLEAN, data : AllData, stamp : Nat]
      /\ memo'.ok => memo.ok /\ memo'.stamp # 0 /\ memo'.data = memo.data
  <2>1. CASE memo.ok /\ memo.stamp \in Times
    <3> DEFINE n == 1 + Cardinality({t \in Times : t < memo.stamp})
    <3>1. n \in Nat \ {0}
      BY <1>t, CountedBack
    <3>2. memo' = [memo EXCEPT !.stamp = n]
      BY <1>1, <2>1
    <3> HIDE DEF n
    <3> QED
      BY <1>t, <2>1, <3>1, <3>2 DEF Types, Shapes
  <2>2. CASE ~(memo.ok /\ memo.stamp \in Times)
    BY <1>1, <1>2, <2>2 DEF NoMemo
  <2> QED
    BY <2>1, <2>2
<1>8. TypeOK'
  <2>1. build[b].read \in 1..lister /\ lister \in Nat
    BY <1>t, <1>1 DEF Types, TypeOK, Shapes
  <2>2. build' \in [Builders -> [pc : {"off", "queued", "built", "published"}, read : 0..lister]]
    BY <1>t, <1>1, <2>1 DEF Types, TypeOK
  <2> QED
    BY <1>t, <1>1, <1>2, <1>5, <1>6, <1>7, <2>1, <2>2 DEF Types, TypeOK
<1>9. Shapes'
  BY <1>t, <1>1, <1>2, <1>3, <1>5, <1>6, <1>7 DEF Types, Shapes
<1>10. StampsCurrent' /\ LateIsDue'
  BY <1>4, <1>5, <1>6, <1>7 DEF StampsCurrent, LateIsDue
<1>11. PoliciesKnown' /\ PolicyVisible'
  BY <1>1, <1>6, <1>7 DEF OverviewInv, OverviewCurrent, PoliciesKnown, PolicyVisible, Known
<1> QED
  BY <1>8, <1>9, <1>10, <1>11, CurrentFromDue DEF OverviewInv, OverviewCurrent

(* A step of the stream handler: what it leaves of the rest of the state.     *)
LEMMA SseStep ==
  ASSUME OverviewInv, UNCHANGED <<world, lister, timer, saved, policies, saving, snap, memo, rest, shown>>,
         TypeOK', Shapes', LateIsDue', sse'.pc = "build" => sse.pc = "build" /\ sse' = sse
  PROVE  OverviewInv'
<1>1. StampsCurrent'
  BY DEF OverviewInv, StampsCurrent
<1>2. PoliciesKnown' /\ PolicyVisible'
  BY DEF OverviewInv, OverviewCurrent, PoliciesKnown, PolicyVisible, Known
<1> QED
  BY <1>1, <1>2, CurrentFromDue DEF OverviewInv, OverviewCurrent

(* The signal reaches every handler that has subscribed, also one that is     *)
(* writing.                                                                   *)
LEMMA NotifyStep ==
  ASSUME OverviewInv, NEW b \in Builders, Notify(b)
  PROVE  OverviewInv'
<1>t. Types
  BY DEF OverviewInv, OverviewCurrent, Types
<1>1. /\ UNCHANGED <<world, lister, timer, saved, policies, saving, snap, memo, lock, rest, wire, shown>>
      /\ build' = [build EXCEPT ![b].pc = "off"] /\ build[b].pc = "published"
      /\ sse' = [sse EXCEPT !.signal = sse.pc /= "off"]
  BY DEF Notify, cluster, db, browser
<1>2. AllData' = AllData
  BY <1>1 DEF AllData
<1>3. /\ build'[b].pc = "off" /\ \A c \in Builders \ {b} : build'[c] = build[c]
      /\ build' \in [Builders -> [pc : {"off", "queued", "built", "published"}, read : 0..lister]]
  BY <1>t, <1>1 DEF Types, TypeOK
<1>4. /\ sse'.pc = sse.pc /\ sse'.data = sse.data /\ sse'.stamp = sse.stamp
      /\ sse'.last = sse.last /\ sse'.signal = (sse.pc # "off")
      /\ sse' \in [pc : {"off", "ask", "look", "build", "reply", "wait"}, stamp : Nat,
                   data : AllData, signal : BOOLEAN, last : Nat]
  BY <1>t, <1>1 DEF Types, Shapes
<1>5. TypeOK'
  BY <1>t, <1>1, <1>2, <1>3, <1>4 DEF Types, TypeOK
<1>6. Shapes'
  BY <1>t, <1>1, <1>2, <1>3, <1>4 DEF Types, Shapes
<1>7. LateIsDue'
  BY <1>4 DEF LateIsDue, Due
<1>8. StampsCurrent'
  BY <1>1, <1>4 DEF OverviewInv, StampsCurrent
<1>9. PoliciesKnown' /\ PolicyVisible'
  BY <1>1 DEF OverviewInv, OverviewCurrent, PoliciesKnown, PolicyVisible, Known
<1> QED
  BY <1>5, <1>6, <1>7, <1>8, <1>9, CurrentFromDue DEF OverviewInv, OverviewCurrent

-----------------------------------------------------------------------------
(* overviewBytes on behalf of the stream.                                     *)
LEMMA StreamOverviewStep ==
  ASSUME OverviewInv, StreamOverview
  PROVE  OverviewInv'
<1> DEFINE SseType == [pc : {"off", "ask", "look", "build", "reply", "wait"}, stamp : Nat,
                       data : AllData, signal : BOOLEAN, last : Nat]
<1>t. Types
  BY DEF OverviewInv, OverviewCurrent, Types
<1>1. /\ UNCHANGED <<world, lister, timer, build, saved, policies, saving, snap, rest, wire, shown>>
      /\ Overview("sse", sse, sse')
  BY DEF StreamOverview, cluster, cached, db, browser
<1>2. AllData' = AllData
  BY <1>1 DEF AllData
<1>3. sse \in SseType
  BY <1>t DEF Types, Shapes
<1>4. sse'.signal = sse.signal => Due' = Due
  BY <1>1 DEF Due
<1>5. ASSUME sse' \in SseType, sse'.signal = sse.signal,
             memo' \in [ok : BOOLEAN, data : AllData, stamp : Nat], lock' \in {"free", "sse", "rest"},
             sse'.pc \in {"look", "build"} => sse'.stamp = 0 \/ Due,
             sse'.pc = "reply" => sse'.data.v = snap \/ Due, sse'.pc # "wait",
             sse'.pc = "build" /\ sse'.stamp = 0 => sse'.data.v = snap,
             memo'.ok /\ memo'.stamp = 0 => memo'.data.v = snap,
             memo'.ok => memo'.data.policies >= Known
      PROVE  OverviewInv'
  <2>1. TypeOK'
    BY <1>t, <1>1, <1>2, <1>5 DEF Types, TypeOK
  <2>2. Shapes'
    BY <1>t, <1>1, <1>2, <1>5 DEF Types, Shapes
  <2>3. StampsCurrent' /\ LateIsDue'
    BY <1>1, <1>4, <1>5 DEF OverviewInv, StampsCurrent, LateIsDue
  <2>4. PoliciesKnown' /\ PolicyVisible'
    BY <1>1, <1>5 DEF OverviewInv, OverviewCurrent, PoliciesKnown, PolicyVisible, Known
  <2> QED
    BY <2>1, <2>2, <2>3, <2>4, CurrentFromDue DEF OverviewInv, OverviewCurrent
<1>6. /\ memo \in [ok : BOOLEAN, data : AllData, stamp : Nat] /\ lock \in {"free", "sse", "rest"}
      /\ memo.ok /\ memo.stamp = 0 => memo.data.v = snap
      /\ memo.ok => memo.data.policies >= Known
  BY <1>t DEF Types, TypeOK, Shapes, OverviewInv, StampsCurrent, PoliciesKnown
<1>7. CASE sse.pc = "ask" /\ sse' = Marker(sse) /\ UNCHANGED <<memo, lock>>
  <2>1. sse' \in SseType /\ sse'.signal = sse.signal /\ sse'.pc = "look" /\ sse'.stamp = 0
    BY <1>3, <1>7 DEF Marker
  <2> QED
    BY <1>5, <1>6, <1>7, <2>1
<1>8. CASE /\ sse.pc = "look" /\ Hit(sse) /\ sse' = Served(sse) /\ UNCHANGED <<memo, lock>>
  <2>1. /\ sse' \in SseType /\ sse'.signal = sse.signal /\ sse'.pc = "reply"
        /\ sse'.data = memo.data
    BY <1>3, <1>6, <1>8 DEF Served
  <2>2. memo.data.v = snap \/ Due
    BY <1>6, <1>8 DEF Hit, OverviewInv, LateIsDue
  <2> QED
    BY <1>5, <1>6, <1>8, <2>1, <2>2
<1>9. CASE sse.pc = "look" /\ lock' = "sse" /\ sse' = Begun(sse) /\ UNCHANGED memo
  <2>1. Data(snap, saved, 0) \in AllData /\ Data(snap, saved, 0).v = snap
    BY <1>t DEF Data, AllData, Types, TypeOK, Shapes
  <2>2. /\ sse' \in SseType /\ sse'.signal = sse.signal /\ sse'.pc = "build"
        /\ sse'.stamp = sse.stamp /\ sse'.data.v = snap
    BY <1>3, <1>9, <2>1 DEF Begun
  <2>3. sse.stamp = 0 \/ Due
    BY <1>9 DEF OverviewInv, LateIsDue
  <2> QED
    BY <1>5, <1>6, <1>9, <2>2, <2>3
<1>10. CASE sse.pc = "build" /\ lock' = "free" /\ memo' = Remembered(sse) /\ sse' = Built(sse)
  <2>1. /\ sse' \in SseType /\ sse'.signal = sse.signal /\ sse'.pc = "reply"
        /\ sse'.data.v = sse.data.v /\ sse'.data.policies = policies
    <3> DEFINE d == [sse.data EXCEPT !.policies = policies]
    <3>1. d \in AllData /\ d.v = sse.data.v /\ d.policies = policies
      BY <1>t, <1>3, DataParts
    <3>2. sse' = [sse EXCEPT !.pc = "reply", !.data = d, !.stamp = 0]
      BY <1>10 DEF Built
    <3> HIDE DEF d
    <3> QED
      BY <1>3, <3>1, <3>2
  <2>2. memo' = [ok |-> TRUE, data |-> sse'.data, stamp |-> sse.stamp]
    BY <1>10 DEF Remembered
  <2>3. memo' \in [ok : BOOLEAN, data : AllData, stamp : Nat]
    BY <1>3, <2>1, <2>2
  <2>4. sse.stamp = 0 => sse.data.v = snap
    BY <1>10 DEF OverviewInv, StampsCurrent
  <2>5. sse.stamp = 0 \/ Due
    BY <1>10 DEF OverviewInv, LateIsDue
  <2>6. policies >= Known
    BY <1>t DEF Known, Types, Shapes
  <2> HIDE DEF SseType
  <2> QED
    BY <1>5, <1>10, <2>1, <2>2, <2>3, <2>4, <2>5, <2>6
<1> QED
  BY <1>1, <1>7, <1>8, <1>9, <1>10 DEF Overview

(* overviewBytes on behalf of a plain request.                                *)
LEMMA RequestOverviewStep ==
  ASSUME OverviewInv, RequestOverview
  PROVE  OverviewInv'
<1> DEFINE RestType == [pc : {"off", "ask", "look", "build", "reply"}, stamp : Nat, data : AllData,
                        since : Nat]
<1>t. Types
  BY DEF OverviewInv, OverviewCurrent, Types
<1>1. /\ UNCHANGED <<world, lister, timer, build, saved, policies, saving, snap, sse, wire, shown>>
      /\ Overview("rest", rest, rest')
  BY DEF RequestOverview, cluster, cached, db, browser
<1>2. AllData' = AllData /\ Due' = Due
  BY <1>1 DEF AllData, Due
<1>3. rest \in RestType
  BY <1>t DEF Types, Shapes
<1>4. /\ memo \in [ok : BOOLEAN, data : AllData, stamp : Nat] /\ lock \in {"free", "sse", "rest"}
      /\ memo.ok /\ memo.stamp = 0 => memo.data.v = snap
      /\ memo.ok => memo.data.policies >= Known
      /\ rest.since <= Known /\ Known \in Nat
  BY <1>t DEF Types, TypeOK, Shapes, OverviewInv, StampsCurrent, PoliciesKnown, Known
<1>5. ASSUME rest' \in RestType, rest'.since = rest.since,
             memo' \in [ok : BOOLEAN, data : AllData, stamp : Nat], lock' \in {"free", "sse", "rest"},
             rest'.pc = "reply" => rest'.data.policies >= Known,
             rest'.pc = "build" /\ rest'.stamp = 0 => rest'.data.v = snap,
             memo'.ok /\ memo'.stamp = 0 => memo'.data.v = snap,
             memo'.ok => memo'.data.policies >= Known
      PROVE  OverviewInv'
  <2>1. TypeOK'
    BY <1>t, <1>1, <1>2, <1>5 DEF Types, TypeOK
  <2>2. Shapes'
    BY <1>t, <1>1, <1>2, <1>5 DEF Types, Shapes
  <2>3. StampsCurrent' /\ LateIsDue'
    BY <1>1, <1>2, <1>5 DEF OverviewInv, StampsCurrent, LateIsDue
  <2>4. Known' = Known
    BY <1>1 DEF Known
  <2>5. rest'.pc = "reply" => rest'.data.policies \in Int
    BY <1>5, <1>t DEF AllData, Types, Shapes
  <2>6. PoliciesKnown' /\ PolicyVisible'
    BY <1>4, <1>5, <2>4, <2>5, <1>3 DEF PoliciesKnown, PolicyVisible
  <2> QED
    BY <2>1, <2>2, <2>3, <2>6, CurrentFromDue DEF OverviewInv, OverviewCurrent
<1>7. CASE rest.pc = "ask" /\ rest' = Marker(rest) /\ UNCHANGED <<memo, lock>>
  <2>1. rest' \in RestType /\ rest'.since = rest.since /\ rest'.pc = "look"
    BY <1>3, <1>7 DEF Marker
  <2> QED
    BY <1>4, <1>5, <1>7, <2>1
<1>8. CASE rest.pc = "look" /\ Hit(rest) /\ rest' = Served(rest) /\ UNCHANGED <<memo, lock>>
  <2>1. rest' \in RestType /\ rest'.since = rest.since /\ rest'.pc = "reply" /\ rest'.data = memo.data
    BY <1>3, <1>4, <1>8 DEF Served
  <2> QED
    BY <1>4, <1>5, <1>8, <2>1 DEF Hit
<1>9. CASE rest.pc = "look" /\ lock' = "rest" /\ rest' = Begun(rest) /\ UNCHANGED memo
  <2>1. Data(snap, saved, 0) \in AllData /\ Data(snap, saved, 0).v = snap
    BY <1>t DEF Data, AllData, Types, TypeOK, Shapes
  <2>2. /\ rest' \in RestType /\ rest'.since = rest.since /\ rest'.pc = "build" /\ rest'.data.v = snap
    BY <1>3, <1>9, <2>1 DEF Begun
  <2> QED
    BY <1>4, <1>5, <1>9, <2>2
<1>10. CASE rest.pc = "build" /\ lock' = "free" /\ memo' = Remembered(rest) /\ rest' = Built(rest)
  <2>1. /\ rest' \in RestType /\ rest'.since = rest.since /\ rest'.pc = "reply"
        /\ rest'.data.v = rest.data.v /\ rest'.data.policies = policies
    <3> DEFINE d == [rest.data EXCEPT !.policies = policies]
    <3>1. d \in AllData /\ d.v = rest.data.v /\ d.policies = policies
      BY <1>t, <1>3, DataParts
    <3>2. rest' = [rest EXCEPT !.pc = "reply", !.data = d, !.stamp = 0]
      BY <1>10 DEF Built
    <3> HIDE DEF d
    <3> QED
      BY <1>3, <3>1, <3>2
  <2>2. memo' = [ok |-> TRUE, data |-> rest'.data, stamp |-> rest.stamp]
    BY <1>10 DEF Remembered
  <2>3. memo' \in [ok : BOOLEAN, data : AllData, stamp : Nat]
    BY <1>3, <2>1, <2>2
  <2>4. rest.stamp = 0 => rest.data.v = snap
    BY <1>10 DEF OverviewInv, StampsCurrent
  <2>5. policies >= Known
    BY <1>t DEF Known, Types, Shapes
  <2> HIDE DEF RestType
  <2> QED
    BY <1>5, <1>10, <2>1, <2>2, <2>3, <2>4, <2>5
<1> QED
  BY <1>1, <1>7, <1>8, <1>9, <1>10 DEF Overview

-----------------------------------------------------------------------------
(* What is saved: replica counts, and policies with the memo's invalidation.  *)
LEMMA SaveStep ==
  ASSUME OverviewInv, SaveReplicas \/ SavePolicy \/ Invalidate
  PROVE  OverviewInv'
<1>t. Types
  BY DEF OverviewInv, OverviewCurrent, Types
<1>1. CASE SaveReplicas
  <2>1. /\ UNCHANGED <<world, lister, timer, build, snap, policies, saving, memo, lock, sse, rest,
                       wire, shown>>
        /\ saved' = saved + 1
    BY <1>1 DEF SaveReplicas, cluster, cached, browser
  <2>2. AllData \subseteq AllData' /\ wire \in Seq(AllData')
    BY <1>t, <2>1, DataGrows DEF Types, TypeOK, Shapes
  <2>3. TypeOK'
    BY <1>t, <2>1, <2>2 DEF Types, TypeOK
  <2>4. Shapes'
    BY <1>t, <2>1, <2>2 DEF Types, Shapes
  <2> QED
    BY <2>1, <2>3, <2>4, ServedAlike DEF Types
<1>2. CASE SavePolicy
  <2>1. /\ UNCHANGED <<world, lister, timer, build, snap, saved, memo, lock, sse, rest, wire, shown>>
        /\ policies' = policies + 1 /\ saving' = TRUE /\ ~saving
    BY <1>2 DEF SavePolicy, cluster, cached, browser
  <2>2. AllData \subseteq AllData' /\ wire \in Seq(AllData')
    BY <1>t, <2>1, DataGrows DEF Types, TypeOK, Shapes
  <2>3. TypeOK'
    BY <1>t, <2>1, <2>2 DEF Types, TypeOK
  <2>4. Shapes'
    BY <1>t, <2>1, <2>2 DEF Types, Shapes
  <2>5. Known' = Known /\ Due' = Due
    BY <1>t, <2>1 DEF Known, Due, Types, Shapes
  <2>6. StampsCurrent' /\ LateIsDue'
    BY <2>1, <2>5 DEF OverviewInv, StampsCurrent, LateIsDue
  <2>7. PoliciesKnown' /\ PolicyVisible'
    BY <2>1, <2>5 DEF OverviewInv, OverviewCurrent, PoliciesKnown, PolicyVisible
  <2> QED
    BY <2>3, <2>4, <2>6, <2>7, CurrentFromDue DEF OverviewInv, OverviewCurrent
<1>3. CASE Invalidate
  <2>1. /\ UNCHANGED <<world, lister, timer, build, snap, saved, policies, lock, sse, rest, wire, shown>>
        /\ memo' = NoMemo /\ saving' = FALSE /\ saving
    BY <1>3 DEF Invalidate, cluster, cached, browser
  <2>2. AllData' = AllData /\ Nothing \in AllData
    BY <1>t, <2>1, NothingData DEF AllData
  <2>3. memo' \in [ok : BOOLEAN, data : AllData, stamp : Nat] /\ ~memo'.ok
    BY <2>1, <2>2 DEF NoMemo
  <2>4. TypeOK'
    BY <1>t, <2>1, <2>2, <2>3 DEF Types, TypeOK
  <2>5. Shapes'
    BY <1>t, <2>1, <2>2, <2>3 DEF Types, Shapes
  <2>6. Due' = Due /\ rest.since <= policies
    BY <1>t, <2>1 DEF Due, OverviewInv, PoliciesKnown, Known, Types, Shapes
  <2>7. StampsCurrent' /\ LateIsDue'
    BY <2>1, <2>3, <2>6 DEF OverviewInv, StampsCurrent, LateIsDue
  <2>8. PoliciesKnown' /\ PolicyVisible'
    BY <2>1, <2>3, <2>6 DEF OverviewInv, OverviewCurrent, PoliciesKnown, PolicyVisible, Known
  <2> QED
    BY <2>4, <2>5, <2>7, <2>8, CurrentFromDue DEF OverviewInv, OverviewCurrent
<1> QED
  BY <1>1, <1>2, <1>3

(* The stream connects, writes, waits, is signalled and breaks.               *)
LEMMA StreamStep ==
  ASSUME OverviewAssumption, OverviewInv, Connect \/ Write \/ Signalled \/ Drop
  PROVE  OverviewInv'
<1> DEFINE SseType == [pc : {"off", "ask", "look", "build", "reply", "wait"}, stamp : Nat,
                       data : AllData, signal : BOOLEAN, last : Nat]
<1>t. Types
  BY DEF OverviewInv, OverviewCurrent, Types
<1>1. UNCHANGED <<world, lister, timer, build, saved, policies, saving, snap, memo, lock, rest, shown>>
  BY DEF Connect, Write, Signalled, Drop, cluster, cached, db, browser
<1>2. AllData' = AllData /\ Nothing \in AllData
  BY <1>1, <1>t, NothingData DEF AllData
<1>3. sse \in SseType
  BY <1>t DEF Types, Shapes
<1>4. ASSUME sse' \in SseType, wire' \in Seq(AllData), Len(wire') <= WireSize, sse'.pc # "build", LateIsDue'
      PROVE  OverviewInv'
  <2>1. TypeOK'
    BY <1>t, <1>1, <1>2, <1>4 DEF Types, TypeOK
  <2>2. Shapes'
    BY <1>t, <1>1, <1>2, <1>4 DEF Types, Shapes
  <2> QED
    BY <1>1, <1>4, <2>1, <2>2, SseStep
<1>w. wire \in Seq(AllData) /\ Len(wire) <= WireSize
  BY <1>t DEF Types, TypeOK, Shapes
<1>5. CASE Connect
  <2>1. sse' \in SseType /\ sse'.pc = "ask" /\ UNCHANGED wire
    BY <1>2, <1>5 DEF Connect, Off
  <2> QED
    BY <1>4, <1>w, <2>1 DEF LateIsDue
<1>6. CASE Write
  <2>1. /\ sse' \in SseType /\ sse'.pc = "wait" /\ sse'.last = sse.data.v /\ sse'.signal = sse.signal
        /\ sse.pc = "reply"
    <3>1. sse' = [sse EXCEPT !.pc = "wait", !.last = sse.data.v, !.data = Nothing] /\ sse.pc = "reply"
      BY <1>6 DEF Write
    <3>2. sse.data.v \in Nat
      BY <1>t, <1>3, DataParts
    <3> QED
      BY <1>2, <1>3, <3>1, <3>2
  <2>2. wire' \in Seq(AllData) /\ Len(wire') <= WireSize
    BY <1>3, <1>6, <1>w DEF Write, OverviewAssumption
  <2>3. LateIsDue'
    BY <1>1, <2>1 DEF LateIsDue, OverviewInv, Due
  <2> QED
    BY <1>4, <2>1, <2>2, <2>3
<1>7. CASE Signalled
  <2>1. sse' \in SseType /\ sse'.pc = "ask" /\ UNCHANGED wire
    BY <1>3, <1>7 DEF Signalled
  <2> QED
    BY <1>4, <1>w, <2>1 DEF LateIsDue
<1>8. CASE Drop
  <2>1. sse' \in SseType /\ sse'.pc = "off" /\ wire' = <<>>
    BY <1>2, <1>8 DEF Drop, Off
  <2> QED
    BY <1>4, <2>1 DEF LateIsDue, OverviewAssumption
<1> QED
  BY <1>5, <1>6, <1>7, <1>8

(* The browser takes what arrives and asks again.                             *)
LEMMA BrowserStep ==
  ASSUME OverviewAssumption, OverviewInv, Receive \/ Refetch \/ Answer
  PROVE  OverviewInv'
<1> DEFINE RestType == [pc : {"off", "ask", "look", "build", "reply"}, stamp : Nat, data : AllData,
                        since : Nat]
<1>t. Types
  BY DEF OverviewInv, OverviewCurrent, Types
<1>1. UNCHANGED <<world, lister, timer, build, saved, policies, saving, snap, memo, lock, sse>>
  BY DEF Receive, Refetch, Answer, cluster, cached, db, browser
<1>2. AllData' = AllData /\ Nothing \in AllData /\ Due' = Due /\ Known' = Known /\ Known \in Nat
  BY <1>1, <1>t, NothingData DEF AllData, Due, Known, Types, Shapes
<1>3. rest \in RestType /\ shown \in AllData /\ wire \in Seq(AllData) /\ Len(wire) <= WireSize
  BY <1>t DEF Types, TypeOK, Shapes
<1>4. ASSUME rest' \in RestType, rest' = rest \/ (rest'.pc \notin {"build", "reply"} /\ rest'.since <= Known),
             wire' \in Seq(AllData), Len(wire') <= WireSize, shown' \in AllData
      PROVE  OverviewInv'
  <2>1. TypeOK'
    BY <1>t, <1>1, <1>2, <1>4 DEF Types, TypeOK
  <2>2. Shapes'
    BY <1>t, <1>1, <1>2, <1>4 DEF Types, Shapes
  <2>3. StampsCurrent' /\ LateIsDue'
    BY <1>1, <1>2, <1>4 DEF OverviewInv, StampsCurrent, LateIsDue
  <2>4. PoliciesKnown' /\ PolicyVisible'
    BY <1>1, <1>2, <1>4 DEF OverviewInv, OverviewCurrent, PoliciesKnown, PolicyVisible
  <2> QED
    BY <2>1, <2>2, <2>3, <2>4, CurrentFromDue DEF OverviewInv, OverviewCurrent
<1>5. CASE Receive
  <2>1. wire # <<>> /\ shown' = Head(wire) /\ wire' = Tail(wire) /\ UNCHANGED rest
    BY <1>5 DEF Receive
  <2>2. shown' \in AllData /\ wire' \in Seq(AllData) /\ Len(wire') <= Len(wire) /\ Len(wire') \in Nat
    BY <1>3, <2>1
  <2>3. Len(wire') <= WireSize
    BY <1>3, <2>2 DEF OverviewAssumption
  <2> QED
    BY <1>3, <1>4, <2>1, <2>2, <2>3
<1>6. CASE Refetch
  <2>1. /\ rest' = [NoRequest EXCEPT !.pc = "ask", !.since = Known] /\ UNCHANGED <<wire, shown>>
    BY <1>6 DEF Refetch, Known
  <2>2. rest' \in RestType /\ rest'.pc = "ask" /\ rest'.since = Known
    BY <1>2, <2>1 DEF NoRequest
  <2> QED
    BY <1>2, <1>3, <1>4, <2>1, <2>2
<1>7. CASE Answer
  <2>1. rest' = NoRequest /\ shown' = rest.data /\ UNCHANGED wire
    BY <1>7 DEF Answer
  <2>2. rest' \in RestType /\ rest'.pc = "off" /\ rest'.since = 0
    BY <1>2, <2>1 DEF NoRequest
  <2> QED
    BY <1>2, <1>3, <1>4, <2>1, <2>2
<1> QED
  BY <1>5, <1>6, <1>7

-----------------------------------------------------------------------------
(* Every step keeps the invariant.                                            *)
LEMMA OverviewStep ==
  ASSUME OverviewAssumption
  PROVE  OverviewInv /\ [Next]_vars => OverviewInv'
<1> SUFFICES ASSUME OverviewInv, [Next]_vars
             PROVE  OverviewInv'
  OBVIOUS
<1>1. CASE UNCHANGED vars
  <2>1. UNCHANGED <<world, lister, timer, build, saved, policies, saving, snap, memo, lock, sse, rest,
                    wire, shown>>
    BY <1>1 DEF vars
  <2>2. AllData' = AllData
    BY <2>1 DEF AllData
  <2>3. Types'
    BY <2>1, <2>2 DEF OverviewInv, OverviewCurrent, Types, TypeOK, Shapes
  <2> QED
    BY <2>1, <2>3, ServedAlike
<1> QED
  BY <1>1, ClusterStep, PublishStep, NotifyStep, StreamOverviewStep, RequestOverviewStep, SaveStep,
     StreamStep, BrowserStep DEF Next, Server

(* The process starts with a snapshot, an empty memo and one request.         *)
LEMMA OverviewInit ==
  ASSUME OverviewAssumption
  PROVE  Init => OverviewInv
<1> SUFFICES ASSUME Init
             PROVE  OverviewInv
  OBVIOUS
<1>1. AllData = [v : 0..1, saved : 0..0, policies : 0..0] /\ Nothing \in AllData
  BY DEF Init, AllData, Nothing, Data
<1>2. /\ rest = [pc |-> "ask", stamp |-> 0, data |-> Nothing, since |-> 0]
      /\ sse = [pc |-> "off", stamp |-> 0, data |-> Nothing, signal |-> FALSE, last |-> 0]
      /\ memo = [ok |-> FALSE, data |-> Nothing, stamp |-> 0]
  BY DEF Init, NoRequest, Off, NoMemo
<1>3. TypeOK
  BY <1>1, <1>2 DEF Init, TypeOK, OverviewAssumption
<1>4. Shapes
  <2>1. wire \in Seq(AllData) /\ saved \in Nat /\ policies \in Nat /\ saving = FALSE
    BY DEF Init
  <2>2. memo \in [ok : BOOLEAN, data : AllData, stamp : Nat]
    BY <1>1, <1>2
  <2>3. sse \in [pc : {"off", "ask", "look", "build", "reply", "wait"}, stamp : Nat, data : AllData,
                signal : BOOLEAN, last : Nat]
    BY <1>1, <1>2
  <2>4. rest \in [pc : {"off", "ask", "look", "build", "reply"}, stamp : Nat, data : AllData, since : Nat]
    BY <1>1, <1>2
  <2>5. \A b \in Builders : build[b].pc = "off"
    BY DEF Init
  <2> QED
    BY <2>1, <2>2, <2>3, <2>4, <2>5 DEF Shapes
<1>5. StampsCurrent /\ LateIsDue /\ PoliciesKnown /\ PolicyVisible
  BY <1>2 DEF Init, StampsCurrent, LateIsDue, PoliciesKnown, PolicyVisible, Known
<1> QED
  BY <1>3, <1>4, <1>5, CurrentFromDue DEF OverviewInv, OverviewCurrent

(* For any number of rebuild goroutines, any debounce interval and connection *)
(* buffer, and any number of changes, saved rows, policies, refetches and     *)
(* drops: no signal between rebuild and stream is lost, the memo never serves *)
(* an older snapshot as the current one, and a request that starts after a    *)
(* policy handler has returned shows that policy (cache.go:178-229,          *)
(* overview.go:61-94, 132-160).                                               *)
THEOREM OverviewSafe ==
  ASSUME OverviewAssumption
  PROVE  Spec => []OverviewCurrent
<1>1. OverviewInv => OverviewCurrent
  BY DEF OverviewInv
<1> QED
  BY <1>1, OverviewInit, OverviewStep, PTL DEF Spec
=============================================================================
