---------------------------- MODULE MetricsStream ----------------------------
(***************************************************************************)
(* The observability dashboard: the collector builds one payload per tick, *)
(* the SSE handler writes the latest one, useObservabilityStream keeps     *)
(* bounded lists of samples, calls and threshold events and reconnects     *)
(* with backoff, the history query polls stored samples, and the           *)
(* dashboard merges both and draws header, panels and timeline.            *)
(*                                                                         *)
(* A sample is its time, the reading v that a component row is judged by   *)
(* (requests or K8s calls per second, latency, connections) and a reading  *)
(* w that no row is judged by (K8s latency, errors, scaled workloads).  A  *)
(* call is its sequence number and the process that counted it.  Time is   *)
(* counted in ticks of the collector; the browser's clock is Skew ticks    *)
(* ahead.                                                                  *)
(***************************************************************************)
EXTENDS Integers, Sequences, FiniteSets, SequencesExt, FiniteSetsExt

CONSTANTS
  Readings,     \* pairs <<v, w>> a sample may have
  Minute,       \* seconds of a minute: the K8s panel shows calls per minute
  WarnVal, CritVal,  \* the thresholds of a panel key
  Ranges,       \* TIME_RANGE_MS, in ticks
  NewCalls,     \* how many calls a tick may record
  HistorySize, MaxCalls, MaxEvents, EventTTL,   \* bounds of the hook's lists
  OverlayMin,   \* previousPeriodSeries needs more samples than this
  BaseDelay, MaxDelay,   \* RECONNECT_BASE_MS, RECONNECT_MAX_MS
  Skew,         \* browser clock minus server clock
  MaxTime, MaxFaults, MaxRestarts   \* bounds

\* What the instance must satisfy.
MetricsAssumption ==
  /\ Readings \subseteq Nat \X Nat /\ Minute \in Nat \ {0} /\ Ranges \subseteq Nat \ {0} /\ NewCalls \subseteq Nat
  /\ {WarnVal, CritVal, HistorySize, MaxCalls, MaxEvents, EventTTL, OverlayMin,
      BaseDelay, MaxDelay, MaxTime, MaxFaults, MaxRestarts} \subseteq Nat
  /\ WarnVal <= CritVal /\ Skew \in Int /\ 0 < BaseDelay /\ BaseDelay <= MaxDelay

VARIABLES
  now,      \* the server's clock
  server,   \* collector: [payload, stored, boot, seq, base]
  conn,     \* the stream loop: [pc, since, fails, wait]
  hook,     \* state of the hook: [latest, history, events, calls, prev, disconnected]
  query,    \* history queries by range: [data, at, err]
  request,  \* the history request under way: [range, data]
  range,    \* the selected time range
  faults

vars == <<now, server, conn, hook, query, request, range, faults>>

None == [t |-> -1]

----------------------------------------------------------------------------
(* What the views compute from a list of samples. *)

Clock == now + Skew

\* thresholdStatus of the collector, which judges a component row.
Status(v) == IF v >= CritVal THEN "crit" ELSE IF v >= WarnVal THEN "warn" ELSE "ok"

\* PANELS: what a panel shows and compares with the threshold of its key.  Most show the
\* reading of a row; the K8s calls are a sum per minute under a threshold per second; K8s
\* latency and scaled workloads borrow the threshold of another reading, the error rate has
\* no row.
Panels == {"own", "perMinute", "other"}
Reading(k, x) == CASE k = "own" -> x.v [] k = "perMinute" -> Minute * x.v [] OTHER -> x.w

\* getThresholdStatus of the dashboard, on the latest payload.
PanelStatus(p, k) ==
  LET v == Reading(k, p.sample) IN
  IF ~p.thresholds THEN "ok"
  ELSE IF v >= CritVal THEN "crit" ELSE IF v >= WarnVal THEN "warn" ELSE "ok"

\* The status of checkThresholdCrossing: K8s calls per second, as the collector has them.
EventStatus(p) == PanelStatus(p, "own")

\* systemStatus: the worst of the component rows.
SystemStatus(p) ==
  CASE p.component = "crit" -> "critical" [] p.component = "warn" -> "warning" [] OTHER -> "healthy"

ByTime(S) == SetToSortSeq(S, LAMBDA a, b : a.t < b.t)

\* mergeMetricHistory: stored and live samples of the range, each time once, in order.
Merge(stored, live, span, end) ==
  ByTime({s \in stored \cup ToSet(live) : s.t >= end - span /\ s.t <= end})

\* rangeEndMs: the later of the query's last answer and the latest sample.
RangeEnd == Max({query[range].at, hook.latest.t})

Chart == Merge(query[range].data, hook.history, range, RangeEnd)

Span(h) == IF h = <<>> THEN 0 ELSE Last(h).t - h[1].t

\* previousPeriodSeries: the first half of the span over the second; times doubled.
PreviousPeriod(h) ==
  IF Len(h) <= OverlayMin \/ Span(h) <= 0 THEN {}
  ELSE {2 * s.t + Span(h) : s \in {x \in ToSet(h) : 2 * x.t < 2 * h[1].t + Span(h)}}

\* buildSparklinePoints: y in units of 1 / (max - min || 1), in a box of height 20.
Sparkline(h) ==
  LET vs   == {s.v : s \in ToSet(h)}
      unit == IF Max(vs) = Min(vs) THEN 1 ELSE Max(vs) - Min(vs)
  IN IF Len(h) < 2 THEN {} ELSE {[y |-> 20 * unit - 16 * (v - Min(vs)), unit |-> unit] : v \in vs}

\* ErrorRateArea: x in percent times the span, y in a strip of height 32.
ErrorArea(h) ==
  LET most == Max({s.v : s \in ToSet(h)})
  IN IF h = <<>> \/ Span(h) <= 0 \/ most = 0 THEN {}
     ELSE {[x |-> 100 * (s.t - h[1].t), y |-> 32 * most - 20 * s.v, most |-> most] : s \in ToSet(h)}

\* computePanelStats and useMinMax.
PanelStats(h) ==
  IF h = <<>> THEN [min |-> 0, max |-> 0, sum |-> 0]
  ELSE [min |-> Min({s.v : s \in ToSet(h)}), max |-> Max({s.v : s \in ToSet(h)}),
        sum |-> FoldSeq(LAMBDA s, acc : s.v + acc, 0, h)]

\* LastUpdatedIndicator: the age shown, never negative.
Freshness == IF hook.latest = None THEN -1 ELSE Max({0, Clock - hook.latest.t})

\* A panel: its value, the change against the last sample but one, its badge.
PanelView(p, h, k) ==
  LET v    == IF p.sample = None THEN 0 ELSE Reading(k, p.sample)
      prev == IF Len(h) >= 2 THEN Reading(k, h[Len(h) - 1]) ELSE v
  IN [shown |-> p.sample # None, value |-> v, badge |-> IF p.sample = None THEN "ok" ELSE PanelStatus(p, k),
      arrow |-> CASE prev = 0 \/ v = prev -> "none" [] v > prev -> "up" [] OTHER -> "down"]

\* The alert badge and the incident feed: absent without events.
AlertBadge == IF hook.events = <<>> THEN 0 ELSE Len(hook.events)

\* The status header: label, pulse and alerts.
Header ==
  [label |-> IF hook.latest = None THEN "healthy" ELSE SystemStatus(hook.payload),
   pulse |-> hook.latest # None /\ SystemStatus(hook.payload) = "critical",
   alerts |-> AlertBadge, age |-> Freshness]

\* ComponentHealthSection: how many of the shown components are ok.
HealthyRows(p) == IF p.component = "ok" THEN 1 ELSE 0

\* The alerts and sections of the dashboard.
Dashboard ==
  [loading |-> query[range].at = 0 /\ ~query[range].err,
   failed  |-> query[range].err,
   empty   |-> query[range].at # 0 /\ ~query[range].err /\ query[range].data = {},
   panels  |-> hook.latest # None \/ Chart # <<>>,
   timeline |-> Chart # <<>>,
   feed    |-> hook.events # <<>>]

----------------------------------------------------------------------------
NoPayload == [sample |-> None, component |-> "ok", thresholds |-> FALSE, calls |-> <<>>]

Init ==
  /\ now = 1
  /\ server = [payload |-> NoPayload, stored |-> {}, boot |-> 0, seq |-> 0, base |-> TRUE]
  /\ conn = [pc |-> "connecting", since |-> 0, fails |-> 0, wait |-> 0]
  /\ hook = [latest |-> None, history |-> <<>>, events |-> <<>>, calls |-> <<>>, prev |-> "none",
             disconnected |-> FALSE, payload |-> NoPayload]
  /\ query = [r \in Ranges |-> [data |-> {}, at |-> 0, err |-> FALSE]]
  /\ request = [range |-> 0, data |-> {}]
  /\ range \in Ranges /\ faults = 0

Fault == faults < MaxFaults /\ faults' = faults + 1

\* CallRecorder.Recent: the newest calls, newest first.
Recent(seq, boot) ==
  LET k == Min({seq, MaxCalls}) IN [i \in 1..k |-> [id |-> seq + 1 - i, boot |-> boot]]

Waited(c) == IF c.pc = "waiting" /\ c.wait > 0 THEN [c EXCEPT !.wait = @ - 1] ELSE c

\* Collector.collect: the first tick is only the baseline; a failed write leaves the old
\* payload; thresholds that could not be loaded are missing from the payload.
Collect ==
  /\ now < MaxTime /\ now' = now + 1 /\ conn' = Waited(conn)
  /\ \E x \in Readings, c \in NewCalls, ok \in BOOLEAN, thr \in BOOLEAN :
       /\ ~ok \/ ~thr => Fault
       /\ ok /\ thr => UNCHANGED faults
       /\ LET seq == server.seq + c
              s   == [t |-> now + 1, v |-> x[1], w |-> x[2]]
              p   == [sample |-> s, component |-> IF thr THEN Status(s.v) ELSE "ok",
                      thresholds |-> thr, calls |-> Recent(seq, server.boot)]
          IN server' = IF ~server.base THEN [server EXCEPT !.base = TRUE, !.seq = seq]
                       ELSE IF ~ok THEN [server EXCEPT !.seq = seq]
                       ELSE [server EXCEPT !.payload = p, !.stored = @ \cup {s}, !.seq = seq]
  /\ UNCHANGED <<hook, query, request, range>>

----------------------------------------------------------------------------
(* useObservabilityStream. *)

ReconnectDelay(fails) == Min({MaxDelay, BaseDelay * 2 ^ (fails - 1)})

\* The catch block: a long connection resets the count, then wait for the backoff.
Failed ==
  LET long  == conn.pc = "open" /\ now - conn.since >= MaxDelay
      fails == IF long THEN 1 ELSE conn.fails + 1
  IN conn' = [pc |-> "waiting", since |-> 0, fails |-> fails, wait |-> ReconnectDelay(fails)]

Connect ==
  /\ conn.pc = "connecting"
  /\ conn' = [conn EXCEPT !.pc = "open", !.since = now]
  /\ UNCHANGED <<now, server, hook, query, request, range, faults>>

\* The request is refused, or the open stream ends.
StreamFails ==
  /\ conn.pc \in {"connecting", "open"} /\ Fault /\ Failed
  /\ hook' = [hook EXCEPT !.disconnected = TRUE]
  /\ UNCHANGED <<now, server, query, request, range>>

Retry ==
  /\ conn.pc = "waiting" /\ conn.wait = 0
  /\ conn' = [conn EXCEPT !.pc = "connecting"]
  /\ UNCHANGED <<now, server, hook, query, request, range, faults>>

\* The process restarts: stream cut, recorder and counters empty, baseline needed again.
Restart ==
  /\ server.boot < MaxRestarts
  /\ server' = [server EXCEPT !.payload = NoPayload, !.boot = @ + 1, !.seq = 0, !.base = FALSE]
  /\ IF conn.pc = "open"
     THEN Failed /\ hook' = [hook EXCEPT !.disconnected = TRUE]
     ELSE UNCHANGED <<conn, hook>>
  /\ UNCHANGED <<now, query, request, range, faults>>

Prefix(s) == SubSeq(s, 1, Min({Len(s), MaxEvents}))

\* checkThresholdCrossing: an event when the status became worse than ok or changed.
Events(p) ==
  IF ~p.thresholds \/ EventStatus(p) \in {"ok", hook.prev} THEN hook.events
  ELSE Prefix(<<[severity |-> EventStatus(p), at |-> Clock]>> \o hook.events)

\* Mutant of Calls: new calls go to the end.
CallsAppended(p) ==
  LET seen  == {c.id : c \in ToSet(hook.calls)}
      fresh == SelectSeq(p.calls, LAMBDA c : c.id \notin seen)
      all   == hook.calls \o fresh
  IN SubSeq(all, 1, Min({Len(all), MaxCalls}))

\* recentCalls: calls with an unseen id go to the front, the oldest fall off.
Calls(p) ==
  LET seen  == {c.id : c \in ToSet(hook.calls)}
      fresh == SelectSeq(p.calls, LAMBDA c : c.id \notin seen)
      all   == fresh \o hook.calls
  IN SubSeq(all, 1, Min({Len(all), MaxCalls}))

\* One payload: samples, calls, then the thresholds; without thresholds the last part is
\* skipped as a malformed event.
Received(p) ==
  LET samples == Append(hook.history, p.sample)
  IN [latest |-> p.sample, payload |-> p, disconnected |-> FALSE,
      history |-> SubSeq(samples, Max({1, Len(samples) - HistorySize + 1}), Len(samples)),
      calls |-> Calls(p), events |-> Events(p),
      prev |-> IF p.thresholds THEN EventStatus(p) ELSE hook.prev]

\* streamObservability writes the latest payload, new or not; the hook applies it.
StreamTick ==
  /\ conn.pc = "open" /\ server.payload # NoPayload
  /\ hook' = Received(server.payload)
  /\ UNCHANGED <<now, server, conn, query, request, range, faults>>

\* The TTL sweep.
ExpireEvents ==
  LET kept == SelectSeq(hook.events, LAMBDA e : e.at > Clock - EventTTL) IN
  /\ kept # hook.events
  /\ hook' = [hook EXCEPT !.events = kept]
  /\ UNCHANGED <<now, server, conn, query, request, range, faults>>

\* The layout unmounts: the controller aborts request, reader and wait.
Unmount ==
  /\ conn.pc # "aborted"
  /\ conn' = [conn EXCEPT !.pc = "aborted", !.wait = 0]
  /\ request' = [range |-> 0, data |-> {}]
  /\ UNCHANGED <<now, server, hook, query, range, faults>>

----------------------------------------------------------------------------
(* MetricsDashboard: the history query of the selected range. *)

Ask ==
  /\ conn.pc # "aborted" /\ request.range = 0
  /\ query[range].at # Clock \/ query[range].err
  /\ request' = [range |-> range, data |-> {s \in server.stored : s.t >= now - range}]
  /\ UNCHANGED <<now, server, conn, hook, query, range, faults>>

Answer ==
  /\ request.range # 0
  /\ query' = [query EXCEPT ![request.range] = [data |-> request.data, at |-> Clock, err |-> FALSE]]
  /\ request' = [range |-> 0, data |-> {}]
  /\ UNCHANGED <<now, server, conn, hook, range, faults>>

\* A failed refetch keeps the old data beside the error.
AnswerFails ==
  /\ request.range # 0 /\ Fault
  /\ query' = [query EXCEPT ![request.range].err = TRUE]
  /\ request' = [range |-> 0, data |-> {}]
  /\ UNCHANGED <<now, server, conn, hook, range>>

\* handleTimeRangeChange: another query key; the request of the old one is aborted.
SelectRange ==
  /\ conn.pc # "aborted"
  /\ range' \in Ranges \ {range}
  /\ request' = [range |-> 0, data |-> {}]
  /\ UNCHANGED <<now, server, conn, hook, query, faults>>

Next ==
  \/ Collect \/ Connect \/ StreamFails \/ Retry \/ Restart \/ StreamTick \/ ExpireEvents
  \/ Unmount \/ Ask \/ Answer \/ AnswerFails \/ SelectRange

Spec == Init /\ [][Next]_vars
----------------------------------------------------------------------------
(* Properties. *)

Statuses == {"ok", "warn", "crit"}

TypeOK ==
  /\ now \in 1..MaxTime /\ faults \in 0..MaxFaults /\ range \in Ranges
  /\ server.seq \in Nat /\ server.boot \in 0..MaxRestarts /\ server.payload.component \in Statuses
  /\ conn \in [pc : {"connecting", "open", "waiting", "aborted"}, since : 0..MaxTime,
               fails : Nat, wait : 0..MaxDelay]
  /\ Len(hook.history) <= HistorySize /\ Len(hook.calls) <= MaxCalls
  /\ Len(hook.events) <= MaxEvents /\ hook.prev \in Statuses \cup {"none"}
  /\ request.range \in Ranges \cup {0} /\ Freshness >= -1

\* The charts contain the newest live sample as long as it is not older than the selected
\* range, whichever of stream and query answered last ("Live samples appear as they arrive"),
\* when the clocks of browser and server agree.
LatestShown ==
  (Skew = 0 /\ hook.latest # None /\ hook.latest.t >= now - range) => hook.latest \in ToSet(Chart)

\* Header and component rows, which the server judged, agree with what the browser judges
\* from the same reading: its panel, and the crossing that was announced last; also when the
\* thresholds are missing from the payload.  The panel of K8s calls, which compares a minute
\* with a threshold per second, may look worse than the row but never better.
Worse == [ok |-> 0, warn |-> 1, crit |-> 2]
HeaderAgrees ==
  LET badge(k) == PanelView(hook.payload, Chart, k).badge IN
  /\ Header.label = CASE badge("own") = "crit" -> "critical" [] badge("own") = "warn" -> "warning" [] OTHER -> "healthy"
  /\ Header.pulse => badge("own") = "crit" /\ badge("perMinute") = "crit"
  /\ (HealthyRows(hook.payload) = 1) = (badge("own") = "ok")
  /\ Worse[hook.payload.component] <= Worse[badge("perMinute")]
  /\ hook.payload.thresholds => hook.prev = hook.payload.component
  /\ Dashboard.feed = (Header.alerts > 0) /\ (Dashboard.timeline => Dashboard.panels)

\* What is drawn from a chart stays inside its frame: the overlay of the previous period in the
\* second half of the span, sparkline and error area in their boxes, the average in [min, max].
DrawnInside ==
  LET h == Chart IN
  /\ \A x \in PreviousPeriod(h) : 2 * h[1].t + Span(h) <= x /\ x < 2 * Last(h).t
  /\ \A p \in Sparkline(h) : 0 <= p.y /\ p.y <= 20 * p.unit
  /\ \A p \in ErrorArea(h) : p.x <= 100 * Span(h) /\ 0 <= p.y /\ p.y <= 32 * p.most
  /\ LET s == PanelStats(h) IN s.min * Len(h) <= s.sum /\ s.sum <= s.max * Len(h)

\* The dashboard never looks live without being it: once data arrived, a stream that is not
\* open, not even after a reconnect that brought nothing, is marked disconnected.
LiveMeansOpen ==
  (hook.latest # None /\ conn.pc \in {"connecting", "waiting"}) => hook.disconnected

\* The call feed begins with exactly the calls of the last payload, newest first, however often
\* payloads repeat or the stream reconnects ("The feed shows a bounded selection of recent
\* recorded calls"), until the process restarts and counts anew.
FeedCurrent ==
  server.boot = 0 => LET k == Len(hook.payload.calls) IN SubSeq(hook.calls, 1, k) = hook.payload.calls

\* Header, panels, charts and feed of the dashboard show what was collected, whatever ticks,
\* failures, reconnects, restarts and answers of the history query interleave.
DashboardTruthful ==
  TypeOK /\ LatestShown /\ HeaderAgrees /\ DrawnInside /\ LiveMeansOpen /\ FeedCurrent
=============================================================================
