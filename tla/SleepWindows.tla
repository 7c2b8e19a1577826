---------------------------- MODULE SleepWindows ----------------------------
(***************************************************************************)
(* Recurring sleep windows: the editor that builds them, the evaluation    *)
(* the scheduler acts on, and the five places that show a schedule (text   *)
(* summary, weekly timelines, 24-hour sparkline, savings ring, next        *)
(* transition).  Each of them computes the schedule for itself.            *)
(*                                                                         *)
(* Time is counted in slots; a day has S of them.  Days are numbered from  *)
(* Sunday = 0, timeline rows from Monday = 0.  Clock changes are left out: *)
(* every computation here is on wall-clock fields.                         *)
(***************************************************************************)
EXTENDS Integers, Sequences, FiniteSets, SequencesExt

CONSTANTS
  S,             \* slots of a day, a divisor of 24
  PickDays,      \* days the user toggles
  MaxWindows,    \* MAX_WINDOWS
  ExcSpans       \* spans <<from, to>>, in slots from a Sunday midnight, of exceptions

\* What the instance must satisfy.
SleepWindowsAssumption ==
  /\ S \in Nat \ {0} /\ 24 % S = 0 /\ PickDays \subseteq 0 .. 6 /\ MaxWindows \in Nat \ {0}
  /\ \A x \in ExcSpans : x[1] \in Nat /\ x[2] \in Nat /\ x[1] < x[2]

VARIABLES
  windows,   \* editingWindows: sequence of [days, start, end, allDay]
  exc        \* the policy's exception: [from, to, type, status]

vars == <<windows, exc>>

Days == 0 .. 6
Slots == 0 .. S - 1
At(hour) == (hour * S) \div 24
Win(days, from, to, allDay) == [days |-> days, start |-> from, end |-> to, allDay |-> allDay]
NoExc == [from |-> 0, to |-> 0, type |-> "force_sleep", status |-> "cancelled"]

----------------------------------------------------------------------------
(* What the scheduler does: windowContains, EvaluateInLocation. *)

WindowContains(w, d, m) ==
  IF w.allDay THEN d \in w.days
  ELSE IF w.start < w.end THEN d \in w.days /\ m >= w.start /\ m < w.end
  ELSE (d \in w.days /\ m >= w.start) \/ ((d + 6) % 7 \in w.days /\ m < w.end)

Sleeping(ws, d, m) == \E i \in DOMAIN ws : WindowContains(ws[i], d, m)

\* collectBoundaries: slots from today's midnight at which a window starts or ends, for eight days.
Boundaries(ws, d0) ==
  UNION {LET w == ws[i] d == (d0 + k) % 7 IN
    IF w.allDay
    THEN (IF d \in w.days THEN {k * S} ELSE {}) \cup (IF d \in w.days /\ (d + 1) % 7 \notin w.days THEN {(k + 1) * S} ELSE {})
    ELSE (IF d \in w.days THEN {k * S + w.start} ELSE {})
         \cup (IF w.start < w.end THEN (IF d \in w.days THEN {k * S + w.end} ELSE {})
               ELSE IF (d + 6) % 7 \in w.days THEN {k * S + w.end} ELSE {})
    : i \in DOMAIN ws, k \in 0 .. 7}

SleepingAfter(ws, d0, t) == Sleeping(ws, (d0 + t \div S) % 7, t % S)
Never == -1
Least(T) == IF T = {} THEN Never ELSE CHOOSE t \in T : \A u \in T : t <= u
\* NextTransitionInLocation: the first boundary after now at which the state differs.
NextTransition(ws, d0, m0) ==
  Least({t \in Boundaries(ws, d0) : t > m0 /\ SleepingAfter(ws, d0, t) # Sleeping(ws, d0, m0)})

----------------------------------------------------------------------------
(* What the pages show. *)

IsOvernight(w) == ~w.allDay /\ w.end <= w.start
Row(d) == (d + 6) % 7
Seg(row, from, to) == [row |-> row, from |-> from, to |-> to]

\* Mutant of ComputeWindowSegments: the second half of an overnight window stays in its row.
SegmentsSameRow(ws) ==
  UNION {LET w == ws[i] r == Row(d) IN
    IF w.allDay THEN {Seg(r, 0, S)}
    ELSE IF IsOvernight(w) THEN {Seg(r, w.start, S), Seg(r, 0, w.end)} ELSE {Seg(r, w.start, w.end)}
    : <<i, d>> \in {<<j, e>> \in (DOMAIN ws) \X Days : e \in ws[j].days}}
ComputeWindowSegments(ws) ==
  UNION {LET w == ws[i] r == Row(d) IN
    IF w.allDay THEN {Seg(r, 0, S)}
    ELSE IF IsOvernight(w) THEN {Seg(r, w.start, S), Seg((r + 1) % 7, 0, w.end)} ELSE {Seg(r, w.start, w.end)}
    : <<i, d>> \in {<<j, e>> \in (DOMAIN ws) \X Days : e \in ws[j].days}}

\* The cells of the weekly grid that a set of segments colours.
Cells(segs) == UNION {{<<g.row, m>> : m \in g.from .. g.to - 1} : g \in segs}

\* One block for each calendar day the range touches, empty ones dropped.
ComputeTimeRangeBlocks(from, to) ==
  {g \in {Seg(Row(k % 7), IF k = from \div S THEN from % S ELSE 0, IF k = to \div S THEN to % S ELSE S)
          : k \in from \div S .. to \div S} : g.to > g.from}
ComputeExceptionSegments(x) ==
  IF x.status \in {"cancelled", "completed"} THEN {} ELSE ComputeTimeRangeBlocks(x.from, x.to)

\* Everything the weekly grid draws.
AllSegs(ws, x) == ComputeWindowSegments(ws) \cup ComputeExceptionSegments(x)

\* The sparkline of the card: ranges of today, the last of them open to midnight.
SleepRanges(ws, today) ==
  UNION {LET w == ws[i] IN
    (IF today \notin w.days THEN {}
     ELSE IF w.allDay THEN {<<0, S>>} ELSE IF IsOvernight(w) THEN {<<w.start, S>>} ELSE {<<w.start, w.end>>})
    \cup (IF (today + 6) % 7 \in w.days /\ IsOvernight(w) THEN {<<0, w.end>>} ELSE {})
    : i \in DOMAIN ws}
MiniSleeping(ws, today, m) == \E r \in SleepRanges(ws, today) : m >= r[1] /\ (m < r[2] \/ (m = S /\ r[2] = S))

\* Intervals of one day of the week, as weeklySleepMinutes collects them.
DayIntervals(ws, d) ==
  UNION {LET w == ws[i]
             from == IF w.allDay THEN 0 ELSE w.start
             to == IF w.allDay THEN S ELSE w.end IN
    IF to > from THEN (IF d \in w.days THEN {<<from, to>>} ELSE {})
    ELSE (IF d \in w.days THEN {<<from, S>>} ELSE {}) \cup (IF (d + 6) % 7 \in w.days THEN {<<0, to>>} ELSE {})
    : i \in DOMAIN ws}
Larger(a, b) == IF a > b THEN a ELSE b
Merge(acc, x) ==
  IF x[1] > acc.end THEN [total |-> acc.total + (acc.end - acc.start), start |-> x[1], end |-> x[2]]
  ELSE [acc EXCEPT !.end = Larger(@, x[2])]
DaySleep(ws, d) ==
  LET sorted == SetToSortSeq(DayIntervals(ws, d), LAMBDA x, y : x[1] < y[1])
      acc == FoldLeft(Merge, [total |-> 0, start |-> 0, end |-> 0], sorted)
  IN acc.total + (acc.end - acc.start)
WeeklySleep(ws) == FoldLeft(LAMBDA n, d : n + DaySleep(ws, d), 0, <<0, 1, 2, 3, 4, 5, 6>>)

\* formatDayRange: labels <<first, last>>; only a run of three or more becomes a range.
Runs(days) == {<<a, b>> \in days \X days : a <= b /\ a .. b \subseteq days /\ a - 1 \notin days /\ b + 1 \notin days}
FormatDayRange(days) ==
  IF days = {0, 6} THEN {<<6, 0>>}
  ELSE {r \in Runs(days) : r[2] - r[1] >= 2} \cup {<<d, d>> : d \in UNION {r[1] .. r[2] : r \in {q \in Runs(days) : q[2] - q[1] < 2}}}
\* formatTime: the hour on a 12-hour clock.
FormatTime(h) == [hour |-> IF h = 0 THEN 12 ELSE IF h > 12 THEN h - 12 ELSE h, pm |-> h >= 12]

\* windowsToText, for one window
Summary(w) == [days |-> FormatDayRange(w.days), allDay |-> w.allDay,
               from |-> FormatTime((w.start * 24) \div S), to |-> FormatTime((w.end * 24) \div S)]

\* The editor's warning.
Active(ws) == {i \in DOMAIN ws : ws[i].days # {}}
NeverWakes(ws) ==
  /\ Active(ws) # {} /\ \A i \in Active(ws) : ws[i].allDay
  /\ UNION {ws[i].days : i \in Active(ws)} = Days

----------------------------------------------------------------------------
(* The editor. *)

Weekdays == {1, 2, 3, 4, 5}
Presets == {<<Win(Weekdays, At(17), At(9), FALSE), Win({0, 6}, 0, 0, TRUE)>>,
            <<Win(Weekdays, At(19), At(7), FALSE)>>, <<Win({0, 6}, 0, 0, TRUE)>>}
DefaultWindows == <<Win(Weekdays, At(19), At(7), FALSE)>>

Init == windows = DefaultWindows /\ exc = NoExc

UpdateWindow(i, w) == windows' = [windows EXCEPT ![i] = w] /\ UNCHANGED exc
ToggleDay(i, d) ==
  UpdateWindow(i, [windows[i] EXCEPT !.days = IF d \in @ THEN @ \ {d} ELSE @ \cup {d}])
\* The time fields are hidden while a window is all day.
SetTimes(i, from, to) == ~windows[i].allDay /\ UpdateWindow(i, [windows[i] EXCEPT !.start = from, !.end = to])
SetAllDay(i) == UpdateWindow(i, [windows[i] EXCEPT !.allDay = ~@])
AddWindow == Len(windows) < MaxWindows /\ windows' = Append(windows, Win({}, At(19), At(7), FALSE)) /\ UNCHANGED exc
RemoveWindow(i) ==
  /\ Len(windows) > 1
  /\ windows' = SubSeq(windows, 1, i - 1) \o SubSeq(windows, i + 1, Len(windows)) /\ UNCHANGED exc
ApplyPreset(p) == Len(p) <= MaxWindows /\ windows' = p /\ UNCHANGED exc
\* A scheduled exception appears on the timeline, or ends.
SetException(x, type, status) ==
  /\ exc' = [from |-> x[1], to |-> x[2], type |-> type, status |-> status] /\ UNCHANGED windows

Next ==
  \/ \E i \in DOMAIN windows :
       \/ \E d \in PickDays : ToggleDay(i, d)
       \/ \E from, to \in Slots : SetTimes(i, from, to)
       \/ SetAllDay(i) \/ RemoveWindow(i)
  \/ AddWindow
  \/ \E p \in Presets : ApplyPreset(p)
  \/ \E x \in ExcSpans, type \in {"force_sleep", "stay_awake"}, status \in {"pending", "active", "completed"} :
       SetException(x, type, status)

Spec == Init /\ [][Next]_vars

----------------------------------------------------------------------------
(* Properties. *)

TypeOK ==
  /\ Len(windows) \in 1 .. MaxWindows
  /\ \A i \in DOMAIN windows : windows[i] \in [days : SUBSET Days, start : Slots, end : Slots, allDay : BOOLEAN]

SleepCells(ws) == {<<Row(d), m>> : <<d, m>> \in {<<d2, m2>> \in Days \X Slots : Sleeping(ws, d2, m2)}}

\* The weekly timelines colour exactly the times at which the scheduler keeps workloads asleep.
TimelineExact == Cells(ComputeWindowSegments(windows)) = SleepCells(windows)

\* The sparkline of a card shows today's state as the scheduler evaluates it.
SparklineExact == \A d \in Days, m \in Slots : MiniSleeping(windows, d, m) <=> Sleeping(windows, d, m)

\* Weekly sleep time counts every sleeping slot once, however windows overlap or wrap around.
StatsExact == WeeklySleep(windows) = Cardinality(SleepCells(windows))

\* nextTransitionAt is the first later time at which the evaluated state differs.
NextTransitionExact ==
  \A d \in Days, m \in Slots :
    NextTransition(windows, d, m)
      = Least({t \in m + 1 .. m + 7 * S : SleepingAfter(windows, d, t) # Sleeping(windows, d, m)})

\* An exception adds exactly the calendar times it covers to the grid, and nothing once it is over.
ExceptionExact ==
  Cells(AllSegs(windows, exc)) = SleepCells(windows) \cup
    IF exc.status \in {"pending", "active"} THEN {<<Row((t \div S) % 7), t % S>> : t \in exc.from .. exc.to - 1} ELSE {}

\* The days and hours a summary label stands for.
DaysOf(label) == IF label[1] <= label[2] THEN label[1] .. label[2] ELSE {label[1], label[2]}
HourOf(c) == (c.hour % 12) + (IF c.pm THEN 12 ELSE 0)
\* The summary names exactly the days and hours of each window.
SummaryExact ==
  \A i \in DOMAIN windows :
    LET w == windows[i] t == Summary(w) IN
    /\ UNION {DaysOf(l) : l \in t.days} = w.days
    /\ ~t.allDay => HourOf(t.from) = (w.start * 24) \div S /\ HourOf(t.to) = (w.end * 24) \div S

\* The warning is shown only for schedules that never wake.
WarningTrue == NeverWakes(windows) => \A d \in Days, m \in Slots : Sleeping(windows, d, m)

\* Every place that shows a schedule shows the one the scheduler evaluates.
ScheduleExact ==
  /\ TypeOK /\ TimelineExact
  /\ SparklineExact /\ StatsExact /\ NextTransitionExact /\ ExceptionExact
  /\ SummaryExact /\ WarningTrue
=============================================================================
