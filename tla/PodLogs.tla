-------------------------------- MODULE PodLogs --------------------------------
(***************************************************************************)
(* The resource drawer of the cluster page down to the log viewer of a     *)
(* container: the pod list and its filter, the polled pod detail, the live *)
(* log stream with its frame-batched buffer, the fetch of the previous     *)
(* instance, and the search over the lines that are shown.                 *)
(*                                                                         *)
(* A log line is the container that wrote it, the instance and a number.   *)
(* Effects run with the event that causes them: React flushes the effects  *)
(* of a discrete event before it handles the next one.                     *)
(***************************************************************************)
EXTENDS Integers, Sequences, FiniteSets, SequencesExt, FiniteSetsExt

CONSTANTS
  Resources,      \* nodes or workloads a drawer can be opened for
  Pods,           \* pods of each of them
  Containers,     \* containers of a pod, in order
  Restarted,      \* containers with a previous instance (lastState)
  InitialTail, LoadMore, MaxLines,   \* INITIAL_TAIL, LOAD_MORE_INCREMENT, MAX_LINES
  Wanted,         \* line numbers that match the search text
  PrevLength,     \* lines of a previous instance
  Width, MinWidth, MaxWidth, Positions,   \* drawer width, its limits, pointer positions
  MaxProduced, MaxFetches, MaxFaults      \* bounds

\* What the instance must satisfy.
PodLogsAssumption ==
  /\ {InitialTail, LoadMore, MaxLines, PrevLength, Width, MinWidth, MaxWidth,
      MaxProduced, MaxFetches, MaxFaults} \subseteq Nat
  /\ Containers \in Seq(STRING) /\ Len(Containers) > 0 /\ LoadMore > 0
  /\ Wanted \subseteq Nat /\ Positions \subseteq Int

VARIABLES
  drawer,    \* DetailDrawer: [of, pod, filter, list, width, drag]
  detail,    \* PodDetailContent: [view, query]
  viewer,    \* PodLogViewer and its hook: [on, container, mode, tail, more, auto, search, cursor]
  stream,    \* the stream of the current AbortController: [pc, of, read]
  shown,     \* streamLines
  buffer,    \* lineBufRef; a frame is requested while it is not empty
  prev,      \* [lines, loading, err]
  fetches,   \* previous-log requests under way: [of, at]
  cache,     \* match cache: [hits, scanned, text]; history: moved, the lines scanned for the open
             \* search lost their first ones or gave way to those of another log
  produced,  \* lines each container has written
  asked, faults

vars == <<drawer, detail, viewer, stream, shown, buffer, prev, fetches, cache, produced, asked, faults>>

None == "none"
Names == ToSet(Containers)
Closed == [pc |-> "aborted", of |-> None, read |-> 0]
NoViewer == [on |-> FALSE, container |-> Containers[1], mode |-> "live", tail |-> InitialTail,
             more |-> TRUE, auto |-> TRUE, search |-> FALSE, cursor |-> -1]
NoPrev == [lines |-> <<>>, loading |-> FALSE, err |-> FALSE]
NoCache == [hits |-> {}, scanned |-> 0, text |-> FALSE, moved |-> FALSE]

Init ==
  /\ drawer = [of |-> None, pod |-> None, filter |-> FALSE, list |-> "loading", width |-> Width, drag |-> <<>>]
  /\ detail = [view |-> "detail", query |-> "loading"]
  /\ viewer = NoViewer /\ stream = Closed /\ shown = <<>> /\ buffer = <<>>
  /\ prev = NoPrev /\ fetches = {} /\ cache = NoCache
  /\ produced = [c \in Names |-> 1] /\ asked = 0 /\ faults = 0

----------------------------------------------------------------------------
(* The drawer. *)

\* The pods the filter lets through: in the model a filter matches one pod.
Filtered == IF drawer.filter THEN {p \in Pods : p = CHOOSE q \in Pods : TRUE} ELSE Pods

\* What the drawer of a node or workload shows.
DrawerView ==
  IF drawer.of = None THEN "closed"
  ELSE IF drawer.pod # None THEN "pod"
  ELSE CASE drawer.list = "error" -> "alert" [] drawer.list = "loading" -> "spinner"
         [] Filtered = {} -> "empty" [] OTHER -> "table"

\* The log viewer is mounted only below a pod whose detail query has no error.
Mounted == DrawerView = "pod" /\ detail.view = "logs" /\ detail.query = "ok"

\* Leaving the viewer runs the cleanup of the stream effect.
Unmount ==
  /\ viewer' = NoViewer /\ stream' = Closed /\ shown' = <<>> /\ buffer' = <<>>
  /\ prev' = NoPrev /\ cache' = NoCache /\ fetches' = {}

OpenDrawer(r) ==
  /\ DrawerView = "closed"
  /\ drawer' = [drawer EXCEPT !.of = r, !.list = "loading"]
  /\ UNCHANGED <<detail, viewer, stream, shown, buffer, prev, fetches, cache, produced, asked, faults>>

\* The pod list is polled; a failed poll shows the alert.
ListAnswer(ok) ==
  /\ drawer.of # None
  /\ ok \/ faults < MaxFaults
  /\ drawer' = [drawer EXCEPT !.list = IF ok THEN "ok" ELSE "error"]
  /\ faults' = IF ok THEN faults ELSE faults + 1
  /\ UNCHANGED <<detail, viewer, stream, shown, buffer, prev, fetches, cache, produced, asked>>

FilterPods ==
  /\ DrawerView \in {"alert", "spinner", "empty", "table"}
  /\ drawer' = [drawer EXCEPT !.filter = ~@]
  /\ UNCHANGED <<detail, viewer, stream, shown, buffer, prev, fetches, cache, produced, asked, faults>>

\* A click on a row: the row of a pod that passes the filter.
SelectPod(p) ==
  /\ DrawerView = "table" /\ p \in Filtered
  /\ drawer' = [drawer EXCEPT !.pod = p]
  /\ detail' = [view |-> "detail", query |-> "loading"]
  /\ UNCHANGED <<viewer, stream, shown, buffer, prev, fetches, cache, produced, asked, faults>>

\* handleClose; the filter is kept.
CloseDrawer ==
  /\ drawer.of # None
  /\ drawer' = [drawer EXCEPT !.of = None, !.pod = None]
  /\ Unmount /\ UNCHANGED <<detail, produced, asked, faults>>

BackToList ==
  /\ DrawerView = "pod"
  /\ drawer' = [drawer EXCEPT !.pod = None]
  /\ Unmount /\ UNCHANGED <<detail, produced, asked, faults>>

Clamp(w) == Min({Max({w, MinWidth}), MaxWidth})

\* useDrawerResize: press, move and release of the handle.
DragStart(x) ==
  /\ drawer.of # None /\ drawer.drag = <<>>
  /\ drawer' = [drawer EXCEPT !.drag = <<x, drawer.width>>]
  /\ UNCHANGED <<detail, viewer, stream, shown, buffer, prev, fetches, cache, produced, asked, faults>>

DragMove(x) ==
  /\ drawer.drag # <<>>
  /\ drawer' = [drawer EXCEPT !.width = Clamp(drawer.drag[2] + drawer.drag[1] - x)]
  /\ UNCHANGED <<detail, viewer, stream, shown, buffer, prev, fetches, cache, produced, asked, faults>>

DragEnd ==
  /\ drawer.drag # <<>> /\ drawer' = [drawer EXCEPT !.drag = <<>>]
  /\ UNCHANGED <<detail, viewer, stream, shown, buffer, prev, fetches, cache, produced, asked, faults>>

----------------------------------------------------------------------------
(* The live stream. *)

Line(c, k) == [of |-> c, inst |-> "live", n |-> k]
Tail250(c, n) == Max({0, produced[c] - n})

\* Mutant of StartStream: queued lines of the old stream stay.
StartStreamKeepsBatch(c, tail) ==
  /\ stream' = [pc |-> "open", of |-> c, read |-> Tail250(c, tail)]
  /\ shown' = <<>> /\ UNCHANGED buffer

\* startStream: the old request is aborted and its batch cancelled.
StartStream(c, tail) ==
  /\ stream' = [pc |-> "open", of |-> c, read |-> Tail250(c, tail)]
  /\ shown' = <<>> /\ buffer' = <<>>

\* Lines as the viewer has them.
Lines(mode, live, old) == IF mode = "live" THEN live ELSE old

\* Line i of a list matches the search text.
Hits(list) == {i \in DOMAIN list : list[i].n \in Wanted}

\* The memo of a render: lines behind the last scan are taken from the cache, also when `cut',
\* the list has not only grown since then.
Matched(c, list, on, cut) ==
  IF ~on THEN NoCache
  ELSE LET base == IF ~c.text \/ Len(list) < c.scanned THEN NoCache ELSE c
       IN [hits |-> base.hits \cup {i \in Hits(list) : i > base.scanned}, scanned |-> Len(list), text |-> TRUE,
           moved |-> list # <<>> /\ (c.moved \/ cut)]

Render(live, old, cut) ==
  cache' = Matched(cache, Lines(viewer'.mode, live, old), viewer'.search, cut)

\* The tab with the logs of a pod.
OpenLogs ==
  /\ DrawerView = "pod" /\ detail = [view |-> "detail", query |-> "ok"]
  /\ detail' = [detail EXCEPT !.view = "logs"]
  /\ viewer' = [NoViewer EXCEPT !.on = TRUE]
  /\ StartStream(Containers[1], InitialTail)
  /\ cache' = NoCache
  /\ UNCHANGED <<drawer, prev, fetches, produced, asked, faults>>

BackToDetail ==
  /\ Mounted
  /\ detail' = [detail EXCEPT !.view = "detail"]
  /\ Unmount /\ UNCHANGED <<drawer, produced, asked, faults>>

\* The detail query of the pod: a failed poll replaces the page, the viewer included; when it
\* recovers, the viewer starts again.
PollDetail(ok) ==
  /\ DrawerView = "pod" /\ (ok \/ faults < MaxFaults)
  /\ detail' = [detail EXCEPT !.query = IF ok THEN "ok" ELSE "error"]
  /\ faults' = IF ok THEN faults ELSE faults + 1
  /\ IF detail.view # "logs" \/ (ok /\ viewer.on) \/ (~ok /\ ~viewer.on)
     THEN UNCHANGED <<viewer, stream, shown, buffer, prev, fetches, cache>>
     ELSE IF ok THEN /\ viewer' = [NoViewer EXCEPT !.on = TRUE] /\ StartStream(Containers[1], InitialTail)
                     /\ cache' = NoCache /\ UNCHANGED <<prev, fetches>>
                ELSE Unmount
  /\ UNCHANGED <<drawer, produced, asked>>

Produce(c) ==
  /\ produced[c] < MaxProduced
  /\ produced' = [produced EXCEPT ![c] = @ + 1]
  /\ UNCHANGED <<drawer, detail, viewer, stream, shown, buffer, prev, fetches, cache, asked, faults>>

\* streamPodLogs reads the next complete line and pushes it.
ReadLine ==
  /\ stream.pc = "open" /\ stream.read < produced[stream.of]
  /\ stream' = [stream EXCEPT !.read = @ + 1]
  /\ buffer' = Append(buffer, Line(stream.of, stream.read + 1))
  /\ UNCHANGED <<drawer, detail, viewer, shown, prev, fetches, cache, produced, asked, faults>>

Trim(list) == IF Len(list) > MaxLines THEN SubSeq(list, Len(list) - MaxLines + 1, Len(list)) ELSE list

Flush == shown' = Trim(shown \o buffer)
Trims == viewer.mode = "live" /\ Len(shown \o buffer) > MaxLines

\* flushBuffer in the animation frame.
Frame ==
  /\ buffer # <<>> /\ viewer.on
  /\ Flush /\ buffer' = <<>> /\ viewer' = viewer
  /\ Render(shown', prev.lines, Trims)
  /\ UNCHANGED <<drawer, detail, stream, prev, fetches, produced, asked, faults>>

\* onDone: the rest of the batch is flushed at once.
StreamEnds ==
  /\ stream.pc = "open" /\ stream.read = produced[stream.of]
  /\ stream' = [stream EXCEPT !.pc = "done"]
  /\ Flush /\ buffer' = <<>> /\ viewer' = viewer
  /\ Render(shown', prev.lines, Trims)
  /\ UNCHANGED <<drawer, detail, prev, fetches, produced, asked, faults>>

\* onError
StreamFails ==
  /\ stream.pc = "open" /\ faults < MaxFaults
  /\ stream' = [stream EXCEPT !.pc = "error"]
  /\ faults' = faults + 1
  /\ UNCHANGED <<drawer, detail, viewer, shown, buffer, prev, fetches, cache, produced, asked>>

\* The button of the error alert in live mode: a stream with no tail.
Reconnect ==
  /\ viewer.on /\ viewer.mode = "live" /\ stream.pc = "error"
  /\ StartStream(viewer.container, 0) /\ viewer' = viewer
  /\ Render(<<>>, prev.lines, FALSE)
  /\ UNCHANGED <<drawer, detail, prev, fetches, produced, asked, faults>>

\* handleLoadMore and the effect on tailLines.
LoadOlder ==
  /\ viewer.on /\ viewer.mode = "live" /\ shown # <<>> /\ viewer.more
  /\ viewer' = [viewer EXCEPT !.tail = @ + LoadMore, !.more = viewer.tail + LoadMore < MaxLines]
  /\ StartStream(viewer.container, viewer'.tail)
  /\ Render(<<>>, prev.lines, FALSE)
  /\ UNCHANGED <<drawer, detail, prev, fetches, produced, asked, faults>>

----------------------------------------------------------------------------
(* Previous instance, container, search. *)

Fetch(c) == fetches' = fetches \cup {[of |-> c, at |-> asked]} /\ asked' = asked + 1

\* setMode('previous'): the live stream is aborted and the old log fetched.
ShowPrevious ==
  /\ viewer.on /\ viewer.mode = "live" /\ viewer.container \in Restarted /\ asked < MaxFetches
  /\ viewer' = [viewer EXCEPT !.mode = "previous"]
  /\ stream' = Closed /\ buffer' = <<>> /\ shown' = shown
  /\ Fetch(viewer.container)
  /\ prev' = [prev EXCEPT !.loading = TRUE, !.err = FALSE]
  /\ Render(shown, prev.lines, TRUE)
  /\ UNCHANGED <<drawer, detail, produced, faults>>

\* setMode('live'): the lines kept from before are rendered once, then the stream starts anew.
BackToLive ==
  /\ viewer.on /\ viewer.mode = "previous"
  /\ viewer' = [viewer EXCEPT !.mode = "live"]
  /\ StartStream(viewer.container, viewer.tail)
  /\ cache' = Matched(Matched(cache, shown, viewer.search, TRUE), <<>>, viewer.search, FALSE)
  /\ UNCHANGED <<drawer, detail, prev, fetches, produced, asked, faults>>

Old(c) == [k \in 1..PrevLength |-> [of |-> c, inst |-> "old", n |-> k + 1]]

\* fetchPrevious answers: no signal, so answers of an earlier container arrive too.
PreviousAnswer(f, ok) ==
  /\ f \in fetches /\ viewer.on /\ (ok \/ faults < MaxFaults)
  /\ fetches' = fetches \ {f}
  /\ prev' = [lines |-> IF ok THEN Old(f.of) ELSE prev.lines, loading |-> FALSE,
              err |-> IF ok THEN prev.err ELSE TRUE]
  /\ faults' = IF ok THEN faults ELSE faults + 1
  /\ viewer' = viewer
  /\ Render(shown, prev'.lines, viewer.mode = "previous" /\ ok /\ prev.lines # <<>>)
  /\ UNCHANGED <<drawer, detail, stream, shown, buffer, produced, asked>>

RetryPrevious ==
  /\ viewer.on /\ viewer.mode = "previous" /\ prev.err /\ asked < MaxFetches
  /\ Fetch(viewer.container)
  /\ prev' = [prev EXCEPT !.loading = TRUE, !.err = FALSE]
  /\ UNCHANGED <<drawer, detail, viewer, stream, shown, buffer, cache, produced, faults>>

\* Another container: the effects of the hook run for it, then the viewer clears the hook.
SelectContainer(c) ==
  /\ viewer.on /\ c # viewer.container /\ asked < MaxFetches
  /\ viewer' = [viewer EXCEPT !.container = c, !.mode = "live", !.tail = InitialTail, !.more = TRUE, !.auto = TRUE]
  /\ StartStream(c, InitialTail)
  /\ IF viewer.mode = "previous" THEN Fetch(c) ELSE UNCHANGED <<fetches, asked>>
  /\ prev' = [prev EXCEPT !.lines = <<>>, !.loading = @ \/ viewer.mode = "previous"]
  /\ Render(<<>>, <<>>, FALSE)
  /\ UNCHANGED <<drawer, detail, produced, faults>>

\* The search field; the cursor starts at the first match.
Search ==
  /\ viewer.on
  /\ LET found == Matched(NoCache, Lines(viewer.mode, shown, prev.lines), ~viewer.search, FALSE) IN
     /\ cache' = found
     /\ viewer' = [viewer EXCEPT !.search = ~@, !.cursor = IF found.hits = {} THEN -1 ELSE 0]
  /\ UNCHANGED <<drawer, detail, stream, shown, buffer, prev, fetches, produced, asked, faults>>

\* jumpToMatch: stops following the end.
Jump(step) ==
  /\ viewer.on /\ cache.hits # {}
  /\ LET n == Cardinality(cache.hits) IN
     viewer' = [viewer EXCEPT !.auto = FALSE, !.cursor = (@ + step + n) % n]
  /\ UNCHANGED <<drawer, detail, stream, shown, buffer, prev, fetches, cache, produced, asked, faults>>

ToggleScroll ==
  /\ viewer.on
  /\ viewer' = [viewer EXCEPT !.auto = ~@]
  /\ UNCHANGED <<drawer, detail, stream, shown, buffer, prev, fetches, cache, produced, asked, faults>>

Next ==
  \/ \E r \in Resources : OpenDrawer(r)
  \/ \E ok \in BOOLEAN : ListAnswer(ok) \/ PollDetail(ok)
  \/ FilterPods \/ CloseDrawer \/ BackToList \/ OpenLogs \/ BackToDetail
  \/ \E p \in Pods : SelectPod(p)
  \/ \E x \in Positions : DragStart(x) \/ DragMove(x)
  \/ DragEnd
  \/ \E c \in Names : Produce(c) \/ SelectContainer(c)
  \/ ReadLine \/ Frame \/ StreamEnds \/ StreamFails \/ Reconnect \/ LoadOlder
  \/ ShowPrevious \/ BackToLive \/ RetryPrevious \/ Search \/ ToggleScroll
  \/ \E f \in fetches, ok \in BOOLEAN : PreviousAnswer(f, ok)
  \/ \E step \in {-1, 1} : Jump(step)

\* The browser draws frames; reads of an open response continue.
Spec == Init /\ [][Next]_vars

----------------------------------------------------------------------------
(* Views. *)

\* The header chips and the body of the viewer.
ViewerView ==
  LET lines == Lines(viewer.mode, shown, prev.lines)
      streaming == viewer.mode = "live" /\ stream.pc = "open"
      loading == IF viewer.mode = "live" THEN streaming /\ shown = <<>> ELSE prev.loading
      err == IF viewer.mode = "live" THEN stream.pc = "error" ELSE prev.err
  IN [chip |-> IF loading THEN "spinner" ELSE IF streaming THEN "LIVE"
               ELSE IF viewer.mode = "live" /\ ~err THEN "ENDED" ELSE None,
      alert |-> err,
      body |-> IF lines # <<>> THEN "lines" ELSE IF loading THEN "spinner" ELSE IF err THEN None ELSE "empty",
      previous |-> viewer.mode = "live" /\ viewer.container \in Restarted,
      older |-> viewer.mode = "live" /\ lines # <<>> /\ viewer.more]

----------------------------------------------------------------------------
(* Properties. *)

TypeOK ==
  /\ drawer.of \in Resources \cup {None} /\ drawer.pod \in Pods \cup {None}
  /\ detail.view \in {"detail", "logs"} /\ detail.query \in {"loading", "ok", "error"}
  /\ stream.pc \in {"aborted", "open", "done", "error"} /\ viewer.container \in Names
  /\ Len(shown) <= MaxLines /\ Len(prev.lines) \in {0, PrevLength}
  /\ cache.scanned <= Max({MaxLines, PrevLength})

\* What is shown and queued in live mode is one gapless run of lines of the selected container,
\* in order, and ends with the last line read, whatever was replaced, aborted or reloaded.
LiveExact ==
  viewer.on /\ viewer.mode = "live" =>
    LET all == shown \o buffer IN
    \A i \in DOMAIN all : all[i] = Line(viewer.container, stream.read - Len(all) + i)

\* A stream is open only below a mounted viewer of an open drawer, for its container.
NoOrphanStream ==
  /\ viewer.on <=> Mounted
  /\ stream.pc # "aborted" => viewer.on /\ viewer.mode = "live" /\ stream.of = viewer.container

\* The chips tell the truth: LIVE or a spinner only while the stream is open, ENDED only after its
\* last line is on the screen.
ChipTruth ==
  viewer.on /\ viewer.mode = "live" =>
    /\ ViewerView.chip \in {"LIVE", "spinner"} <=> stream.pc = "open"
    /\ ViewerView.chip = "ENDED" => stream.pc = "done" /\ buffer = <<>>

\* Older lines stop being offered exactly when the requested tail fills the window.
OlderOffered == viewer.more <=> viewer.tail < MaxLines

\* The highlighted lines are the lines that match, among all that are shown, whatever was appended,
\* reloaded, reconnected or selected since the search was opened. Not so once a full window has
\* lost its first lines, or the lines of the other log took the place of those that were scanned:
\* the memo keeps the positions found before unless the list got shorter.
MatchesExact ==
  viewer.on /\ viewer.search /\ ~cache.moved =>
    cache.hits = Hits(Lines(viewer.mode, shown, prev.lines))

\* The drawer stays within its limits, and a drawer that opens shows its list, not the pod of an
\* earlier one.
DrawerFresh ==
  /\ drawer.width \in Min({MinWidth, MaxWidth})..MaxWidth
  /\ drawer.of = None => drawer.pod = None

\* The viewer shows the log of the selected container, and only while the drawer shows it.
ViewerTruthful ==
  /\ TypeOK /\ LiveExact /\ NoOrphanStream /\ ChipTruth /\ OlderOffered /\ DrawerFresh
  /\ MatchesExact
================================================================================
