-------------------------------- MODULE CallFeed --------------------------------
(***************************************************************************)
(* The live call feed of the observability dashboard: the calls the stream *)
(* hook keeps (newest first), the category filter and the search, the      *)
(* stream and grouped views with the figures of the header, the expanded   *)
(* row with its copy button, the scroll position that follows or pauses,   *)
(* and the one-second clock all relative times share.                      *)
(*                                                                         *)
(* Lengths are in rows of 28 pixels: near the bottom (less than 40 pixels) *)
(* is at most one row away. A scroll event is handled with the scroll that *)
(* causes it. The calls outlive the feed: their provider belongs to the    *)
(* layout of all observability pages.                                      *)
(***************************************************************************)
EXTENDS Integers, Sequences, FiniteSets, SequencesExt, FiniteSetsExt

CONSTANTS
  Kinds,       \* what calls look like: [cat, fn, dur, err, http]
  MaxCalls,    \* MAX_CALLS of the stream hook
  MaxRows,     \* MAX_DISPLAY_ROWS
  SkeletonRows, PanelRows,   \* SKELETON_ROW_COUNT, the height of an expanded row
  Window,      \* CALLS_PER_SEC_WINDOW_MS in seconds
  View,        \* rows the scroll box shows at once
  Anchoring,   \* may the browser keep the visible rows in place: a set of Booleans
  UserMoves,   \* what the user does: a subset of {"filter", "search", "scroll", "view", "row", "page"}
  MaxTotal, MaxNow, MaxClicks   \* bounds: calls recorded, seconds, copies under way

\* What the instance must satisfy.
CallFeedAssumption ==
  /\ {MaxCalls, MaxRows, SkeletonRows, PanelRows, Window, View, MaxTotal, MaxNow, MaxClicks} \subseteq Nat
  /\ Anchoring \subseteq BOOLEAN /\ Kinds /= {} /\ MaxCalls > 0 /\ View > 0

VARIABLES
  calls,    \* recentCalls: a sequence of [id, kind, at]
  total,    \* calls recorded so far
  ui,       \* [mounted, filter, search, expanded, mode]
  scroll,   \* [top, paused, listening]
  clock,    \* module state of the shared clock: [now, timer, running]
  copy,     \* CopyCurlButton of the open panel: [copied, timers]
  now,      \* the time
  away,     \* history: the user scrolled away from the bottom and nothing led back to it
  ticked    \* history: the feed has been mounted for a full second

vars == <<calls, total, ui, scroll, clock, copy, now, away, ticked>>

None == 0
RateLabel == 0   \* CallsPerSec among the listeners, which are otherwise call ids
Categories == {"all"} \cup {k.cat : k \in Kinds}
Terms == {"", "nothing"} \cup {k.fn : k \in Kinds}

FreshUi == [mounted |-> TRUE, filter |-> "all", search |-> "", expanded |-> None, mode |-> "stream"]
NoCopy == [copied |-> FALSE, timers |-> 0]

(***************************************************************************)
(* What is drawn                                                           *)
(***************************************************************************)

\* matchesSearch: a call matches by its path, function or component, here one name.
MatchesSearch(c, term) == c.kind.fn = term

\* useFilteredCalls.
Filtered(cs, u) ==
  SelectSeq(cs, LAMBDA c : /\ u.filter \in {"all", c.kind.cat}
                           /\ u.search = "" \/ MatchesSearch(c, u.search))

\* CallList: the last MAX_DISPLAY_ROWS filtered calls, drawn in the order of the list.
Displayed(cs, u) ==
  LET f == Filtered(cs, u) IN SubSeq(f, Max({1, Len(f) - MaxRows + 1}), Len(f))

\* CallDetailPanel: the row whose details are open, if it is drawn.
Panel(cs, u) ==
  IF u.mounted /\ u.mode = "stream" /\ \E c \in ToSet(Displayed(cs, u)) : c.id = u.expanded
  THEN u.expanded ELSE None

\* The height of the scrolled content; without any call it holds skeleton rows.
Height(cs, u) ==
  IF cs = <<>> THEN SkeletonRows
  ELSE Len(Displayed(cs, u)) + (IF Panel(cs, u) = None THEN 0 ELSE PanelRows)

Count(s, P(_)) == Len(SelectSeq(s, P))

\* useLatencyBuckets and the sparkline of the header: fast, medium, slow.
Buckets(s) ==
  <<Count(s, LAMBDA c : c.kind.dur < 50),
    Count(s, LAMBDA c : c.kind.dur >= 50 /\ c.kind.dur <= 100),
    Count(s, LAMBDA c : c.kind.dur > 100)>>

\* useGroupedCalls: one group per component and function.
Groups(s) ==
  {LET mine == SelectSeq(s, LAMBDA c : c.kind.fn = fn)
   IN [fn |-> fn, count |-> Len(mine), sum |-> FoldSeq(LAMBDA c, a : c.kind.dur + a, 0, mine),
       errors |-> Count(mine, LAMBDA c : c.kind.err)]
   : fn \in {c.kind.fn : c \in ToSet(s)}}

\* The error badge of the header counts the filtered calls that failed.
ErrorCount(s) == Count(s, LAMBDA c : c.kind.err)

\* CallRowContent and PathCell: the rows marked as failed.
ErrorRows(cs, u) == {c \in ToSet(Displayed(cs, u)) : c.kind.err}

\* TimeCell: the age a row shows.
Age(c) == Max({0, clock.now - c.at})

\* CallsPerSec: the calls of the last CALLS_PER_SEC_WINDOW_MS.
RecentCalls == Count(calls, LAMBDA c : c.at > clock.now - Window)

(***************************************************************************)
(* The shared clock                                                        *)
(***************************************************************************)

\* The components that call useNow: the rate of the header and every drawn row.
Listeners(cs, u) ==
  IF ~u.mounted THEN {}
  ELSE {RateLabel} \cup (IF u.mode = "stream" THEN {c.id : c \in ToSet(Displayed(cs, u))} ELSE {})

\* Mutant of Subscribed: the timer outlives its listeners.
SubscribedLeak(ls) ==
  IF ls = {} THEN [clock EXCEPT !.timer = FALSE]
  ELSE IF clock.timer THEN clock ELSE [clock EXCEPT !.timer = TRUE, !.running = TRUE]

\* subscribeToClock and the cleanup it returns, after the listeners became ls:
\* the first one starts the timer, the last one to leave stops it.
Subscribed(ls) ==
  IF ls = {} THEN [clock EXCEPT !.timer = FALSE, !.running = FALSE]
  ELSE IF clock.timer THEN clock ELSE [clock EXCEPT !.timer = TRUE, !.running = TRUE]

(***************************************************************************)
(* The scroll box                                                          *)
(***************************************************************************)

Bottom(h) == Max({0, h - View})
NearBottom(t, h) == h - t - View <= 1

\* The scroll box after its content became h rows high and the browser moved it by
\* shift: useAutoScroll scrolls to the end when the number of calls changed or the
\* pause ended; otherwise the position is kept as far as the content reaches, and
\* a position that changed is a scroll event for the handler, if it is attached.
Layout(h, shift, grown) ==
  LET t == Max({0, Min({scroll.top + shift, Bottom(h)})})
      p == IF scroll.listening /\ t /= scroll.top THEN ~NearBottom(t, h) ELSE scroll.paused
  IN IF (grown /\ ~scroll.paused) \/ (scroll.paused /\ ~p)
     THEN [scroll EXCEPT !.top = Bottom(h), !.paused = FALSE]
     ELSE [scroll EXCEPT !.top = t, !.paused = p]

\* A render with other calls or another state of the controls.
Render(cs, u, shift) ==
  /\ scroll' = IF u.mounted /\ u.mode = "stream"
               THEN Layout(Height(cs, u), shift, Len(cs) /= Len(calls)) ELSE scroll
  /\ clock' = Subscribed(Listeners(cs, u))
  /\ copy' = IF Panel(cs, u) = Panel(calls, ui) THEN copy ELSE NoCopy

\* useAutoScroll on a new page: listening, and scrolled to the end.
FreshScroll(h) == [top |-> Bottom(h), paused |-> FALSE, listening |-> TRUE]

Init ==
  /\ calls = <<>> /\ total = 0 /\ ui = FreshUi /\ scroll = FreshScroll(SkeletonRows)
  /\ clock = [now |-> 0, timer |-> TRUE, running |-> TRUE]
  /\ copy = NoCopy /\ now = 0 /\ away = FALSE /\ ticked = FALSE

(***************************************************************************)
(* Actions                                                                 *)
(***************************************************************************)

\* A payload with one new call: it becomes the first, the oldest falls off.
Receive(k) ==
  LET all == <<[id |-> total + 1, kind |-> k, at |-> now]>> \o calls
      cs  == SubSeq(all, 1, Min({Len(all), MaxCalls}))
      new == Len(Filtered(<<all[1]>>, ui))
  IN /\ total < MaxTotal /\ total' = total + 1 /\ calls' = cs
     /\ \E keep \in Anchoring :
          Render(cs, ui, IF keep /\ scroll.top > 0 THEN new ELSE 0)
     /\ away' = (away /\ ~NearBottom(scroll'.top, Height(cs, ui)))
     /\ UNCHANGED <<ui, now, ticked>>

\* The controls re-render the list; scrolling back is up to the user.
Control(u) ==
  /\ ui.mounted /\ ui' = u /\ Render(calls, u, 0)
  /\ away' = (away /\ ~NearBottom(scroll'.top, Height(calls, u)))
  /\ UNCHANGED <<calls, total, now, ticked>>

\* CategoryChip.
SetFilter(f) == "filter" \in UserMoves /\ Control([ui EXCEPT !.filter = f])

\* SearchInput.
SetSearch(s) == "search" \in UserMoves /\ Control([ui EXCEPT !.search = s])

\* A click on a row: toggleExpanded.
ToggleExpanded(c) ==
  /\ "row" \in UserMoves /\ ui.mode = "stream"
  /\ Control([ui EXCEPT !.expanded = IF @ = c.id THEN None ELSE c.id])

\* ViewModeToggle. The grouped view has no list; the list that comes back is a new
\* element, at its top, to which the scroll handler is not attached.
SetViewMode(m) ==
  LET u == [ui EXCEPT !.mode = m]
  IN /\ "view" \in UserMoves /\ ui.mounted /\ m /= ui.mode /\ ui' = u
     /\ scroll' = [scroll EXCEPT !.top = 0, !.listening = FALSE]
     /\ clock' = Subscribed(Listeners(calls, u)) /\ copy' = NoCopy /\ away' = FALSE
     /\ UNCHANGED <<calls, total, now, ticked>>

\* The user scrolls; handleScroll pauses the feed away from the bottom, and the
\* feed that is no longer paused is scrolled to the end.
Scroll(t) ==
  LET h == Height(calls, ui)
      p == IF scroll.listening THEN ~NearBottom(t, h) ELSE scroll.paused
  IN /\ "scroll" \in UserMoves /\ ui.mounted /\ ui.mode = "stream"
     /\ t \in 0..Bottom(h) /\ t /= scroll.top /\ away' = ~NearBottom(t, h)
     /\ scroll' = [scroll EXCEPT !.paused = p, !.top = IF scroll.paused /\ ~p THEN Bottom(h) ELSE t]
     /\ UNCHANGED <<calls, total, ui, clock, copy, now, ticked>>

\* NewCallsBanner: scrollToBottom ends the pause.
ClickBanner ==
  /\ ui.mounted /\ ui.mode = "stream" /\ scroll.paused /\ away' = FALSE
  /\ scroll' = [scroll EXCEPT !.top = Bottom(Height(calls, ui)), !.paused = FALSE]
  /\ UNCHANGED <<calls, total, ui, clock, copy, now, ticked>>

\* CopyCurlButton, offered for HTTP calls.
CopyCurl ==
  /\ \E c \in ToSet(calls) : c.id = Panel(calls, ui) /\ c.kind.http
  /\ copy.timers < MaxClicks /\ copy' = [copied |-> TRUE, timers |-> copy.timers + 1]
  /\ UNCHANGED <<calls, total, ui, scroll, clock, now, away, ticked>>

\* COPY_FEEDBACK_MS after a click.
CopyTimeout ==
  /\ copy.timers > 0 /\ copy' = [copied |-> FALSE, timers |-> copy.timers - 1]
  /\ UNCHANGED <<calls, total, ui, scroll, clock, now, away, ticked>>

\* "View Component" and the rows of the grouped view leave for a component's page.
ViewComponent ==
  LET u == [ui EXCEPT !.mounted = FALSE]
  IN /\ "page" \in UserMoves /\ ui.mounted
     /\ (ui.mode = "grouped" /\ calls /= <<>>) \/ Panel(calls, ui) /= None
     /\ ui' = u /\ Render(calls, u, 0) /\ away' = FALSE /\ ticked' = FALSE
     /\ UNCHANGED <<calls, total, now>>

\* Back on the dashboard.
Mount ==
  /\ ~ui.mounted /\ ui' = FreshUi /\ scroll' = FreshScroll(Height(calls, FreshUi))
  /\ clock' = Subscribed(Listeners(calls, FreshUi)) /\ copy' = NoCopy
  /\ UNCHANGED <<calls, total, now, away, ticked>>

\* A second passes; a running timer takes the time and notifies its listeners.
Tick ==
  /\ now < MaxNow /\ now' = now + 1 /\ ticked' = ui.mounted
  /\ clock' = IF clock.running THEN [clock EXCEPT !.now = now + 1] ELSE clock
  /\ UNCHANGED <<calls, total, ui, scroll, copy, away>>

Next ==
  \/ \E k \in Kinds : Receive(k)
  \/ \E f \in Categories \ {ui.filter} : SetFilter(f)
  \/ \E s \in Terms \ {ui.search} : SetSearch(s)
  \/ \E c \in ToSet(Displayed(calls, ui)) : ToggleExpanded(c)
  \/ \E m \in {"stream", "grouped"} : SetViewMode(m)
  \/ \E t \in 0..(MaxCalls + PanelRows + SkeletonRows) : Scroll(t)
  \/ ClickBanner \/ CopyCurl \/ CopyTimeout \/ ViewComponent \/ Mount \/ Tick

Spec == Init /\ [][Next]_vars

(***************************************************************************)
(* Properties                                                              *)
(***************************************************************************)

\* Every variable keeps its type, and the position stays inside the content.
TypeOK ==
  /\ calls \in Seq([id : 1..MaxTotal, kind : Kinds, at : 0..MaxNow]) /\ Len(calls) <= MaxCalls
  /\ total \in 0..MaxTotal /\ now \in 0..MaxNow
  /\ ui \in [mounted : BOOLEAN, filter : Categories, search : Terms, expanded : 0..MaxTotal,
             mode : {"stream", "grouped"}]
  /\ scroll.top \in Nat /\ scroll.paused \in BOOLEAN /\ scroll.listening \in BOOLEAN
  /\ clock \in [now : 0..MaxNow, timer : BOOLEAN, running : BOOLEAN]
  /\ copy \in [copied : BOOLEAN, timers : 0..MaxClicks] /\ away \in BOOLEAN /\ ticked \in BOOLEAN
  /\ ui.mounted /\ ui.mode = "stream" => scroll.top <= Bottom(Height(calls, ui))

\* The header, the rows and the groups tell the same story: the bars of the latency
\* sparkline, the counts of the groups and the errors of either sum to what is shown.
TotalsAgree ==
  LET f == Filtered(calls, ui) g == Groups(f)
  IN /\ Buckets(f)[1] + Buckets(f)[2] + Buckets(f)[3] = Len(f)
     /\ FoldSet(LAMBDA x, a : x.count + a, 0, g) = Len(f)
     /\ FoldSet(LAMBDA x, a : x.errors + a, 0, g) = ErrorCount(f)
     /\ Len(f) <= MaxRows => Cardinality(ErrorRows(calls, ui)) = ErrorCount(f)

\* The module-wide timer runs exactly while something listens to it, through any
\* sequence of filters, views and pages.
ClockRunsIffWatched == clock.running <=> Listeners(calls, ui) /= {}

\* Once the feed has been on screen for a second, the ages and the rate it shows are
\* right: the clock that stopped with the last visit runs again.
TimesRight ==
  ticked /\ ui.mounted =>
    /\ \A c \in ToSet(Displayed(calls, ui)) : Age(c) = now - c.at
    /\ RecentCalls = Count(calls, LAMBDA c : c.at > now - Window)

\* A reader who scrolled away from the end is not followed: while the handler is attached, the
\* feed stays paused through calls, filters, searches and opened rows.
ReaderPaused ==
  ui.mounted /\ ui.mode = "stream" /\ away /\ scroll.listening => scroll.paused

\* "Copied!" is shown only while a timer that takes it away is pending.
CopiedEnds == copy.copied => copy.timers > 0

\* Figures, clock, copy button and scroll position of the feed are right after any sequence of calls,
\* filters, views, visits and seconds.
FeedTruthful ==
  TypeOK /\ TotalsAgree /\ ClockRunsIffWatched /\ TimesRight /\ ReaderPaused /\ CopiedEnds
=================================================================================
