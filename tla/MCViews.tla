------------------------------ MODULE MCViews ------------------------------
(***************************************************************************)
(* The console's read-only views, for TLC: the cluster cache with the      *)
(* overview it serves (ClusterOverview), the observability dashboard       *)
(* (MetricsStream), the feed of API calls (CallFeed), the drawer and log   *)
(* viewer of a pod (PodLogs), the tables of workloads and nodes            *)
(* (ClusterTables) and the weekly schedule (SleepWindows).                 *)
(*                                                                         *)
(* The components do not share state; `part' chooses the instance that     *)
(* runs, so that the state space is the union of theirs, not the product.  *)
(* ClusterOverview is extended, its constants are in views.cfg: two        *)
(* rebuilds, a stream and a request at once; two other instances, with one *)
(* rebuild at a time, share its variables.                                 *)
(***************************************************************************)
EXTENDS ClusterOverview

VARIABLES
  part,
  now, server, conn, hook, query, request, range, faults,
  calls, total, ui, scroll, clock, copy, feedNow, away, ticked,
  drawer, detail, viewer, stream, lineLog, buffer, prev, fetches, cache, produced, asked, podFaults,
  listing, tQuery, url, tab, w, n, past, polls, tFaults,
  windows, exc

metrics  == <<now, server, conn, hook, query, request, range, faults>>
feed     == <<calls, total, ui, scroll, clock, copy, feedNow, away, ticked>>
pods     == <<drawer, detail, viewer, stream, lineLog, buffer, prev, fetches, cache, produced, asked,
              podFaults>>
tables   == <<listing, tQuery, url, tab, w, n, past, polls, tFaults>>
schedule == <<windows, exc>>
suite    == <<part, vars, metrics, feed, pods, tables, schedule>>

----------------------------------------------------------------------------
(* The overview. *)

\* Policies saved while overviews are built and remembered.
Policies == INSTANCE ClusterOverview WITH
  Builders <- {1}, MaxChanges <- 0, MaxSaved <- 1, MaxPolicies <- 1

\* A cluster with an event in every second and a lost connection.
BusyCluster == INSTANCE ClusterOverview WITH
  Builders <- {1}, Busy <- TRUE, MaxDrops <- 1

----------------------------------------------------------------------------
(* The dashboard. *)

\* Every status, a restart and one fault; one range.
Samples == INSTANCE MetricsStream WITH
  Readings <- {<<0, 2>>, <<1, 0>>, <<2, 1>>}, Minute <- 60, WarnVal <- 1, CritVal <- 2, Ranges <- {3}, NewCalls <- {0},
  HistorySize <- 2, MaxCalls <- 2, MaxEvents <- 2, EventTTL <- 2, OverlayMin <- 1,
  BaseDelay <- 1, MaxDelay <- 2, Skew <- 0, MaxTime <- 3, MaxFaults <- 1, MaxRestarts <- 1

\* More calls per tick than the feed holds, two ranges, more samples than the history holds.
Recorded == INSTANCE MetricsStream WITH
  Readings <- {<<0, 0>>}, Minute <- 60, WarnVal <- 1, CritVal <- 2, Ranges <- {1, 3}, NewCalls <- {3},
  HistorySize <- 2, MaxCalls <- 2, MaxEvents <- 2, EventTTL <- 2, OverlayMin <- 1,
  BaseDelay <- 1, MaxDelay <- 2, Skew <- 0, MaxTime <- 3, MaxFaults <- 1, MaxRestarts <- 0

----------------------------------------------------------------------------
(* The call feed. *)

CallKinds == {[cat |-> "http", fn |-> "list", dur |-> 50, err |-> FALSE, http |-> TRUE],
              [cat |-> "http", fn |-> "drop", dur |-> 101, err |-> TRUE, http |-> TRUE],
              [cat |-> "k8s", fn |-> "watch", dur |-> 0, err |-> FALSE, http |-> FALSE]}

\* Three kinds of calls, filtered, searched and grouped, in a view of two rows.
Figures == INSTANCE CallFeed WITH
  now <- feedNow, Kinds <- CallKinds, MaxCalls <- 3, MaxRows <- 4, SkeletonRows <- 3,
  PanelRows <- 2, View <- 2, Window <- 2, Anchoring <- BOOLEAN,
  UserMoves <- {"filter", "search", "view", "scroll"}, MaxTotal <- 4, MaxNow <- 1, MaxClicks <- 1

\* Rows opened and left, the page left and entered again, while seconds pass.
Pages == INSTANCE CallFeed WITH
  now <- feedNow, Kinds <- {k \in CallKinds : k.fn # "drop"}, MaxCalls <- 2, MaxRows <- 4,
  SkeletonRows <- 3, PanelRows <- 2, View <- 2, Window <- 2, Anchoring <- BOOLEAN,
  UserMoves <- {"filter", "row", "view", "page"}, MaxTotal <- 3, MaxNow <- 2, MaxClicks <- 2

----------------------------------------------------------------------------
(* Pods. *)

\* One pod with two containers, one of them restarted.
OnePod == INSTANCE PodLogs WITH
  faults <- podFaults, shown <- lineLog,
  Resources <- {"node"}, Pods <- {"a"}, Containers <- <<"app", "side">>,
  Restarted <- {"app"}, InitialTail <- 1, LoadMore <- 1, MaxLines <- 2, Wanted <- {2, 4},
  PrevLength <- 2, Width <- 5, MinWidth <- 3, MaxWidth <- 8, Positions <- {}, MaxProduced <- 3,
  MaxFetches <- 1, MaxFaults <- 1

\* Two pods, search, and a drawer that is resized, closed and opened again.
Drawer == INSTANCE PodLogs WITH
  faults <- podFaults, shown <- lineLog,
  Resources <- {"node"}, Pods <- {"a", "b"}, Containers <- <<"app">>,
  Restarted <- {}, InitialTail <- 1, LoadMore <- 1, MaxLines <- 3, Wanted <- {2, 4},
  PrevLength <- 2, Width <- 5, MinWidth <- 3, MaxWidth <- 8, Positions <- {0, 9}, MaxProduced <- 2,
  MaxFetches <- 0, MaxFaults <- 1

----------------------------------------------------------------------------
(* Tables: three workloads or nodes in two namespaces and zones. *)

Ids   == 1..3
Ns    == [i \in Ids |-> IF i = 1 THEN "kube-system" ELSE "shop"]
Zone  == [i \in Ids |-> IF i = 3 THEN "b" ELSE "a"]
Pods  == [i \in Ids |-> 5 - i]
Links == {[status |-> "all", tab |-> 0], [status |-> "sleeping", tab |-> 0],
          [status |-> "stopped", tab |-> 0], [status |-> "all", tab |-> 1]}

\* Pages and filters of two workloads, polled again after a status changed.
Paging == INSTANCE ClusterTables WITH
  cluster <- listing, query <- tQuery, faults <- tFaults,
  Ids <- {1, 2}, NsOf <- [i \in {1, 2} |-> Ns[i]],
  ZoneOf <- [i \in {1, 2} |-> Zone[i]], PodsOn <- [i \in {1, 2} |-> Pods[i]], Hits <- {2}, Protected <- {"kube-system"}, Sizes <- <<1, 2>>,
  Links <- {[status |-> "sleeping", tab |-> 0]},
  Churn <- FALSE, GuardKnown <- {FALSE}, UserMoves <- {"filter", "page"}, MaxPolls <- 2, MaxFaults <- 1

\* Links, tabs and filters while the cluster changes.
Visits == INSTANCE ClusterTables WITH
  cluster <- listing, query <- tQuery, faults <- tFaults,
  Ids <- {1, 2}, NsOf <- [i \in {1, 2} |-> Ns[i]],
  ZoneOf <- [i \in {1, 2} |-> Zone[i]], PodsOn <- [i \in {1, 2} |-> Pods[i]], Hits <- {2},
  Protected <- {"kube-system"}, Sizes <- <<1, 2>>, Links <- Links, Churn <- TRUE,
  GuardKnown <- {FALSE}, UserMoves <- {"filter", "tab", "link"}, MaxPolls <- 1, MaxFaults <- 0

\* The table of nodes: sorted, paged, searched, grouped, selected.
NodeTable == INSTANCE ClusterTables WITH
  cluster <- listing, query <- tQuery, faults <- tFaults,
  Ids <- Ids, NsOf <- Ns, ZoneOf <- Zone, PodsOn <- Pods,
  Hits <- {2, 3}, Protected <- {"kube-system"}, Sizes <- <<1, 2>>,
  Links <- {[status |-> "all", tab |-> 1]}, Churn <- FALSE, GuardKnown <- {FALSE},
  UserMoves <- {"sort", "group", "tab", "page", "filter"}, MaxPolls <- 1, MaxFaults <- 0

----------------------------------------------------------------------------
(* The weekly schedule. *)

\* Two windows that overlap, touch or wrap around the week.
Pairs == INSTANCE SleepWindows WITH
  S <- 3, PickDays <- {6, 0}, MaxWindows <- 2, ExcSpans <- {}

\* One window over any days, and exceptions from within a day to more than a week.
Week == INSTANCE SleepWindows WITH
  S <- 3, PickDays <- 0..6, MaxWindows <- 1, ExcSpans <- {}

Spans == {<<f, f + k>> : f \in {0, 3}, k \in {1, 4, 6, 29}}
Exceptions == INSTANCE SleepWindows WITH
  S <- 4, PickDays <- {}, MaxWindows <- 1, ExcSpans <- Spans

----------------------------------------------------------------------------
ASSUME OverviewAssumption /\ Policies!OverviewAssumption /\ BusyCluster!OverviewAssumption
ASSUME Samples!MetricsAssumption /\ Recorded!MetricsAssumption
ASSUME Figures!CallFeedAssumption /\ Pages!CallFeedAssumption
ASSUME OnePod!PodLogsAssumption /\ Drawer!PodLogsAssumption
ASSUME Paging!TablesAssumption /\ Visits!TablesAssumption /\ NodeTable!TablesAssumption
ASSUME Pairs!SleepWindowsAssumption /\ Week!SleepWindowsAssumption /\ Exceptions!SleepWindowsAssumption

SuiteInit ==
  /\ part \in {"stream", "policies", "busy", "samples", "recorded", "figures", "pages", "containers",
               "drawer", "paging", "visits", "nodes", "pairs", "week", "exceptions"}
  /\ Init
  /\ IF part = "recorded" THEN Recorded!Init ELSE Samples!Init
  /\ Figures!Init
  /\ IF part = "containers" THEN OnePod!Init ELSE Drawer!Init
  /\ CASE part = "visits" -> Visits!Init
       [] part = "nodes"  -> NodeTable!Init
       [] OTHER           -> Paging!Init
  /\ IF part = "pairs" THEN Pairs!Init ELSE Week!Init

SuiteNext ==
  \/ part = "stream" /\ Next /\ UNCHANGED <<part, metrics, feed, pods, tables, schedule>>
  \/ part = "policies" /\ Policies!Next /\ UNCHANGED <<part, metrics, feed, pods, tables, schedule>>
  \/ part = "busy" /\ BusyCluster!Next /\ UNCHANGED <<part, metrics, feed, pods, tables, schedule>>
  \/ part = "samples" /\ Samples!Next /\ UNCHANGED <<part, vars, feed, pods, tables, schedule>>
  \/ part = "recorded" /\ Recorded!Next /\ UNCHANGED <<part, vars, feed, pods, tables, schedule>>
  \/ part = "figures" /\ Figures!Next /\ UNCHANGED <<part, vars, metrics, pods, tables, schedule>>
  \/ part = "pages" /\ Pages!Next /\ UNCHANGED <<part, vars, metrics, pods, tables, schedule>>
  \/ part = "containers" /\ OnePod!Next /\ UNCHANGED <<part, vars, metrics, feed, tables, schedule>>
  \/ part = "drawer" /\ Drawer!Next /\ UNCHANGED <<part, vars, metrics, feed, tables, schedule>>
  \/ part = "paging" /\ Paging!Next /\ UNCHANGED <<part, vars, metrics, feed, pods, schedule>>
  \/ part = "visits" /\ Visits!Next /\ UNCHANGED <<part, vars, metrics, feed, pods, schedule>>
  \/ part = "nodes" /\ NodeTable!Next /\ UNCHANGED <<part, vars, metrics, feed, pods, schedule>>
  \/ part = "pairs" /\ Pairs!Next /\ UNCHANGED <<part, vars, metrics, feed, pods, tables>>
  \/ part = "week" /\ Week!Next /\ UNCHANGED <<part, vars, metrics, feed, pods, tables>>
  \/ part = "exceptions" /\ Exceptions!Next /\ UNCHANGED <<part, vars, metrics, feed, pods, tables>>

SuiteSpec == SuiteInit /\ [][SuiteNext]_suite

----------------------------------------------------------------------------
(* Properties. *)

\* The dashboard shows what was collected: the newest sample is on the chart, header and panels
\* agree, a dead stream is marked and the feed begins with the last payload (MetricsStream).
DashboardTruthful ==
  /\ part = "samples" => Samples!DashboardTruthful
  /\ part = "recorded" => Recorded!DashboardTruthful

\* The call feed counts, times and scrolls what it received, and its shared clock runs exactly
\* while something watches it (CallFeed).
FeedTruthful ==
  /\ part = "figures" => Figures!FeedTruthful
  /\ part = "pages" => Pages!FeedTruthful

\* The viewer of a pod shows the lines of the container it names, and no stream outlives it (PodLogs).
ViewerTruthful ==
  /\ part = "containers" => OnePod!ViewerTruthful
  /\ part = "drawer" => Drawer!ViewerTruthful

\* A table that has rows shows rows, whatever was filtered, sorted, linked or polled before
\* (ClusterTables).
TablesTruthful ==
  /\ part = "paging" => Paging!TablesTruthful
  /\ part = "visits" => Visits!TablesTruthful
  /\ part = "nodes" => NodeTable!TablesTruthful

\* Timeline, sparkline, statistics, summary and warnings say of a schedule what the scheduler
\* will do with it (SleepWindows).
ScheduleExact ==
  /\ part = "pairs" => Pairs!ScheduleExact
  /\ part = "week" => Week!ScheduleExact
  /\ part = "exceptions" => Exceptions!ScheduleExact
=============================================================================
