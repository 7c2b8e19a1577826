------------------------------ MODULE ClusterTables ------------------------------
(***************************************************************************)
(* The cluster page: the tabs and the status filter that follow the URL,   *)
(* the workloads table with its four filters, sorting, paging and "Clear   *)
(* filters", the nodes table with its search, zone groups and selection,   *)
(* and the polled queries both tables draw.                                *)
(*                                                                         *)
(* Workloads and nodes are numbers, in the order of their names. A value   *)
(* of the URL is the status and the tab of its query string.               *)
(***************************************************************************)
EXTENDS Integers, Sequences, FiniteSets, SequencesExt, FiniteSetsExt

CONSTANTS
  Ids,          \* workloads and nodes, numbered
  NsOf, ZoneOf, \* namespace of a workload, zone of a node
  PodsOn,       \* pods of a node
  Hits,         \* names that match the search text
  Protected,    \* protected namespaces
  Sizes,        \* rowsPerPageOptions, the first is the default
  Links,        \* URLs of the links to this page: [status, tab]
  Churn,        \* may the cluster gain and lose objects
  GuardKnown,   \* are the guardrails already cached: a set of Booleans
  UserMoves,    \* what the user does
  MaxPolls, MaxFaults   \* bounds

\* What the instance must satisfy.
TablesAssumption ==
  /\ Ids \subseteq Nat /\ IsFiniteSet(Ids) /\ NsOf \in [Ids -> STRING] /\ ZoneOf \in [Ids -> STRING]
  /\ PodsOn \in [Ids -> Nat] /\ Hits \subseteq Ids
  /\ Sizes \in Seq(Nat \ {0}) /\ Sizes /= <<>> /\ Churn \in BOOLEAN /\ GuardKnown \subseteq BOOLEAN
  /\ {MaxPolls, MaxFaults} \subseteq Nat

VARIABLES
  cluster,   \* [workloads : id -> status, nodes : set of ids]
  query,     \* cached answers: [workloads, nodes, err, guard]
  url,       \* searchParams: [status, tab]
  tab,       \* the selected tab
  w,         \* WorkloadsTable: [search, ns, status, protection, page, size, sort]
  n,         \* NodesTable: [search, grouped, page, size, sort, selected]
  past,      \* history: [picked, fewer]: the user picked the status in this very table; an answer
             \* left fewer rows in it since its page was chosen or reset
  polls, faults

vars == <<cluster, query, url, tab, w, n, past, polls, faults>>

Statuses == {"running", "sleeping", "partial"}
NoSort == [col |-> "none", dir |-> "asc"]

\* The status filter of a table that is mounted or told of a new URL.
StatusOf(u) == IF u.status \in Statuses THEN u.status ELSE "all"

FreshW(u) == [search |-> FALSE, ns |-> "all", status |-> StatusOf(u), protection |-> "all",
              page |-> 0, size |-> Sizes[1], sort |-> NoSort]
FreshN == [search |-> FALSE, grouped |-> FALSE, page |-> 0, size |-> Sizes[1], sort |-> NoSort,
           selected |-> {}]

Init ==
  /\ cluster = [workloads |-> [i \in Ids |-> "running"], nodes |-> Ids]
  /\ query \in [workloads : {<<>>}, nodes : {{}}, ok : {FALSE}, err : {FALSE}, guard : GuardKnown]
  /\ url \in Links /\ tab = url.tab /\ w = FreshW(url) /\ n = FreshN
  /\ past = [picked |-> FALSE, fewer |-> FALSE] /\ polls = 0 /\ faults = 0

(***************************************************************************)
(* What is drawn                                                           *)
(***************************************************************************)

\* protectedNamespaces: empty while the guardrails are not known.
KnownProtected == IF query.guard THEN Protected ELSE {}

Kept(t, protected) ==
  {i \in DOMAIN query.workloads :
     /\ t.ns \in {"all", NsOf[i]} /\ t.status \in {"all", query.workloads[i]}
     /\ t.protection = "protected" => NsOf[i] \in protected
     /\ t.protection = "unprotected" => NsOf[i] \notin protected
     /\ t.search => i \in Hits}

\* filtered, of the workloads and of the nodes.
Filtered(t) == Kept(t, KnownProtected)
FilteredNodes(t) == {i \in query.nodes : t.search => i \in Hits}

\* useTriStateSort.handleSort: ascending, descending, unsorted.
TriState(s, col) ==
  IF s.col /= col THEN [col |-> col, dir |-> "asc"]
  ELSE IF s.dir = "asc" THEN [s EXCEPT !.dir = "desc"] ELSE NoSort

\* sorted: equal keys keep the order of the answer.
Sorted(S, s, key) ==
  SetToSortSeq(S, LAMBDA a, b :
    \/ s.dir = "asc" /\ key[a] < key[b]
    \/ s.dir = "desc" /\ key[a] > key[b]
    \/ key[a] = key[b] /\ a < b)

StatusRank(i) == CHOOSE k \in 1..3 : <<"partial", "running", "sleeping">>[k] = query.workloads[i]
Rank(s, i) == IF s.col = "status" THEN StatusRank(i) ELSE IF s.col = "name" THEN i ELSE 0
NodeRank(s, i) == IF s.col = "pods" THEN PodsOn[i] ELSE IF s.col = "name" THEN i ELSE 0

\* paginatedRows.
Slice(rows, page, size) == SubSeq(rows, page * size + 1, Min({Len(rows), (page + 1) * size}))

\* The body of the workloads table.
WorkloadRows ==
  LET key == [i \in Filtered(w) |-> Rank(w.sort, i)] IN Slice(Sorted(Filtered(w), w.sort, key), w.page, w.size)

\* The rows of the nodes table: a page of it, or all groups.
NodeRows ==
  LET key  == [i \in FilteredNodes(n) |-> NodeRank(n.sort, i)]
      rows == Sorted(FilteredNodes(n), n.sort, key)
  IN IF n.grouped THEN rows ELSE Slice(rows, n.page, n.size)

\* The rows of the shown table that an answer leaves, fewer than before or not.
Rows == IF tab = 0 THEN Cardinality(Filtered(w)) ELSE Cardinality(FilteredNodes(n))
Answered == past' = [past EXCEPT !.fewer = @ \/ Rows' < Rows]

\* hasActiveFilters offers "Clear filters".
ActiveFilters == w.search \/ w.ns /= "all" \/ w.status /= "all" \/ w.protection /= "all"

(***************************************************************************)
(* Actions                                                                 *)
(***************************************************************************)

\* A workload changes its status; under Churn objects come and go.
ClusterChanges ==
  /\ polls < MaxPolls
  /\ \/ \E i \in DOMAIN cluster.workloads, s \in Statuses :
          s /= cluster.workloads[i] /\ cluster' = [cluster EXCEPT !.workloads[i] = s]
     \/ Churn /\ \E S \in SUBSET Ids :
          /\ S /= cluster.nodes
          /\ cluster' = [workloads |-> [i \in S |-> "running"], nodes |-> S]
  /\ UNCHANGED <<query, url, tab, w, n, past, polls, faults>>

\* refetchInterval: both lists are answered.
Poll ==
  /\ polls < MaxPolls /\ polls' = polls + 1
  /\ query' = [query EXCEPT !.workloads = cluster.workloads, !.nodes = cluster.nodes,
                            !.ok = TRUE, !.err = FALSE]
  /\ UNCHANGED <<cluster, url, tab, w, n, faults>>
  /\ Answered

\* A poll fails: the table is replaced by the error.
PollFails ==
  /\ faults < MaxFaults /\ faults' = faults + 1 /\ query' = [query EXCEPT !.err = TRUE]
  /\ UNCHANGED <<cluster, url, tab, w, n, past, polls>>

\* The guardrails are answered.
GuardAnswer ==
  /\ ~query.guard /\ query' = [query EXCEPT !.guard = TRUE]
  /\ UNCHANGED <<cluster, url, tab, w, n, polls, faults>>
  /\ Answered

\* Mutant of SetFilter: the page is kept.
SetFilterKeep(t) ==
  /\ "filter" \in UserMoves /\ tab = 0 /\ t /= w /\ w' = t
  /\ past' = [picked |-> past.picked \/ t.status /= w.status, fewer |-> FALSE]
  /\ UNCHANGED <<cluster, query, url, tab, n, polls, faults>>

\* One of the four filters of the workloads table; the page is reset.
SetFilter(t) ==
  /\ "filter" \in UserMoves /\ tab = 0 /\ t /= w /\ w' = [t EXCEPT !.page = 0]
  /\ past' = [picked |-> past.picked \/ t.status /= w.status, fewer |-> FALSE]
  /\ UNCHANGED <<cluster, query, url, tab, n, polls, faults>>

\* clearFilters: all four, the page, and the status of the URL; the URL that changed
\* sets the tab and the status again.
ClearFilters ==
  LET u == [url EXCEPT !.status = "all"]
  IN /\ "filter" \in UserMoves /\ tab = 0 /\ ActiveFilters /\ url' = u
     /\ past' = [picked |-> FALSE, fewer |-> FALSE]
     /\ w' = [w EXCEPT !.search = FALSE, !.ns = "all", !.status = "all", !.protection = "all", !.page = 0]
     /\ tab' = IF u = url THEN tab ELSE u.tab
     /\ UNCHANGED <<cluster, query, n, polls, faults>>

\* The headers, the pagination and the rows of either table.
SortWorkloads(col) ==
  /\ "sort" \in UserMoves /\ tab = 0 /\ query.ok /\ w' = [w EXCEPT !.sort = TriState(@, col)]
  /\ UNCHANGED <<cluster, query, url, tab, n, past, polls, faults>>

SortNodes(col) ==
  /\ "sort" \in UserMoves /\ tab = 1 /\ query.ok /\ n' = [n EXCEPT !.sort = TriState(@, col)]
  /\ UNCHANGED <<cluster, query, url, tab, w, past, polls, faults>>

\* TablePagination offers the pages of the filtered rows.
TurnPage(p) ==
  /\ "page" \in UserMoves /\ query.ok /\ ~query.err
  /\ \/ /\ tab = 0 /\ p * w.size < Cardinality(Filtered(w)) /\ w' = [w EXCEPT !.page = p] /\ UNCHANGED n
     \/ /\ tab = 1 /\ p * n.size < Cardinality(FilteredNodes(n)) /\ n' = [n EXCEPT !.page = p] /\ UNCHANGED w
  /\ past' = [past EXCEPT !.fewer = FALSE]
  /\ UNCHANGED <<cluster, query, url, tab, polls, faults>>

\* onRowsPerPageChange.
SetSize(k) ==
  /\ "page" \in UserMoves /\ query.ok
  /\ \/ tab = 0 /\ w' = [w EXCEPT !.size = k, !.page = 0] /\ UNCHANGED n
     \/ tab = 1 /\ n' = [n EXCEPT !.size = k, !.page = 0] /\ UNCHANGED w
  /\ past' = [past EXCEPT !.fewer = FALSE]
  /\ UNCHANGED <<cluster, query, url, tab, polls, faults>>

\* The toolbar of the nodes table.
SearchNodes ==
  /\ "filter" \in UserMoves /\ tab = 1 /\ n' = [n EXCEPT !.search = ~@, !.page = 0]
  /\ past' = [past EXCEPT !.fewer = FALSE]
  /\ UNCHANGED <<cluster, query, url, tab, w, polls, faults>>

GroupByZone ==
  /\ "group" \in UserMoves /\ tab = 1 /\ n' = [n EXCEPT !.grouped = ~@]
  /\ UNCHANGED <<cluster, query, url, tab, w, past, polls, faults>>

\* A row of the nodes table toggles the drawer of its node.
SelectNode(i) ==
  /\ "group" \in UserMoves /\ tab = 1 /\ query.ok /\ i \in ToSet(NodeRows)
  /\ n' = [n EXCEPT !.selected = IF @ = {i} THEN {} ELSE {i}]
  /\ UNCHANGED <<cluster, query, url, tab, w, past, polls, faults>>

\* A click on a tab: the table that comes is a new one and reads the URL, the other one is gone.
SelectTab(k) ==
  /\ "tab" \in UserMoves /\ k /= tab /\ tab' = k /\ w' = FreshW(url) /\ n' = FreshN
  /\ past' = [picked |-> FALSE, fewer |-> FALSE]
  /\ UNCHANGED <<cluster, query, url, polls, faults>>

\* A link to this page: a URL that differs sets the tab and the status; the table of
\* another tab is new.
Navigate(u) ==
  /\ "link" \in UserMoves /\ u /= url /\ url' = u /\ tab' = u.tab
  /\ past' = [picked |-> FALSE, fewer |-> past.fewer /\ u.tab = tab]
  /\ w' = IF u.tab = 0 /\ tab = 0
          THEN [w EXCEPT !.status = StatusOf(u), !.page = IF StatusOf(u) = w.status THEN @ ELSE 0]
          ELSE FreshW(u)
  /\ n' = IF u.tab = 1 /\ tab = 1 THEN n ELSE FreshN
  /\ UNCHANGED <<cluster, query, polls, faults>>

Filters(t) ==
  {[t EXCEPT !.search = ~@]} \cup {[t EXCEPT !.ns = x] : x \in {"all"} \cup {NsOf[i] : i \in DOMAIN query.workloads}}
  \cup {[t EXCEPT !.status = x] : x \in {"all"} \cup Statuses}
  \cup {[t EXCEPT !.protection = x] : x \in {"all", "protected", "unprotected"}}

Next ==
  \/ ClusterChanges \/ Poll \/ PollFails \/ GuardAnswer \/ ClearFilters
  \/ \E t \in Filters(w) : SetFilter(t)
  \/ \E col \in {"name", "status"} : SortWorkloads(col)
  \/ \E col \in {"name", "pods"} : SortNodes(col)
  \/ \E p \in 0..Cardinality(Ids) : TurnPage(p)
  \/ \E k \in ToSet(Sizes) : SetSize(k)
  \/ SearchNodes \/ GroupByZone
  \/ \E i \in Ids : SelectNode(i)
  \/ \E k \in {0, 1} : SelectTab(k)
  \/ \E u \in Links : Navigate(u)

Spec == Init /\ [][Next]_vars

(***************************************************************************)
(* Properties                                                              *)
(***************************************************************************)

\* Every variable keeps its type.
TypeOK ==
  /\ DOMAIN cluster.workloads \subseteq Ids /\ cluster.nodes \subseteq Ids
  /\ DOMAIN query.workloads \subseteq Ids /\ query.nodes \subseteq Ids
  /\ {query.ok, query.err, query.guard} \subseteq BOOLEAN
  /\ tab \in {0, 1} /\ url.status \in STRING /\ url.tab \in {0, 1}
  /\ w.page \in Nat /\ w.size \in ToSet(Sizes) /\ w.status \in {"all"} \cup Statuses
  /\ n.page \in Nat /\ n.size \in ToSet(Sizes) /\ Cardinality(n.selected) <= 1
  /\ polls \in 0..MaxPolls /\ faults \in 0..MaxFaults

\* A table that has rows shows some: whatever was filtered, searched, linked, sorted or cleared,
\* the page is one of the pages of what is left. Not so once an answer has left fewer rows than
\* there were when the page was chosen: only a filter resets the page.
RowsInView ==
  query.ok /\ ~past.fewer =>
    /\ tab = 0 /\ Filtered(w) /= {} => WorkloadRows /= <<>>
    /\ tab = 1 /\ FilteredNodes(n) /= {} => NodeRows /= <<>>

\* The status filter is the one of the address unless the user picked another in this very table:
\* no tab, poll or visit to the other table changes it, and what "Clear filters" cleared does not
\* come back from the address.
StatusFromUrl == tab = 0 /\ ~past.picked => w.status = StatusOf(url)

\* The tables show what was asked for: a page that exists, and the filters of the address or of
\* the user.
TablesTruthful == TypeOK /\ StatusFromUrl /\ RowsInView
=================================================================================
