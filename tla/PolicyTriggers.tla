---------------------------- MODULE PolicyTriggers ----------------------------
(***************************************************************************)
(* Starting a sleep or wake from the console: the card on the overview,    *)
(* which acts on the first enabled policy, the policy cards and the policy *)
(* detail page; the dialog that asks for the mode; the mutations and where *)
(* the started execution is shown.                                         *)
(*                                                                         *)
(* A dialog that has been closed stays clickable while it fades out.  The  *)
(* console reads policies from a polled list that lags behind the backend. *)
(* A component keeps its dialog and its requests when the policy it is     *)
(* about changes under it: the card of the overview when the list changes, *)
(* the detail page when the URL does.  What the dialog then confirms, and  *)
(* where a late answer leads, follows the policy of the moment.            *)
(***************************************************************************)
EXTENDS Integers, Sequences, FiniteSets, FiniteSetsExt

CONSTANTS
  Policies,       \* policy ids; the list is ordered by id
  Places,         \* of "overview", "list", "detail": the pages visited
  MaxRuns, MaxToggles, MaxMoves   \* bounds: requests, changes by other operators, pages visited

\* What the instance must satisfy.
PolicyTriggersAssumption ==
  /\ Policies \subseteq Nat \ {0} /\ Policies # {} /\ IsFiniteSet(Policies)
  /\ Places \subseteq {"overview", "list", "detail"} /\ Places # {}
  /\ {MaxRuns, MaxToggles, MaxMoves} \subseteq Nat

VARIABLES
  rows,       \* backend: id -> [enabled, state]
  runs,       \* backend: executions, [policy, dir, mode, status]
  seen,       \* the list the console has read last
  at,         \* [place, of, exec, how]: page, its policy, the execution in the URL, what put it there
  dialog,     \* [dir, menu, fading, of, moved]: of is the policy it was opened for, moved whether
              \* the policy of its component has changed since
  net,        \* requests: [n, dir, policy, mode, opened, moved, place, here, to, shifted, ans];
              \* here: its component is mounted; to: the policy of that component now or when it
              \* went; shifted: whether that has changed since the click
  live,       \* overview card: [exec, done]
  sent, toggles, moves

triggersVars == <<rows, runs, seen, at, dialog, net, live, sent, toggles, moves>>

None == "none"
NoDialog == [dir |-> None, menu |-> FALSE, fading |-> FALSE, of |-> 0, moved |-> FALSE]
NoLive == [exec |-> 0, done |-> FALSE]

TriggersInit ==
  /\ rows = [p \in Policies |-> [enabled |-> TRUE, state |-> "awake"]]
  /\ runs = <<>> /\ seen = rows
  /\ at \in {[place |-> pl, of |-> IF pl = "detail" THEN Min(Policies) ELSE 0, exec |-> 0, how |-> None] :
              pl \in Places}
  /\ dialog = NoDialog /\ net = {} /\ live = NoLive /\ sent = 0 /\ toggles = 0 /\ moves = 0

----------------------------------------------------------------------------
(* What the console offers. *)

\* policies.find(p => p.enabled), 0 when there is none.
FirstPolicy == LET on == {p \in Policies : seen[p].enabled} IN IF on = {} THEN 0 ELSE Min(on)

\* The policy of the component a dialog belongs to: what its mutation hook was given last.
Target == CASE at.place = "overview" -> FirstPolicy
            [] at.place = "detail" -> at.of
            [] OTHER -> dialog.of

\* isBusy of usePolicyTriggers in the card of policy p, on the overview or on the detail page.
Busy(p) == \E q \in net : q.here /\ (at.place = "list" => q.to = p)

\* The single button of a card does the opposite of the state; other states open a menu.
TriggerConfig(p) ==
  CASE seen[p].state = "awake" -> "sleep" [] seen[p].state = "sleeping" -> "wake" [] OTHER -> None

\* Directions of the buttons that are enabled for policy p.
Offered(p) ==
  CASE at.place = "overview" -> IF FirstPolicy = p /\ ~Busy(p) THEN {"sleep", "wake"} ELSE {}
    [] at.place = "list" -> IF Busy(p) THEN {} ELSE {TriggerConfig(p)}
    [] at.place = "detail" -> IF at.of = p /\ ~Busy(p) THEN {"sleep", "wake"} ELSE {}

----------------------------------------------------------------------------
(* The dialogs. *)

NothingOpen == dialog.dir = None /\ ~dialog.menu /\ ~dialog.fading

OpenDialog(p, dir) ==
  /\ NothingOpen /\ dir \in Offered(p) \ {None}
  /\ dialog' = [NoDialog EXCEPT !.dir = dir, !.of = p]
  /\ UNCHANGED <<rows, runs, seen, at, net, live, sent, toggles, moves>>

\* The card of a policy in an ambiguous state opens the menu first.
OpenMenu(p) ==
  /\ NothingOpen /\ None \in Offered(p)
  /\ dialog' = [NoDialog EXCEPT !.menu = TRUE, !.of = p]
  /\ UNCHANGED <<rows, runs, seen, at, net, live, sent, toggles, moves>>

PickMenu(dir) ==
  /\ dialog.menu
  /\ dialog' = [dialog EXCEPT !.menu = FALSE, !.dir = dir]
  /\ UNCHANGED <<rows, runs, seen, at, net, live, sent, toggles, moves>>

CancelDialog ==
  /\ dialog.dir # None \/ dialog.menu
  /\ dialog' = IF dialog.menu THEN NoDialog ELSE [dialog EXCEPT !.dir = None, !.fading = TRUE]
  /\ UNCHANGED <<rows, runs, seen, at, net, live, sent, toggles, moves>>

Faded ==
  /\ dialog.fading
  /\ dialog' = NoDialog
  /\ UNCHANGED <<rows, runs, seen, at, net, live, sent, toggles, moves>>

\* onClose(); onConfirm(mode): the caller tells sleep from everything else, also when a
\* second click lands on the dialog that is fading out.
Confirm(mode) ==
  /\ dialog.dir # None \/ dialog.fading
  /\ sent < MaxRuns /\ sent' = sent + 1
  /\ net' = net \cup {[n |-> sent', dir |-> IF dialog.dir = "sleep" THEN "sleep" ELSE "wake",
                       policy |-> Target, mode |-> mode, opened |-> dialog.of, moved |-> dialog.moved,
                       place |-> at.place, here |-> TRUE, to |-> Target, shifted |-> FALSE, ans |-> -1]}
  /\ dialog' = [dialog EXCEPT !.dir = None, !.fading = TRUE]
  /\ UNCHANGED <<rows, runs, seen, at, live, toggles, moves>>

----------------------------------------------------------------------------
(* The backend. *)

IsRunning(p) == \E i \in 1..Len(runs) : runs[i].policy = p /\ runs[i].status = "running"

\* triggerPolicyAction: an unknown or executing policy is refused (answer 0).
Serve(q) ==
  /\ q.ans = -1
  /\ IF q.policy \in Policies /\ ~IsRunning(q.policy)
       THEN /\ runs' = Append(runs, [policy |-> q.policy, dir |-> q.dir, mode |-> q.mode, status |-> "running"])
            /\ rows' = [rows EXCEPT ![q.policy].state = "transitioning"]
            /\ net' = (net \ {q}) \cup {[q EXCEPT !.ans = Len(runs) + 1]}
       ELSE /\ net' = (net \ {q}) \cup {[q EXCEPT !.ans = 0]}
            /\ UNCHANGED <<runs, rows>>
  /\ UNCHANGED <<seen, at, dialog, live, sent, toggles, moves>>

\* A plan changes the state like an apply; a failure leaves it unknown.
FinishRun(i) ==
  /\ runs[i].status = "running"
  /\ \E status \in {"success", "failed"} :
       /\ runs' = [runs EXCEPT ![i].status = status]
       /\ rows' = [rows EXCEPT ![runs[i].policy].state =
            CASE status = "failed" -> "unknown" [] runs[i].dir = "sleep" -> "sleeping" [] OTHER -> "awake"]
  /\ UNCHANGED <<seen, at, dialog, net, live, sent, toggles, moves>>

\* Somebody else enables or disables a policy.
Toggle(p) ==
  /\ toggles < MaxToggles /\ toggles' = toggles + 1
  /\ rows' = [rows EXCEPT ![p].enabled = ~@]
  /\ UNCHANGED <<runs, seen, at, dialog, net, live, sent, moves>>

----------------------------------------------------------------------------
(* What the answers do. *)

PollList ==
  /\ seen' = rows
  /\ dialog' = [dialog EXCEPT !.moved = @ \/ (at.place = "overview" /\ FirstPolicy' # FirstPolicy)]
  /\ UNCHANGED <<rows, runs, at, net, live, sent, toggles, moves>>

\* Another page replaces the components of this one; the detail page of another policy is
\* the same component, which keeps its dialog and its requests.
Navigate(requests, pl, p, i, how) ==
  LET stays == pl = at.place
      shifts == stays /\ p # at.of
  IN  /\ at' = [place |-> pl, of |-> p, exec |-> i, how |-> how]
      /\ dialog' = IF stays THEN [dialog EXCEPT !.moved = @ \/ shifts] ELSE NoDialog
      /\ live' = IF stays THEN live ELSE NoLive
      /\ net' = {[q EXCEPT !.here = @ /\ stays,
                           !.to = IF q.here /\ shifts THEN p ELSE @,
                           !.shifted = @ \/ (q.here /\ shifts)] : q \in requests}

\* Mutant of Answer: the answer leads to the policy of the page it finds.
AnswerToPage(q) ==
  /\ q.ans >= 0
  /\ IF q.ans > 0 /\ q.place # "overview" /\ "detail" \in Places
       THEN Navigate(net \ {q}, "detail", IF at.place = "detail" THEN at.of ELSE q.to, q.ans,
                     IF q.shifted THEN "shifted" ELSE "answer")
       ELSE /\ net' = net \ {q} /\ UNCHANGED <<at, dialog>>
            /\ live' = IF q.ans > 0 /\ q.place = "overview" /\ q.here /\ FirstPolicy = runs[q.ans].policy
                         THEN [exec |-> q.ans, done |-> FALSE] ELSE live
  /\ UNCHANGED <<rows, runs, seen, sent, toggles, moves>>

\* onSuccess: the overview looks the execution up in the list of its policy and
\* shows it; the other pages go to the execution, under the policy their component has
\* now.  A component that is gone still navigates.  An error only notifies.
Answer(q) ==
  /\ q.ans >= 0
  /\ IF q.ans > 0 /\ q.place # "overview" /\ "detail" \in Places
       THEN Navigate(net \ {q}, "detail", q.to, q.ans, IF q.shifted THEN "shifted" ELSE "answer")
       ELSE /\ net' = net \ {q} /\ UNCHANGED <<at, dialog>>
            /\ live' = IF q.ans > 0 /\ q.place = "overview" /\ q.here /\ FirstPolicy = runs[q.ans].policy
                         THEN [exec |-> q.ans, done |-> FALSE] ELSE live
  /\ UNCHANGED <<rows, runs, seen, sent, toggles, moves>>

\* The poll of the shown execution reads the list of the first policy.
LivePoll ==
  /\ at.place = "overview" /\ live.exec # 0 /\ ~live.done /\ FirstPolicy # 0
  /\ runs[live.exec].policy = FirstPolicy /\ runs[live.exec].status # "running"
  /\ live' = [live EXCEPT !.done = TRUE]
  /\ UNCHANGED <<rows, runs, seen, at, dialog, net, sent, toggles, moves>>

CloseLog ==
  /\ live.exec # 0 \/ at.exec # 0
  /\ live' = NoLive /\ at' = [at EXCEPT !.exec = 0, !.how = None]
  /\ UNCHANGED <<rows, runs, seen, dialog, net, sent, toggles, moves>>

\* A row of the execution history of the policy.
SelectExecution(i) ==
  /\ at.place = "detail" /\ runs[i].policy = at.of /\ NothingOpen
  /\ at' = [at EXCEPT !.exec = i, !.how = "row"]
  /\ UNCHANGED <<rows, runs, seen, dialog, net, live, sent, toggles, moves>>

\* The history of the browser, or a link that names any execution, leads to a detail page.
FollowLink(p, i) ==
  /\ "detail" \in Places /\ moves < MaxMoves /\ moves' = moves + 1
  /\ Navigate(net, "detail", p, i, "link")
  /\ UNCHANGED <<rows, runs, seen, sent, toggles>>

Goto(pl, p) ==
  /\ pl \in Places /\ <<pl, p>> # <<at.place, at.of>>
  /\ p \in (IF pl = "detail" THEN Policies ELSE {0})
  /\ moves < MaxMoves /\ moves' = moves + 1
  /\ Navigate(net, pl, p, 0, None)
  /\ UNCHANGED <<rows, runs, seen, sent, toggles>>

\* "The requested execution belongs to another policy": no log is opened.
Refused == at.place = "detail" /\ at.exec # 0 /\ runs[at.exec].policy # at.of

TriggersNext ==
  \/ \E p \in Policies : OpenMenu(p) \/ Toggle(p) \/ \E dir \in {"sleep", "wake"} : OpenDialog(p, dir)
  \/ \E dir \in {"sleep", "wake"} : PickMenu(dir)
  \/ \E mode \in {"plan", "apply"} : Confirm(mode)
  \/ CancelDialog \/ Faded \/ PollList \/ LivePoll \/ CloseLog
  \/ \E q \in net : Serve(q) \/ Answer(q)
  \/ \E i \in 1..Len(runs) : FinishRun(i) \/ SelectExecution(i) \/ \E p \in Policies : FollowLink(p, i)
  \/ \E pl \in Places, p \in Policies \cup {0} : Goto(pl, p)

TriggersSpec == TriggersInit /\ [][TriggersNext]_triggersVars

----------------------------------------------------------------------------
(* Properties. *)

Rows == [Policies -> [enabled : BOOLEAN, state : {"awake", "sleeping", "transitioning", "unknown"}]]
PagesShown == {"overview", "list", "detail"}
TriggersTypeOK ==
  /\ {rows, seen} \subseteq Rows
  /\ at.place \in PagesShown /\ at.of \in Policies \cup {0}
  /\ at.exec \in 0..Len(runs) /\ live.exec \in 0..Len(runs)
  /\ dialog.dir \in {None, "sleep", "wake"}
  /\ \A q \in net : q.policy \in Policies \cup {0} /\ q.ans \in -1..Len(runs)

\* A request goes to the policy its dialog was opened for, with stale lists, answers that
\* change the page and clicks on a fading dialog, unless the policy of the component changed
\* while the dialog was up: then it goes to the policy the page shows at the click.
OpenedIsStarted == \A q \in net : ~q.moved => q.policy = q.opened

\* An answer, however late and whatever page it finds, leads to a page that shows the log:
\* the page only refuses an execution when a link named it, or when the detail page that
\* asked for it had changed its policy in between.
RefusedForCause == Refused => at.how \in {"link", "shifted"}

\* The log on the overview is gone when the page is left, and is called finished only
\* when the execution is over.
LiveIsCurrent ==
  live.exec # 0 => at.place = "overview" /\ (live.done => runs[live.exec].status # "running")

\* What is started from three pages with a stale list is what the dialog was opened for, and
\* its answer leads to its own log.
RunsAreOwn == TriggersTypeOK /\ OpenedIsStarted /\ RefusedForCause /\ LiveIsCurrent

----------------------------------------------------------------------------
(* Why RunsAreOwn holds.                                                   *)

Runs == [policy : Policies, dir : {"sleep", "wake"}, mode : {"plan", "apply"},
         status : {"running", "success", "failed"}]
Requests == [n : Nat, dir : {"sleep", "wake"}, policy : Policies \cup {0}, mode : {"plan", "apply"},
             opened : Policies \cup {0}, moved : BOOLEAN, place : PagesShown, here : BOOLEAN,
             to : Policies \cup {0}, shifted : BOOLEAN, ans : Int]
Dialogs == [dir : {None, "sleep", "wake"}, menu : BOOLEAN, fading : BOOLEAN, of : Policies \cup {0},
            moved : BOOLEAN]
Locations == [place : PagesShown, of : Policies \cup {0}, exec : Nat,
              how : {None, "row", "link", "answer", "shifted"}]
TriggersShapes ==
  /\ runs \in Seq(Runs) /\ dialog \in Dialogs /\ at \in Locations
  /\ live \in [exec : Nat, done : BOOLEAN]
  /\ net \in SUBSET Requests /\ sent \in Nat

\* A dialog names the policy of its component until that changes.
DialogOnTarget == (dialog.dir # None \/ dialog.menu \/ dialog.fading) /\ ~dialog.moved => Target = dialog.of

\* A request leads to its own policy until that of its component changes, and an answer
\* names an execution of the policy that was asked for.
AnswersOwn ==
  \A q \in net : (~q.shifted => q.to = q.policy) /\ (q.ans > 0 => runs[q.ans].policy = q.policy)

\* A component that is mounted is one of the page.
RequestsHere == \A q \in net : q.here => q.place = at.place

TriggersInv ==
  TriggersTypeOK /\ TriggersShapes /\ OpenedIsStarted /\ RefusedForCause /\ LiveIsCurrent
    /\ DialogOnTarget /\ AnswersOwn /\ RequestsHere
=============================================================================
