---------------------------- MODULE Executions_proofs ----------------------------
(***************************************************************************)
(* Proofs about executions outside the runner: what the pages start is        *)
(* what was asked for (PolicyTriggers), what the viewer shows is the log      *)
(* (ExecutionLogs), and the mock server's database stays sound and keeps      *)
(* the lifecycle of an execution record (MockServer).  The components         *)
(* share no variable; each has sections that end in its theorems.             *)
(***************************************************************************)
EXTENDS MockServer, ExecutionLogs, PolicyTriggers, ListLemmas

----------------------------------------------------------------------------
(* The triggers of a sleep or a wake.                                         *)

(* A card of the overview acts on a policy of the list, or on none.           *)
LEMMA FirstPolicyListed ==
  ASSUME PolicyTriggersAssumption
  PROVE  FirstPolicy \in Policies \cup {0}
<1> DEFINE on == {p \in Policies : seen[p].enabled}
<1>1. on \in SUBSET Nat
  BY DEF PolicyTriggersAssumption
<1>2. on # {} => Min(on) \in on
  BY <1>1, LeastNumber
<1> QED
  BY <1>2 DEF FirstPolicy

(* The policy of a component is one of the list, or none.                     *)
LEMMA TargetListed ==
  ASSUME PolicyTriggersAssumption, dialog \in Dialogs, at \in Locations
  PROVE  Target \in Policies \cup {0}
<1>1. dialog.of \in Policies \cup {0} /\ at.of \in Policies \cup {0}
  BY DEF Dialogs, Locations
<1> QED
  BY <1>1, FirstPolicyListed DEF Target

(* Only a dialog changes, to one that names the policy of its component or is *)
(* known to have lost it, or the log on the overview.                         *)
LEMMA TriggersDialogStep ==
  ASSUME TriggersInv, UNCHANGED <<rows, runs, at, net, sent>>, seen' \in Rows, dialog' \in Dialogs,
         live' \in [exec : Nat, done : BOOLEAN], live'.exec <= Len(runs),
         live'.exec # 0 => at.place = "overview" /\ (live'.done => runs[live'.exec].status # "running"),
         DialogOnTarget'
  PROVE  TriggersInv'
<1> USE DEF TriggersInv
<1>1. dialog'.dir \in {None, "sleep", "wake"} /\ live'.exec \in Nat
  BY DEF Dialogs
<1>2. TriggersTypeOK'
  <2>1. Len(runs) \in Nat
    BY LenProperties DEF TriggersShapes
  <2> QED
    BY <1>1, <2>1 DEF TriggersTypeOK
<1>3. TriggersShapes'
  BY DEF TriggersShapes
<1>4. OpenedIsStarted' /\ RefusedForCause' /\ LiveIsCurrent' /\ AnswersOwn' /\ RequestsHere'
  BY DEF OpenedIsStarted, RefusedForCause, Refused, LiveIsCurrent, AnswersOwn, RequestsHere
<1> QED
  BY <1>2, <1>3, <1>4

(* Dialogs open and close, and the list is read again.                        *)
LEMMA TriggersDialogs ==
  ASSUME PolicyTriggersAssumption, TriggersInv,
         \/ \E p \in Policies : OpenMenu(p) \/ \E dir \in {"sleep", "wake"} : OpenDialog(p, dir)
         \/ \E dir \in {"sleep", "wake"} : PickMenu(dir)
         \/ CancelDialog \/ Faded \/ PollList \/ LivePoll
  PROVE  TriggersInv'
<1> USE DEF TriggersInv
<1>1. /\ dialog \in Dialogs /\ at \in Locations /\ seen \in Rows /\ rows \in Rows
      /\ live \in [exec : Nat, done : BOOLEAN] /\ live.exec <= Len(runs)
      /\ live.exec # 0 => at.place = "overview" /\ (live.done => runs[live.exec].status # "running")
  BY DEF TriggersTypeOK, TriggersShapes, LiveIsCurrent
<1>2. NoDialog \in Dialogs
  BY DEF NoDialog, Dialogs
<1>3. CASE \E p \in Policies : OpenMenu(p) \/ \E dir \in {"sleep", "wake"} : OpenDialog(p, dir)
  <2>1. PICK p \in Policies : OpenMenu(p) \/ \E dir \in {"sleep", "wake"} : OpenDialog(p, dir)
    BY <1>3
  <2>2. UNCHANGED <<rows, runs, seen, at, net, live, sent>>
    BY <2>1 DEF OpenMenu, OpenDialog
  <2>3. dialog' \in Dialogs /\ dialog'.of = p
    <3>1. CASE OpenMenu(p)
      <4>1. dialog' = [NoDialog EXCEPT !.menu = TRUE, !.of = p]
        BY <3>1 DEF OpenMenu
      <4> QED
        BY <1>2, <4>1 DEF Dialogs
    <3>2. CASE \E dir \in {"sleep", "wake"} : OpenDialog(p, dir)
      <4>1. PICK dir \in {"sleep", "wake"} : dialog' = [NoDialog EXCEPT !.dir = dir, !.of = p]
        BY <3>2 DEF OpenDialog
      <4> QED
        BY <1>2, <4>1 DEF Dialogs
    <3> QED
      BY <2>1, <3>1, <3>2
  <2>4. Offered(p) # {}
    BY <2>1 DEF OpenMenu, OpenDialog
  <2>5. at.place \in {"overview", "list", "detail"}
    BY <1>1 DEF Locations, PagesShown
  <2>6. Target' = p
    <3>1. CASE at.place = "overview"
      <4>1. FirstPolicy = p
        BY <2>4, <3>1 DEF Offered
      <4>2. FirstPolicy' = FirstPolicy
        BY <2>2 DEF FirstPolicy
      <4> QED
        BY <2>2, <3>1, <4>1, <4>2 DEF Target
    <3>2. CASE at.place = "detail"
      <4>1. at.of = p
        BY <2>4, <3>2 DEF Offered
      <4> QED
        BY <2>2, <3>2, <4>1 DEF Target
    <3>3. CASE at.place = "list"
      BY <2>2, <2>3, <3>3 DEF Target
    <3> QED
      BY <2>5, <3>1, <3>2, <3>3
  <2>7. DialogOnTarget'
    BY <2>3, <2>6 DEF DialogOnTarget
  <2> QED
    BY <1>1, <2>2, <2>3, <2>7, TriggersDialogStep
<1>4. CASE \/ \E dir \in {"sleep", "wake"} : PickMenu(dir)
           \/ CancelDialog \/ Faded
  <2>1. UNCHANGED <<rows, runs, seen, at, net, live, sent>>
    BY <1>4 DEF PickMenu, CancelDialog, Faded
  <2>2. /\ dialog' \in Dialogs
        /\ dialog'.dir # None \/ dialog'.menu \/ dialog'.fading =>
             /\ dialog'.of = dialog.of /\ dialog'.moved = dialog.moved
             /\ dialog.dir # None \/ dialog.menu \/ dialog.fading
    <3>1. CASE \E dir \in {"sleep", "wake"} : PickMenu(dir)
      <4>1. PICK dir \in {"sleep", "wake"} : dialog.menu /\ dialog' = [dialog EXCEPT !.menu = FALSE, !.dir = dir]
        BY <3>1 DEF PickMenu
      <4> QED
        BY <1>1, <4>1 DEF Dialogs
    <3>2. CASE CancelDialog
      <4>1. /\ dialog.dir # None \/ dialog.menu
            /\ dialog' = NoDialog \/ dialog' = [dialog EXCEPT !.dir = None, !.fading = TRUE]
        BY <3>2 DEF CancelDialog
      <4>2. CASE dialog' = NoDialog
        BY <1>2, <4>2 DEF NoDialog
      <4>3. CASE dialog' = [dialog EXCEPT !.dir = None, !.fading = TRUE]
        BY <1>1, <4>1, <4>3 DEF Dialogs
      <4> QED
        BY <4>1, <4>2, <4>3
    <3>3. CASE Faded
      BY <1>2, <3>3 DEF Faded, NoDialog
    <3> QED
      BY <1>4, <3>1, <3>2, <3>3
  <2>3. FirstPolicy' = FirstPolicy
    BY <2>1 DEF FirstPolicy
  <2>4. DialogOnTarget'
    BY <2>1, <2>2, <2>3 DEF DialogOnTarget, Target
  <2> QED
    BY <1>1, <2>1, <2>2, <2>4, TriggersDialogStep
<1>5. CASE PollList
  <2>1. /\ UNCHANGED <<rows, runs, at, net, live, sent>> /\ seen' = rows
        /\ dialog' = [dialog EXCEPT !.moved = @ \/ (at.place = "overview" /\ FirstPolicy' # FirstPolicy)]
    BY <1>5 DEF PollList
  <2>2. /\ dialog' \in Dialogs /\ dialog'.dir = dialog.dir /\ dialog'.menu = dialog.menu
        /\ dialog'.fading = dialog.fading /\ dialog'.of = dialog.of
        /\ ~dialog'.moved => ~dialog.moved /\ ~(at.place = "overview" /\ FirstPolicy' # FirstPolicy)
    <3>1. dialog.moved \in BOOLEAN
      BY <1>1 DEF Dialogs
    <3>2. PICK m \in BOOLEAN : m = (dialog.moved \/ (at.place = "overview" /\ FirstPolicy' # FirstPolicy))
      BY <3>1
    <3>3. dialog' = [dialog EXCEPT !.moved = m]
      BY <2>1, <3>2
    <3>4. /\ dialog' \in Dialogs /\ dialog'.dir = dialog.dir /\ dialog'.menu = dialog.menu
          /\ dialog'.fading = dialog.fading /\ dialog'.of = dialog.of /\ dialog'.moved = m
      BY <1>1, <3>2, <3>3 DEF Dialogs
    <3> QED
      BY <3>2, <3>4
  <2>3. DialogOnTarget'
    BY <2>1, <2>2 DEF DialogOnTarget, Target
  <2> QED
    BY <1>1, <2>1, <2>2, <2>3, TriggersDialogStep
<1>6. CASE LivePoll
  <2>1. /\ UNCHANGED <<rows, runs, seen, at, dialog, net, sent>> /\ live' = [live EXCEPT !.done = TRUE]
        /\ at.place = "overview" /\ runs[live.exec].status # "running"
    BY <1>6 DEF LivePoll
  <2>2. FirstPolicy' = FirstPolicy
    BY <2>1 DEF FirstPolicy
  <2>3. DialogOnTarget'
    BY <2>1, <2>2 DEF DialogOnTarget, Target
  <2> QED
    BY <1>1, <2>1, <2>3, TriggersDialogStep
<1> QED
  BY <1>3, <1>4, <1>5, <1>6

(* Somebody else enables or disables a policy.                                *)
LEMMA TriggersToggle ==
  ASSUME TriggersInv, NEW p \in Policies, Toggle(p)
  PROVE  TriggersInv'
<1> USE DEF TriggersInv
<1>1. UNCHANGED <<runs, seen, at, dialog, net, live, sent>> /\ rows' = [rows EXCEPT ![p].enabled = ~@]
  BY DEF Toggle
<1>2. rows \in Rows
  BY DEF TriggersTypeOK
<1>3. rows' \in Rows
  <2>1. rows[p].enabled \in BOOLEAN
    BY <1>2 DEF Rows
  <2>2. (~rows[p].enabled) \in BOOLEAN
    OBVIOUS
  <2>3. PICK e \in BOOLEAN : e = ~rows[p].enabled
    BY <2>2
  <2>4. rows' = [rows EXCEPT ![p].enabled = e]
    BY <1>1, <2>3
  <2> QED
    BY <1>2, <2>3, <2>4, ZenonT(60) DEF Rows
<1>4. FirstPolicy' = FirstPolicy
  BY <1>1 DEF FirstPolicy
<1>5. TriggersTypeOK' /\ TriggersShapes'
  BY <1>1, <1>3 DEF TriggersTypeOK, TriggersShapes
<1>6. OpenedIsStarted' /\ RefusedForCause' /\ LiveIsCurrent' /\ AnswersOwn' /\ DialogOnTarget' /\ RequestsHere'
  BY <1>1, <1>4 DEF OpenedIsStarted, RefusedForCause, Refused, LiveIsCurrent, AnswersOwn, DialogOnTarget, Target,
                    RequestsHere
<1> QED
  BY <1>5, <1>6

(* The page changes: what the requests are about does not, and they know when *)
(* the policy of their component has changed.                                 *)
LEMMA TriggersNavigate ==
  ASSUME PolicyTriggersAssumption, TriggersInv, NEW requests \in SUBSET net, NEW pl \in PagesShown,
         NEW p \in Policies \cup {0}, NEW i \in 0..Len(runs),
         NEW how \in {None, "row", "link", "answer", "shifted"}, Navigate(requests, pl, p, i, how),
         UNCHANGED <<rows, runs, seen, sent>>,
         pl = "detail" /\ i # 0 /\ runs[i].policy # p => how \in {"link", "shifted"}
  PROVE  TriggersInv'
<1> USE DEF TriggersInv
<1> DEFINE stays == pl = at.place
           shifts == stays /\ p # at.of
           moved(q) == [q EXCEPT !.here = q.here /\ stays,
                                 !.to = IF q.here /\ shifts THEN p ELSE q.to,
                                 !.shifted = q.shifted \/ (q.here /\ shifts)]
<1>0. /\ net \in SUBSET Requests /\ dialog \in Dialogs /\ at \in Locations /\ Len(runs) \in Nat
      /\ live \in [exec : Nat, done : BOOLEAN] /\ live.exec <= Len(runs)
      /\ (live.exec # 0 => at.place = "overview" /\ (live.done => runs[live.exec].status # "running"))
  BY LenProperties DEF TriggersTypeOK, TriggersShapes, LiveIsCurrent
<1>1. at' = [place |-> pl, of |-> p, exec |-> i, how |-> how]
  BY DEF Navigate
<1>2. dialog' = (IF stays THEN [dialog EXCEPT !.moved = dialog.moved \/ shifts] ELSE NoDialog)
  BY DEF Navigate
<1>3. live' = (IF stays THEN live ELSE NoLive)
  BY DEF Navigate
<1>4. net' = {moved(q) : q \in requests}
  BY DEF Navigate
<1>5. at' \in Locations /\ at'.place = pl /\ at'.of = p /\ at'.exec = i /\ at'.how = how
  BY <1>0, <1>1 DEF Locations
<1>6. \A q \in requests : LET r == moved(q) IN
        /\ r \in Requests /\ r.policy = q.policy /\ r.opened = q.opened /\ r.moved = q.moved /\ r.ans = q.ans
        /\ r.place = q.place /\ (r.here => q.here /\ pl = at.place)
        /\ ~r.shifted => ~q.shifted /\ r.to = q.to
  <2> SUFFICES ASSUME NEW q \in requests
               PROVE  LET r == moved(q) IN
                 /\ r \in Requests /\ r.policy = q.policy /\ r.opened = q.opened /\ r.moved = q.moved
                 /\ r.ans = q.ans /\ r.place = q.place /\ (r.here => q.here /\ pl = at.place)
                 /\ (~r.shifted => ~q.shifted /\ r.to = q.to)
    OBVIOUS
  <2>1. q \in Requests
    BY <1>0
  <2>2. q.here \in BOOLEAN /\ q.shifted \in BOOLEAN /\ q.to \in Policies \cup {0}
    BY <2>1 DEF Requests
  <2>3. PICK h \in BOOLEAN : h = (q.here /\ stays)
    BY <2>2
  <2>4. PICK g \in BOOLEAN : g = (q.shifted \/ (q.here /\ shifts))
    BY <2>2
  <2>5. PICK t \in Policies \cup {0} : t = (IF q.here /\ shifts THEN p ELSE q.to)
    BY <2>2
  <2>6. moved(q) = [q EXCEPT !.here = h, !.to = t, !.shifted = g]
    BY <2>3, <2>4, <2>5
  <2>7. PICK r : r = [q EXCEPT !.here = h, !.to = t, !.shifted = g]
    OBVIOUS
  <2>8. /\ r \in Requests /\ r.policy = q.policy /\ r.opened = q.opened /\ r.moved = q.moved
        /\ r.ans = q.ans /\ r.place = q.place /\ r.here = h /\ r.shifted = g /\ r.to = t
    BY <2>1, <2>3, <2>4, <2>5, <2>7 DEF Requests
  <2>9. ~g => ~q.shifted /\ t = q.to
    BY <2>4, <2>5
  <2> QED
    BY <2>3, <2>6, <2>7, <2>8, <2>9
<1>7. \A r \in net' : \E q \in net :
        /\ r \in Requests /\ r.policy = q.policy /\ r.opened = q.opened /\ r.moved = q.moved /\ r.ans = q.ans
        /\ r.place = q.place /\ (r.here => q.here /\ pl = at.place)
        /\ ~r.shifted => ~q.shifted /\ r.to = q.to
  <2> HIDE DEF moved
  <2>1. SUFFICES ASSUME NEW r \in net'
                 PROVE  \E q \in net :
                   /\ r \in Requests /\ r.policy = q.policy /\ r.opened = q.opened /\ r.moved = q.moved
                   /\ r.ans = q.ans /\ r.place = q.place /\ (r.here => q.here /\ pl = at.place)
                 /\ (~r.shifted => ~q.shifted /\ r.to = q.to)
    OBVIOUS
  <2>2. PICK q \in requests : r = moved(q)
    BY <1>4, <2>1
  <2> QED
    BY <1>6, <2>2
<1>8. /\ dialog' \in Dialogs
      /\ dialog'.dir # None \/ dialog'.menu \/ dialog'.fading =>
           /\ stays /\ dialog'.of = dialog.of
           /\ dialog.dir # None \/ dialog.menu \/ dialog.fading
           /\ ~dialog'.moved => ~dialog.moved /\ p = at.of
  <2>1. CASE stays
    <3>1. dialog.moved \in BOOLEAN
      BY <1>0 DEF Dialogs
    <3>2. PICK m \in BOOLEAN : m = (dialog.moved \/ shifts)
      BY <3>1
    <3>3. dialog' = [dialog EXCEPT !.moved = m]
      BY <1>2, <2>1, <3>2
    <3>4. /\ dialog' \in Dialogs /\ dialog'.dir = dialog.dir /\ dialog'.menu = dialog.menu
          /\ dialog'.fading = dialog.fading /\ dialog'.of = dialog.of /\ dialog'.moved = m
      BY <1>0, <3>3 DEF Dialogs
    <3> QED
      BY <2>1, <3>2, <3>4
  <2>2. CASE ~stays
    <3>1. dialog' = NoDialog
      BY <1>2, <2>2
    <3>2. NoDialog \in Dialogs /\ NoDialog.dir = None /\ ~NoDialog.menu /\ ~NoDialog.fading
      BY DEF NoDialog, Dialogs
    <3> QED
      BY <3>1, <3>2
  <2> QED
    BY <2>1, <2>2
<1>9. /\ live' \in [exec : Nat, done : BOOLEAN] /\ live'.exec <= Len(runs)
      /\ live'.exec # 0 => at'.place = "overview" /\ (live'.done => runs[live'.exec].status # "running")
  <2>1. NoLive \in [exec : Nat, done : BOOLEAN] /\ NoLive.exec = 0
    BY DEF NoLive
  <2> QED
    BY <1>0, <1>3, <1>5, <2>1
<1>10. TriggersTypeOK'
  <2>1. /\ at'.place \in PagesShown /\ at'.of \in Policies \cup {0} /\ at'.exec \in Nat /\ at'.exec <= Len(runs)
        /\ dialog'.dir \in {None, "sleep", "wake"} /\ live'.exec \in Nat
    BY <1>0, <1>5, <1>8, <1>9 DEF Locations, Dialogs
  <2>2. \A r \in net' : r.policy \in Policies \cup {0} /\ r.ans \in -1..Len(runs)
    BY <1>7 DEF TriggersTypeOK
  <2> QED
    BY <1>0, <1>9, <2>1, <2>2 DEF TriggersTypeOK
<1>11. TriggersShapes'
  <2>1. net' \in SUBSET Requests
    BY <1>7
  <2> QED
    BY <1>5, <1>8, <1>9, <2>1 DEF TriggersShapes
<1>12. OpenedIsStarted'
  BY <1>7 DEF OpenedIsStarted
<1>13. RefusedForCause'
  BY <1>5 DEF RefusedForCause, Refused
<1>14. LiveIsCurrent'
  BY <1>9 DEF LiveIsCurrent
<1>15. AnswersOwn' /\ RequestsHere'
  BY <1>5, <1>7 DEF AnswersOwn, RequestsHere
<1>16. DialogOnTarget'
  <2> SUFFICES ASSUME dialog'.dir # None \/ dialog'.menu \/ dialog'.fading, ~dialog'.moved
               PROVE  Target' = dialog'.of
    BY DEF DialogOnTarget
  <2>0. /\ stays /\ dialog'.of = dialog.of /\ ~dialog.moved /\ p = at.of
        /\ dialog.dir # None \/ dialog.menu \/ dialog.fading
    BY <1>8
  <2>1. /\ at'.place = at.place /\ dialog'.of = dialog.of /\ at'.of = at.of /\ Target = dialog.of
    <3>1. Target = dialog.of
      BY <2>0 DEF DialogOnTarget
    <3> QED
      BY <1>5, <2>0, <3>1
  <2>2. FirstPolicy' = FirstPolicy
    BY DEF FirstPolicy
  <2> QED
    BY <2>1, <2>2 DEF Target
<1> QED
  BY <1>10, <1>11, <1>12, <1>13, <1>14, <1>15, <1>16

(* Links, the history of the browser and of the policy, and closing a log.    *)
LEMMA TriggersPages ==
  ASSUME PolicyTriggersAssumption, TriggersInv,
         \/ CloseLog
         \/ \E i \in 1..Len(runs) : SelectExecution(i) \/ \E p \in Policies : FollowLink(p, i)
         \/ \E pl \in Places, p \in Policies \cup {0} : Goto(pl, p)
  PROVE  TriggersInv'
<1> USE DEF TriggersInv
<1>0. Len(runs) \in Nat /\ Places \subseteq PagesShown /\ "detail" \in PagesShown /\ at \in Locations
  BY LenProperties DEF TriggersShapes, PolicyTriggersAssumption, PagesShown
<1>1. CASE CloseLog \/ \E i \in 1..Len(runs) : SelectExecution(i)
  <2>1. /\ UNCHANGED <<rows, runs, seen, dialog, net, sent>>
        /\ at' \in Locations /\ at'.place = at.place /\ at'.of = at.of /\ at'.exec \in 0..Len(runs)
        /\ at'.exec # 0 => runs[at'.exec].policy = at.of
        /\ live' = NoLive \/ live' = live
    <3>1. CASE CloseLog
      <4>1. at' = [at EXCEPT !.exec = 0, !.how = None] /\ live' = NoLive
            /\ UNCHANGED <<rows, runs, seen, dialog, net, sent>>
        BY <3>1 DEF CloseLog
      <4>2. at' \in Locations /\ at'.place = at.place /\ at'.of = at.of /\ at'.exec = 0
        BY <1>0, <4>1 DEF Locations
      <4> QED
        BY <1>0, <4>1, <4>2
    <3>2. CASE \E i \in 1..Len(runs) : SelectExecution(i)
      <4>1. PICK i \in 1..Len(runs) : SelectExecution(i)
        BY <3>2
      <4>2. /\ at' = [at EXCEPT !.exec = i, !.how = "row"] /\ runs[i].policy = at.of
            /\ UNCHANGED <<rows, runs, seen, dialog, net, live, sent>>
        BY <4>1 DEF SelectExecution
      <4>3. at' \in Locations /\ at'.place = at.place /\ at'.of = at.of /\ at'.exec = i
        <5>1. PICK h \in {None, "row", "link", "answer", "shifted"} : h = "row"
          OBVIOUS
        <5>2. at' = [at EXCEPT !.exec = i, !.how = h] /\ i \in Nat
          BY <4>2, <5>1
        <5> QED
          BY <1>0, <5>1, <5>2 DEF Locations
      <4> QED
        BY <1>0, <4>2, <4>3
    <3> QED
      BY <1>1, <3>1, <3>2
  <2>2. /\ live' \in [exec : Nat, done : BOOLEAN] /\ live'.exec \in 0..Len(runs)
        /\ live'.exec # 0 => at'.place = "overview" /\ (live'.done => runs'[live'.exec].status # "running")
    <3>1. NoLive \in [exec : Nat, done : BOOLEAN] /\ NoLive.exec = 0
      BY DEF NoLive
    <3> QED
      BY <1>0, <2>1, <3>1 DEF TriggersShapes, TriggersTypeOK, LiveIsCurrent
  <2>3. TriggersTypeOK' /\ TriggersShapes'
    BY <2>1, <2>2 DEF TriggersTypeOK, TriggersShapes
  <2>4. RefusedForCause' /\ LiveIsCurrent'
    BY <2>1, <2>2 DEF RefusedForCause, Refused, LiveIsCurrent
  <2>5. FirstPolicy' = FirstPolicy
    BY <2>1 DEF FirstPolicy
  <2>6. OpenedIsStarted' /\ AnswersOwn' /\ DialogOnTarget' /\ RequestsHere'
    BY <2>1, <2>5 DEF OpenedIsStarted, AnswersOwn, DialogOnTarget, Target, RequestsHere
  <2> QED
    BY <2>3, <2>4, <2>6
<1>2. CASE \E i \in 1..Len(runs), p \in Policies : FollowLink(p, i)
  <2>1. PICK i \in 1..Len(runs), p \in Policies : FollowLink(p, i)
    BY <1>2
  <2>2. Navigate(net, "detail", p, i, "link") /\ UNCHANGED <<rows, runs, seen, sent>>
    BY <2>1 DEF FollowLink
  <2>3. i \in 0..Len(runs) /\ p \in Policies \cup {0} /\ net \in SUBSET net
    BY <1>0
  <2> QED
    BY <1>0, <2>2, <2>3, TriggersNavigate
<1>3. CASE \E pl \in Places, p \in Policies \cup {0} : Goto(pl, p)
  <2>1. PICK pl \in Places, p \in Policies \cup {0} : Goto(pl, p)
    BY <1>3
  <2>2. Navigate(net, pl, p, 0, None) /\ UNCHANGED <<rows, runs, seen, sent>>
    BY <2>1 DEF Goto
  <2>3. 0 \in 0..Len(runs) /\ pl \in PagesShown /\ net \in SUBSET net
    BY <1>0
  <2> QED
    BY <2>2, <2>3, TriggersNavigate
<1> QED
  BY <1>1, <1>2, <1>3

(* A dialog is confirmed: a new request to the policy of its component.       *)
LEMMA TriggersConfirm ==
  ASSUME PolicyTriggersAssumption, TriggersInv, NEW mode \in {"plan", "apply"}, Confirm(mode)
  PROVE  TriggersInv'
<1> USE DEF TriggersInv
<1> DEFINE q == [n |-> sent', dir |-> IF dialog.dir = "sleep" THEN "sleep" ELSE "wake",
                 policy |-> Target, mode |-> mode, opened |-> dialog.of, moved |-> dialog.moved,
                 place |-> at.place, here |-> TRUE, to |-> Target, shifted |-> FALSE, ans |-> -1]
<1>0. PICK r : r = q
  OBVIOUS
<1>1. /\ net' = net \cup {r} /\ UNCHANGED <<rows, runs, seen, at, live>> /\ sent' = sent + 1
      /\ dialog' = [dialog EXCEPT !.dir = None, !.fading = TRUE]
      /\ dialog.dir # None \/ dialog.fading
  BY <1>0 DEF Confirm
<1>2. dialog \in Dialogs /\ at \in Locations /\ sent \in Nat /\ Len(runs) \in Nat
  BY LenProperties DEF TriggersShapes
<1>3. Target \in Policies \cup {0}
  BY <1>2, TargetListed
<1>4. /\ r \in Requests /\ r.ans = -1 /\ r.policy = Target /\ r.to = Target /\ r.opened = dialog.of
      /\ r.moved = dialog.moved /\ r.place = at.place
  <2>1. /\ dialog.of \in Policies \cup {0} /\ dialog.moved \in BOOLEAN /\ at.place \in PagesShown
        /\ sent' \in Nat
    BY <1>1, <1>2 DEF Dialogs, Locations
  <2>2. PICK d \in {"sleep", "wake"} : d = (IF dialog.dir = "sleep" THEN "sleep" ELSE "wake")
    OBVIOUS
  <2>3. r = [n |-> sent', dir |-> d, policy |-> Target, mode |-> mode, opened |-> dialog.of,
             moved |-> dialog.moved, place |-> at.place, here |-> TRUE, to |-> Target, shifted |-> FALSE,
             ans |-> -1]
    BY <1>0, <2>2
  <2> HIDE DEF q
  <2> QED
    BY <1>3, <2>1, <2>2, <2>3 DEF Requests
<1> HIDE DEF q
<1>5. ~r.moved => r.policy = r.opened
  BY <1>1, <1>4 DEF DialogOnTarget
<1>6. /\ dialog' \in Dialogs /\ dialog'.of = dialog.of /\ dialog'.moved = dialog.moved
  BY <1>1, <1>2 DEF Dialogs, None
<1>7. TriggersTypeOK'
  <2>1. dialog'.dir \in {None, "sleep", "wake"}
    BY <1>6 DEF Dialogs
  <2> QED
    BY <1>1, <1>2, <1>3, <1>4, <2>1 DEF TriggersTypeOK
<1>8. TriggersShapes'
  BY <1>1, <1>2, <1>4, <1>6 DEF TriggersShapes
<1>9. OpenedIsStarted' /\ AnswersOwn' /\ RequestsHere'
  BY <1>1, <1>4, <1>5 DEF OpenedIsStarted, AnswersOwn, RequestsHere
<1>10. RefusedForCause' /\ LiveIsCurrent'
  BY <1>1 DEF RefusedForCause, Refused, LiveIsCurrent
<1>11. DialogOnTarget'
  <2>1. FirstPolicy' = FirstPolicy
    BY <1>1 DEF FirstPolicy
  <2> QED
    BY <1>1, <1>6, <2>1 DEF DialogOnTarget, Target
<1> QED
  BY <1>7, <1>8, <1>9, <1>10, <1>11

(* A request is replaced by the same one with an answer.                      *)
LEMMA TriggersServed ==
  ASSUME TriggersInv, NEW q \in net, NEW a \in Nat, net' = (net \ {q}) \cup {[q EXCEPT !.ans = a]}
  PROVE  \A s \in net' :
           /\ s \in Requests
           /\ s \in net \/ (s.policy = q.policy /\ s.opened = q.opened /\ s.moved = q.moved
                            /\ s.to = q.to /\ s.shifted = q.shifted /\ s.here = q.here /\ s.place = q.place /\ s.ans = a)
<1>1. PICK r : r = [q EXCEPT !.ans = a]
  OBVIOUS
<1>2. net \in SUBSET Requests /\ q \in Requests
  BY DEF TriggersInv, TriggersShapes
<1>3. /\ r \in Requests /\ r.policy = q.policy /\ r.opened = q.opened /\ r.moved = q.moved
      /\ r.to = q.to /\ r.shifted = q.shifted /\ r.here = q.here /\ r.place = q.place /\ r.ans = a
  BY <1>1, <1>2 DEF Requests
<1>4. net' = (net \ {q}) \cup {r}
  BY <1>1
<1> QED
  BY <1>2, <1>3, <1>4

(* The backend starts an execution of a policy that runs none, or refuses.    *)
LEMMA TriggersServe ==
  ASSUME PolicyTriggersAssumption, TriggersInv, NEW q \in net, Serve(q)
  PROVE  TriggersInv'
<1> USE DEF TriggersInv
<1>0. /\ runs \in Seq(Runs) /\ Len(runs) \in Nat /\ q \in Requests /\ rows \in Rows
      /\ UNCHANGED <<seen, at, dialog, live, sent>>
      /\ at.exec \in 0..Len(runs) /\ live.exec \in 0..Len(runs)
  BY LenProperties DEF TriggersShapes, TriggersTypeOK, Serve
<1>1. /\ q.policy \in Policies \cup {0} /\ (~q.moved => q.policy = q.opened) /\ (~q.shifted => q.to = q.policy)
  BY DEF TriggersTypeOK, OpenedIsStarted, AnswersOwn
<1>2. PICK a \in 0..Len(runs) + 1 :
        /\ net' = (net \ {q}) \cup {[q EXCEPT !.ans = a]}
        /\ rows' \in Rows /\ runs' \in Seq(Runs) /\ Len(runs) <= Len(runs') /\ a <= Len(runs')
        /\ \A i \in 1..Len(runs) : runs'[i] = runs[i]
        /\ a > 0 => runs'[a].policy = q.policy
  <2>1. CASE q.policy \in Policies /\ ~IsRunning(q.policy)
    <3>1. PICK e : e = [policy |-> q.policy, dir |-> q.dir, mode |-> q.mode, status |-> "running"]
      OBVIOUS
    <3>2. e \in Runs /\ e.policy = q.policy
      BY <1>0, <2>1, <3>1 DEF Runs, Requests
    <3>3. /\ runs' = Append(runs, e) /\ net' = (net \ {q}) \cup {[q EXCEPT !.ans = Len(runs) + 1]}
          /\ rows' = [rows EXCEPT ![q.policy].state = "transitioning"]
      BY <2>1, <3>1 DEF Serve
    <3>4. /\ runs' \in Seq(Runs) /\ Len(runs') = Len(runs) + 1 /\ runs'[Len(runs) + 1] = e
          /\ \A i \in 1..Len(runs) : runs'[i] = runs[i]
      BY <1>0, <3>2, <3>3, AppendProperties
    <3>5. rows' \in Rows
      BY <1>0, <2>1, <3>3 DEF Rows
    <3>6. Len(runs) + 1 \in 0..Len(runs) + 1
      BY <1>0
    <3> QED
      BY <1>0, <3>2, <3>3, <3>4, <3>5, <3>6
  <2>2. CASE ~(q.policy \in Policies /\ ~IsRunning(q.policy))
    <3>1. net' = (net \ {q}) \cup {[q EXCEPT !.ans = 0]} /\ UNCHANGED <<runs, rows>>
      BY <2>2 DEF Serve
    <3> QED
      BY <1>0, <3>1
  <2> QED
    BY <2>1, <2>2
<1>3. a \in Nat /\ Len(runs') \in Nat
  BY <1>0, <1>2, LenProperties
<1>4. \A s \in net' :
        /\ s \in Requests
        /\ s \in net \/ (s.policy = q.policy /\ s.opened = q.opened /\ s.moved = q.moved
                         /\ s.to = q.to /\ s.shifted = q.shifted /\ s.here = q.here /\ s.place = q.place /\ s.ans = a)
  BY <1>2, <1>3, TriggersServed
<1>5. TriggersTypeOK'
  <2>1. \A s \in net' : s.policy \in Policies \cup {0} /\ s.ans \in -1..Len(runs')
    BY <1>0, <1>1, <1>2, <1>3, <1>4 DEF TriggersTypeOK
  <2> QED
    BY <1>0, <1>2, <1>3, <2>1 DEF TriggersTypeOK
<1>6. TriggersShapes'
  BY <1>0, <1>2, <1>4 DEF TriggersShapes
<1>7. OpenedIsStarted' /\ RequestsHere'
  BY <1>0, <1>1, <1>4 DEF OpenedIsStarted, RequestsHere
<1>8. AnswersOwn'
  <2> SUFFICES ASSUME NEW s \in net'
               PROVE  (~s.shifted => s.to = s.policy) /\ (s.ans > 0 => runs'[s.ans].policy = s.policy)
    BY DEF AnswersOwn
  <2>1. CASE s \in net
    <3>1. s.ans > 0 => s.ans \in 1..Len(runs)
      BY <1>0, <2>1 DEF TriggersTypeOK
    <3> QED
      BY <1>2, <2>1, <3>1 DEF AnswersOwn
  <2>2. CASE s \notin net
    BY <1>1, <1>2, <1>4, <2>2
  <2> QED
    BY <2>1, <2>2
<1>9. RefusedForCause' /\ LiveIsCurrent'
  BY <1>0, <1>2 DEF RefusedForCause, Refused, LiveIsCurrent
<1>10. DialogOnTarget'
  <2>1. FirstPolicy' = FirstPolicy
    BY <1>0 DEF FirstPolicy
  <2> QED
    BY <1>0, <2>1 DEF DialogOnTarget, Target
<1> QED
  BY <1>5, <1>6, <1>7, <1>8, <1>9, <1>10

(* An execution ends: its policy can be started again.                        *)
LEMMA TriggersFinish ==
  ASSUME PolicyTriggersAssumption, TriggersInv, NEW i \in 1..Len(runs), FinishRun(i)
  PROVE  TriggersInv'
<1> USE DEF TriggersInv
<1>0. /\ runs \in Seq(Runs) /\ Len(runs) \in Nat /\ rows \in Rows /\ runs[i] \in Runs
      /\ runs[i].status = "running" /\ at.exec \in 0..Len(runs) /\ live.exec \in 0..Len(runs)
      /\ UNCHANGED <<seen, at, dialog, net, live, sent>>
  BY LenProperties, ElementOfSeq DEF TriggersShapes, TriggersTypeOK, FinishRun
<1>1. PICK status \in {"success", "failed"} :
        /\ runs' = [runs EXCEPT ![i].status = status]
        /\ rows' = [rows EXCEPT ![runs[i].policy].state =
             CASE status = "failed" -> "unknown" [] runs[i].dir = "sleep" -> "sleeping" [] OTHER -> "awake"]
  BY DEF FinishRun
<1>2. [runs[i] EXCEPT !.status = status] \in Runs
  BY <1>0 DEF Runs
<1>3. /\ runs' \in Seq(Runs) /\ Len(runs') = Len(runs)
      /\ \A j \in 1..Len(runs) : runs'[j].policy = runs[j].policy
                                 /\ (runs[j].status # "running" => runs'[j].status # "running")
  <2>1. runs' \in Seq(Runs) /\ Len(runs') = Len(runs)
    BY <1>0, <1>1, <1>2, ExceptSeq
  <2>2. \A j \in 1..Len(runs) : runs'[j] = IF j = i THEN [runs[i] EXCEPT !.status = status] ELSE runs[j]
    BY <1>0, <1>1
  <2> QED
    BY <1>0, <2>1, <2>2 DEF Runs
<1>4. rows' \in Rows
  BY <1>0, <1>1 DEF Rows, Runs
<1>5. TriggersTypeOK' /\ TriggersShapes' /\ OpenedIsStarted' /\ RequestsHere'
  BY <1>0, <1>3, <1>4 DEF TriggersTypeOK, TriggersShapes, OpenedIsStarted, RequestsHere
<1>6. RefusedForCause' /\ LiveIsCurrent'
  BY <1>0, <1>3 DEF RefusedForCause, Refused, LiveIsCurrent
<1>7. AnswersOwn'
  <2>1. \A q \in net : q.ans > 0 => q.ans \in 1..Len(runs)
    BY <1>0 DEF TriggersTypeOK
  <2> QED
    BY <1>0, <1>3, <2>1 DEF AnswersOwn
<1>8. DialogOnTarget'
  <2>1. FirstPolicy' = FirstPolicy
    BY <1>0 DEF FirstPolicy
  <2> QED
    BY <1>0, <2>1 DEF DialogOnTarget, Target
<1> QED
  BY <1>5, <1>6, <1>7, <1>8

(* An answer leads to the execution, under the policy of its component, or    *)
(* opens the log on the overview.                                             *)
LEMMA TriggersAnswer ==
  ASSUME PolicyTriggersAssumption, TriggersInv, NEW q \in net, Answer(q)
  PROVE  TriggersInv'
<1> USE DEF TriggersInv
<1>0. /\ Len(runs) \in Nat /\ q \in Requests /\ q.ans \in 0..Len(runs)
      /\ UNCHANGED <<rows, runs, seen, sent>>
      /\ (~q.shifted => q.to = q.policy) /\ (q.ans > 0 => runs[q.ans].policy = q.policy)
  BY LenProperties DEF TriggersShapes, TriggersTypeOK, Answer, AnswersOwn
<1>1. CASE q.ans > 0 /\ q.place # "overview" /\ "detail" \in Places
  <2>1. PICK how \in {"answer", "shifted"} : how = (IF q.shifted THEN "shifted" ELSE "answer")
    OBVIOUS
  <2>2. Navigate(net \ {q}, "detail", q.to, q.ans, how)
    BY <1>1, <2>1 DEF Answer
  <2>3. /\ net \ {q} \in SUBSET net /\ "detail" \in PagesShown /\ q.to \in Policies \cup {0}
        /\ how \in {None, "row", "link", "answer", "shifted"}
    BY <1>0, <2>1 DEF Requests, PagesShown
  <2>4. runs[q.ans].policy # q.to => how \in {"link", "shifted"}
    BY <1>0, <1>1, <2>1
  <2> QED
    BY <1>0, <2>2, <2>3, <2>4, TriggersNavigate
<1>2. CASE ~(q.ans > 0 /\ q.place # "overview" /\ "detail" \in Places)
  <2>1. net' = net \ {q} /\ at' = at /\ dialog' = dialog
    BY <1>2 DEF Answer
  <2>2. \/ live' = live
        \/ live' = [exec |-> q.ans, done |-> FALSE] /\ q.here /\ q.place = "overview"
    BY <1>2 DEF Answer
  <2>3. q.here => q.place = at.place
    BY DEF RequestsHere
  <2>4. /\ live' \in [exec : Nat, done : BOOLEAN] /\ live'.exec \in 0..Len(runs)
        /\ live'.exec # 0 => at.place = "overview" /\ (live'.done => runs[live'.exec].status # "running")
    <3>1. CASE live' = live
      BY <3>1 DEF TriggersShapes, TriggersTypeOK, LiveIsCurrent
    <3>2. CASE live' = [exec |-> q.ans, done |-> FALSE] /\ q.here /\ q.place = "overview"
      <4>1. q.ans \in Nat
        BY <1>0
      <4>2. live'.exec = q.ans /\ live'.done = FALSE /\ live' \in [exec : Nat, done : BOOLEAN]
        BY <3>2, <4>1
      <4> QED
        BY <1>0, <2>3, <3>2, <4>2
    <3> QED
      BY <2>2, <3>1, <3>2
  <2>5. TriggersTypeOK'
    BY <1>0, <2>1, <2>4 DEF TriggersTypeOK
  <2>6. TriggersShapes'
    BY <1>0, <2>1, <2>4 DEF TriggersShapes
  <2>7. OpenedIsStarted' /\ RefusedForCause' /\ LiveIsCurrent' /\ AnswersOwn' /\ RequestsHere'
    BY <1>0, <2>1, <2>4 DEF OpenedIsStarted, RefusedForCause, Refused, LiveIsCurrent, AnswersOwn, RequestsHere
  <2>8. FirstPolicy' = FirstPolicy
    BY <1>0 DEF FirstPolicy
  <2>9. DialogOnTarget'
    BY <2>1, <2>8 DEF DialogOnTarget, Target
  <2> QED
    BY <2>5, <2>6, <2>7, <2>9
<1> QED
  BY <1>1, <1>2

(* Nothing has been started.                                                  *)
LEMMA TriggersInitInv ==
  ASSUME PolicyTriggersAssumption, TriggersInit
  PROVE  TriggersInv
<1>1. Min(Policies) \in Policies
  BY LeastNumber DEF PolicyTriggersAssumption
<1>2. at \in Locations /\ at.exec = 0
  BY <1>1 DEF TriggersInit, PolicyTriggersAssumption, Locations, PagesShown
<1>3. rows \in Rows /\ seen \in Rows
  BY DEF TriggersInit, Rows
<1>4. runs \in Seq(Runs) /\ Len(runs) = 0 /\ net = {} /\ sent = 0
  BY EmptySeq DEF TriggersInit
<1>5. /\ dialog \in Dialogs /\ dialog.dir = None /\ ~dialog.menu /\ ~dialog.fading
      /\ live \in [exec : Nat, done : BOOLEAN] /\ live.exec = 0
  BY DEF TriggersInit, Dialogs, NoDialog, NoLive
<1>6. TriggersTypeOK
  BY <1>2, <1>3, <1>4, <1>5 DEF TriggersTypeOK, Locations
<1>7. TriggersShapes
  BY <1>2, <1>4, <1>5 DEF TriggersShapes
<1>8. OpenedIsStarted /\ RefusedForCause /\ LiveIsCurrent /\ DialogOnTarget /\ AnswersOwn /\ RequestsHere
  BY <1>2, <1>4, <1>5 DEF OpenedIsStarted, RefusedForCause, Refused, LiveIsCurrent, DialogOnTarget, AnswersOwn,
                          RequestsHere
<1> QED
  BY <1>6, <1>7, <1>8 DEF TriggersInv

(* A request goes to the policy its dialog was opened for, and its answer     *)
(* leads to its own log, unless the policy of the component changed meanwhile *)
(* (RunsAreOwn): for any number of policies, requests, navigations and        *)
(* changes by other operators.                                                *)
THEOREM StartedRunsAreOwn ==
  ASSUME PolicyTriggersAssumption
  PROVE  TriggersSpec => []RunsAreOwn
<1>1. TriggersInit => TriggersInv
  BY TriggersInitInv
<1>2. TriggersInv /\ [TriggersNext]_triggersVars => TriggersInv'
  <2> SUFFICES ASSUME TriggersInv, [TriggersNext]_triggersVars PROVE TriggersInv'
    OBVIOUS
  <2>1. CASE \/ \E p \in Policies : OpenMenu(p) \/ \E dir \in {"sleep", "wake"} : OpenDialog(p, dir)
             \/ \E dir \in {"sleep", "wake"} : PickMenu(dir)
             \/ CancelDialog \/ Faded \/ PollList \/ LivePoll
    BY <2>1, TriggersDialogs
  <2>2. CASE \E p \in Policies : Toggle(p)
    BY <2>2, TriggersToggle
  <2>3. CASE \/ CloseLog
             \/ \E i \in 1..Len(runs) : SelectExecution(i) \/ \E p \in Policies : FollowLink(p, i)
             \/ \E pl \in Places, p \in Policies \cup {0} : Goto(pl, p)
    BY <2>3, TriggersPages
  <2>4. CASE \E mode \in {"plan", "apply"} : Confirm(mode)
    BY <2>4, TriggersConfirm
  <2>5. CASE \E q \in net : Serve(q)
    BY <2>5, TriggersServe
  <2>6. CASE \E q \in net : Answer(q)
    BY <2>6, TriggersAnswer
  <2>7. CASE \E i \in 1..Len(runs) : FinishRun(i)
    BY <2>7, TriggersFinish
  <2>8. CASE UNCHANGED triggersVars
    BY <2>8 DEF triggersVars, TriggersInv, TriggersTypeOK, TriggersShapes, OpenedIsStarted, RefusedForCause, Refused,
                LiveIsCurrent, DialogOnTarget, Target, FirstPolicy, AnswersOwn, RequestsHere
  <2> QED
    BY <2>1, <2>2, <2>3, <2>4, <2>5, <2>6, <2>7, <2>8 DEF TriggersNext
<1>3. TriggersInv => RunsAreOwn
  BY DEF TriggersInv, RunsAreOwn
<1> QED
  BY <1>1, <1>2, <1>3, PTL DEF TriggersSpec

----------------------------------------------------------------------------
(* The log: the order of the lines, and the frames that carry them.           *)

(* The sorted sequence of a finite set of lines lists it in ascending order.  *)
LEMMA SortedLines ==
  ASSUME NEW S \in SUBSET Nat, IsFiniteSet(S)
  PROVE  /\ Sorted(S) \in Seq(S) /\ Len(Sorted(S)) = Cardinality(S) /\ Cardinality(S) \in Nat
         /\ \A k \in 1..Cardinality(S) : Sorted(S)[k] \in S
                                         /\ Cardinality({j \in S : j <= Sorted(S)[k]}) = k
         /\ \A k, l \in 1..Cardinality(S) : k < l => Sorted(S)[k] < Sorted(S)[l]
         /\ \A i \in S : \E k \in 1..Cardinality(S) : Sorted(S)[k] = i
<1>1. Cardinality(S) \in Nat
  BY FS_CardinalityType
<1>2. \A k \in 1..Cardinality(S) : Sorted(S)[k] = CHOOSE i \in S : Cardinality({j \in S : j <= i}) = k
  BY DEF Sorted
<1>3. \A k \in 1..Cardinality(S) : Sorted(S)[k] \in S /\ Cardinality({j \in S : j <= Sorted(S)[k]}) = k
  <2>1. \A k \in 1..Cardinality(S) : \E i \in S : Cardinality({j \in S : j <= i}) = k
    BY RanksUp
  <2> QED
    BY <1>2, <2>1
<1>4. Sorted(S) \in [1..Cardinality(S) -> S]
  BY <1>3 DEF Sorted
<1>5. Sorted(S) \in Seq(S) /\ Len(Sorted(S)) = Cardinality(S)
  BY <1>1, <1>4, SequenceOf
<1>6. ASSUME NEW k \in 1..Cardinality(S), NEW l \in 1..Cardinality(S), k < l
      PROVE  Sorted(S)[k] < Sorted(S)[l]
  <2>1. PICK a \in S : a = Sorted(S)[k] /\ Cardinality({j \in S : j <= a}) = k
    BY <1>3
  <2>2. PICK b \in S : b = Sorted(S)[l] /\ Cardinality({j \in S : j <= b}) = l
    BY <1>3
  <2>3. b < a => Cardinality({j \in S : j <= b}) < Cardinality({j \in S : j <= a})
    BY RanksUp
  <2>4. a # b
    BY <1>6, <2>1, <2>2
  <2> QED
    BY <1>1, <1>6, <2>1, <2>2, <2>3, <2>4
<1>7. ASSUME NEW i \in S
      PROVE  \E k \in 1..Cardinality(S) : Sorted(S)[k] = i
  <2>1. PICK k \in 1..Cardinality(S) : Cardinality({j \in S : j <= i}) = k
    BY RanksUp
  <2>2. PICK a \in S : a = Sorted(S)[k] /\ Cardinality({j \in S : j <= a}) = k
    BY <1>3
  <2>3. /\ i < a => Cardinality({j \in S : j <= i}) < Cardinality({j \in S : j <= a})
        /\ a < i => Cardinality({j \in S : j <= a}) < Cardinality({j \in S : j <= i})
    BY RanksUp
  <2>4. a = i
    BY <2>1, <2>2, <2>3
  <2> QED
    BY <2>2, <2>4
<1> QED
  BY <1>1, <1>3, <1>5, <1>6, <1>7

(* Of an interval, the k-th line is the k-th number.                          *)
LEMMA SortedInterval ==
  ASSUME NEW a \in Nat, NEW b \in Nat
  PROVE  /\ Sorted(a..b) \in Seq(a..b)
         /\ Len(Sorted(a..b)) = IF a > b THEN 0 ELSE b - a + 1
         /\ \A k \in 1..Len(Sorted(a..b)) : Sorted(a..b)[k] = a + k - 1
<1>1. IsFiniteSet(a..b) /\ Cardinality(a..b) = (IF a > b THEN 0 ELSE b - a + 1) /\ a..b \in SUBSET Nat
  BY FS_Interval
<1>2. PICK S \in SUBSET Nat : S = a..b
  BY <1>1
<1>3. Sorted(S) \in Seq(S) /\ Len(Sorted(S)) = Cardinality(S)
  BY <1>1, <1>2, SortedLines
<1>4. ASSUME NEW k \in 1..Len(Sorted(S))
      PROVE  Sorted(S)[k] = a + k - 1
  <2>0. IsFiniteSet(S) /\ k \in 1..Cardinality(S)
    BY <1>1, <1>2, <1>3, <1>4
  <2>1. PICK c \in S : c = Sorted(S)[k] /\ Cardinality({j \in S : j <= c}) = k
    BY <2>0, SortedLines
  <2>2. {j \in S : j <= c} = a..c /\ c \in Nat /\ a <= c
    BY <1>2
  <2>3. Cardinality(a..c) = c - a + 1
    BY <2>2, FS_Interval
  <2>4. k = c - a + 1
    BY <2>1, <2>2, <2>3
  <2> QED
    BY <2>1, <2>2, <2>4
<1> QED
  BY <1>1, <1>2, <1>3, <1>4

(* The sorted sequence holds the set, and nothing twice.                      *)
LEMMA SortedSet ==
  ASSUME NEW S \in SUBSET Nat, IsFiniteSet(S)
  PROVE  /\ Sorted(S) \in Seq(S) /\ Len(Sorted(S)) \in Nat /\ ToSet(Sorted(S)) = S
         /\ \A k \in 1..Len(Sorted(S)) : Sorted(S)[k] \in S
         /\ \A k, l \in 1..Len(Sorted(S)) : k < l => Sorted(S)[k] < Sorted(S)[l]
         /\ \A i \in S : \E k \in 1..Len(Sorted(S)) : Sorted(S)[k] = i
<1>1. Sorted(S) \in Seq(S) /\ Len(Sorted(S)) = Cardinality(S) /\ Cardinality(S) \in Nat
  BY SortedLines
<1>2. /\ \A k \in 1..Len(Sorted(S)) : Sorted(S)[k] \in S
      /\ \A k, l \in 1..Len(Sorted(S)) : k < l => Sorted(S)[k] < Sorted(S)[l]
      /\ \A i \in S : \E k \in 1..Len(Sorted(S)) : Sorted(S)[k] = i
  BY <1>1, SortedLines
<1>3. \A x : x \in ToSet(Sorted(S)) <=> \E k \in 1..Len(Sorted(S)) : Sorted(S)[k] = x
  BY <1>1, ToSetOfSeq
<1>4. \A x : x \in ToSet(Sorted(S)) <=> x \in S
  BY <1>2, <1>3
<1> QED
  BY <1>1, <1>2, <1>4

(* More frames are sent: each comes after what is known, on the wire or       *)
(* earlier in the new frames.                                                 *)
LEMMA FollowsConcat ==
  ASSUME NEW S, NEW s \in Seq(Frames), NEW t \in Seq(Frames), Follows(s, S),
         \A k \in 1..Len(t) : \/ t[k] \in Codes
                              \/ \A i \in 1..(t[k] - 1) : \/ i \in S \/ i \in ToSet(s)
                                                          \/ \E j \in 1..(k - 1) : t[j] = i
  PROVE  Follows(s \o t, S)
<1> DEFINE u == s \o t
<1>1. /\ u \in Seq(Frames) /\ Len(u) = Len(s) + Len(t) /\ Len(s) \in Nat /\ Len(t) \in Nat
      /\ \A i \in 1..Len(s) + Len(t) : u[i] = IF i <= Len(s) THEN s[i] ELSE t[i - Len(s)]
  BY ConcatProperties, LenProperties
<1> HIDE DEF u
<1>2. SUFFICES ASSUME NEW k \in 1..Len(u), u[k] \notin Codes, NEW i \in 1..(u[k] - 1), i \notin S
               PROVE  \E j \in 1..(k - 1) : u[j] = i
  BY DEF Follows, u
<1>3. CASE k <= Len(s)
  <2>1. u[k] = s[k] /\ k \in 1..Len(s)
    BY <1>1, <1>2, <1>3
  <2>2. PICK j \in 1..(k - 1) : s[j] = i
    BY <1>2, <2>1 DEF Follows
  <2>3. u[j] = i
    BY <1>1, <1>3, <2>2
  <2> QED
    BY <2>2, <2>3
<1>4. CASE ~(k <= Len(s))
  <2>1. PICK m : m = k - Len(s)
    OBVIOUS
  <2>2. m \in 1..Len(t) /\ u[k] = t[m]
    BY <1>1, <1>2, <1>4, <2>1
  <2>3. CASE i \in ToSet(s)
    <3>1. PICK j \in 1..Len(s) : s[j] = i
      BY <2>3, ToSetOfSeq
    <3>2. j \in 1..(k - 1) /\ u[j] = i
      BY <1>1, <1>2, <1>4, <3>1
    <3> QED
      BY <3>2
  <2>4. CASE \E j \in 1..(m - 1) : t[j] = i
    <3>1. PICK j \in 1..(m - 1) : t[j] = i
      BY <2>4
    <3>2. j \in Nat /\ j >= 1 /\ j + Len(s) <= k - 1 /\ j <= Len(t) /\ Len(s) \in Nat /\ k \in Nat
      BY <1>1, <1>2, <2>1, <2>2, <3>1
    <3>3. j + Len(s) \in 1..(k - 1) /\ j + Len(s) \in 1..Len(s) + Len(t) /\ ~(j + Len(s) <= Len(s))
      BY <1>1, <3>2
    <3>4. j + Len(s) - Len(s) = j
      BY <3>2
    <3>5. u[j + Len(s)] = t[j]
      BY <1>1, <3>3, <3>4
    <3> QED
      BY <3>1, <3>3, <3>5
  <2> QED
    BY <1>2, <2>2, <2>3, <2>4
<1> QED
  BY <1>3, <1>4

(* One frame more, sent after all that come before it.                        *)
LEMMA FollowsAppend ==
  ASSUME NEW S, NEW s \in Seq(Frames), NEW e \in Frames, Follows(s, S),
         e \in Codes \/ \A i \in 1..(e - 1) : i \in S \/ i \in ToSet(s)
  PROVE  Follows(Append(s, e), S)
<1>1. Append(s, e) = s \o <<e>> /\ <<e>> \in Seq(Frames) /\ Len(<<e>>) = 1 /\ <<e>>[1] = e
  BY AppendIsConcat
<1> DEFINE t == <<e>>
<1>2. \A k \in 1..Len(t) : k = 1 /\ t[k] = e
  BY <1>1
<1> HIDE DEF t
<1>3. t \in Seq(Frames)
  BY <1>1 DEF t
<1>4. Follows(s \o t, S)
  BY <1>2, <1>3, FollowsConcat
<1> QED
  BY <1>1, <1>4 DEF t

(* The first frames, and the others once the first has been received.         *)
LEMMA FollowsPrefix ==
  ASSUME NEW S, NEW s \in Seq(Frames), Follows(s, S), NEW m \in 0..Len(s)
  PROVE  /\ SubSeq(s, 1, m) \in Seq(Frames)
         /\ Follows(SubSeq(s, 1, m), S)
<1>1. \A i \in 1..m : s[i] \in Frames
  BY ElementOfSeq, LenProperties
<1>2. m \in Nat /\ 1 \in Int /\ m \in Int /\ Len(s) \in Nat
  BY LenProperties
<1>3. /\ SubSeq(s, 1, m) \in Seq(Frames) /\ Len(SubSeq(s, 1, m)) = m
      /\ \A i \in 1..m : SubSeq(s, 1, m)[i] = s[i]
  BY <1>1, <1>2, SubSeqProperties
<1> QED
  BY <1>2, <1>3 DEF Follows

(* The first frame has been received: the others still come after it.         *)
LEMMA FollowsTail ==
  ASSUME NEW S, NEW T, NEW s \in Seq(Frames), s # <<>>, Follows(s, S), S \subseteq T, Head(s) \in T
  PROVE  Follows(Tail(s), T)
<1>1. /\ Tail(s) \in Seq(Frames) /\ Len(Tail(s)) = Len(s) - 1 /\ Len(s) \in Nat
      /\ \A i \in 1..Len(Tail(s)) : Tail(s)[i] = s[i + 1]
  BY HeadTailProperties, LenProperties
<1>2. Head(s) = s[1]
  OBVIOUS
<1>3. PICK t : t = Tail(s)
  OBVIOUS
<1>4. SUFFICES ASSUME NEW k \in 1..Len(t), t[k] \notin Codes, NEW i \in 1..(t[k] - 1), i \notin T
               PROVE  \E j \in 1..(k - 1) : t[j] = i
  BY <1>3, ZenonT(60) DEF Follows
<1>5. k + 1 \in 1..Len(s) /\ t[k] = s[k + 1] /\ i \notin S
  BY <1>1, <1>3, <1>4
<1>6. PICK j \in 1..k : s[j] = i
  BY <1>4, <1>5 DEF Follows
<1>7. j # 1
  BY <1>2, <1>4, <1>6
<1>8. j - 1 \in 1..(k - 1) /\ t[j - 1] = i
  BY <1>1, <1>3, <1>4, <1>6, <1>7
<1> QED
  BY <1>8

----------------------------------------------------------------------------
(* What has been sent, buffered and shown are lines and close codes.          *)

LEMMA SortedTyped ==
  ASSUME SizesAssumption, NEW S \in SUBSET (1..MaxLines)
  PROVE  /\ Sorted(S) \in Seq(1..MaxLines) /\ Sorted(S) \in Seq(Frames)
         /\ S \in SUBSET Nat /\ IsFiniteSet(S)
<1>1. MaxLines \in Nat
  BY DEF SizesAssumption
<1>2. IsFiniteSet(S) /\ S \in SUBSET Nat
  <2>1. IsFiniteSet(1..MaxLines)
    BY <1>1, FS_Interval
  <2>2. S \in SUBSET Nat
    BY <1>1
  <2> QED
    BY <2>1, <2>2, FS_Subset
<1>3. Sorted(S) \in Seq(S)
  BY <1>2, SortedLines
<1> QED
  BY <1>2, <1>3, SeqMonotonic DEF Frames

(* The parts of the type invariant: the execution, the connection, the        *)
(* browser, and the history of what went wrong.                               *)
ServerTyped ==
  /\ stage \in {"running", "ending", "closed", "finished"}
  /\ n \in Nat /\ saved \in Nat /\ saved <= n /\ n <= MaxLines /\ db \subseteq 1..n
ConnTyped ==
  /\ sub \in [on : BOOLEAN, closed : BOOLEAN, q : Seq(1..MaxLines)]
  /\ handler \in [pc : {"none", "upgraded", "subscribed", "sent", "stream"},
                  running : BOOLEAN, replay : SUBSET (1..MaxLines)]
  /\ wire \in Seq(Frames) /\ sock \in {"none", "connecting", "open"}
Hooks == [seen : SUBSET (1..MaxLines), buffer : SUBSET (1..MaxLines),
          live : Seq(1..MaxLines), connected : BOOLEAN, clean : BOOLEAN,
          maxed : BOOLEAN, retries : 0..MaxRetries, timer : BOOLEAN]
BrowserTyped ==
  /\ hook \in Hooks /\ opened \in BOOLEAN /\ known \in {"running", "finished"}
  /\ stored \in [got : BOOLEAN, err : BOOLEAN, lines : Seq(1..MaxLines)]
  /\ toast \in [open : BOOLEAN, was : BOOLEAN]
BoundsTyped == faults \in 0..MaxFaults /\ opens \in 0..MaxOpens /\ lossy \in BOOLEAN

(* The parts together are the type invariant.                                 *)
LEMMA LogsTypes ==
  ASSUME SizesAssumption
  PROVE  LogsTypeOK <=> ServerTyped /\ ConnTyped /\ BrowserTyped /\ BoundsTyped
<1>1. MaxLines \in Nat
  BY DEF SizesAssumption
<1>2. n \in 0..MaxLines /\ saved \in 0..n <=> n \in Nat /\ saved \in Nat /\ saved <= n /\ n <= MaxLines
  BY <1>1
<1> QED
  BY <1>2 DEF LogsTypeOK, ServerTyped, ConnTyped, BrowserTyped, BoundsTyped, Hooks

(* So they are in the next state.                                             *)
LEMMA LogsTypesNext ==
  ASSUME SizesAssumption, ServerTyped', ConnTyped', BrowserTyped', BoundsTyped'
  PROVE  LogsTypeOK'
<1>1. MaxLines \in Nat
  BY DEF SizesAssumption
<1>2. n' \in 0..MaxLines /\ saved' \in 0..n'
  BY <1>1 DEF ServerTyped
<1> QED
  BY <1>2 DEF LogsTypeOK, ServerTyped, ConnTyped, BrowserTyped, BoundsTyped, Hooks

(* What an action leaves alone keeps its type.                                *)
LEMMA LogsTypesKept ==
  ASSUME SizesAssumption, LogsTypeOK
  PROVE  /\ (UNCHANGED server) => ServerTyped'
         /\ (UNCHANGED conn) => ConnTyped'
         /\ (UNCHANGED browser) => BrowserTyped'
         /\ (UNCHANGED bounds) /\ lossy' \in BOOLEAN => BoundsTyped'
         /\ Fault /\ lossy' \in BOOLEAN => BoundsTyped'
<1>1. ServerTyped /\ ConnTyped /\ BrowserTyped /\ BoundsTyped
  BY LogsTypes
<1>2. (UNCHANGED server) => ServerTyped'
  BY <1>1 DEF server, ServerTyped
<1>3. (UNCHANGED conn) => ConnTyped'
  BY <1>1 DEF conn, ConnTyped
<1>4. (UNCHANGED browser) => BrowserTyped'
  BY <1>1 DEF browser, BrowserTyped
<1>5. (UNCHANGED bounds) /\ lossy' \in BOOLEAN => BoundsTyped'
  BY <1>1 DEF bounds, BoundsTyped
<1>6. Fault /\ lossy' \in BOOLEAN => BoundsTyped'
  <2> SUFFICES ASSUME Fault, lossy' \in BOOLEAN PROVE BoundsTyped'
    OBVIOUS
  <2>1. MaxFaults \in Nat /\ faults \in 0..MaxFaults /\ opens \in 0..MaxOpens
    BY <1>1 DEF BoundsTyped, SizesAssumption
  <2>2. faults' \in 0..MaxFaults /\ opens' \in 0..MaxOpens
    BY <2>1 DEF Fault
  <2> QED
    BY <2>2 DEF BoundsTyped
<1> QED
  BY <1>2, <1>3, <1>4, <1>5, <1>6

(* The numbers, and that a line is not a close code.                          *)
LEMMA LogNumbers ==
  ASSUME SizesAssumption, LogsTypeOK
  PROVE  /\ MaxLines \in Nat /\ n \in Nat /\ saved \in Nat /\ saved <= n /\ n <= MaxLines
         /\ db \subseteq 1..n /\ History \subseteq db /\ Ring \subseteq 1..n
         /\ 1..n \subseteq 1..MaxLines /\ 1..MaxLines \subseteq Frames
         /\ 1..MaxLines \cap Codes = {} /\ Normal \in Frames /\ Abnormal \in Frames
         /\ Codes = {Normal, Abnormal} /\ Normal # Abnormal
         /\ sub.q \in Seq(1..MaxLines) /\ sub.q \in Seq(Frames) /\ Len(sub.q) \in Nat
         /\ wire \in Seq(Frames) /\ Len(wire) \in Nat /\ lossy \in BOOLEAN
<1>1. MaxLines \in Nat
  BY DEF SizesAssumption
<1>2. 1..MaxLines \subseteq Frames /\ Codes \subseteq Frames
  BY DEF Frames
<1>3. sub.q \in Seq(1..MaxLines) /\ wire \in Seq(Frames) /\ lossy \in BOOLEAN
  BY DEF LogsTypeOK
<1>4. sub.q \in Seq(Frames) /\ Len(sub.q) \in Nat /\ Len(wire) \in Nat
  BY <1>2, <1>3, SeqMonotonic, LenProperties
<1>5. n \in Nat /\ saved \in Nat /\ saved <= n /\ n <= MaxLines /\ db \subseteq 1..n
  BY LogsTypes DEF ServerTyped
<1>6. History \subseteq db /\ Ring \subseteq 1..n
  BY DEF History, Ring
<1>7. 1..MaxLines \cap Codes = {} /\ Normal # Abnormal
  BY <1>1 DEF Codes, Normal, Abnormal
<1>8. 1..n \subseteq 1..MaxLines
  BY <1>1, <1>5
<1>9. Codes = {Normal, Abnormal} /\ Normal \in Frames /\ Abnormal \in Frames
  BY <1>2 DEF Codes
<1> QED
  BY <1>1, <1>2, <1>3, <1>4, <1>5, <1>6, <1>7, <1>8, <1>9

(* The runner, the broker and the end of an execution keep the types.         *)
LEMMA ExecutionTyped ==
  ASSUME SizesAssumption, LogsTypeOK, Execution \/ Crash
  PROVE  LogsTypeOK'
<1>0. ServerTyped /\ ConnTyped /\ BrowserTyped /\ BoundsTyped
  BY LogsTypes
<1>a. FlushSize \in Nat /\ MaxLines \in Nat /\ lossy \in BOOLEAN
  BY <1>0 DEF SizesAssumption, BoundsTyped
<1>b. <<>> \in Seq(1..MaxLines)
  BY EmptySeq
<1>1. CASE Publish
  <2>1. n + 1 \in 1..MaxLines
    BY <1>0, <1>a, <1>1 DEF Publish, ServerTyped
  <2>2. ServerTyped'
    BY <1>0, <1>a, <1>1, <2>1 DEF Publish, ServerTyped
  <2>3. ConnTyped'
    <3>1. sub.q \in Seq(1..MaxLines)
      BY <1>0 DEF ConnTyped
    <3>2. Append(sub.q, n + 1) \in Seq(1..MaxLines)
      BY <2>1, <3>1, AppendProperties
    <3> QED
      BY <1>0, <1>1, <3>2 DEF Publish, ConnTyped
  <2>4. lossy' \in BOOLEAN
    BY <1>a, <1>1, Zenon DEF Publish
  <2> QED
    BY <1>1, <2>2, <2>3, <2>4, LogsTypesKept, LogsTypesNext DEF Publish
<1>2. CASE Flush
  <2>1. ServerTyped'
    <3>1. (saved + 1)..n \subseteq 1..n
      BY <1>0 DEF ServerTyped
    <3>2. db' \subseteq 1..n
      BY <1>0, <1>2, <3>1 DEF Flush, ServerTyped
    <3>3. UNCHANGED <<stage, n>> /\ saved' = n
      BY <1>2 DEF Flush
    <3> QED
      BY <1>0, <3>2, <3>3 DEF ServerTyped
  <2>2. BoundsTyped'
    BY <1>a, <1>2, LogsTypesKept DEF Flush
  <2> QED
    BY <1>2, <2>1, <2>2, LogsTypesKept, LogsTypesNext DEF Flush
<1>3. CASE LogChannelDrained \/ FinishExecution
  <2>1. ServerTyped'
    BY <1>0, <1>3 DEF LogChannelDrained, FinishExecution, ServerTyped
  <2> QED
    BY <1>a, <1>3, <2>1, LogsTypesKept, LogsTypesNext DEF LogChannelDrained, FinishExecution
<1>4. CASE BrokerClose
  <2>1. ServerTyped'
    BY <1>0, <1>4 DEF BrokerClose, ServerTyped
  <2>2. ConnTyped'
    BY <1>0, <1>4 DEF BrokerClose, ConnTyped
  <2> QED
    BY <1>a, <1>4, <2>1, <2>2, LogsTypesKept, LogsTypesNext DEF BrokerClose
<1>5. CASE Crash
  <2>1. ServerTyped'
    BY <1>0, <1>5 DEF Crash, ServerTyped
  <2>2. ConnTyped'
    <3>1. wire' \in Seq(Frames)
      <4>1. Append(wire, Abnormal) \in Seq(Frames) /\ <<>> \in Seq(Frames)
        BY LogNumbers, AppendProperties, EmptySeq
      <4> QED
        BY <1>5, <4>1 DEF Crash
    <3> QED
      BY <1>0, <1>b, <1>5, <3>1 DEF Crash, ConnTyped, NoSub, NoHandler
  <2>3. lossy' \in BOOLEAN
    BY <1>a, <1>5, Zenon DEF Crash
  <2> QED
    BY <1>5, <2>1, <2>2, <2>3, LogsTypesKept, LogsTypesNext DEF Crash
<1> QED
  BY <1>1, <1>2, <1>3, <1>4, <1>5 DEF Execution

(* The WebSocket handler, and what cuts its connection, keep the types.       *)
LEMMA ServerSideTyped ==
  ASSUME SizesAssumption, LogsTypeOK, Server \/ Refuse \/ SubscriberLimit \/ ConnectionLost
  PROVE  LogsTypeOK'
<1>0. ServerTyped /\ ConnTyped /\ BrowserTyped /\ BoundsTyped
  BY LogsTypes
<1>a. lossy \in BOOLEAN /\ MaxRetries \in Nat /\ wire \in Seq(Frames) /\ Len(wire) \in Nat
  BY <1>0, LogNumbers DEF SizesAssumption, BoundsTyped
<1>b. /\ NoSub \in [on : BOOLEAN, closed : BOOLEAN, q : Seq(1..MaxLines)]
      /\ NoHandler \in [pc : {"none", "upgraded", "subscribed", "sent", "stream"},
                        running : BOOLEAN, replay : SUBSET (1..MaxLines)]
  BY EmptySeq DEF NoSub, NoHandler
<1>c. History \in SUBSET (1..MaxLines) /\ Ring \in SUBSET (1..MaxLines)
  BY LogNumbers
<1>d. Sorted(History) \in Seq(Frames)
  BY <1>c, SortedTyped
<1>e. Append(wire, Normal) \in Seq(Frames) /\ <<Normal>> \in Seq(Frames) /\ <<Abnormal>> \in Seq(Frames)
  BY LogNumbers, AppendProperties
<1>1. CASE Accept
  <2>1. ConnTyped'
    BY <1>0, <1>b, <1>1 DEF Accept, ConnTyped, NoHandler
  <2>2. BrowserTyped'
    <3>0. 0 \in 0..MaxRetries /\ hook \in Hooks
      BY <1>0, <1>a DEF BrowserTyped
    <3>1. [hook EXCEPT !.connected = TRUE, !.retries = 0] \in Hooks
      BY <3>0 DEF Hooks
    <3>2. toast' \in [open : BOOLEAN, was : BOOLEAN]
      BY <1>0, <1>1 DEF Accept, Becomes, Toasted, BrowserTyped
    <3> QED
      BY <1>0, <1>1, <3>1, <3>2 DEF Accept, Becomes, BrowserTyped
  <2> QED
    BY <1>a, <1>1, <2>1, <2>2, LogsTypesKept, LogsTypesNext DEF Accept
<1>2. CASE Refuse
  <2>1. ConnTyped'
    BY <1>0, <1>e, <1>2 DEF Refuse, ConnTyped
  <2> QED
    BY <1>a, <1>2, <2>1, LogsTypesKept, LogsTypesNext DEF Refuse
<1>3. CASE SendFinished
  <2>1. wire \o Sorted(History) \o <<Normal>> \in Seq(Frames)
    BY <1>a, <1>d, <1>e, ConcatProperties
  <2>2. ConnTyped'
    BY <1>0, <1>b, <1>e, <1>3, <2>1 DEF SendFinished, ConnTyped
  <2>3. BoundsTyped'
    BY <1>a, <1>3, LogsTypesKept DEF SendFinished
  <2> QED
    BY <1>3, <2>2, <2>3, LogsTypesKept, LogsTypesNext DEF SendFinished, browser
<1>4. CASE Subscribe
  <2>1. ConnTyped'
    BY <1>0, <1>b, <1>c, <1>4 DEF Subscribe, ConnTyped, NoSub
  <2> QED
    BY <1>a, <1>4, <2>1, LogsTypesKept, LogsTypesNext DEF Subscribe
<1>5. CASE SubscriberLimit
  <2>1. ConnTyped'
    BY <1>0, <1>b, <1>e, <1>5 DEF SubscriberLimit, ConnTyped
  <2> QED
    BY <1>a, <1>5, <2>1, LogsTypesKept, LogsTypesNext DEF SubscriberLimit
<1>6. CASE SendHistory
  <2>1. handler.replay \in SUBSET (1..MaxLines)
    BY <1>0 DEF ConnTyped
  <2>2. Above(handler.replay, History) \in SUBSET (1..MaxLines)
    BY <2>1 DEF Above
  <2>3. Sorted(handler.replay) \in Seq(Frames) /\ Sorted(Above(handler.replay, History)) \in Seq(Frames)
    BY <2>1, <2>2, SortedTyped
  <2>4. /\ wire \o Sorted(History) \o Sorted(Above(handler.replay, History)) \in Seq(Frames)
        /\ wire \o Sorted(handler.replay) \in Seq(Frames)
    BY <1>a, <1>d, <2>3, ConcatProperties
  <2>5. wire' \in Seq(Frames)
    BY <1>6, <2>4 DEF SendHistory
  <2>6. ConnTyped'
    BY <1>0, <1>6, <2>5 DEF SendHistory, ConnTyped
  <2>7. BoundsTyped'
    BY <1>a, <1>6, LogsTypesKept DEF SendHistory
  <2> QED
    BY <1>6, <2>6, <2>7, LogsTypesKept, LogsTypesNext DEF SendHistory
<1>7. CASE Recheck
  <2>1. wire \o sub.q \o <<Normal>> \in Seq(Frames)
    BY <1>a, <1>e, LogNumbers, ConcatProperties
  <2>2. ConnTyped'
    BY <1>0, <1>b, <1>7, <2>1 DEF Recheck, ConnTyped
  <2> QED
    BY <1>a, <1>7, <2>2, LogsTypesKept, LogsTypesNext DEF Recheck
<1>8. CASE Stream
  <2>1. sub.q # <<>> => Append(wire, Head(sub.q)) \in Seq(Frames) /\ Tail(sub.q) \in Seq(1..MaxLines)
    <3>1. sub.q \in Seq(1..MaxLines) /\ 1..MaxLines \subseteq Frames
      BY LogNumbers
    <3>2. sub.q # <<>> => Head(sub.q) \in Frames /\ Tail(sub.q) \in Seq(1..MaxLines)
      BY <3>1, HeadTailProperties
    <3> QED
      BY <1>a, <3>2, AppendProperties
  <2>2. ConnTyped'
    BY <1>0, <1>b, <1>e, <1>8, <2>1 DEF Stream, ConnTyped
  <2> QED
    BY <1>a, <1>8, <2>2, LogsTypesKept, LogsTypesNext DEF Stream
<1>9. CASE ConnectionLost
  <2>1. PICK k \in 0..Len(wire) : wire' = Append(SubSeq(wire, 1, k), Abnormal)
    BY <1>9 DEF ConnectionLost
  <2>2. SubSeq(wire, 1, k) \in Seq(Frames)
    <3>1. \A i \in 1..k : wire[i] \in Frames
      BY <1>a, ElementOfSeq
    <3> QED
      BY <1>a, <3>1, SubSeqProperties
  <2>3. wire' \in Seq(Frames)
    BY <2>1, <2>2, LogNumbers, AppendProperties
  <2>4. ConnTyped'
    BY <1>0, <1>b, <1>9, <2>3 DEF ConnectionLost, ConnTyped
  <2> QED
    BY <1>a, <1>9, <2>4, LogsTypesKept, LogsTypesNext DEF ConnectionLost
<1> QED
  BY <1>1, <1>2, <1>3, <1>4, <1>5, <1>6, <1>7, <1>8, <1>9 DEF Server

(* The hook and the viewer keep the types.                                    *)
LEMMA BrowserSideTyped ==
  ASSUME SizesAssumption, LogsTypeOK, Browser \/ OpenViewer \/ CloseViewer \/ DismissToast
  PROVE  LogsTypeOK'
<1>0. ServerTyped /\ ConnTyped /\ BrowserTyped /\ BoundsTyped
  BY LogsTypes
<1>a. /\ lossy \in BOOLEAN /\ MaxRetries \in Nat /\ MaxOpens \in Nat /\ wire \in Seq(Frames)
      /\ wire # <<>> => Tail(wire) \in Seq(Frames) /\ Head(wire) \in Frames
      /\ <<>> \in Seq(Frames) /\ hook \in Hooks
  BY <1>0, LogNumbers, HeadTailProperties, EmptySeq DEF SizesAssumption, BoundsTyped, BrowserTyped
<1>b. /\ NoSub \in [on : BOOLEAN, closed : BOOLEAN, q : Seq(1..MaxLines)]
      /\ NoHandler \in [pc : {"none", "upgraded", "subscribed", "sent", "stream"},
                        running : BOOLEAN, replay : SUBSET (1..MaxLines)]
  BY EmptySeq DEF NoSub, NoHandler
<1>c. FreshHook \in Hooks
  BY <1>a, EmptySeq DEF FreshHook, Hooks
<1>d. History \in SUBSET (1..MaxLines)
  BY LogNumbers
<1>1. CASE PollStatus
  <2>1. ConnTyped'
    BY <1>a, <1>b, <1>1 DEF PollStatus, Hangup, ConnTyped
  <2>2. BrowserTyped'
    <3>1. [hook EXCEPT !.buffer = {}, !.timer = FALSE] \in Hooks
      BY <1>a DEF Hooks
    <3>2. toast' \in [open : BOOLEAN, was : BOOLEAN]
      BY <1>1 DEF PollStatus, Toasted, Reported
    <3>3. hook' \in Hooks /\ known' = "finished" /\ UNCHANGED <<opened, stored>>
      BY <1>1, <3>1 DEF PollStatus
    <3> QED
      BY <1>0, <3>2, <3>3 DEF BrowserTyped
  <2> QED
    BY <1>a, <1>1, <2>1, <2>2, LogsTypesKept, LogsTypesNext DEF PollStatus
<1>2. CASE FetchLogs
  <2>1. Sorted(History) \in Seq(1..MaxLines)
    BY <1>d, SortedTyped
  <2>2. BrowserTyped'
    <3>1. stored \in [got : BOOLEAN, err : BOOLEAN, lines : Seq(1..MaxLines)]
      BY <1>0 DEF BrowserTyped
    <3>2. [got |-> TRUE, err |-> FALSE, lines |-> Sorted(History)]
            \in [got : BOOLEAN, err : BOOLEAN, lines : Seq(1..MaxLines)]
      BY <2>1
    <3>3. stored' \in [got : BOOLEAN, err : BOOLEAN, lines : Seq(1..MaxLines)]
      BY <1>2, <3>1, <3>2 DEF FetchLogs
    <3>4. UNCHANGED <<hook, opened, known, toast>>
      BY <1>2 DEF FetchLogs
    <3> QED
      BY <1>0, <3>3, <3>4 DEF BrowserTyped
  <2>3. BoundsTyped'
    BY <1>a, <1>2, LogsTypesKept DEF FetchLogs
  <2> QED
    BY <1>2, <2>2, <2>3, LogsTypesKept, LogsTypesNext DEF FetchLogs
<1>3. CASE Receive
  <2>1. ConnTyped'
    BY <1>0, <1>a, <1>3 DEF Receive, ConnTyped
  <2>2. Head(wire) \in 1..MaxLines
    BY <1>a, <1>3 DEF Receive, Frames
  <2>3. hook' \in Hooks
    <3>1. PICK kept \in SUBSET (1..MaxLines) :
            hook' = IF Head(wire) \in hook.seen THEN hook
                    ELSE [hook EXCEPT !.seen = kept \cup {Head(wire)}, !.buffer = @ \cup {Head(wire)}]
      <4>1. hook.seen \in SUBSET (1..MaxLines)
        BY <1>a DEF Hooks
      <4>2. {i \in hook.seen : Cardinality({j \in hook.seen : j >= i}) <= SeenTrim} \in SUBSET (1..MaxLines)
        BY <4>1
      <4> QED
        BY <1>3, <4>1, <4>2 DEF Receive
    <3> QED
      BY <1>a, <2>2, <3>1 DEF Hooks
  <2>4. BrowserTyped'
    BY <1>0, <1>3, <2>3 DEF Receive, BrowserTyped
  <2> QED
    BY <1>a, <1>3, <2>1, <2>4, LogsTypesKept, LogsTypesNext DEF Receive
<1>4. CASE Frame
  <2>1. hook.buffer \in SUBSET (1..MaxLines) /\ hook.live \in Seq(1..MaxLines)
    BY <1>a DEF Hooks
  <2>2. hook.live \o Sorted(hook.buffer) \in Seq(1..MaxLines)
    BY <2>1, SortedTyped, ConcatProperties
  <2>3. hook' \in Hooks
    BY <1>a, <1>4, <2>2 DEF Frame, Hooks
  <2>4. BrowserTyped'
    BY <1>0, <1>4, <2>3 DEF Frame, BrowserTyped
  <2> QED
    BY <1>a, <1>4, <2>4, LogsTypesKept, LogsTypesNext DEF Frame
<1>5. CASE OnClose
  <2>1. ConnTyped'
    BY <1>a, <1>b, <1>5 DEF OnClose, Hangup, ConnTyped
  <2>2. PICK off : off = [hook EXCEPT !.connected = FALSE]
    OBVIOUS
  <2>3. off \in Hooks
    BY <1>a, <2>2 DEF Hooks
  <2>4. hook' \in Hooks
    <3>1. [off EXCEPT !.clean = TRUE] \in Hooks /\ [off EXCEPT !.maxed = TRUE] \in Hooks
      BY <2>3 DEF Hooks
    <3>2. ASSUME ~(hook.retries >= MaxRetries)
          PROVE  [off EXCEPT !.retries = @ + 1, !.timer = TRUE] \in Hooks
      <4>1. off.retries \in 0..MaxRetries /\ off.retries = hook.retries
        BY <1>a, <2>2 DEF Hooks
      <4>2. PICK r : r = off.retries + 1
        OBVIOUS
      <4>3. r \in 0..MaxRetries
        BY <1>a, <3>2, <4>1, <4>2
      <4>4. [off EXCEPT !.retries = r, !.timer = TRUE] \in Hooks
        BY <2>3, <4>3 DEF Hooks
      <4> QED
        BY <4>2, <4>4
    <3> QED
      BY <1>5, <2>2, <3>1, <3>2 DEF OnClose, Becomes
  <2>5. toast' \in [open : BOOLEAN, was : BOOLEAN]
    BY <1>0, <1>5 DEF OnClose, Becomes, Toasted, BrowserTyped
  <2>6. BrowserTyped'
    BY <1>0, <1>5, <2>4, <2>5 DEF OnClose, BrowserTyped
  <2> QED
    BY <1>a, <1>5, <2>1, <2>6, LogsTypesKept, LogsTypesNext DEF OnClose
<1>6. CASE Reconnect
  <2>1. ConnTyped'
    BY <1>0, <1>6 DEF Reconnect, ConnTyped
  <2>2. hook' \in Hooks
    BY <1>a, <1>6 DEF Reconnect, Hooks
  <2>3. BrowserTyped'
    BY <1>0, <1>6, <2>2 DEF Reconnect, BrowserTyped
  <2> QED
    BY <1>a, <1>6, <2>1, <2>3, LogsTypesKept, LogsTypesNext DEF Reconnect
<1>7. CASE OpenViewer
  <2>1. ConnTyped'
    BY <1>0, <1>7 DEF OpenViewer, ConnTyped
  <2>2. BrowserTyped'
    BY <1>0, <1>c, <1>7 DEF OpenViewer, BrowserTyped
  <2>3. BoundsTyped'
    BY <1>0, <1>a, <1>7 DEF OpenViewer, BoundsTyped
  <2> QED
    BY <1>7, <2>1, <2>2, <2>3, LogsTypesKept, LogsTypesNext DEF OpenViewer
<1>8. CASE CloseViewer
  <2>1. ConnTyped'
    BY <1>a, <1>b, <1>8 DEF CloseViewer, Hangup, ConnTyped
  <2>2. BrowserTyped'
    BY <1>0, <1>c, <1>8 DEF CloseViewer, BrowserTyped
  <2> QED
    BY <1>a, <1>8, <2>1, <2>2, LogsTypesKept, LogsTypesNext DEF CloseViewer
<1>9. CASE DismissToast
  <2>1. BrowserTyped'
    BY <1>0, <1>9 DEF DismissToast, BrowserTyped
  <2> QED
    BY <1>a, <1>9, <2>1, LogsTypesKept, LogsTypesNext DEF DismissToast
<1> QED
  BY <1>1, <1>2, <1>3, <1>4, <1>5, <1>6, <1>7, <1>8, <1>9 DEF Browser

(* Every step keeps the types.                                                *)
LEMMA LogsTyped ==
  ASSUME SizesAssumption, LogsTypeOK, LogsNext
  PROVE  LogsTypeOK'
BY ExecutionTyped, ServerSideTyped, BrowserSideTyped DEF LogsNext, Outside

----------------------------------------------------------------------------
(* Whose turn it is: sockets, handlers and subscribers.                       *)

LEMMA ConnectedExecution ==
  ASSUME SizesAssumption, LogsTypeOK, Connected, Execution \/ Crash
  PROVE  Connected'
<1>0. ServerTyped /\ ConnTyped /\ BrowserTyped /\ BoundsTyped
  BY LogsTypes
<1>a. UNCHANGED <<known, opened, hook>>
  BY DEF Execution, Publish, Flush, LogChannelDrained, BrokerClose, FinishExecution, Crash, browser, conn
<1>1. CASE Publish
  <2>1. UNCHANGED <<stage, sock, handler, wire>> /\ sub'.on = sub.on /\ (~sub.on => sub' = sub)
    BY <1>0, <1>1 DEF Publish, ConnTyped
  <2> QED
    BY <1>a, <2>1 DEF Connected
<1>2. CASE Flush
  BY <1>a, <1>2 DEF Flush, conn, Connected
<1>3. CASE LogChannelDrained \/ FinishExecution
  BY <1>a, <1>3 DEF LogChannelDrained, FinishExecution, conn, Connected
<1>4. CASE BrokerClose
  <2>1. UNCHANGED <<sock, handler, wire>> /\ sub'.on = sub.on /\ (~sub.on => sub' = sub)
    BY <1>0, <1>4 DEF BrokerClose, ConnTyped
  <2> QED
    BY <1>a, <1>4, <2>1 DEF BrokerClose, Connected
<1>5. CASE Crash
  <2>1. sub' = NoSub /\ handler' = NoHandler /\ UNCHANGED sock /\ stage' = "finished"
    BY <1>5 DEF Crash
  <2>2. sock = "none" => wire' = <<>>
    BY <1>5 DEF Crash
  <2>3. sock # "open" => \A k \in 1..Len(wire') : wire'[k] = Abnormal
    <3>1. CASE sock = "connecting"
      <4>1. wire' = Append(wire, Abnormal)
        BY <1>5, <3>1 DEF Crash
      <4>2. /\ Len(wire') = Len(wire) + 1 /\ wire'[Len(wire) + 1] = Abnormal /\ Len(wire) \in Nat
            /\ \A i \in 1..Len(wire) : wire'[i] = wire[i]
        BY <4>1, LogNumbers, AppendProperties
      <4> QED
        BY <3>1, <4>2 DEF Connected
    <3>2. CASE sock = "none"
      BY <2>2, <3>2
    <3> QED
      BY <1>0, <3>1, <3>2 DEF ConnTyped
  <2>4. ~NoSub.on /\ NoHandler.pc = "none"
    BY DEF NoSub, NoHandler
  <2> QED
    BY <1>a, <2>1, <2>2, <2>3, <2>4 DEF Connected
<1> QED
  BY <1>1, <1>2, <1>3, <1>4, <1>5 DEF Execution

(* The handler answers only while a socket is open.                           *)
LEMMA ConnectedServer ==
  ASSUME SizesAssumption, LogsTypeOK, Connected, Server \/ Refuse \/ SubscriberLimit \/ ConnectionLost
  PROVE  Connected'
<1>0. ServerTyped /\ ConnTyped /\ BrowserTyped /\ BoundsTyped
  BY LogsTypes
<1>a. UNCHANGED <<stage, known, opened>>
  BY DEF Server, Accept, SendFinished, Subscribe, SendHistory, Recheck, Stream, Refuse, SubscriberLimit,
         ConnectionLost, browser, server
<1>b. /\ ~NoSub.on /\ NoHandler.pc = "none"
      /\ handler.pc # "none" => sock = "open"
  BY DEF NoSub, NoHandler, Connected
<1>1. CASE Accept
  <2>1. /\ sock' = "open" /\ UNCHANGED <<sub, wire>> /\ handler.pc = "none" /\ sock = "connecting"
        /\ handler'.pc = "upgraded"
    BY <1>1 DEF Accept, NoHandler
  <2>2. hook'.connected /\ hook'.buffer = hook.buffer /\ hook'.timer = hook.timer
    BY <1>0, <1>1 DEF Accept, Becomes, BrowserTyped, Hooks
  <2> QED
    BY <1>a, <2>1, <2>2 DEF Connected
<1>2. CASE Refuse
  <2>1. UNCHANGED <<sock, sub, handler, hook>> /\ wire' = <<Abnormal>> /\ sock = "connecting"
    BY <1>2 DEF Refuse, browser
  <2>2. \A k \in 1..Len(wire') : wire'[k] = Abnormal
    BY <2>1
  <2> QED
    BY <1>a, <2>1, <2>2 DEF Connected
<1>3. CASE SendFinished \/ SubscriberLimit
  <2>1. UNCHANGED <<sock, sub, hook>> /\ handler' = NoHandler /\ handler.pc = "upgraded"
    BY <1>3 DEF SendFinished, SubscriberLimit, browser
  <2> QED
    BY <1>a, <1>b, <2>1 DEF Connected
<1>4. CASE Subscribe
  <2>1. UNCHANGED <<sock, hook, wire>> /\ handler.pc = "upgraded" /\ handler'.pc = "subscribed" /\ sub'.on
    BY <1>0, <1>4 DEF Subscribe, browser, ConnTyped, NoSub
  <2> QED
    BY <1>a, <1>b, <2>1 DEF Connected
<1>5. CASE SendHistory
  <2>1. UNCHANGED <<sock, hook, sub>> /\ handler.pc = "subscribed" /\ handler'.pc = "sent"
    BY <1>0, <1>5 DEF SendHistory, browser, ConnTyped
  <2> QED
    BY <1>a, <1>b, <2>1 DEF Connected
<1>6. CASE Recheck
  <2>1. UNCHANGED <<sock, hook>> /\ handler.pc = "sent"
        /\ \/ handler'.pc = "stream" /\ sub' = sub
           \/ handler' = NoHandler /\ sub' = NoSub
    BY <1>0, <1>6 DEF Recheck, browser, ConnTyped
  <2> QED
    BY <1>a, <1>b, <2>1 DEF Connected
<1>7. CASE Stream
  <2>1. UNCHANGED <<sock, hook>> /\ handler.pc = "stream"
        /\ \/ handler' = handler /\ sub'.on = sub.on
           \/ handler' = NoHandler /\ sub' = NoSub
    BY <1>0, <1>7 DEF Stream, browser, ConnTyped
  <2> QED
    BY <1>a, <1>b, <2>1 DEF Connected
<1>8. CASE ConnectionLost
  <2>1. UNCHANGED <<sock, hook>> /\ handler.pc # "none" /\ handler' = NoHandler /\ sub' = NoSub
    BY <1>8 DEF ConnectionLost, browser
  <2> QED
    BY <1>a, <1>b, <2>1 DEF Connected
<1> QED
  BY <1>1, <1>2, <1>3, <1>4, <1>5, <1>6, <1>7, <1>8 DEF Server

(* The hook gives the socket up before it opens another.                      *)
LEMMA ConnectedBrowser ==
  ASSUME SizesAssumption, LogsTypeOK, Connected, Browser \/ OpenViewer \/ CloseViewer \/ DismissToast
  PROVE  Connected'
<1>0. ServerTyped /\ ConnTyped /\ BrowserTyped /\ BoundsTyped
  BY LogsTypes
<1>a. UNCHANGED stage
  BY DEF Browser, PollStatus, FetchLogs, Receive, Frame, OnClose, Reconnect, OpenViewer, CloseViewer,
         DismissToast, server
<1>b. /\ ~NoSub.on /\ NoHandler.pc = "none" /\ Len(<<>>) = 0
      /\ handler.pc # "none" => sock = "open"
  BY DEF NoSub, NoHandler, Connected
<1>c. hook \in Hooks
  BY <1>0 DEF BrowserTyped
<1>d. FreshHook.buffer = {} /\ ~FreshHook.timer
  BY DEF FreshHook
<1>1. CASE PollStatus
  <2>1. /\ sock' = "none" /\ handler' = NoHandler /\ sub' = NoSub /\ wire' = <<>>
        /\ stage = "finished" /\ opened' = opened
    BY <1>1 DEF PollStatus, Hangup
  <2>2. hook'.buffer = {} /\ ~hook'.timer
    BY <1>c, <1>1 DEF PollStatus, Hooks
  <2> QED
    BY <1>a, <1>b, <2>1, <2>2 DEF Connected
<1>2. CASE FetchLogs \/ DismissToast
  BY <1>a, <1>2 DEF FetchLogs, DismissToast, conn, Connected
<1>3. CASE Receive
  <2>1. UNCHANGED <<sock, handler, sub, opened, known>> /\ sock = "open"
    BY <1>3 DEF Receive
  <2>2. hook'.timer = hook.timer /\ hook'.connected = hook.connected
    BY <1>c, <1>3 DEF Receive, Hooks
  <2> QED
    BY <1>a, <2>1, <2>2 DEF Connected
<1>4. CASE Frame
  <2>1. UNCHANGED <<sock, handler, sub, wire, opened, known>>
    BY <1>4 DEF Frame, conn
  <2>2. hook'.timer = hook.timer /\ hook'.connected = hook.connected /\ hook'.buffer = {}
    BY <1>c, <1>4 DEF Frame, Hooks
  <2> QED
    BY <1>a, <2>1, <2>2 DEF Connected
<1>5. CASE OnClose
  <2>1. /\ sock' = "none" /\ handler' = NoHandler /\ sub' = NoSub /\ wire' = <<>>
        /\ wire # <<>> /\ UNCHANGED <<known, opened>>
    BY <1>5 DEF OnClose, Hangup
  <2>2. known = "running"
    BY <1>0, <2>1 DEF Connected, BrowserTyped
  <2> QED
    BY <1>a, <1>b, <2>1, <2>2 DEF Connected
<1>6. CASE Reconnect
  <2>1. /\ hook.timer /\ opened /\ known = "running" /\ sock' = "connecting"
        /\ UNCHANGED <<sub, handler, wire, opened, known>>
    BY <1>6 DEF Reconnect, Streaming
  <2>2. ~hook'.timer
    BY <1>c, <1>6 DEF Reconnect, Hooks
  <2>3. handler = NoHandler /\ wire = <<>>
    BY <2>1 DEF Connected
  <2> QED
    BY <1>a, <1>b, <2>1, <2>2, <2>3 DEF Connected
<1>7. CASE OpenViewer
  <2>1. /\ opened' /\ hook' = FreshHook /\ UNCHANGED <<sub, handler, wire>>
        /\ sock' = IF known' = "running" THEN "connecting" ELSE "none"
        /\ known' = "finished" => known = "finished" \/ stage = "finished"
    BY <1>7 DEF OpenViewer
  <2>2. handler = NoHandler /\ wire = <<>>
    BY <1>7 DEF OpenViewer, Connected
  <2> QED
    BY <1>a, <1>b, <1>d, <2>1, <2>2 DEF Connected
<1>8. CASE CloseViewer
  <2>1. /\ sock' = "none" /\ handler' = NoHandler /\ sub' = NoSub /\ wire' = <<>>
        /\ hook' = FreshHook /\ UNCHANGED known
    BY <1>8 DEF CloseViewer, Hangup
  <2> QED
    BY <1>a, <1>b, <1>d, <2>1 DEF Connected
<1> QED
  BY <1>1, <1>2, <1>3, <1>4, <1>5, <1>6, <1>7, <1>8 DEF Browser

(* Every step keeps the connection in order.                                  *)
LEMMA ConnectedStep ==
  ASSUME SizesAssumption, LogsTypeOK, Connected, LogsNext
  PROVE  Connected'
BY ConnectedExecution, ConnectedServer, ConnectedBrowser DEF LogsNext, Outside

----------------------------------------------------------------------------
(* The stored log and the notice.                                             *)

LEMMA StoredStep ==
  ASSUME SizesAssumption, LogsTypeOK, Connected, Batched, FinalComplete, LogsNext
  PROVE  Batched' /\ FinalComplete'
<1>0. n \in Nat /\ saved \in Nat /\ FlushSize \in Nat /\ saved <= n
  BY LogNumbers DEF SizesAssumption
<1>1. CASE Execution \/ Crash
  <2>1. UNCHANGED stored
    BY <1>1 DEF Execution, Publish, Flush, LogChannelDrained, BrokerClose, FinishExecution, Crash, browser
  <2>2. stage = "finished" => UNCHANGED <<stage, n, saved, db>>
    BY <1>1 DEF Execution, Publish, Flush, LogChannelDrained, BrokerClose, FinishExecution, Crash
  <2>3. stored.got => FinalComplete'
    BY <2>1, <2>2 DEF FinalComplete, History
  <2>4. Batched'
    <3>1. CASE Publish
      BY <1>0, <3>1 DEF Publish, Batched
    <3>2. CASE Flush
      BY <1>0, <3>2 DEF Flush, Batched
    <3>3. CASE LogChannelDrained \/ BrokerClose \/ FinishExecution
      BY <1>0, <3>3 DEF LogChannelDrained, BrokerClose, FinishExecution, Batched
    <3>4. CASE Crash
      BY <1>0, <3>4 DEF Crash, Batched
    <3> QED
      BY <1>1, <3>1, <3>2, <3>3, <3>4 DEF Execution
  <2> QED
    BY <2>1, <2>3, <2>4 DEF FinalComplete
<1>2. CASE Server \/ Refuse \/ SubscriberLimit \/ ConnectionLost
  <2>1. UNCHANGED <<stored, stage, n, saved, db>>
    BY <1>2 DEF Server, Accept, SendFinished, Subscribe, SendHistory, Recheck, Stream, Refuse,
                SubscriberLimit, ConnectionLost, browser, server
  <2> QED
    BY <2>1 DEF Batched, FinalComplete, History
<1>3. CASE Browser \/ OpenViewer \/ CloseViewer \/ DismissToast
  <2>1. UNCHANGED <<stage, n, saved, db>>
    BY <1>3 DEF Browser, PollStatus, FetchLogs, Receive, Frame, OnClose, Reconnect, OpenViewer, CloseViewer,
                DismissToast, server
  <2>2. Batched' /\ History' = History
    BY <2>1 DEF Batched, History
  <2>3. CASE FetchLogs
    <3>1. \/ stored' = [got |-> TRUE, err |-> FALSE, lines |-> Sorted(History)]
          \/ stored' = [stored EXCEPT !.err = TRUE] /\ ~stored.got
      BY <2>3 DEF FetchLogs
    <3>2. stage = "finished" /\ saved = n
      BY <2>3 DEF FetchLogs, Connected, Batched
    <3>3. stored \in [got : BOOLEAN, err : BOOLEAN, lines : Seq(1..MaxLines)]
      BY DEF LogsTypeOK
    <3>4. stored'.got => stored'.lines = Sorted(History)
      BY <3>1, <3>3
    <3> QED
      BY <2>1, <2>2, <3>2, <3>4 DEF FinalComplete
  <2>4. CASE ~FetchLogs
    <3>1. UNCHANGED stored
      BY <1>3, <2>4 DEF Browser, PollStatus, Receive, Frame, OnClose, Reconnect, OpenViewer, CloseViewer,
                DismissToast
    <3> QED
      BY <2>1, <2>2, <3>1 DEF FinalComplete
  <2> QED
    BY <2>2, <2>3, <2>4
<1> QED
  BY <1>1, <1>2, <1>3 DEF LogsNext, Outside

(* The notice of a lost stream goes when the stream is back or has ended.     *)
LEMMA NoticeStep ==
  ASSUME SizesAssumption, LogsTypeOK, Connected, NoticeTrue, LogsNext
  PROVE  NoticeTrue'
<1>0. /\ hook \in Hooks /\ toast \in [open : BOOLEAN, was : BOOLEAN]
      /\ toast.open => opened /\ known = "running" /\ ~hook.connected /\ ~hook.clean
  BY LogsTypes DEF BrowserTyped, NoticeTrue, Screen, Streaming
<1>1. SUFFICES toast'.open => opened' /\ known' = "running" /\ ~hook'.connected /\ ~hook'.clean
  BY DEF NoticeTrue, Screen, Streaming
<1>2. CASE Execution \/ Crash \/ FetchLogs
  <2>1. UNCHANGED <<hook, opened, known, toast>>
    BY <1>2 DEF Execution, Publish, Flush, LogChannelDrained, BrokerClose, FinishExecution, Crash, FetchLogs,
                browser
  <2> QED
    BY <1>0, <2>1
<1>3. CASE SendFinished \/ Subscribe \/ SendHistory \/ Recheck \/ Stream \/ Refuse \/ SubscriberLimit
           \/ ConnectionLost
  <2>1. UNCHANGED <<hook, opened, known, toast>>
    BY <1>3 DEF SendFinished, Subscribe, SendHistory, Recheck, Stream, Refuse, SubscriberLimit, ConnectionLost,
                browser
  <2> QED
    BY <1>0, <2>1
<1>4. CASE Accept
  <2>1. hook'.connected /\ hook'.clean = hook.clean
    BY <1>0, <1>4 DEF Accept, Becomes, Hooks
  <2>2. toast' = IF hook.connected THEN toast ELSE [open |-> FALSE, was |-> TRUE]
    BY <1>0, <1>4, <2>1 DEF Accept, Becomes, Toasted, Reported
  <2> QED
    BY <1>0, <2>2
<1>5. CASE Receive \/ Frame \/ Reconnect
  <2>1. UNCHANGED <<opened, known, toast>> /\ hook'.connected = hook.connected /\ hook'.clean = hook.clean
    BY <1>0, <1>5 DEF Receive, Frame, Reconnect, Hooks
  <2> QED
    BY <1>0, <2>1
<1>6. CASE PollStatus
  <2>1. toast' = [open |-> FALSE, was |-> TRUE]
    BY <1>6 DEF PollStatus, Toasted, Reported
  <2> QED
    BY <2>1
<1>7. CASE OpenViewer \/ CloseViewer
  <2>1. toast' = [open |-> FALSE, was |-> FALSE]
    BY <1>7 DEF OpenViewer, CloseViewer
  <2> QED
    BY <2>1
<1>8. CASE DismissToast
  BY <1>0, <1>8 DEF DismissToast
<1>9. CASE OnClose
  <2>1. wire # <<>> /\ Head(wire) \in Codes /\ UNCHANGED <<opened, known>>
    BY <1>9 DEF OnClose
  <2>2. opened /\ known = "running"
    BY <2>1, LogsTypes DEF Connected, BrowserTyped
  <2>3. ~hook'.connected /\ (hook'.clean => hook.clean \/ Head(wire) = Normal)
    BY <1>0, <1>9 DEF OnClose, Becomes, Hooks
  <2>4. CASE Head(wire) = Normal
    <3>1. sock = "open"
      <4>1. Head(wire) = wire[1] /\ 1 \in 1..Len(wire)
        BY <2>1, LogNumbers, EmptySeq
      <4> QED
        BY <2>4, <4>1, LogNumbers DEF Connected
    <3>2. ~toast.open
      BY <1>0, <3>1 DEF Connected
    <3>3. hook' = [[hook EXCEPT !.connected = FALSE] EXCEPT !.clean = TRUE]
      BY <1>9, <2>4 DEF OnClose, Becomes
    <3>4. hook'.clean
      BY <1>0, <3>3 DEF Hooks
    <3>5. toast' = toast \/ toast' = [open |-> FALSE, was |-> TRUE]
      BY <1>9, <2>4, <3>3, <3>4 DEF OnClose, Becomes, Toasted
    <3> QED
      BY <3>2, <3>5
  <2>5. CASE Head(wire) # Normal
    <3>1. hook'.clean = hook.clean
      BY <1>0, <1>9, <2>5 DEF OnClose, Becomes, Hooks
    <3>2. CASE hook.clean
      <4>1. toast' = toast \/ toast' = [open |-> FALSE, was |-> TRUE]
        BY <1>9, <3>1, <3>2 DEF OnClose, Becomes, Toasted
      <4> QED
        BY <1>0, <3>2, <4>1
    <3>3. CASE ~hook.clean
      BY <2>1, <2>2, <2>3, <3>1, <3>3
    <3> QED
      BY <3>2, <3>3
  <2> QED
    BY <2>4, <2>5
<1> QED
  BY <1>2, <1>3, <1>4, <1>5, <1>6, <1>7, <1>8, <1>9 DEF LogsNext, Server, Browser, Outside

----------------------------------------------------------------------------
(* No line twice: what is shown or buffered is what the hook has seen.        *)

LEMMA SeenStep ==
  ASSUME SizesAssumption, MaxLines <= MaxSeen, LogsTypeOK, Connected, LiveUnique,
         known = "running" => hook.seen = Got, LogsNext
  PROVE  LiveUnique' /\ (known' = "running" => hook'.seen = Got')
<1>0. /\ hook \in Hooks /\ hook.live \in Seq(1..MaxLines)
      /\ hook.buffer \in SUBSET (1..MaxLines) /\ hook.seen \in SUBSET (1..MaxLines)
      /\ known \in {"running", "finished"}
  BY LogsTypes DEF BrowserTyped, Hooks
<1>1. MaxLines \in Nat /\ MaxSeen \in Nat
  BY DEF SizesAssumption
<1>2. CASE UNCHANGED <<hook, known>>
  BY <1>2 DEF LiveUnique, Got
<1>3. CASE Accept \/ OnClose \/ Reconnect
  <2>1. /\ hook'.live = hook.live /\ hook'.buffer = hook.buffer /\ hook'.seen = hook.seen
        /\ known' = known
    BY <1>0, <1>3 DEF Accept, OnClose, Reconnect, Becomes, Hooks
  <2> QED
    BY <2>1 DEF LiveUnique, Got
<1>4. CASE OpenViewer \/ CloseViewer
  <2>1. hook'.live = <<>> /\ hook'.buffer = {} /\ hook'.seen = {}
    BY <1>4 DEF OpenViewer, CloseViewer, FreshHook
  <2>2. ToSet(<<>>) = {} /\ IsInjective(<<>>)
    BY DEF ToSet, IsInjective
  <2> QED
    BY <2>1, <2>2 DEF LiveUnique, Got
<1>5. CASE PollStatus
  <2>1. hook'.live = hook.live /\ hook'.buffer = {} /\ known' = "finished"
    BY <1>0, <1>5 DEF PollStatus, Hooks
  <2> QED
    BY <2>1 DEF LiveUnique
<1>6. CASE Receive
  <2>1. known = "running" /\ known' = known
    BY <1>0, <1>6 DEF Receive, Connected
  <2>2. CASE Head(wire) \in hook.seen
    <3>1. hook' = hook
      BY <1>6, <2>2 DEF Receive
    <3> QED
      BY <1>2, <2>1, <3>1
  <2>3. CASE Head(wire) \notin hook.seen
    <3>1. PICK m : m = Head(wire)
      OBVIOUS
    <3>2. m \in 1..MaxLines /\ m \notin hook.seen
      <4>1. wire \in Seq(Frames) /\ wire # <<>> /\ m \notin Codes
        BY <1>6, <3>1, LogNumbers DEF Receive
      <4>2. m \in Frames
        BY <3>1, <4>1, HeadTailProperties
      <4> QED
        BY <2>3, <3>1, <4>1, <4>2 DEF Frames
    <3>3. ~(Cardinality(hook.seen) >= MaxSeen)
      <4>1. IsFiniteSet(1..MaxLines) /\ Cardinality(1..MaxLines) = MaxLines
        BY <1>1, FS_Interval
      <4>2. hook.seen # 1..MaxLines
        BY <3>2
      <4>3. /\ IsFiniteSet(hook.seen) /\ Cardinality(hook.seen) <= Cardinality(1..MaxLines)
            /\ Cardinality(1..MaxLines) = Cardinality(hook.seen) => 1..MaxLines = hook.seen
        BY <1>0, <4>1, FS_Subset
      <4>4. Cardinality(hook.seen) \in Nat
        BY <4>3, FS_CardinalityType
      <4> QED
        BY <1>1, <4>1, <4>2, <4>3, <4>4
    <3>4. hook' = [hook EXCEPT !.seen = hook.seen \cup {m}, !.buffer = @ \cup {m}]
      BY <1>6, <2>3, <3>1, <3>3 DEF Receive
    <3>5. /\ hook'.seen = hook.seen \cup {m} /\ hook'.buffer = hook.buffer \cup {m} /\ hook'.live = hook.live
      BY <1>0, <3>4 DEF Hooks
    <3>6. m \notin ToSet(hook.live)
      BY <2>1, <3>2 DEF Got
    <3> QED
      BY <2>1, <3>5, <3>6 DEF LiveUnique, Got
  <2> QED
    BY <2>2, <2>3
<1>7. CASE Frame
  <2>1. /\ hook'.live = hook.live \o Sorted(hook.buffer) /\ hook'.buffer = {} /\ hook'.seen = hook.seen
        /\ known' = known
    BY <1>0, <1>7 DEF Frame, Hooks
  <2> DEFINE s == Sorted(hook.buffer)
  <2>2. /\ s \in Seq(1..MaxLines) /\ hook.buffer \in SUBSET Nat /\ IsFiniteSet(hook.buffer)
    BY <1>0, SortedTyped
  <2>3. /\ Len(s) \in Nat /\ ToSet(s) = hook.buffer
        /\ \A k \in 1..Len(s) : s[k] \in hook.buffer
        /\ \A k, l \in 1..Len(s) : k < l => s[k] < s[l]
    BY <2>2, SortedSet
  <2> HIDE DEF s
  <2>4. ToSet(s) = hook.buffer
    BY <2>3
  <2>5. /\ ToSet(hook.live \o s) = ToSet(hook.live) \cup hook.buffer
    BY <1>0, <2>2, <2>4, ToSetConcat
  <2>6. IsInjective(hook.live \o s)
    <3> DEFINE u == hook.live \o s
    <3>1. /\ u \in Seq(1..MaxLines) /\ Len(u) = Len(hook.live) + Len(s) /\ Len(hook.live) \in Nat
          /\ DOMAIN u = 1..Len(u) /\ DOMAIN hook.live = 1..Len(hook.live)
          /\ \A i \in 1..Len(hook.live) + Len(s) :
               u[i] = IF i <= Len(hook.live) THEN hook.live[i] ELSE s[i - Len(hook.live)]
      BY <1>0, <2>2, ConcatProperties, LenProperties
    <3> HIDE DEF u
    <3>2. /\ \A a, b \in 1..Len(hook.live) : hook.live[a] = hook.live[b] => a = b
          /\ \A a \in 1..Len(hook.live) : hook.live[a] \in ToSet(hook.live)
          /\ hook.buffer \cap ToSet(hook.live) = {}
      BY <1>0, <3>1, ToSetOfSeq DEF LiveUnique, IsInjective
    <3>3. \A a, b \in 1..Len(s) : s[a] = s[b] => a = b
      <4> SUFFICES ASSUME NEW a \in 1..Len(s), NEW b \in 1..Len(s), s[a] = s[b] PROVE a = b
        OBVIOUS
      <4>1. s[a] \in Nat /\ s[b] \in Nat /\ (a < b => s[a] < s[b]) /\ (b < a => s[b] < s[a])
        BY <2>2, <2>3
      <4> QED
        BY <4>1
    <3>4. ASSUME NEW a \in 1..Len(u), NEW b \in 1..Len(u), u[a] = u[b] PROVE a = b
      <4>1. CASE a <= Len(hook.live) /\ b <= Len(hook.live)
        BY <3>1, <3>2, <3>4, <4>1
      <4>2. CASE a <= Len(hook.live) /\ ~(b <= Len(hook.live))
        <5>1. u[a] \in ToSet(hook.live)
          BY <3>1, <3>2, <4>2
        <5>2. b \in 1..Len(hook.live) + Len(s) /\ Len(s) \in Nat
          BY <2>2, <3>1, <3>4
        <5>3. u[b] = s[b - Len(hook.live)]
          BY <3>1, <4>2, <5>2, Zenon
        <5>4. b - Len(hook.live) \in 1..Len(s)
          BY <3>1, <4>2, <5>2
        <5> QED
          BY <2>3, <3>2, <3>4, <5>1, <5>3, <5>4
      <4>3. CASE ~(a <= Len(hook.live)) /\ b <= Len(hook.live)
        <5>1. u[b] \in ToSet(hook.live)
          BY <3>1, <3>2, <4>3
        <5>2. a \in 1..Len(hook.live) + Len(s) /\ Len(s) \in Nat
          BY <2>2, <3>1, <3>4
        <5>3. u[a] = s[a - Len(hook.live)]
          BY <3>1, <4>3, <5>2, Zenon
        <5>4. a - Len(hook.live) \in 1..Len(s)
          BY <3>1, <4>3, <5>2
        <5> QED
          BY <2>3, <3>2, <3>4, <5>1, <5>3, <5>4
      <4>4. CASE ~(a <= Len(hook.live)) /\ ~(b <= Len(hook.live))
        <5>1. /\ a - Len(hook.live) \in 1..Len(s) /\ u[a] = s[a - Len(hook.live)]
              /\ b - Len(hook.live) \in 1..Len(s) /\ u[b] = s[b - Len(hook.live)]
          BY <3>1, <4>4
        <5>2. a - Len(hook.live) = b - Len(hook.live)
          BY <3>3, <3>4, <5>1
        <5> QED
          BY <3>1, <5>2
      <4> QED
        BY <4>1, <4>2, <4>3, <4>4
    <3>5. IsInjective(u)
      BY <3>1, <3>4 DEF IsInjective
    <3> QED
      BY <3>5 DEF u
  <2>7. hook'.live = hook.live \o s
    BY <2>1 DEF s
  <2> QED
    BY <2>1, <2>5, <2>6, <2>7 DEF LiveUnique, Got
<1>8. Accept \/ OnClose \/ Reconnect \/ OpenViewer \/ CloseViewer \/ PollStatus \/ Receive \/ Frame
      \/ UNCHANGED <<hook, known>>
  BY DEF LogsNext, Execution, Server, Browser, Outside, Publish, Flush, LogChannelDrained, BrokerClose,
         FinishExecution, Crash, SendFinished, Subscribe, SendHistory, Recheck, Stream, Refuse,
         SubscriberLimit, ConnectionLost, FetchLogs, DismissToast, browser
<1> QED
  BY <1>2, <1>3, <1>4, <1>5, <1>6, <1>7, <1>8

----------------------------------------------------------------------------
(* No line missing: history, replay, queue and what is shown join up.         *)

LEMMA LossStays ==
  ASSUME LogsTypeOK, LogsNext, ~lossy'
  PROVE  ~lossy
<1>1. CASE Publish \/ Flush \/ Crash
  BY <1>1 DEF Publish, Flush, Crash
<1>2. CASE SendFinished \/ SendHistory
  BY <1>2 DEF SendFinished, SendHistory
<1>3. CASE ~(Publish \/ Flush \/ Crash \/ SendFinished \/ SendHistory)
  BY <1>3 DEF LogsNext, Execution, Server, Browser, Outside, LogChannelDrained, BrokerClose, FinishExecution,
              Accept, Subscribe, Recheck, Stream, PollStatus, FetchLogs, Receive, Frame, OnClose, Reconnect,
              OpenViewer, CloseViewer, DismissToast, Refuse, SubscriberLimit, ConnectionLost
<1> QED
  BY <1>1, <1>2, <1>3

(* The query returns every stored line as long as there are no more than it   *)
(* may return.                                                                *)
LEMMA HistoryWhole ==
  ASSUME SizesAssumption, MaxLines <= MaxHistory, LogsTypeOK, db = 1..saved
  PROVE  History = 1..saved
<1>1. saved \in Nat /\ saved <= MaxLines /\ MaxLines \in Nat /\ MaxHistory \in Nat
  BY LogNumbers DEF SizesAssumption
<1>2. ASSUME NEW i \in 1..saved PROVE Cardinality({j \in db : j <= i}) <= MaxHistory
  <2>1. {j \in db : j <= i} = 1..i
    BY <1>1
  <2>2. Cardinality(1..i) = i
    BY <1>1, FS_Interval
  <2>3. i <= MaxHistory
    BY <1>1
  <2> QED
    BY <2>1, <2>2, <2>3
<1> QED
  BY <1>2 DEF History

(* The hook has the first lines of the log, and no others.                    *)
LEMMA GotPrefix ==
  ASSUME SizesAssumption, LogsTypeOK, Gapless
  PROVE  \E l \in Nat : Len(hook.live) <= l /\ hook.buffer = (Len(hook.live) + 1)..l /\ Got = 1..l
                        /\ Len(hook.live) \in Nat
<1>1. hook.live \in Seq(1..MaxLines) /\ Len(hook.live) \in Nat
  BY LogsTypes, LenProperties DEF BrowserTyped, Hooks
<1>2. PICK k \in Nat : hook.buffer = (Len(hook.live) + 1)..k
  BY DEF Gapless
<1>3. PICK l \in Nat : Len(hook.live) <= l /\ hook.buffer = (Len(hook.live) + 1)..l
  <2>1. CASE k < Len(hook.live)
    <3>1. (Len(hook.live) + 1)..k = {} /\ (Len(hook.live) + 1)..Len(hook.live) = {}
      BY <1>1, <2>1
    <3> QED
      BY <1>1, <1>2, <3>1
  <2>2. CASE ~(k < Len(hook.live))
    BY <1>1, <1>2, <2>2
  <2> QED
    BY <2>1, <2>2
<1>4. ToSet(hook.live) = 1..Len(hook.live)
  <2>1. \A x : x \in ToSet(hook.live) <=> \E i \in 1..Len(hook.live) : hook.live[i] = x
    BY <1>1, ToSetOfSeq
  <2>2. \A i \in 1..Len(hook.live) : hook.live[i] = i
    BY DEF Gapless
  <2>3. \A x : x \in ToSet(hook.live) <=> x \in 1..Len(hook.live)
    BY <2>1, <2>2
  <2> QED
    BY <2>3
<1>5. Got = 1..l
  BY <1>1, <1>3, <1>4 DEF Got
<1> QED
  BY <1>1, <1>3, <1>5

(* Hence what is shown and buffered is a gapless prefix of the log.           *)
LEMMA GaplessShown ==
  ASSUME SizesAssumption, LogsTypeOK, Gapless
  PROVE  LET got == hook.live \o Sorted(hook.buffer) IN got = [i \in 1..Len(got) |-> i]
<1> DEFINE got == hook.live \o Sorted(hook.buffer)
<1>1. PICK l \in Nat : Len(hook.live) <= l /\ hook.buffer = (Len(hook.live) + 1)..l /\ Len(hook.live) \in Nat
  BY GotPrefix
<1>2. hook.live \in Seq(1..MaxLines) /\ hook.buffer \in SUBSET (1..MaxLines)
  BY LogsTypes DEF BrowserTyped, Hooks
<1>3. Sorted(hook.buffer) \in Seq(1..MaxLines)
  BY <1>2, SortedTyped
<1>4. PICK a \in Nat : a = Len(hook.live) + 1
  BY <1>1
<1>5. /\ Len(Sorted(a..l)) = (IF a > l THEN 0 ELSE l - a + 1)
      /\ \A k \in 1..Len(Sorted(a..l)) : Sorted(a..l)[k] = a + k - 1
  BY SortedInterval
<1>6. PICK s : s = Sorted(hook.buffer)
  OBVIOUS
<1>7. /\ s \in Seq(1..MaxLines) /\ Len(s) \in Nat
      /\ \A k \in 1..Len(s) : s[k] = Len(hook.live) + k
  <2>1. s = Sorted(a..l)
    BY <1>1, <1>4, <1>6
  <2>2. Len(s) \in Nat
    BY <1>3, <1>6, LenProperties
  <2>3. \A k \in 1..Len(s) : s[k] = a + k - 1
    BY <1>5, <2>1
  <2>4. \A k \in 1..Len(s) : a + k - 1 = Len(hook.live) + k
    BY <1>1, <1>4, <2>2
  <2> QED
    BY <1>3, <1>6, <2>2, <2>3, <2>4
<1>8. /\ got \in Seq(1..MaxLines) /\ Len(got) = Len(hook.live) + Len(s)
      /\ \A i \in 1..Len(hook.live) + Len(s) :
           got[i] = IF i <= Len(hook.live) THEN hook.live[i] ELSE s[i - Len(hook.live)]
  BY <1>2, <1>6, <1>7, ConcatProperties, ZenonT(60)
<1>9. DOMAIN got = 1..Len(got) /\ got \in [1..Len(got) -> 1..MaxLines]
  BY <1>8, LenProperties
<1> HIDE DEF got
<1>10. ASSUME NEW i \in 1..Len(got) PROVE got[i] = i
  <2>1. CASE i <= Len(hook.live)
    BY <1>1, <1>8, <1>10, <2>1 DEF Gapless
  <2>2. CASE ~(i <= Len(hook.live))
    <3>1. i - Len(hook.live) \in 1..Len(s) /\ got[i] = s[i - Len(hook.live)]
      BY <1>1, <1>7, <1>8, <1>10, <2>2
    <3>2. s[i - Len(hook.live)] = Len(hook.live) + (i - Len(hook.live))
      BY <1>7, <3>1
    <3> QED
      BY <1>1, <3>1, <3>2
  <2> QED
    BY <2>1, <2>2
<1>11. got = [i \in 1..Len(got) |-> i]
  BY <1>9, <1>10
<1> QED
  BY <1>11 DEF got

(* Nobody is subscribed: only the frames on their way matter.                 *)
LEMMA GaplessUnsubscribed ==
  ASSUME n' \in Nat, db' = 1..saved', sub' = NoSub, handler'.pc \notin {"subscribed", "sent", "stream"},
         \A i \in 1..Len(hook'.live) : hook'.live[i] = i,
         \E l \in Nat : hook'.buffer = (Len(hook'.live) + 1)..l,
         Follows(wire, Got)'
  PROVE  Gapless'
<1>1. sub'.q = <<>> /\ Len(<<>>) = 0
  BY DEF NoSub
<1>2. Len(sub'.q) <= n' /\ \A k \in 1..Len(sub'.q) : sub'.q[k] = n' - Len(sub'.q) + k
  BY <1>1
<1> QED
  BY <1>2 DEF Gapless

(* Lines are published, written and, after the last, forgotten by the ring.   *)
LEMMA GaplessExecution ==
  ASSUME SizesAssumption, LogsTypeOK, Connected, Batched, Gapless, Execution \/ Crash, ~lossy'
  PROVE  Gapless'
<1>0. /\ n \in Nat /\ saved \in Nat /\ saved <= n /\ sub.q \in Seq(1..MaxLines) /\ Len(sub.q) \in Nat
      /\ sub \in [on : BOOLEAN, closed : BOOLEAN, q : Seq(1..MaxLines)] /\ Len(sub.q) <= n
      /\ db = 1..saved /\ wire \in Seq(Frames) /\ 1..MaxLines \subseteq Frames
  BY LogNumbers, LogsTypes DEF ConnTyped, Gapless
<1>a. UNCHANGED hook /\ Got' = Got
  BY DEF Execution, Publish, Flush, LogChannelDrained, BrokerClose, FinishExecution, Crash, browser, Got
<1>1. CASE Publish
  <2>1. UNCHANGED <<saved, db, handler, wire>> /\ n' = n + 1
    BY <1>1 DEF Publish
  <2>2. CASE sub.on
    <3>1. sub' = [sub EXCEPT !.q = Append(@, n + 1)]
      BY <1>1, <2>2 DEF Publish
    <3>2. sub'.q = Append(sub.q, n + 1)
      BY <1>0, <3>1
    <3>3. n + 1 \in 1..MaxLines
      BY <1>0, <1>1, LogNumbers DEF Publish
    <3>4. /\ Len(sub'.q) = Len(sub.q) + 1 /\ sub'.q[Len(sub.q) + 1] = n + 1
          /\ \A k \in 1..Len(sub.q) : sub'.q[k] = sub.q[k]
      BY <1>0, <3>2, <3>3, AppendProperties
    <3>5. n' - Len(sub'.q) = n - Len(sub.q) /\ Before' = Before /\ Len(sub'.q) <= n'
      BY <1>0, <2>1, <3>4 DEF Before
    <3>6. \A k \in 1..Len(sub.q) : sub.q[k] = n - Len(sub.q) + k
      BY DEF Gapless
    <3>7. \A k \in 1..Len(sub'.q) : sub'.q[k] = n' - Len(sub'.q) + k
      <4>1. PICK m, b, q, r : m = Len(sub.q) /\ b = n /\ q = sub.q /\ r = sub'.q
        BY <1>0
      <4>2. /\ \A k \in 1..m : r[k] = b - m + k
            /\ r[m + 1] = b + 1 /\ Len(r) = m + 1 /\ n' = b + 1 /\ m \in Nat /\ b \in Nat
        BY <1>0, <2>1, <3>4, <3>6, <4>1
      <4>3. \A k \in 1..m + 1 : r[k] = (b + 1) - (m + 1) + k
        BY <4>2
      <4> QED
        BY <4>1, <4>2, <4>3
    <3> QED
      BY <1>a, <2>1, <3>5, <3>7 DEF Gapless
  <2>3. CASE ~sub.on
    <3>1. sub' = sub /\ sub = NoSub /\ handler.pc \notin {"subscribed", "sent", "stream"}
      BY <1>1, <2>3 DEF Publish, Connected
    <3>2. n' \in Nat
      BY <1>0, <2>1
    <3> QED
      BY <1>a, <2>1, <3>1, <3>2, GaplessUnsubscribed DEF Gapless
  <2> QED
    BY <1>0, <2>2, <2>3
<1>2. CASE Flush
  <2>1. UNCHANGED <<n, sub, handler, wire>> /\ saved' = n /\ db' = db \cup (saved + 1)..n
    BY <1>2 DEF Flush, conn
  <2>2. db' = 1..saved'
    BY <1>0, <2>1
  <2>3. Before' = Before
    BY <2>1 DEF Before
  <2>4. \A i \in Before : i <= saved => i <= saved'
    BY <1>0, <2>1 DEF Before
  <2> QED
    BY <1>a, <2>1, <2>2, <2>3, <2>4 DEF Gapless
<1>3. CASE LogChannelDrained \/ FinishExecution
  <2>1. UNCHANGED <<n, saved, db, sub, handler, wire>>
    BY <1>3 DEF LogChannelDrained, FinishExecution, conn
  <2> QED
    BY <1>a, <2>1 DEF Gapless, Before
<1>4. CASE BrokerClose
  <2>1. UNCHANGED <<n, saved, db, handler, wire>> /\ sub'.q = sub.q
    BY <1>0, <1>4 DEF BrokerClose
  <2> QED
    BY <1>a, <2>1 DEF Gapless, Before
<1>5. CASE Crash
  <2>1. /\ saved' = n /\ UNCHANGED <<n, db>> /\ sub' = NoSub /\ handler' = NoHandler
        /\ wire' = <<>> \/ wire' = Append(wire, Abnormal)
        /\ ~(saved < n)
    BY <1>5 DEF Crash
  <2>2. Follows(wire, Got)'
    <3>1. Follows(Append(wire, Abnormal), Got)
      BY LogNumbers, FollowsAppend DEF Gapless
    <3>2. Follows(<<>>, Got)
      BY DEF Follows
    <3> QED
      BY <1>a, <2>1, <3>1, <3>2
  <2>3. db' = 1..saved'
    BY <1>0, <2>1
  <2> QED
    BY <1>0, <1>a, <2>1, <2>2, <2>3, GaplessUnsubscribed DEF Gapless, NoHandler
<1> QED
  BY <1>1, <1>2, <1>3, <1>4, <1>5 DEF Execution

(* The stored lines are sent: each after those below it.                      *)
LEMMA HistorySent ==
  ASSUME SizesAssumption, MaxLines <= MaxHistory, LogsTypeOK, Gapless
  PROVE  /\ History = 1..saved
         /\ wire \o Sorted(History) \in Seq(Frames)
         /\ Follows(wire \o Sorted(History), Got)
         /\ ToSet(wire \o Sorted(History)) = ToSet(wire) \cup 1..saved
<1>1. /\ History = 1..saved /\ History \in SUBSET (1..MaxLines) /\ wire \in Seq(Frames) /\ saved \in Nat
      /\ Follows(wire, Got)
  BY LogNumbers, HistoryWhole DEF Gapless
<1>2. PICK h : h = Sorted(History)
  OBVIOUS
<1>3. /\ h \in Seq(Frames) /\ ToSet(h) = 1..saved
      /\ \A k \in 1..Len(h) : h[k] = k
  <2>1. h \in Seq(Frames) /\ ToSet(h) = 1..saved
    BY <1>1, <1>2, SortedTyped, SortedSet
  <2>2. PICK m \in Nat : m = saved
    BY <1>1
  <2>3. \A k \in 1..Len(Sorted(1..m)) : Sorted(1..m)[k] = 1 + k - 1
    BY SortedInterval
  <2>4. Len(h) \in Nat
    BY <2>1, LenProperties
  <2>5. \A k \in 1..Len(h) : h[k] = 1 + k - 1
    BY <1>1, <1>2, <2>2, <2>3
  <2> QED
    BY <2>1, <2>4, <2>5
<1>4. \A k \in 1..Len(h) : \A i \in 1..(h[k] - 1) : \E j \in 1..(k - 1) : h[j] = i
  <2> SUFFICES ASSUME NEW k \in 1..Len(h), NEW i \in 1..(h[k] - 1) PROVE i \in 1..(k - 1) /\ h[i] = i
    OBVIOUS
  <2>1. h[k] = k /\ Len(h) \in Nat
    BY <1>3, LenProperties
  <2> QED
    BY <1>3, <2>1
<1>5. Follows(wire \o h, Got)
  BY <1>1, <1>3, <1>4, FollowsConcat
<1>6. wire \o h \in Seq(Frames) /\ ToSet(wire \o h) = ToSet(wire) \cup 1..saved
  BY <1>1, <1>3, ConcatProperties, ToSetConcat
<1> QED
  BY <1>1, <1>2, <1>5, <1>6

(* The replay lines above the stored ones go on where these end.              *)
LEMMA ReplaySent ==
  ASSUME SizesAssumption, MaxLines <= MaxHistory, LogsTypeOK, Gapless, handler.pc = "subscribed"
  PROVE  LET w == wire \o Sorted(History) \o Sorted(Above(handler.replay, History))
         IN  Follows(w, Got) /\ \A i \in Before : i \in ToSet(w)
<1>1. /\ History = 1..saved /\ saved \in Nat /\ n \in Nat /\ Len(sub.q) \in Nat
      /\ wire \o Sorted(History) \in Seq(Frames)
      /\ Follows(wire \o Sorted(History), Got)
      /\ ToSet(wire \o Sorted(History)) = ToSet(wire) \cup 1..saved
      /\ handler.replay \subseteq Before
      /\ \A i \in Before : i <= saved \/ i \in handler.replay
  BY HistorySent, LogNumbers DEF Gapless
<1>2. PICK w1 : w1 = wire \o Sorted(History)
  OBVIOUS
<1>3. PICK A : A = Above(handler.replay, History)
  OBVIOUS
<1>4. A \in SUBSET (1..MaxLines)
  BY <1>3, LogsTypes DEF ConnTyped, Above
<1>5. PICK r : r = Sorted(A)
  OBVIOUS
<1>6. /\ r \in Seq(Frames) /\ ToSet(r) = A /\ Len(r) \in Nat /\ A \subseteq Nat
      /\ \A k \in 1..Len(r) : r[k] \in A
      /\ \A k, l \in 1..Len(r) : k < l => r[k] < r[l]
      /\ \A i \in A : \E k \in 1..Len(r) : r[k] = i
  <2>1. A \in SUBSET Nat /\ IsFiniteSet(A) /\ r \in Seq(Frames)
    BY <1>4, <1>5, SortedTyped
  <2> QED
    BY <1>5, <2>1, SortedSet
<1>7. \A i : i \in A <=> i \in handler.replay /\ \A j \in 1..saved : i > j
  BY <1>1, <1>3 DEF Above
<1>8. Before \subseteq Nat /\ \A i \in Before : i \in 1..saved \/ i \in A
  <2>1. Before \subseteq Nat
    BY <1>1 DEF Before
  <2>2. ASSUME NEW i \in Before, ~(i <= saved) PROVE i \in A
    <3>1. i \in handler.replay /\ i \in Nat
      BY <1>1, <2>1, <2>2
    <3> QED
      BY <1>1, <1>7, <2>2, <3>1
  <2>3. \A i \in Before : i >= 1
    BY <1>1 DEF Before
  <2> QED
    BY <1>1, <2>1, <2>2, <2>3
<1>9. ASSUME NEW k \in 1..Len(r), NEW i \in 1..(r[k] - 1), i \notin ToSet(w1)
      PROVE  \E j \in 1..(k - 1) : r[j] = i
  <2>1. r[k] \in A /\ r[k] \in Nat /\ r[k] \in Before
    BY <1>1, <1>6, <1>7
  <2>2. i \in Before
    BY <1>1, <1>9, <2>1 DEF Before
  <2>3. i \notin 1..saved
    BY <1>1, <1>2, <1>9
  <2>4. i \in A
    BY <1>8, <2>2, <2>3
  <2>5. PICK j \in 1..Len(r) : r[j] = i
    BY <1>6, <2>4
  <2>6. i < r[k]
    BY <1>9, <2>1
  <2>7. j # k /\ ~(k < j)
    <3>1. k < j => r[k] < r[j]
      BY <1>6
    <3>2. i \in Nat
      BY <1>8, <2>2
    <3> QED
      BY <2>1, <2>5, <2>6, <3>1, <3>2
  <2>8. j \in 1..(k - 1)
    BY <1>6, <2>7
  <2> QED
    BY <2>5, <2>8
<1>10. Follows(w1 \o r, Got)
  <2>1. w1 \in Seq(Frames) /\ Follows(w1, Got) /\ r \in Seq(Frames)
    BY <1>1, <1>2, <1>6
  <2> QED
    BY <1>9, <2>1, FollowsConcat
<1>11. ToSet(w1 \o r) = ToSet(w1) \cup A
  <2>1. w1 \in Seq(Frames) /\ r \in Seq(Frames) /\ ToSet(r) = A
    BY <1>1, <1>2, <1>6
  <2>2. ToSet(w1 \o r) = ToSet(w1) \cup ToSet(r)
    BY <2>1, ToSetConcat
  <2> QED
    BY <2>1, <2>2
<1>12. \A i \in Before : i \in ToSet(w1 \o r)
  BY <1>1, <1>2, <1>8, <1>11
<1> QED
  BY <1>2, <1>3, <1>5, <1>10, <1>12

(* The queue of the subscriber goes on where the wire ends.                   *)
LEMMA QueueSent ==
  ASSUME SizesAssumption, LogsTypeOK, Gapless, handler.pc \in {"sent", "stream"}
  PROVE  /\ wire \o sub.q \in Seq(Frames)
         /\ Follows(wire \o sub.q, Got)
<1>0. Len(sub.q) \in Nat /\ n \in Nat
  BY LogNumbers
<1>1. PICK q, m, b : q = sub.q /\ m = Len(sub.q) /\ b = n /\ m \in Nat /\ b \in Nat
  BY <1>0
<1>2. /\ q \in Seq(Frames) /\ Len(q) = m /\ m <= b /\ wire \in Seq(Frames) /\ Follows(wire, Got)
      /\ \A k \in 1..m : q[k] = b - m + k
      /\ \A i \in 1..(b - m) : i \in Got \/ i \in ToSet(wire)
  BY <1>1, LogNumbers DEF Gapless, Before
<1>3. ASSUME NEW k \in 1..m, NEW i \in 1..(q[k] - 1), i \notin Got, i \notin ToSet(wire)
      PROVE  \E j \in 1..(k - 1) : q[j] = i
  <2>a. b - m \in Nat /\ k \in Nat /\ k >= 1 /\ k <= m
    <3>1. m \in Nat /\ b \in Nat /\ m <= b
      BY <1>1, <1>2
    <3> QED
      BY <3>1
  <2>0. PICK a \in Nat : a = b - m
    BY <2>a
  <2>1. q[k] = a + k /\ ~(i \in 1..a)
    BY <1>2, <1>3, <2>0
  <2>2. i - a \in 1..(k - 1) /\ i - a \in 1..m
    <3>1. i \in 1..(a + k - 1)
      BY <2>1
    <3>2. i \in Nat /\ i > a /\ i <= a + k - 1
      BY <2>a, <2>1, <3>1
    <3> QED
      BY <1>1, <2>a, <3>2
  <2>3. q[i - a] = a + (i - a)
    BY <1>2, <2>0, <2>2
  <2>4. q[i - a] = i
    BY <2>0, <2>2, <2>3
  <2> QED
    BY <2>2, <2>4
<1>4. Follows(wire \o q, Got)
  BY <1>2, <1>3, FollowsConcat
<1> QED
  BY <1>1, <1>2, <1>4, ConcatProperties

(* The handler sends history, replay and queue without leaving a line out.    *)
LEMMA GaplessServer ==
  ASSUME SizesAssumption, MaxLines <= MaxHistory, LogsTypeOK, Connected, Batched, Gapless,
         Server \/ Refuse \/ SubscriberLimit \/ ConnectionLost, ~lossy'
  PROVE  Gapless'
<1>0. /\ n \in Nat /\ saved \in Nat /\ saved <= n /\ db = 1..saved /\ hook \in Hooks
      /\ wire \in Seq(Frames) /\ Len(wire) \in Nat /\ Follows(wire, Got)
      /\ Normal \in Frames /\ Abnormal \in Frames /\ Normal \in Codes /\ Abnormal \in Codes
      /\ handler \in [pc : {"none", "upgraded", "subscribed", "sent", "stream"},
                     running : BOOLEAN, replay : SUBSET (1..MaxLines)]
      /\ sub \in [on : BOOLEAN, closed : BOOLEAN, q : Seq(1..MaxLines)]
  BY LogNumbers, LogsTypes DEF ConnTyped, BrowserTyped, Gapless, Codes
<1>a. /\ UNCHANGED <<stage, n, saved, db>>
      /\ hook'.live = hook.live /\ hook'.buffer = hook.buffer /\ Got' = Got
  <2>1. CASE Accept
    <3>1. hook' = [hook EXCEPT !.connected = TRUE, !.retries = 0] /\ UNCHANGED <<stage, n, saved, db>>
      BY <2>1 DEF Accept, Becomes, server
    <3>2. hook'.live = hook.live /\ hook'.buffer = hook.buffer
      BY <1>0, <3>1 DEF Hooks
    <3> QED
      BY <3>1, <3>2 DEF Got
  <2>2. CASE ~Accept
    <3>1. UNCHANGED <<hook, stage, n, saved, db>>
      BY <2>2 DEF Server, SendFinished, Subscribe, SendHistory, Recheck, Stream, Refuse, SubscriberLimit,
                  ConnectionLost, browser, server
    <3> QED
      BY <3>1 DEF Got
  <2> QED
    BY <2>1, <2>2
<1>b. NoHandler.pc = "none"
  BY DEF NoHandler
<1>c. /\ n' \in Nat /\ db' = 1..saved'
      /\ \A i \in 1..Len(hook'.live) : hook'.live[i] = i
      /\ \E l \in Nat : hook'.buffer = (Len(hook'.live) + 1)..l
  BY <1>0, <1>a DEF Gapless
<1>1. CASE Accept
  <2>1. UNCHANGED <<sub, wire>> /\ handler.pc = "none" /\ handler'.pc = "upgraded"
    BY <1>1 DEF Accept, NoHandler
  <2>2. sub' = NoSub
    BY <2>1 DEF Connected
  <2>3. Follows(wire, Got)'
    BY <1>0, <1>a, <2>1
  <2> QED
    BY <1>c, <2>1, <2>2, <2>3, GaplessUnsubscribed
<1>2. CASE Refuse
  <2>1. UNCHANGED <<sub, handler>> /\ handler.pc = "none" /\ wire' = <<Abnormal>>
    BY <1>2 DEF Refuse
  <2>2. sub' = NoSub
    BY <2>1 DEF Connected
  <2>3. Follows(wire, Got)'
    <3>1. \A k \in 1..Len(<<Abnormal>>) : <<Abnormal>>[k] \in Codes
      BY <1>0
    <3> QED
      BY <2>1, <3>1 DEF Follows
  <2> QED
    BY <1>c, <2>1, <2>2, <2>3, GaplessUnsubscribed
<1>3. CASE SendFinished
  <2>1. /\ UNCHANGED sub /\ handler' = NoHandler /\ handler.pc = "upgraded"
        /\ wire' = wire \o Sorted(History) \o <<Normal>>
    BY <1>3 DEF SendFinished
  <2>2. sub' = NoSub
    BY <2>1 DEF Connected
  <2>3. PICK w : w = wire \o Sorted(History)
    OBVIOUS
  <2>4. w \in Seq(Frames) /\ Follows(w, Got)
    BY <2>3, HistorySent
  <2>5. wire' = Append(w, Normal)
    BY <1>0, <2>1, <2>3, <2>4, AppendIsConcat
  <2>6. Follows(Append(w, Normal), Got)
    BY <1>0, <2>4, FollowsAppend
  <2>7. Follows(wire, Got)'
    BY <1>a, <2>5, <2>6
  <2> QED
    BY <1>b, <1>c, <2>1, <2>2, <2>7, GaplessUnsubscribed
<1>4. CASE SubscriberLimit
  <2>1. UNCHANGED sub /\ handler' = NoHandler /\ handler.pc = "upgraded" /\ wire' = Append(wire, Normal)
    BY <1>4 DEF SubscriberLimit
  <2>2. sub' = NoSub
    BY <2>1 DEF Connected
  <2>3. Follows(Append(wire, Normal), Got)
    BY <1>0, FollowsAppend
  <2>4. Follows(wire, Got)'
    BY <1>a, <2>1, <2>3
  <2> QED
    BY <1>b, <1>c, <2>1, <2>2, <2>4, GaplessUnsubscribed
<1>5. CASE Subscribe
  <2>1. /\ UNCHANGED wire /\ handler'.pc = "subscribed" /\ handler'.replay = Ring
        /\ sub'.q = <<>>
    BY <1>0, <1>5 DEF Subscribe, NoSub
  <2>2. Len(sub'.q) = 0 /\ Before' = 1..n
    BY <1>0, <1>a, <2>1 DEF Before
  <2>3. Ring \subseteq 1..n
    BY LogNumbers
  <2>4. ASSUME NEW i \in 1..n, ~(i <= saved) PROVE i \in Ring
    <3>1. n - saved <= FlushSize /\ FlushSize <= RingSize /\ FlushSize \in Nat /\ RingSize \in Nat
      BY DEF Batched, SizesAssumption
    <3>2. stage \in {"running", "ending"}
      BY <1>0, <2>4, LogsTypes DEF Batched, ServerTyped
    <3>3. i + RingSize > n
      BY <1>0, <2>4, <3>1
    <3> QED
      BY <3>2, <3>3 DEF Ring
  <2>5. Follows(wire, Got)'
    BY <1>0, <1>a, <2>1
  <2>6. Len(sub'.q) <= n' /\ \A k \in 1..Len(sub'.q) : sub'.q[k] = n' - Len(sub'.q) + k
    BY <1>c, <2>2
  <2> QED
    BY <1>a, <1>c, <2>1, <2>2, <2>3, <2>4, <2>5, <2>6 DEF Gapless
<1>6. CASE SendHistory
  <2>1. /\ handler.pc = "subscribed" /\ UNCHANGED sub /\ handler'.pc = "sent"
        /\ wire' = wire \o Sorted(History) \o Sorted(Above(handler.replay, History))
    BY <1>0, <1>6 DEF SendHistory
  <2>2. Follows(wire', Got) /\ \A i \in Before : i \in ToSet(wire')
    BY <2>1, ReplaySent
  <2>3. Before' = Before
    BY <1>a, <2>1 DEF Before
  <2>4. Follows(wire, Got)'
    BY <1>a, <2>2
  <2> QED
    BY <1>a, <1>c, <2>1, <2>2, <2>3, <2>4 DEF Gapless
<1>7. CASE Recheck
  <2>1. CASE stage = "finished"
    <3>1. handler.pc = "sent" /\ sub' = NoSub /\ handler' = NoHandler /\ wire' = wire \o sub.q \o <<Normal>>
      BY <1>7, <2>1 DEF Recheck
    <3>2. PICK w : w = wire \o sub.q
      OBVIOUS
    <3>3. w \in Seq(Frames) /\ Follows(w, Got)
      BY <3>1, <3>2, QueueSent
    <3>4. wire' = Append(w, Normal)
      BY <1>0, <3>1, <3>2, <3>3, AppendIsConcat
    <3>5. Follows(Append(w, Normal), Got)
      BY <1>0, <3>3, FollowsAppend
    <3>6. Follows(wire, Got)'
      BY <1>a, <3>4, <3>5
    <3> QED
      BY <1>b, <1>c, <3>1, <3>6, GaplessUnsubscribed
  <2>2. CASE stage # "finished"
    <3>1. handler.pc = "sent" /\ UNCHANGED <<wire, sub>> /\ handler'.pc = "stream"
      BY <1>0, <1>7, <2>2 DEF Recheck
    <3> QED
      BY <1>a, <3>1 DEF Gapless, Before
  <2> QED
    BY <2>1, <2>2
<1>8. CASE Stream
  <2>1. CASE sub.q = <<>>
    <3>1. sub' = NoSub /\ handler' = NoHandler /\ wire' = Append(wire, Normal)
      BY <1>8, <2>1 DEF Stream
    <3>2. Follows(Append(wire, Normal), Got)
      BY <1>0, FollowsAppend
    <3>3. Follows(wire, Got)'
      BY <1>a, <3>1, <3>2
    <3> QED
      BY <1>b, <1>c, <3>1, <3>3, GaplessUnsubscribed
  <2>2. CASE sub.q # <<>>
    <3>1. /\ wire' = Append(wire, Head(sub.q)) /\ sub' = [sub EXCEPT !.q = Tail(@)]
          /\ UNCHANGED handler /\ handler.pc = "stream"
      BY <1>8, <2>2 DEF Stream
    <3>2. sub'.q = Tail(sub.q)
      BY <1>0, <3>1
    <3>3. PICK q, r, m, b, e : q = sub.q /\ r = sub'.q /\ m = Len(sub.q) /\ b = n /\ e = Head(sub.q)
      OBVIOUS
    <3>4. q \in Seq(1..MaxLines) /\ q # <<>> /\ m = Len(q) /\ m \in Nat /\ b \in Nat /\ m # 0
      BY <2>2, <3>3, LogNumbers, EmptySeq
    <3>5. /\ r = Tail(q) /\ Len(r) = m - 1 /\ e \in 1..MaxLines /\ e = q[1]
          /\ \A k \in 1..(m - 1) : r[k] = q[k + 1]
      <4>1. r = Tail(q) /\ e = Head(q)
        BY <3>2, <3>3
      <4>2. e \in 1..MaxLines /\ Len(r) = m - 1 /\ \A k \in 1..(m - 1) : r[k] = q[k + 1]
        BY <3>4, <4>1, HeadTailProperties
      <4> QED
        BY <4>1, <4>2
    <3>6. m <= b /\ \A k \in 1..m : q[k] = b - m + k
      BY <3>3 DEF Gapless
    <3>7. e = b - m + 1 /\ \A k \in 1..(m - 1) : r[k] = b - (m - 1) + k
      BY <3>4, <3>5, <3>6
    <3>8. e \in Frames /\ wire' = Append(wire, e)
      BY <3>1, <3>3, <3>5, LogNumbers
    <3>9. \A i \in 1..(b - m) : i \in Got \/ i \in ToSet(wire)
      BY <3>1, <3>3 DEF Gapless, Before
    <3>10. \A i \in 1..(e - 1) : i \in Got \/ i \in ToSet(wire)
      BY <3>4, <3>7, <3>9
    <3>11. Follows(Append(wire, e), Got)
      BY <1>0, <3>8, <3>10, FollowsAppend
    <3>12. Follows(wire, Got)'
      BY <1>a, <3>8, <3>11
    <3>13. ToSet(wire') = ToSet(wire) \cup {e}
      BY <1>0, <3>8, ToSetAppend
    <3>14. Before' = 1..(b - (m - 1))
      BY <1>a, <3>3, <3>5 DEF Before
    <3>15. \A i \in Before' : i \in Got' \cup ToSet(wire')
      <4>1. \A i \in 1..(b - (m - 1)) : i \in 1..(b - m) \/ i = e
        <5>0. b - m \in Nat
          <6>1. m \in Nat /\ b \in Nat /\ m <= b
            BY <3>4, <3>6
          <6> QED
            BY <6>1
        <5>1. PICK a \in Nat : a = b - m
          BY <5>0
        <5>2. e = a + 1 /\ b - (m - 1) = a + 1
          BY <3>4, <3>7, <5>1
        <5> QED
          BY <5>1, <5>2
      <4> QED
        BY <1>a, <3>9, <3>13, <3>14, <4>1
    <3>16. Len(sub'.q) <= n' /\ \A k \in 1..Len(sub'.q) : sub'.q[k] = n' - Len(sub'.q) + k
      <4>1. n' = b /\ sub'.q = r
        BY <1>a, <3>3
      <4>2. m - 1 <= b
        BY <3>4, <3>6
      <4> QED
        BY <3>5, <3>7, <4>1, <4>2
    <3> QED
      BY <1>c, <3>1, <3>12, <3>15, <3>16 DEF Gapless
  <2> QED
    BY <2>1, <2>2
<1>9. CASE ConnectionLost
  <2>1. PICK k \in 0..Len(wire) : wire' = Append(SubSeq(wire, 1, k), Abnormal)
    BY <1>9 DEF ConnectionLost
  <2>2. SubSeq(wire, 1, k) \in Seq(Frames) /\ Follows(SubSeq(wire, 1, k), Got)
    BY <1>0, FollowsPrefix
  <2>3. Follows(Append(SubSeq(wire, 1, k), Abnormal), Got)
    BY <1>0, <2>2, FollowsAppend
  <2>4. Follows(wire, Got)' /\ sub' = NoSub /\ handler' = NoHandler
    BY <1>9, <1>a, <2>1, <2>3 DEF ConnectionLost
  <2> QED
    BY <1>b, <1>c, <2>4, GaplessUnsubscribed
<1> QED
  BY <1>1, <1>2, <1>3, <1>4, <1>5, <1>6, <1>7, <1>8, <1>9 DEF Server

(* The hook takes the next line, in order, and shows its batches in order.    *)
LEMMA GaplessBrowser ==
  ASSUME SizesAssumption, MaxLines <= MaxSeen, LogsTypeOK, Connected, Gapless,
         LiveUnique', known = "running" => hook.seen = Got, known' = "running" => hook'.seen = Got',
         Browser \/ OpenViewer \/ CloseViewer \/ DismissToast
  PROVE  Gapless'
<1>0. /\ n \in Nat /\ saved \in Nat /\ db = 1..saved /\ hook \in Hooks
      /\ wire \in Seq(Frames) /\ Follows(wire, Got) /\ known \in {"running", "finished"}
      /\ hook.live \in Seq(1..MaxLines) /\ hook.buffer \in SUBSET (1..MaxLines)
  BY LogNumbers, LogsTypes DEF BrowserTyped, Gapless, Hooks
<1>a. UNCHANGED <<n, saved, db>> /\ n' \in Nat /\ db' = 1..saved'
  BY <1>0 DEF Browser, PollStatus, FetchLogs, Receive, Frame, OnClose, Reconnect, OpenViewer, CloseViewer,
         DismissToast, server
<1>b. NoHandler.pc = "none"
  BY DEF NoHandler
<1>c. \A S : Follows(<<>>, S)
  BY DEF Follows
<1>d. PICK l \in Nat : /\ Len(hook.live) <= l /\ hook.buffer = (Len(hook.live) + 1)..l
                      /\ Got = 1..l /\ Len(hook.live) \in Nat
  BY GotPrefix
<1>1. CASE PollStatus \/ OnClose \/ CloseViewer \/ OpenViewer
  <2>1. wire' = <<>> /\ sub' = NoSub /\ handler' = NoHandler
    <3>1. CASE OpenViewer
      BY <1>b, <3>1 DEF OpenViewer, Connected
    <3>2. CASE ~OpenViewer
      BY <1>1, <3>2 DEF PollStatus, OnClose, CloseViewer, Hangup
    <3> QED
      BY <3>1, <3>2
  <2>2. /\ \A i \in 1..Len(hook'.live) : hook'.live[i] = i
        /\ \E k \in Nat : hook'.buffer = (Len(hook'.live) + 1)..k
    <3>1. CASE PollStatus
      <4>1. hook'.live = hook.live /\ hook'.buffer = {}
        BY <1>0, <3>1 DEF PollStatus, Hooks
      <4>2. {} = (Len(hook.live) + 1)..Len(hook.live)
        BY <1>d
      <4> QED
        BY <1>d, <4>1, <4>2 DEF Gapless
    <3>2. CASE OnClose
      <4>1. hook'.live = hook.live /\ hook'.buffer = hook.buffer
        BY <1>0, <3>2 DEF OnClose, Becomes, Hooks
      <4> QED
        BY <4>1 DEF Gapless
    <3>3. CASE OpenViewer \/ CloseViewer
      <4>1. hook'.live = <<>> /\ hook'.buffer = {}
        BY <3>3 DEF OpenViewer, CloseViewer, FreshHook
      <4>2. {} = (Len(<<>>) + 1)..0 /\ Len(<<>>) = 0
        OBVIOUS
      <4> QED
        BY <4>1, <4>2
    <3> QED
      BY <1>1, <3>1, <3>2, <3>3
  <2>3. Follows(wire, Got)'
    BY <1>c, <2>1
  <2> QED
    BY <1>a, <1>b, <2>1, <2>2, <2>3, GaplessUnsubscribed
<1>2. CASE FetchLogs \/ DismissToast
  <2>1. UNCHANGED <<sub, handler, wire, hook>>
    BY <1>2 DEF FetchLogs, DismissToast, conn
  <2> QED
    BY <1>a, <2>1 DEF Gapless, Got, Before
<1>3. CASE Reconnect
  <2>1. /\ UNCHANGED <<sub, handler, wire>> /\ hook'.live = hook.live /\ hook'.buffer = hook.buffer
    BY <1>0, <1>3 DEF Reconnect, Hooks
  <2> QED
    BY <1>a, <2>1 DEF Gapless, Got, Before
<1>4. CASE Frame
  <2>1. /\ UNCHANGED <<sub, handler, wire>> /\ hook'.live = hook.live \o Sorted(hook.buffer)
        /\ hook'.buffer = {}
    BY <1>0, <1>4 DEF Frame, conn, Hooks
  <2>2. PICK got : got = hook.live \o Sorted(hook.buffer)
    OBVIOUS
  <2>3. got = [i \in 1..Len(got) |-> i]
    BY <2>2, GaplessShown
  <2>4. /\ Sorted(hook.buffer) \in Seq(1..MaxLines)
        /\ ToSet(Sorted(hook.buffer)) = hook.buffer
    BY <1>0, SortedTyped, SortedSet
  <2>5. got \in Seq(1..MaxLines) /\ ToSet(got) = ToSet(hook.live) \cup hook.buffer
    BY <1>0, <2>2, <2>4, ConcatProperties, ToSetConcat
  <2>6. Got' = Got
    BY <2>1, <2>2, <2>5 DEF Got
  <2>7. \A i \in 1..Len(hook'.live) : hook'.live[i] = i
    BY <2>1, <2>2, <2>3
  <2>8. Len(got) \in Nat /\ {} = (Len(got) + 1)..Len(got)
    <3>1. Len(got) \in Nat
      BY <2>5, LenProperties
    <3> QED
      BY <3>1
  <2>9. \E k \in Nat : hook'.buffer = (Len(hook'.live) + 1)..k
    BY <2>1, <2>2, <2>8
  <2>10. Before' = Before
    BY <1>a, <2>1 DEF Before
  <2> QED
    BY <1>a, <2>1, <2>6, <2>7, <2>9, <2>10 DEF Gapless
<1>5. CASE Receive
  <2>1. known = "running" /\ known' = known /\ UNCHANGED <<sub, handler>> /\ wire # <<>> /\ wire' = Tail(wire)
    BY <1>0, <1>5 DEF Receive, Connected
  <2>2. PICK m : m = Head(wire)
    OBVIOUS
  <2>3. m \in 1..MaxLines /\ m \notin Codes
    <3>1. m \in Frames
      BY <1>0, <2>1, <2>2, HeadTailProperties
    <3> QED
      BY <1>5, <2>2, <3>1 DEF Receive, Frames
  <2>4. /\ hook'.live = hook.live /\ Got' = Got \cup {m}
        /\ \E k \in Nat : hook'.buffer = (Len(hook'.live) + 1)..k
    <3>1. CASE m \in hook.seen
      <4>1. hook' = hook
        BY <1>5, <2>2, <3>1 DEF Receive
      <4>2. m \in Got
        BY <2>1, <3>1
      <4> QED
        BY <4>1, <4>2 DEF Got, Gapless
    <3>2. CASE m \notin hook.seen
      <4>1. hook'.live = hook.live /\ hook'.buffer = hook.buffer \cup {m}
        BY <1>0, <1>5, <2>2, <3>2 DEF Receive, Hooks
      <4>2. m \notin Got
        BY <2>1, <3>2
      <4>3. \A i \in 1..(m - 1) : i \in Got
        <5>1. Head(wire) = wire[1] /\ 1 \in 1..Len(wire)
          BY <1>0, <2>1, LogNumbers, EmptySeq
        <5> QED
          BY <1>0, <2>2, <2>3, <5>1 DEF Follows
      <4>4. m = l + 1
        <5>1. m \in Nat /\ m > l
          BY <1>d, <2>3, <4>2, LogNumbers
        <5>2. CASE m = 1
          BY <1>d, <5>1, <5>2
        <5>3. CASE m # 1
          <6>1. m - 1 \in 1..(m - 1)
            BY <2>3, <5>1, <5>3, LogNumbers
          <6>2. m - 1 \in 1..l
            BY <1>d, <4>3, <6>1
          <6> QED
            BY <1>d, <5>1, <6>2
        <5> QED
          BY <5>2, <5>3
      <4>5. hook'.buffer = (Len(hook.live) + 1)..(l + 1) /\ l + 1 \in Nat
        BY <1>d, <4>1, <4>4
      <4> QED
        BY <4>1, <4>5 DEF Got
    <3> QED
      BY <3>1, <3>2
  <2>5. Follows(Tail(wire), Got \cup {m})
    BY <1>0, <2>1, <2>2, FollowsTail
  <2>6. Follows(wire, Got)'
    BY <2>1, <2>4, <2>5
  <2>7. ToSet(wire) = {m} \cup ToSet(wire')
    BY <1>0, <2>1, <2>2, ToSetTail
  <2>8. Before' = Before
    BY <1>a, <2>1 DEF Before
  <2>9. Got \cup ToSet(wire) = Got' \cup ToSet(wire')
    BY <2>4, <2>7
  <2> QED
    BY <1>a, <2>1, <2>4, <2>6, <2>8, <2>9 DEF Gapless
<1> QED
  BY <1>1, <1>2, <1>3, <1>4, <1>5 DEF Browser

----------------------------------------------------------------------------

(* Before the first line nothing is stored, sent or shown.                    *)
LEMMA LogsInitInv ==
  ASSUME SizesAssumption, LogsInit
  PROVE  LogsInv
<1>1. LogsTypeOK
  <2>1. <<>> \in Seq(1..MaxLines) /\ <<>> \in Seq(Frames)
    BY EmptySeq
  <2>2. 0 \in 0..MaxRetries /\ 0 \in 0..MaxFaults /\ 0 \in 0..MaxOpens /\ MaxLines \in Nat
    BY DEF SizesAssumption
  <2>3. ServerTyped
    BY <2>2 DEF LogsInit, ServerTyped
  <2>4. ConnTyped
    BY <2>1 DEF LogsInit, ConnTyped, NoSub, NoHandler
  <2>5. FreshHook \in Hooks
    BY <2>1, <2>2 DEF FreshHook, Hooks
  <2>6. BrowserTyped
    BY <2>1, <2>5 DEF LogsInit, BrowserTyped, NotStored
  <2>7. BoundsTyped
    BY <2>2 DEF LogsInit, BoundsTyped
  <2> QED
    BY <2>3, <2>4, <2>6, <2>7, LogsTypes
<1>2. Len(<<>>) = 0 /\ ToSet(<<>>) = {} /\ IsInjective(<<>>)
  BY DEF ToSet, IsInjective
<1>3. Connected
  BY <1>2 DEF LogsInit, Connected, NoSub, NoHandler, FreshHook
<1>4. Batched /\ FinalComplete /\ NoticeTrue
  BY DEF LogsInit, Batched, FinalComplete, NoticeTrue, Screen, NotStored, SizesAssumption
<1>5. LiveUnique /\ hook.seen = Got
  BY <1>2 DEF LogsInit, LiveUnique, Got, FreshHook
<1>6. Gapless
  <2>1. hook.live = <<>> /\ hook.buffer = {} /\ sub.q = <<>> /\ handler.pc = "none" /\ wire = <<>>
        /\ n = 0 /\ saved = 0 /\ db = {}
    BY DEF LogsInit, FreshHook, NoSub, NoHandler
  <2>2. {} = 1..0 /\ {} = (Len(<<>>) + 1)..0
    BY <1>2
  <2> QED
    BY <1>2, <2>1, <2>2 DEF Gapless, Follows
<1> QED
  BY <1>1, <1>3, <1>4, <1>5, <1>6 DEF LogsInv

(* Every step keeps the invariant.                                            *)
LEMMA LogsStep ==
  ASSUME SizesAssumption, MaxLines <= MaxHistory, MaxLines <= MaxSeen, LogsInv, [LogsNext]_logsVars
  PROVE  LogsInv'
<1>1. CASE LogsNext
  <2>1. LogsTypeOK' /\ Connected' /\ Batched' /\ FinalComplete' /\ NoticeTrue'
    BY <1>1, LogsTyped, ConnectedStep, StoredStep, NoticeStep DEF LogsInv
  <2>2. LiveUnique' /\ (known' = "running" => hook'.seen = Got')
    BY <1>1, SeenStep DEF LogsInv
  <2>3. ~lossy' => Gapless'
    <3> SUFFICES ASSUME ~lossy' PROVE Gapless'
      OBVIOUS
    <3>1. Gapless
      BY <1>1, LossStays DEF LogsInv
    <3>2. CASE Execution \/ Crash
      BY <3>1, <3>2, GaplessExecution DEF LogsInv
    <3>3. CASE Server \/ Refuse \/ SubscriberLimit \/ ConnectionLost
      BY <3>1, <3>3, GaplessServer DEF LogsInv
    <3>4. CASE Browser \/ OpenViewer \/ CloseViewer \/ DismissToast
      BY <2>2, <3>1, <3>4, GaplessBrowser DEF LogsInv
    <3> QED
      BY <1>1, <3>2, <3>3, <3>4 DEF LogsNext, Outside
  <2> QED
    BY <2>1, <2>2, <2>3 DEF LogsInv
<1>2. CASE UNCHANGED logsVars
  <2>1. UNCHANGED <<stage, n, saved, db, sub, handler, wire, sock, hook, opened, known, stored, toast,
                    faults, opens, lossy>>
    BY <1>2 DEF logsVars, server, conn, browser, bounds
  <2>2. LogsTypeOK' /\ Connected' /\ Batched'
    BY <2>1 DEF LogsInv, LogsTypeOK, Connected, Batched
  <2>3. LiveUnique' /\ FinalComplete' /\ NoticeTrue'
    BY <2>1 DEF LogsInv, LiveUnique, FinalComplete, History, NoticeTrue, Screen, Streaming
  <2>4. Got' = Got /\ (Gapless => Gapless')
    BY <2>1 DEF Got, Gapless, Before
  <2> QED
    BY <2>1, <2>2, <2>3, <2>4 DEF LogsInv
<1> QED
  BY <1>1, <1>2

(* What the viewer shows of an execution is its log (LogExact): no line twice *)
(* and, unless something was lost, none missing, the stored log complete, the *)
(* notice true.  For any sizes and bounds, as long as the log is no longer    *)
(* than the query and the hook's memory.                                      *)
THEOREM ShownLogIsExact ==
  ASSUME SizesAssumption, MaxLines <= MaxHistory, MaxLines <= MaxSeen
  PROVE  LogsSpec => []LogExact
<1>1. LogsInit => LogsInv
  BY LogsInitInv
<1>2. LogsInv /\ [LogsNext]_logsVars => LogsInv'
  BY LogsStep
<1>3. LogsInv => LogExact
  BY GaplessShown DEF LogsInv, LogExact, LiveContiguous
<1> QED
  BY <1>1, <1>2, <1>3, PTL DEF LogsSpec

----------------------------------------------------------------------------
(* The mock server: lists of records.                                         *)

(* Array.find returns a position of the list that holds the id.               *)
LEMMA FindFacts ==
  ASSUME NEW S, NEW list \in Seq(S), NEW id, Found(list, id)
  PROVE  Find(list, id) \in DOMAIN list /\ list[Find(list, id)].id = id
<1> DEFINE hits == {i \in DOMAIN list : list[i].id = id}
<1>1. hits \subseteq Nat /\ hits # {} /\ Find(list, id) = Min(hits)
  BY DEF Found, Find
<1>2. Min(hits) \in hits
  <2> HIDE DEF hits
  <2> QED
    BY <1>1, LeastNumber
<1> QED
  BY <1>1, <1>2

(* The list without one of its entries.                                       *)
LEMMA RemoveAtFacts ==
  ASSUME NEW S, NEW s \in Seq(S), NEW i \in DOMAIN s
  PROVE  /\ RemoveAt(s, i) \in Seq(S) /\ Len(RemoveAt(s, i)) = Len(s) - 1
         /\ \A k \in DOMAIN RemoveAt(s, i) :
              /\ k < i => k \in DOMAIN s /\ RemoveAt(s, i)[k] = s[k]
              /\ k >= i => k + 1 \in DOMAIN s /\ RemoveAt(s, i)[k] = s[k + 1]
<1> DEFINE a == SubSeq(s, 1, i - 1)
           b == SubSeq(s, i + 1, Len(s))
<1>1. i \in 1..Len(s) /\ Len(s) \in Nat /\ DOMAIN s = 1..Len(s)
  BY LenProperties
<1>2. a \in Seq(S) /\ Len(a) = i - 1 /\ \A k \in 1..(i - 1) : a[k] = s[k]
  <2>1. \A k \in 1..(i - 1) : s[k] \in S
    BY <1>1, ElementOfSeq
  <2> QED
    BY <1>1, <2>1, SubSeqProperties
<1>3. b \in Seq(S) /\ Len(b) = Len(s) - i /\ \A k \in 1..(Len(s) - i) : b[k] = s[k + i]
  <2>1. \A k \in (i + 1)..Len(s) : s[k] \in S
    BY <1>1, ElementOfSeq
  <2>2. /\ SubSeq(s, i + 1, Len(s)) \in Seq(S)
        /\ Len(SubSeq(s, i + 1, Len(s))) = IF i + 1 <= Len(s) THEN Len(s) - (i + 1) + 1 ELSE 0
        /\ \A k \in 1..(Len(s) - (i + 1) + 1) : SubSeq(s, i + 1, Len(s))[k] = s[(i + 1) + k - 1]
    BY <1>1, <2>1, SubSeqProperties
  <2> QED
    BY <1>1, <2>2
<1> HIDE DEF a, b
<1>4. /\ a \o b \in Seq(S) /\ Len(a \o b) = Len(s) - 1
      /\ \A k \in 1..(Len(s) - 1) : (a \o b)[k] = IF k <= i - 1 THEN a[k] ELSE b[k - (i - 1)]
  <2>1. /\ a \o b \in Seq(S) /\ Len(a \o b) = Len(a) + Len(b)
        /\ \A k \in 1..(Len(a) + Len(b)) : (a \o b)[k] = IF k <= Len(a) THEN a[k] ELSE b[k - Len(a)]
    BY <1>2, <1>3, ConcatProperties
  <2>2. Len(a) + Len(b) = Len(s) - 1 /\ Len(a) = i - 1
    BY <1>1, <1>2, <1>3
  <2> QED
    BY <2>1, <2>2
<1>5. RemoveAt(s, i) = a \o b
  BY DEF RemoveAt, a, b
<1>6. DOMAIN RemoveAt(s, i) = 1..(Len(s) - 1)
  BY <1>4, <1>5, LenProperties
<1>7. ASSUME NEW k \in 1..(Len(s) - 1)
      PROVE  /\ k < i => k \in DOMAIN s /\ (a \o b)[k] = s[k]
             /\ k >= i => k + 1 \in DOMAIN s /\ (a \o b)[k] = s[k + 1]
  <2>1. CASE k < i
    BY <1>1, <1>2, <1>4, <2>1
  <2>2. CASE k >= i
    <3>1. k - (i - 1) \in 1..(Len(s) - i) /\ (k - (i - 1)) + i = k + 1
      BY <1>1, <2>2
    <3>2. (a \o b)[k] = b[k - (i - 1)]
      BY <1>1, <1>4, <2>2
    <3>3. b[k - (i - 1)] = s[k + 1]
      BY <1>3, <3>1
    <3>4. k + 1 \in DOMAIN s
      BY <1>1
    <3> QED
      BY <1>1, <2>2, <3>2, <3>3, <3>4
  <2> QED
    BY <1>1, <2>1, <2>2
<1> QED
  BY <1>4, <1>5, <1>6, <1>7

(* Ids stay distinct when an entry is removed, appended or changed.           *)
LEMMA RemoveDistinct ==
  ASSUME NEW S, NEW s \in Seq(S), NEW i \in DOMAIN s, Distinct(s)
  PROVE  /\ Distinct(RemoveAt(s, i))
         /\ \A k \in DOMAIN RemoveAt(s, i) : \E l \in DOMAIN s : RemoveAt(s, i)[k] = s[l]
<1>1. PICK r : r = RemoveAt(s, i)
  OBVIOUS
<1>2. /\ r \in Seq(S) /\ i \in Nat
      /\ \A k \in DOMAIN r : /\ k < i => k \in DOMAIN s /\ r[k] = s[k]
                             /\ k >= i => k + 1 \in DOMAIN s /\ r[k] = s[k + 1]
  BY <1>1, RemoveAtFacts
<1>3. DOMAIN r \subseteq Nat
  BY <1>2
<1>4. \A k \in DOMAIN r : \E l \in DOMAIN s : r[k] = s[l]
  BY <1>2, <1>3
<1>5. Distinct(r)
  <2> SUFFICES ASSUME NEW k \in DOMAIN r, NEW l \in DOMAIN r, r[k].id = r[l].id PROVE k = l
    BY DEF Distinct
  <2>1. k \in Nat /\ l \in Nat
    BY <1>3
  <2>2. CASE k < i /\ l < i
    BY <1>2, <2>2 DEF Distinct
  <2>3. CASE k >= i /\ l >= i
    BY <1>2, <2>1, <2>3 DEF Distinct
  <2>4. CASE k < i /\ l >= i
    <3>1. k \in DOMAIN s /\ l + 1 \in DOMAIN s /\ s[k].id = s[l + 1].id
      BY <1>2, <2>4
    <3>2. k = l + 1
      BY <3>1 DEF Distinct
    <3> QED
      BY <1>2, <2>1, <2>4, <3>2
  <2>5. CASE k >= i /\ l < i
    <3>1. l \in DOMAIN s /\ k + 1 \in DOMAIN s /\ s[l].id = s[k + 1].id
      BY <1>2, <2>5
    <3>2. l = k + 1
      BY <3>1 DEF Distinct
    <3> QED
      BY <1>2, <2>1, <2>5, <3>2
  <2> QED
    BY <1>2, <2>1, <2>2, <2>3, <2>4, <2>5
<1> QED
  BY <1>1, <1>4, <1>5

(* A list that grows by a new id.                                             *)
LEMMA AppendDistinct ==
  ASSUME NEW S, NEW s \in Seq(S), Distinct(s), NEW x, \A i \in DOMAIN s : s[i].id # x.id
  PROVE  Distinct(Append(s, x))
BY DEF Distinct

(* A function on the positions of a list is a list.                           *)
LEMMA MapSeq ==
  ASSUME NEW S, NEW T, NEW s \in Seq(S), NEW r, r = [i \in DOMAIN s |-> r[i]], \A i \in DOMAIN s : r[i] \in T
  PROVE  r \in Seq(T) /\ Len(r) = Len(s) /\ DOMAIN r = DOMAIN s
BY SeqDef

----------------------------------------------------------------------------
(* Steps that edit policies and exceptions.                                   *)

(* What one step may do to the list of executions: every record stays, and    *)
(* only a running one changes its status.                                     *)
ExecsMove ==
  \A i \in DOMAIN execs : \E k \in DOMAIN execs' :
    /\ execs'[k].oid = execs[i].oid
    /\ execs'[k].status = execs[i].status \/ execs[i].status = "running"

(* The records the lists hold.                                                *)
LEMMA RecordFacts ==
  ASSUME Shapes
  PROVE  /\ DOMAIN policies = 1..Len(policies) /\ Len(policies) \in Nat
         /\ \A i \in DOMAIN policies : policies[i] \in PolicyRecords
         /\ DOMAIN execs = 1..Len(execs) /\ Len(execs) \in Nat
         /\ \A i \in DOMAIN execs : execs[i] \in ExecRecords
         /\ DOMAIN exceptions = 1..Len(exceptions) /\ Len(exceptions) \in Nat
         /\ \A i \in DOMAIN exceptions : exceptions[i] \in ExceptionRecords
<1>1. policies \in Seq(PolicyRecords) /\ execs \in Seq(ExecRecords) /\ exceptions \in Seq(ExceptionRecords)
  BY DEF Shapes
<1> QED
  BY <1>1

(* A step that changes policies, and whose counters stay ahead.               *)
LEMMA PoliciesStep ==
  ASSUME MockInv, UNCHANGED <<execs, exceptions, lines, timers, sockets, reset, emergency>>,
         policies' \in Seq(PolicyRecords), Distinct(policies'),
         seq' \in [policy : Nat, exec : Nat, exception : Nat], born' \in [policy : Nat, exec : Nat],
         seq'.exec = seq.exec, seq'.exception = seq.exception, born'.exec = born.exec,
         \A i \in DOMAIN policies' : policies'[i].id < seq'.policy,
         \A i \in DOMAIN policies' : policies'[i].state = "transitioning" =>
           \E l \in DOMAIN policies : /\ policies[l].state = "transitioning"
                                      /\ policies'[i].oid = policies[l].oid /\ policies'[i].id = policies[l].id
  PROVE  MockInv' /\ ExecsMove
<1>1. Shapes'
  BY DEF MockInv, Shapes
<1>2. IdsGiven'
  BY DEF MockInv, IdsGiven, Distinct
<1>3. ExecsGiven' /\ WritersOwn' /\ NoneInterrupted'
  BY DEF MockInv, ExecsGiven, Distinct, WritersOwn, NoneInterrupted
<1>4. TransitionPending'
  BY DEF MockInv, TransitionPending
<1>5. ExecsMove
  BY DEF ExecsMove
<1> QED
  BY <1>1, <1>2, <1>3, <1>4, <1>5 DEF MockInv

(* A step that changes exceptions.                                            *)
LEMMA ExceptionsStep ==
  ASSUME MockInv, UNCHANGED <<policies, execs, lines, timers, sockets, born, reset, emergency>>,
         exceptions' \in Seq(ExceptionRecords), Distinct(exceptions'),
         seq' \in [policy : Nat, exec : Nat, exception : Nat], seq'.exec = seq.exec, seq'.policy = seq.policy,
         \A i \in DOMAIN exceptions' : exceptions'[i].id < seq'.exception
  PROVE  MockInv' /\ ExecsMove
<1>1. Shapes'
  BY DEF MockInv, Shapes
<1>2. IdsGiven'
  BY DEF MockInv, IdsGiven, Distinct
<1>3. ExecsGiven' /\ WritersOwn' /\ NoneInterrupted' /\ TransitionPending'
  BY DEF MockInv, ExecsGiven, Distinct, WritersOwn, NoneInterrupted, TransitionPending
<1>4. ExecsMove
  BY DEF ExecsMove
<1> QED
  BY <1>1, <1>2, <1>3, <1>4 DEF MockInv

(* A policy that is added.                                                    *)
LEMMA AddStep ==
  ASSUME MockInv, NEW p \in PolicyRecords, p.id = seq.policy, p.state # "transitioning", AddPolicy(p),
         UNCHANGED <<execs, exceptions, lines, timers, sockets, reset, emergency>>
  PROVE  MockInv' /\ ExecsMove
<1>1. Shapes /\ IdsGiven /\ policies \in Seq(PolicyRecords)
  BY DEF MockInv, Shapes
<1>2. seq \in [policy : Nat, exec : Nat, exception : Nat] /\ born \in [policy : Nat, exec : Nat]
  BY <1>1 DEF Shapes
<1>3. /\ policies' = Append(policies, p) /\ seq' = [seq EXCEPT !.policy = @ + 1]
      /\ born' = [born EXCEPT !.policy = @ + 1]
  BY DEF AddPolicy
<1>4. /\ seq' \in [policy : Nat, exec : Nat, exception : Nat] /\ born' \in [policy : Nat, exec : Nat]
      /\ seq'.exec = seq.exec /\ seq'.exception = seq.exception /\ born'.exec = born.exec
      /\ seq'.policy = seq.policy + 1 /\ seq.policy \in Nat
  BY <1>2, <1>3
<1>5. /\ policies' \in Seq(PolicyRecords) /\ DOMAIN policies' = DOMAIN policies \cup {Len(policies) + 1}
      /\ policies'[Len(policies) + 1] = p /\ \A i \in DOMAIN policies : policies'[i] = policies[i]
  BY <1>1, <1>3
<1>6. \A i \in DOMAIN policies : policies[i].id < seq.policy /\ policies[i].id \in Nat
  BY <1>1, RecordFacts DEF IdsGiven, PolicyRecords
<1>7. Distinct(policies')
  BY <1>1, <1>3, <1>4, <1>6, AppendDistinct, SMTT(30) DEF IdsGiven
<1>8. \A i \in DOMAIN policies' : policies'[i].id < seq'.policy
  BY <1>4, <1>5, <1>6
<1> QED
  BY <1>4, <1>5, <1>7, <1>8, PoliciesStep

(* A policy that is changed and keeps its ids and its state.                  *)
LEMMA ChangeStep ==
  ASSUME MockInv, NEW nr \in DOMAIN policies, NEW p \in PolicyRecords, policies' = [policies EXCEPT ![nr] = p],
         p.id = policies[nr].id, p.oid = policies[nr].oid, p.state = policies[nr].state,
         UNCHANGED <<execs, exceptions, lines, seq, born, timers, sockets, reset, emergency>>
  PROVE  MockInv' /\ ExecsMove
<1>1. Shapes /\ IdsGiven /\ policies \in Seq(PolicyRecords)
  BY DEF MockInv, Shapes
<1>2. seq \in [policy : Nat, exec : Nat, exception : Nat] /\ born \in [policy : Nat, exec : Nat]
  BY <1>1 DEF Shapes
<1>3. /\ policies' \in Seq(PolicyRecords) /\ DOMAIN policies' = DOMAIN policies
      /\ policies'[nr] = p /\ \A i \in DOMAIN policies : i # nr => policies'[i] = policies[i]
  BY <1>1
<1>4. Distinct(policies') /\ \A i \in DOMAIN policies' : policies'[i].id < seq'.policy
  BY <1>1, <1>3 DEF IdsGiven, Distinct
<1> QED
  BY <1>2, <1>3, <1>4, PoliciesStep

(* The seeded names are names.                                                *)
LEMMA NameFacts ==
  ASSUME MockAssumption
  PROVE  Name1 \in Names /\ Name2 \in Names
<1>1. Names # {}
  BY FS_EmptySet DEF MockAssumption
<1>2. \E nm \in Names : nm # Name1
  <2> SUFFICES ASSUME Names \subseteq {Name1} PROVE FALSE
    OBVIOUS
  <2>1. Names = {Name1}
    BY <1>1
  <2> QED
    BY <2>1, FS_Singleton DEF MockAssumption
<1> QED
  BY <1>1, <1>2 DEF Name1, Name2

(* The routes of policies and their import.                                   *)
LEMMA PolicyRoutes ==
  ASSUME MockInv, NEW nm \in Names, NEW m \in {"plan", "apply"}, NEW on \in BOOLEAN, NEW id,
         CreatePolicy(nm, m, on) \/ UpdatePolicy(id, m, on) \/ DeletePolicy(id)
  PROVE  MockInv' /\ ExecsMove
<1>1. Shapes /\ IdsGiven /\ policies \in Seq(PolicyRecords)
  BY DEF MockInv, Shapes
<1>2. seq \in [policy : Nat, exec : Nat, exception : Nat] /\ born \in [policy : Nat, exec : Nat]
  BY <1>1 DEF Shapes
<1>3. CASE CreatePolicy(nm, m, on)
  <2> DEFINE p == NewPolicy(nm, m, on, "awake")
  <2>1. p \in PolicyRecords /\ p.id = seq.policy /\ p.state = "awake"
    BY <1>2 DEF NewPolicy, PolicyRecords
  <2>2. AddPolicy(p) /\ UNCHANGED <<execs, exceptions, lines, timers, sockets, reset, emergency>>
    BY <1>3 DEF CreatePolicy
  <2> HIDE DEF p
  <2> QED
    BY <2>1, <2>2, AddStep
<1>4. CASE UpdatePolicy(id, m, on)
  <2> DEFINE k == Find(policies, id)
             p == [policies[k] EXCEPT !.mode = m, !.enabled = on]
  <2>1. k \in DOMAIN policies
    BY <1>1, <1>4, FindFacts DEF UpdatePolicy
  <2>2. policies' = [policies EXCEPT ![k].mode = m, ![k].enabled = on]
        /\ UNCHANGED <<execs, exceptions, lines, seq, born, timers, sockets, reset, emergency>>
    BY <1>4 DEF UpdatePolicy
  <2> HIDE DEF k
  <2>3. policies' = [policies EXCEPT ![k] = p]
    BY <1>1, <2>1, <2>2
  <2>4. p \in PolicyRecords /\ p.id = policies[k].id /\ p.oid = policies[k].oid /\ p.state = policies[k].state
    <3>1. policies[k] \in PolicyRecords
      BY <1>1, <2>1
    <3> QED
      BY <3>1 DEF PolicyRecords
  <2> HIDE DEF p
  <2> QED
    BY <2>1, <2>2, <2>3, <2>4, ChangeStep
<1>5. CASE DeletePolicy(id)
  <2>1. PICK k \in DOMAIN policies : policies' = RemoveAt(policies, k)
    BY <1>1, <1>5, FindFacts DEF DeletePolicy
  <2>2. UNCHANGED <<execs, exceptions, lines, seq, born, timers, sockets, reset, emergency>>
    BY <1>5 DEF DeletePolicy
  <2>3. policies' \in Seq(PolicyRecords) /\ Distinct(policies')
        /\ \A i \in DOMAIN policies' : \E l \in DOMAIN policies : policies'[i] = policies[l]
    BY <1>1, <2>1, RemoveAtFacts, RemoveDistinct DEF IdsGiven
  <2>4. \A i \in DOMAIN policies' : policies'[i].id < seq'.policy
    BY <1>1, <2>2, <2>3 DEF IdsGiven
  <2> QED
    BY <1>2, <2>2, <2>3, <2>4, PoliciesStep
<1> QED
  BY <1>3, <1>4, <1>5

(* The import of a policy.                                                    *)
LEMMA ImportRoute ==
  ASSUME MockInv, NEW inc \in Envelopes, NEW r \in Resolutions, NEW nm \in NewNames, ImportPolicy(inc, r, nm)
  PROVE  MockInv' /\ ExecsMove
<1>1. Shapes /\ IdsGiven /\ policies \in Seq(PolicyRecords) /\ inc.name \in Names
  BY DEF MockInv, Shapes, Envelopes
<1>2. seq \in [policy : Nat, exec : Nat, exception : Nat] /\ born \in [policy : Nat, exec : Nat]
  BY <1>1 DEF Shapes
<1>3. UNCHANGED <<execs, exceptions, lines, timers, sockets, reset, emergency>>
  BY DEF ImportPolicy
<1>4. ASSUME NEW x \in Names \cup NewNames, AddPolicy(Imported(NewPolicy(x, "plan", FALSE, "unknown"), inc))
      PROVE  MockInv' /\ ExecsMove
  <2> DEFINE p == Imported(NewPolicy(x, "plan", FALSE, "unknown"), inc)
  <2>1. p \in PolicyRecords /\ p.id = seq.policy /\ p.state = "unknown"
    <3> DEFINE q == NewPolicy(x, "plan", FALSE, "unknown")
    <3>1. q \in PolicyRecords /\ q.id = seq.policy /\ q.state = "unknown"
      BY <1>2 DEF NewPolicy, PolicyRecords
    <3>2. p = [q EXCEPT !.mode = "plan", !.enabled = FALSE]
      BY DEF Imported
    <3> HIDE DEF p, q
    <3> QED
      BY <3>1, <3>2 DEF PolicyRecords
  <2>2. AddPolicy(p)
    BY <1>4
  <2> HIDE DEF p
  <2> QED
    BY <1>3, <2>1, <2>2, AddStep
<1>5. CASE ImportOverwrite(inc)
  <2> DEFINE k == FindName(inc.name)
             p == Imported(policies[k], inc)
  <2>1. k \in DOMAIN policies
    <3> DEFINE hits == {i \in DOMAIN policies : policies[i].name = inc.name}
    <3>1. hits \subseteq Nat /\ hits # {} /\ k = Min(hits)
      BY <1>1, <1>5 DEF ImportOverwrite, FindName
    <3>2. Min(hits) \in hits
      <4> HIDE DEF hits
      <4> QED
        BY <3>1, LeastNumber
    <3> QED
      BY <3>1, <3>2
  <2>2. policies' = [policies EXCEPT ![k] = p] /\ UNCHANGED <<seq, born>>
    BY <1>5 DEF ImportOverwrite
  <2> HIDE DEF k
  <2>3. p \in PolicyRecords /\ p.id = policies[k].id /\ p.oid = policies[k].oid /\ p.state = policies[k].state
    <3>1. policies[k] \in PolicyRecords
      BY <1>1, <2>1
    <3> QED
      BY <3>1 DEF PolicyRecords, Imported
  <2> HIDE DEF p
  <2> QED
    BY <1>3, <2>1, <2>2, <2>3, ChangeStep
<1> QED
  BY <1>1, <1>4, <1>5 DEF ImportPolicy, ImportRename, ImportCreate

(* The routes of exceptions, and the start of one.                            *)
LEMMA ExceptionRoutes ==
  ASSUME MockInv, NEW pid \in Nat, NEW id, NEW f \in BOOLEAN, NEW nr \in DOMAIN exceptions \cup {0},
         \/ AddException(pid) \/ DeleteException(id) \/ UpdateException(id, f)
         \/ nr \in DOMAIN exceptions /\ Begin(nr)
  PROVE  MockInv' /\ ExecsMove
<1>1. Shapes /\ IdsGiven /\ exceptions \in Seq(ExceptionRecords)
  BY DEF MockInv, Shapes
<1>2. seq \in [policy : Nat, exec : Nat, exception : Nat]
  BY <1>1 DEF Shapes
<1>3. CASE AddException(pid)
  <2> DEFINE x == [id |-> seq.exception, policy |-> pid, future |-> TRUE]
  <2>1. x \in ExceptionRecords /\ x.id = seq.exception
    BY <1>2 DEF ExceptionRecords
  <2>2. exceptions' = Append(exceptions, x) /\ seq' = [seq EXCEPT !.exception = @ + 1]
        /\ UNCHANGED <<policies, execs, lines, born, timers, sockets, reset, emergency>>
    BY <1>3 DEF AddException
  <2> HIDE DEF x
  <2>3. /\ seq' \in [policy : Nat, exec : Nat, exception : Nat] /\ seq'.exec = seq.exec
        /\ seq'.policy = seq.policy /\ seq'.exception = seq.exception + 1 /\ seq.exception \in Nat
    BY <1>2, <2>2
  <2>4. /\ exceptions' \in Seq(ExceptionRecords) /\ DOMAIN exceptions' = DOMAIN exceptions \cup {Len(exceptions) + 1}
        /\ exceptions'[Len(exceptions) + 1] = x /\ \A i \in DOMAIN exceptions : exceptions'[i] = exceptions[i]
    BY <1>1, <2>1, <2>2
  <2>5. \A i \in DOMAIN exceptions : exceptions[i].id < seq.exception /\ exceptions[i].id \in Nat
    BY <1>1, RecordFacts DEF IdsGiven, ExceptionRecords
  <2>6. Distinct(exceptions')
    BY <1>1, <2>1, <2>2, <2>3, <2>5, AppendDistinct, SMTT(30) DEF IdsGiven
  <2>7. \A i \in DOMAIN exceptions' : exceptions'[i].id < seq'.exception
    BY <2>1, <2>3, <2>4, <2>5
  <2> QED
    BY <2>2, <2>3, <2>4, <2>6, <2>7, ExceptionsStep
<1>4. CASE DeleteException(id)
  <2>1. PICK k \in DOMAIN exceptions : exceptions' = RemoveAt(exceptions, k)
    BY <1>1, <1>4, FindFacts DEF DeleteException
  <2>2. UNCHANGED <<policies, execs, lines, seq, born, timers, sockets, reset, emergency>>
    BY <1>4 DEF DeleteException
  <2>3. exceptions' \in Seq(ExceptionRecords) /\ Distinct(exceptions')
        /\ \A i \in DOMAIN exceptions' : \E l \in DOMAIN exceptions : exceptions'[i] = exceptions[l]
    BY <1>1, <2>1, RemoveAtFacts, RemoveDistinct DEF IdsGiven
  <2>4. \A i \in DOMAIN exceptions' : exceptions'[i].id < seq'.exception
    BY <1>1, <2>2, <2>3 DEF IdsGiven
  <2> QED
    BY <1>2, <2>2, <2>3, <2>4, ExceptionsStep
<1>5. ASSUME NEW k \in DOMAIN exceptions, NEW g \in BOOLEAN, exceptions' = [exceptions EXCEPT ![k].future = g],
             UNCHANGED <<policies, execs, lines, seq, born, timers, sockets, reset, emergency>>
      PROVE  MockInv' /\ ExecsMove
  <2> DEFINE x == [exceptions[k] EXCEPT !.future = g]
  <2>1. x \in ExceptionRecords /\ x.id = exceptions[k].id
    <3>1. exceptions[k] \in ExceptionRecords
      BY <1>1
    <3> QED
      BY <3>1 DEF ExceptionRecords
  <2>2. exceptions' = [exceptions EXCEPT ![k] = x]
    BY <1>5
  <2> HIDE DEF x
  <2>3. /\ exceptions' \in Seq(ExceptionRecords) /\ DOMAIN exceptions' = DOMAIN exceptions
        /\ \A i \in DOMAIN exceptions : exceptions'[i].id = exceptions[i].id
    BY <1>1, <2>1, <2>2
  <2>4. Distinct(exceptions') /\ \A i \in DOMAIN exceptions' : exceptions'[i].id < seq'.exception
    BY <1>1, <1>5, <2>3 DEF IdsGiven, Distinct
  <2> QED
    BY <1>2, <1>5, <2>3, <2>4, ExceptionsStep
<1>6. CASE UpdateException(id, f)
  <2>1. Find(exceptions, id) \in DOMAIN exceptions
    BY <1>1, <1>6, FindFacts DEF UpdateException
  <2> QED
    BY <1>5, <1>6, <2>1 DEF UpdateException
<1>7. CASE nr \in DOMAIN exceptions /\ Begin(nr)
  BY <1>5, <1>7 DEF Begin
<1> QED
  BY <1>3, <1>4, <1>6, <1>7

(* Every request that edits policies and exceptions.                          *)
LEMMA EditStep ==
  ASSUME MockAssumption, MockInv, Edit
  PROVE  MockInv' /\ ExecsMove
<1>1. Shapes /\ policies \in Seq(PolicyRecords) /\ 0 \in DOMAIN exceptions \cup {0}
  BY DEF MockInv, Shapes
<1>2. \A i \in DOMAIN policies : policies[i].id \in Nat
  BY <1>1, RecordFacts DEF PolicyRecords
<1>3. ASSUME NEW nm \in Names, NEW m \in {"plan", "apply"}, NEW on \in BOOLEAN, CreatePolicy(nm, m, on)
      PROVE  MockInv' /\ ExecsMove
  BY <1>3, PolicyRoutes
<1>4. ASSUME NEW i \in DOMAIN policies, NEW m \in {"plan", "apply"}, NEW on \in BOOLEAN,
             UpdatePolicy(policies[i].id, m, on)
      PROVE  MockInv' /\ ExecsMove
  BY <1>4, NameFacts, PolicyRoutes
<1>5. ASSUME NEW i \in DOMAIN policies, DeletePolicy(policies[i].id)
      PROVE  MockInv' /\ ExecsMove
  BY <1>5, NameFacts, PolicyRoutes
<1>6. ASSUME NEW inc \in Envelopes, NEW r \in Resolutions, NEW nm \in NewNames, ImportPolicy(inc, r, nm)
      PROVE  MockInv' /\ ExecsMove
  BY <1>6, ImportRoute
<1>7. ASSUME NEW i \in DOMAIN policies, CreateException(policies[i].id)
      PROVE  MockInv' /\ ExecsMove
  BY <1>1, <1>2, <1>7, ExceptionRoutes DEF CreateException
<1>8. ASSUME NEW i \in DOMAIN exceptions, ImportException(ExportException(exceptions[i]))
      PROVE  MockInv' /\ ExecsMove
  <2> DEFINE env == ExportException(exceptions[i])
  <2>1. Refusal(env) = 0 /\ AddException(policies[FindName(env.policyName)].id)
    BY <1>8 DEF ImportException
  <2>2. FindName(env.policyName) # 0
    BY <2>1 DEF Refusal
  <2>3. FindName(env.policyName) \in DOMAIN policies
    <3> DEFINE hits == {k \in DOMAIN policies : policies[k].name = env.policyName}
    <3>1. hits \subseteq Nat /\ hits # {} /\ FindName(env.policyName) = Min(hits)
      BY <1>1, <2>2 DEF FindName
    <3>2. Min(hits) \in hits
      <4> HIDE DEF hits
      <4> QED
        BY <3>1, LeastNumber
    <3> QED
      BY <3>1, <3>2
  <2> HIDE DEF env
  <2> QED
    BY <1>1, <1>2, <2>1, <2>3, ExceptionRoutes
<1>9. ASSUME NEW i \in DOMAIN exceptions, NEW f \in BOOLEAN,
             DeleteException(exceptions[i].id) \/ UpdateException(exceptions[i].id, f)
      PROVE  MockInv' /\ ExecsMove
  BY <1>1, <1>9, ExceptionRoutes
<1> QED
  BY <1>3, <1>4, <1>5, <1>6, <1>7, <1>8, <1>9 DEF Edit

----------------------------------------------------------------------------
(* Steps that run executions.                                                 *)

(* An execution ends, or is kept: its list keeps the identities, and the      *)
(* status of at most the running ones changes, but for a cancellation.        *)
LEMMA ExecsStep ==
  ASSUME MockInv, NEW r, execs' = r, r \in Seq(ExecRecords), DOMAIN r = DOMAIN execs,
         \A i \in DOMAIN execs : r[i].oid = execs[i].oid /\ r[i].id = execs[i].id,
         ~Cancels => \A i \in DOMAIN execs : /\ r[i].status # "interrupted"
                                             /\ r[i].status = execs[i].status \/ execs[i].status = "running",
         UNCHANGED <<seq, born>>
  PROVE  ExecsGiven' /\ NoneInterrupted' /\ (~Cancels => ExecsMove)
<1>1. ExecsGiven' /\ NoneInterrupted'
  BY DEF MockInv, ExecsGiven, Distinct, NoneInterrupted
<1>2. ~Cancels => ExecsMove
  BY DEF ExecsMove
<1> QED
  BY <1>1, <1>2

(* A policy is settled, or kept: its list keeps the identities, and none is   *)
(* in transition that was not.                                                *)
LEMMA SettleStep ==
  ASSUME MockInv, NEW r, policies' = r, r \in Seq(PolicyRecords), DOMAIN r = DOMAIN policies,
         \A i \in DOMAIN policies : r[i].oid = policies[i].oid /\ r[i].id = policies[i].id,
         UNCHANGED <<seq, exceptions>>
  PROVE  IdsGiven'
BY DEF MockInv, IdsGiven, Distinct

(* A trigger starts an execution and its timer.                               *)
LEMMA TriggerStep ==
  ASSUME MockInv, NEW nr \in DOMAIN policies, NEW d \in Directions, Trigger(policies[nr].id, d)
  PROVE  MockInv' /\ ExecsMove
<1> DEFINE k == Find(policies, policies[nr].id)
           p == policies[k]
           e == Started(p, d)
           t == [exec |-> e.oid, id |-> e.id, policy |-> p.oid, dir |-> d]
<1>1. Shapes /\ IdsGiven /\ ExecsGiven /\ WritersOwn /\ TransitionPending /\ NoneInterrupted
  BY DEF MockInv
<1>2. /\ policies \in Seq(PolicyRecords) /\ execs \in Seq(ExecRecords)
      /\ seq \in [policy : Nat, exec : Nat, exception : Nat] /\ born \in [policy : Nat, exec : Nat]
      /\ timers \subseteq Timers
  BY <1>1 DEF Shapes
<1>3. p \in PolicyRecords
  <2>1. k \in DOMAIN policies
    BY <1>2, FindFacts DEF Trigger
  <2> HIDE DEF k
  <2> QED
    BY <1>2, <2>1
<1>4. /\ execs' = Append(execs, e) /\ lines' = lines \cup FirstLines(e)
      /\ policies' = [i \in DOMAIN policies |->
                        IF policies[i].oid = p.oid THEN [policies[i] EXCEPT !.state = "transitioning"] ELSE policies[i]]
      /\ timers' = timers \cup {t}
      /\ seq' = [seq EXCEPT !.exec = @ + 1] /\ born' = [born EXCEPT !.exec = @ + 1]
      /\ UNCHANGED <<exceptions, sockets, reset, emergency>>
  BY DEF Trigger, Update
<1> HIDE DEF p
<1>5. /\ e \in ExecRecords /\ e.oid = born.exec + 1 /\ e.id = seq.exec /\ e.status = "running"
      /\ t \in Timers /\ t.policy = p.oid /\ t.id = e.id /\ t.exec = e.oid
  BY <1>2, <1>3, SMTT(30) DEF Started, ExecRecords, PolicyRecords, Timers
<1> HIDE DEF e, t
<1>6. /\ seq' \in [policy : Nat, exec : Nat, exception : Nat] /\ born' \in [policy : Nat, exec : Nat]
      /\ seq'.policy = seq.policy /\ seq'.exception = seq.exception
      /\ seq'.exec = seq.exec + 1 /\ born'.exec = born.exec + 1 /\ seq.exec \in Nat /\ born.exec \in Nat
  <2>1. seq \in [policy : Nat, exec : Nat, exception : Nat] /\ born \in [policy : Nat, exec : Nat]
    BY <1>2
  <2>2. seq' = [seq EXCEPT !.exec = @ + 1] /\ born' = [born EXCEPT !.exec = @ + 1]
    BY <1>4
  <2> QED
    BY <2>1, <2>2
<1>7. /\ policies' \in Seq(PolicyRecords) /\ DOMAIN policies' = DOMAIN policies
      /\ \A i \in DOMAIN policies :
           /\ policies'[i].oid = policies[i].oid /\ policies'[i].id = policies[i].id
           /\ policies'[i].state = policies[i].state \/ policies'[i].oid = p.oid
  <2>1. \A i \in DOMAIN policies :
           /\ policies'[i] \in PolicyRecords
           /\ policies'[i].oid = policies[i].oid /\ policies'[i].id = policies[i].id
           /\ policies'[i].state = policies[i].state \/ policies'[i].oid = p.oid
    <3> SUFFICES ASSUME NEW i \in DOMAIN policies
                 PROVE  /\ policies'[i] \in PolicyRecords
                        /\ policies'[i].oid = policies[i].oid /\ policies'[i].id = policies[i].id
                        /\ policies'[i].state = policies[i].state \/ policies'[i].oid = p.oid
      OBVIOUS
    <3>1. policies[i] \in PolicyRecords
      BY <1>2
    <3>2. CASE policies[i].oid = p.oid
      <4>1. policies'[i] = [policies[i] EXCEPT !.state = "transitioning"]
        BY <1>4, <3>2
      <4> QED
        BY <3>1, <3>2, <4>1 DEF PolicyRecords
    <3>3. CASE policies[i].oid # p.oid
      BY <1>4, <3>1, <3>3
    <3> QED
      BY <3>2, <3>3
  <2>2. policies' = [i \in DOMAIN policies |-> policies'[i]]
    BY <1>4
  <2> QED
    BY <1>2, <2>1, <2>2, MapSeq
<1>8. /\ execs' \in Seq(ExecRecords) /\ DOMAIN execs' = DOMAIN execs \cup {Len(execs) + 1}
      /\ execs'[Len(execs) + 1] = e /\ \A i \in DOMAIN execs : execs'[i] = execs[i]
      /\ Len(execs) + 1 \notin DOMAIN execs
  BY <1>2, <1>4, <1>5, SMTT(30)
<1>9. lines' \subseteq [exec : Nat, seq : Nat, oid : Nat] /\ \A l \in lines' : l \in lines \/ (l.exec = e.id /\ l.oid = e.oid)
  <2>1. e.id \in Nat /\ e.oid \in Nat
    BY <1>5 DEF ExecRecords
  <2>2. \A l \in FirstLines(e) : l \in [exec : Nat, seq : Nat, oid : Nat] /\ l.exec = e.id /\ l.oid = e.oid
    BY <2>1 DEF FirstLines
  <2> QED
    BY <1>1, <1>4, <2>2 DEF Shapes
<1>10. Shapes'
  BY <1>1, <1>4, <1>5, <1>6, <1>7, <1>8, <1>9 DEF Shapes
<1>11. IdsGiven'
  BY <1>1, <1>4, <1>6, <1>7 DEF IdsGiven, Distinct
<1>12. ExecsGiven'
  <2>1. \A i \in DOMAIN execs : execs[i].oid \in 1..born.exec
    BY <1>1 DEF ExecsGiven
  <2>2. \A i \in DOMAIN execs' : execs'[i].oid \in 1..born'.exec
    BY <1>5, <1>6, <1>8, <2>1
  <2>3. \A i \in DOMAIN execs : execs[i].oid # e.oid
    BY <1>5, <1>6, <2>1
  <2>4. \A i, j \in DOMAIN execs' : execs'[i].oid = execs'[j].oid => i = j
    BY <1>1, <1>8, <2>3 DEF ExecsGiven
  <2>5. ~Emergencies => Distinct(execs)' /\ \A i \in DOMAIN execs' : execs'[i].id < seq'.exec
    <3> SUFFICES ASSUME ~Emergencies PROVE Distinct(execs)' /\ \A i \in DOMAIN execs' : execs'[i].id < seq'.exec
      OBVIOUS
    <3>1. \A i \in DOMAIN execs : execs[i].id < seq.exec /\ execs[i].id \in Nat
      BY <1>1, RecordFacts DEF ExecsGiven, ExecRecords
    <3>2. Distinct(execs)'
      <4>1. \A i \in DOMAIN execs : execs[i].id # e.id
        BY <1>5, <1>6, <3>1
      <4>2. Distinct(execs) /\ execs \in Seq(ExecRecords) /\ execs' = Append(execs, e)
        BY <1>1, <1>2, <1>4 DEF ExecsGiven
      <4>3. Distinct(Append(execs, e))
        BY <4>1, <4>2, AppendDistinct
      <4> QED
        BY <4>2, <4>3
    <3> QED
      BY <1>5, <1>6, <1>8, <3>1, <3>2
  <2>6. ~Emergencies /\ ~Resets =>
          seq'.exec = born'.exec + 1 /\ \A i \in DOMAIN execs' : execs'[i].id = execs'[i].oid
    BY <1>1, <1>5, <1>6, <1>8 DEF ExecsGiven
  <2> QED
    BY <2>2, <2>4, <2>5, <2>6 DEF ExecsGiven
<1>13. WritersOwn'
  <2> SUFFICES ASSUME ~Emergencies, ~Resets
               PROVE  /\ \A l \in lines' : l.exec = l.oid
                      /\ \A x \in timers' \cup sockets' : x.id = x.exec
    BY DEF WritersOwn
  <2>1. e.id = e.oid
    BY <1>1, <1>5, <1>6 DEF ExecsGiven
  <2> QED
    BY <1>1, <1>4, <1>5, <1>9, <2>1 DEF WritersOwn
<1>14. TransitionPending'
  <2> SUFFICES ASSUME NEW i \in DOMAIN policies', policies'[i].state = "transitioning"
               PROVE  \/ \E x \in timers' : x.policy = policies'[i].oid
                      \/ policies'[i].id = 1 /\ \E j \in DOMAIN execs' : execs'[j].id = 1
    BY DEF TransitionPending
  <2>1. CASE policies'[i].oid = p.oid
    BY <1>4, <1>5, <2>1
  <2>2. CASE policies'[i].oid # p.oid
    BY <1>1, <1>4, <1>7, <1>8, <2>2 DEF TransitionPending
  <2> QED
    BY <2>1, <2>2
<1>15. NoneInterrupted' /\ ExecsMove
  BY <1>1, <1>5, <1>8 DEF NoneInterrupted, ExecsMove
<1> QED
  BY <1>10, <1>11, <1>12, <1>13, <1>14, <1>15 DEF MockInv

(* Finishing an execution, by its timer or by its log socket.                 *)
LEMMA ResultFacts ==
  ASSUME Shapes, NEW oid,
         execs' = [i \in DOMAIN execs |-> IF execs[i].oid = oid THEN [execs[i] EXCEPT !.status = "success"] ELSE execs[i]]
  PROVE  /\ execs' \in Seq(ExecRecords) /\ DOMAIN execs' = DOMAIN execs
         /\ \A i \in DOMAIN execs : /\ execs'[i].oid = execs[i].oid /\ execs'[i].id = execs[i].id
                                    /\ execs'[i].status = IF execs[i].oid = oid THEN "success" ELSE execs[i].status
<1>1. \A i \in DOMAIN execs :
        /\ execs'[i] \in ExecRecords /\ execs'[i].oid = execs[i].oid /\ execs'[i].id = execs[i].id
        /\ execs'[i].status = IF execs[i].oid = oid THEN "success" ELSE execs[i].status
  <2> SUFFICES ASSUME NEW i \in DOMAIN execs
               PROVE  /\ execs'[i] \in ExecRecords /\ execs'[i].oid = execs[i].oid /\ execs'[i].id = execs[i].id
                      /\ execs'[i].status = IF execs[i].oid = oid THEN "success" ELSE execs[i].status
    OBVIOUS
  <2>1. execs[i] \in ExecRecords
    BY RecordFacts
  <2>2. CASE execs[i].oid = oid
    <3>1. execs'[i] = [execs[i] EXCEPT !.status = "success"]
      BY <2>2
    <3> QED
      BY <2>1, <2>2, <3>1 DEF ExecRecords
  <2>3. CASE execs[i].oid # oid
    BY <2>1, <2>3
  <2> QED
    BY <2>2, <2>3
<1>2. execs \in Seq(ExecRecords)
  BY DEF Shapes
<1> QED
  BY <1>1, <1>2, MapSeq

(* Settling a policy.                                                         *)
LEMMA SettledFacts ==
  ASSUME Shapes, NEW oid, NEW d \in Directions,
         policies' = [i \in DOMAIN policies |->
                IF policies[i].oid = oid THEN [policies[i] EXCEPT !.state = StateAfter(d)] ELSE policies[i]]
  PROVE  /\ policies' \in Seq(PolicyRecords) /\ DOMAIN policies' = DOMAIN policies
         /\ \A i \in DOMAIN policies :
              /\ policies'[i].oid = policies[i].oid /\ policies'[i].id = policies[i].id
              /\ policies'[i].state = "transitioning" => policies[i].state = "transitioning" /\ policies[i].oid # oid
<1>1. StateAfter(d) \in {"sleeping", "awake"}
  BY DEF StateAfter
<1>2. \A i \in DOMAIN policies :
        /\ policies'[i] \in PolicyRecords /\ policies'[i].oid = policies[i].oid /\ policies'[i].id = policies[i].id
        /\ policies'[i].state = "transitioning" => policies[i].state = "transitioning" /\ policies[i].oid # oid
  <2> SUFFICES ASSUME NEW i \in DOMAIN policies
               PROVE  /\ policies'[i] \in PolicyRecords /\ policies'[i].oid = policies[i].oid /\ policies'[i].id = policies[i].id
                      /\ policies'[i].state = "transitioning" => policies[i].state = "transitioning" /\ policies[i].oid # oid
    OBVIOUS
  <2>1. policies[i] \in PolicyRecords
    BY RecordFacts
  <2>2. CASE policies[i].oid = oid
    <3>1. policies'[i] = [policies[i] EXCEPT !.state = StateAfter(d)]
      BY <2>2
    <3> QED
      BY <1>1, <2>1, <2>2, <3>1 DEF PolicyRecords
  <2>3. CASE policies[i].oid # oid
    BY <2>1, <2>3
  <2> QED
    BY <2>2, <2>3
<1>3. policies \in Seq(PolicyRecords)
  BY DEF Shapes
<1> QED
  BY <1>2, <1>3, MapSeq

(* finishExecution.                                                           *)
LEMMA FinishStep ==
  ASSUME MockInv, NEW t \in timers, Finish(t)
  PROVE  MockInv' /\ (~Cancels => ExecsMove)
<1>1. Shapes /\ IdsGiven /\ ExecsGiven /\ WritersOwn /\ TransitionPending /\ NoneInterrupted
  BY DEF MockInv
<1>2. t \in Timers /\ t.dir \in Directions /\ t.id \in Nat /\ t.exec \in Nat
  BY <1>1 DEF Shapes, Timers
<1>3. /\ execs' = [i \in DOMAIN execs |-> IF execs[i].oid = t.exec THEN [execs[i] EXCEPT !.status = "success"] ELSE execs[i]]
      /\ policies' = [i \in DOMAIN policies |->
            IF policies[i].oid = t.policy THEN [policies[i] EXCEPT !.state = StateAfter(t.dir)] ELSE policies[i]]
      /\ lines' = lines \cup {[exec |-> t.id, seq |-> k, oid |-> t.exec] : k \in {3, 4}}
      /\ timers' = timers \ {t}
      /\ UNCHANGED <<exceptions, seq, born, sockets, reset, emergency>>
  BY DEF Finish, Update
<1>4. /\ execs' \in Seq(ExecRecords) /\ DOMAIN execs' = DOMAIN execs
      /\ \A i \in DOMAIN execs : /\ execs'[i].oid = execs[i].oid /\ execs'[i].id = execs[i].id
                                 /\ execs'[i].status = IF execs[i].oid = t.exec THEN "success" ELSE execs[i].status
  BY <1>1, <1>3, ResultFacts
<1>5. /\ policies' \in Seq(PolicyRecords) /\ DOMAIN policies' = DOMAIN policies
      /\ \A i \in DOMAIN policies :
           /\ policies'[i].oid = policies[i].oid /\ policies'[i].id = policies[i].id
           /\ policies'[i].state = "transitioning" => policies[i].state = "transitioning" /\ policies[i].oid # t.policy
  BY <1>1, <1>2, <1>3, SettledFacts
<1>6. /\ lines' \subseteq [exec : Nat, seq : Nat, oid : Nat]
      /\ \A l \in lines' : l \in lines \/ (l.exec = t.id /\ l.oid = t.exec)
  <2>1. lines \subseteq [exec : Nat, seq : Nat, oid : Nat]
    BY <1>1 DEF Shapes
  <2> QED
    BY <1>2, <1>3, <2>1
<1>7. Shapes'
  BY <1>1, <1>3, <1>4, <1>5, <1>6 DEF Shapes
<1>8. IdsGiven'
  BY <1>3, <1>5, SettleStep
<1>9. ExecsGiven' /\ NoneInterrupted' /\ (~Cancels => ExecsMove)
  <2>1. \A i \in DOMAIN execs : execs[i] \in ExecRecords
    BY <1>1, RecordFacts
  <2>2. ~Cancels => \A i \in DOMAIN execs : /\ execs'[i].status # "interrupted"
                                            /\ execs'[i].status = execs[i].status \/ execs[i].status = "running"
    BY <1>1, <1>4, <2>1 DEF NoneInterrupted, ExecRecords
  <2> QED
    BY <1>3, <1>4, <2>2, ExecsStep
<1>10. WritersOwn'
  <2>1. ~Emergencies /\ ~Resets => t.id = t.exec
    BY <1>1 DEF WritersOwn
  <2> QED
    BY <1>1, <1>3, <1>6, <2>1 DEF WritersOwn
<1>11. TransitionPending'
  <2> SUFFICES ASSUME NEW i \in DOMAIN policies', policies'[i].state = "transitioning"
               PROVE  \/ \E x \in timers' : x.policy = policies'[i].oid
                      \/ policies'[i].id = 1 /\ \E j \in DOMAIN execs' : execs'[j].id = 1
    BY DEF TransitionPending
  <2>1. /\ i \in DOMAIN policies /\ policies[i].state = "transitioning" /\ policies[i].oid # t.policy
        /\ policies'[i].oid = policies[i].oid /\ policies'[i].id = policies[i].id
    BY <1>5
  <2>2. CASE \E x \in timers : x.policy = policies[i].oid
    BY <1>3, <2>1, <2>2
  <2>3. CASE policies[i].id = 1 /\ \E j \in DOMAIN execs : execs[j].id = 1
    BY <1>4, <2>1, <2>3
  <2> QED
    BY <1>1, <2>1, <2>2, <2>3 DEF TransitionPending
<1> QED
  BY <1>7, <1>8, <1>9, <1>10, <1>11 DEF MockInv

(* Cancelling the first running execution of a policy.                        *)
LEMMA CancelStep ==
  ASSUME MockInv, NEW id, Cancel(id)
  PROVE  MockInv' /\ (~Cancels => ExecsMove)
<1> DEFINE hits == {i \in DOMAIN execs : execs[i].policy = id /\ execs[i].status = "running"}
           nr == Min(hits)
           e == [execs[nr] EXCEPT !.status = "interrupted"]
<1>1. Shapes /\ IdsGiven /\ ExecsGiven /\ WritersOwn /\ TransitionPending
  BY DEF MockInv
<1>2. execs \in Seq(ExecRecords) /\ \A i \in DOMAIN execs : execs[i] \in ExecRecords
  BY <1>1, RecordFacts DEF Shapes
<1>3. Cancels /\ nr \in DOMAIN execs /\ execs' = [execs EXCEPT ![nr].status = "interrupted"]
      /\ UNCHANGED <<policies, exceptions, lines, seq, born, timers, sockets, reset, emergency>>
  <2>1. hits # {} /\ hits \subseteq Nat
    BY <1>2 DEF Cancel
  <2>2. Min(hits) \in hits
    <3> HIDE DEF hits
    <3> QED
      BY <2>1, LeastNumber
  <2> QED
    BY <2>2 DEF Cancel
<1> HIDE DEF nr
<1>4. e \in ExecRecords /\ e.oid = execs[nr].oid /\ e.id = execs[nr].id
  <2>1. execs[nr] \in ExecRecords
    BY <1>2, <1>3
  <2> QED
    BY <2>1 DEF ExecRecords
<1>5. execs' = [execs EXCEPT ![nr] = e]
  BY <1>3
<1> HIDE DEF e
<1>6. /\ execs' \in Seq(ExecRecords) /\ DOMAIN execs' = DOMAIN execs
      /\ \A i \in DOMAIN execs : execs'[i].oid = execs[i].oid /\ execs'[i].id = execs[i].id
  BY <1>2, <1>3, <1>4, <1>5
<1>7. Shapes' /\ IdsGiven' /\ WritersOwn' /\ TransitionPending'
  BY <1>1, <1>3, <1>6 DEF Shapes, IdsGiven, Distinct, WritersOwn, TransitionPending
<1>8. ExecsGiven' /\ NoneInterrupted' /\ (~Cancels => ExecsMove)
  BY <1>3, <1>6, ExecsStep
<1> QED
  BY <1>7, <1>8 DEF MockInv

(* A log socket is opened or closed.                                          *)
LEMMA SocketsStep ==
  ASSUME MockInv, NEW id, OpenSocket(id) \/ \E s \in sockets : CloseSocket(s)
  PROVE  MockInv' /\ ExecsMove
<1>1. Shapes /\ ExecsGiven /\ WritersOwn
  BY DEF MockInv
<1>2. UNCHANGED <<policies, execs, exceptions, lines, seq, born, timers, reset, emergency>>
  BY DEF OpenSocket, CloseSocket
<1>3. ASSUME NEW s \in sockets'
      PROVE  s \in Sockets /\ (~Emergencies /\ ~Resets => s.id = s.exec)
  <2>1. CASE s \in sockets
    BY <1>1, <2>1 DEF Shapes, WritersOwn
  <2>2. CASE s \notin sockets
    <3> DEFINE k == Find(execs, id)
               e == execs[k]
               l == Find(policies, e.policy)
    <3>1. Found(execs, id) /\ Found(policies, e.policy)
          /\ s = [exec |-> e.oid, id |-> e.id, dir |-> e.dir, policy |-> policies[l].oid, sent |-> 0]
      BY <1>3, <2>2 DEF OpenSocket, CloseSocket
    <3>2. execs \in Seq(ExecRecords) /\ policies \in Seq(PolicyRecords)
      BY <1>1 DEF Shapes
    <3>3. k \in DOMAIN execs /\ l \in DOMAIN policies
      BY <3>1, <3>2, FindFacts
    <3>4. e \in ExecRecords /\ policies[l] \in PolicyRecords
      <4> HIDE DEF k, l
      <4> QED
        BY <3>2, <3>3
    <3>5. ~Emergencies /\ ~Resets => e.id = e.oid
      <4> HIDE DEF k
      <4> QED
        BY <1>1, <3>3 DEF ExecsGiven
    <3> HIDE DEF e, l
    <3> QED
      BY <3>1, <3>4, <3>5 DEF Sockets, ExecRecords, PolicyRecords
  <2> QED
    BY <2>1, <2>2
<1>4. Shapes' /\ WritersOwn'
  BY <1>1, <1>2, <1>3 DEF Shapes, WritersOwn
<1>5. IdsGiven' /\ ExecsGiven' /\ TransitionPending' /\ NoneInterrupted' /\ ExecsMove
  BY <1>2 DEF MockInv, IdsGiven, ExecsGiven, Distinct, TransitionPending, NoneInterrupted, ExecsMove
<1> QED
  BY <1>4, <1>5 DEF MockInv

(* The next line of a socket, or its end.                                     *)
LEMMA SocketLineStep ==
  ASSUME MockInv, NEW s \in sockets, SocketLine(s)
  PROVE  MockInv' /\ (~Cancels => ExecsMove)
<1>1. Shapes /\ IdsGiven /\ ExecsGiven /\ WritersOwn /\ TransitionPending /\ NoneInterrupted
  BY DEF MockInv
<1>2. s \in Sockets /\ s.dir \in Directions /\ s.id \in Nat /\ s.exec \in Nat /\ s.sent \in Nat
  BY <1>1 DEF Shapes, Sockets
<1>3. UNCHANGED <<exceptions, seq, born, timers, reset, emergency>>
  BY DEF SocketLine
<1>4. CASE s.sent < StreamLines
  <2> DEFINE r == [s EXCEPT !.sent = @ + 1]
             l == [exec |-> s.id, seq |-> s.sent + 1, oid |-> s.exec]
  <2>1. sockets' = (sockets \ {s}) \cup {r} /\ lines' = lines \cup {l} /\ UNCHANGED <<execs, policies>>
    BY <1>4 DEF SocketLine
  <2>2. r \in Sockets /\ r.id = s.id /\ r.exec = s.exec
    BY <1>2 DEF Sockets
  <2>3. l \in [exec : Nat, seq : Nat, oid : Nat] /\ l.exec = s.id /\ l.oid = s.exec
    BY <1>2
  <2> HIDE DEF r, l
  <2>4. Shapes'
    BY <1>1, <1>3, <2>1, <2>2, <2>3 DEF Shapes
  <2>5. WritersOwn'
    BY <1>1, <1>3, <2>1, <2>2, <2>3 DEF WritersOwn
  <2>6. IdsGiven' /\ ExecsGiven' /\ TransitionPending' /\ NoneInterrupted' /\ ExecsMove
    BY <1>1, <1>3, <2>1 DEF IdsGiven, ExecsGiven, Distinct, TransitionPending, NoneInterrupted, ExecsMove
  <2> QED
    BY <2>4, <2>5, <2>6 DEF MockInv
<1>5. CASE ~(s.sent < StreamLines) /\ ~Running(s.exec)
  <2>1. sockets' = sockets \ {s} /\ UNCHANGED <<execs, policies, lines>>
    BY <1>5 DEF SocketLine
  <2>2. Shapes' /\ WritersOwn'
    BY <1>1, <1>3, <2>1 DEF Shapes, WritersOwn
  <2>3. IdsGiven' /\ ExecsGiven' /\ TransitionPending' /\ NoneInterrupted' /\ ExecsMove
    BY <1>1, <1>3, <2>1 DEF IdsGiven, ExecsGiven, Distinct, TransitionPending, NoneInterrupted, ExecsMove
  <2> QED
    BY <2>2, <2>3 DEF MockInv
<1>6. CASE ~(s.sent < StreamLines) /\ Running(s.exec)
  <2>1. /\ sockets' = sockets \ {s} /\ UNCHANGED lines
        /\ execs' = [i \in DOMAIN execs |->
              IF execs[i].oid = s.exec THEN [execs[i] EXCEPT !.status = "success"] ELSE execs[i]]
        /\ policies' = [i \in DOMAIN policies |->
              IF policies[i].oid = s.policy THEN [policies[i] EXCEPT !.state = StateAfter(s.dir)] ELSE policies[i]]
    BY <1>6 DEF SocketLine, Update
  <2>2. /\ execs' \in Seq(ExecRecords) /\ DOMAIN execs' = DOMAIN execs
        /\ \A i \in DOMAIN execs : /\ execs'[i].oid = execs[i].oid /\ execs'[i].id = execs[i].id
                                   /\ execs'[i].status = IF execs[i].oid = s.exec THEN "success" ELSE execs[i].status
    BY <1>1, <2>1, ResultFacts
  <2>3. /\ policies' \in Seq(PolicyRecords) /\ DOMAIN policies' = DOMAIN policies
        /\ \A i \in DOMAIN policies :
           /\ policies'[i].oid = policies[i].oid /\ policies'[i].id = policies[i].id
           /\ policies'[i].state = "transitioning" => policies[i].state = "transitioning" /\ policies[i].oid # s.policy
    BY <1>1, <1>2, <2>1, SettledFacts
  <2>4. Shapes'
    BY <1>1, <1>3, <2>1, <2>2, <2>3 DEF Shapes
  <2>5. IdsGiven'
    BY <1>3, <2>3, SettleStep
  <2>6. ExecsGiven' /\ NoneInterrupted' /\ (~Cancels => ExecsMove)
    <3>1. \A i \in DOMAIN execs : execs[i].oid = s.exec => execs[i].status = "running"
      BY <1>1, <1>6 DEF Running, ExecsGiven
    <3>2. ~Cancels => \A i \in DOMAIN execs : /\ execs'[i].status # "interrupted"
                                              /\ execs'[i].status = execs[i].status \/ execs[i].status = "running"
      BY <1>1, <2>2, <3>1 DEF NoneInterrupted
    <3> QED
      BY <1>3, <2>2, <3>2, ExecsStep
  <2>7. WritersOwn' /\ TransitionPending'
    BY <1>1, <1>3, <2>1, <2>2, <2>3 DEF WritersOwn, TransitionPending
  <2> QED
    BY <2>4, <2>5, <2>6, <2>7 DEF MockInv
<1> QED
  BY <1>4, <1>5, <1>6

(* The administrative streams, but for the line that rewrites the database.   *)
LEMMA StreamStep ==
  ASSUME MockInv, \/ ResetDB \/ EmergencyScale
                  \/ ResetTick /\ reset # 2
                  \/ EmergencyTick /\ emergency + 1 < EmergencySteps
  PROVE  MockInv' /\ ExecsMove
<1>1. /\ reset \in Idle..ResetSteps - 1 /\ emergency \in Idle..EmergencySteps - 1
      /\ (~Resets => reset = Idle) /\ (~Emergencies => emergency = Idle)
  BY DEF MockInv, Shapes
<1>2. UNCHANGED <<policies, execs, exceptions, lines, seq, born, timers, sockets>>
      /\ reset' \in Idle..ResetSteps - 1 /\ emergency' \in Idle..EmergencySteps - 1
      /\ (~Resets => reset' = Idle) /\ (~Emergencies => emergency' = Idle)
  <2>1. CASE ResetDB
    BY <1>1, <2>1 DEF ResetDB, ResetSteps, Idle
  <2>2. CASE EmergencyScale
    BY <1>1, <2>2 DEF EmergencyScale, EmergencySteps, Idle
  <2>3. CASE ResetTick /\ reset # 2
    <3>1. reset' = (IF reset + 1 >= ResetSteps THEN Idle ELSE reset + 1) /\ reset # Idle
          /\ UNCHANGED <<policies, execs, exceptions, lines, seq, born, timers, sockets, emergency>>
      BY <2>3 DEF ResetTick
    <3> QED
      BY <1>1, <3>1 DEF ResetSteps, Idle
  <2>4. CASE EmergencyTick /\ emergency + 1 < EmergencySteps
    <3>1. ~(emergency + 1 >= EmergencySteps)
      BY <1>1, <2>4 DEF EmergencySteps, Idle
    <3>2. emergency' = emergency + 1 /\ emergency # Idle
          /\ UNCHANGED <<policies, execs, seq, born, exceptions, lines, timers, sockets, reset>>
      BY <2>4, <3>1 DEF EmergencyTick
    <3> QED
      BY <1>1, <2>4, <3>2 DEF EmergencySteps, Idle
  <2> QED
    BY <2>1, <2>2, <2>3, <2>4
<1>3. Shapes'
  BY <1>2 DEF MockInv, Shapes
<1>4. IdsGiven' /\ ExecsGiven' /\ WritersOwn' /\ TransitionPending' /\ NoneInterrupted' /\ ExecsMove
  BY <1>2 DEF MockInv, IdsGiven, ExecsGiven, Distinct, WritersOwn, TransitionPending, NoneInterrupted, ExecsMove
<1> QED
  BY <1>3, <1>4 DEF MockInv

(* The line that puts the seeded database in place of the old one.            *)
LEMMA ReseedStep ==
  ASSUME MockAssumption, MockInv, ResetTick, reset = 2
  PROVE  MockInv' /\ execs' = SeedExecs(born.exec)
<1>1. Shapes /\ reset = 2 /\ emergency \in Idle..EmergencySteps - 1
      /\ (~Emergencies => emergency = Idle) /\ timers \subseteq Timers /\ sockets \subseteq Sockets
  BY DEF MockInv, Shapes
<1>2. Resets
  BY <1>1 DEF Shapes, Idle
<1>3. /\ policies' = SeedPolicies(born.policy) /\ execs' = SeedExecs(born.exec)
      /\ exceptions' = SeedExceptions /\ lines' = {} /\ seq' = SeedSeq
      /\ born' = [policy |-> born.policy + 2, exec |-> born.exec + 1]
      /\ reset' = 3 /\ UNCHANGED <<timers, sockets, emergency>>
  BY DEF ResetTick, ResetSteps, Idle
<1>4. born.policy \in Nat /\ born.exec \in Nat
  BY <1>1 DEF Shapes
<1>5. /\ policies' \in Seq(PolicyRecords) /\ DOMAIN policies' = {1, 2}
      /\ policies'[1].id = 1 /\ policies'[2].id = 2 /\ policies'[2].state = "sleeping"
  <2>1. PICK a, b : /\ a = [oid |-> born.policy + 1, id |-> 1, name |-> Name1, mode |-> "apply", enabled |-> TRUE,
                            state |-> "transitioning"]
                    /\ b = [oid |-> born.policy + 2, id |-> 2, name |-> Name2, mode |-> "apply", enabled |-> TRUE,
                            state |-> "sleeping"]
    OBVIOUS
  <2>2. a \in PolicyRecords /\ b \in PolicyRecords /\ a.id = 1 /\ b.id = 2 /\ b.state = "sleeping"
    BY <1>4, <2>1, NameFacts DEF PolicyRecords
  <2>3. policies' = <<a, b>>
    BY <1>3, <2>1 DEF SeedPolicies
  <2> QED
    BY <2>2, <2>3
<1>6. /\ execs' \in Seq(ExecRecords) /\ DOMAIN execs' = {1} /\ execs'[1].id = 1
      /\ execs'[1].oid = born.exec + 1 /\ execs'[1].status = "running"
  <2>1. PICK a : a = [oid |-> born.exec + 1, id |-> 1, policy |-> 1, dir |-> "sleep", status |-> "running"]
    OBVIOUS
  <2>2. a \in ExecRecords /\ a.id = 1 /\ a.oid = born.exec + 1 /\ a.status = "running"
    BY <1>4, <2>1 DEF ExecRecords, Directions
  <2>3. execs' = <<a>>
    BY <1>3, <2>1 DEF SeedExecs
  <2> QED
    BY <2>2, <2>3
<1>7. exceptions' \in Seq(ExceptionRecords) /\ DOMAIN exceptions' = {1} /\ exceptions'[1].id = 1
  <2>1. PICK a : a = [id |-> 1, policy |-> 1, future |-> TRUE]
    OBVIOUS
  <2>2. a \in ExceptionRecords /\ a.id = 1
    BY <2>1 DEF ExceptionRecords
  <2>3. exceptions' = <<a>>
    BY <1>3, <2>1 DEF SeedExceptions
  <2> QED
    BY <2>2, <2>3
<1>8. /\ seq' \in [policy : Nat, exec : Nat, exception : Nat] /\ born' \in [policy : Nat, exec : Nat]
      /\ seq'.policy = 3 /\ seq'.exec = 2 /\ seq'.exception = 2 /\ born'.exec = born.exec + 1
  BY <1>3, <1>4 DEF SeedSeq
<1>9. Shapes'
  <2>1. reset' \in Idle..ResetSteps - 1 /\ emergency' \in Idle..EmergencySteps - 1
        /\ (~Emergencies => emergency' = Idle)
    BY <1>1, <1>3 DEF Idle, ResetSteps, EmergencySteps
  <2>2. lines' \subseteq [exec : Nat, seq : Nat, oid : Nat] /\ timers' \subseteq Timers /\ sockets' \subseteq Sockets
    BY <1>1, <1>3
  <2> QED
    BY <1>2, <1>5, <1>6, <1>7, <1>8, <2>1, <2>2 DEF Shapes
<1>10. IdsGiven'
  BY <1>5, <1>7, <1>8 DEF IdsGiven, Distinct
<1>11. ExecsGiven' /\ NoneInterrupted' /\ WritersOwn' /\ TransitionPending'
  BY <1>2, <1>4, <1>5, <1>6, <1>8 DEF ExecsGiven, NoneInterrupted, WritersOwn, TransitionPending, Distinct
<1> QED
  BY <1>3, <1>9, <1>10, <1>11 DEF MockInv

(* The last line of the emergency: one record per policy, newest first.       *)
LEMMA EmergencyStep ==
  ASSUME MockInv, EmergencyTick, emergency + 1 >= EmergencySteps
  PROVE  MockInv' /\ ExecsMove
<1> DEFINE m == Len(policies)
           f == [k \in DOMAIN policies |-> EmergencyExec(k)]
           new == Reverse(f)
<1>1. Shapes /\ IdsGiven /\ ExecsGiven /\ NoneInterrupted
  BY DEF MockInv
<1>2. /\ policies \in Seq(PolicyRecords) /\ execs \in Seq(ExecRecords) /\ m \in Nat /\ DOMAIN policies = 1..m
      /\ seq \in [policy : Nat, exec : Nat, exception : Nat] /\ born \in [policy : Nat, exec : Nat]
      /\ \A k \in DOMAIN policies : policies[k] \in PolicyRecords
  BY <1>1 DEF Shapes
<1>3. /\ policies' = [i \in DOMAIN policies |-> [policies[i] EXCEPT !.enabled = FALSE, !.state = "awake"]]
      /\ execs' = new \o execs /\ seq' = [seq EXCEPT !.exec = @ + m] /\ born' = [born EXCEPT !.exec = @ + m]
      /\ emergency # Idle /\ emergency' = Idle /\ UNCHANGED <<exceptions, lines, timers, sockets, reset>>
  BY DEF EmergencyTick
<1>4. Emergencies
  BY <1>1, <1>3 DEF Shapes
<1>5. ASSUME NEW k \in 1..m
      PROVE  /\ EmergencyExec(k) \in ExecRecords /\ EmergencyExec(k).oid = born.exec + k
             /\ EmergencyExec(k).status = "success"
  <2>1. policies[k].id \in Nat
    BY <1>2 DEF PolicyRecords
  <2> QED
    BY <1>2, <2>1 DEF EmergencyExec, ExecRecords, Directions
<1>6. f \in Seq(ExecRecords) /\ Len(f) = m /\ DOMAIN f = 1..m
  <2>1. \A k \in DOMAIN policies : f[k] \in ExecRecords
    BY <1>2, <1>5
  <2>2. f = [k \in DOMAIN policies |-> f[k]]
    OBVIOUS
  <2> HIDE DEF f
  <2> QED
    BY <1>2, <2>1, <2>2, MapSeq
<1>7. /\ new \in Seq(ExecRecords) /\ Len(new) = m
      /\ \A j \in 1..m : new[j].oid = born.exec + (m + 1 - j) /\ new[j].status = "success"
  <2>1. new = [j \in 1..m |-> f[(m - j) + 1]]
    <3> HIDE DEF f
    <3> QED
      BY <1>6 DEF Reverse
  <2>2. ASSUME NEW j \in 1..m
        PROVE  /\ new[j] \in ExecRecords
               /\ new[j].oid = born.exec + (m + 1 - j) /\ new[j].status = "success"
    <3>1. (m - j) + 1 \in 1..m /\ (m - j) + 1 = m + 1 - j
      BY <1>2
    <3>2. new[j] = EmergencyExec((m - j) + 1)
      BY <1>2, <2>1, <3>1
    <3> HIDE DEF new
    <3> QED
      BY <1>5, <3>1, <3>2
  <2> HIDE DEF new, f
  <2>3. new = [j \in 1..m |-> new[j]]
    BY <2>1
  <2> QED
    BY <1>2, <2>2, <2>3, MapSeq
<1> HIDE DEF new, f
<1>8. /\ execs' \in Seq(ExecRecords) /\ DOMAIN execs' = 1..(m + Len(execs)) /\ Len(execs) \in Nat
      /\ DOMAIN execs = 1..Len(execs)
      /\ \A j \in 1..(m + Len(execs)) : execs'[j] = IF j <= m THEN new[j] ELSE execs[j - m]
  <2>1. new \in Seq(ExecRecords) /\ execs \in Seq(ExecRecords) /\ Len(new) = m /\ execs' = new \o execs
    BY <1>2, <1>3, <1>7
  <2> HIDE DEF m
  <2>2. /\ new \o execs \in Seq(ExecRecords) /\ Len(new \o execs) = Len(new) + Len(execs)
        /\ \A j \in 1..(Len(new) + Len(execs)) :
             (new \o execs)[j] = IF j <= Len(new) THEN new[j] ELSE execs[j - Len(new)]
    BY <2>1, ConcatProperties
  <2>3. DOMAIN execs' = 1..Len(execs') /\ Len(execs) \in Nat /\ DOMAIN execs = 1..Len(execs)
    BY <2>1, <2>2, LenProperties
  <2> QED
    BY <2>1, <2>2, <2>3
<1>9. /\ seq' \in [policy : Nat, exec : Nat, exception : Nat] /\ born' \in [policy : Nat, exec : Nat]
      /\ seq'.policy = seq.policy /\ seq'.exception = seq.exception /\ born'.exec = born.exec + m /\ born.exec \in Nat
  <2>1. /\ seq \in [policy : Nat, exec : Nat, exception : Nat] /\ born \in [policy : Nat, exec : Nat] /\ m \in Nat
    BY <1>2
  <2>2. seq' = [seq EXCEPT !.exec = @ + m] /\ born' = [born EXCEPT !.exec = @ + m]
    BY <1>3
  <2> HIDE DEF m
  <2> QED
    BY <2>1, <2>2
<1>10. /\ policies' \in Seq(PolicyRecords) /\ DOMAIN policies' = DOMAIN policies
       /\ \A i \in DOMAIN policies : policies'[i].id = policies[i].id /\ policies'[i].state = "awake"
  <2>1. \A i \in DOMAIN policies : /\ policies'[i] \in PolicyRecords
                                   /\ policies'[i].id = policies[i].id /\ policies'[i].state = "awake"
    BY <1>2, <1>3 DEF PolicyRecords
  <2>2. policies' = [i \in DOMAIN policies |-> policies'[i]]
    BY <1>3
  <2> QED
    BY <1>2, <2>1, <2>2, MapSeq
<1>11. Shapes'
  <2>1. emergency' = Idle /\ UNCHANGED <<exceptions, lines, timers, sockets, reset>>
    BY <1>3
  <2>2. emergency' \in Idle..EmergencySteps - 1
    BY <2>1 DEF Idle, EmergencySteps
  <2>3. policies' \in Seq(PolicyRecords) /\ execs' \in Seq(ExecRecords)
    BY <1>8, <1>10
  <2>4. seq' \in [policy : Nat, exec : Nat, exception : Nat] /\ born' \in [policy : Nat, exec : Nat]
    BY <1>9
  <2> QED
    BY <1>1, <2>1, <2>2, <2>3, <2>4 DEF Shapes
<1>12. IdsGiven' /\ TransitionPending' /\ WritersOwn'
  <2>1. UNCHANGED exceptions /\ seq'.policy = seq.policy /\ seq'.exception = seq.exception
    BY <1>3, <1>9
  <2>2. IdsGiven'
    BY <1>1, <1>10, <2>1 DEF IdsGiven, Distinct
  <2>3. TransitionPending'
    BY <1>10 DEF TransitionPending
  <2>4. WritersOwn'
    BY <1>4 DEF WritersOwn
  <2> QED
    BY <2>2, <2>3, <2>4
<1>13. \A i \in DOMAIN execs : execs[i].oid \in 1..born.exec
  BY <1>1 DEF ExecsGiven
<1>14. ASSUME NEW j \in DOMAIN execs'
       PROVE  /\ j <= m => execs'[j].oid = born.exec + (m + 1 - j) /\ execs'[j].status = "success"
              /\ j > m => j - m \in DOMAIN execs /\ execs'[j] = execs[j - m]
  <2>0. j \in 1..(m + Len(execs)) /\ m \in Nat /\ Len(execs) \in Nat
    BY <1>2, <1>8
  <2>1. CASE j <= m
    <3>1. j \in 1..m /\ ~(j > m)
      BY <2>0, <2>1
    <3>2. execs'[j] = new[j]
      BY <1>8, <2>0, <2>1
    <3>3. new[j].oid = born.exec + (m + 1 - j) /\ new[j].status = "success"
      BY <1>7, <3>1
    <3> QED
      BY <3>1, <3>2, <3>3
  <2>2. CASE j > m
    <3>1. ~(j <= m) /\ j - m \in 1..Len(execs)
      BY <2>0, <2>2
    <3> QED
      BY <1>8, <2>0, <3>1
  <2> QED
    BY <2>0, <2>1, <2>2
<1>15. \A j \in DOMAIN execs' : j \in Nat /\ execs'[j].oid \in 1..born'.exec
  <2> SUFFICES ASSUME NEW j \in DOMAIN execs' PROVE j \in Nat /\ execs'[j].oid \in 1..born'.exec
    OBVIOUS
  <2>1. j \in 1..(m + Len(execs))
    BY <1>8
  <2>2. CASE j <= m
    BY <1>2, <1>9, <1>14, <2>1, <2>2, SMTT(30)
  <2>3. CASE j > m
    BY <1>2, <1>9, <1>13, <1>14, <2>1, <2>3, SMTT(30)
  <2> QED
    BY <1>2, <1>8, <2>1, <2>2, <2>3
<1>16. ASSUME NEW i \in DOMAIN execs', NEW j \in DOMAIN execs', execs'[i].oid = execs'[j].oid
       PROVE  i = j
  <2>1. i \in Nat /\ j \in Nat
    BY <1>15
  <2>2. CASE i <= m /\ j <= m
    <3>1. execs'[i].oid = born.exec + (m + 1 - i) /\ execs'[j].oid = born.exec + (m + 1 - j)
      BY <1>14, <2>2
    <3>2. born.exec + (m + 1 - i) = born.exec + (m + 1 - j) /\ m \in Nat /\ born.exec \in Nat
      BY <1>2, <1>9, <1>16, <3>1
    <3> HIDE DEF m
    <3> QED
      BY <2>1, <3>2
  <2>3. CASE i > m /\ j > m
    <3>1. i - m \in DOMAIN execs /\ j - m \in DOMAIN execs /\ execs[i - m].oid = execs[j - m].oid
      BY <1>14, <1>16, <2>3
    <3>2. i - m = j - m
      BY <1>1, <3>1 DEF ExecsGiven
    <3> QED
      BY <1>2, <2>1, <3>2
  <2>4. CASE i <= m /\ j > m
    <3>1. execs'[i].oid = born.exec + (m + 1 - i) /\ execs'[j].oid \in 1..born.exec
      BY <1>13, <1>14, <2>4
    <3> QED
      BY <1>2, <1>9, <1>16, <2>1, <2>4, <3>1, SMTT(30)
  <2>5. CASE i > m /\ j <= m
    <3>1. execs'[j].oid = born.exec + (m + 1 - j) /\ execs'[i].oid \in 1..born.exec
      BY <1>13, <1>14, <2>5
    <3> QED
      BY <1>2, <1>9, <1>16, <2>1, <2>5, <3>1, SMTT(30)
  <2> QED
    BY <1>2, <2>1, <2>2, <2>3, <2>4, <2>5
<1>17. ExecsGiven'
  BY <1>4, <1>15, <1>16 DEF ExecsGiven
<1>18. NoneInterrupted'
  <2> SUFFICES ASSUME ~Cancels, NEW j \in DOMAIN execs' PROVE execs'[j].status # "interrupted"
    BY DEF NoneInterrupted
  <2>1. CASE j <= m
    BY <1>14, <2>1
  <2>2. CASE j > m
    BY <1>1, <1>14, <2>2 DEF NoneInterrupted
  <2> QED
    BY <1>2, <1>15, <2>1, <2>2
<1>19. ExecsMove
  <2> SUFFICES ASSUME NEW i \in DOMAIN execs
               PROVE  \E k \in DOMAIN execs' : /\ execs'[k].oid = execs[i].oid
                                               /\ execs'[k].status = execs[i].status \/ execs[i].status = "running"
    BY DEF ExecsMove
  <2>1. i + m \in DOMAIN execs' /\ ~(i + m <= m) /\ (i + m) - m = i
    BY <1>2, <1>8
  <2>2. execs'[i + m] = execs[i]
    BY <1>8, <2>1
  <2> QED
    BY <2>1, <2>2
<1> QED
  BY <1>11, <1>12, <1>17, <1>18, <1>19 DEF MockInv

----------------------------------------------------------------------------
(* The database stays sound.                                                  *)

(* The seeded database the server starts with.                                *)
LEMMA MockInit ==
  ASSUME MockAssumption, Init
  PROVE  MockInv
<1>1. /\ policies = SeedPolicies(0) /\ execs = SeedExecs(0) /\ exceptions = SeedExceptions
      /\ lines = {} /\ seq = SeedSeq /\ born = [policy |-> 2, exec |-> 1]
      /\ timers = {} /\ sockets = {} /\ reset = Idle /\ emergency = Idle
  BY DEF Init
<1>2. /\ policies \in Seq(PolicyRecords) /\ DOMAIN policies = {1, 2}
      /\ policies[1].id = 1 /\ policies[2].id = 2 /\ policies[2].state = "sleeping"
  <2>1. PICK a, b : /\ a = [oid |-> 0 + 1, id |-> 1, name |-> Name1, mode |-> "apply", enabled |-> TRUE,
                            state |-> "transitioning"]
                    /\ b = [oid |-> 0 + 2, id |-> 2, name |-> Name2, mode |-> "apply", enabled |-> TRUE,
                            state |-> "sleeping"]
    OBVIOUS
  <2>2. a \in PolicyRecords /\ b \in PolicyRecords /\ a.id = 1 /\ b.id = 2 /\ b.state = "sleeping"
    BY <2>1, NameFacts DEF PolicyRecords
  <2>3. policies = <<a, b>>
    BY <1>1, <2>1 DEF SeedPolicies
  <2> QED
    BY <2>2, <2>3
<1>3. /\ execs \in Seq(ExecRecords) /\ DOMAIN execs = {1} /\ execs[1].id = 1
      /\ execs[1].oid = 1 /\ execs[1].status = "running"
  <2>1. PICK a : a = [oid |-> 0 + 1, id |-> 1, policy |-> 1, dir |-> "sleep", status |-> "running"]
    OBVIOUS
  <2>2. a \in ExecRecords /\ a.id = 1 /\ a.oid = 1 /\ a.status = "running"
    BY <2>1 DEF ExecRecords, Directions
  <2>3. execs = <<a>>
    BY <1>1, <2>1 DEF SeedExecs
  <2> QED
    BY <2>2, <2>3
<1>4. exceptions \in Seq(ExceptionRecords) /\ DOMAIN exceptions = {1} /\ exceptions[1].id = 1
  <2>1. PICK a : a = [id |-> 1, policy |-> 1, future |-> TRUE]
    OBVIOUS
  <2>2. a \in ExceptionRecords /\ a.id = 1
    BY <2>1 DEF ExceptionRecords
  <2>3. exceptions = <<a>>
    BY <1>1, <2>1 DEF SeedExceptions
  <2> QED
    BY <2>2, <2>3
<1>5. /\ seq \in [policy : Nat, exec : Nat, exception : Nat] /\ born \in [policy : Nat, exec : Nat]
      /\ seq.policy = 3 /\ seq.exec = 2 /\ seq.exception = 2 /\ born.exec = 1
  BY <1>1 DEF SeedSeq
<1>6. Shapes
  <2>1. reset \in Idle..ResetSteps - 1 /\ emergency \in Idle..EmergencySteps - 1
    BY <1>1 DEF Idle, ResetSteps, EmergencySteps
  <2> QED
    BY <1>1, <1>2, <1>3, <1>4, <1>5, <2>1 DEF Shapes
<1>7. IdsGiven
  BY <1>2, <1>4, <1>5 DEF IdsGiven, Distinct
<1>8. ExecsGiven /\ NoneInterrupted
  BY <1>3, <1>5 DEF ExecsGiven, NoneInterrupted, Distinct
<1>9. WritersOwn /\ TransitionPending
  BY <1>1, <1>2, <1>3 DEF WritersOwn, TransitionPending
<1> QED
  BY <1>6, <1>7, <1>8, <1>9 DEF MockInv

(* Every step keeps the invariant; but for a cancellation it moves the        *)
(* executions as their records promise, or seeds the database anew.           *)
LEMMA MockStep ==
  ASSUME MockAssumption, MockInv, [Next]_vars
  PROVE  MockInv' /\ (~Cancels => ExecsMove \/ execs' = SeedExecs(born.exec))
<1> DEFINE Kept == MockInv' /\ (~Cancels => ExecsMove \/ execs' = SeedExecs(born.exec))
<1>1. Shapes
  BY DEF MockInv
<1>2. CASE UNCHANGED vars
  <2>1. UNCHANGED <<policies, execs, exceptions, lines, seq, born, timers, sockets, reset, emergency>>
    BY <1>2 DEF vars
  <2>2. Shapes'
    BY <1>1, <2>1 DEF Shapes
  <2>3. IdsGiven' /\ ExecsGiven' /\ WritersOwn' /\ TransitionPending' /\ NoneInterrupted' /\ ExecsMove
    BY <2>1 DEF MockInv, IdsGiven, ExecsGiven, Distinct, WritersOwn, TransitionPending, NoneInterrupted, ExecsMove
  <2> QED
    BY <2>2, <2>3 DEF MockInv
<1>3. CASE Edit
  BY <1>3, EditStep
<1>4. ASSUME NEW i \in DOMAIN exceptions, Begin(i)
      PROVE  Kept
  <2>1. 0 \in Nat /\ TRUE \in BOOLEAN /\ i \in DOMAIN exceptions \cup {0}
    OBVIOUS
  <2> QED
    BY <1>4, <2>1, ExceptionRoutes
<1>5. ASSUME NEW i \in DOMAIN policies, NEW d \in {"sleep", "wake"}, Trigger(policies[i].id, d)
      PROVE  Kept
  BY <1>5, TriggerStep DEF Directions
<1>6. ASSUME NEW t \in timers, Finish(t)
      PROVE  Kept
  BY <1>6, FinishStep
<1>7. ASSUME NEW i \in DOMAIN policies, Cancel(policies[i].id)
      PROVE  Kept
  BY <1>7, CancelStep
<1>8. ASSUME NEW i \in DOMAIN execs, OpenSocket(execs[i].id)
      PROVE  Kept
  BY <1>8, SocketsStep
<1>9. ASSUME NEW s \in sockets, SocketLine(s)
      PROVE  Kept
  BY <1>9, SocketLineStep
<1>10. ASSUME NEW s \in sockets, CloseSocket(s)
       PROVE  Kept
  BY <1>10, SocketsStep
<1>11. CASE ResetDB \/ EmergencyScale
  BY <1>11, StreamStep
<1>12. CASE ResetTick
  <2>1. CASE reset = 2
    BY <1>12, <2>1, ReseedStep
  <2>2. CASE reset # 2
    BY <1>12, <2>2, StreamStep
  <2> QED
    BY <2>1, <2>2
<1>13. CASE EmergencyTick
  <2>1. emergency \in Idle..EmergencySteps - 1
    BY <1>1 DEF Shapes
  <2>2. emergency + 1 < EmergencySteps \/ emergency + 1 >= EmergencySteps
    BY <2>1 DEF Idle, EmergencySteps
  <2> QED
    BY <1>13, <2>2, StreamStep, EmergencyStep
<1>14. CASE Run
  BY <1>4, <1>5, <1>6, <1>7, <1>8, <1>9, <1>10, <1>11, <1>12, <1>13, <1>14 DEF Run
<1> QED
  BY <1>2, <1>3, <1>14 DEF Next

(* What the invariant says of a reader of the database.                       *)
LEMMA SoundFacts ==
  ASSUME MockInv
  PROVE  DatabaseSound
<1>1. Shapes /\ IdsGiven /\ ExecsGiven /\ WritersOwn /\ TransitionPending
  BY DEF MockInv
<1>2. TypeOK
  <2>1. /\ \A i \in DOMAIN policies : policies[i].state \in {"awake", "sleeping", "transitioning", "unknown"}
        /\ \A i \in DOMAIN execs : execs[i].status \in {"running", "success", "interrupted"}
    BY <1>1, RecordFacts DEF PolicyRecords, ExecRecords
  <2>2. reset \in Idle..ResetSteps - 1 /\ emergency \in Idle..EmergencySteps - 1
    BY <1>1 DEF Shapes
  <2> QED
    BY <1>1, <2>1, <2>2 DEF TypeOK, IdsGiven
<1>3. IdsUnique
  BY <1>1 DEF IdsUnique, IdsGiven, ExecsGiven
<1>4. LinesOwn
  BY <1>1 DEF LinesOwn, ExecsGiven, WritersOwn
<1> QED
  BY <1>1, <1>2, <1>3, <1>4 DEF DatabaseSound

(* Whatever requests, timers, sockets and administrative streams do: ids are  *)
(* unique (but for those of the emergency route), a line listed under an      *)
(* execution was written for it (without resets), and a policy in transition  *)
(* is the seeded one or has a timer that will settle it.                      *)
THEOREM DatabaseStaysSound ==
  ASSUME MockAssumption
  PROVE  Spec => []DatabaseSound
<1>1. Init => MockInv
  BY MockInit
<1>2. MockInv /\ [Next]_vars => MockInv'
  BY MockStep
<1>3. MockInv => DatabaseSound
  BY SoundFacts
<1> QED
  BY <1>1, <1>2, <1>3, PTL DEF Spec

----------------------------------------------------------------------------
(* The refinement to ExecutionLifecycle.                                      *)

(* The status an identity shows is the one of its only record.                *)
LEMMA ShownFacts ==
  ASSUME NEW list, \A i, j \in DOMAIN list : list[i].oid = list[j].oid => i = j, NEW o, NEW shown,
         shown = IF \E i \in DOMAIN list : list[i].oid = o
                 THEN list[CHOOSE i \in DOMAIN list : list[i].oid = o].status ELSE "none"
  PROVE  /\ \A i \in DOMAIN list : list[i].oid = o => shown = list[i].status
         /\ (\A i \in DOMAIN list : list[i].oid # o) => shown = "none"
<1>1. ASSUME NEW i \in DOMAIN list, list[i].oid = o
      PROVE  shown = list[i].status
  <2>1. PICK k : k = CHOOSE j \in DOMAIN list : list[j].oid = o
    OBVIOUS
  <2>2. k \in DOMAIN list /\ list[k].oid = o
    BY <1>1, <2>1
  <2>3. k = i
    BY <1>1, <2>2
  <2> QED
    BY <1>1, <2>1, <2>3
<1> QED
  BY <1>1

(* The seeded execution runs, no other exists.                                *)
LEMMA LifecycleInit ==
  ASSUME Init
  PROVE  Lifecycle!Init
<1>1. DOMAIN execs = {1} /\ execs[1].oid = 1 /\ execs[1].status = "running"
  <2>1. execs = <<[oid |-> 0 + 1, id |-> 1, policy |-> 1, dir |-> "sleep", status |-> "running"]>>
    BY DEF Init, SeedExecs
  <2> QED
    BY <2>1
<1>2. ASSUME NEW o \in 1..MaxExecs
      PROVE  StatusShown[o] = IF o \in {1} THEN "running" ELSE "none"
  <2>1. StatusShown[o] = IF \E i \in DOMAIN execs : execs[i].oid = o
                         THEN execs[CHOOSE i \in DOMAIN execs : execs[i].oid = o].status ELSE "none"
    BY DEF StatusShown
  <2>2. /\ \A i \in DOMAIN execs : execs[i].oid = o => StatusShown[o] = execs[i].status
        /\ (\A i \in DOMAIN execs : execs[i].oid # o) => StatusShown[o] = "none"
    BY <1>1, <2>1, ShownFacts
  <2> QED
    BY <1>1, <2>2
<1> QED
  BY <1>2 DEF Lifecycle!Init, StatusShown

(* A step of the database is a step of the lifecycle.                         *)
LEMMA LifecycleStep ==
  ASSUME MockInv, MockInv', ExecsMove \/ execs' = SeedExecs(born.exec)
  PROVE  Lifecycle!Next
<1> DEFINE Values == Lifecycle!Results \cup {"none", "running"}
<1>1. /\ Shapes /\ Shapes' /\ ExecsGiven /\ ExecsGiven'
      /\ \A i, j \in DOMAIN execs : execs[i].oid = execs[j].oid => i = j
      /\ \A i, j \in DOMAIN execs' : execs'[i].oid = execs'[j].oid => i = j
      /\ \A i \in DOMAIN execs : execs[i].oid \in 1..born.exec
  BY DEF MockInv, ExecsGiven
<1>2. \A i \in DOMAIN execs : execs[i].status \in {"running", "success", "interrupted"}
  BY <1>1, RecordFacts DEF ExecRecords
<1>3. \A i \in DOMAIN execs' : execs'[i].status \in {"running", "success", "interrupted"}
  <2>1. execs' \in Seq(ExecRecords)
    BY <1>1 DEF Shapes
  <2>2. \A i \in DOMAIN execs' : execs'[i] \in ExecRecords
    BY <2>1
  <2> QED
    BY <2>2 DEF ExecRecords
<1>4. ASSUME NEW o \in 1..MaxExecs
      PROVE  /\ \A i \in DOMAIN execs : execs[i].oid = o => StatusShown[o] = execs[i].status
             /\ (\A i \in DOMAIN execs : execs[i].oid # o) => StatusShown[o] = "none"
             /\ \A i \in DOMAIN execs' : execs'[i].oid = o => StatusShown'[o] = execs'[i].status
             /\ (\A i \in DOMAIN execs' : execs'[i].oid # o) => StatusShown'[o] = "none"
  <2>1. /\ StatusShown[o] = IF \E i \in DOMAIN execs : execs[i].oid = o
                            THEN execs[CHOOSE i \in DOMAIN execs : execs[i].oid = o].status ELSE "none"
        /\ StatusShown'[o] = IF \E i \in DOMAIN execs' : execs'[i].oid = o
                             THEN execs'[CHOOSE i \in DOMAIN execs' : execs'[i].oid = o].status ELSE "none"
    BY DEF StatusShown
  <2>2. /\ \A i \in DOMAIN execs : execs[i].oid = o => StatusShown[o] = execs[i].status
        /\ (\A i \in DOMAIN execs : execs[i].oid # o) => StatusShown[o] = "none"
    BY <1>1, <2>1, ShownFacts
  <2>3. /\ \A i \in DOMAIN execs' : execs'[i].oid = o => StatusShown'[o] = execs'[i].status
        /\ (\A i \in DOMAIN execs' : execs'[i].oid # o) => StatusShown'[o] = "none"
    BY <1>1, <2>1, ShownFacts
  <2> QED
    BY <2>2, <2>3
<1>5. StatusShown' = [o \in 1..MaxExecs |-> StatusShown'[o]]
  BY DEF StatusShown
<1>6. CASE ExecsMove
  <2>1. ASSUME NEW o \in 1..MaxExecs
        PROVE  StatusShown'[o] \in Values /\ Lifecycle!Step(StatusShown[o], StatusShown'[o])
    <3>1. StatusShown'[o] \in {"running", "success", "interrupted", "none"}
      BY <1>3, <1>4
    <3>2. CASE \E i \in DOMAIN execs : execs[i].oid = o
      <4>1. PICK i \in DOMAIN execs : execs[i].oid = o
        BY <3>2
      <4>2. PICK k \in DOMAIN execs' : /\ execs'[k].oid = o
                                       /\ execs'[k].status = execs[i].status \/ execs[i].status = "running"
        BY <1>6, <4>1 DEF ExecsMove
      <4>3. StatusShown[o] = execs[i].status /\ StatusShown'[o] = execs'[k].status
        BY <1>4, <4>1, <4>2
      <4>4. execs'[k].status \in {"running", "success", "interrupted"}
        BY <1>3
      <4> QED
        BY <3>1, <4>2, <4>3, <4>4 DEF Lifecycle!Step, Lifecycle!Results
    <3>3. CASE \A i \in DOMAIN execs : execs[i].oid # o
      <4>1. StatusShown[o] = "none"
        BY <1>4, <3>3
      <4> QED
        BY <3>1, <4>1 DEF Lifecycle!Step, Lifecycle!Results
    <3> QED
      BY <3>2, <3>3
  <2>2. StatusShown' \in [1..MaxExecs -> Values]
    BY <1>5, <2>1
  <2> QED
    BY <2>1, <2>2 DEF Lifecycle!Next, Lifecycle!Advance
<1>7. CASE execs' = SeedExecs(born.exec)
  <2> DEFINE seeds == {born.exec + 1} \cap (1..MaxExecs)
  <2>1. DOMAIN execs' = {1} /\ execs'[1].oid = born.exec + 1 /\ execs'[1].status = "running"
    <3>1. execs' = <<[oid |-> born.exec + 1, id |-> 1, policy |-> 1, dir |-> "sleep", status |-> "running"]>>
      BY <1>7 DEF SeedExecs
    <3> QED
      BY <3>1
  <2>2. born.exec \in Nat
    BY <1>1 DEF Shapes
  <2>3. seeds \in SUBSET {o \in 1..MaxExecs : StatusShown[o] = "none"}
    <3> SUFFICES ASSUME NEW o \in 1..MaxExecs, o = born.exec + 1 PROVE StatusShown[o] = "none"
      OBVIOUS
    <3>1. \A i \in DOMAIN execs : execs[i].oid # o
      BY <1>1, <2>2
    <3> QED
      BY <1>4, <3>1
  <2>4. ASSUME NEW o \in 1..MaxExecs
        PROVE  StatusShown'[o] = IF o \in seeds THEN "running" ELSE "none"
    BY <1>4, <2>1
  <2>5. StatusShown' = [o \in 1..MaxExecs |-> IF o \in seeds THEN "running" ELSE "none"]
    BY <1>5, <2>4
  <2> HIDE DEF seeds
  <2> QED
    BY <2>3, <2>5 DEF Lifecycle!Next, Lifecycle!Reset
<1> QED
  BY <1>6, <1>7

(* Without cancellations the records of executions keep the promise of        *)
(* ExecutionLifecycle: created once, running, then one result that no timer,  *)
(* socket or stream replaces; only a reset removes them.                      *)
THEOREM ImplementsLifecycle ==
  ASSUME MockAssumption, ~Cancels
  PROVE  Spec => KeepsLifecycle
<1>1. Init => MockInv /\ Lifecycle!Init
  BY MockInit, LifecycleInit
<1>2. MockInv /\ [Next]_vars => MockInv' /\ [Lifecycle!Next]_StatusShown
  BY MockStep, LifecycleStep
<1> QED
  BY <1>1, <1>2, PTL DEF Spec, KeepsLifecycle, Lifecycle!Spec

===============================================================================
