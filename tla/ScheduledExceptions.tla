------------------------- MODULE ScheduledExceptions -------------------------
(***************************************************************************)
(* Scheduled exceptions of one policy: the API that creates, updates and   *)
(* cancels them, the scheduler tick that starts and ends them, and the     *)
(* exceptions page with its calendar.                                      *)
(*                                                                         *)
(* An API call reads and checks in one step and writes in a later one; the *)
(* tick works through a list it has read before.  Time is discrete and Day *)
(* maps it to calendar days.  Targeting is left out: every exception is    *)
(* for the whole policy.                                                   *)
(***************************************************************************)
EXTENDS Integers, Sequences, FiniteSets, SequencesExt

CONSTANTS
  Ids,                  \* exception ids
  Hours,                \* time runs from 0 to Hours, Day(t) = t \div DayLength
  DayLength,
  MaxCalls,             \* bound: API calls under way at once
  MaxOps,               \* bound: API calls altogether
  MaxRefused            \* bound: refused and passed over executions, failed writes, crashes

\* What the instance must satisfy.
ScheduledExceptionsAssumption ==
  /\ IsFiniteSet(Ids) /\ Ids \subseteq Nat /\ {Hours, MaxCalls, MaxOps, MaxRefused} \subseteq Nat
  /\ DayLength \in Nat \ {0}

VARIABLES
  exc,       \* id -> Absent or [type, start, end, sleepOnEnd, status]
  now,
  calls,     \* API calls that have passed their checks: [op, id, data]
  todo,      \* what the running tick has listed and not handled: seq of [id, ex, at]
  claimed,   \* the tick has made the first of them active and not run it yet
  started,   \* id -> the types whose start action has run
  skipped,   \* history: made active, and the start action passed over
  reverts,   \* id -> number of return actions
  seen,      \* the page's list
  page,      \* [history, expanded, cancel]
  ops, refused

vars == <<exc, now, calls, todo, claimed, started, skipped, reverts, seen, page, ops, refused>>
backend == <<exc, now, calls, todo, claimed, started, skipped, reverts, ops, refused>>

Absent == [status |-> "absent"]
Types == {"stay_awake", "force_sleep"}
Open == {"pending", "active"}
Day(t) == t \div DayLength

Init ==
  /\ exc = [i \in Ids |-> Absent] /\ now = 0 /\ calls = {} /\ todo = <<>> /\ claimed = FALSE
  /\ started = [i \in Ids |-> {}] /\ skipped = {} /\ reverts = [i \in Ids |-> 0]
  /\ seen = exc /\ page = [history |-> FALSE, expanded |-> 0, cancel |-> 0] /\ ops = 0 /\ refused = 0

----------------------------------------------------------------------------
(* API. *)

\* Another open exception of the other type in the window.
HasOverlapping(type, s, e, except) ==
  \E i \in Ids \ {except} : /\ exc[i].status \in Open /\ exc[i].type # type
                            /\ exc[i].start < e /\ exc[i].end > s

Inputs == {d \in [type : Types, start : 0..Hours, end : 0..Hours, sleepOnEnd : BOOLEAN] : d.end > d.start}

Begin(call) ==
  /\ ops < MaxOps /\ Cardinality(calls) < MaxCalls
  /\ ops' = ops + 1 /\ calls' = calls \cup {call}

CreateException(i, d) ==
  /\ exc[i] = Absent /\ \A c \in calls : c.id # i
  /\ d.start >= now /\ ~HasOverlapping(d.type, d.start, d.end, i)
  /\ Begin([op |-> "create", id |-> i, data |-> d])
  /\ UNCHANGED <<claimed, skipped, exc, now, todo, started, reverts, seen, page, refused>>

UpdateException(i, d) ==
  /\ exc[i].status = "pending" /\ ~HasOverlapping(d.type, d.start, d.end, i)
  /\ Begin([op |-> "update", id |-> i, data |-> d])
  /\ UNCHANGED <<claimed, skipped, exc, now, todo, started, reverts, seen, page, refused>>

\* The return action is left out when the policy is executing or disabled or its schedule says
\* nothing, or a crash comes first; at most a line is logged.
Revert(i) == reverts' = [reverts EXCEPT ![i] = @ + 1] /\ refused' = refused
RevertRefused == refused < MaxRefused /\ refused' = refused + 1 /\ UNCHANGED reverts

\* Cancelling an active exception requests the return action before the write.
DeleteException(i) ==
  /\ exc[i] # Absent
  /\ Begin([op |-> "delete", id |-> i, data |-> exc[i]])
  /\ IF exc[i].status = "active" /\ exc[i].sleepOnEnd THEN Revert(i) \/ RevertRefused ELSE UNCHANGED <<reverts, refused>>
  /\ UNCHANGED <<claimed, skipped, exc, now, todo, started, seen, page>>

\* What the database holds of an input.
Stored(d, status) == [type |-> d.type, start |-> d.start, end |-> d.end, sleepOnEnd |-> d.sleepOnEnd,
                      status |-> status]

\* The write of an update does not look at the status, that of a cancellation does.
Write(c) ==
  /\ exc' = CASE c.op = "create" -> [exc EXCEPT ![c.id] = Stored(c.data, "pending")]
              [] c.op = "update" -> [exc EXCEPT ![c.id] = Stored(c.data, @.status)]
              [] OTHER -> [exc EXCEPT ![c.id].status = IF @ \in Open THEN "cancelled" ELSE @]
  /\ calls' = calls \ {c}
  /\ UNCHANGED <<claimed, skipped, now, todo, started, reverts, seen, page, ops, refused>>

----------------------------------------------------------------------------
(* The tick. *)

\* The records and now are read once, ordered by start.
TickExceptions ==
  LET open == {[id |-> i, ex |-> exc[i], at |-> now] : i \in {j \in Ids : exc[j].status \in Open}} IN
  /\ todo = <<>> /\ open # {}
  /\ todo' \in {s \in [1..Cardinality(open) -> open] : \A k, l \in DOMAIN s : k < l =>
                   \/ s[k].ex.start < s[l].ex.start
                   \/ s[k].ex.start = s[l].ex.start /\ s[k].id < s[l].id}
  /\ UNCHANGED <<claimed, skipped, exc, now, calls, started, reverts, seen, page, ops, refused>>

\* pending becomes active if it still is.
MaybeStart ==
  LET t == Head(todo) IN
  /\ todo # <<>> /\ ~claimed /\ t.ex.status = "pending" /\ t.at >= t.ex.start
  /\ IF exc[t.id].status = "pending"
       THEN exc' = [exc EXCEPT ![t.id].status = "active"] /\ claimed' = TRUE /\ todo' = todo
       ELSE todo' = Tail(todo) /\ UNCHANGED <<exc, claimed>>
  /\ UNCHANGED <<now, calls, started, skipped, reverts, seen, page, ops, refused>>

\* Mutant of RunStart: the rollback does not compare the status.
RunStartBlind ==
  LET t == Head(todo) IN
  /\ claimed /\ claimed' = FALSE /\ todo' = Tail(todo)
  /\ \/ started' = [started EXCEPT ![t.id] = @ \cup {t.ex.type}] /\ UNCHANGED <<exc, skipped, refused>>
     \/ /\ refused < MaxRefused /\ refused' = refused + 1 /\ UNCHANGED started
        /\ \/ exc' = [exc EXCEPT ![t.id].status = "pending"] /\ UNCHANGED skipped
           \/ skipped' = skipped \cup {t.id} /\ UNCHANGED exc
  /\ UNCHANGED <<now, calls, reverts, seen, page, ops>>

\* Mutant of RunStart: a refused execution leaves the exception active.
RunStartKept ==
  LET t == Head(todo) IN
  /\ claimed /\ claimed' = FALSE /\ todo' = Tail(todo)
  /\ \/ started' = [started EXCEPT ![t.id] = @ \cup {t.ex.type}] /\ UNCHANGED refused
     \/ refused < MaxRefused /\ refused' = refused + 1 /\ UNCHANGED started
  /\ UNCHANGED <<exc, skipped, now, calls, reverts, seen, page, ops>>

\* The execution is of the type that was listed; when it is refused an exception that
\* is still active becomes pending again.  It stays active without an execution when the
\* policy is disabled, which is no error, and when the write of that roll-back fails.
RunStart ==
  LET t == Head(todo) IN
  /\ claimed /\ claimed' = FALSE /\ todo' = Tail(todo)
  /\ \/ started' = [started EXCEPT ![t.id] = @ \cup {t.ex.type}] /\ UNCHANGED <<exc, skipped, refused>>
     \/ /\ refused < MaxRefused /\ refused' = refused + 1 /\ UNCHANGED started
        /\ \/ exc' = [exc EXCEPT ![t.id].status = IF @ = "active" THEN "pending" ELSE @] /\ UNCHANGED skipped
           \/ skipped' = skipped \cup {t.id} /\ UNCHANGED exc
  /\ UNCHANGED <<now, calls, reverts, seen, page, ops>>

\* The backend stops: the tick, also between making an exception active and running it,
\* and the calls under way are lost.
Crash ==
  /\ refused < MaxRefused /\ refused' = refused + 1
  /\ skipped' = IF claimed THEN skipped \cup {Head(todo).id} ELSE skipped
  /\ claimed' = FALSE /\ todo' = <<>> /\ calls' = {}
  /\ UNCHANGED <<exc, now, started, reverts, seen, page, ops>>

\* Mutant of MaybeEnd: the exception stays active when the return action is refused.
MaybeEndKept ==
  LET t == Head(todo) IN
  /\ todo # <<>> /\ ~claimed /\ t.ex.status = "active" /\ t.at > t.ex.end /\ todo' = Tail(todo)
  /\ UNCHANGED <<claimed, skipped, exc, reverts, refused, now, calls, started, seen, page, ops>>

MaybeEnd ==
  LET t == Head(todo) IN
  /\ todo # <<>> /\ ~claimed /\ t.ex.status = "active" /\ t.at > t.ex.end /\ todo' = Tail(todo)
  /\ IF exc[t.id].status # "active" THEN UNCHANGED <<exc, reverts, refused>>
     ELSE /\ exc' = [exc EXCEPT ![t.id].status = "completed"]
          /\ IF t.ex.sleepOnEnd THEN Revert(t.id) \/ RevertRefused ELSE UNCHANGED <<reverts, refused>>
  /\ UNCHANGED <<claimed, skipped, now, calls, started, seen, page, ops>>

NotYet ==
  LET t == Head(todo) IN
  /\ todo # <<>> /\ ~claimed /\ IF t.ex.status = "pending" THEN t.at < t.ex.start ELSE t.at <= t.ex.end
  /\ todo' = Tail(todo)
  /\ UNCHANGED <<claimed, skipped, exc, now, calls, started, reverts, seen, page, ops, refused>>

Advance ==
  /\ now <= Hours /\ now' = now + 1
  /\ UNCHANGED <<claimed, skipped, exc, calls, todo, started, reverts, seen, page, ops, refused>>

----------------------------------------------------------------------------
(* The page. *)

Current == {i \in Ids : seen[i].status \in Open}
Past == {i \in Ids : seen[i].status \in {"completed", "cancelled"}}

IsMultiDay(i) == Day(seen[i].end) > Day(seen[i].start)

DayRow(d, ids) == [kind |-> "day", day |-> d, ids |-> {i \in ids : ~IsMultiDay(i) /\ Day(seen[i].start) = d}]
SpanRow(i) == [kind |-> "span", day |-> Day(seen[i].start), ids |-> {i}]

\* One row per day of the exceptions within a day, one per longer exception, by
\* first day; a day comes before a span of the same day.
BuildRows(ids) ==
  LET days == {DayRow(d, ids) : d \in {Day(seen[i].start) : i \in {j \in ids : ~IsMultiDay(j)}}}
      spans == {SpanRow(i) : i \in {j \in ids : IsMultiDay(j)}}
  IN SetToSortSeq(days \cup spans, LAMBDA a, b : a.day < b.day \/ (a.day = b.day /\ a.kind = "day" /\ b.kind = "span"))

Rows == BuildRows(Past) \o BuildRows(Current)

CanCancel(i) == seen[i].status \in Open

Poll ==
  /\ seen' = exc
  /\ UNCHANGED <<page, backend>>

ToggleHistory ==
  /\ Past # {} /\ page' = [page EXCEPT !.history = ~@]
  /\ UNCHANGED <<seen, backend>>

ToggleExpand(i) ==
  /\ i \in Current \/ (page.history /\ i \in Past)
  /\ page' = [page EXCEPT !.expanded = IF @ = i THEN 0 ELSE i]
  /\ UNCHANGED <<seen, backend>>

AskCancel(i) ==
  /\ CanCancel(i) /\ page.cancel = 0 /\ page' = [page EXCEPT !.cancel = i]
  /\ UNCHANGED <<seen, backend>>

KeepException ==
  /\ page.cancel # 0 /\ page' = [page EXCEPT !.cancel = 0]
  /\ UNCHANGED <<seen, backend>>

ConfirmCancel ==
  /\ page.cancel # 0 /\ page' = [page EXCEPT !.cancel = 0]
  /\ ops < MaxOps /\ Cardinality(calls) < MaxCalls
  /\ calls' = calls \cup {[op |-> "delete", id |-> page.cancel, data |-> exc[page.cancel]]} /\ ops' = ops + 1
  /\ IF exc[page.cancel].status = "active" /\ exc[page.cancel].sleepOnEnd
       THEN Revert(page.cancel) \/ RevertRefused ELSE UNCHANGED <<reverts, refused>>
  /\ UNCHANGED <<claimed, skipped, exc, now, todo, started, seen>>

----------------------------------------------------------------------------
Api == \E i \in Ids : DeleteException(i) \/ \E d \in Inputs : CreateException(i, d) \/ UpdateException(i, d)
Tick == TickExceptions \/ MaybeStart \/ RunStart \/ MaybeEnd \/ NotYet
UserPage == \/ Poll \/ ToggleHistory \/ KeepException \/ ConfirmCancel
            \/ \E i \in Ids : ToggleExpand(i) \/ AskCancel(i)

Next == Api \/ Tick \/ Crash \/ Advance \/ \E c \in calls : Write(c)

\* With the page; the list may be any age.
PageNext == Next \/ UserPage

Spec == Init /\ [][Next]_vars

----------------------------------------------------------------------------
(* Properties. *)

TypeOK ==
  /\ \A i \in Ids : exc[i] = Absent \/ exc[i].status \in Open \cup {"completed", "cancelled"}
  /\ now \in 0..(Hours + 1) /\ started \in [Ids -> SUBSET Types] /\ skipped \subseteq Ids /\ reverts \in [Ids -> Nat]
  /\ page.expanded \in Ids \cup {0} /\ page.cancel \in Ids \cup {0}

\* An exception that is completed or cancelled is never open again, whatever ticks
\* and calls still hold an old record of it.
OverIsFinal ==
  [][\A i \in DOMAIN exc : exc[i].status \in {"completed", "cancelled"} => exc'[i].status = exc[i].status]_vars

\* Every exception of the list is shown exactly once, over or not, and days ascend
\* within the history and within the rest.
CalendarComplete ==
  /\ \A i \in Ids : seen[i] # Absent => Cardinality({r \in 1..Len(Rows) : i \in Rows[r].ids}) = 1
  /\ \A rows \in {BuildRows(Past), BuildRows(Current)} : \A r \in 1..(Len(rows) - 1) : rows[r].day <= rows[r + 1].day

\* One policy never has a force-sleep and a stay-awake exception for the same time.
OppositesApart == \A i, j \in Ids :
  exc[i].status \in Open /\ exc[j].status \in Open /\ exc[i].type # exc[j].type =>
    exc[i].end <= exc[j].start \/ exc[j].end <= exc[i].start

\* Every exception comes to an end: a start or a return action that is refused for a
\* while does not keep it open.
EndsEventually == \A i \in Ids : exc[i].status \in Open ~> exc[i].status \notin Open

\* Its start action has run, or was passed over once it was active: the policy was disabled, the
\* backend stopped between the two, or the roll-back of a refused execution failed.
Handled(i) == started[i] # {} \/ i \in skipped

\* An exception is completed only after its start action has run or was passed over: one whose
\* execution is refused goes back and stays pending until an execution is taken, however old the
\* records ticks hold, or it is cancelled.
CompletedRan == \A i \in Ids : exc[i].status = "completed" => Handled(i)

\* What is stored, started and shown of exceptions.  Calls that overlap are left out of the last
\* line (MaxCalls): check and write are separate statements.
ExceptionsSound ==
  /\ TypeOK /\ CalendarComplete /\ CompletedRan
  /\ MaxCalls > 1 \/ OppositesApart

\* With the page.
PageSpec == Init /\ [][PageNext]_vars

----------------------------------------------------------------------------
(* Why exceptions that are over stay over, and opposite ones apart.           *)

Statuses == Open \cup {"completed", "cancelled"}
Records == [type : Types, start : 0..Hours, end : 0..Hours, sleepOnEnd : BOOLEAN, status : Statuses]
Items == [id : Ids, ex : Records, at : Nat]
Shapes ==
  /\ exc \in [Ids -> Records \cup {Absent}] /\ seen \in [Ids -> Records \cup {Absent}]
  /\ now \in 0..(Hours + 1) /\ claimed \in BOOLEAN /\ ops \in Nat /\ refused \in Nat
  /\ calls \subseteq [op : {"create", "update"}, id : Ids, data : Inputs]
                       \cup [op : {"delete"}, id : Ids, data : Records]
  /\ IsFiniteSet(calls) /\ Cardinality(calls) <= MaxCalls
  /\ todo \in Seq(Items)
  /\ started \in [Ids -> SUBSET Types] /\ skipped \subseteq Ids /\ reverts \in [Ids -> Nat]
  /\ page \in [history : BOOLEAN, expanded : Ids \cup {0}, cancel : Ids \cup {0}]

\* An id is given out once: the call that creates it is the only one about it, and no other call
\* and no page names an exception that does not exist.
CallsKnown ==
  /\ \A c \in calls : c.op = "create" => exc[c.id] = Absent /\ \A d \in calls : d.id = c.id => d = c
  /\ \A c \in calls : c.op # "create" => exc[c.id] # Absent
  /\ \A i \in Ids : seen[i] # Absent => exc[i] # Absent
  /\ page.cancel # 0 => exc[page.cancel] # Absent

\* Active exceptions are handled, but for the one the tick has claimed and not run yet.
ActiveRan ==
  /\ claimed => todo # <<>>
  /\ \A i \in Ids : exc[i].status = "active" => Handled(i) \/ (claimed /\ Head(todo).id = i)

\* What one call has checked stays true until its write: nothing else opens or moves exceptions.
ChecksHold ==
  \A c \in calls : c.op # "delete" => ~HasOverlapping(c.data.type, c.data.start, c.data.end, c.id)

ExceptionsInv ==
  /\ Shapes /\ CallsKnown /\ ActiveRan /\ CompletedRan
  /\ MaxCalls > 1 \/ (OppositesApart /\ ChecksHold)
=============================================================================
