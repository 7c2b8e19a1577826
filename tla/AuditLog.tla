-------------------------------- MODULE AuditLog --------------------------------
(***************************************************************************)
(* The audit trail from the handler that records an entry to the page that *)
(* reads it: synchronous writes of critical actions, the bounded channel   *)
(* and its background writer, the drain at shutdown, retention; and in the *)
(* browser the filtered table with its debounced user filter, the rows     *)
(* with their differences, and the export that reads page after page.      *)
(*                                                                         *)
(* An entry is numbered by its time; listings are ordered by time, newest  *)
(* first. A listing counts and selects in two statements.                  *)
(***************************************************************************)
EXTENDS Integers, Sequences, FiniteSets, SequencesExt, FiniteSetsExt

CONSTANTS
  Users,        \* user names
  Filters,      \* user filters that are typed; "" is none
  BufSize,      \* capacity of the writer's channel
  ExportPage, ExportMax,   \* EXPORT_PAGE_SIZE, EXPORT_MAX_ROWS
  TablePage,    \* rows of a page of the table
  Fields, Snapshots,   \* fields and before or after images: functions from some fields to values
  Racing,       \* may the database change between the count and the selection of a listing
  PageOpen,     \* is the audit page open in a browser
  Hasty,        \* may the user turn the page before the typed filter applies
  SlowHandlers, \* may a handler outlast the shutdown timeout of the server
  MaxEntries, MaxHandlers, MaxFailures, MaxCleans   \* bounds

\* What the instance must satisfy.
AuditAssumption ==
  /\ {BufSize, ExportPage, ExportMax, TablePage, MaxEntries, MaxHandlers, MaxFailures,
      MaxCleans} \subseteq Nat
  /\ ExportPage > 0 /\ TablePage > 0 /\ "" \notin Users /\ "" \in Filters
  /\ {PageOpen, Racing, Hasty, SlowHandlers} \subseteq BOOLEAN
  /\ IsFiniteSet(Fields)
  /\ \A s \in Snapshots : DOMAIN s \subseteq Fields /\ s = [f \in DOMAIN s |-> s[f]]

VARIABLES
  server,    \* "up", "closing" (SIGTERM), "draining", "exited"
  handlers,  \* requests under way that will record an entry
  waiting,   \* entries whose handlers wait for room in the channel
  queue,     \* the channel
  writer,    \* "run", "drain", "done"
  db,        \* stored entries
  made,      \* history: all entries, by number
  logged,    \* history: entries whose loss was logged or counted
  table,     \* the page: [typed, user, page, data, open]
  export,    \* handleExport: [pc, user, cursor, rows, count, total, error, start]
  faults, cleans

auditVars == <<server, handlers, waiting, queue, writer, db, made, logged, table, export, faults, cleans>>
backend == <<server, handlers, waiting, queue, writer, db, made, logged, faults, cleans>>

Loading == [ok |-> FALSE, items |-> <<>>, total |-> 0]
NoExport == [pc |-> "idle", user |-> "", cursor |-> 0, rows |-> <<>>, count |-> 0, total |-> 0,
             error |-> FALSE, start |-> {}]

AuditInit ==
  /\ server = "up" /\ handlers = 0 /\ waiting = {} /\ queue = <<>> /\ writer = "run"
  /\ db = {} /\ made = <<>> /\ logged = {}
  /\ table = [typed |-> "", user |-> "", page |-> 0, data |-> Loading, open |-> {}]
  /\ export = NoExport /\ faults = 0 /\ cleans = 0

Entry(n) == made[n]
Fault == faults < MaxFailures /\ faults' = faults + 1
Writable == Racing \/ export.pc /= "counted"

(***************************************************************************)
(* Writing                                                                 *)
(***************************************************************************)

\* A request is accepted while the server listens.
Request ==
  /\ server = "up" /\ handlers < MaxHandlers /\ handlers + Len(made) < MaxEntries
  /\ handlers' = handlers + 1
  /\ UNCHANGED <<server, waiting, queue, writer, db, made, logged, table, export, faults, cleans>>

\* Handler.audit: a critical action is written at once, a failure of the database is
\* logged; any other entry goes to the channel, or waits while it is full.
Audit(u, critical, before, after) ==
  LET n == Len(made) + 1
  IN /\ handlers > 0 /\ server /= "exited" /\ handlers' = handlers - 1
     /\ made' = Append(made, [user |-> u, critical |-> critical, before |-> before, after |-> after])
     /\ \/ critical /\ Writable /\ db' = db \cup {n} /\ UNCHANGED <<waiting, queue, logged, faults>>
        \/ critical /\ Fault /\ logged' = logged \cup {n} /\ UNCHANGED <<waiting, queue, db>>
        \/ /\ ~critical /\ Len(queue) < BufSize /\ queue' = Append(queue, n)
           /\ UNCHANGED <<waiting, db, logged, faults>>
        \/ /\ ~critical /\ Len(queue) >= BufSize /\ waiting' = waiting \cup {n}
           /\ UNCHANGED <<queue, db, logged, faults>>
     /\ UNCHANGED <<server, writer, table, export, cleans>>

\* The waiting handler finds room.
Enqueue(n) ==
  /\ n \in waiting /\ server /= "exited" /\ Len(queue) < BufSize
  /\ queue' = Append(queue, n) /\ waiting' = waiting \ {n}
  /\ UNCHANGED <<server, handlers, writer, db, made, logged, table, export, faults, cleans>>

\* 500 ms passed: the entry is dropped and counted.
Drop(n) ==
  /\ n \in waiting /\ server /= "exited" /\ Len(queue) >= BufSize
  /\ waiting' = waiting \ {n} /\ logged' = logged \cup {n}
  /\ UNCHANGED <<server, handlers, queue, writer, db, made, table, export, faults, cleans>>

\* Mutant of Write: the writer takes the last entry of the channel and forgets the others.
WriteLast ==
  /\ writer \in {"run", "drain"} /\ queue /= <<>> /\ queue' = <<>>
  /\ db' = db \cup {Last(queue)}
  /\ UNCHANGED <<server, handlers, waiting, writer, made, logged, table, export, faults, cleans>>

\* safeWrite, in Start and in drain: the entry is stored, or its loss is logged.
Write ==
  /\ writer \in {"run", "drain"} /\ queue /= <<>> /\ queue' = Tail(queue)
  /\ \/ Writable /\ db' = db \cup {Head(queue)} /\ UNCHANGED <<logged, faults>>
     \/ Fault /\ logged' = logged \cup {Head(queue)} /\ UNCHANGED db
  /\ UNCHANGED <<server, handlers, waiting, writer, made, table, export, cleans>>

\* SIGTERM: no new requests.
Terminate ==
  /\ server = "up" /\ server' = "closing"
  /\ UNCHANGED <<handlers, waiting, queue, writer, db, made, logged, table, export, faults, cleans>>

\* server.Shutdown returns when the handlers are done, or at its timeout; then the
\* writer's context is cancelled.
StopServer ==
  /\ server = "closing" /\ (SlowHandlers \/ (handlers = 0 /\ waiting = {}))
  /\ server' = "draining" /\ writer' = "drain"
  /\ UNCHANGED <<handlers, waiting, queue, db, made, logged, table, export, faults, cleans>>

\* drain ends with an empty channel, or at its deadline, which logs what is left.
Drained ==
  /\ writer = "drain" /\ writer' = "done"
  /\ \/ queue = <<>> /\ UNCHANGED <<queue, logged, faults>>
     \/ queue /= <<>> /\ Fault /\ logged' = logged \cup ToSet(queue) /\ queue' = <<>>
  /\ UNCHANGED <<server, handlers, waiting, db, made, table, export, cleans>>

\* wg.Wait returned: the process ends.
ProcessEnds ==
  /\ server = "draining" /\ writer = "done" /\ server' = "exited"
  /\ UNCHANGED <<handlers, waiting, queue, writer, db, made, logged, table, export, faults, cleans>>

\* CleanOldAuditLogs: retention removes the oldest entry.
Clean ==
  /\ cleans < MaxCleans /\ cleans' = cleans + 1 /\ Writable /\ db /= {} /\ db' = db \ {Min(db)}
  /\ UNCHANGED <<server, handlers, waiting, queue, writer, made, logged, table, export, faults>>

(***************************************************************************)
(* Reading                                                                 *)
(***************************************************************************)

Matching(S, u) == {n \in S : u \in {"", Entry(n).user}}
NewestFirst(S) == [k \in 1..Cardinality(S) |->
                     CHOOSE n \in S : Cardinality({m \in S : m >= n}) = k]

\* ListAuditLogs counts, and then selects a page.
CountOf(u) == Cardinality(Matching(db, u))
PageOf(u, page, size) ==
  LET all == NewestFirst(Matching(db, u))
  IN SubSeq(all, page * size + 1, Min({Len(all), (page + 1) * size}))

\* A changed key of the query shows the skeleton until the answer.
Requery(t) == table' = [t EXCEPT !.data = Loading, !.open = {}] /\ UNCHANGED <<backend, export>>

\* The user types a name: page 0 at once, the filter after the debounce.
TypeUser(u) ==
  LET t == [table EXCEPT !.typed = u, !.page = 0]
  IN /\ PageOpen /\ u /= table.typed
     /\ IF table.page = 0 THEN table' = t /\ UNCHANGED <<backend, export>> ELSE Requery(t)

\* useDebouncedValue.
Debounce == table.user /= table.typed /\ Requery([table EXCEPT !.user = table.typed])

\* TablePagination offers the pages of the total that was answered.
TurnPage(p) ==
  /\ table.data.ok /\ p /= table.page /\ p * TablePage < table.data.total
  /\ Hasty \/ table.user = table.typed
  /\ Requery([table EXCEPT !.page = p])

\* The answer to the query of the current key.
TableAnswer ==
  /\ PageOpen /\ ~table.data.ok /\ server /= "exited"
  /\ table' = [table EXCEPT !.data = [ok |-> TRUE, total |-> CountOf(table.user),
                                          items |-> PageOf(table.user, table.page, TablePage)]]
  /\ UNCHANGED <<backend, export>>

\* AuditRow: the arrow of a row with an image opens its differences.
ToggleRow(n) ==
  /\ n \in ToSet(table.data.items)
  /\ DOMAIN Entry(n).before \cup DOMAIN Entry(n).after /= {}
  /\ table' = [table EXCEPT !.open = IF n \in @ THEN @ \ {n} ELSE @ \cup {n}]
  /\ UNCHANGED <<backend, export>>

\* computeDiff and classifyLine: every field of either image, classified.
Diff(before, after) ==
  [f \in DOMAIN before \cup DOMAIN after |->
     IF f \notin DOMAIN before THEN "added"
     ELSE IF f \notin DOMAIN after THEN "removed"
     ELSE IF before[f] /= after[f] THEN "changed" ELSE "unchanged"]

\* JsonDiffView: the number of changed fields in the summary line.
ChangedCount(d) == Cardinality({f \in DOMAIN d : d[f] /= "unchanged"})

\* The button: disabled while the table loads or an export is under way.
StartExport ==
  /\ table.data.ok /\ export.pc = "idle"
  /\ export' = [NoExport EXCEPT !.pc = "reading", !.user = table.user, !.start = Matching(db, table.user)]
  /\ UNCHANGED <<backend, table>>

\* handleExport asks for the next page: the backend counts the matching entries.
CountRows ==
  /\ export.pc = "reading" /\ server /= "exited"
  /\ export' = [export EXCEPT !.pc = "counted", !.count = CountOf(export.user)]
  /\ UNCHANGED <<backend, table>>

\* The backend selects the page and answers; the loop ends with an empty page, when as
\* many rows as match were collected, or at the cap, which is announced.
ReadPage ==
  /\ export.pc = "counted" /\ server /= "exited"
  /\ LET items == PageOf(export.user, export.cursor, ExportPage)
         rows  == export.rows \o items
         total == IF items = <<>> THEN export.total ELSE export.count
         more  == items /= <<>> /\ Len(rows) < total /\ Len(rows) < ExportMax
     IN export' = [export EXCEPT !.rows = rows, !.total = total, !.cursor = @ + 1,
                                 !.pc = IF more THEN "reading" ELSE "done",
                                 !.error = ~more /\ total > ExportMax]
  /\ UNCHANGED <<backend, table>>

\* A request fails: nothing is downloaded and the error is shown.
ReadFails ==
  /\ export.pc \in {"reading", "counted"} /\ Fault
  /\ export' = [NoExport EXCEPT !.error = TRUE]
  /\ UNCHANGED <<server, handlers, waiting, queue, writer, db, made, logged, table, cleans>>

AuditNext ==
  \/ Request \/ Write \/ Terminate \/ StopServer \/ Drained \/ ProcessEnds \/ Clean
  \/ \E u \in Users, c \in BOOLEAN, b, a \in Snapshots : Audit(u, c, b, a)
  \/ \E n \in waiting : Enqueue(n) \/ Drop(n)
  \/ \E u \in Filters : TypeUser(u)
  \/ \E p \in 0..MaxEntries : TurnPage(p)
  \/ \E n \in 1..Len(made) : ToggleRow(n)
  \/ Debounce \/ TableAnswer \/ StartExport \/ CountRows \/ ReadPage \/ ReadFails

AuditSpec == AuditInit /\ [][AuditNext]_auditVars

(***************************************************************************)
(* Properties                                                              *)
(***************************************************************************)

\* Every variable keeps its type; the channel respects its capacity.
AuditTypeOK ==
  /\ server \in {"up", "closing", "draining", "exited"} /\ handlers \in Nat /\ Len(queue) <= BufSize
  /\ ToSet(queue) \cup waiting \cup db \cup logged \subseteq 1..Len(made)
  /\ writer \in {"run", "drain", "done"} /\ faults \in Nat /\ cleans \in Nat
  /\ {table.user, table.typed} \subseteq Filters /\ table.page \in Nat
  /\ export.pc \in {"idle", "reading", "counted", "done"} /\ Len(export.rows) <= ExportMax + ExportPage

\* An entry of a critical action is in the database from the moment its handler goes
\* on, unless the database failed; nobody has to drain anything for it.
CriticalStored ==
  cleans = 0 => \A n \in 1..Len(made) : Entry(n).critical => n \in db \cup logged

\* Every entry is in exactly one place: stored, in the channel, at a waiting handler,
\* or known to be lost.
Accounted ==
  /\ cleans = 0 => 1..Len(made) = db \cup ToSet(queue) \cup waiting \cup logged
  /\ db \cap (ToSet(queue) \cup waiting \cup logged) = {}
  /\ IsInjective(queue) /\ ToSet(queue) \cap (waiting \cup logged) = {}

\* When the process has ended, every entry was written or its loss is on record: the
\* drain saw all entries the handlers produced.
DrainSeesAll ==
  server = "exited" => queue = <<>> /\ waiting = {}

\* A finished export contains every entry that matched when it was started and still
\* exists, unless it says that it was capped.
ExportComplete ==
  export.pc = "done" /\ ~export.error => export.start \cap db \subseteq ToSet(export.rows)

\* "No audit log entries found." is shown only when nothing matches the filter, as long as
\* retention has not emptied the page.
EmptyMeansNone ==
  table.data.ok /\ table.data.items = <<>> /\ cleans = 0 => table.data.total = 0

\* What an opened row lists is enough to get from one image to the other, and the
\* summary says "No fields changed" only for equal images.
DiffExplains ==
  \A n \in table.open :
    LET b == Entry(n).before a == Entry(n).after d == Diff(b, a)
    IN /\ DOMAIN a = {f \in DOMAIN d : d[f] /= "removed"}
       /\ DOMAIN b = {f \in DOMAIN d : d[f] /= "added"}
       /\ (ChangedCount(d) = 0) <=> (a = b)

\* No entry vanishes unrecorded on its way to the database, and none from the page or the export.
\* Three disagreements are left out by the constants: a handler that outlasts the shutdown loses
\* its entry (SlowHandlers), a row that is stored between the count and the selection of the last
\* page ends an export early (Racing), and a page turned before the filter applies is empty (Hasty).
TrailComplete ==
  /\ AuditTypeOK /\ CriticalStored /\ Accounted /\ DiffExplains
  /\ SlowHandlers \/ DrainSeesAll
  /\ Racing \/ ExportComplete
  /\ Hasty \/ EmptyMeansNone

(***************************************************************************)
(* Why TrailComplete holds                                                 *)
(***************************************************************************)

Entries == [user : Users, critical : BOOLEAN, before : Snapshots, after : Snapshots]
AuditShapes ==
  /\ made \in Seq(Entries) /\ queue \in Seq(Nat)
  /\ table \in [typed : Filters, user : Filters, page : Nat, open : SUBSET Nat,
                data : [ok : BOOLEAN, items : Seq(Nat), total : Nat]]
  /\ export \in [pc : {"idle", "reading", "counted", "done"}, user : Filters, cursor : Nat,
                 rows : Seq(Nat), count : Nat, total : Nat, error : BOOLEAN, start : SUBSET Nat]
  /\ table.open \subseteq 1..Len(made)

\* The channel is closed to nobody who still has an entry for it.
ShutDown ==
  /\ writer = "run" <=> server \in {"up", "closing"}
  /\ server = "exited" => writer = "done"
  /\ ~SlowHandlers /\ writer # "run" => handlers = 0 /\ waiting = {}
  /\ ~SlowHandlers /\ writer = "done" => queue = <<>>

\* What the table waits for, or shows, is a page that exists.
PageExists ==
  /\ table.user # table.typed => table.page = 0
  /\ cleans = 0 => /\ table.page = 0 \/ table.page * TablePage < CountOf(table.user)
                   /\ table.data.ok => table.data.total <= CountOf(table.user)

\* The place of an entry in a listing. It never moves forward: what is stored is put before or
\* after it, what retention removes is at the end.
Place(n, u) == Cardinality({m \in Matching(db, u) : m > n})
Exporting == export.pc \in {"reading", "counted"}
NoneSkipped ==
  /\ export.start \subseteq Matching(1..Len(made), export.user)
  /\ export.start \cap (ToSet(queue) \cup waiting) = {}
  /\ Exporting => /\ Len(export.rows) <= export.cursor * ExportPage
                  /\ export.rows = <<>> \/ Len(export.rows) < ExportMax
  /\ ~Racing /\ export.pc = "counted" => export.count = CountOf(export.user)
  /\ Exporting => \A n \in export.start \cap db :
                     n \in ToSet(export.rows) \/ Place(n, export.user) >= export.cursor * ExportPage

AuditInv ==
  /\ AuditTypeOK /\ AuditShapes /\ CriticalStored /\ Accounted /\ waiting \cap logged = {}
  /\ ShutDown /\ NoneSkipped
  /\ Hasty \/ (PageExists /\ EmptyMeansNone)
  /\ Racing \/ ExportComplete
=============================================================================
