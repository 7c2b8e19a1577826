---------------------------- MODULE RecordEditor ----------------------------
(***************************************************************************)
(* The editors of policies and of scheduled exceptions: a dialog that is   *)
(* opened on a record of the polled list or on defaults, keeps a draft,    *)
(* validates it, saves it with one mutation and closes; and the dialog     *)
(* that deletes a policy.                                                  *)
(*                                                                         *)
(* The dialog component stays mounted while it is closed, so a save that   *)
(* is under way outlives the session of the dialog that sent it.  A closed *)
(* dialog stays clickable while it fades out.  Fields that are only text   *)
(* are left out of the draft; `which' is the editor and the page it is on. *)
(***************************************************************************)
EXTENDS Integers, FiniteSets

CONSTANTS
  Ids,            \* record ids
  FadingClicks,   \* whether a click may land on a dialog that is fading out
  TzChanges,      \* whether the account's time zone may change meanwhile
  MaxOpenings, MaxTyped, MaxOthers   \* bounds: openings, edits, other operators

\* What the instance must satisfy.
RecordEditorAssumption ==
  /\ Ids \subseteq Nat \ {0} /\ IsFiniteSet(Ids) /\ {FadingClicks, TzChanges} \subseteq BOOLEAN
  /\ {MaxOpenings, MaxTyped, MaxOthers} \subseteq Nat

VARIABLES
  which,     \* the dialog: its kind and the page that owns it
  records,   \* backend: id -> record or NoRecord
  history,   \* backend: policies that have executions and snapshots
  listed,    \* the list read last
  editor,    \* [open, fading, existing, rec, draft, error, session, own]
  mutation,  \* the mutation: NoReq or [id, payload, own, open, ans]
  confirm,   \* policy whose delete dialog is open, 0 for none
  typed, others

editorVars == <<which, records, history, listed, editor, mutation, confirm, typed, others>>

Editors == [kind : {"policy", "exception"}, place : {"list", "detail"}]
Kind == which.kind
Place == which.place

NoRecord == [gone |-> TRUE]
NoReq == [ans |-> "idle"]

----------------------------------------------------------------------------
(* Drafts.  A policy window either has days or has none; an exception has  *)
(* its parent, a start and an end, 0 meaning empty, and now is 1.          *)

Now == 1
NoTitle == "-"    \* the empty name
PolicyDrafts == [name : {NoTitle, "a", "b"}, windows : SUBSET {"days", "nodays"}, timeout : {30, 1441}]
ExceptionDrafts == [policy : {0, 1}, start : 0..3, end : 0..3]
Drafts == IF Kind = "policy" THEN PolicyDrafts ELSE ExceptionDrafts

Defaults == IF Kind = "policy" THEN [name |-> NoTitle, windows |-> {"days"}, timeout |-> 30]
            ELSE [policy |-> IF Place = "detail" THEN 1 ELSE 0, start |-> 0, end |-> 0]

\* The record as the editor takes it over: a policy without windows gets the default ones.
FromRecord(r) ==
  IF Kind = "policy" THEN [r.data EXCEPT !.windows = IF @ = {} THEN {"days"} ELSE @] ELSE r.data

Validate(d, isEdit) ==
  IF Kind = "policy" THEN d.name # NoTitle /\ "days" \in d.windows /\ d.timeout \in 0..1440
  ELSE /\ isEdit \/ d.policy # 0
       /\ d.start # 0 /\ d.end # 0 /\ d.end > d.start
       /\ isEdit \/ d.start > Now

\* Mutant of Payload: the windows are sent as they were edited.
PayloadAll(d) == d

\* Windows without days are dropped from what is sent.
Payload(d) == IF Kind = "policy" THEN [d EXCEPT !.windows = @ \ {"nodays"}] ELSE d

\* Only a pending exception can be edited.
CanBeEdited(r) == r # NoRecord /\ r.pending

----------------------------------------------------------------------------
ClosedEditor == [open |-> FALSE, fading |-> FALSE, existing |-> 0, rec |-> NoRecord,
                 draft |-> Defaults, error |-> FALSE, session |-> 0, own |-> 0]

Stored(d) == [data |-> d, pending |-> TRUE]
Sample == IF Kind = "policy" THEN [name |-> "a", windows |-> {"days"}, timeout |-> 30]
          ELSE [policy |-> 1, start |-> 1, end |-> 2]

EditorInit ==
  /\ which \in Editors
  /\ \E s \in SUBSET Ids : /\ records = [i \in Ids |-> IF i \in s THEN Stored(Sample) ELSE NoRecord]
                           /\ history = s
  /\ listed = records /\ editor = ClosedEditor /\ mutation = NoReq
  /\ confirm = 0 /\ typed = 0 /\ others = 0

Resting == ~editor.open /\ ~editor.fading /\ confirm = 0

\* Editor sessions are numbered; existing and the draft are fixed when it opens.
OpenOn(i, r) ==
  /\ Resting /\ editor.session < MaxOpenings
  /\ editor' = [editor EXCEPT !.open = TRUE, !.existing = i, !.rec = r, !.error = FALSE,
                              !.session = @ + 1, !.own = i,
                              !.draft = IF i = 0 THEN Defaults ELSE FromRecord(r)]
  /\ UNCHANGED <<records, history, listed, mutation, confirm, typed, others>>

HandleEdit(i) == CanBeEdited(listed[i]) /\ OpenOn(i, listed[i])

\* A policy is created from the list; an exception from both pages.
HandleCreate == (Place = "list" \/ Kind = "exception") /\ OpenOn(0, NoRecord)

\* The parent of an exception is picked on the list page only, when the exception is created.
Offered(f, v) == f = "policy" => Place = "list" /\ editor.existing = 0 /\ v # 0

SetField(f, v) ==
  /\ editor.open /\ typed < MaxTyped /\ typed' = typed + 1 /\ editor.draft[f] # v /\ Offered(f, v)
  /\ editor' = [editor EXCEPT !.draft[f] = v]
  /\ UNCHANGED <<records, history, listed, mutation, confirm, others>>

\* The save button is disabled while the mutation is pending.
CanSave == (editor.open \/ (FadingClicks /\ editor.fading)) /\ mutation = NoReq

HandleSave ==
  /\ CanSave
  /\ IF Validate(editor.draft, editor.existing # 0)
       THEN /\ mutation' = [id |-> editor.existing, payload |-> Payload(editor.draft),
                            own |-> editor.own, open |-> editor.open, ans |-> "none"]
            /\ editor' = [editor EXCEPT !.error = FALSE]
       ELSE editor' = [editor EXCEPT !.error = TRUE] /\ UNCHANGED mutation
  /\ UNCHANGED <<records, history, listed, confirm, typed, others>>

\* handleClose: the list and the exception dialogs forget the record at once, the
\* policy dialog of the detail page keeps it.
Shut(d) ==
  [d EXCEPT !.open = FALSE, !.fading = d.open \/ d.fading,
            !.existing = IF Place = "detail" /\ Kind = "policy" THEN @ ELSE 0]

CloseEditor ==
  /\ editor.open
  /\ editor' = Shut(editor)
  /\ UNCHANGED <<records, history, listed, mutation, confirm, typed, others>>

EditorFaded ==
  /\ editor.fading /\ ~editor.open
  /\ editor' = [editor EXCEPT !.fading = FALSE]
  /\ UNCHANGED <<records, history, listed, mutation, confirm, typed, others>>

----------------------------------------------------------------------------
(* Saving. *)

\* The backend writes or refuses; the answer to a write may be lost.
ServeSave ==
  /\ mutation.ans = "none"
  /\ \/ /\ mutation' = [mutation EXCEPT !.ans = "err"] /\ UNCHANGED records
     \/ \E i \in Ids, ans \in {"ok", "err"} :
          /\ IF mutation.id = 0 THEN records[i] = NoRecord
             ELSE i = mutation.id /\ CanBeEdited(records[i])
          /\ records' = [records EXCEPT ![i] = Stored(mutation.payload)]
          /\ mutation' = [mutation EXCEPT !.ans = ans]
  /\ UNCHANGED <<history, listed, editor, confirm, typed, others>>

\* onSuccess closes the dialog of the page, onError shows the error in it; both act
\* on the dialog as it is now.
SaveAnswered ==
  /\ mutation.ans \in {"ok", "err"} /\ mutation' = NoReq
  /\ editor' = IF mutation.ans = "err" THEN [editor EXCEPT !.error = TRUE]
               ELSE IF editor.open THEN Shut(editor) ELSE editor
  /\ UNCHANGED <<records, history, listed, confirm, typed, others>>

\* The refetch of the list, periodic or after an invalidation.
PollRecords ==
  /\ listed' = records
  /\ UNCHANGED <<records, history, editor, mutation, confirm, typed, others>>

\* The refresh of the account brings another default time zone: the effect that
\* fills the draft runs again.
TzRefresh ==
  /\ TzChanges /\ Kind = "policy" /\ editor.open
  /\ editor' = [editor EXCEPT !.error = FALSE,
                              !.draft = IF editor.existing = 0 THEN Defaults
                                        ELSE FromRecord(editor.rec)]
  /\ UNCHANGED <<records, history, listed, mutation, confirm, typed, others>>

\* Another operator or the scheduler changes the record.
OtherOperator(i) ==
  /\ others < MaxOthers /\ others' = others + 1 /\ records[i] # NoRecord
  /\ \/ records' = [records EXCEPT ![i] = NoRecord] /\ history' = history \ {i}
     \/ Kind = "policy" /\ records' = [records EXCEPT ![i].data.name = "b"] /\ UNCHANGED history
     \/ Kind = "exception" /\ records' = [records EXCEPT ![i].pending = FALSE] /\ UNCHANGED history
  /\ UNCHANGED <<listed, editor, mutation, confirm, typed>>

----------------------------------------------------------------------------
(* Deleting a policy from its card. *)

AskDeletePolicy(i) ==
  /\ Kind = "policy" /\ Place = "list" /\ Resting /\ listed[i] # NoRecord
  /\ confirm' = i
  /\ UNCHANGED <<records, history, listed, editor, mutation, typed, others>>

CancelDelete ==
  /\ confirm # 0 /\ confirm' = 0
  /\ UNCHANGED <<records, history, listed, editor, mutation, typed, others>>

\* DeletePolicy removes the executions, snapshots and exceptions with the policy.
Delete ==
  /\ confirm # 0 /\ confirm' = 0
  /\ \/ records' = [records EXCEPT ![confirm] = NoRecord] /\ history' = history \ {confirm}
     \/ UNCHANGED <<records, history>>
  /\ UNCHANGED <<listed, editor, mutation, typed, others>>

EditorNext ==
  /\ UNCHANGED which
  /\ \/ HandleCreate \/ HandleSave \/ CloseEditor \/ EditorFaded \/ ServeSave \/ SaveAnswered
     \/ PollRecords \/ TzRefresh \/ CancelDelete \/ Delete
     \/ \E i \in Ids : HandleEdit(i) \/ OtherOperator(i) \/ AskDeletePolicy(i)
     \/ \E f \in DOMAIN editor.draft : \E v \in {d[f] : d \in Drafts} : SetField(f, v)

EditorSpec == EditorInit /\ [][EditorNext]_editorVars

----------------------------------------------------------------------------
(* Properties. *)

Records == [data : Drafts, pending : BOOLEAN]
EditorTypeOK ==
  /\ which \in Editors /\ history \subseteq Ids
  /\ records \in [Ids -> {NoRecord} \cup Records]
  /\ editor.draft \in Drafts /\ editor.existing \in Ids \cup {0} /\ editor.session \in Nat
  /\ mutation = NoReq \/ (mutation.id \in Ids \cup {0} /\ mutation.payload \in Drafts)

\* Whatever is typed, saved, refused and saved again, every stored record can be
\* scheduled: a policy has a window with days and no other, an exception has a
\* parent and ends after it starts.
Runnable(d) == IF Kind = "policy" THEN d.windows = {"days"} /\ d.name # NoTitle
               ELSE d.policy # 0 /\ d.end > d.start
StoredRunnable == \A i \in Ids : records[i] # NoRecord => Runnable(records[i].data)

\* A save that was prepared on a record goes to that record, never to another one
\* and never becomes a new record.  A click on a dialog that is fading out is left out where Shut
\* has forgotten the record by then and the second save creates a copy: every dialog but the
\* policy dialog of the detail page.
SavesOwnRecord ==
  mutation # NoReq /\ (mutation.open \/ (Kind = "policy" /\ Place = "detail"))
    => mutation.id = mutation.own

\* What is stored was edited for the record it is stored in and can be scheduled.
EditorSound == EditorTypeOK /\ StoredRunnable /\ SavesOwnRecord

----------------------------------------------------------------------------
(* Why EditorSound holds.                                                  *)

EditorShapes ==
  /\ listed \in [Ids -> {NoRecord} \cup Records] /\ confirm \in Ids \cup {0}
  /\ editor \in [open : BOOLEAN, fading : BOOLEAN, existing : Ids \cup {0},
                 rec : {NoRecord} \cup Records, draft : Drafts, error : BOOLEAN, session : Nat,
                 own : Ids \cup {0}]
  /\ mutation \in {NoReq} \cup [id : Ids \cup {0}, payload : Drafts, own : Ids \cup {0},
                                open : BOOLEAN, ans : {"none", "ok", "err"}]

\* What was read and what is being sent can be scheduled like what is stored, and the draft of an
\* edited exception has its parent.
DraftsRunnable ==
  /\ \A i \in Ids : listed[i] # NoRecord => Runnable(listed[i].data)
  /\ mutation # NoReq => Runnable(mutation.payload)
  /\ editor.existing # 0 => /\ editor.rec # NoRecord
                            /\ Kind = "exception" => editor.draft.policy # 0

\* An open dialog still edits the record it was opened on; the policy dialog of the detail page
\* does so even while it fades.
EditsOwnRecord == editor.open \/ (Kind = "policy" /\ Place = "detail") => editor.existing = editor.own

EditorInv == EditorSound /\ EditorShapes /\ DraftsRunnable /\ EditsOwnRecord
=============================================================================
