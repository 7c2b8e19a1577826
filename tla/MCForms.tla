------------------------------ MODULE MCForms ------------------------------
(***************************************************************************)
(* The console's pages that write, for TLC: sessions and the users page    *)
(* (Session), the editors of policies and exceptions (RecordEditor),       *)
(* import and export (ImportExport), the guardrails page (GuardrailsForm)  *)
(* and the destructive operations (DangerZone).                            *)
(*                                                                         *)
(* The components do not share state; `part' chooses the configuration     *)
(* that runs, so that the state space is the union of theirs, not the      *)
(* product.  Every component is extended, so that its own properties are   *)
(* checked in every part; forms.cfg gives the constants of one of its      *)
(* configurations, the others are instances on the same variables.         *)
(***************************************************************************)
EXTENDS DangerZone, GuardrailsForm, RecordEditor, ImportExport, Session

VARIABLE part

suite == <<part, sessionVars, editorVars, importVars, formVars, vars>>

----------------------------------------------------------------------------
(* Sessions: an administrator and a viewer.  Extended: the users page and  *)
(* one write of this tab or of another administrator.                      *)

Roles == [a \in {"ada", "bo"} |-> IF a = "ada" THEN "admin" ELSE "viewer"]

\* Two logins, refreshes of both sessions, an expired session or a lost message.
Identity == INSTANCE Session WITH
  Pages <- {"overview"}, MaxLogins <- 2, MaxWrites <- 0, MaxNetFaults <- 1

\* A backend without authentication, every page.
NoAuth == INSTANCE Session WITH
  Pages <- {"overview", "users", "settings"}, AuthOff <- TRUE,
  MaxLogins <- 0, MaxPolls <- 0, MaxWrites <- 0, MaxNetFaults <- 1

----------------------------------------------------------------------------
(* Editors of two records, opened twice, while another operator changes    *)
(* one.  Extended: the dialogs of the list pages, one edit of the draft.   *)

\* The policy dialog of the detail page, clicks while it fades, another time zone.
Detail == INSTANCE RecordEditor WITH FadingClicks <- TRUE, TzChanges <- TRUE

\* The exception dialog of the detail page, two edits.
Exception == INSTANCE RecordEditor WITH MaxTyped <- 2

----------------------------------------------------------------------------
(* Import and export of two policies with one of two bodies.  Extended:    *)
(* downloads while another operator changes records.                       *)

\* Two texts for one name, two openings of the dialog, requests that overlap.
Previewed == INSTANCE ImportExport WITH
  Names <- {"a"}, MaxSessions <- 2, MaxRequests <- 3, MaxRemote <- 0

\* Two names, conflicts and renames, another operator.
Safe == INSTANCE ImportExport WITH
  Bodies <- {1}, MaxSessions <- 1, MaxCalls <- 1, MaxRequests <- 3, MaxRemote <- 1

----------------------------------------------------------------------------
(* The guardrails page: two namespaces, an emptied, a zero and a too large *)
(* number.  Extended: one save at a time, another administrator.           *)

RawNumbers == {Empty, 0, 99}

\* Edits, saves and navigation overlap.
Hasty == INSTANCE GuardrailsForm WITH
  Typed <- {99}, BusyEdits <- TRUE, BusyLeave <- TRUE, MaxEdits <- 1, MaxOther <- 0

----------------------------------------------------------------------------
ASSUME SessionAssumption /\ Identity!SessionAssumption /\ NoAuth!SessionAssumption
ASSUME RecordEditorAssumption /\ Detail!RecordEditorAssumption /\ Exception!RecordEditorAssumption
ASSUME ImportExportAssumption /\ Previewed!ImportExportAssumption /\ Safe!ImportExportAssumption
ASSUME GuardrailsFormAssumption /\ Hasty!GuardrailsFormAssumption
ASSUME DangerZoneAssumption

\* The initial states of the parts; what does not run has one.
SuiteInit ==
  /\ part \in {"users", "identity", "dev", "list", "detail", "exception", "previewed", "safe",
               "downloads", "patient", "hasty", "danger"}
  /\ IF part \in {"users", "identity"} THEN Identity!SessionInit ELSE NoAuth!SessionInit
  /\ EditorInit /\ CASE part = "list" -> which.place = "list"
                     [] part = "detail" -> which = [kind |-> "policy", place |-> "detail"]
                     [] part = "exception" -> which = [kind |-> "exception", place |-> "detail"]
                     [] OTHER -> which = [kind |-> "policy", place |-> "list"] /\ history = {}
  /\ ImportInit /\ CASE part = "previewed" -> db["b"] = Absent
                     [] part \in {"safe", "downloads"} ->    \* the names are symmetric
                          /\ \A n \in Names : db[n] # Absent => db[n].body = 1
                          /\ db["a"] = Absent => db["b"] = Absent
                     [] OTHER -> \A n \in Names : db[n] = Absent
  /\ FormInit /\ Init

SuiteNext ==
  \/ /\ \/ part = "users" /\ SessionNext
        \/ part = "identity" /\ Identity!SessionNext
        \/ part = "dev" /\ NoAuth!SessionNext
     /\ UNCHANGED <<part, editorVars, importVars, formVars, vars>>
  \/ /\ \/ part = "list" /\ EditorNext
        \/ part = "detail" /\ Detail!EditorNext
        \/ part = "exception" /\ Exception!EditorNext
     /\ UNCHANGED <<part, sessionVars, importVars, formVars, vars>>
  \/ /\ \/ part = "previewed" /\ Previewed!Import
        \/ part = "safe" /\ (Safe!Import \/ \E n \in Names : Safe!Remote(n))
        \/ part = "downloads" /\ (Export \/ \E n \in Names : Remote(n))
     /\ UNCHANGED <<part, sessionVars, editorVars, formVars, vars>>
  \/ /\ \/ part = "patient" /\ FormNext
        \/ part = "hasty" /\ Hasty!FormNext
     /\ UNCHANGED <<part, sessionVars, editorVars, importVars, vars>>
  \/ part = "danger" /\ Next /\ UNCHANGED <<part, sessionVars, editorVars, importVars, formVars>>

SuiteSpec == SuiteInit /\ [][SuiteNext]_suite
=============================================================================
