---------------------------- MODULE ImportExport ----------------------------
(***************************************************************************)
(* Import of a policy through the shared dialog (paste or drop, preview by *)
(* the server, resolution of a name conflict, apply) and the export menu.  *)
(*                                                                         *)
(* The dialog can be dismissed while a request is under way: its state is  *)
(* reset when it closes, and the late answer acts on whatever session is   *)
(* open by then.  A payload is a name with a body; the server compares     *)
(* names when it previews and again when it applies.                       *)
(***************************************************************************)
EXTENDS Integers, FiniteSets

CONSTANTS
  Names,        \* policy names
  Bodies,       \* what a policy says apart from its name
  MaxSessions, MaxCalls, MaxRequests, MaxRemote   \* bounds

\* What the instance must satisfy.
ImportExportAssumption ==
  /\ IsFiniteSet(Names) /\ IsFiniteSet(Bodies) /\ {MaxSessions, MaxCalls, MaxRequests, MaxRemote} \subseteq Nat

VARIABLES
  db,        \* name -> Absent or [body, enabled, by]
  dlg,       \* [open, session, text, preview, payload, resolution, newName, busy, error]
  reading,   \* files that are being read
  calls,       \* requests: [n, op, payload, resolution, newName, shown, ans]
  log,       \* applied imports: [payload, resolution, newName, shown, did]
  menu,      \* export menu: name of the record, or NoName
  files,     \* downloads: [named, of]
  sent, remote

importVars == <<db, dlg, reading, calls, log, menu, files, sent, remote>>

NoName == "-"
Absent == [gone |-> TRUE]
NoText == [name |-> NoName]
Garbage == [name |-> "?"]        \* text that is not JSON
Payloads == [name : Names, body : Bodies]
NoPreview == [status |-> "none"]

Fresh(n) == [open |-> FALSE, session |-> n, text |-> NoText, preview |-> NoPreview, payload |-> NoText,
             resolution |-> "overwrite", newName |-> NoName, busy |-> FALSE, error |-> FALSE]

ImportInit ==
  /\ db \in [Names -> {Absent} \cup [body : Bodies, enabled : {TRUE}, by : {"user"}]]
  /\ dlg = Fresh(0) /\ reading = {} /\ calls = {} /\ log = {} /\ menu = NoName /\ files = {} /\ sent = 0 /\ remote = 0

----------------------------------------------------------------------------
(* The dialog. *)

Open ==
  /\ ~dlg.open /\ dlg.session < MaxSessions
  /\ dlg' = [dlg EXCEPT !.open = TRUE, !.session = @ + 1]
  /\ UNCHANGED <<db, reading, calls, log, menu, files, sent, remote>>

\* Cancel is disabled while busy, the backdrop and Escape are not.
Dismiss ==
  /\ dlg.open
  /\ dlg' = Fresh(dlg.session)
  /\ UNCHANGED <<db, reading, calls, log, menu, files, sent, remote>>

Paste(t) ==
  /\ dlg.open /\ dlg.preview = NoPreview /\ dlg.text # t
  /\ dlg' = [dlg EXCEPT !.text = t]
  /\ UNCHANGED <<db, reading, calls, log, menu, files, sent, remote>>

\* A dropped file replaces the text when it has been read.
DropFile(t) ==
  /\ dlg.open /\ dlg.preview = NoPreview /\ reading = {}
  /\ reading' = {t}
  /\ UNCHANGED <<db, dlg, calls, log, menu, files, sent, remote>>

FileRead(t) ==
  /\ reading' = reading \ {t}
  /\ dlg' = [dlg EXCEPT !.text = t]
  /\ UNCHANGED <<db, calls, log, menu, files, sent, remote>>

Request(op, payload) ==
  /\ sent < MaxRequests /\ Cardinality(calls) < MaxCalls /\ sent' = sent + 1
  /\ calls' = calls \cup {[n |-> sent', op |-> op, payload |-> payload, resolution |-> dlg.resolution,
                       newName |-> dlg.newName, shown |-> dlg.preview, ans |-> "none"]}

\* parsePastedPayload and runPreview.
RunPreview ==
  /\ dlg.open /\ ~dlg.busy /\ dlg.preview = NoPreview /\ dlg.text # NoText
  /\ IF dlg.text = Garbage THEN dlg' = [dlg EXCEPT !.error = TRUE] /\ UNCHANGED <<calls, sent>>
     ELSE Request("preview", dlg.text) /\ dlg' = [dlg EXCEPT !.busy = TRUE, !.error = FALSE]
  /\ UNCHANGED <<db, reading, log, menu, files, remote>>

SetResolution(r, n) ==
  /\ dlg.open /\ dlg.preview.status = "conflict" /\ <<r, n>> # <<dlg.resolution, dlg.newName>>
  /\ dlg' = [dlg EXCEPT !.resolution = r, !.newName = n]
  /\ UNCHANGED <<db, reading, calls, log, menu, files, sent, remote>>

Back ==
  /\ dlg.open /\ ~dlg.busy /\ dlg.preview # NoPreview
  /\ dlg' = [dlg EXCEPT !.preview = NoPreview, !.payload = NoText]
  /\ UNCHANGED <<db, reading, calls, log, menu, files, sent, remote>>

CanApply == /\ dlg.open /\ ~dlg.busy /\ dlg.preview # NoPreview
            /\ ~(dlg.resolution = "rename" /\ dlg.newName = NoName)

\* Mutant of RunApply: what is pasted now is applied.
RunApplyText ==
  /\ CanApply /\ dlg.text \in Payloads
  /\ Request("apply", dlg.text) /\ dlg' = [dlg EXCEPT !.busy = TRUE, !.error = FALSE]
  /\ UNCHANGED <<db, reading, log, menu, files, remote>>

\* The payload that was previewed is applied, whatever the text is by now.
RunApply ==
  /\ CanApply
  /\ Request("apply", dlg.payload) /\ dlg' = [dlg EXCEPT !.busy = TRUE, !.error = FALSE]
  /\ UNCHANGED <<db, reading, log, menu, files, remote>>

----------------------------------------------------------------------------
(* The server. *)

ServePreview(q) ==
  /\ q.op = "preview" /\ q.ans = "none"
  /\ \E ans \in {IF db[q.payload.name] = Absent THEN "create" ELSE "conflict", "err"} :
       calls' = (calls \ {q}) \cup {[q EXCEPT !.ans = ans]}
  /\ UNCHANGED <<db, dlg, reading, log, menu, files, sent, remote>>

\* preparePolicyForImport and policyBodyToUpdates: disabled, in plan mode.
Imported(q) == [body |-> q.payload.body, enabled |-> FALSE, by |-> "import"]

\* The name decides again: no policy of that name, overwrite, or rename to a free name.
Outcome(q) ==
  IF db[q.payload.name] = Absent THEN [did |-> "create", name |-> q.payload.name]
  ELSE IF q.resolution = "overwrite" THEN [did |-> "overwrite", name |-> q.payload.name]
  ELSE IF db[q.newName] = Absent THEN [did |-> "rename", name |-> q.newName]
  ELSE [did |-> "refuse", name |-> NoName]

ServeApply(q) ==
  /\ q.op = "apply" /\ q.ans = "none"
  /\ LET o == Outcome(q) IN
     IF o.did = "refuse" THEN calls' = (calls \ {q}) \cup {[q EXCEPT !.ans = "err"]} /\ UNCHANGED <<db, log>>
     ELSE /\ db' = [db EXCEPT ![o.name] = Imported(q)]
          /\ log' = log \cup {[payload |-> q.payload, resolution |-> q.resolution, newName |-> q.newName,
                               shown |-> q.shown, did |-> o.did]}
          /\ \E ans \in {"done", "err"} : calls' = (calls \ {q}) \cup {[q EXCEPT !.ans = ans]}
  /\ UNCHANGED <<dlg, reading, menu, files, sent, remote>>

\* The preview and the payload it is of are set together; the answer fills the dialog
\* even if it was dismissed in between.
AnswerPreview(q) ==
  /\ q.op = "preview" /\ q.ans # "none" /\ calls' = calls \ {q}
  /\ dlg' = IF q.ans = "err" THEN [dlg EXCEPT !.busy = FALSE, !.error = TRUE]
            ELSE [dlg EXCEPT !.busy = FALSE, !.preview = [status |-> q.ans, of |-> q.payload], !.payload = q.payload,
                             !.resolution = "overwrite", !.newName = NoName]
  /\ UNCHANGED <<db, reading, log, menu, files, sent, remote>>

\* Success closes a dialog that is open, an error is shown in it.
AnswerApply(q) ==
  /\ q.op = "apply" /\ q.ans # "none" /\ calls' = calls \ {q}
  /\ dlg' = IF q.ans = "done" /\ dlg.open THEN Fresh(dlg.session)
            ELSE [dlg EXCEPT !.busy = FALSE, !.error = (q.ans # "done") \/ @]
  /\ UNCHANGED <<db, reading, log, menu, files, sent, remote>>

\* Another operator creates, enables or deletes a policy.
Remote(n) ==
  /\ remote < MaxRemote /\ remote' = remote + 1
  /\ \E r \in {Absent} \cup [body : Bodies, enabled : {TRUE}, by : {"user"}] : r # db[n] /\ db' = [db EXCEPT ![n] = r]
  /\ UNCHANGED <<dlg, reading, calls, log, menu, files, sent>>

----------------------------------------------------------------------------
(* The export menu. *)

OpenExportMenu(n) ==
  /\ db[n] # Absent /\ ~dlg.open /\ menu # n /\ menu' = n
  /\ UNCHANGED <<db, dlg, reading, calls, log, files, sent, remote>>

CloseMenu ==
  /\ menu # NoName /\ menu' = NoName
  /\ UNCHANGED <<db, dlg, reading, calls, log, files, sent, remote>>

Exporting == \E q \in calls : q.op = "export"

RunDownload ==
  /\ menu # NoName /\ ~Exporting
  /\ Request("export", [name |-> menu]) /\ UNCHANGED <<db, dlg, reading, log, menu, files, remote>>

\* The payload and the name of the file are those of the click; the menu closes.
Downloaded(q) ==
  /\ q.op = "export" /\ calls' = calls \ {q} /\ menu' = NoName
  /\ \/ db[q.payload.name] = Absent /\ UNCHANGED files
     \/ db[q.payload.name] # Absent /\ files' = files \cup {[named |-> q.payload.name, of |-> q.payload.name]}
  /\ UNCHANGED <<db, dlg, reading, log, sent, remote>>

Import ==
  \/ Open \/ Dismiss \/ RunPreview \/ Back \/ RunApply
  \/ \E t \in Payloads \cup {Garbage} : Paste(t) \/ DropFile(t)
  \/ \E t \in reading : FileRead(t)
  \/ \E r \in {"overwrite", "rename"}, n \in Names \cup {NoName} : SetResolution(r, n)
  \/ \E q \in calls : ServePreview(q) \/ ServeApply(q) \/ AnswerPreview(q) \/ AnswerApply(q)

Export == CloseMenu \/ RunDownload \/ (\E n \in Names : OpenExportMenu(n)) \/ \E q \in calls : Downloaded(q)

ImportNext == Import \/ Export \/ \E n \in Names : Remote(n)

ImportSpec == ImportInit /\ [][ImportNext]_importVars

----------------------------------------------------------------------------
(* Properties. *)

ImportTypeOK ==
  /\ db \in [Names -> {Absent} \cup [body : Bodies, enabled : BOOLEAN, by : {"user", "import"}]]
  /\ dlg.text \in Payloads \cup {NoText, Garbage} /\ dlg.payload \in Payloads \cup {NoText}
  /\ \A q \in calls : q.op = "export" \/ q.payload \in Payloads
  /\ menu \in Names \cup {NoName}

\* What an import writes is what the dialog was showing when Apply was clicked,
\* although text can be pasted, files read and late previews arrive meanwhile.
AppliedWasShown == \A a \in log : a.shown # NoPreview /\ a.shown.of = a.payload

\* A policy that came by import does not run before somebody enables it, also when it
\* replaced one that was enabled.
ImportedDisabled == \A n \in Names : db[n] # Absent /\ db[n].by = "import" => ~db[n].enabled

\* A file is named for the record it holds.
FileNamesRecord == \A f \in files : f.named = f.of

\* What is written was shown, does not run by itself, and what is downloaded is named for itself.
ImportSound == ImportTypeOK /\ AppliedWasShown /\ ImportedDisabled /\ FileNamesRecord

----------------------------------------------------------------------------
(* Why ImportSound holds.                                                  *)

Previews == {NoPreview} \cup [status : {"create", "conflict"}, of : Payloads]
Calls == [n : Nat, op : {"preview", "apply", "export"}, payload : Payloads \cup [name : Names],
          resolution : {"overwrite", "rename"}, newName : Names \cup {NoName}, shown : Previews,
          ans : {"none", "create", "conflict", "done", "err"}]
ImportShapes ==
  /\ dlg \in [open : BOOLEAN, session : Nat, text : Payloads \cup {NoText, Garbage},
              preview : Previews, payload : Payloads \cup {NoText},
              resolution : {"overwrite", "rename"}, newName : Names \cup {NoName},
              busy : BOOLEAN, error : BOOLEAN]
  /\ reading \subseteq Payloads \cup {Garbage} /\ calls \subseteq Calls /\ sent \in Nat

\* The dialog shows the preview of the payload it would apply, and an apply that was sent carries
\* the payload whose preview was on screen, with a name when it renames.
PreviewedCalls ==
  /\ dlg.preview # NoPreview => dlg.preview.of = dlg.payload
  /\ \A q \in calls :
       /\ q.op = "preview" => q.ans # "done"
       /\ q.op = "apply" => /\ q.shown # NoPreview /\ q.shown.of = q.payload
                            /\ q.resolution = "rename" => q.newName # NoName

ImportInv == ImportSound /\ ImportShapes /\ PreviewedCalls
=============================================================================
