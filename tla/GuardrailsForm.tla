--------------------------- MODULE GuardrailsForm ---------------------------
(***************************************************************************)
(* The guardrails page: a draft that is loaded once, chips and numbers     *)
(* that are normalised on blur, a save whose answer may find a different   *)
(* draft, an import that replaces the draft, and the application-wide      *)
(* guard that asks before unsaved changes are left behind.                 *)
(*                                                                         *)
(* The dirty flag belongs to the provider around all pages, not to one     *)
(* instance of the form: the answer to a save of an earlier instance still *)
(* clears it.                                                              *)
(***************************************************************************)
EXTENDS Integers, FiniteSets

CONSTANTS
  Namespaces, Typed,                 \* chips; raw values of the number field
  BusyEdits, BusyLeave,              \* the user edits / leaves while a save is under way
  MaxEdits, MaxSaves, MaxVisits, MaxOther

NoNs == "-"    \* no namespace

\* What the instance must satisfy; a fresh installation protects at least one namespace.
GuardrailsFormAssumption ==
  /\ IsFiniteSet(Namespaces) /\ Namespaces # {} /\ NoNs \notin Namespaces /\ Typed \subseteq Int
  /\ {BusyEdits, BusyLeave} \subseteq BOOLEAN
  /\ {MaxEdits, MaxSaves, MaxVisits, MaxOther} \subseteq Nat

VARIABLES
  stored,      \* the backend's guardrails
  guardrails,  \* the query's data, or NoGuardrails
  on,          \* the form is mounted
  visit,       \* instances of the form so far
  form,        \* FormState, with the text of the chip input
  saved,       \* savedSnapshot of this instance
  dirty,       \* the provider's flag
  nsToRemove, pendingHref,
  requests,    \* saves and imports under way: [n, visit, op, body, unasked, ans]
  basis,       \* history: what this instance last loaded or had acknowledged
  held,        \* history: namespaces the draft has shown as protected since it was loaded
  confirmed,   \* history: those of them whose removal was confirmed
  hasty,       \* history: the user edited, sent or left while a request of the form was under way
  stripped,    \* history: a save took protection it had shown, and nobody was asked
  lost,        \* history: the page was left with unsaved work and nobody was asked
  edits, saves, other

draft  == <<form, saved, dirty, basis, held, confirmed>>
counts == <<edits, saves, other>>
formVars == <<stored, guardrails, on, visit, draft, nsToRemove, pendingHref, requests, hasty,
              stripped, lost, counts>>

Empty == -1    \* the number field is empty
Gone == 0      \* visit of a request whose page was unloaded
NoGuardrails == [ns |-> {}]
Intervals == {"30s", "5s"}

\* validateEvalInterval: between 10s and 15m.
ValidInterval(i) == i = "30s"

Guardrails == [ns : (SUBSET Namespaces) \ {{}}, prio : SUBSET Namespaces, conc : 1 .. 50,
               interval : {"30s"}]

\* Number(x) || 10
Number(x) == IF x \in {Empty, 0} THEN 10 ELSE x
Snapshot(f) == [ns |-> f.ns, prio |-> f.prio, conc |-> Number(f.conc), interval |-> f.interval]

\* Number('') is 0, so an emptied field becomes the minimum.
Clamp(x) == LET n == IF x = Empty THEN 0 ELSE x IN IF n < 1 THEN 1 ELSE IF n > 50 THEN 50 ELSE n

Load(g) == [ns |-> g.ns, prio |-> g.prio, conc |-> g.conc, interval |-> g.interval, chip |-> NoNs]
InitialForm == [ns |-> {}, prio |-> {}, conc |-> 10, interval |-> "30s", chip |-> NoNs]

FormInit ==
  /\ stored = [ns |-> Namespaces, prio |-> {}, conc |-> 10, interval |-> "30s"]
  /\ guardrails = NoGuardrails /\ on = FALSE /\ visit = 0 /\ requests = {}
  /\ form = InitialForm /\ saved = Snapshot(InitialForm) /\ basis = Snapshot(InitialForm)
  /\ dirty = FALSE /\ nsToRemove = NoNs /\ pendingHref = FALSE
  /\ held = {} /\ confirmed = {} /\ hasty = FALSE /\ stripped = FALSE /\ lost = FALSE
  /\ edits = 0 /\ saves = 0 /\ other = 0

----------------------------------------------------------------------------
(* Editing.  A section must be expanded, no dialog may be open. *)

Loaded == on /\ basis # Snapshot(InitialForm)
NoRequest == requests = {}
Quiet == \A r \in requests : r.visit # visit     \* nothing of this instance is under way
CanEdit == Loaded /\ nsToRemove = NoNs /\ ~pendingHref /\ edits < MaxEdits /\ (BusyEdits \/ Quiet)
\* No chip text is waiting and the number field has been left.
Rested == form.chip = NoNs /\ form.conc \in 1 .. 50
\* What is done while a request of the form is under way.
Hastily == hasty' = (hasty \/ ~Quiet)

\* dispatch and the effect that compares the draft with the saved snapshot
Draft(f) ==
  /\ form' = f /\ dirty' = (Snapshot(f) # saved) /\ held' = held \cup f.ns /\ Hastily
  /\ UNCHANGED <<stored, guardrails, on, visit, saved, pendingHref, requests, basis, stripped, lost,
                 saves, other>>

TypeNumber(x) ==
  /\ CanEdit /\ form.conc # x /\ edits' = edits + 1 /\ Draft([form EXCEPT !.conc = x])
  /\ UNCHANGED <<nsToRemove, confirmed>>

TypeInterval(i) ==
  /\ CanEdit /\ form.interval # i /\ edits' = edits + 1 /\ Draft([form EXCEPT !.interval = i])
  /\ UNCHANGED <<nsToRemove, confirmed>>

TypeChip(n) ==
  /\ CanEdit /\ form.chip = NoNs /\ edits' = edits + 1 /\ Draft([form EXCEPT !.chip = n])
  /\ UNCHANGED <<nsToRemove, confirmed>>

\* Leaving a field clamps the number and turns the text into a chip (of one of the two lists).
Blur(list) ==
  /\ Loaded /\ ~Rested
  /\ LET added == [form EXCEPT ![list] = @ \cup ({form.chip} \ {NoNs}), !.chip = NoNs,
                               !.conc = Clamp(@)]
     IN Draft(added) /\ confirmed' = confirmed \ added.ns
  /\ UNCHANGED <<nsToRemove, edits>>

\* Backspace, or the chip's icon, in a list without a deletion hook.
Backspace(n) ==
  /\ CanEdit /\ form.chip = NoNs /\ n \in form.prio /\ edits' = edits + 1
  /\ Draft([form EXCEPT !.prio = @ \ {n}])
  /\ UNCHANGED <<nsToRemove, confirmed>>

AskRemove(n) ==
  /\ CanEdit /\ n \in form.ns /\ nsToRemove' = n
  /\ UNCHANGED <<stored, guardrails, on, visit, draft, pendingHref, requests, hasty, stripped, lost,
                 counts>>

Remove ==
  /\ nsToRemove # NoNs /\ nsToRemove' = NoNs /\ edits' = edits + 1
  /\ confirmed' = confirmed \cup {nsToRemove}
  /\ Draft([form EXCEPT !.ns = @ \ {nsToRemove}])

CancelRemove ==
  /\ nsToRemove # NoNs /\ nsToRemove' = NoNs
  /\ UNCHANGED <<stored, guardrails, on, visit, draft, pendingHref, requests, hasty, stripped, lost,
                 counts>>

----------------------------------------------------------------------------
(* Loading, saving and importing. *)

LoadGuardrails(g) ==
  /\ form' = Load(g) /\ saved' = Snapshot(Load(g)) /\ dirty' = FALSE /\ basis' = Snapshot(Load(g))
  /\ held' = g.ns /\ confirmed' = {}

\* The form before anything is loaded.
Unloaded ==
  /\ form' = InitialForm /\ saved' = Snapshot(InitialForm) /\ dirty' = FALSE
  /\ basis' = Snapshot(InitialForm) /\ held' = {} /\ confirmed' = {}

\* The form is filled once, from whatever the query holds: a later refetch only changes the cache.
Mount ==
  /\ ~on /\ visit < MaxVisits /\ (BusyLeave \/ NoRequest)
  /\ on' = TRUE /\ visit' = visit + 1
  /\ IF guardrails = NoGuardrails THEN Unloaded ELSE LoadGuardrails(guardrails)
  /\ UNCHANGED <<stored, guardrails, nsToRemove, pendingHref, requests, hasty, stripped, lost, counts>>

FetchGuardrails ==
  /\ on /\ guardrails # stored /\ guardrails' = stored
  /\ IF Loaded THEN UNCHANGED draft ELSE LoadGuardrails(stored)
  /\ UNCHANGED <<stored, on, visit, nsToRemove, pendingHref, requests, hasty, stripped, lost, counts>>

IsPending(op) == \E r \in requests : r.op = op /\ r.visit = visit

\* "unasked": namespaces the page showed as protected and the body gives up, unconfirmed.
Send(op, body, unasked) ==
  /\ saves < MaxSaves /\ saves' = saves + 1 /\ Hastily
  /\ requests' = requests \cup {[n |-> saves', visit |-> visit, op |-> op, body |-> body,
                                 unasked |-> unasked, ans |-> "none"]}
  /\ UNCHANGED <<stored, guardrails, on, visit, draft, nsToRemove, pendingHref, stripped, lost, edits,
                 other>>
CanSend(op) == /\ Loaded /\ nsToRemove = NoNs /\ ~pendingHref /\ Rested /\ ~IsPending(op)
               /\ BusyEdits \/ Quiet

Save ==
  /\ CanSend("save") /\ ValidInterval(form.interval)
  /\ Send("save", Snapshot(form), held \ (form.ns \cup confirmed))

\* An import replaces the whole, what it gives up is shown by its preview.
ImportGuardrails(g) == CanSend("import") /\ Send("import", g, {})

\* The server stores a body that passes validateGuardrailFields.  The answer may be lost.
UpdateGuardrails(r) ==
  /\ r.ans = "none"
  /\ \/ /\ r.body \in Guardrails /\ stored' = r.body
        /\ \E a \in {"ok", "error"} : requests' = (requests \ {r}) \cup {[r EXCEPT !.ans = a]}
        /\ stripped' = (stripped \/ stored.ns \cap r.unasked # {})
     \/ /\ requests' = (requests \ {r}) \cup {[r EXCEPT !.ans = "error"]}
        /\ UNCHANGED <<stored, stripped>>
  /\ UNCHANGED <<guardrails, on, visit, draft, nsToRemove, pendingHref, hasty, lost, counts>>

\* onSuccess takes the draft as it is now for what was saved, and clears the provider's flag
\* even when the form that sent the save is gone.
AnswerSave(r) ==
  /\ r.ans # "none" /\ requests' = requests \ {r}
  /\ IF r.ans = "error" \/ r.visit = Gone THEN UNCHANGED <<draft, guardrails>>
     ELSE IF r.op = "import" THEN
            /\ guardrails' = r.body
            /\ IF r.visit = visit /\ on THEN LoadGuardrails(r.body)
               ELSE dirty' = FALSE /\ UNCHANGED <<form, saved, basis, held, confirmed>>
     ELSE /\ dirty' = FALSE
          /\ IF r.visit = visit /\ on THEN saved' = Snapshot(form) /\ basis' = r.body
             ELSE UNCHANGED <<saved, basis>>
          /\ UNCHANGED <<form, guardrails, held, confirmed>>
  /\ UNCHANGED <<stored, on, visit, nsToRemove, pendingHref, hasty, stripped, lost, counts>>

----------------------------------------------------------------------------
(* Leaving. *)

Unsaved == Loaded /\ Snapshot(form) # basis
\* The form unmounts; its own cleanup clears the flag.
Leave(asked) ==
  /\ on' = FALSE /\ pendingHref' = FALSE /\ lost' = (lost \/ (~asked /\ Unsaved)) /\ Unloaded
CanLeave == on /\ nsToRemove = NoNs /\ ~pendingHref /\ (BusyLeave \/ NoRequest)

\* Mutant of ClickLink: the link is followed at once.
ClickLinkFollow ==
  /\ CanLeave /\ Rested /\ Leave(FALSE) /\ Hastily
  /\ UNCHANGED <<stored, guardrails, visit, nsToRemove, requests, stripped, counts>>
ClickLink ==
  /\ CanLeave /\ Rested
  /\ IF dirty THEN pendingHref' = TRUE /\ UNCHANGED <<on, draft, hasty, lost>>
     ELSE Leave(FALSE) /\ Hastily
  /\ UNCHANGED <<stored, guardrails, visit, nsToRemove, requests, stripped, counts>>

LeaveWithoutSaving ==
  /\ pendingHref /\ Leave(TRUE) /\ Hastily
  /\ UNCHANGED <<stored, guardrails, visit, nsToRemove, requests, stripped, counts>>

KeepEditing ==
  /\ pendingHref /\ pendingHref' = FALSE
  /\ UNCHANGED <<stored, guardrails, on, visit, draft, nsToRemove, requests, hasty, stripped, lost,
                 counts>>

\* Tab closed or reloaded: the browser asks when the flag is set; answers die with the page.
Unload ==
  /\ on /\ (BusyLeave \/ NoRequest) /\ Leave(dirty) /\ nsToRemove' = NoNs
  /\ guardrails' = NoGuardrails
  /\ requests' = {[r EXCEPT !.visit = Gone] : r \in requests}
  /\ UNCHANGED <<stored, visit, hasty, stripped, counts>>

\* Another administrator saves.
OtherSave(g) ==
  /\ other < MaxOther /\ other' = other + 1 /\ stored # g /\ stored' = g
  /\ UNCHANGED <<guardrails, on, visit, draft, nsToRemove, pendingHref, requests, hasty, stripped,
                 lost, edits, saves>>

Imports == {[ns |-> {n}, prio |-> {}, conc |-> 50, interval |-> "30s"] : n \in Namespaces}

FormNext ==
  \/ \E x \in Typed : TypeNumber(x)
  \/ \E i \in Intervals : TypeInterval(i)
  \/ \E n \in Namespaces : TypeChip(n) \/ Backspace(n) \/ AskRemove(n)
  \/ \E list \in {"ns", "prio"} : Blur(list)
  \/ Remove \/ CancelRemove \/ Mount \/ FetchGuardrails \/ Save
  \/ \E g \in Imports : ImportGuardrails(g) \/ OtherSave(g)
  \/ \E r \in requests : UpdateGuardrails(r) \/ AnswerSave(r)
  \/ ClickLink \/ LeaveWithoutSaving \/ KeepEditing \/ Unload

FormSpec == FormInit /\ [][FormNext]_formVars

----------------------------------------------------------------------------
(* Properties. *)

FormTypeOK ==
  /\ stored \in Guardrails /\ guardrails \in Guardrails \cup {NoGuardrails} /\ visit \in Nat
  /\ form \in [ns : SUBSET Namespaces, prio : SUBSET Namespaces, conc : Int, interval : Intervals,
               chip : Namespaces \cup {NoNs}]
  /\ nsToRemove \in Namespaces \cup {NoNs}
  /\ {on, dirty, pendingHref, hasty, lost, stripped} \subseteq BOOLEAN
  /\ \A r \in requests : r.visit \in Nat /\ r.body.conc \in 1 .. 50

\* A form that is not marked dirty shows what this page last loaded or had acknowledged.
CleanIsSaved == dirty \/ ~Unsaved

\* Links and reloads never drop a changed draft unless the user was asked first.
NoSilentLoss == ~lost

\* A save takes protection that the page has shown only from namespaces whose removal was
\* confirmed in the dialog, in one step or in many, also when edits and requests overlap.
ProtectionLossConfirmed == ~stripped

\* The form is honest about unsaved work and about protection.  Left out of the first two, by what
\* the user did: edits during a save are taken for saved by its answer, and a late answer clears the
\* flag of the next visit.  Left out of the third: a save also overwrites protection that another
\* administrator, or an import whose answer was lost, has put there and this page never showed.
FormHonest ==
  /\ FormTypeOK
  /\ hasty \/ (CleanIsSaved /\ NoSilentLoss)
  /\ ProtectionLossConfirmed

----------------------------------------------------------------------------
(* Why FormHonest holds.                                                   *)

Snapshots == [ns : SUBSET Namespaces, prio : SUBSET Namespaces, conc : Int, interval : Intervals]
Sendable == [ns : SUBSET Namespaces, prio : SUBSET Namespaces, conc : 1 .. 50, interval : Intervals]
Requests == [n : Nat, visit : Nat, op : {"save", "import"}, body : Sendable,
             unasked : SUBSET Namespaces, ans : {"none", "ok", "error"}]
FormShapes ==
  /\ requests \in SUBSET Requests /\ {saved, basis} \subseteq Snapshots
  /\ {held, confirmed} \subseteq SUBSET Namespaces /\ saves \in Nat
  /\ on => visit > 0

\* What the draft has shown as protected it still protects, or its removal was confirmed; so no
\* request that is sent gives up anything unasked.
NothingUnasked == /\ held \subseteq form.ns \cup confirmed /\ ~stripped
                  /\ \A r \in requests : r.unasked = {} /\ (r.ans = "ok" => r.body \in Guardrails)

\* A request of a page that is still there; one that was unloaded no longer gets its answer.
Own(r) == r.visit # Gone

\* As long as the user waits for the answers, the flag says exactly whether the draft differs from
\* what was last loaded or acknowledged, and a save under way is of the draft on screen.
FlagExact ==
  /\ ~lost /\ saved = basis /\ (dirty <=> Snapshot(form) # saved)
  /\ \A r \in requests : Own(r) => Loaded /\ r.visit = visit
                                   /\ (r.op = "save" => r.body = Snapshot(form))
  /\ \A r, t \in requests : Own(r) /\ Own(t) => r = t

FormInv == FormTypeOK /\ FormShapes /\ NothingUnasked /\ (hasty \/ FlagExact)
=============================================================================
