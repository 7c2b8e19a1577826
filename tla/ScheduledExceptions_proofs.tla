--------------------- MODULE ScheduledExceptions_proofs ---------------------
(***************************************************************************)
(* Machine-checked theorems about ScheduledExceptions, for any number of   *)
(* exceptions and overlapping calls: what is over stays over, nothing      *)
(* completes on refused executions alone, and calls that do not overlap keep        *)
(* opposite exceptions apart.                                              *)
(***************************************************************************)
EXTENDS ScheduledExceptions, TLAPS, FiniteSetTheorems, SequenceTheorems

Calls == [op : {"create", "update"}, id : Ids, data : Inputs]
           \cup [op : {"delete"}, id : Ids, data : Records]

(* An exception that is over keeps its status in this step.                   *)
Final == \A i \in Ids : exc[i].status \in {"completed", "cancelled"} => exc'[i].status = exc[i].status

(* What one step does to open exceptions when no call writes.                 *)
NoneOpens ==
  \A i \in Ids : exc'[i].status \in Open =>
    /\ exc[i].status \in Open /\ exc'[i].type = exc[i].type
    /\ exc'[i].start = exc[i].start /\ exc'[i].end = exc[i].end

(* A record has a status, and Absent is no record.                            *)
LEMMA RecordFacts ==
  /\ Absent \notin Records /\ Absent.status = "absent"
  /\ \A r \in Records : r.status \in Statuses /\ r # Absent
BY DEF Absent, Records, Statuses, Open

(* A stored input is a record.                                                *)
LEMMA StoredFacts ==
  ASSUME NEW d \in Inputs, NEW s \in Statuses
  PROVE  /\ Stored(d, s) \in Records /\ Stored(d, s).status = s /\ Stored(d, s).type = d.type
         /\ Stored(d, s).start = d.start /\ Stored(d, s).end = d.end
BY DEF Inputs, Stored, Records

(* The status of one exception changes.                                       *)
LEMMA StatusFacts ==
  ASSUME exc \in [Ids -> Records \cup {Absent}], NEW i \in Ids, exc[i] \in Records, NEW s \in Statuses,
         exc' = [exc EXCEPT ![i].status = s]
  PROVE  /\ exc' \in [Ids -> Records \cup {Absent}] /\ exc'[i] \in Records /\ exc'[i].status = s
         /\ exc'[i].type = exc[i].type /\ exc'[i].start = exc[i].start /\ exc'[i].end = exc[i].end
         /\ \A j \in Ids : j # i => exc'[j] = exc[j]
<1> DEFINE r == [exc[i] EXCEPT !.status = s]
<1>1. /\ r \in Records /\ r.status = s /\ r.type = exc[i].type /\ r.start = exc[i].start
      /\ r.end = exc[i].end
  BY DEF Records
<1>2. exc' = [exc EXCEPT ![i] = r]
  OBVIOUS
<1> HIDE DEF r
<1> QED
  BY <1>1, <1>2

(* Known data of calls.                                                       *)
LEMMA CallFacts ==
  ASSUME Shapes, NEW c \in calls
  PROVE  /\ c.op \in {"create", "update", "delete"} /\ c.id \in Ids
         /\ c.op # "delete" => c.data \in Inputs
BY DEF Shapes

(* A call that begins leaves room, and is alone when only one may be under way. *)
LEMMA BeginFacts ==
  ASSUME ScheduledExceptionsAssumption, Shapes, NEW c \in Calls, Cardinality(calls) < MaxCalls,
         calls' = calls \cup {c}
  PROVE  /\ calls' \subseteq Calls /\ IsFiniteSet(calls') /\ Cardinality(calls') <= MaxCalls
         /\ MaxCalls <= 1 => calls = {}
<1>1. IsFiniteSet(calls) /\ Cardinality(calls) \in Nat /\ MaxCalls \in Nat
  BY FS_CardinalityType DEF Shapes, ScheduledExceptionsAssumption
<1>2. IsFiniteSet(calls') /\ (Cardinality(calls') = Cardinality(calls) \/
                              Cardinality(calls') = Cardinality(calls) + 1)
  BY <1>1, FS_AddElement
<1>3. MaxCalls <= 1 => Cardinality(calls) = 0
  BY <1>1
<1>4. MaxCalls <= 1 => calls = {}
  BY <1>1, <1>3, FS_EmptySet
<1> QED
  BY <1>1, <1>2, <1>4 DEF Shapes, Calls

(* A call that has written makes room.                                        *)
LEMMA DoneFacts ==
  ASSUME ScheduledExceptionsAssumption, Shapes, NEW c \in calls, calls' = calls \ {c}
  PROVE  /\ IsFiniteSet(calls') /\ Cardinality(calls') <= MaxCalls
         /\ MaxCalls <= 1 => calls' = {}
<1>1. IsFiniteSet(calls) /\ Cardinality(calls) \in Nat /\ MaxCalls \in Nat
      /\ Cardinality(calls) <= MaxCalls
  BY FS_CardinalityType DEF Shapes, ScheduledExceptionsAssumption
<1>2. IsFiniteSet(calls') /\ Cardinality(calls') = Cardinality(calls) - 1
  BY <1>1, FS_RemoveElement
<1>3. Cardinality(calls') \in Nat
  BY <1>2, FS_CardinalityType
<1>4. MaxCalls <= 1 => Cardinality(calls') = 0
  BY <1>1, <1>2, <1>3
<1>5. MaxCalls <= 1 => calls' = {}
  BY <1>2, <1>4, FS_EmptySet
<1> QED
  BY <1>1, <1>2, <1>5

(* What is left when no exception opens and no call begins.                   *)
LEMMA ApartKept ==
  ASSUME OppositesApart /\ ChecksHold, NoneOpens, calls' \subseteq calls,
         \A c \in calls' : c.id \in Ids
  PROVE  OppositesApart' /\ ChecksHold'
BY DEF OppositesApart, ChecksHold, HasOverlapping, NoneOpens

(* The steps of API calls up to the write.                                    *)
LEMMA CallStep ==
  ASSUME ScheduledExceptionsAssumption, ExceptionsInv, NEW c \in Calls,
         Cardinality(calls) < MaxCalls, calls' = calls \cup {c},
         UNCHANGED <<claimed, skipped, exc, now, todo, started, seen>>,
         ops' \in Nat, refused' \in Nat, reverts' \in [Ids -> Nat],
         page' \in [history : BOOLEAN, expanded : Ids \cup {0}, cancel : Ids \cup {0}],
         page'.cancel \in {page.cancel, 0},
         c.op = "create" => exc[c.id] = Absent /\ \A d \in calls : d.id # c.id,
         c.op # "create" => exc[c.id] # Absent,
         c.op # "delete" => ~HasOverlapping(c.data.type, c.data.start, c.data.end, c.id)
  PROVE  ExceptionsInv' /\ Final
<1>1. Shapes /\ CallsKnown /\ ActiveRan /\ CompletedRan
  BY DEF ExceptionsInv
<1>2. /\ calls' \subseteq Calls /\ IsFiniteSet(calls') /\ Cardinality(calls') <= MaxCalls
      /\ MaxCalls <= 1 => calls = {}
  BY <1>1, BeginFacts
<1>3. Shapes'
  BY <1>1, <1>2 DEF Shapes, Calls
<1>4. CallsKnown'
  <2>1. \A d \in calls : d.op = "create" => d.id # c.id
    BY <1>1 DEF CallsKnown
  <2>2. \A d \in calls' : d \in calls \/ d = c
    OBVIOUS
  <2>3. \A d \in calls' : d.op = "create" => exc'[d.id] = Absent /\ \A x \in calls' : x.id = d.id => x = d
    BY <1>1, <2>1, <2>2 DEF CallsKnown
  <2>4. \A d \in calls' : d.op # "create" => exc'[d.id] # Absent
    BY <1>1, <2>2 DEF CallsKnown
  <2> QED
    BY <1>1, <2>3, <2>4 DEF CallsKnown
<1>5. ActiveRan' /\ CompletedRan'
  BY <1>1 DEF ActiveRan, CompletedRan, Handled
<1>6. MaxCalls > 1 \/ (OppositesApart' /\ ChecksHold')
  <2> SUFFICES ASSUME ~(MaxCalls > 1) PROVE OppositesApart' /\ ChecksHold'
    OBVIOUS
  <2>1. MaxCalls <= 1 /\ calls' = {c}
    BY <1>2 DEF ScheduledExceptionsAssumption
  <2>2. OppositesApart'
    BY DEF ExceptionsInv, OppositesApart
  <2>3. ChecksHold'
    BY <2>1 DEF ChecksHold, HasOverlapping
  <2> QED
    BY <2>2, <2>3
<1> QED
  BY <1>3, <1>4, <1>5, <1>6 DEF ExceptionsInv, Final

(* CreateException, UpdateException, DeleteException and a confirmed          *)
(* cancellation pass their checks.                                            *)
LEMMA ApiStep ==
  ASSUME ScheduledExceptionsAssumption, ExceptionsInv, Api \/ ConfirmCancel
  PROVE  ExceptionsInv' /\ Final
<1>1. Shapes /\ CallsKnown /\ ActiveRan /\ CompletedRan
  BY DEF ExceptionsInv
<1>2. ASSUME NEW i \in Ids, Revert(i) \/ RevertRefused \/ UNCHANGED <<reverts, refused>>
      PROVE  reverts' \in [Ids -> Nat] /\ refused' \in Nat
  BY <1>1, <1>2 DEF Revert, RevertRefused, Shapes
<1>3. ASSUME NEW i \in Ids, NEW d \in Inputs, CreateException(i, d)
      PROVE  ExceptionsInv' /\ Final
  <2> DEFINE c == [op |-> "create", id |-> i, data |-> d]
  <2>1. c \in Calls /\ c.op = "create" /\ c.id = i /\ c.data = d
    BY DEF Calls
  <2>2. /\ Cardinality(calls) < MaxCalls /\ calls' = calls \cup {c} /\ ops' = ops + 1
        /\ UNCHANGED <<claimed, skipped, exc, now, todo, started, reverts, seen, page, refused>>
        /\ exc[i] = Absent /\ (\A x \in calls : x.id # i) /\ ~HasOverlapping(d.type, d.start, d.end, i)
    BY <1>3 DEF CreateException, Begin
  <2> HIDE DEF c
  <2>3. /\ ops' \in Nat /\ refused' \in Nat /\ reverts' \in [Ids -> Nat]
        /\ page' \in [history : BOOLEAN, expanded : Ids \cup {0}, cancel : Ids \cup {0}]
    BY <1>1, <2>2 DEF Shapes
  <2> QED
    BY <2>1, <2>2, <2>3, CallStep
<1>4. ASSUME NEW i \in Ids, NEW d \in Inputs, UpdateException(i, d)
      PROVE  ExceptionsInv' /\ Final
  <2> DEFINE c == [op |-> "update", id |-> i, data |-> d]
  <2>1. c \in Calls /\ c.op = "update" /\ c.id = i /\ c.data = d
    BY DEF Calls
  <2>2. /\ Cardinality(calls) < MaxCalls /\ calls' = calls \cup {c} /\ ops' = ops + 1
        /\ UNCHANGED <<claimed, skipped, exc, now, todo, started, reverts, seen, page, refused>>
        /\ exc[i] # Absent /\ ~HasOverlapping(d.type, d.start, d.end, i)
    BY <1>4, RecordFacts DEF UpdateException, Begin
  <2> HIDE DEF c
  <2>3. /\ ops' \in Nat /\ refused' \in Nat /\ reverts' \in [Ids -> Nat]
        /\ page' \in [history : BOOLEAN, expanded : Ids \cup {0}, cancel : Ids \cup {0}]
    BY <1>1, <2>2 DEF Shapes
  <2> QED
    BY <2>1, <2>2, <2>3, CallStep
<1>5. ASSUME NEW i \in Ids, exc[i] # Absent, Cardinality(calls) < MaxCalls, ops' = ops + 1,
             calls' = calls \cup {[op |-> "delete", id |-> i, data |-> exc[i]]},
             Revert(i) \/ RevertRefused \/ UNCHANGED <<reverts, refused>>,
             UNCHANGED <<claimed, skipped, exc, now, todo, started, seen>>,
             UNCHANGED page \/ page' = [page EXCEPT !.cancel = 0]
      PROVE  ExceptionsInv' /\ Final
  <2> DEFINE c == [op |-> "delete", id |-> i, data |-> exc[i]]
  <2>1. c \in Calls /\ c.op = "delete" /\ c.id = i
    BY <1>1, <1>5 DEF Calls, Shapes
  <2>2. calls' = calls \cup {c}
    BY <1>5
  <2> HIDE DEF c
  <2>3. ops' \in Nat /\ refused' \in Nat /\ reverts' \in [Ids -> Nat]
    BY <1>1, <1>2, <1>5 DEF Shapes
  <2>4. /\ page' \in [history : BOOLEAN, expanded : Ids \cup {0}, cancel : Ids \cup {0}]
        /\ page'.cancel \in {page.cancel, 0}
    BY <1>1, <1>5 DEF Shapes
  <2> QED
    BY <1>5, <2>1, <2>2, <2>3, <2>4, CallStep
<1>6. ASSUME NEW i \in Ids, DeleteException(i)
      PROVE  ExceptionsInv' /\ Final
  BY <1>5, <1>6 DEF DeleteException, Begin
<1>7. CASE ConfirmCancel
  <2>1. page.cancel \in Ids /\ exc[page.cancel] # Absent
    BY <1>1, <1>7 DEF ConfirmCancel, Shapes, CallsKnown
  <2> QED
    BY <1>5, <1>7, <2>1 DEF ConfirmCancel
<1> QED
  BY <1>3, <1>4, <1>6, <1>7 DEF Api

(* The write of a call.                                                       *)
LEMMA WriteStep ==
  ASSUME ScheduledExceptionsAssumption, ExceptionsInv, NEW c \in calls, Write(c)
  PROVE  ExceptionsInv' /\ Final
<1> USE DEF Statuses, Open
<1>1. Shapes /\ CallsKnown /\ ActiveRan /\ CompletedRan
  BY DEF ExceptionsInv
<1>2. /\ calls' = calls \ {c}
      /\ UNCHANGED <<claimed, skipped, now, todo, started, reverts, seen, page, ops, refused>>
  BY DEF Write
<1>3. /\ IsFiniteSet(calls') /\ Cardinality(calls') <= MaxCalls /\ (MaxCalls <= 1 => calls' = {})
      /\ MaxCalls \in Nat
  BY <1>1, <1>2, DoneFacts DEF ScheduledExceptionsAssumption
<1>4. /\ c.op \in {"create", "update", "delete"} /\ c.id \in Ids
      /\ c.op # "delete" => c.data \in Inputs
      /\ exc \in [Ids -> Records \cup {Absent}]
      /\ c.op # "create" => exc[c.id] \in Records
      /\ c.op = "create" => exc[c.id] = Absent
  BY <1>1, CallFacts DEF CallsKnown, Shapes
<1> DEFINE i == c.id
<1>5. /\ exc' \in [Ids -> Records \cup {Absent}] /\ exc'[i] \in Records
      /\ \A j \in Ids : j # i => exc'[j] = exc[j]
      /\ c.op = "create" => exc'[i].status = "pending"
      /\ c.op = "update" => exc'[i].status = exc[i].status
      /\ c.op = "delete" => /\ exc'[i].status = IF exc[i].status \in Open THEN "cancelled" ELSE exc[i].status
                            /\ exc'[i].type = exc[i].type /\ exc'[i].start = exc[i].start
                            /\ exc'[i].end = exc[i].end
      /\ c.op # "delete" => /\ exc'[i].type = c.data.type /\ exc'[i].start = c.data.start
                            /\ exc'[i].end = c.data.end
  <2>1. CASE c.op = "create"
    <3> DEFINE r == Stored(c.data, "pending")
    <3>1. /\ r \in Records /\ r.status = "pending" /\ r.type = c.data.type /\ r.start = c.data.start
          /\ r.end = c.data.end
      BY <1>4, <2>1, StoredFacts
    <3>2. exc' = [exc EXCEPT ![i] = r]
      BY <2>1 DEF Write
    <3> HIDE DEF r
    <3> QED
      BY <1>4, <2>1, <3>1, <3>2
  <2>2. CASE c.op = "update"
    <3> DEFINE r == Stored(c.data, exc[i].status)
    <3>0. exc[i].status \in Statuses
      BY <1>4, <2>2, RecordFacts
    <3>1. /\ r \in Records /\ r.status = exc[i].status /\ r.type = c.data.type /\ r.start = c.data.start
          /\ r.end = c.data.end
      BY <1>4, <2>2, <3>0, StoredFacts
    <3>2. exc' = [exc EXCEPT ![i] = r]
      BY <1>4, <2>2 DEF Write
    <3> HIDE DEF r
    <3> QED
      BY <1>4, <2>2, <3>1, <3>2
  <2>3. CASE c.op = "delete"
    <3> DEFINE s == IF exc[i].status \in Open THEN "cancelled" ELSE exc[i].status
    <3>1. s \in Statuses
      BY <1>4, <2>3, RecordFacts
    <3>2. exc' = [exc EXCEPT ![i].status = s]
      BY <1>4, <2>3 DEF Write
    <3> HIDE DEF s
    <3>3. /\ exc' \in [Ids -> Records \cup {Absent}] /\ exc'[i] \in Records /\ exc'[i].status = s
          /\ exc'[i].type = exc[i].type /\ exc'[i].start = exc[i].start /\ exc'[i].end = exc[i].end
          /\ \A j \in Ids : j # i => exc'[j] = exc[j]
      BY <1>4, <2>3, <3>1, <3>2, StatusFacts
    <3> QED
      BY <2>3, <3>3 DEF s
  <2> QED
    BY <1>4, <2>1, <2>2, <2>3
<1>6. Shapes'
  BY <1>1, <1>2, <1>3, <1>5 DEF Shapes
<1>7. \A j \in Ids : exc[j] # Absent => exc'[j] # Absent
  BY <1>5, RecordFacts
<1>8. CallsKnown'
  <2>1. ASSUME NEW d \in calls'
        PROVE  /\ d.op = "create" => exc'[d.id] = Absent /\ \A x \in calls' : x.id = d.id => x = d
               /\ d.op # "create" => exc'[d.id] # Absent
    <3>1. d \in calls /\ d # c /\ d.id \in Ids
      BY <1>1, <1>2, CallFacts
    <3>2. d.op = "create" => d.id # i
      BY <1>1, <3>1 DEF CallsKnown
    <3> QED
      BY <1>1, <1>2, <1>5, <1>7, <3>1, <3>2 DEF CallsKnown
  <2>2. \A j \in Ids : seen'[j] # Absent => exc'[j] # Absent
    BY <1>1, <1>2, <1>7 DEF CallsKnown
  <2>3. page'.cancel # 0 => exc'[page'.cancel] # Absent
    BY <1>1, <1>2, <1>7 DEF CallsKnown, Shapes
  <2> QED
    BY <2>1, <2>2, <2>3 DEF CallsKnown
<1>9. ActiveRan' /\ CompletedRan'
  <2>1. \A j \in Ids : /\ exc'[j].status = "active" => exc[j].status = "active"
                       /\ exc'[j].status = "completed" => exc[j].status = "completed"
    BY <1>4, <1>5
  <2> QED
    BY <1>1, <1>2, <2>1 DEF ActiveRan, CompletedRan, Handled
<1>10. Final
  BY <1>4, <1>5, RecordFacts DEF Final
<1>11. MaxCalls > 1 \/ (OppositesApart' /\ ChecksHold')
  <2> SUFFICES ASSUME ~(MaxCalls > 1) PROVE OppositesApart' /\ ChecksHold'
    OBVIOUS
  <2>1. calls' = {} /\ OppositesApart /\ ChecksHold
    BY <1>3 DEF ExceptionsInv
  <2>2. ChecksHold'
    BY <2>1 DEF ChecksHold
  <2>3. CASE c.op # "delete"
    <3>1. ASSUME NEW j \in Ids, j # i, exc[j].status \in Open, exc[j].type # exc'[i].type
          PROVE  exc'[i].end <= exc[j].start \/ exc[j].end <= exc'[i].start
      <4>1. ~(exc[j].start < exc'[i].end /\ exc[j].end > exc'[i].start)
        BY <1>4, <1>5, <2>1, <2>3, <3>1 DEF ChecksHold, HasOverlapping
      <4>2. exc[j] \in Records /\ exc'[i] \in Records
        BY <1>4, <1>5, <3>1, RecordFacts
      <4>3. exc[j].start \in Int /\ exc[j].end \in Int /\ exc'[i].start \in Int /\ exc'[i].end \in Int
        BY <4>2 DEF Records
      <4> QED
        BY <4>1, <4>3
    <3>2. OppositesApart'
      BY <1>5, <2>1, <3>1 DEF OppositesApart
    <3> QED
      BY <2>2, <3>2
  <2>4. CASE c.op = "delete"
    <3>1. NoneOpens
      BY <1>4, <1>5, <2>4 DEF NoneOpens
    <3>2. calls' \subseteq calls /\ \A d \in calls' : d.id \in Ids
      BY <2>1
    <3> QED
      BY <2>1, <3>1, <3>2, ApartKept
  <2> QED
    BY <2>3, <2>4
<1> QED
  BY <1>6, <1>8, <1>9, <1>10, <1>11 DEF ExceptionsInv

(* The list of a tick is a sequence of what is open.                          *)
LEMMA ListFacts ==
  ASSUME ScheduledExceptionsAssumption, Shapes, TickExceptions
  PROVE  todo' \in Seq(Items)
<1> DEFINE J == {j \in Ids : exc[j].status \in Open}
           open == {[id |-> i, ex |-> exc[i], at |-> now] : i \in J}
           f == [i \in J |-> [id |-> i, ex |-> exc[i], at |-> now]]
<1>1. IsFiniteSet(J)
  BY FS_Subset DEF ScheduledExceptionsAssumption
<1>2. f \in Surjection(J, open)
  BY DEF Surjection
<1>3. IsFiniteSet(open)
  <2> HIDE DEF f, J, open
  <2> QED
    BY <1>1, <1>2, FS_Surjection
<1>4. Cardinality(open) \in Nat
  <2> HIDE DEF open
  <2> QED
    BY <1>3, FS_CardinalityType
<1>5. open \subseteq Items
  <2> SUFFICES ASSUME NEW i \in J
               PROVE  [id |-> i, ex |-> exc[i], at |-> now] \in Items
    OBVIOUS
  <2>1. exc[i] \in Records
    BY RecordFacts DEF Shapes, Open
  <2>2. now \in Nat
    BY DEF Shapes
  <2> QED
    BY <2>1, <2>2 DEF Items
<1>6. todo' \in [1..Cardinality(open) -> open]
  BY DEF TickExceptions
<1> HIDE DEF open
<1> QED
  BY <1>4, <1>5, <1>6

(* The first entry of the list and the rest.                                  *)
LEMMA HeadFacts ==
  ASSUME Shapes, todo # <<>>
  PROVE  /\ Head(todo) \in Items /\ Tail(todo) \in Seq(Items)
         /\ Head(todo).id \in Ids /\ Head(todo).ex \in Records
<1>1. todo \in Seq(Items)
  BY DEF Shapes, Items
<1>2. Head(todo) \in Items /\ Tail(todo) \in Seq(Items)
  BY <1>1, HeadTailProperties
<1> QED
  BY <1>2 DEF Items

(* The typing of a step that begins no call and shows nothing new.             *)
LEMMA ShapesStep ==
  ASSUME Shapes, UNCHANGED <<now, calls, seen, page, ops>>,
         exc' \in [Ids -> Records \cup {Absent}], todo' \in Seq(Items), claimed' \in BOOLEAN,
         started' \in [Ids -> SUBSET Types], skipped' \subseteq Ids, reverts' \in [Ids -> Nat], refused' \in Nat
  PROVE  Shapes'
<1> DEFINE C == [op : {"create", "update"}, id : Ids, data : Inputs] \cup [op : {"delete"}, id : Ids, data : Records]
           R == Records \cup {Absent}
           P == [history : BOOLEAN, expanded : Ids \cup {0}, cancel : Ids \cup {0}]
           Q == Seq(Items)
<1>1. /\ seen' \in [Ids -> R] /\ now' \in 0..(Hours + 1) /\ ops' \in Nat /\ calls' \subseteq C
      /\ IsFiniteSet(calls)' /\ (Cardinality(calls) <= MaxCalls)' /\ page' \in P
  <2> HIDE DEF C, R, P
  <2>1. /\ seen \in [Ids -> R] /\ now \in 0..(Hours + 1) /\ ops \in Nat /\ calls \subseteq C
        /\ IsFiniteSet(calls) /\ Cardinality(calls) <= MaxCalls /\ page \in P
    BY DEF Shapes, C, R, P
  <2>2. seen' = seen /\ now' = now /\ ops' = ops /\ calls' = calls /\ page' = page
    OBVIOUS
  <2> QED
    BY <2>1, <2>2
<1>2. todo' \in Q /\ exc' \in [Ids -> R]
  OBVIOUS
<1> QED
  BY <1>1, <1>2 DEF Shapes

(* Steps that open no exception and begin no call.                            *)
LEMMA NoCallStep ==
  ASSUME ExceptionsInv, UNCHANGED calls, Shapes', NoneOpens, ActiveRan', CompletedRan',
         \A i \in Ids : exc'[i] = Absent <=> exc[i] = Absent,
         \A i \in Ids : seen'[i] # Absent => exc[i] # Absent,
         page'.cancel # 0 => page'.cancel \in Ids /\ exc[page'.cancel] # Absent,
         Final
  PROVE  ExceptionsInv' /\ Final
<1>1. Shapes /\ CallsKnown
  BY DEF ExceptionsInv
<1>2. \A c \in calls : c.id \in Ids
  BY <1>1, CallFacts
<1>3. CallsKnown'
  BY <1>1, <1>2 DEF CallsKnown
<1>4. MaxCalls > 1 \/ (OppositesApart' /\ ChecksHold')
  BY <1>2, ApartKept DEF ExceptionsInv
<1> QED
  BY <1>3, <1>4 DEF ExceptionsInv

(* The scheduler tick.                                                        *)
LEMMA TickStep ==
  ASSUME ScheduledExceptionsAssumption, ExceptionsInv, Tick
  PROVE  ExceptionsInv' /\ Final
<1> USE DEF Statuses, Open
<1> DEFINE t == Head(todo)
<1>1. Shapes /\ CallsKnown /\ ActiveRan /\ CompletedRan
  BY DEF ExceptionsInv
<1>2. UNCHANGED <<now, calls, seen, page, ops>>
  BY DEF Tick, TickExceptions, MaybeStart, RunStart, MaybeEnd, NotYet
<1>3. /\ \A i \in Ids : seen'[i] # Absent => exc[i] # Absent
      /\ page'.cancel # 0 => page'.cancel \in Ids /\ exc[page'.cancel] # Absent
  BY <1>1, <1>2 DEF CallsKnown, Shapes
<1>4. /\ exc \in [Ids -> Records \cup {Absent}] /\ claimed \in BOOLEAN /\ refused \in Nat
      /\ started \in [Ids -> SUBSET Types] /\ skipped \subseteq Ids /\ reverts \in [Ids -> Nat]
  BY <1>1 DEF Shapes
<1> SUFFICES /\ Shapes' /\ NoneOpens /\ ActiveRan' /\ CompletedRan' /\ Final
             /\ \A i \in Ids : exc'[i] = Absent <=> exc[i] = Absent
  BY <1>2, <1>3, NoCallStep
<1>5. ASSUME UNCHANGED <<claimed, skipped, exc, started, reverts, refused>>, todo' \in Seq(Items), ~claimed
      PROVE  /\ Shapes' /\ NoneOpens /\ ActiveRan' /\ CompletedRan' /\ Final
             /\ \A i \in Ids : exc'[i] = Absent <=> exc[i] = Absent
  <2>1. Shapes'
    <3>1. /\ exc' \in [Ids -> Records \cup {Absent}] /\ claimed' \in BOOLEAN /\ refused' \in Nat
          /\ started' \in [Ids -> SUBSET Types] /\ skipped' \subseteq Ids /\ reverts' \in [Ids -> Nat]
      BY <1>4, <1>5
    <3> QED
      BY <1>1, <1>2, <1>5, <3>1, ShapesStep
  <2>2. ActiveRan' /\ CompletedRan'
    BY <1>1, <1>5 DEF ActiveRan, CompletedRan, Handled
  <2> QED
    BY <1>5, <2>1, <2>2 DEF NoneOpens, Final
<1>6. CASE TickExceptions
  <2>1. todo' \in Seq(Items)
    BY <1>1, <1>6, ListFacts
  <2>2. UNCHANGED <<claimed, skipped, exc, started, reverts, refused>> /\ ~claimed
    BY <1>1, <1>6 DEF TickExceptions, ActiveRan, Shapes
  <2> QED
    BY <1>5, <2>1, <2>2
<1>7. CASE NotYet
  BY <1>1, <1>5, <1>7, HeadFacts DEF NotYet
<1>8. CASE MaybeStart
  <2>1. /\ todo # <<>> /\ ~claimed /\ UNCHANGED <<started, skipped, reverts, refused>>
        /\ t.id \in Ids /\ Tail(todo) \in Seq(Items)
    BY <1>1, <1>8, HeadFacts DEF MaybeStart
  <2>2. CASE exc[t.id].status # "pending"
    BY <1>5, <1>8, <2>1, <2>2 DEF MaybeStart
  <2>3. CASE exc[t.id].status = "pending"
    <3>1. exc' = [exc EXCEPT ![t.id].status = "active"] /\ claimed' = TRUE /\ todo' = todo
      BY <1>8, <2>3 DEF MaybeStart
    <3>2. exc[t.id] \in Records
      BY <1>4, <2>1, <2>3, RecordFacts
    <3>3. /\ exc' \in [Ids -> Records \cup {Absent}] /\ exc'[t.id] \in Records
          /\ exc'[t.id].status = "active" /\ exc'[t.id].type = exc[t.id].type
          /\ exc'[t.id].start = exc[t.id].start /\ exc'[t.id].end = exc[t.id].end
          /\ \A j \in Ids : j # t.id => exc'[j] = exc[j]
      <4> HIDE DEF t
      <4> QED
        BY <1>4, <2>1, <3>1, <3>2, StatusFacts
    <3>4. Shapes'
      <4>1. /\ exc' \in [Ids -> Records \cup {Absent}] /\ claimed' \in BOOLEAN /\ refused' \in Nat
            /\ started' \in [Ids -> SUBSET Types] /\ skipped' \subseteq Ids /\ reverts' \in [Ids -> Nat]
        BY <1>4, <2>1, <3>1, <3>3
      <4>2. todo' \in Seq(Items)
        BY <1>1, <3>1 DEF Shapes
      <4> QED
        BY <1>1, <1>2, <4>1, <4>2, ShapesStep
    <3>5. ActiveRan' /\ CompletedRan'
      BY <1>1, <2>1, <3>1, <3>3 DEF ActiveRan, CompletedRan, Handled
    <3> QED
      BY <2>3, <3>2, <3>3, <3>4, <3>5, RecordFacts DEF NoneOpens, Final
  <2> QED
    BY <2>2, <2>3
<1>9. CASE RunStart
  <2>1. /\ claimed /\ claimed' = FALSE /\ todo # <<>> /\ todo' = Tail(todo) /\ UNCHANGED reverts
        /\ t.id \in Ids /\ Tail(todo) \in Seq(Items) /\ t.ex.type \in Types
    BY <1>1, <1>9, HeadFacts DEF RunStart, ActiveRan, Records
  <2>2. CASE started' = [started EXCEPT ![t.id] = @ \cup {t.ex.type}] /\ UNCHANGED <<exc, skipped, refused>>
    <3>1. /\ started' \in [Ids -> SUBSET Types] /\ started'[t.id] # {}
          /\ \A j \in Ids : j # t.id => started'[j] = started[j]
      BY <1>1, <2>1, <2>2 DEF Shapes
    <3>2. Shapes'
      <4>1. /\ exc' \in [Ids -> Records \cup {Absent}] /\ claimed' \in BOOLEAN /\ refused' \in Nat
            /\ started' \in [Ids -> SUBSET Types] /\ skipped' \subseteq Ids /\ reverts' \in [Ids -> Nat]
        BY <1>4, <2>1, <2>2, <3>1
      <4>2. todo' \in Seq(Items)
        BY <2>1
      <4> QED
        BY <1>1, <1>2, <4>1, <4>2, ShapesStep
    <3>3. ActiveRan' /\ CompletedRan'
      BY <1>1, <2>1, <2>2, <3>1 DEF ActiveRan, CompletedRan, Handled
    <3> QED
      BY <2>2, <3>2, <3>3 DEF NoneOpens, Final
  <2>3. CASE /\ refused' = refused + 1 /\ UNCHANGED <<started, skipped>>
             /\ exc' = [exc EXCEPT ![t.id].status = IF @ = "active" THEN "pending" ELSE @]
    <3>1. CASE exc[t.id] \in Records
      <4> DEFINE s == IF exc[t.id].status = "active" THEN "pending" ELSE exc[t.id].status
      <4>1. s \in Statuses
        BY <3>1, RecordFacts
      <4>2. exc' = [exc EXCEPT ![t.id].status = s]
        BY <2>3
      <4>3. /\ exc' \in [Ids -> Records \cup {Absent}] /\ exc'[t.id] \in Records
            /\ exc'[t.id].status = s /\ exc'[t.id].type = exc[t.id].type
            /\ exc'[t.id].start = exc[t.id].start /\ exc'[t.id].end = exc[t.id].end
            /\ \A j \in Ids : j # t.id => exc'[j] = exc[j]
        <5> HIDE DEF t, s
        <5> QED
          BY <1>4, <2>1, <3>1, <4>1, <4>2, StatusFacts
      <4>4. Shapes'
        <5> HIDE DEF t
        <5>1. exc' \in [Ids -> Records \cup {Absent}]
          BY <1>4, <4>3
        <5>2. todo' \in Seq(Items) /\ claimed' \in BOOLEAN
          BY <2>1
        <5>3. started' \in [Ids -> SUBSET Types] /\ skipped' \subseteq Ids /\ reverts' \in [Ids -> Nat]
          BY <1>4, <2>1, <2>3
        <5>4. refused' \in Nat
          BY <1>4, <2>3
        <5> QED
          BY <1>1, <1>2, <5>1, <5>2, <5>3, <5>4, ShapesStep
      <4>5. ActiveRan' /\ CompletedRan'
        <5>1. exc'[t.id].status # "active" /\ (exc'[t.id].status = "completed" => Handled(t.id))
          BY <1>1, <2>1, <4>3 DEF CompletedRan
        <5> HIDE DEF s
        <5>2. ~claimed' /\ started' = started /\ skipped' = skipped /\ t = Head(todo)
          BY <2>1, <2>3
        <5>3. \A i \in Ids : i # t.id => exc'[i] = exc[i]
          BY <4>3
        <5> HIDE DEF t
        <5>4. ASSUME NEW i \in Ids
              PROVE  /\ exc'[i].status = "active" => Handled(i)'
                     /\ exc'[i].status = "completed" => Handled(i)'
          <6>1. CASE i = t.id
            BY <5>1, <5>2, <6>1 DEF Handled
          <6>2. CASE i # t.id
            BY <1>1, <5>2, <5>3, <6>2 DEF ActiveRan, CompletedRan, Handled
          <6> QED
            BY <6>1, <6>2
        <5> QED
          BY <5>2, <5>4 DEF ActiveRan, CompletedRan, Handled
      <4>6. NoneOpens /\ Final
        BY <3>1, <4>3 DEF NoneOpens, Final
      <4> QED
        BY <3>1, <4>3, <4>4, <4>5, <4>6, RecordFacts
    <3>2. CASE exc[t.id] = Absent
      <4>1. exc' = exc
        <5>1. [exc[t.id] EXCEPT !.status = "absent"] = Absent
          BY <3>2 DEF Absent
        <5>2. exc' = [exc EXCEPT ![t.id] = [exc[t.id] EXCEPT !.status = exc[t.id].status]]
          BY <2>3, <3>2, RecordFacts
        <5> QED
          BY <1>4, <3>2, <5>1, <5>2, RecordFacts
      <4>2. Shapes'
        <5> HIDE DEF t
        <5>1. exc' \in [Ids -> Records \cup {Absent}]
          BY <1>4, <4>1
        <5>2. todo' \in Seq(Items) /\ claimed' \in BOOLEAN
          BY <2>1
        <5>3. started' \in [Ids -> SUBSET Types] /\ skipped' \subseteq Ids /\ reverts' \in [Ids -> Nat]
          BY <1>4, <2>1, <2>3
        <5>4. refused' \in Nat
          BY <1>4, <2>3
        <5> QED
          BY <1>1, <1>2, <5>1, <5>2, <5>3, <5>4, ShapesStep
      <4>3. exc[t.id].status = "absent"
        BY <3>2, RecordFacts
      <4>4. ActiveRan' /\ CompletedRan'
        BY <1>1, <2>1, <2>3, <4>1, <4>3 DEF ActiveRan, CompletedRan, Handled
      <4> QED
        BY <4>1, <4>2, <4>4 DEF NoneOpens, Final
    <3> QED
      BY <1>4, <2>1, <3>1, <3>2
  <2>4. CASE refused' = refused + 1 /\ UNCHANGED <<started, exc>> /\ skipped' = skipped \cup {t.id}
    <3>1. Shapes'
      <4>1. /\ exc' \in [Ids -> Records \cup {Absent}] /\ claimed' \in BOOLEAN /\ refused' \in Nat
            /\ started' \in [Ids -> SUBSET Types] /\ skipped' \subseteq Ids /\ reverts' \in [Ids -> Nat]
        <5> HIDE DEF t
        <5>1. skipped' \subseteq Ids
          BY <1>4, <2>1, <2>4
        <5>2. claimed' \in BOOLEAN
          BY <2>1
        <5>3. refused' \in Nat
          BY <1>4, <2>4
        <5> QED
          BY <1>4, <2>1, <2>4, <5>1, <5>2, <5>3
      <4>2. todo' \in Seq(Items)
        BY <2>1
      <4> QED
        BY <1>1, <1>2, <4>1, <4>2, ShapesStep
    <3>2. ActiveRan' /\ CompletedRan'
      BY <1>1, <2>1, <2>4 DEF ActiveRan, CompletedRan, Handled
    <3> QED
      BY <2>4, <3>1, <3>2 DEF NoneOpens, Final
  <2> QED
    BY <1>9, <2>2, <2>3, <2>4 DEF RunStart
<1>10. CASE MaybeEnd
  <2>1. /\ todo # <<>> /\ ~claimed /\ UNCHANGED <<claimed, started, skipped>> /\ todo' = Tail(todo)
        /\ t.id \in Ids /\ Tail(todo) \in Seq(Items)
    BY <1>1, <1>10, HeadFacts DEF MaybeEnd
  <2>2. CASE exc[t.id].status # "active"
    BY <1>5, <1>10, <2>1, <2>2 DEF MaybeEnd
  <2>3. CASE exc[t.id].status = "active"
    <3>1. /\ exc' = [exc EXCEPT ![t.id].status = "completed"]
          /\ Revert(t.id) \/ RevertRefused \/ UNCHANGED <<reverts, refused>>
      BY <1>10, <2>3 DEF MaybeEnd
    <3>2. exc[t.id] \in Records /\ reverts' \in [Ids -> Nat] /\ refused' \in Nat
      <4> HIDE DEF t
      <4>1. exc[t.id] \in Records
        BY <1>4, <2>1, <2>3, RecordFacts
      <4>2. CASE Revert(t.id)
        BY <1>4, <2>1, <4>1, <4>2 DEF Revert
      <4>3. CASE RevertRefused
        BY <1>4, <4>1, <4>3 DEF RevertRefused
      <4> QED
        BY <1>4, <3>1, <4>1, <4>2, <4>3
    <3>3. /\ exc' \in [Ids -> Records \cup {Absent}] /\ exc'[t.id] \in Records
          /\ exc'[t.id].status = "completed" /\ exc'[t.id].type = exc[t.id].type
          /\ exc'[t.id].start = exc[t.id].start /\ exc'[t.id].end = exc[t.id].end
          /\ \A j \in Ids : j # t.id => exc'[j] = exc[j]
      <4> HIDE DEF t
      <4> QED
        BY <1>4, <2>1, <3>1, <3>2, StatusFacts
    <3>4. Shapes'
      <4>1. /\ exc' \in [Ids -> Records \cup {Absent}] /\ claimed' \in BOOLEAN /\ refused' \in Nat
            /\ started' \in [Ids -> SUBSET Types] /\ skipped' \subseteq Ids /\ reverts' \in [Ids -> Nat]
        BY <1>4, <2>1, <3>2, <3>3
      <4>2. todo' \in Seq(Items)
        BY <2>1
      <4> QED
        BY <1>1, <1>2, <4>1, <4>2, ShapesStep
    <3>5. Handled(t.id)
      BY <1>1, <2>1, <2>3 DEF ActiveRan
    <3>6. ActiveRan' /\ CompletedRan'
      BY <1>1, <2>1, <3>3, <3>5 DEF ActiveRan, CompletedRan, Handled
    <3> QED
      BY <2>3, <3>2, <3>3, <3>4, <3>6, RecordFacts DEF NoneOpens, Final
  <2> QED
    BY <2>2, <2>3
<1> QED
  BY <1>6, <1>7, <1>8, <1>9, <1>10 DEF Tick

(* A crash loses the tick and the calls; what was claimed is passed over.     *)
LEMMA CrashStep ==
  ASSUME ScheduledExceptionsAssumption, ExceptionsInv, Crash
  PROVE  ExceptionsInv' /\ Final
<1>1. Shapes /\ CallsKnown /\ ActiveRan /\ CompletedRan
  BY DEF ExceptionsInv
<1>2. /\ claimed' = FALSE /\ todo' = <<>> /\ calls' = {} /\ refused' = refused + 1
      /\ skipped' = IF claimed THEN skipped \cup {Head(todo).id} ELSE skipped
      /\ UNCHANGED <<exc, now, started, reverts, seen, page, ops>>
  BY DEF Crash
<1>3. claimed => Head(todo).id \in Ids
  BY <1>1, HeadFacts DEF ActiveRan
<1>4. Shapes'
  <2>1. skipped' \subseteq Ids
    <3>1. skipped \subseteq Ids
      BY <1>1 DEF Shapes
    <3>2. CASE claimed
      BY <1>2, <1>3, <3>1, <3>2
    <3>3. CASE ~claimed
      BY <1>2, <3>1, <3>3
    <3> QED
      BY <3>2, <3>3
  <2>4. claimed' \in BOOLEAN
    BY <1>2
  <2>5. refused' \in Nat
    BY <1>1, <1>2 DEF Shapes
  <2>2. todo' \in Seq(Items)
    BY <1>2
  <2>3. IsFiniteSet(calls') /\ Cardinality(calls') <= MaxCalls
    BY <1>2, FS_EmptySet DEF ScheduledExceptionsAssumption
  <2> QED
    BY <1>1, <1>2, <2>1, <2>2, <2>3, <2>4, <2>5 DEF Shapes
<1>5. CallsKnown' /\ Final
  BY <1>1, <1>2 DEF CallsKnown, Final
<1>6. ActiveRan' /\ CompletedRan'
  BY <1>1, <1>2 DEF ActiveRan, CompletedRan, Handled
<1>7. MaxCalls > 1 \/ (OppositesApart' /\ ChecksHold')
  BY <1>2 DEF ExceptionsInv, OppositesApart, ChecksHold
<1> QED
  BY <1>4, <1>5, <1>6, <1>7 DEF ExceptionsInv

(* The clock and the page leave what is stored alone.                         *)
LEMMA PageStep ==
  ASSUME ScheduledExceptionsAssumption, ExceptionsInv,
         \/ Advance \/ Poll \/ ToggleHistory \/ KeepException \/ UNCHANGED vars
         \/ \E i \in Ids : ToggleExpand(i) \/ AskCancel(i)
  PROVE  ExceptionsInv' /\ Final
<1>1. Shapes /\ CallsKnown /\ ActiveRan /\ CompletedRan
  BY DEF ExceptionsInv
<1>2. UNCHANGED <<claimed, skipped, exc, calls, todo, started, reverts, ops, refused>>
  BY DEF Advance, Poll, ToggleHistory, KeepException, ToggleExpand, AskCancel, vars, backend
<1>3. now' \in 0..(Hours + 1)
  BY <1>1 DEF Advance, Poll, ToggleHistory, KeepException, ToggleExpand, AskCancel, vars, backend,
              Shapes, ScheduledExceptionsAssumption
<1>4. seen' \in {seen, exc}
  BY DEF Advance, Poll, ToggleHistory, KeepException, ToggleExpand, AskCancel, vars, backend
<1>5. /\ page' \in [history : BOOLEAN, expanded : Ids \cup {0}, cancel : Ids \cup {0}]
      /\ page'.cancel # 0 => page'.cancel \in Ids /\ exc[page'.cancel] # Absent
  <2>1. /\ page \in [history : BOOLEAN, expanded : Ids \cup {0}, cancel : Ids \cup {0}]
        /\ page.cancel # 0 => page.cancel \in Ids /\ exc[page.cancel] # Absent
    BY <1>1 DEF Shapes, CallsKnown
  <2>2. CASE UNCHANGED page
    BY <2>1, <2>2
  <2>3. CASE ToggleHistory
    BY <2>1, <2>3 DEF ToggleHistory
  <2>4. CASE KeepException
    BY <2>1, <2>4 DEF KeepException
  <2>5. ASSUME NEW i \in Ids, ToggleExpand(i)
        PROVE  /\ page' \in [history : BOOLEAN, expanded : Ids \cup {0}, cancel : Ids \cup {0}]
               /\ page'.cancel = page.cancel
    BY <2>1, <2>5 DEF ToggleExpand
  <2>6. ASSUME NEW i \in Ids, AskCancel(i)
        PROVE  /\ page' \in [history : BOOLEAN, expanded : Ids \cup {0}, cancel : Ids \cup {0}]
               /\ page'.cancel = i /\ exc[i] # Absent
    <3>1. seen[i] # Absent
      BY <2>6, RecordFacts DEF AskCancel, CanCancel, Open
    <3> QED
      BY <1>1, <2>1, <2>6, <3>1 DEF AskCancel, CallsKnown
  <2> QED
    BY <2>1, <2>2, <2>3, <2>4, <2>5, <2>6 DEF Advance, Poll, vars
<1>6. Shapes'
  BY <1>1, <1>2, <1>3, <1>4, <1>5 DEF Shapes
<1>7. ActiveRan' /\ CompletedRan' /\ NoneOpens /\ Final
  BY <1>1, <1>2 DEF ActiveRan, CompletedRan, Handled, NoneOpens, Final
<1>8. \A i \in Ids : seen'[i] # Absent => exc[i] # Absent
  BY <1>1, <1>4 DEF CallsKnown
<1> QED
  BY <1>2, <1>5, <1>6, <1>7, <1>8, NoCallStep

(* The initial states.                                                        *)
LEMMA ExceptionsInit ==
  ASSUME ScheduledExceptionsAssumption, Init
  PROVE  ExceptionsInv
<1>1. Absent.status = "absent" /\ Absent.status \notin Open
  BY RecordFacts DEF Open
<1>2. Shapes
  <2>1. /\ exc = [i \in Ids |-> Absent] /\ seen = exc /\ now = 0 /\ claimed = FALSE /\ ops = 0 /\ refused = 0
        /\ calls = {} /\ todo = <<>> /\ started = [i \in Ids |-> {}] /\ skipped = {} /\ reverts = [i \in Ids |-> 0]
        /\ page = [history |-> FALSE, expanded |-> 0, cancel |-> 0]
    BY DEF Init
  <2>2. /\ IsFiniteSet(calls) /\ Cardinality(calls) <= MaxCalls /\ now \in 0..(Hours + 1)
    BY <2>1, FS_EmptySet DEF ScheduledExceptionsAssumption
  <2>3. /\ exc \in [Ids -> Records \cup {Absent}] /\ seen \in [Ids -> Records \cup {Absent}]
    BY <2>1
  <2>4. /\ started \in [Ids -> SUBSET Types] /\ skipped \subseteq Ids /\ reverts \in [Ids -> Nat]
        /\ page \in [history : BOOLEAN, expanded : Ids \cup {0}, cancel : Ids \cup {0}]
    BY <2>1
  <2>5. todo \in Seq(Items)
    BY <2>1
  <2> QED
    BY <2>1, <2>2, <2>3, <2>4, <2>5 DEF Shapes
<1>3. CallsKnown /\ ActiveRan /\ CompletedRan
  BY <1>1 DEF Init, CallsKnown, ActiveRan, CompletedRan, Handled
<1>4. OppositesApart /\ ChecksHold
  BY <1>1 DEF Init, OppositesApart, ChecksHold
<1> QED
  BY <1>2, <1>3, <1>4 DEF ExceptionsInv

(* Every step keeps the invariant, and what is over.                          *)
LEMMA ExceptionsNext ==
  ASSUME ScheduledExceptionsAssumption, ExceptionsInv, [PageNext]_vars
  PROVE  ExceptionsInv' /\ Final
BY ApiStep, WriteStep, TickStep, CrashStep, PageStep DEF PageNext, Next, UserPage

(* In every run with the page, for any number of overlapping calls, the       *)
(* invariant holds: ids are given out once and only what ran is active.       *)
THEOREM ExceptionsInvariant ==
  ASSUME ScheduledExceptionsAssumption
  PROVE  PageSpec => []ExceptionsInv
<1>1. Init => ExceptionsInv
  BY ExceptionsInit
<1>2. ExceptionsInv /\ [PageNext]_vars => ExceptionsInv'
  BY ExceptionsNext
<1> QED
  BY <1>1, <1>2, PTL DEF PageSpec

(* MaybeStart, MaybeEnd, the roll-back of a refused start, UpdateException    *)
(* and DeleteException never reopen an exception that is over, however old    *)
(* the record they hold.                                                      *)
THEOREM OverStaysOver ==
  ASSUME ScheduledExceptionsAssumption
  PROVE  PageSpec => OverIsFinal
<1>1. ExceptionsInv /\ [PageNext]_vars =>
        [\A i \in DOMAIN exc : exc[i].status \in {"completed", "cancelled"} =>
                                 exc'[i].status = exc[i].status]_vars
  <2> SUFFICES ASSUME ExceptionsInv, [PageNext]_vars
               PROVE  \A i \in DOMAIN exc : exc[i].status \in {"completed", "cancelled"} =>
                                              exc'[i].status = exc[i].status
    OBVIOUS
  <2>1. Final /\ DOMAIN exc = Ids
    BY ExceptionsNext DEF ExceptionsInv, Shapes
  <2> QED
    BY <2>1 DEF Final
<1> QED
  BY <1>1, ExceptionsInvariant, PTL DEF PageSpec, OverIsFinal

(* An exception completes only after its start action has run or was passed   *)
(* over (policy disabled, crash, failed roll-back): a refused execution alone *)
(* never lets it complete, whatever records ticks and calls hold.             *)
THEOREM CompletedWasHandled ==
  ASSUME ScheduledExceptionsAssumption
  PROVE  PageSpec => []CompletedRan
<1>1. ExceptionsInv => CompletedRan
  BY DEF ExceptionsInv
<1> QED
  BY <1>1, ExceptionsInvariant, PTL

(* Calls that do not overlap keep a force-sleep and a stay-awake exception    *)
(* apart: what HasOverlapping checked still holds when the call writes,       *)
(* whatever ticks, the clock and the page do in between.                      *)
THEOREM OppositesStayApart ==
  ASSUME ScheduledExceptionsAssumption, MaxCalls <= 1
  PROVE  PageSpec => []OppositesApart
<1>1. ExceptionsInv => OppositesApart
  BY DEF ExceptionsInv, ScheduledExceptionsAssumption
<1> QED
  BY <1>1, ExceptionsInvariant, PTL

=============================================================================
