--------------------------- MODULE Backend_proofs ---------------------------
(***************************************************************************)
(* Proofs about two components of the backend.  Drains keep their promises    *)
(* for any number of processes, phases, nodes and pods, lost sessions,        *)
(* crashes, failed requests and operators (NodeDrain).  No audit entry        *)
(* vanishes unrecorded on its way to the database, and none from the page     *)
(* or from an export (AuditLog).  The components share no variable; each      *)
(* has sections that end in its theorem.                                      *)
(***************************************************************************)
EXTENDS NodeDrain, AuditLog, ListLemmas

----------------------------------------------------------------------------
(* Node drains.                                                               *)

Removing == {"evicting", "fallback", "killing"}

(* The task of t on n changed, and no other.                                  *)
Moved(t, n) ==
  /\ task' \in [Tasks -> [Nodes -> TaskShapes]]
  /\ \A u \in Tasks, m \in Nodes : u /= t \/ m /= n => task'[u][m] = task[u][m]

(* A task step changes one entry of the table.                                *)
LEMMA BecomeFacts ==
  ASSUME Shapes, NEW t \in Tasks, NEW n \in Nodes, NEW r \in TaskShapes, Become(t, n, r)
  PROVE  Moved(t, n) /\ task'[t][n] = r
<1>1. task \in [Tasks -> [Nodes -> TaskShapes]]
  BY DEF Shapes
<1>2. task' = [task EXCEPT ![t] = [task[t] EXCEPT ![n] = r]]
  BY DEF Become
<1>3. [task[t] EXCEPT ![n] = r] \in [Nodes -> TaskShapes]
  BY <1>1
<1>4. task' \in [Tasks -> [Nodes -> TaskShapes]]
  BY <1>1, <1>2, <1>3
<1>5. \A u \in Tasks : u /= t => task'[u] = task[u]
  BY <1>1, <1>2
<1>6. task'[t] = [task[t] EXCEPT ![n] = r]
  BY <1>1, <1>2
<1>7. task'[t][n] = r /\ \A m \in Nodes : m /= n => task'[t][m] = task[t][m]
  BY <1>1, <1>6
<1> QED
  BY <1>4, <1>5, <1>7 DEF Moved

(* Places of a task are places.                                               *)
LEMMA TaskTyped ==
  ASSUME Shapes, NEW t \in Tasks, NEW n \in Nodes
  PROVE  /\ task[t][n] \in TaskShapes
         /\ task[t][n].pc \in Places /\ task[t][n].owner \in Nat /\ task[t][n].late \in Nat
         /\ task[t][n].read \in NodeShapes /\ task[t][n].todo \subseteq PodIds
         /\ task[t][n].at \in PodIds \cup {<<None, 0>>} /\ task[t][n].failed \in BOOLEAN
         /\ task[t][n].read.mark \in Nat /\ task[t][n].read.gen \in Nat
         /\ task[t][n].read.up \in BOOLEAN /\ task[t][n].read.cordoned \in BOOLEAN
<1>1. task[t][n] \in TaskShapes
  BY DEF Shapes
<1>2. task[t][n].read \in NodeShapes
  BY <1>1 DEF TaskShapes
<1> QED
  BY <1>1, <1>2 DEF TaskShapes, NodeShapes

(* Go changes the place of the task only.                                     *)
LEMMA GoFacts ==
  ASSUME Shapes, NEW t \in Tasks, NEW n \in Nodes, NEW to \in Places, Go(t, n, to)
  PROVE  /\ Moved(t, n) /\ task'[t][n].pc = to
         /\ task'[t][n].owner = task[t][n].owner /\ task'[t][n].read = task[t][n].read
         /\ task'[t][n].todo = task[t][n].todo /\ task'[t][n].at = task[t][n].at
         /\ task'[t][n].late = task[t][n].late
<1> DEFINE w == task[t][n]
           r == [w EXCEPT !.pc = to]
<1>1. w \in TaskShapes
  BY TaskTyped
<1>2. r \in TaskShapes
  BY <1>1 DEF TaskShapes
<1>3. Moved(t, n) /\ task'[t][n] = r
  BY <1>2, BecomeFacts DEF Go
<1> QED
  BY <1>1, <1>3 DEF TaskShapes

(* A request changes the place, and is counted when the lock is gone.         *)
LEMMA SentFacts ==
  ASSUME Shapes, NEW t \in Tasks, NEW n \in Nodes, NEW r \in TaskShapes, Sent(t, n, r)
  PROVE  /\ Moved(t, n) /\ task'[t][n].pc = r.pc
         /\ task'[t][n].owner = r.owner /\ task'[t][n].read = r.read
         /\ task'[t][n].todo = r.todo /\ task'[t][n].at = r.at
         /\ task'[t][n].late = IF Owns(t) THEN r.late ELSE r.late + 1
<1> DEFINE l == IF Owns(t) THEN r.late ELSE r.late + 1
           x == [r EXCEPT !.late = l]
<1>1. l \in Nat
  BY DEF TaskShapes
<1>2. Become(t, n, x)
  BY DEF Sent
<1> HIDE DEF l
<1>3. x \in TaskShapes
  BY <1>1 DEF TaskShapes
<1>4. Moved(t, n) /\ task'[t][n] = x
  BY <1>2, <1>3, BecomeFacts
<1>5. /\ x.pc = r.pc /\ x.owner = r.owner /\ x.read = r.read /\ x.todo = r.todo
      /\ x.at = r.at /\ x.late = l
  BY DEF TaskShapes
<1> QED
  BY <1>4, <1>5 DEF l

(* The same for a request after which only the place changes.                 *)
LEMMA SentToFacts ==
  ASSUME Shapes, NEW t \in Tasks, NEW n \in Nodes, NEW to \in Places, SentTo(t, n, to)
  PROVE  /\ Moved(t, n) /\ task'[t][n].pc = to
         /\ task'[t][n].owner = task[t][n].owner /\ task'[t][n].read = task[t][n].read
         /\ task'[t][n].todo = task[t][n].todo /\ task'[t][n].at = task[t][n].at
         /\ task'[t][n].late = IF Owns(t) THEN task[t][n].late ELSE task[t][n].late + 1
<1> DEFINE w == task[t][n]
           r == [w EXCEPT !.pc = to]
<1>1. w \in TaskShapes
  BY TaskTyped
<1>2. r \in TaskShapes
  BY <1>1 DEF TaskShapes
<1>3. Sent(t, n, r)
  BY DEF SentTo
<1>4. /\ r.pc = to /\ r.owner = w.owner /\ r.read = w.read /\ r.todo = w.todo /\ r.at = w.at
      /\ r.late = w.late
  BY <1>1 DEF TaskShapes
<1> HIDE DEF r
<1> QED
  BY <1>2, <1>3, <1>4, SentFacts

(* The bounds are numbers, and spending keeps within them.                    *)
LEMMA BoundsFacts ==
  ASSUME DrainAssumption
  PROVE  /\ DOMAIN Bounds = {"phases", "faults", "crashes", "losses", "meddling", "joins"}
         /\ \A b \in DOMAIN Bounds : Bounds[b] \in Nat
         /\ Bounds["joins"] = MaxJoins
BY DEF DrainAssumption, Bounds

(* Spending one unit of a bound stays within it.                              *)
LEMMA SpendFacts ==
  ASSUME DrainAssumption, Shapes, Numbers, NEW b \in DOMAIN Bounds, Spend(b) \/ UNCHANGED count
  PROVE  /\ count' \in [DOMAIN Bounds -> Nat]
         /\ \A c \in DOMAIN Bounds : count'[c] <= Bounds[c]
         /\ count["joins"] <= count'["joins"] /\ count["joins"] \in Nat /\ count'["joins"] \in Nat
         /\ UNCHANGED count \/ b = "joins" \/ count'["joins"] = count["joins"]
<1>1. \A c \in DOMAIN Bounds : Bounds[c] \in Nat
  BY BoundsFacts
<1>2. "joins" \in DOMAIN Bounds
  BY BoundsFacts
<1>3. CASE UNCHANGED count
  BY <1>1, <1>2, <1>3 DEF Shapes, Numbers
<1>4. CASE Spend(b)
  <2>1. count[b] < Bounds[b] /\ count' = [count EXCEPT ![b] = count[b] + 1]
    BY <1>4 DEF Spend
  <2>2. count[b] \in Nat /\ Bounds[b] \in Nat
    BY <1>1 DEF Shapes
  <2>3. count' \in [DOMAIN Bounds -> Nat]
    BY <2>1, <2>2 DEF Shapes
  <2>4. count'[b] = count[b] + 1 /\ \A c \in DOMAIN Bounds : c /= b => count'[c] = count[c]
    BY <2>1 DEF Shapes
  <2> QED
    BY <1>1, <1>2, <2>1, <2>2, <2>3, <2>4 DEF Shapes, Numbers
<1> QED
  BY <1>3, <1>4

(* A step of a running task that is not idle.                                 *)
Advance(t, n) ==
  /\ UNCHANGED <<proc, session, phase>> /\ Moved(t, n)
  /\ Running(t) /\ task[t][n].pc /= "idle"

(* A task that runs belongs to a process, whose session decides what it owns. *)
LEMMA OwnsFacts ==
  ASSUME DrainAssumption, Shapes, NEW t \in Tasks, Running(t)
  PROVE  /\ ProcOf(t) \in Procs
         /\ t \in Phases => ProcOf(t) = phase[t].by /\ t \notin Procs
         /\ t \in Procs => ProcOf(t) = t
BY DEF DrainAssumption, Shapes, Running, ProcOf, Tasks

(* A step of a running task leaves processes and phases as they are.          *)
LEMMA LivesStep ==
  ASSUME DrainAssumption, Shapes, Lives, NEW t \in Tasks, NEW n \in Nodes, Advance(t, n),
         t \in Procs => task'[t][n].pc \in Ended \cup {"recover", "uncordon"}
  PROVE  Lives'
<1>1. \A e \in Phases, m \in Nodes : phase[e].by = None => task'[e][m].pc = "idle"
  <2> SUFFICES ASSUME NEW e \in Phases, NEW m \in Nodes, phase[e].by = None
               PROVE  task'[e][m].pc = "idle"
    OBVIOUS
  <2>1. e \in Tasks /\ e \notin Procs
    BY DEF Tasks, DrainAssumption
  <2>2. e /= t
    BY <2>1 DEF Advance, Running, ProcOf
  <2> QED
    BY <2>1, <2>2 DEF Advance, Moved, Lives
<1>2. \A p \in Procs, m \in Nodes :
        /\ task'[p][m].pc \in Ended \cup {"recover", "uncordon"}
        /\ proc[p] /= "recovering" => task'[p][m].pc = "idle"
  BY DEF Advance, Moved, Lives, Tasks
<1>3. UNCHANGED <<proc, session, phase>>
  BY DEF Advance
<1>4. \A p \in Procs, m \in Nodes :
        /\ task'[p][m].pc \in Ended \cup {"recover", "uncordon"}
        /\ proc'[p] /= "recovering" => task'[p][m].pc = "idle"
  BY <1>2, <1>3
<1>5. \A e \in Phases, m \in Nodes : phase'[e].by = None => task'[e][m].pc = "idle"
  BY <1>1, <1>3
<1> QED
  BY <1>3, <1>4, <1>5 DEF Lives

(* A request was checked, and without the lock there is only one.             *)
LEMMA RequestsStep ==
  ASSUME Shapes, Requests, NEW t \in Tasks, NEW n \in Nodes, Advance(t, n),
         LET w == task[t][n]
             r == task'[t][n]
         IN /\ r.pc = "mark" => r.read.up /\ ~r.read.cordoned /\ r.owner /= 0
            /\ r.pc = "uncordon" => r.read.mark = r.owner /\ r.owner /= 0
            /\ r.late = w.late \/ (r.late = w.late + 1 /\ w.pc \in Sending /\ ~Owns(t))
            /\ r.pc \in Sending => Owns(t)
            /\ r.pc /= "idle"
  PROVE  Requests'
<1> DEFINE w == task[t][n]
           r == task'[t][n]
<1>1. /\ w.late <= 1 /\ (w.pc \in Sending => w.late = 0) /\ w.late \in Nat
      /\ (Owns(t) => w.late = 0)
  BY TaskTyped DEF Requests, Advance
<1>2. \A u \in Tasks : Owns(u)' <=> Owns(u)
  BY DEF Advance, Owns, ProcOf
<1>3. /\ r.late <= 1 /\ (r.pc \in Sending => r.late = 0)
      /\ (r.pc /= "idle" /\ Owns(t)' => r.late = 0)
  BY <1>1, <1>2
<1>4. \A u \in Tasks, m \in Nodes : u /= t \/ m /= n => task'[u][m] = task[u][m]
  BY DEF Advance, Moved
<1> HIDE DEF w, r
<1> QED
  BY <1>2, <1>3, <1>4 DEF Requests, w, r

(* What a task still has to remove was listed.                                *)
LEMMA PendingStep ==
  ASSUME Pending, NEW t \in Tasks, NEW n \in Nodes, Moved(t, n),
         listed \subseteq listed', killed' \subseteq listed',
         task'[t][n].todo \subseteq listed',
         task'[t][n].pc \in Removing => task'[t][n].at \in listed'
  PROVE  Pending'
BY DEF Pending, Moved, Removing

(* What a task read is within the counters.                                   *)
LEMMA NumbersStep ==
  ASSUME DrainAssumption, Shapes, Shapes', Numbers, NEW t \in Tasks, NEW n \in Nodes, Moved(t, n),
         \A b \in DOMAIN Bounds : count'[b] <= Bounds[b],
         count["joins"] <= count'["joins"], marks <= marks',
         \A m \in Nodes : node'[m].mark <= marks' /\ node'[m].gen <= count'["joins"],
         task'[t][n].owner <= marks', task'[t][n].read.mark <= marks',
         task'[t][n].read.gen <= count'["joins"]
  PROVE  Numbers'
<1>1. "joins" \in DOMAIN Bounds
  BY BoundsFacts
<1>2. count["joins"] \in Nat /\ count'["joins"] \in Nat /\ marks \in Nat /\ marks' \in Nat
  BY <1>1 DEF Shapes
<1>3. ASSUME NEW u \in Tasks, NEW m \in Nodes
      PROVE  /\ task'[u][m].owner <= marks' /\ task'[u][m].read.mark <= marks'
             /\ task'[u][m].read.gen <= count'["joins"]
  <2>1. CASE u = t /\ m = n
    BY <2>1
  <2>2. CASE u /= t \/ m /= n
    BY <1>2, <2>2, TaskTyped DEF Moved, Numbers
  <2> QED
    BY <2>1, <2>2
<1> QED
  BY <1>3 DEF Numbers

(* Markers disappear, or the one that was to be written appears.              *)
LEMMA FreshStep ==
  ASSUME Shapes, Requests, Fresh, NEW t \in Tasks, NEW n \in Nodes, Moved(t, n),
         task'[t][n].pc /= "mark",
         task'[t][n].read.mark \in {task[t][n].read.mark, node[n].mark},
         \A m \in Nodes : \/ node'[m].mark \in {node[m].mark, 0}
                          \/ task[t][n].pc = "mark" /\ node'[m].mark = task[t][n].owner
  PROVE  Fresh'
<1> SUFFICES ASSUME NEW u \in Tasks, NEW m \in Nodes, task'[u][m].pc = "mark"
             PROVE  /\ \A k \in Nodes : node'[k].mark /= task'[u][m].owner
                    /\ \A v \in Tasks, k \in Nodes :
                         /\ task'[v][k].read.mark /= task'[u][m].owner
                         /\ task'[v][k].pc = "mark" /\ task'[v][k].owner = task'[u][m].owner
                              => v = u /\ k = m
  BY DEF Fresh
<1>1. u /= t \/ m /= n
  OBVIOUS
<1>2. task'[u][m] = task[u][m]
  BY <1>1 DEF Moved
<1>3. task[u][m].owner /= 0
  BY <1>2 DEF Requests
<1>4. \A k \in Nodes : node'[k].mark /= task'[u][m].owner
  BY <1>1, <1>2, <1>3 DEF Fresh
<1>5. ASSUME NEW v \in Tasks, NEW k \in Nodes
      PROVE  /\ task'[v][k].read.mark /= task'[u][m].owner
             /\ task'[v][k].pc = "mark" /\ task'[v][k].owner = task'[u][m].owner => v = u /\ k = m
  <2>1. CASE v = t /\ k = n
    BY <1>2, <2>1 DEF Fresh
  <2>2. CASE v /= t \/ k /= n
    <3>1. task'[v][k] = task[v][k]
      BY <2>2 DEF Moved
    <3> QED
      BY <1>2, <3>1 DEF Fresh
  <2> QED
    BY <2>1, <2>2
<1> QED
  BY <1>4, <1>5

(* Only the owner of the lock sets out to undo a cordon, and the recovery of  *)
(* a process ends when the marker is gone.                                    *)
LEMMA CleanersStep ==
  ASSUME DrainAssumption, Shapes, Lives, Requests, Fresh, Cleaners,
         NEW t \in Tasks, NEW n \in Nodes, Advance(t, n),
         \A m \in Nodes : \/ node'[m].mark \in {node[m].mark, 0}
                          \/ task[t][n].pc = "mark" /\ node'[m].mark = task[t][n].owner,
         task'[t][n].pc = "uncordon" => Owns(t),
         t \in Procs => /\ task'[t][n].owner = task[t][n].owner
                        /\ \/ task'[t][n].pc \in {"recover", "uncordon", "failed"}
                           \/ node'[n].mark = 0 \/ node'[n].mark /= task[t][n].owner
  PROVE  Cleaners'
<1>1. UNCHANGED <<proc, session, phase>> /\ Moved(t, n) /\ Running(t)
  BY DEF Advance
<1> SUFFICES ASSUME NEW p \in Procs, NEW u \in Tasks, NEW m \in Nodes,
                    session[p] = "live", ProcOf(u) /= p, task'[u][m].pc = "uncordon",
                    task'[u][m].read.mark = node'[m].mark
             PROVE  \/ proc[p] = "booting"
                    \/ /\ proc[p] = "recovering" /\ task'[p][m].owner = node'[m].mark
                       /\ task'[p][m].pc \in {"recover", "uncordon", "failed"}
  <2>1. \A u \in Tasks : ProcOf(u)' = ProcOf(u)
    BY <1>1 DEF ProcOf
  <2> QED
    BY <1>1, <2>1 DEF Cleaners
<1>2. u /= t \/ m /= n
  <2> SUFFICES ASSUME u = t, m = n PROVE FALSE
    OBVIOUS
  <2>1. session[ProcOf(t)] = "live" /\ ProcOf(t) \in Procs
    BY <1>1, OwnsFacts DEF Owns
  <2> QED
    BY <2>1 DEF Lives
<1>3. task'[u][m] = task[u][m]
  BY <1>1, <1>2 DEF Moved
<1>4. task[u][m].read.mark /= 0
  BY <1>3 DEF Requests
<1>5. node'[m].mark = node[m].mark
  BY <1>3, <1>4 DEF Fresh
<1>6. \/ proc[p] = "booting"
      \/ /\ proc[p] = "recovering" /\ task[p][m].owner = node[m].mark
         /\ task[p][m].pc \in {"recover", "uncordon", "failed"}
  BY <1>3, <1>5 DEF Cleaners
<1>7. CASE p = t /\ m = n
  BY <1>3, <1>4, <1>5, <1>6, <1>7
<1>8. CASE p /= t \/ m /= n
  BY <1>1, <1>5, <1>6, <1>8 DEF Moved, Tasks
<1> QED
  BY <1>7, <1>8

(* No node is uncordoned or deleted and no pod starts.                        *)
LEMMA HeldStep ==
  ASSUME DrainAssumption, Shapes, Held, NEW t \in Tasks, NEW n \in Nodes, Advance(t, n),
         UNCHANGED <<freed, crushed>>,
         \A m \in Nodes : /\ node[m].up => node'[m].up
                          /\ node[m].cordoned => node'[m].cordoned,
         \A x \in Pods : pod'[x].on \in {pod[x].on, None},
         task'[t][n].pc \in Draining => \/ t \in Phases /\ task[t][n].pc \in Draining
                                        \/ node'[n].up /\ node'[n].cordoned,
         task'[t][n].pc \in {"delete", "deleting"} =>
           \/ t \in Phases /\ task[t][n].pc \in {"delete", "deleting"}
           \/ \A x \in Pods : pod[x].on /= n
  PROVE  Held'
<1>1. UNCHANGED <<proc, session, phase>> /\ Moved(t, n)
  BY DEF Advance
<1>2. \A u \in Tasks : Owns(u)' <=> Owns(u)
  BY <1>1 DEF Owns, ProcOf
<1>3. None \notin Nodes
  BY DEF DrainAssumption, None
<1>4. ASSUME NEW e \in Phases, NEW m \in Nodes
      PROVE  /\ task'[e][m].pc \in Draining => node'[m].up
             /\ task'[e][m].pc \in Draining /\ Owns(e)' /\ m \notin freed' => node'[m].cordoned
             /\ task'[e][m].pc \in {"delete", "deleting"} /\ Owns(e)' /\ m \notin freed' =>
                  \A x \in Pods : pod'[x].on /= m
  <2>0. e \in Tasks
    BY DEF Tasks
  <2>1. CASE e = t /\ m = n
    BY <1>2, <1>3, <2>1 DEF Held
  <2>2. CASE e /= t \/ m /= n
    <3>1. task'[e][m] = task[e][m]
      BY <1>1, <2>0, <2>2 DEF Moved
    <3> QED
      BY <1>2, <1>3, <2>0, <3>1 DEF Held
  <2> QED
    BY <2>1, <2>2
<1> QED
  BY <1>1, <1>4 DEF Held

(* No critical pod is touched or taken up.                                    *)
LEMMA SparedStep ==
  ASSUME Spared, NEW t \in Tasks, NEW n \in Nodes, Advance(t, n),
         \A x \in Critical : pod'[x].on = pod[x].on /\ pod'[x].ending = pod[x].ending,
         \A x \in killed' : x \in killed \/ x[1] \notin Critical,
         t \in Phases => /\ \A x \in task'[t][n].todo : x[1] \notin Critical
                         /\ task'[t][n].pc \in Removing => task'[t][n].at[1] \notin Critical
  PROVE  Spared'
<1>1. ASSUME NEW e \in Phases, NEW m \in Nodes
      PROVE  /\ task'[e][m].pc /= "idle" => \A x \in Critical : Home[x] /= m
             /\ \A x \in task'[e][m].todo : x[1] \notin Critical
             /\ task'[e][m].pc \in Removing => task'[e][m].at[1] \notin Critical
  <2>0. e \in Tasks
    BY DEF Tasks
  <2>1. CASE e = t /\ m = n
    BY <2>1 DEF Spared, Advance
  <2>2. CASE e /= t \/ m /= n
    <3>1. task'[e][m] = task[e][m]
      BY <2>0, <2>2 DEF Advance, Moved
    <3> QED
      BY <3>1 DEF Spared, Removing
  <2> QED
    BY <2>1, <2>2
<1>2. /\ \A x \in Critical : pod'[x].on = Home[x] /\ ~pod'[x].ending
      /\ \A x \in killed' : x[1] \notin Critical
  BY DEF Spared
<1> QED
  BY <1>1, <1>2 DEF Spared, Removing

(* What a step of a task does to the task.                                    *)
Proceeds(t, n) ==
  LET w == task[t][n]
      r == task'[t][n]
  IN /\ r.pc \notin {"mark", "idle"}
     /\ r.owner \in {w.owner, node[n].mark} /\ r.read \in {w.read, node[n]}
     /\ r.pc = "uncordon" => r.read.mark = r.owner /\ r.owner /= 0
     /\ r.late = w.late \/ (r.late = w.late + 1 /\ w.pc \in Sending /\ ~Owns(t))
     /\ r.pc \in Sending => Owns(t)
     /\ r.todo \subseteq listed' /\ (r.pc \in Removing => r.at \in listed')
     /\ t \in Procs => /\ r.pc \in Ended \cup {"recover", "uncordon"} /\ r.owner = w.owner
                       /\ \/ r.pc \in {"recover", "uncordon", "failed"}
                          \/ node'[n].mark = 0 \/ node'[n].mark /= w.owner
     /\ r.pc \in Draining => \/ t \in Phases /\ w.pc \in Draining
                             \/ node'[n].up /\ node'[n].cordoned
     /\ r.pc \in {"delete", "deleting"} => \/ t \in Phases /\ w.pc \in {"delete", "deleting"}
                                           \/ \A x \in Pods : pod[x].on /= n
     /\ ~Roaming /\ t \in Phases => /\ \A x \in r.todo : x[1] \notin Critical
                                    /\ r.pc \in Removing => r.at[1] \notin Critical

(* The nodes are well formed.                                                 *)
LEMMA NodeTyped ==
  ASSUME Shapes, NEW n \in Nodes
  PROVE  /\ node[n] \in NodeShapes /\ node[n].mark \in Nat /\ node[n].gen \in Nat
         /\ node[n].up \in BOOLEAN /\ node[n].cordoned \in BOOLEAN
BY DEF Shapes, NodeShapes

(* A step of a task keeps the invariant when it does what Proceeds says and   *)
(* what it does to nodes and pods is in order.                                *)
LEMMA WorldStep ==
  ASSUME DrainAssumption, DrainInv, NEW t \in Tasks, NEW n \in Nodes, Advance(t, n), Proceeds(t, n),
         UNCHANGED <<freed, marks>>, Spend("faults") \/ UNCHANGED count,
         node' \in [Nodes -> NodeShapes],
         pod' \in [Pods -> [uid : 1..MaxUid, on : Nodes \cup {None}, ending : BOOLEAN]],
         kept' \subseteq Nodes, crushed' \subseteq Pods, killed' \subseteq listed',
         listed \subseteq listed', listed' \subseteq PodIds,
         \A m \in Nodes : /\ node'[m].gen = node[m].gen
                          /\ \/ node'[m].mark \in {node[m].mark, 0}
                             \/ task[t][n].pc = "mark" /\ node'[m].mark = task[t][n].owner,
         Marks', Overlap \/ Held', Roaming \/ Spared'
  PROVE  DrainInv'
<1> DEFINE w == task[t][n]
           r == task'[t][n]
<1>1. Shapes /\ Numbers /\ Lives /\ Requests /\ Pending /\ Fresh /\ Marks /\ Cleaners
  BY DEF DrainInv
<1>2. "faults" \in DOMAIN Bounds
  BY BoundsFacts
<1>3. /\ count' \in [DOMAIN Bounds -> Nat]
      /\ \A c \in DOMAIN Bounds : count'[c] <= Bounds[c]
      /\ count["joins"] <= count'["joins"] /\ count["joins"] \in Nat /\ count'["joins"] \in Nat
  BY <1>1, <1>2, SpendFacts
<1>4. Moved(t, n) /\ UNCHANGED <<proc, session, phase>>
  BY DEF Advance
<1>5. Shapes'
  BY <1>1, <1>3, <1>4 DEF Shapes, Moved
<1>6. \A m \in Nodes : /\ node[m].mark \in Nat /\ node[m].gen \in Nat
                       /\ node[m].mark <= marks /\ node[m].gen <= count["joins"]
  BY <1>1, NodeTyped DEF Numbers
<1>7. Numbers'
  <2>1. /\ w.owner <= marks /\ w.read.mark <= marks /\ w.read.gen <= count["joins"]
        /\ w.read.gen \in Nat /\ marks \in Nat
    BY <1>1, TaskTyped DEF Numbers, Shapes
  <2>2. r.owner <= marks /\ r.read.mark <= marks /\ r.read.gen <= count'["joins"]
    BY <1>3, <1>6, <2>1 DEF Proceeds
  <2>3. \A m \in Nodes : node'[m].mark <= marks' /\ node'[m].gen <= count'["joins"]
    BY <1>3, <1>6, <2>1
  <2>4. marks <= marks'
    BY <2>1
  <2> HIDE DEF w, r
  <2> QED
    BY <1>1, <1>3, <1>4, <1>5, <2>2, <2>3, <2>4, NumbersStep DEF r
<1>8. Lives'
  BY <1>1, LivesStep DEF Proceeds
<1>9. Requests'
  BY <1>1, RequestsStep DEF Proceeds
<1>10. Pending'
  BY <1>1, <1>4, PendingStep DEF Proceeds
<1>11. Fresh'
  BY <1>1, <1>4, FreshStep, ZenonT(60) DEF Proceeds
<1>12. Cleaners'
  <2>1. r.pc = "uncordon" => Owns(t)
    BY DEF Proceeds, Sending
  <2> QED
    BY <1>1, <2>1, CleanersStep DEF Proceeds
<1> QED
  BY <1>5, <1>7, <1>8, <1>9, <1>10, <1>11, <1>12 DEF DrainInv

(* In particular when it leaves nodes and pods alone.                         *)
LEMMA QuietStep ==
  ASSUME DrainAssumption, DrainInv, NEW t \in Tasks, NEW n \in Nodes, Advance(t, n), Proceeds(t, n),
         UNCHANGED <<node, pod, kept, freed, killed, crushed, marks>>,
         Spend("faults") \/ UNCHANGED count,
         listed \subseteq listed', listed' \subseteq PodIds
  PROVE  DrainInv'
<1>1. Shapes /\ Pending /\ Marks
  BY DEF DrainInv
<1>2. Marks' /\ killed' \subseteq listed'
  BY <1>1 DEF Marks, Pending
<1>3. Overlap \/ Held'
  BY <1>1, HeldStep DEF Proceeds, DrainInv
<1>4. Roaming \/ Spared'
  BY <1>1, SparedStep DEF Proceeds, DrainInv
<1>5. /\ node' \in [Nodes -> NodeShapes] /\ kept' \subseteq Nodes /\ crushed' \subseteq Pods
      /\ pod' \in [Pods -> [uid : 1..MaxUid, on : Nodes \cup {None}, ending : BOOLEAN]]
  BY <1>1 DEF Shapes
<1> QED
  BY <1>2, <1>3, <1>4, <1>5, WorldStep

(* What the invariant says of a task that is to be moved.                     *)
LEMMA TaskFacts ==
  ASSUME DrainAssumption, DrainInv, NEW t \in Tasks, NEW n \in Nodes, NEW at \in Places \ {"idle"},
         At(t, n, at)
  PROVE  /\ Running(t) /\ task[t][n].pc = at /\ Shapes
         /\ task[t][n].todo \subseteq listed /\ listed \subseteq PodIds
         /\ at \in Removing => task[t][n].at \in listed
         /\ at = "uncordon" => task[t][n].read.mark = task[t][n].owner /\ task[t][n].owner /= 0
         /\ ~Roaming /\ t \in Phases => /\ \A x \in Critical : Home[x] /= n /\ pod[x].on = Home[x]
                                        /\ \A x \in task[t][n].todo : x[1] \notin Critical
                                        /\ at \in Removing => task[t][n].at[1] \notin Critical
         /\ t \in Phases => t \notin Procs
BY DEF DrainInv, At, Pending, Shapes, Requests, Spared, DrainAssumption, Removing

(* Every phase is a task.                                                     *)
LEMMA PhaseFacts ==
  ASSUME NEW e \in Phases
  PROVE  e \in Tasks
BY DEF Tasks

(* drainConcurrent, the listing of pods, the checks, the wait and the reading *)
(* of the node after a failed deletion.                                       *)
LEMMA QuietActions ==
  ASSUME DrainAssumption, DrainInv, NEW e \in Phases, NEW n \in Nodes,
         \/ Dequeue(e, n) \/ ListPods(e, n) \/ NextPod(e, n) \/ Fallback(e, n)
         \/ WaitForDrain(e, n) \/ CheckDelete(e, n) \/ Reread(e, n)
  PROVE  DrainInv'
<1> DEFINE w == task[e][n]
           r == task'[e][n]
<1> USE DEF Places, Ended, Draining, Sending, Removing, history
<1>0. e \in Tasks
  BY PhaseFacts
<1>g. ASSUME NEW to \in Places, Go(e, n, to)
      PROVE  /\ Moved(e, n) /\ r.pc = to /\ r.owner = w.owner /\ r.read = w.read
             /\ r.todo = w.todo /\ r.at = w.at /\ r.late = w.late
  BY <1>0, <1>g, GoFacts DEF DrainInv
<1>f. ASSUME Fail(e, n)
      PROVE  \E to \in {"recover", "failed"} : Go(e, n, to)
  BY <1>f DEF Fail, AfterError
<1> SUFFICES /\ Advance(e, n) /\ Proceeds(e, n)
             /\ UNCHANGED <<node, pod, kept, freed, killed, crushed, marks>>
             /\ Spend("faults") \/ UNCHANGED count
             /\ listed \subseteq listed' /\ listed' \subseteq PodIds
  BY <1>0, QuietStep
<1>1. CASE Dequeue(e, n)
  <2>1. At(e, n, "queued") /\ \E to \in {"done", "cordon"} : Go(e, n, to)
    BY <1>1 DEF Dequeue
  <2>2. UNCHANGED <<proc, session, phase, node, pod, history, marks, count>>
    BY <1>1 DEF Dequeue
  <2>3. /\ Running(e) /\ w.pc = "queued" /\ w.todo \subseteq listed /\ listed \subseteq PodIds
        /\ e \notin Procs /\ (~Roaming => \A x \in w.todo : x[1] \notin Critical)
    BY <1>0, <2>1, TaskFacts
  <2>4. /\ Moved(e, n) /\ r.pc \in {"done", "cordon"} /\ r.owner = w.owner /\ r.read = w.read
        /\ r.todo = w.todo /\ r.at = w.at /\ r.late = w.late
    BY <2>1, <1>g
  <2> QED
    BY <2>2, <2>3, <2>4 DEF Advance, Proceeds
<1>2. CASE ListPods(e, n)
  <2> DEFINE found == {<<x, pod[x].uid>> : x \in PodsOn(n)}
             x1 == [w EXCEPT !.pc = "evict", !.todo = found]
  <2>1. At(e, n, "list") /\ UNCHANGED <<proc, session, phase, node, pod, kept, freed, killed, crushed, marks>>
    BY <1>2 DEF ListPods
  <2>2. /\ Running(e) /\ w.pc = "list" /\ w.todo \subseteq listed /\ listed \subseteq PodIds
        /\ e \notin Procs /\ Shapes
        /\ (~Roaming => /\ \A x \in Critical : Home[x] /= n /\ pod[x].on = Home[x]
                        /\ \A x \in w.todo : x[1] \notin Critical)
    BY <1>0, <2>1, TaskFacts
  <2>3. found \subseteq PodIds
    BY <2>2 DEF Shapes, PodsOn, PodIds
  <2>4. ~Roaming => \A x \in found : x[1] \notin Critical
    BY <2>2 DEF PodsOn
  <2>5. CASE listed' = listed \cup found /\ UNCHANGED count /\ Become(e, n, x1)
    <3>1. w \in TaskShapes
      BY <1>0, <2>2, TaskTyped
    <3> HIDE DEF found
    <3>2. x1 \in TaskShapes
      BY <2>3, <3>1 DEF TaskShapes
    <3>3. /\ x1.pc = "evict" /\ x1.owner = w.owner /\ x1.read = w.read /\ x1.todo = found
          /\ x1.late = w.late
      BY <3>1 DEF TaskShapes
    <3>4. Moved(e, n) /\ r = x1
      BY <1>0, <2>2, <2>5, <3>2, BecomeFacts
    <3> HIDE DEF x1
    <3> QED
      BY <2>1, <2>2, <2>3, <2>4, <2>5, <3>3, <3>4 DEF Advance, Proceeds
  <2>6. CASE Fail(e, n) /\ UNCHANGED listed /\ (UNCHANGED count \/ Spend("faults"))
    <3>1. /\ Moved(e, n) /\ r.pc \in {"recover", "failed"} /\ r.owner = w.owner /\ r.read = w.read
          /\ r.todo = w.todo /\ r.at = w.at /\ r.late = w.late
      BY <2>6, <1>f, <1>g
    <3> QED
      BY <2>1, <2>2, <2>6, <3>1 DEF Advance, Proceeds
  <2> QED
    BY <1>2, <2>5, <2>6 DEF ListPods
<1>3. CASE NextPod(e, n)
  <2>1. At(e, n, "evict") /\ UNCHANGED <<proc, session, phase, node, pod, history, marks, count>>
    BY <1>3 DEF NextPod
  <2>2. /\ Running(e) /\ w.pc = "evict" /\ w.todo \subseteq listed /\ listed \subseteq PodIds
        /\ e \notin Procs /\ Shapes
        /\ (~Roaming => \A x \in w.todo : x[1] \notin Critical)
    BY <1>0, <2>1, TaskFacts
  <2>3. CASE Go(e, n, "wait") \/ Fail(e, n)
    <3>1. /\ Moved(e, n) /\ r.pc \in {"wait", "recover", "failed"} /\ r.owner = w.owner
          /\ r.read = w.read /\ r.todo = w.todo /\ r.at = w.at /\ r.late = w.late
      BY <2>3, <1>f, <1>g
    <3> QED
      BY <2>1, <2>2, <3>1 DEF Advance, Proceeds
  <2>4. ASSUME NEW x \in w.todo, Checked(e),
               Become(e, n, [w EXCEPT !.pc = "evicting", !.at = x, !.todo = @ \ {x}])
        PROVE  Moved(e, n) /\ Proceeds(e, n)
    <3> DEFINE x1 == [w EXCEPT !.pc = "evicting", !.at = x, !.todo = @ \ {x}]
    <3>1. w \in TaskShapes /\ x \in PodIds
      BY <1>0, <2>2, TaskTyped
    <3>2. x1 \in TaskShapes
      BY <3>1 DEF TaskShapes
    <3>3. /\ x1.pc = "evicting" /\ x1.owner = w.owner /\ x1.read = w.read /\ x1.todo = w.todo \ {x}
          /\ x1.late = w.late /\ x1.at = x
      BY <3>1 DEF TaskShapes
    <3>4. Moved(e, n) /\ r = x1
      BY <1>0, <2>2, <2>4, <3>2, BecomeFacts
    <3>5. Owns(e)
      BY <2>4 DEF Checked
    <3> HIDE DEF x1
    <3> QED
      BY <2>1, <2>2, <3>3, <3>4, <3>5 DEF Proceeds
  <2> QED
    BY <1>3, <2>1, <2>2, <2>3, <2>4 DEF NextPod, Advance
<1>4. CASE Fallback(e, n)
  <2>1. At(e, n, "fallback") /\ UNCHANGED <<proc, session, phase, node, pod, history, marks, count>>
    BY <1>4 DEF Fallback
  <2>2. /\ Running(e) /\ w.pc = "fallback" /\ w.todo \subseteq listed /\ listed \subseteq PodIds
        /\ w.at \in listed /\ e \notin Procs
        /\ (~Roaming => w.at[1] \notin Critical /\ \A x \in w.todo : x[1] \notin Critical)
    BY <1>0, <2>1, TaskFacts
  <2>3. /\ Moved(e, n) /\ r.pc \in {"killing", "recover", "failed"} /\ (r.pc = "killing" => Owns(e))
        /\ r.owner = w.owner /\ r.read = w.read /\ r.todo = w.todo /\ r.at = w.at /\ r.late = w.late
    BY <1>4, <1>f, <1>g DEF Fallback, Checked
  <2> QED
    BY <2>1, <2>2, <2>3 DEF Advance, Proceeds
<1>5. CASE WaitForDrain(e, n)
  <2>1. At(e, n, "wait") /\ UNCHANGED <<proc, session, phase, node, pod, history, marks, count>>
    BY <1>5 DEF WaitForDrain
  <2>2. /\ Running(e) /\ w.pc = "wait" /\ w.todo \subseteq listed /\ listed \subseteq PodIds
        /\ e \notin Procs /\ (~Roaming => \A x \in w.todo : x[1] \notin Critical)
    BY <1>0, <2>1, TaskFacts
  <2>3. /\ Moved(e, n) /\ r.pc \in {"delete", "recover", "failed"}
        /\ (r.pc = "delete" => \A x \in Pods : pod[x].on /= n)
        /\ r.owner = w.owner /\ r.read = w.read /\ r.todo = w.todo /\ r.at = w.at /\ r.late = w.late
    BY <1>5, <1>f, <1>g DEF WaitForDrain, PodsOn
  <2> QED
    BY <2>1, <2>2, <2>3 DEF Advance, Proceeds
<1>6. CASE CheckDelete(e, n)
  <2>1. At(e, n, "delete") /\ UNCHANGED <<proc, session, phase, node, pod, history, marks, count>>
    BY <1>6 DEF CheckDelete
  <2>2. /\ Running(e) /\ w.pc = "delete" /\ w.todo \subseteq listed /\ listed \subseteq PodIds
        /\ e \notin Procs /\ (~Roaming => \A x \in w.todo : x[1] \notin Critical)
    BY <1>0, <2>1, TaskFacts
  <2>3. /\ Moved(e, n) /\ r.pc \in {"deleting", "reread"} /\ (r.pc = "deleting" => Owns(e))
        /\ r.owner = w.owner /\ r.read = w.read /\ r.todo = w.todo /\ r.at = w.at /\ r.late = w.late
    BY <1>6, <1>g DEF CheckDelete, Checked
  <2> QED
    BY <2>1, <2>2, <2>3 DEF Advance, Proceeds
<1>7. CASE Reread(e, n)
  <2>1. At(e, n, "reread") /\ UNCHANGED <<proc, session, phase, node, pod, history, marks, count>>
    BY <1>7 DEF Reread
  <2>2. /\ Running(e) /\ w.pc = "reread" /\ w.todo \subseteq listed /\ listed \subseteq PodIds
        /\ e \notin Procs /\ Shapes /\ (~Roaming => \A x \in w.todo : x[1] \notin Critical)
    BY <1>0, <2>1, TaskFacts
  <2>3. CASE Become(e, n, [w EXCEPT !.pc = "recover", !.owner = node[n].mark])
    <3> DEFINE x1 == [w EXCEPT !.pc = "recover", !.owner = node[n].mark]
    <3>1. w \in TaskShapes /\ node[n].mark \in Nat
      BY <1>0, <2>2, TaskTyped, NodeTyped
    <3>2. x1 \in TaskShapes
      BY <3>1 DEF TaskShapes
    <3>3. /\ x1.pc = "recover" /\ x1.owner = node[n].mark /\ x1.read = w.read /\ x1.todo = w.todo
          /\ x1.late = w.late
      BY <3>1 DEF TaskShapes
    <3>4. Moved(e, n) /\ r = x1
      BY <1>0, <2>2, <2>3, <3>2, BecomeFacts
    <3> HIDE DEF x1
    <3> QED
      BY <2>1, <2>2, <3>3, <3>4 DEF Advance, Proceeds
  <2>4. CASE Go(e, n, "failed")
    <3>1. /\ Moved(e, n) /\ r.pc = "failed" /\ r.owner = w.owner /\ r.read = w.read
          /\ r.todo = w.todo /\ r.late = w.late
      BY <2>4, <1>g
    <3> QED
      BY <2>1, <2>2, <3>1 DEF Advance, Proceeds
  <2> QED
    BY <1>7, <2>3, <2>4 DEF Reread
<1> QED
  BY <1>1, <1>2, <1>3, <1>4, <1>5, <1>6, <1>7

(* cordonForDrain reads the node, and draws a marker for one that is free.    *)
LEMMA ReadNodeStep ==
  ASSUME DrainAssumption, DrainInv, NEW e \in Phases, NEW n \in Nodes, ReadNode(e, n)
  PROVE  DrainInv'
<1> DEFINE w == task[e][n]
           r == task'[e][n]
<1> USE DEF Places, Ended, Draining, Sending, Removing, history
<1>0. e \in Tasks
  BY PhaseFacts
<1>1. At(e, n, "cordon") /\ UNCHANGED <<proc, session, phase, node, pod, history, count>>
  BY DEF ReadNode
<1>2. /\ Running(e) /\ w.pc = "cordon" /\ w.todo \subseteq listed /\ listed \subseteq PodIds
      /\ e \notin Procs /\ Shapes /\ (~Roaming => \A x \in w.todo : x[1] \notin Critical)
  BY <1>0, <1>1, TaskFacts
<1>3. CASE /\ UNCHANGED marks
           /\ Go(e, n, "failed") \/ (node[n].up /\ node[n].cordoned /\ Go(e, n, "list"))
  <2>1. /\ Moved(e, n) /\ r.pc \in {"failed", "list"} /\ r.owner = w.owner /\ r.read = w.read
        /\ r.todo = w.todo /\ r.late = w.late
        /\ (r.pc = "list" => node[n].up /\ node[n].cordoned)
    BY <1>0, <1>2, <1>3, GoFacts
  <2>2. Advance(e, n) /\ Proceeds(e, n)
    BY <1>1, <1>2, <2>1 DEF Advance, Proceeds
  <2> QED
    BY <1>0, <1>1, <1>2, <1>3, <2>2, QuietStep
<1>4. CASE /\ node[n].up /\ ~node[n].cordoned /\ Checked(e) /\ marks' = marks + 1
           /\ Become(e, n, [w EXCEPT !.pc = "mark", !.owner = marks + 1, !.read = node[n]])
  <2> DEFINE x1 == [w EXCEPT !.pc = "mark", !.owner = marks + 1, !.read = node[n]]
  <2>1. w \in TaskShapes /\ node[n] \in NodeShapes /\ marks \in Nat /\ marks + 1 \in Nat
    BY <1>0, <1>2, TaskTyped, NodeTyped DEF Shapes
  <2>2. x1 \in TaskShapes
    <3>1. "mark" \in Places
      OBVIOUS
    <3> DEFINE v == w
               nd == node[n]
               mk == marks + 1
    <3>2. v \in TaskShapes /\ nd \in NodeShapes /\ mk \in Nat
      BY <2>1
    <3> HIDE DEF v, nd, mk, Places
    <3>3. [v EXCEPT !.pc = "mark", !.owner = mk, !.read = nd] \in TaskShapes
      BY <3>1, <3>2 DEF TaskShapes
    <3> QED
      BY <3>3 DEF v, nd, mk
  <2>3. /\ x1.pc = "mark" /\ x1.owner = marks + 1 /\ x1.read = node[n] /\ x1.todo = w.todo
        /\ x1.late = w.late
    BY <2>1 DEF TaskShapes
  <2>4. Moved(e, n) /\ r = x1
    BY <1>0, <1>2, <1>4, <2>2, BecomeFacts
  <2> HIDE DEF x1
  <2>5. Advance(e, n) /\ Owns(e)
    BY <1>1, <1>2, <1>4, <2>4 DEF Advance, Checked
  <2>6. Shapes /\ Numbers /\ Lives /\ Requests /\ Pending /\ Fresh /\ Marks /\ Cleaners
    BY DEF DrainInv
  <2>7. Shapes'
    BY <1>1, <1>4, <2>1, <2>4, <2>6 DEF Shapes, Moved
  <2>8. \A m \in Nodes : node[m].mark \in Nat /\ node[m].mark <= marks
    BY <2>6, NodeTyped DEF Numbers
  <2>9. \A u \in Tasks, m \in Nodes :
          /\ task[u][m].read.mark \in Nat /\ task[u][m].read.mark <= marks
          /\ task[u][m].owner \in Nat /\ task[u][m].owner <= marks
    BY <2>6, TaskTyped DEF Numbers
  <2>10. Numbers'
    <3>1. count["joins"] \in Nat
      BY <2>6, BoundsFacts DEF Shapes
    <3>2. /\ \A b \in DOMAIN Bounds : count'[b] <= Bounds[b]
          /\ count["joins"] <= count'["joins"] /\ marks <= marks'
      BY <1>1, <1>4, <2>1, <2>6, <3>1 DEF Numbers
    <3>3. \A m \in Nodes : node'[m].mark <= marks' /\ node'[m].gen <= count'["joins"]
      BY <1>1, <1>4, <2>1, <2>6, <2>8 DEF Numbers
    <3>4. r.owner <= marks' /\ r.read.mark <= marks' /\ r.read.gen <= count'["joins"]
      BY <1>1, <1>4, <2>1, <2>3, <2>4, <2>6, <2>8 DEF Numbers
    <3> HIDE DEF r, w
    <3> QED
      BY <1>0, <2>4, <2>6, <2>7, <3>2, <3>3, <3>4, NumbersStep DEF r
  <2>11. Lives'
    BY <1>0, <1>2, <2>5, <2>6, LivesStep
  <2>12. Requests'
    <3>1. r.owner /= 0
      BY <2>1, <2>3, <2>4
    <3> QED
      BY <1>0, <1>4, <2>3, <2>4, <2>5, <2>6, <3>1, RequestsStep
  <2>13. Pending'
    BY <1>0, <1>1, <1>2, <2>3, <2>4, <2>6, PendingStep DEF Pending
  <2>14. Fresh'
    <3>1. \A m \in Nodes : node'[m].mark /= marks + 1
      BY <1>1, <2>1, <2>8
    <3>2. \A u \in Tasks, m \in Nodes : task'[u][m].read.mark /= marks + 1
      BY <1>0, <2>1, <2>3, <2>4, <2>8, <2>9 DEF Moved
    <3>3. \A u \in Tasks, m \in Nodes :
            task'[u][m].pc = "mark" /\ task'[u][m].owner = marks + 1 => u = e /\ m = n
      BY <1>0, <2>1, <2>4, <2>9 DEF Moved
    <3>4. ASSUME NEW u \in Tasks, NEW m \in Nodes, task'[u][m].pc = "mark"
          PROVE  /\ \A k \in Nodes : node'[k].mark /= task'[u][m].owner
                 /\ \A v \in Tasks, k \in Nodes :
                      /\ task'[v][k].read.mark /= task'[u][m].owner
                      /\ task'[v][k].pc = "mark" /\ task'[v][k].owner = task'[u][m].owner
                           => v = u /\ k = m
      <4>1. CASE u = e /\ m = n
        BY <2>3, <2>4, <3>1, <3>2, <3>3, <4>1
      <4>2. CASE u /= e \/ m /= n
        <5>1. task'[u][m] = task[u][m] /\ task[u][m].owner /= marks + 1
          BY <2>1, <2>4, <2>9, <4>2 DEF Moved
        <5>2. ASSUME NEW v \in Tasks, NEW k \in Nodes
              PROVE  /\ task'[v][k].read.mark /= task'[u][m].owner
                     /\ task'[v][k].pc = "mark" /\ task'[v][k].owner = task'[u][m].owner
                          => v = u /\ k = m
          <6>1. CASE v = e /\ k = n
            BY <2>3, <2>4, <2>6, <3>4, <5>1, <6>1 DEF Fresh
          <6>2. CASE v /= e \/ k /= n
            BY <2>4, <2>6, <3>4, <5>1, <6>2 DEF Fresh, Moved
          <6> QED
            BY <6>1, <6>2
        <5> QED
          BY <1>1, <2>6, <3>4, <5>1, <5>2 DEF Fresh
      <4> QED
        BY <4>1, <4>2
    <3> QED
      BY <3>4 DEF Fresh
  <2>15. Marks'
    BY <1>1, <2>6 DEF Marks
  <2>16. Cleaners'
    BY <1>0, <1>1, <1>2, <2>3, <2>4, <2>5, <2>6, CleanersStep
  <2>17. Overlap \/ Held'
    BY <1>0, <1>1, <2>3, <2>4, <2>5, <2>6, HeldStep DEF DrainInv
  <2>18. Roaming \/ Spared'
    BY <1>0, <1>1, <1>2, <2>3, <2>4, <2>5, <2>6, SparedStep DEF DrainInv
  <2> QED
    BY <2>7, <2>10, <2>11, <2>12, <2>13, <2>14, <2>15, <2>16, <2>17, <2>18 DEF DrainInv
<1> QED
  BY <1>3, <1>4 DEF ReadNode

(* The update that cordons the node under the marker.                         *)
LEMMA SendMarkStep ==
  ASSUME DrainAssumption, DrainInv, NEW e \in Phases, NEW n \in Nodes, SendMark(e, n)
  PROVE  DrainInv'
<1> DEFINE w == task[e][n]
           r == task'[e][n]
<1> USE DEF Places, Ended, Draining, Sending, Removing, history
<1>0. e \in Tasks
  BY PhaseFacts
<1>1. At(e, n, "mark") /\ UNCHANGED <<proc, session, phase, pod, history, marks>>
  BY DEF SendMark
<1>2. /\ Running(e) /\ w.pc = "mark" /\ w.todo \subseteq listed /\ listed \subseteq PodIds
      /\ e \notin Procs /\ Shapes /\ (~Roaming => \A x \in w.todo : x[1] \notin Critical)
  BY <1>0, <1>1, TaskFacts
<1>3. /\ \E to \in {"list", "recover", "failed"} : SentTo(e, n, to)
      /\ UNCHANGED count \/ Spend("faults")
      /\ \/ UNCHANGED node /\ \E to \in {"recover", "failed"} : SentTo(e, n, to)
         \/ node[n] = w.read /\ node' = [node EXCEPT ![n] = Marked(node[n], w.owner)]
  BY DEF SendMark, AfterError
<1>4. /\ Moved(e, n) /\ r.pc \in {"list", "recover", "failed"} /\ r.owner = w.owner
      /\ r.read = w.read /\ r.todo = w.todo
      /\ r.late = IF Owns(e) THEN w.late ELSE w.late + 1
  <2>1. PICK to \in {"list", "recover", "failed"} : SentTo(e, n, to)
    BY <1>3
  <2>2. to \in Places
    BY <2>1
  <2>3. /\ Moved(e, n) /\ r.pc = to /\ r.owner = w.owner /\ r.read = w.read /\ r.todo = w.todo
        /\ r.late = IF Owns(e) THEN w.late ELSE w.late + 1
    BY <1>0, <1>2, <2>1, <2>2, SentToFacts
  <2> QED
    BY <2>1, <2>3
<1>5. Advance(e, n)
  BY <1>1, <1>2, <1>4 DEF Advance
<1>6. CASE UNCHANGED node /\ \E to \in {"recover", "failed"} : SentTo(e, n, to)
  <2>1. r.pc \in {"recover", "failed"}
    BY <1>0, <1>2, <1>6, SentToFacts
  <2>2. Proceeds(e, n)
    BY <1>1, <1>2, <1>4, <2>1 DEF Proceeds
  <2> QED
    BY <1>0, <1>1, <1>2, <1>3, <1>5, <1>6, <2>2, QuietStep
<1>7. CASE node[n] = w.read /\ node' = [node EXCEPT ![n] = Marked(node[n], w.owner)]
  <2>1. node[n].up /\ ~node[n].cordoned /\ node[n] \in NodeShapes /\ w.owner \in Nat /\ w.owner /= 0
    BY <1>0, <1>2, <1>7, NodeTyped, TaskTyped DEF DrainInv, Requests
  <2>2. /\ Marked(node[n], w.owner) \in NodeShapes
        /\ Marked(node[n], w.owner).up = node[n].up /\ Marked(node[n], w.owner).gen = node[n].gen
        /\ Marked(node[n], w.owner).cordoned = TRUE /\ Marked(node[n], w.owner).mark = w.owner
    BY <2>1 DEF Marked, NodeShapes
  <2>3. /\ node' \in [Nodes -> NodeShapes] /\ node'[n].up /\ node'[n].cordoned
        /\ node'[n].mark = w.owner /\ node'[n].gen = node[n].gen
        /\ \A m \in Nodes : m /= n => node'[m] = node[m]
    BY <1>2, <1>7, <2>1, <2>2 DEF Shapes
  <2>4. Proceeds(e, n)
    BY <1>1, <1>2, <1>4, <2>3 DEF Proceeds
  <2>5. Marks'
    BY <1>1, <2>1, <2>3, ZenonT(60) DEF DrainInv, Marks, Shapes
  <2>6. \A m \in Nodes : /\ node[m].up => node'[m].up
                         /\ node[m].cordoned => node'[m].cordoned
    BY <2>3
  <2>7. Overlap \/ Held'
    BY <1>0, <1>1, <1>2, <1>4, <1>5, <2>3, <2>6, HeldStep DEF DrainInv
  <2>8. Roaming \/ Spared'
    BY <1>0, <1>1, <1>2, <1>4, <1>5, SparedStep DEF DrainInv
  <2>9. killed' \subseteq listed'
    BY <1>1 DEF DrainInv, Pending
  <2> QED
    BY <1>0, <1>1, <1>2, <1>3, <1>5, <2>3, <2>4, <2>5, <2>7, <2>8, <2>9, WorldStep DEF Shapes
<1> QED
  BY <1>3, <1>6, <1>7

(* One pod changes, and stays on its node or leaves it.                       *)
LEMMA PodFacts ==
  ASSUME Shapes, NEW x \in Pods, NEW on \in {pod[x].on, None}, NEW ending \in BOOLEAN,
         pod' = [pod EXCEPT ![x].on = on, ![x].ending = ending]
  PROVE  /\ pod' \in [Pods -> [uid : 1..MaxUid, on : Nodes \cup {None}, ending : BOOLEAN]]
         /\ pod'[x].on = on /\ pod'[x].ending = ending
         /\ \A y \in Pods : y /= x => pod'[y] = pod[y]
<1>1. pod \in [Pods -> [uid : 1..MaxUid, on : Nodes \cup {None}, ending : BOOLEAN]]
  BY DEF Shapes
<1>2. pod[x] \in [uid : 1..MaxUid, on : Nodes \cup {None}, ending : BOOLEAN]
  BY <1>1
<1> DEFINE new == [pod[x] EXCEPT !.on = on, !.ending = ending]
<1>3. /\ new \in [uid : 1..MaxUid, on : Nodes \cup {None}, ending : BOOLEAN]
      /\ new.on = on /\ new.ending = ending
  BY <1>2
<1>4. pod' = [pod EXCEPT ![x] = new]
  BY <1>1
<1> HIDE DEF new
<1> QED
  BY <1>1, <1>3, <1>4

(* The eviction, and the deletion of a pod that could not be evicted.         *)
LEMMA RemovePodStep ==
  ASSUME DrainAssumption, DrainInv, NEW e \in Phases, NEW n \in Nodes,
         SendEvict(e, n) \/ SendKill(e, n)
  PROVE  DrainInv'
<1> DEFINE w == task[e][n]
           r == task'[e][n]
           failing == [w EXCEPT !.pc = "evict", !.failed = TRUE]
<1> USE DEF Places, Ended, Draining, Sending, Removing, history
<1>0. e \in Tasks
  BY PhaseFacts
<1>1. /\ At(e, n, "evicting") \/ At(e, n, "killing")
      /\ UNCHANGED <<proc, session, phase, node, kept, freed, listed, crushed, marks>>
      /\ UNCHANGED count \/ Spend("faults")
  BY DEF SendEvict, SendKill
<1>2. /\ Running(e) /\ w.pc \in {"evicting", "killing"} /\ w.todo \subseteq listed
      /\ listed \subseteq PodIds /\ w.at \in listed /\ e \notin Procs /\ Shapes
      /\ (~Roaming => w.at[1] \notin Critical /\ \A x \in w.todo : x[1] \notin Critical)
  BY <1>0, <1>1, TaskFacts
<1>3. /\ \/ SentTo(e, n, "evict") \/ SentTo(e, n, "fallback") \/ Sent(e, n, failing)
      /\ \/ UNCHANGED <<pod, killed>>
         \/ /\ pod' = [pod EXCEPT ![w.at[1]].ending = TRUE] \/
               pod' = [pod EXCEPT ![w.at[1]].on = None, ![w.at[1]].ending = FALSE]
            /\ killed' = killed \cup {w.at}
  BY DEF SendEvict, SendKill
<1>4. /\ Moved(e, n) /\ r.pc \in {"evict", "fallback"} /\ r.owner = w.owner
      /\ r.read = w.read /\ r.todo = w.todo /\ r.at = w.at
      /\ r.late = IF Owns(e) THEN w.late ELSE w.late + 1
  <2>1. CASE SentTo(e, n, "evict") \/ SentTo(e, n, "fallback")
    BY <1>0, <1>2, <2>1, SentToFacts
  <2>2. CASE Sent(e, n, failing)
    <3>1. w \in TaskShapes
      BY <1>0, <1>2, TaskTyped
    <3>2. failing \in TaskShapes
      BY <3>1 DEF TaskShapes
    <3>3. /\ failing.pc = "evict" /\ failing.owner = w.owner /\ failing.read = w.read
          /\ failing.todo = w.todo /\ failing.at = w.at /\ failing.late = w.late
      BY <3>1 DEF TaskShapes
    <3> HIDE DEF failing
    <3> QED
      BY <1>0, <1>2, <2>2, <3>2, <3>3, SentFacts
  <2> QED
    BY <1>3, <2>1, <2>2
<1>5. Advance(e, n)
  BY <1>1, <1>2, <1>4 DEF Advance
<1>6. Proceeds(e, n)
  BY <1>1, <1>2, <1>4 DEF Proceeds
<1>7. CASE UNCHANGED <<pod, killed>>
  BY <1>0, <1>1, <1>2, <1>5, <1>6, <1>7, QuietStep
<1>8. CASE /\ pod' = [pod EXCEPT ![w.at[1]].ending = TRUE] \/
              pod' = [pod EXCEPT ![w.at[1]].on = None, ![w.at[1]].ending = FALSE]
           /\ killed' = killed \cup {w.at}
  <2> DEFINE x == w.at[1]
  <2>1. x \in Pods
    BY <1>2 DEF PodIds
  <2>2. /\ pod' \in [Pods -> [uid : 1..MaxUid, on : Nodes \cup {None}, ending : BOOLEAN]]
        /\ pod'[x].on \in {pod[x].on, None}
        /\ \A y \in Pods : y /= x => pod'[y] = pod[y]
    <3>1. CASE pod' = [pod EXCEPT ![x].ending = TRUE]
      <4>1. pod' = [pod EXCEPT ![x].on = pod[x].on, ![x].ending = TRUE]
        BY <1>2, <2>1, <3>1 DEF Shapes
      <4> HIDE DEF x
      <4> QED
        BY <1>2, <2>1, <4>1, PodFacts
    <3>2. CASE pod' = [pod EXCEPT ![x].on = None, ![x].ending = FALSE]
      <4> HIDE DEF x
      <4> QED
        BY <1>2, <2>1, <3>2, PodFacts
    <3> QED
      BY <1>8, <3>1, <3>2
  <2>3. Marks' /\ killed' \subseteq listed'
    BY <1>1, <1>2, <1>8 DEF DrainInv, Marks, Pending
  <2>4. Overlap \/ Held'
    <3>1. \A y \in Pods : pod'[y].on \in {pod[y].on, None}
      BY <2>2
    <3> QED
      BY <1>0, <1>1, <1>2, <1>4, <1>5, <3>1, HeldStep DEF DrainInv
  <2>5. Roaming \/ Spared'
    <3> SUFFICES ASSUME ~Roaming PROVE Spared'
      OBVIOUS
    <3>1. \A y \in Critical : pod'[y].on = pod[y].on /\ pod'[y].ending = pod[y].ending
      BY <1>2, <2>2 DEF DrainAssumption
    <3>2. \A y \in killed' : y \in killed \/ y[1] \notin Critical
      BY <1>2, <1>8
    <3> QED
      BY <1>0, <1>2, <1>4, <1>5, <3>1, <3>2, SparedStep DEF DrainInv
  <2>6. \A m \in Nodes : node'[m].gen = node[m].gen /\ node'[m].mark = node[m].mark
    BY <1>1
  <2> QED
    BY <1>0, <1>1, <1>2, <1>5, <1>6, <2>2, <2>3, <2>4, <2>5, <2>6, WorldStep DEF Shapes
<1> QED
  BY <1>3, <1>7, <1>8

(* The deletion of the node takes whatever runs on it.                        *)
LEMMA SendDeleteStep ==
  ASSUME DrainAssumption, DrainInv, NEW e \in Phases, NEW n \in Nodes, SendDelete(e, n)
  PROVE  DrainInv'
<1> DEFINE w == task[e][n]
           r == task'[e][n]
<1> USE DEF Places, Ended, Draining, Sending, Removing, history
<1>0. e \in Tasks
  BY PhaseFacts
<1>1. /\ At(e, n, "deleting") /\ UNCHANGED <<proc, session, phase, freed, listed, killed, marks>>
      /\ UNCHANGED count \/ Spend("faults")
  BY DEF SendDelete
<1>2. /\ Running(e) /\ w.pc = "deleting" /\ w.todo \subseteq listed /\ listed \subseteq PodIds
      /\ e \notin Procs /\ Shapes
      /\ (~Roaming => /\ \A x \in Critical : Home[x] /= n /\ pod[x].on = Home[x]
                      /\ \A x \in w.todo : x[1] \notin Critical)
  BY <1>0, <1>1, TaskFacts
<1>3. SentTo(e, n, "done") \/ SentTo(e, n, "reread")
  BY DEF SendDelete
<1>4. /\ Moved(e, n) /\ r.pc \in {"done", "reread"} /\ r.owner = w.owner
      /\ r.read = w.read /\ r.todo = w.todo /\ r.at = w.at
      /\ r.late = IF Owns(e) THEN w.late ELSE w.late + 1
  BY <1>0, <1>2, <1>3, SentToFacts
<1>5. Advance(e, n)
  BY <1>1, <1>2, <1>4 DEF Advance
<1>6. Proceeds(e, n)
  BY <1>1, <1>2, <1>4 DEF Proceeds
<1>7. CASE UNCHANGED <<node, pod, kept, crushed>>
  BY <1>0, <1>1, <1>2, <1>5, <1>6, <1>7, QuietStep
<1>8. CASE /\ node' = [node EXCEPT ![n].up = FALSE, ![n].cordoned = FALSE, ![n].mark = 0]
           /\ pod' = [x \in Pods |-> IF pod[x].on = n THEN [pod[x] EXCEPT !.on = None, !.ending = FALSE]
                                     ELSE pod[x]]
           /\ crushed' = IF Owns(e) /\ n \notin freed THEN crushed \cup PodsOn(n) ELSE crushed
           /\ kept' = kept \ {n}
  <2> DEFINE gone == [node[n] EXCEPT !.up = FALSE, !.cordoned = FALSE, !.mark = 0]
  <2>1. node[n] \in NodeShapes /\ node \in [Nodes -> NodeShapes]
    BY <1>2, NodeTyped DEF Shapes
  <2>2. gone \in NodeShapes /\ gone.gen = node[n].gen /\ gone.mark = 0
    BY <2>1 DEF NodeShapes
  <2>3. node' = [node EXCEPT ![n] = gone]
    BY <1>8, <2>1
  <2> HIDE DEF gone
  <2>4. /\ node' \in [Nodes -> NodeShapes] /\ node'[n].gen = node[n].gen /\ node'[n].mark = 0
        /\ \A m \in Nodes : m /= n => node'[m] = node[m]
    BY <2>1, <2>2, <2>3
  <2>5. /\ pod' \in [Pods -> [uid : 1..MaxUid, on : Nodes \cup {None}, ending : BOOLEAN]]
        /\ \A x \in Pods : /\ pod'[x].on \in {pod[x].on, None}
                           /\ pod[x].on /= n => pod'[x] = pod[x]
    <3> DEFINE PodShapes == [uid : 1..MaxUid, on : Nodes \cup {None}, ending : BOOLEAN]
    <3>1. ASSUME NEW x \in Pods
          PROVE  /\ pod'[x] = IF pod[x].on = n THEN [pod[x] EXCEPT !.on = None, !.ending = FALSE]
                                               ELSE pod[x]
                 /\ pod'[x] \in PodShapes
                 /\ pod'[x].on \in {pod[x].on, None} /\ (pod[x].on /= n => pod'[x] = pod[x])
      <4>1. pod'[x] = IF pod[x].on = n THEN [pod[x] EXCEPT !.on = None, !.ending = FALSE] ELSE pod[x]
        BY <1>8
      <4>2. pod[x] \in PodShapes
        BY <1>2 DEF Shapes
      <4>3. pod'[x] \in PodShapes
        BY <4>1, <4>2
      <4>4. pod'[x].on \in {pod[x].on, None}
        BY <4>1, <4>2
      <4> QED
        BY <4>1, <4>3, <4>4
    <3>2. pod' = [x \in Pods |-> pod'[x]]
      BY <1>8
    <3> HIDE DEF PodShapes
    <3>3. pod' \in [Pods -> PodShapes]
      BY <3>1, <3>2
    <3> QED
      BY <3>1, <3>3 DEF PodShapes
  <2>6. Marks' /\ killed' \subseteq listed' /\ kept' \subseteq Nodes /\ crushed' \subseteq Pods
    BY <1>1, <1>2, <1>8, <2>4 DEF DrainInv, Marks, Pending, Shapes, PodsOn
  <2>7. Overlap \/ Held'
    <3> SUFFICES ASSUME ~Overlap PROVE Held'
      OBVIOUS
    <3>1. Held /\ Lives
      BY DEF DrainInv
    <3>2. \A f \in Phases, m \in Nodes : phase[f].by = None => task[f][m].pc = "idle"
      BY <3>1 DEF Lives
    <3>3. phase[e].by /= None
      BY <1>2 DEF Running, ProcOf
    <3>4. crushed' = {}
      BY <1>0, <1>2, <1>8, <3>1 DEF Held, PodsOn
    <3>5. \A u \in Tasks : Owns(u)' <=> Owns(u)
      BY <1>1 DEF Owns, ProcOf
    <3>6. None \notin Nodes
      BY DEF DrainAssumption, None
    <3>7. ASSUME NEW f \in Phases, NEW m \in Nodes, task'[f][m].pc \in Draining
          PROVE  /\ node'[m].up
                 /\ Owns(f)' /\ m \notin freed' => node'[m].cordoned
                 /\ task'[f][m].pc \in {"delete", "deleting"} /\ Owns(f)' /\ m \notin freed' =>
                      \A x \in Pods : pod'[x].on /= m
      <4>1. f \in Tasks
        BY DEF Tasks
      <4>2. f /= e \/ m /= n
        BY <1>4, <3>7
      <4>3. task'[f][m] = task[f][m]
        BY <1>4, <4>1, <4>2 DEF Moved
      <4>4. f = e
        BY <3>1, <3>2, <3>3, <3>7, <4>3 DEF Held
      <4>5. m /= n /\ node'[m] = node[m]
        BY <2>4, <4>2, <4>4
      <4> QED
        BY <1>1, <2>5, <3>1, <3>5, <3>6, <3>7, <4>1, <4>3, <4>5 DEF Held
    <3>8. \A f, g \in Phases : phase'[f].by /= None /\ phase'[g].by /= None => f = g
      BY <1>1, <3>1 DEF Held
    <3> QED
      BY <3>4, <3>7, <3>8 DEF Held
  <2>8. Roaming \/ Spared'
    <3> SUFFICES ASSUME ~Roaming PROVE Spared'
      OBVIOUS
    <3>1. \A y \in Critical : pod'[y].on = pod[y].on /\ pod'[y].ending = pod[y].ending
      BY <1>2, <2>5 DEF DrainAssumption
    <3> QED
      BY <1>0, <1>1, <1>2, <1>4, <1>5, <3>1, SparedStep DEF DrainInv
  <2>9. \A m \in Nodes : node'[m].gen = node[m].gen /\ node'[m].mark \in {node[m].mark, 0}
    BY <2>4
  <2> QED
    BY <1>0, <1>1, <1>2, <1>5, <1>6, <2>4, <2>5, <2>6, <2>7, <2>8, <2>9, WorldStep DEF Shapes
<1> QED
  BY <1>7, <1>8 DEF SendDelete

(* recoverCordon, of a drain and of a starting process.                       *)
LEMMA RecoveryStep ==
  ASSUME DrainAssumption, DrainInv, NEW t \in Tasks, NEW n \in Nodes, Recovery(t, n)
  PROVE  DrainInv'
<1> DEFINE w == task[t][n]
           r == task'[t][n]
<1> USE DEF Places, Ended, Draining, Sending, Removing, history
<1>0. Recovered(t) \in {"done", "failed"}
  BY DEF Recovered
<1>1. CASE RecoverReads(t, n)
  <2> DEFINE mine == node[n].up /\ w.owner /= 0 /\ node[n].mark = w.owner
  <2>1. At(t, n, "recover") /\ UNCHANGED <<proc, session, phase, node, pod, history, marks, count>>
    BY <1>1 DEF RecoverReads
  <2>2. /\ Running(t) /\ w.pc = "recover" /\ w.todo \subseteq listed /\ listed \subseteq PodIds
        /\ Shapes /\ (~Roaming /\ t \in Phases => \A x \in w.todo : x[1] \notin Critical)
    BY <2>1, TaskFacts
  <2>3. CASE ~mine /\ Go(t, n, Recovered(t))
    <3>1. /\ Moved(t, n) /\ r.pc \in {"done", "failed"} /\ r.owner = w.owner /\ r.read = w.read
          /\ r.todo = w.todo /\ r.late = w.late
      BY <1>0, <2>2, <2>3, GoFacts, ZenonT(60)
    <3>2. node'[n].mark = 0 \/ node'[n].mark /= w.owner
      BY <2>1, <2>3 DEF DrainInv, Marks
    <3>3. Advance(t, n) /\ Proceeds(t, n)
      BY <2>1, <2>2, <3>1, <3>2 DEF Advance, Proceeds
    <3> QED
      BY <2>1, <2>2, <3>3, QuietStep
  <2>4. CASE Go(t, n, "failed")
    <3>1. /\ Moved(t, n) /\ r.pc = "failed" /\ r.owner = w.owner /\ r.read = w.read
          /\ r.todo = w.todo /\ r.late = w.late
      BY <2>2, <2>4, GoFacts
    <3>2. Advance(t, n) /\ Proceeds(t, n)
      BY <2>1, <2>2, <3>1 DEF Advance, Proceeds
    <3> QED
      BY <2>1, <2>2, <3>2, QuietStep
  <2>5. CASE mine /\ Owns(t) /\ Become(t, n, [w EXCEPT !.pc = "uncordon", !.read = node[n]])
    <3> DEFINE x1 == [w EXCEPT !.pc = "uncordon", !.read = node[n]]
    <3>1. w \in TaskShapes /\ node[n] \in NodeShapes
      BY <2>2, TaskTyped, NodeTyped
    <3>2. x1 \in TaskShapes
      BY <3>1 DEF TaskShapes
    <3>3. /\ x1.pc = "uncordon" /\ x1.owner = w.owner /\ x1.read = node[n] /\ x1.todo = w.todo
          /\ x1.late = w.late
      BY <3>1 DEF TaskShapes
    <3>4. Moved(t, n) /\ r = x1
      BY <2>2, <2>5, <3>2, BecomeFacts
    <3> HIDE DEF x1
    <3>5. Advance(t, n) /\ Proceeds(t, n)
      BY <2>1, <2>2, <2>5, <3>3, <3>4 DEF Advance, Proceeds
    <3> QED
      BY <2>1, <2>2, <3>5, QuietStep
  <2> QED
    BY <1>1, <2>3, <2>4, <2>5 DEF RecoverReads
<1>2. CASE SendUncordon(t, n)
  <2>1. /\ At(t, n, "uncordon") /\ UNCHANGED <<proc, session, phase, pod, history, marks>>
        /\ UNCHANGED count \/ Spend("faults")
    BY <1>2 DEF SendUncordon
  <2>2. /\ Running(t) /\ w.pc = "uncordon" /\ w.todo \subseteq listed /\ listed \subseteq PodIds
        /\ Shapes /\ (~Roaming /\ t \in Phases => \A x \in w.todo : x[1] \notin Critical)
        /\ w.read.mark = w.owner /\ w.owner /= 0
    BY <2>1, TaskFacts
  <2>3. ASSUME NEW to \in Places, SentTo(t, n, to)
        PROVE  /\ Moved(t, n) /\ r.pc = to /\ r.owner = w.owner /\ r.read = w.read
               /\ r.todo = w.todo /\ r.late = IF Owns(t) THEN w.late ELSE w.late + 1
    BY <2>2, <2>3, SentToFacts
  <2>4. CASE UNCHANGED node /\ (SentTo(t, n, "recover") \/ SentTo(t, n, "failed"))
    <3>1. /\ Moved(t, n) /\ r.pc \in {"recover", "failed"} /\ r.owner = w.owner /\ r.read = w.read
          /\ r.todo = w.todo /\ r.late = IF Owns(t) THEN w.late ELSE w.late + 1
      BY <2>3, <2>4
    <3>2. Advance(t, n) /\ Proceeds(t, n)
      BY <2>1, <2>2, <3>1 DEF Advance, Proceeds
    <3> QED
      BY <2>1, <2>2, <2>4, <3>2, QuietStep
  <2>5. CASE /\ node[n] = w.read /\ node' = [node EXCEPT ![n].cordoned = FALSE, ![n].mark = 0]
             /\ SentTo(t, n, Recovered(t))
    <3> DEFINE free == [node[n] EXCEPT !.cordoned = FALSE, !.mark = 0]
    <3>1. node[n] \in NodeShapes /\ node \in [Nodes -> NodeShapes]
      BY <2>2, NodeTyped DEF Shapes
    <3>2. free \in NodeShapes /\ free.gen = node[n].gen /\ free.mark = 0 /\ free.up = node[n].up
      BY <3>1 DEF NodeShapes
    <3>3. node' = [node EXCEPT ![n] = free]
      BY <2>5, <3>1
    <3> HIDE DEF free
    <3>4. /\ node' \in [Nodes -> NodeShapes] /\ node'[n].gen = node[n].gen /\ node'[n].mark = 0
          /\ node'[n].up = node[n].up /\ \A m \in Nodes : m /= n => node'[m] = node[m]
      BY <3>1, <3>2, <3>3
    <3>5. /\ Moved(t, n) /\ r.pc \in {"done", "failed"} /\ r.owner = w.owner /\ r.read = w.read
          /\ r.todo = w.todo /\ r.late = IF Owns(t) THEN w.late ELSE w.late + 1
      BY <1>0, <2>3, <2>5
    <3>6. Advance(t, n) /\ Proceeds(t, n)
      BY <2>1, <2>2, <3>4, <3>5 DEF Advance, Proceeds
    <3>7. node[n].mark /= 0
      BY <2>2, <2>5
    <3>8. Marks' /\ killed' \subseteq listed'
      BY <2>1, <2>2, <3>4, <3>7, ZenonT(60) DEF DrainInv, Marks, Pending, Shapes
    <3>9. Overlap \/ Held'
      <4> SUFFICES ASSUME ~Overlap PROVE Held'
        OBVIOUS
      <4>1. Held /\ Lives /\ Cleaners
        BY DEF DrainInv
      <4>2. \A u \in Tasks : Owns(u)' <=> Owns(u)
        BY <2>1 DEF Owns, ProcOf
      <4>3. ASSUME NEW f \in Phases, NEW m \in Nodes, task'[f][m].pc \in Draining
            PROVE  /\ node'[m].up
                   /\ Owns(f)' /\ m \notin freed' => node'[m].cordoned
                   /\ task'[f][m].pc \in {"delete", "deleting"} /\ Owns(f)' /\ m \notin freed' =>
                        \A x \in Pods : pod'[x].on /= m
        <5>1. f \in Tasks
          BY DEF Tasks
        <5>2. f /= t \/ m /= n
          BY <3>5, <4>3
        <5>3. task'[f][m] = task[f][m] /\ task[f][m].pc \in Draining
          BY <3>5, <4>3, <5>1, <5>2 DEF Moved
        <5>4. node'[m].up
          BY <3>4, <4>1, <5>3 DEF Held
        <5>5. m = n => ~Owns(f)
          <6> SUFFICES ASSUME m = n, Owns(f) PROVE FALSE
            OBVIOUS
          <6>1. phase[f].by /= None /\ Running(f)
            BY <4>1, <5>3 DEF Lives, Running, ProcOf, DrainAssumption
          <6> DEFINE p == phase[f].by
          <6>2. p \in Procs /\ session[p] = "live" /\ proc[p] = "up"
            BY <2>2, <4>1, <5>1, <6>1, OwnsFacts DEF Owns, Lives
          <6>3. ProcOf(t) = p
            BY <2>2, <2>5, <4>1, <6>2 DEF Cleaners
          <6>4. t \notin Procs
            BY <2>2, <4>1, <6>2, <6>3 DEF Lives, ProcOf
          <6>5. t \in Phases /\ phase[t].by /= None
            BY <2>2, <6>4 DEF Tasks, Running, ProcOf
          <6>6. t = f
            BY <4>1, <6>1, <6>5 DEF Held
          <6> QED
            BY <2>2, <5>3, <6>6
        <5> QED
          BY <2>1, <3>4, <4>1, <4>2, <5>1, <5>3, <5>4, <5>5 DEF Held
      <4>4. /\ \A f, g \in Phases : phase'[f].by /= None /\ phase'[g].by /= None => f = g
            /\ crushed' = {}
        BY <2>1, <4>1 DEF Held
      <4> QED
        BY <4>3, <4>4 DEF Held
    <3>10. Roaming \/ Spared'
      BY <2>1, <2>2, <3>5, <3>6, SparedStep DEF DrainInv
    <3>11. \A m \in Nodes : node'[m].gen = node[m].gen /\ node'[m].mark \in {node[m].mark, 0}
      BY <3>4
    <3> QED
      BY <2>1, <2>2, <3>4, <3>6, <3>8, <3>9, <3>10, <3>11, WorldStep DEF Shapes
  <2> QED
    BY <1>2, <2>4, <2>5 DEF SendUncordon
<1> QED
  BY <1>1, <1>2 DEF Recovery

(* A task that has just been given out.                                       *)
Blank(r) ==
  /\ r.pc \in {"idle", "queued", "recover"} /\ r.late = 0 /\ r.todo = {}
  /\ r.read = NoRead /\ r.owner <= marks

(* Tasks that are given out are well formed and blank.                        *)
LEMMA NoTaskFacts ==
  ASSUME DrainAssumption, Shapes
  PROVE  /\ NoTask \in TaskShapes /\ NoTask.pc = "idle" /\ NoTask.todo = {} /\ Blank(NoTask)
         /\ NoRead.mark = 0 /\ NoRead.gen = 0
         /\ \A to \in {"queued", "recover"}, k \in Nat :
              k <= marks => LET r == [NoTask EXCEPT !.pc = to, !.owner = k]
                            IN r \in TaskShapes /\ r.pc = to /\ r.owner = k /\ Blank(r)
         /\ LET r == [NoTask EXCEPT !.pc = "queued"]
            IN r \in TaskShapes /\ r.pc = "queued" /\ Blank(r)
<1>1. NoRead \in NodeShapes /\ NoRead.mark = 0 /\ NoRead.gen = 0
  BY DEF NoRead, NodeShapes
<1>2. marks \in Nat
  BY DEF Shapes
<1> HIDE DEF NoRead
<1>3. NoTask \in TaskShapes /\ NoTask.pc = "idle" /\ NoTask.todo = {} /\ Blank(NoTask)
  BY <1>1, <1>2 DEF NoTask, TaskShapes, Places, Ended, Blank
<1>4. ASSUME NEW to \in {"queued", "recover"}, NEW k \in Nat, k <= marks
      PROVE  LET r == [NoTask EXCEPT !.pc = to, !.owner = k]
             IN r \in TaskShapes /\ r.pc = to /\ r.owner = k /\ Blank(r)
  BY <1>1, <1>2, <1>4 DEF NoTask, TaskShapes, Places, Blank
<1>5. LET r == [NoTask EXCEPT !.pc = "queued"]
      IN r \in TaskShapes /\ r.pc = "queued" /\ Blank(r)
  <2>1. "queued" \in Places
    BY DEF Places
  <2> QED
    BY <1>3, <2>1 DEF TaskShapes, Blank
<1> QED
  BY <1>1, <1>3, <1>4, <1>5

(* A step that leaves the cluster alone and gives tasks out or takes them back. *)
LEMMA TableStep ==
  ASSUME DrainAssumption, DrainInv, UNCHANGED <<node, pod, history, marks>>,
         NEW b \in DOMAIN Bounds, Spend(b) \/ UNCHANGED count,
         task' \in [Tasks -> [Nodes -> TaskShapes]],
         \A u \in Tasks, m \in Nodes : task'[u][m] = task[u][m] \/ Blank(task'[u][m]),
         \A u \in Tasks, m \in Nodes : task[u][m].pc /= "idle" /\ Owns(u)' =>
                                         Owns(u) \/ Blank(task'[u][m]),
         proc' \in [Procs -> {"down", "booting", "recovering", "up"}],
         session' \in [Procs -> {"none", "live", "dead"}],
         phase' \in [Phases -> [by : Procs \cup {None}, cancelled : BOOLEAN]],
         Lives', Cleaners', Overlap \/ Held', Roaming \/ Spared'
  PROVE  DrainInv'
<1> USE DEF history
<1>1. Shapes /\ Numbers /\ Lives /\ Requests /\ Pending /\ Fresh /\ Marks /\ Cleaners
  BY DEF DrainInv
<1>2. /\ count' \in [DOMAIN Bounds -> Nat]
      /\ \A c \in DOMAIN Bounds : count'[c] <= Bounds[c]
      /\ count["joins"] <= count'["joins"] /\ count["joins"] \in Nat /\ count'["joins"] \in Nat
  BY <1>1, SpendFacts
<1>3. Shapes'
  BY <1>1, <1>2 DEF Shapes
<1>n. NoRead.mark = 0 /\ NoRead.gen = 0 /\ marks \in Nat
  BY <1>1, NoTaskFacts DEF Shapes
<1>4. Numbers'
  <2>1. ASSUME NEW m \in Nodes
        PROVE  node'[m].mark <= marks' /\ node'[m].gen <= count'["joins"]
    BY <1>1, <1>2, NodeTyped DEF Numbers
  <2>2. ASSUME NEW u \in Tasks, NEW m \in Nodes
        PROVE  /\ task'[u][m].owner <= marks' /\ task'[u][m].read.mark <= marks'
               /\ task'[u][m].read.gen <= count'["joins"]
    <3>1. CASE task'[u][m] = task[u][m]
      BY <1>1, <1>2, <3>1, TaskTyped DEF Numbers
    <3>2. CASE Blank(task'[u][m])
      BY <1>2, <1>n, <3>2 DEF Blank
    <3> QED
      BY <3>1, <3>2
  <2> QED
    BY <1>2, <2>1, <2>2 DEF Numbers
<1>5. Requests'
  <2> SUFFICES ASSUME NEW t \in Tasks, NEW n \in Nodes
               PROVE  LET w == task'[t][n]
                      IN /\ w.pc = "mark" => w.read.up /\ ~w.read.cordoned /\ w.owner /= 0
                         /\ w.pc = "uncordon" => w.read.mark = w.owner /\ w.owner /= 0
                         /\ w.late <= 1
                         /\ w.pc \in Sending => w.late = 0
                         /\ w.pc /= "idle" /\ Owns(t)' => w.late = 0
                         /\ w.pc = "idle" => w.late = 0
    BY DEF Requests
  <2>1. CASE Blank(task'[t][n])
    BY <2>1 DEF Blank
  <2>2. CASE task'[t][n] = task[t][n] /\ ~Blank(task'[t][n])
    BY <1>1, <2>2 DEF Requests
  <2> QED
    BY <2>1, <2>2
<1>6. Pending'
  BY <1>1 DEF Pending, Blank
<1>7. Fresh'
  <2>1. \A t \in Tasks, n \in Nodes : task'[t][n].pc = "mark" => task'[t][n] = task[t][n]
    BY DEF Blank
  <2>2. \A t \in Tasks, n \in Nodes : task[t][n].pc = "mark" => task[t][n].owner /= 0
    BY <1>1 DEF Requests
  <2>3. \A u \in Tasks, m \in Nodes :
          task'[u][m].read.mark = task[u][m].read.mark \/ task'[u][m].read.mark = 0
    BY <1>n DEF Blank
  <2> SUFFICES ASSUME NEW t \in Tasks, NEW n \in Nodes, task'[t][n].pc = "mark"
               PROVE  /\ \A m \in Nodes : node'[m].mark /= task'[t][n].owner
                      /\ \A u \in Tasks, m \in Nodes :
                           /\ task'[u][m].read.mark /= task'[t][n].owner
                           /\ task'[u][m].pc = "mark" /\ task'[u][m].owner = task'[t][n].owner
                                => u = t /\ m = n
    BY DEF Fresh
  <2>4. task'[t][n] = task[t][n] /\ task[t][n].pc = "mark" /\ task[t][n].owner /= 0
    BY <2>1, <2>2
  <2> QED
    BY <1>1, <2>1, <2>3, <2>4 DEF Fresh
<1>8. Marks'
  BY <1>1 DEF Marks
<1> QED
  BY <1>3, <1>4, <1>5, <1>6, <1>7, <1>8 DEF DrainInv

(* AcquireSchedulerOwnership, and the loss of the session.                    *)
LEMMA SessionStep ==
  ASSUME DrainAssumption, DrainInv, NEW p \in Procs, Acquire(p) \/ LoseSession(p)
  PROVE  DrainInv'
<1> USE DEF history
<1>1. Shapes /\ Lives /\ Cleaners
  BY DEF DrainInv
<1>2. /\ UNCHANGED <<phase, task, node, pod, history, marks>>
      /\ "losses" \in DOMAIN Bounds /\ (Spend("losses") \/ UNCHANGED count)
  BY BoundsFacts DEF Acquire, LoseSession
<1>3. /\ proc' \in [Procs -> {"down", "booting", "recovering", "up"}]
      /\ session' \in [Procs -> {"none", "live", "dead"}]
  BY <1>1 DEF Acquire, LoseSession, Shapes
<1>p. \A t \in Tasks, n \in Nodes : task[t][n].pc /= "idle" => ProcOf(t) \in Procs
  BY <1>1 DEF Shapes, Lives, ProcOf, Tasks
<1>4. \A t \in Tasks, n \in Nodes : task[t][n].pc /= "idle" => proc[ProcOf(t)] \in {"recovering", "up"}
  BY <1>1 DEF Lives, Shapes, ProcOf, Tasks
<1>5. \A t \in Tasks, n \in Nodes : task[t][n].pc /= "idle" /\ Owns(t)' => Owns(t)
  BY <1>1, <1>2, <1>4, <1>p DEF Acquire, LoseSession, Owns, ProcOf, Shapes
<1>6. Lives'
  <2>1. CASE Acquire(p)
    <3>1. /\ proc[p] = "down" /\ \A q \in Procs : session[q] /= "live"
          /\ proc'[p] = "booting" /\ session'[p] = "live"
          /\ \A q \in Procs : q /= p => proc'[q] = proc[q] /\ session'[q] = session[q]
      BY <1>1, <2>1 DEF Acquire, Shapes
    <3> QED
      BY <1>1, <1>2, <3>1 DEF Lives, Shapes
  <2>2. CASE LoseSession(p)
    <3>1. /\ session[p] = "live" /\ session'[p] = "dead" /\ proc' = proc
          /\ \A q \in Procs : q /= p => session'[q] = session[q]
      BY <1>1, <2>2 DEF LoseSession, Shapes
    <3> QED
      BY <1>1, <1>2, <3>1 DEF Lives
  <2> QED
    BY <2>1, <2>2
<1>7. Cleaners'
  <2>1. \A t \in Tasks : ProcOf(t)' = ProcOf(t)
    BY <1>2 DEF ProcOf
  <2>2. CASE Acquire(p)
    <3>1. /\ \A q \in Procs : session[q] /= "live" /\ proc'[p] = "booting"
          /\ \A q \in Procs : q /= p => session'[q] = session[q]
      BY <1>1, <2>2 DEF Acquire, Shapes
    <3> QED
      BY <3>1 DEF Cleaners
  <2>3. CASE LoseSession(p)
    <3>1. proc' = proc /\ \A q \in Procs : session'[q] = "live" => session[q] = "live"
      BY <1>1, <2>3 DEF LoseSession, Shapes
    <3> QED
      BY <1>1, <1>2, <2>1, <3>1 DEF Cleaners
  <2> QED
    BY <2>2, <2>3
<1>8. Overlap \/ Held'
  <2> SUFFICES ASSUME ~Overlap PROVE Held'
    OBVIOUS
  <2>1. Held
    BY DEF DrainInv
  <2>2. \A e \in Phases, n \in Nodes : task[e][n].pc \in Draining /\ Owns(e)' => Owns(e)
    BY <1>5 DEF Tasks, Draining
  <2>3. \A e \in Phases, n \in Nodes : task[e][n].pc \in {"delete", "deleting"} => task[e][n].pc \in Draining
    BY DEF Draining
  <2> QED
    BY <1>2, <2>1, <2>2, <2>3 DEF Held
<1>9. Roaming \/ Spared'
  BY <1>2 DEF DrainInv, Spared
<1> QED
  BY <1>1, <1>2, <1>3, <1>5, <1>6, <1>7, <1>8, <1>9, TableStep DEF Shapes

(* Every process ends with its tasks: a crash, a failed start, a lost session. *)
LEMMA ExitStep ==
  ASSUME DrainAssumption, DrainInv, NEW p \in Procs, StartupFails(p) \/ Watch(p) \/ Crash(p)
  PROVE  DrainInv'
<1> USE DEF history
<1>1. Shapes /\ Lives /\ Cleaners
  BY DEF DrainInv
<1>2. /\ Exit(p) /\ "crashes" \in DOMAIN Bounds /\ (Spend("crashes") \/ UNCHANGED count)
  BY BoundsFacts DEF StartupFails, Watch, Crash
<1>3. /\ proc' = [proc EXCEPT ![p] = "down"] /\ session' = [session EXCEPT ![p] = "none"]
      /\ UNCHANGED <<node, pod, history, marks>>
  BY <1>2 DEF Exit
<1>4. /\ proc' \in [Procs -> {"down", "booting", "recovering", "up"}]
      /\ session' \in [Procs -> {"none", "live", "dead"}]
      /\ proc'[p] = "down" /\ session'[p] = "none"
      /\ \A q \in Procs : q /= p => proc'[q] = proc[q] /\ session'[q] = session[q]
  BY <1>1, <1>3 DEF Shapes
<1>5. \A e \in Phases : phase'[e] = IF phase[e].by = p THEN [by |-> None, cancelled |-> FALSE] ELSE phase[e]
  BY <1>2 DEF Exit
<1>6. phase' \in [Phases -> [by : Procs \cup {None}, cancelled : BOOLEAN]]
  <2>1. ASSUME NEW e \in Phases
        PROVE  phase'[e] \in [by : Procs \cup {None}, cancelled : BOOLEAN]
    <3>1. [by |-> None, cancelled |-> FALSE] \in [by : Procs \cup {None}, cancelled : BOOLEAN]
      OBVIOUS
    <3>2. phase[e] \in [by : Procs \cup {None}, cancelled : BOOLEAN]
      BY <1>1 DEF Shapes
    <3> QED
      BY <1>5, <3>1, <3>2
  <2>2. phase' = [e \in Phases |-> phase'[e]]
    BY <1>2 DEF Exit
  <2> QED
    BY <2>1, <2>2
<1>7. /\ p /= None
      /\ \A e \in Phases : /\ phase[e].by = p => phase'[e].by = None
                           /\ phase[e].by /= p => phase'[e] = phase[e]
  BY <1>5 DEF DrainAssumption, None
<1>8. \A t \in Tasks : task'[t] = IF t = p \/ (t \in Phases /\ phase[t].by = p)
                                  THEN [n \in Nodes |-> NoTask] ELSE task[t]
  BY <1>2 DEF Exit
<1>n. NoTask \in TaskShapes /\ NoTask.pc = "idle" /\ NoTask.todo = {} /\ Blank(NoTask)
  BY <1>1, NoTaskFacts
<1>9. /\ \A t \in Tasks, n \in Nodes :
           /\ t = p \/ (t \in Phases /\ phase[t].by = p) => task'[t][n] = NoTask
           /\ ~(t = p \/ (t \in Phases /\ phase[t].by = p)) => task'[t][n] = task[t][n]
      /\ task' \in [Tasks -> [Nodes -> TaskShapes]]
  <2>1. ASSUME NEW t \in Tasks
        PROVE  /\ task'[t] \in [Nodes -> TaskShapes]
               /\ \A n \in Nodes : 
                  /\ t = p \/ (t \in Phases /\ phase[t].by = p) => task'[t][n] = NoTask
                  /\ ~(t = p \/ (t \in Phases /\ phase[t].by = p)) => task'[t][n] = task[t][n]
    BY <1>1, <1>8, <1>n DEF Shapes
  <2>2. task' = [t \in Tasks |-> task'[t]]
    BY <1>2 DEF Exit
  <2> QED
    BY <2>1, <2>2
<1>10. \A t \in Tasks, n \in Nodes : task'[t][n].pc /= "idle" =>
         /\ task'[t][n] = task[t][n] /\ ProcOf(t)' = ProcOf(t) /\ ProcOf(t) /= p
         /\ Owns(t)' <=> Owns(t)
  <2> SUFFICES ASSUME NEW t \in Tasks, NEW n \in Nodes, task'[t][n].pc /= "idle"
               PROVE  /\ task'[t][n] = task[t][n] /\ ProcOf(t)' = ProcOf(t) /\ ProcOf(t) /= p
                      /\ Owns(t)' <=> Owns(t)
    OBVIOUS
  <2>1. ~(t = p \/ (t \in Phases /\ phase[t].by = p)) /\ task'[t][n] = task[t][n]
    BY <1>9, <1>n
  <2>2. ProcOf(t)' = ProcOf(t) /\ ProcOf(t) /= p /\ ProcOf(t) \in Procs
    BY <1>1, <1>7, <2>1 DEF ProcOf, Tasks, Lives, Shapes
  <2> QED
    BY <1>4, <2>1, <2>2 DEF Owns
<1>11. \A t \in Tasks, n \in Nodes : task'[t][n] = task[t][n] \/ Blank(task'[t][n])
  BY <1>9, <1>n
<1>12. \A t \in Tasks, n \in Nodes : task[t][n].pc /= "idle" /\ Owns(t)' =>
                                      Owns(t) \/ Blank(task'[t][n])
  <2> SUFFICES ASSUME NEW t \in Tasks, NEW n \in Nodes, task[t][n].pc /= "idle", Owns(t)'
               PROVE  Owns(t) \/ Blank(task'[t][n])
    OBVIOUS
  <2>1. CASE task'[t][n].pc /= "idle"
    BY <1>10, <2>1
  <2>2. CASE task'[t][n].pc = "idle"
    BY <1>9, <1>n, <2>2
  <2> QED
    BY <2>1, <2>2
<1>13. Lives'
  <2>1. /\ \A q \in Procs : proc'[q] = "down" <=> session'[q] = "none"
        /\ \A q1, q2 \in Procs : session'[q1] = "live" /\ session'[q2] = "live" => q1 = q2
    BY <1>1, <1>4 DEF Lives
  <2>2. \A e \in Phases : phase'[e].by /= None => proc'[phase'[e].by] = "up"
    BY <1>1, <1>4, <1>7 DEF Lives, Shapes
  <2>3. \A e \in Phases, n \in Nodes : phase'[e].by = None => task'[e][n].pc = "idle"
    BY <1>1, <1>7, <1>9, <1>n DEF Lives, Tasks
  <2>4. \A q \in Procs, n \in Nodes :
          /\ task'[q][n].pc \in Ended \cup {"recover", "uncordon"}
          /\ proc'[q] /= "recovering" => task'[q][n].pc = "idle"
    BY <1>1, <1>4, <1>9, <1>n DEF Lives, Tasks, Ended
  <2> QED
    BY <2>1, <2>2, <2>3, <2>4 DEF Lives
<1>14. Cleaners'
  <2> SUFFICES ASSUME NEW q \in Procs, NEW t \in Tasks, NEW n \in Nodes,
                      session'[q] = "live", ProcOf(t)' /= q, task'[t][n].pc = "uncordon",
                      task'[t][n].read.mark = node'[n].mark
               PROVE  \/ proc'[q] = "booting"
                      \/ /\ proc'[q] = "recovering" /\ task'[q][n].owner = node'[n].mark
                         /\ task'[q][n].pc \in {"recover", "uncordon", "failed"}
    BY DEF Cleaners
  <2>1. q /= p /\ session[q] = "live" /\ proc'[q] = proc[q]
    BY <1>4
  <2>2. task'[t][n] = task[t][n] /\ ProcOf(t)' = ProcOf(t)
    BY <1>10
  <2>3. q \in Tasks /\ q \notin Phases
    BY DEF Tasks, DrainAssumption
  <2>4. task'[q][n] = task[q][n]
    BY <1>9, <2>1, <2>3
  <2> QED
    BY <1>1, <1>3, <2>1, <2>2, <2>4 DEF Cleaners
<1>15. Overlap \/ Held'
  <2> SUFFICES ASSUME ~Overlap PROVE Held'
    OBVIOUS
  <2>1. Held
    BY DEF DrainInv
  <2>2. \A e, f \in Phases : phase'[e].by /= None /\ phase'[f].by /= None => e = f
    BY <1>7, <2>1 DEF Held
  <2>3. ASSUME NEW e \in Phases, NEW n \in Nodes, task'[e][n].pc \in Draining
        PROVE  /\ node'[n].up
               /\ Owns(e)' /\ n \notin freed' => node'[n].cordoned
               /\ task'[e][n].pc \in {"delete", "deleting"} /\ Owns(e)' /\ n \notin freed' =>
                    \A x \in Pods : pod'[x].on /= n
    <3>1. task'[e][n] = task[e][n] /\ (Owns(e)' <=> Owns(e))
      BY <1>10, <2>3 DEF Tasks, Draining
    <3> QED
      BY <1>3, <2>1, <2>3, <3>1 DEF Held
  <2>4. \A e \in Phases, n \in Nodes : task'[e][n].pc \in {"delete", "deleting"} => task'[e][n].pc \in Draining
    BY DEF Draining
  <2>5. crushed' = {}
    BY <1>3, <2>1 DEF Held
  <2> QED
    BY <2>2, <2>3, <2>4, <2>5 DEF Held
<1>16. Roaming \/ Spared'
  <2> SUFFICES ASSUME ~Roaming PROVE Spared'
    OBVIOUS
  <2>1. Spared
    BY DEF DrainInv
  <2>2. \A e \in Phases, n \in Nodes : task'[e][n] \in {task[e][n], NoTask}
    BY <1>9 DEF Tasks
  <2> QED
    BY <1>3, <1>n, <2>1, <2>2 DEF Spared
<1> HIDE DEF Exit
<1> QED
  BY <1>2, <1>3, <1>4, <1>6, <1>9, <1>11, <1>12, <1>13, <1>14, <1>15, <1>16, TableStep

(* RecoverOwnedCordons lists the marked nodes; later the process serves.      *)
LEMMA BootStep ==
  ASSUME DrainAssumption, DrainInv, NEW p \in Procs, ListOwned(p) \/ Serve(p)
  PROVE  DrainInv'
<1> USE DEF history
<1>1. Shapes /\ Numbers /\ Lives /\ Requests /\ Marks /\ Cleaners
  BY DEF DrainInv
<1>2. /\ UNCHANGED <<session, phase, node, pod, history, marks, count>>
      /\ "faults" \in DOMAIN Bounds /\ p \in Tasks /\ p \notin Phases
  BY BoundsFacts DEF ListOwned, Serve, Tasks, DrainAssumption
<1>n. NoTask \in TaskShapes /\ NoTask.pc = "idle" /\ NoTask.todo = {} /\ Blank(NoTask)
  BY <1>1, NoTaskFacts
<1>3. /\ proc' \in [Procs -> {"down", "booting", "recovering", "up"}]
      /\ proc[p] \in {"booting", "recovering"} /\ proc'[p] \in {"recovering", "up"}
      /\ \A q \in Procs : q /= p => proc'[q] = proc[q]
  BY <1>1 DEF ListOwned, Serve, Shapes
<1>4. /\ task' \in [Tasks -> [Nodes -> TaskShapes]]
      /\ \A n \in Nodes : /\ Blank(task'[p][n]) /\ task'[p][n].pc \in {"idle", "recover"}
                          /\ proc'[p] = "up" => task'[p][n].pc = "idle"
                          /\ proc'[p] = "recovering" /\ node[n].mark /= 0 =>
                               task'[p][n].owner = node[n].mark /\ task'[p][n].pc = "recover"
      /\ \A u \in Tasks, n \in Nodes : u /= p => task'[u][n] = task[u][n]
  <2>1. CASE ListOwned(p)
    <3> DEFINE F(n) == IF node[n].up /\ node[n].mark /= 0
                       THEN [NoTask EXCEPT !.pc = "recover", !.owner = node[n].mark] ELSE NoTask
    <3>1. ASSUME NEW n \in Nodes
          PROVE  /\ F(n) \in TaskShapes /\ Blank(F(n)) /\ F(n).pc \in {"idle", "recover"}
                 /\ node[n].mark /= 0 => F(n).owner = node[n].mark /\ F(n).pc = "recover"
      <4>1. node[n].mark \in Nat /\ node[n].mark <= marks /\ (node[n].mark /= 0 => node[n].up)
        BY <1>1, NodeTyped DEF Numbers, Marks
      <4>2. CASE node[n].up /\ node[n].mark /= 0
        BY <1>1, <4>1, <4>2, NoTaskFacts
      <4>3. CASE ~(node[n].up /\ node[n].mark /= 0)
        BY <1>n, <4>1, <4>3
      <4> QED
        BY <4>2, <4>3
    <3>2. task' = [task EXCEPT ![p] = [n \in Nodes |-> F(n)]] /\ proc'[p] = "recovering"
      BY <1>1, <2>1 DEF ListOwned, Shapes
    <3> HIDE DEF F
    <3>3. /\ task' \in [Tasks -> [Nodes -> TaskShapes]]
          /\ \A n \in Nodes : task'[p][n] = F(n)
          /\ \A u \in Tasks, n \in Nodes : u /= p => task'[u][n] = task[u][n]
      BY <1>1, <1>2, <3>1, <3>2 DEF Shapes
    <3> QED
      BY <3>1, <3>2, <3>3
  <2>2. CASE Serve(p)
    <3>1. task' = [task EXCEPT ![p] = [n \in Nodes |-> NoTask]] /\ proc'[p] = "up"
      BY <1>1, <2>2 DEF Serve, Shapes
    <3>2. /\ task' \in [Tasks -> [Nodes -> TaskShapes]]
          /\ \A n \in Nodes : task'[p][n] = NoTask
          /\ \A u \in Tasks, n \in Nodes : u /= p => task'[u][n] = task[u][n]
      BY <1>1, <1>2, <1>n, <3>1 DEF Shapes
    <3> QED
      BY <1>n, <3>1, <3>2
  <2> QED
    BY <2>1, <2>2
<1>5. \A t \in Tasks : ProcOf(t)' = ProcOf(t) /\ (Owns(t)' <=> Owns(t))
  BY <1>2 DEF ProcOf, Owns
<1>6. Lives'
  <2>1. /\ \A q \in Procs : proc'[q] = "down" <=> session'[q] = "none"
        /\ \A q1, q2 \in Procs : session'[q1] = "live" /\ session'[q2] = "live" => q1 = q2
    BY <1>1, <1>2, <1>3 DEF Lives
  <2>2. \A e \in Phases : phase'[e].by /= None => proc'[phase'[e].by] = "up"
    BY <1>1, <1>2, <1>3 DEF Lives, Shapes
  <2>3. \A e \in Phases, n \in Nodes : phase'[e].by = None => task'[e][n].pc = "idle"
    BY <1>1, <1>2, <1>4 DEF Lives, Tasks
  <2>4. \A q \in Procs, n \in Nodes :
          /\ task'[q][n].pc \in Ended \cup {"recover", "uncordon"}
          /\ proc'[q] /= "recovering" => task'[q][n].pc = "idle"
    BY <1>1, <1>3, <1>4 DEF Lives, Tasks, Ended
  <2> QED
    BY <2>1, <2>2, <2>3, <2>4 DEF Lives
<1>7. Cleaners'
  <2> SUFFICES ASSUME NEW q \in Procs, NEW t \in Tasks, NEW n \in Nodes,
                      session'[q] = "live", ProcOf(t)' /= q, task'[t][n].pc = "uncordon",
                      task'[t][n].read.mark = node'[n].mark
               PROVE  \/ proc'[q] = "booting"
                      \/ /\ proc'[q] = "recovering" /\ task'[q][n].owner = node'[n].mark
                         /\ task'[q][n].pc \in {"recover", "uncordon", "failed"}
    BY DEF Cleaners
  <2>1. t /= p /\ task'[t][n] = task[t][n]
    BY <1>4
  <2>2. \/ proc[q] = "booting"
        \/ /\ proc[q] = "recovering" /\ task[q][n].owner = node[n].mark
           /\ task[q][n].pc \in {"recover", "uncordon", "failed"}
    BY <1>1, <1>2, <1>5, <2>1 DEF Cleaners
  <2>3. CASE q /= p
    BY <1>2, <1>3, <1>4, <2>2, <2>3 DEF Tasks
  <2>4. CASE q = p /\ ListOwned(p)
    <3>1. proc'[p] = "recovering" /\ node[n].mark /= 0
      BY <1>1, <1>2, <2>1, <2>4, ZenonT(60) DEF ListOwned, Shapes, Requests
    <3> QED
      BY <1>2, <1>4, <2>4, <3>1
  <2>5. CASE q = p /\ Serve(p)
    BY <2>2, <2>5 DEF Serve
  <2> QED
    BY <2>3, <2>4, <2>5
<1>8. \A e \in Phases, n \in Nodes : task'[e][n] = task[e][n]
  BY <1>2, <1>4 DEF Tasks
<1>9. Overlap \/ Held'
  <2>1. \A e \in Phases : Owns(e)' <=> Owns(e)
    BY <1>5 DEF Tasks
  <2> QED
    BY <1>2, <1>8, <2>1 DEF DrainInv, Held
<1>10. Roaming \/ Spared'
  BY <1>2, <1>8 DEF DrainInv, Spared
<1>11. /\ \A u \in Tasks, m \in Nodes : task'[u][m] = task[u][m] \/ Blank(task'[u][m])
       /\ \A u \in Tasks, m \in Nodes : task[u][m].pc /= "idle" /\ Owns(u)' =>
                                         Owns(u) \/ Blank(task'[u][m])
  BY <1>4, <1>5
<1>12. /\ session' \in [Procs -> {"none", "live", "dead"}]
       /\ phase' \in [Phases -> [by : Procs \cup {None}, cancelled : BOOLEAN]]
  BY <1>1, <1>2 DEF Shapes
<1> QED
  BY <1>2, <1>3, <1>4, <1>6, <1>7, <1>9, <1>10, <1>11, <1>12, TableStep

(* A phase starts on the nodes it may touch, is cancelled, and ends.          *)
LEMMA PhaseStep ==
  ASSUME DrainAssumption, DrainInv, NEW e \in Phases,
         (\E p \in Procs : StartPhase(e, p)) \/ Cancel(e) \/ FinishPhase(e)
  PROVE  DrainInv'
<1> USE DEF history
<1> DEFINE PhaseShapes == [by : Procs \cup {None}, cancelled : BOOLEAN]
<1>1. Shapes /\ Lives /\ Cleaners
  BY DEF DrainInv
<1>2. /\ UNCHANGED <<proc, session, node, pod, history, marks>>
      /\ e \in Tasks /\ e \notin Procs
  BY DEF StartPhase, Cancel, FinishPhase, Tasks, DrainAssumption
<1>b. \E b \in DOMAIN Bounds : Spend(b) \/ UNCHANGED count
  BY BoundsFacts DEF StartPhase, Cancel, FinishPhase
<1>n. NoTask \in TaskShapes /\ NoTask.pc = "idle" /\ NoTask.todo = {} /\ Blank(NoTask)
  BY <1>1, NoTaskFacts
<1>3. /\ phase' \in [Phases -> PhaseShapes]
      /\ \A f \in Phases : f /= e => phase'[f] = phase[f]
  <2>1. phase[e] \in PhaseShapes /\ phase \in [Phases -> PhaseShapes]
    BY <1>1 DEF Shapes
  <2>2. \E x \in PhaseShapes : phase' = [phase EXCEPT ![e] = x]
    <3>1. CASE Cancel(e)
      <4>1. [phase[e] EXCEPT !.cancelled = TRUE] \in PhaseShapes
        BY <2>1
      <4>2. phase' = [phase EXCEPT ![e] = [phase[e] EXCEPT !.cancelled = TRUE]]
        BY <2>1, <3>1 DEF Cancel
      <4> QED
        BY <4>1, <4>2
    <3>2. ASSUME NEW p \in Procs, StartPhase(e, p)
          PROVE  \E x \in PhaseShapes : phase' = [phase EXCEPT ![e] = x]
      <4>1. [by |-> p, cancelled |-> FALSE] \in PhaseShapes
        OBVIOUS
      <4> QED
        BY <3>2, <4>1 DEF StartPhase
    <3>3. CASE FinishPhase(e)
      <4>1. [by |-> None, cancelled |-> FALSE] \in PhaseShapes
        OBVIOUS
      <4> QED
        BY <3>3, <4>1 DEF FinishPhase
    <3> QED
      BY <3>1, <3>2, <3>3
  <2> HIDE DEF PhaseShapes
  <2> QED
    BY <2>1, <2>2
<1>4. /\ task' \in [Tasks -> [Nodes -> TaskShapes]]
      /\ \A u \in Tasks, n \in Nodes : u /= e => task'[u][n] = task[u][n]
      /\ \/ \A n \in Nodes : task'[e][n] = task[e][n] /\ phase'[e].by = phase[e].by
         \/ \A n \in Nodes : /\ Blank(task'[e][n]) /\ task'[e][n].pc \in {"idle", "queued"}
                             /\ phase'[e].by = None => task'[e][n].pc = "idle"
                             /\ task'[e][n].pc = "queued" => n \notin CriticalNodes
  <2>1. ASSUME NEW p \in Procs, StartPhase(e, p)
        PROVE  /\ task' \in [Tasks -> [Nodes -> TaskShapes]]
               /\ \A u \in Tasks, n \in Nodes : u /= e => task'[u][n] = task[u][n]
               /\ \A n \in Nodes : /\ Blank(task'[e][n]) /\ task'[e][n].pc \in {"idle", "queued"}
                                   /\ phase'[e].by = None => task'[e][n].pc = "idle"
                                   /\ task'[e][n].pc = "queued" => n \notin CriticalNodes
    <3> DEFINE F(n) == IF node[n].up /\ n \notin Protected \cup CriticalNodes
                       THEN [NoTask EXCEPT !.pc = "queued"] ELSE NoTask
    <3>1. ASSUME NEW n \in Nodes
          PROVE  /\ F(n) \in TaskShapes /\ Blank(F(n)) /\ F(n).pc \in {"idle", "queued"}
                 /\ F(n).pc = "queued" => n \notin CriticalNodes
      <4> DEFINE q == [NoTask EXCEPT !.pc = "queued"]
      <4>1. q \in TaskShapes /\ q.pc = "queued" /\ Blank(q)
        BY <1>1, NoTaskFacts
      <4> HIDE DEF q
      <4>2. F(n) = IF node[n].up /\ n \notin Protected \cup CriticalNodes THEN q ELSE NoTask
        BY DEF q
      <4> HIDE DEF F
      <4> QED
        BY <1>n, <4>1, <4>2
    <3>2. /\ task' = [task EXCEPT ![e] = [n \in Nodes |-> F(n)]]
          /\ phase' = [phase EXCEPT ![e] = [by |-> p, cancelled |-> FALSE]] /\ p /= None
      BY <2>1 DEF StartPhase, DrainAssumption, None
    <3> HIDE DEF F
    <3>3. /\ task' \in [Tasks -> [Nodes -> TaskShapes]]
          /\ \A n \in Nodes : task'[e][n] = F(n)
          /\ \A u \in Tasks, n \in Nodes : u /= e => task'[u][n] = task[u][n]
      BY <1>1, <1>2, <3>1, <3>2 DEF Shapes
    <3>4. phase'[e].by /= None
      BY <1>1, <3>2 DEF Shapes
    <3> QED
      BY <3>1, <3>3, <3>4
  <2>2. CASE Cancel(e)
    <3>1. phase'[e].by = phase[e].by /\ task' = task
      BY <1>1, <2>2 DEF Cancel, Shapes
    <3> QED
      BY <1>1, <3>1 DEF Shapes
  <2>3. CASE FinishPhase(e)
    <3>1. task' = [task EXCEPT ![e] = [n \in Nodes |-> NoTask]]
      BY <2>3 DEF FinishPhase
    <3>2. /\ task' \in [Tasks -> [Nodes -> TaskShapes]]
          /\ \A n \in Nodes : task'[e][n] = NoTask
          /\ \A u \in Tasks, n \in Nodes : u /= e => task'[u][n] = task[u][n]
      BY <1>1, <1>2, <1>n, <3>1 DEF Shapes
    <3> QED
      BY <1>n, <3>2
  <2> QED
    BY <2>1, <2>2, <2>3
<1>5. \A t \in Tasks, n \in Nodes : \/ Blank(task'[t][n]) /\ task'[t][n].pc \in {"idle", "queued"}
                                    \/ /\ task'[t][n] = task[t][n] /\ ProcOf(t)' = ProcOf(t)
                                       /\ Owns(t)' <=> Owns(t)
  <2>1. \A t \in Tasks : t /= e => ProcOf(t)' = ProcOf(t)
    BY <1>3 DEF ProcOf, Tasks
  <2>2. phase'[e].by = phase[e].by => ProcOf(e)' = ProcOf(e)
    BY <1>2 DEF ProcOf
  <2>3. \A t \in Tasks : ProcOf(t)' = ProcOf(t) => (Owns(t)' <=> Owns(t))
    BY <1>2 DEF Owns
  <2> QED
    BY <1>2, <1>4, <2>1, <2>2, <2>3
<1>6. Lives'
  <2>1. /\ \A q \in Procs : proc'[q] = "down" <=> session'[q] = "none"
        /\ \A q1, q2 \in Procs : session'[q1] = "live" /\ session'[q2] = "live" => q1 = q2
    BY <1>1, <1>2 DEF Lives
  <2>2. \A f \in Phases : phase'[f].by /= None => proc'[phase'[f].by] = "up"
    <3>1. phase'[e].by = None \/ phase'[e].by = phase[e].by \/ proc[phase'[e].by] = "up"
      BY <1>1 DEF StartPhase, Cancel, FinishPhase, Shapes
    <3> QED
      BY <1>1, <1>2, <1>3, <3>1 DEF Lives
  <2>3. \A f \in Phases, n \in Nodes : phase'[f].by = None => task'[f][n].pc = "idle"
    BY <1>1, <1>3, <1>4 DEF Lives, Tasks
  <2>4. \A q \in Procs, n \in Nodes :
          /\ task'[q][n].pc \in Ended \cup {"recover", "uncordon"}
          /\ proc'[q] /= "recovering" => task'[q][n].pc = "idle"
    BY <1>1, <1>2, <1>4 DEF Lives, Tasks
  <2> QED
    BY <2>1, <2>2, <2>3, <2>4 DEF Lives
<1>7. Cleaners'
  <2> SUFFICES ASSUME NEW q \in Procs, NEW t \in Tasks, NEW n \in Nodes,
                      session'[q] = "live", ProcOf(t)' /= q, task'[t][n].pc = "uncordon",
                      task'[t][n].read.mark = node'[n].mark
               PROVE  \/ proc'[q] = "booting"
                      \/ /\ proc'[q] = "recovering" /\ task'[q][n].owner = node'[n].mark
                         /\ task'[q][n].pc \in {"recover", "uncordon", "failed"}
    BY DEF Cleaners
  <2>1. task'[t][n] = task[t][n] /\ ProcOf(t)' = ProcOf(t)
    BY <1>5
  <2>2. task'[q][n] = task[q][n]
    BY <1>2, <1>4 DEF Tasks
  <2> QED
    BY <1>1, <1>2, <2>1, <2>2 DEF Cleaners
<1>8. Overlap \/ Held'
  <2> SUFFICES ASSUME ~Overlap PROVE Held'
    OBVIOUS
  <2>1. Held
    BY DEF DrainInv
  <2>2. \A f, g \in Phases : phase'[f].by /= None /\ phase'[g].by /= None => f = g
    <3>1. CASE \E p \in Procs : StartPhase(e, p)
      BY <1>3, <3>1 DEF StartPhase
    <3>2. CASE Cancel(e) \/ FinishPhase(e)
      <4>1. phase'[e].by /= None => phase[e].by /= None
        BY <1>1, <3>2 DEF Cancel, FinishPhase, Shapes
      <4> QED
        BY <1>3, <2>1, <4>1 DEF Held
    <3> QED
      BY <3>1, <3>2
  <2>3. ASSUME NEW f \in Phases, NEW n \in Nodes, task'[f][n].pc \in Draining
        PROVE  /\ node'[n].up
               /\ Owns(f)' /\ n \notin freed' => node'[n].cordoned
               /\ task'[f][n].pc \in {"delete", "deleting"} /\ Owns(f)' /\ n \notin freed' =>
                    \A x \in Pods : pod'[x].on /= n
    <3>1. task'[f][n] = task[f][n] /\ (Owns(f)' <=> Owns(f))
      BY <1>5, <2>3 DEF Tasks, Draining
    <3> QED
      BY <1>2, <2>1, <2>3, <3>1 DEF Held
  <2>4. \A f \in Phases, n \in Nodes : task'[f][n].pc \in {"delete", "deleting"} => task'[f][n].pc \in Draining
    BY DEF Draining
  <2>5. crushed' = {}
    BY <1>2, <2>1 DEF Held
  <2> QED
    BY <2>2, <2>3, <2>4, <2>5 DEF Held
<1>9. Roaming \/ Spared'
  <2> SUFFICES ASSUME ~Roaming PROVE Spared'
    OBVIOUS
  <2>1. Spared
    BY DEF DrainInv
  <2>2. \A x \in Critical, n \in Nodes : n \notin CriticalNodes => Home[x] /= n
    BY <2>1 DEF Spared, CriticalNodes, PodsOn, DrainAssumption
  <2>3. ASSUME NEW f \in Phases, NEW n \in Nodes
        PROVE  /\ task'[f][n].pc /= "idle" => \A x \in Critical : Home[x] /= n
               /\ \A x \in task'[f][n].todo : x[1] \notin Critical
               /\ task'[f][n].pc \in {"evicting", "fallback", "killing"} => task'[f][n].at[1] \notin Critical
    <3>1. \/ task'[f][n] = task[f][n]
          \/ /\ Blank(task'[f][n]) /\ task'[f][n].pc \in {"idle", "queued"}
             /\ task'[f][n].pc = "queued" => n \notin CriticalNodes
      BY <1>4 DEF Tasks
    <3> QED
      BY <2>1, <2>2, <3>1 DEF Spared, Blank
  <2> QED
    BY <1>2, <2>1, <2>3 DEF Spared
<1>10. /\ \A u \in Tasks, m \in Nodes : task'[u][m] = task[u][m] \/ Blank(task'[u][m])
       /\ \A u \in Tasks, m \in Nodes : task[u][m].pc /= "idle" /\ Owns(u)' =>
                                         Owns(u) \/ Blank(task'[u][m])
  BY <1>5
<1>11. /\ proc' \in [Procs -> {"down", "booting", "recovering", "up"}]
       /\ session' \in [Procs -> {"none", "live", "dead"}]
  BY <1>1, <1>2 DEF Shapes
<1>12. PICK b \in DOMAIN Bounds : Spend(b) \/ UNCHANGED count
  BY <1>b
<1> QED
  BY <1>2, <1>3, <1>4, <1>6, <1>7, <1>8, <1>9, <1>10, <1>11, <1>12, TableStep

(* A step of the cluster or of an operator that touches no task.              *)
LEMMA OutsideStep ==
  ASSUME DrainAssumption, DrainInv, UNCHANGED <<proc, session, phase, task, listed, killed, crushed, marks>>,
         Shapes', Marks', Overlap \/ Held', Roaming \/ Spared',
         \A b \in DOMAIN Bounds : count'[b] <= Bounds[b],
         count["joins"] <= count'["joins"],
         \A m \in Nodes : /\ node'[m].mark \in {node[m].mark, 0}
                          /\ node'[m].gen <= count'["joins"]
  PROVE  DrainInv'
<1>1. Shapes /\ Numbers /\ Lives /\ Requests /\ Pending /\ Fresh /\ Cleaners
  BY DEF DrainInv
<1>2. /\ count["joins"] \in Nat /\ count'["joins"] \in Nat /\ marks \in Nat
  BY <1>1, BoundsFacts DEF Shapes
<1>3. Numbers'
  <2>1. \A m \in Nodes : node'[m].mark <= marks'
    BY <1>1, <1>2 DEF Numbers
  <2>2. ASSUME NEW u \in Tasks, NEW m \in Nodes
        PROVE  task'[u][m].read.gen <= count'["joins"]
    BY <1>1, <1>2, TaskTyped DEF Numbers
  <2> QED
    BY <1>1, <2>1, <2>2 DEF Numbers
<1>4. \A u \in Tasks : ProcOf(u)' = ProcOf(u) /\ (Owns(u)' <=> Owns(u))
  BY DEF ProcOf, Owns
<1>5. Lives' /\ Pending'
  BY <1>1 DEF Lives, Pending
<1>6. Requests'
  BY <1>1, <1>4 DEF Requests
<1>7. Fresh'
  BY <1>1 DEF Fresh, Requests
<1>8. Cleaners'
  <2> SUFFICES ASSUME NEW q \in Procs, NEW t \in Tasks, NEW n \in Nodes,
                      session[q] = "live", ProcOf(t) /= q, task[t][n].pc = "uncordon",
                      task[t][n].read.mark = node'[n].mark
               PROVE  \/ proc[q] = "booting"
                      \/ /\ proc[q] = "recovering" /\ task[q][n].owner = node'[n].mark
                         /\ task[q][n].pc \in {"recover", "uncordon", "failed"}
    BY <1>4 DEF Cleaners
  <2>1. node'[n].mark = node[n].mark
    BY <1>1 DEF Requests
  <2> QED
    BY <1>1, <2>1 DEF Cleaners
<1> QED
  BY <1>3, <1>5, <1>6, <1>7, <1>8 DEF DrainInv

(* An operator cordons or releases a node.                                    *)
LEMMA OperatorStep ==
  ASSUME DrainAssumption, DrainInv, NEW n \in Nodes, OperatorCordons(n) \/ OperatorUncordons(n)
  PROVE  DrainInv'
<1> USE DEF history
<1>1. Shapes /\ Numbers /\ Marks
  BY DEF DrainInv
<1>2. /\ UNCHANGED <<proc, session, phase, task, pod, listed, killed, crushed, marks>>
      /\ "meddling" \in DOMAIN Bounds /\ Spend("meddling")
  BY BoundsFacts DEF OperatorCordons, OperatorUncordons
<1>3. /\ count' \in [DOMAIN Bounds -> Nat]
      /\ \A c \in DOMAIN Bounds : count'[c] <= Bounds[c]
      /\ count["joins"] <= count'["joins"] /\ count["joins"] \in Nat /\ count'["joins"] \in Nat
  BY <1>1, <1>2, SpendFacts
<1>4. \E b \in BOOLEAN :
        /\ node' = [node EXCEPT ![n].cordoned = b, ![n].mark = 0] /\ node[n].up
        /\ b => kept' = kept \cup {n} /\ freed' = freed
        /\ ~b => kept' = kept \ {n} /\ freed' = freed \cup {n}
  BY DEF OperatorCordons, OperatorUncordons
<1>5. PICK b \in BOOLEAN :
        /\ node' = [node EXCEPT ![n].cordoned = b, ![n].mark = 0] /\ node[n].up
        /\ b => kept' = kept \cup {n} /\ freed' = freed
        /\ ~b => kept' = kept \ {n} /\ freed' = freed \cup {n}
  BY <1>4
<1> DEFINE new == [node[n] EXCEPT !.cordoned = b, !.mark = 0]
<1>6. node[n] \in NodeShapes /\ node \in [Nodes -> NodeShapes]
  BY <1>1, NodeTyped DEF Shapes
<1>7. /\ new \in NodeShapes /\ new.gen = node[n].gen /\ new.mark = 0 /\ new.up = node[n].up
      /\ new.cordoned = b
  BY <1>6 DEF NodeShapes
<1>8. node' = [node EXCEPT ![n] = new]
  BY <1>5, <1>6
<1> HIDE DEF new
<1>9. /\ node' \in [Nodes -> NodeShapes] /\ node'[n].gen = node[n].gen /\ node'[n].mark = 0
      /\ node'[n].up = node[n].up /\ node'[n].cordoned = b
      /\ \A m \in Nodes : m /= n => node'[m] = node[m]
  BY <1>6, <1>7, <1>8
<1>10. Shapes'
  BY <1>1, <1>2, <1>3, <1>5, <1>9 DEF Shapes
<1>11. Marks'
  BY <1>1, <1>5, <1>9 DEF Marks, Shapes
<1>12. Overlap \/ Held'
  <2> SUFFICES ASSUME ~Overlap PROVE Held'
    OBVIOUS
  <2>1. Held
    BY DEF DrainInv
  <2>2. \A u \in Phases : Owns(u)' <=> Owns(u)
    BY <1>2 DEF Owns, ProcOf
  <2>3. \A m \in Nodes : /\ node'[m].up = node[m].up
                         /\ node[m].cordoned => node'[m].cordoned \/ m \in freed'
                         /\ m \in freed => m \in freed'
    BY <1>5, <1>9
  <2>4. \A m \in Nodes : m \notin freed' => m \notin freed /\ (node[m].cordoned => node'[m].cordoned)
    BY <2>3
  <2> QED
    BY <1>2, <2>1, <2>2, <2>3, <2>4 DEF Held
<1>13. Roaming \/ Spared'
  BY <1>2 DEF DrainInv, Spared
<1>14. \A m \in Nodes : node'[m].mark \in {node[m].mark, 0} /\ node'[m].gen <= count'["joins"]
  BY <1>1, <1>3, <1>9, NodeTyped DEF Numbers
<1> QED
  BY <1>2, <1>3, <1>10, <1>11, <1>12, <1>13, <1>14, OutsideStep

(* The node registers again.                                                  *)
LEMMA JoinStep ==
  ASSUME DrainAssumption, DrainInv, NEW n \in Nodes, NodeJoins(n)
  PROVE  DrainInv'
<1> USE DEF history
<1>1. Shapes /\ Numbers /\ Marks
  BY DEF DrainInv
<1>2. /\ UNCHANGED <<proc, session, phase, task, pod, kept, freed, listed, killed, crushed, marks>>
      /\ "joins" \in DOMAIN Bounds /\ Spend("joins") /\ ~node[n].up
  BY BoundsFacts DEF NodeJoins
<1>3. /\ count' \in [DOMAIN Bounds -> Nat]
      /\ \A c \in DOMAIN Bounds : count'[c] <= Bounds[c]
      /\ count["joins"] <= count'["joins"] /\ count["joins"] \in Nat /\ count'["joins"] \in Nat
  BY <1>1, <1>2, SpendFacts
<1>4. count'["joins"] = count["joins"] + 1
  BY <1>1, <1>2 DEF Spend, Shapes
<1> DEFINE new == [up |-> TRUE, gen |-> node[n].gen + 1, cordoned |-> FALSE, mark |-> 0]
<1>5. node \in [Nodes -> NodeShapes] /\ node[n].gen \in Nat /\ node[n].gen <= count["joins"]
  BY <1>1, NodeTyped DEF Shapes, Numbers
<1>6. /\ new \in NodeShapes /\ new.gen = node[n].gen + 1 /\ new.mark = 0 /\ new.up
  BY <1>5 DEF NodeShapes
<1>7. node' = [node EXCEPT ![n] = new]
  BY <1>5 DEF NodeJoins
<1> HIDE DEF new
<1>8. /\ node' \in [Nodes -> NodeShapes] /\ node'[n].gen = node[n].gen + 1 /\ node'[n].mark = 0
      /\ node'[n].up /\ \A m \in Nodes : m /= n => node'[m] = node[m]
  BY <1>5, <1>6, <1>7
<1>9. Shapes'
  BY <1>1, <1>2, <1>3, <1>8 DEF Shapes
<1>10. Marks'
  BY <1>1, <1>2, <1>8, ZenonT(60) DEF Marks, Shapes
<1>11. Overlap \/ Held'
  <2> SUFFICES ASSUME ~Overlap PROVE Held'
    OBVIOUS
  <2>1. Held
    BY DEF DrainInv
  <2>2. \A u \in Phases : Owns(u)' <=> Owns(u)
    BY <1>2 DEF Owns, ProcOf
  <2>3. \A u \in Phases : task[u][n].pc \notin Draining /\ task[u][n].pc \notin {"delete", "deleting"}
    BY <1>2, <2>1 DEF Held, Draining
  <2> QED
    BY <1>2, <1>8, <2>1, <2>2, <2>3 DEF Held
<1>12. Roaming \/ Spared'
  BY <1>2 DEF DrainInv, Spared
<1>13. \A m \in Nodes : node'[m].mark \in {node[m].mark, 0} /\ node'[m].gen <= count'["joins"]
  BY <1>1, <1>3, <1>4, <1>5, <1>8, NodeTyped DEF Numbers
<1> QED
  BY <1>2, <1>3, <1>9, <1>10, <1>11, <1>12, <1>13, OutsideStep

(* Pods end, and start on nodes that accept them.                             *)
LEMMA PodStep ==
  ASSUME DrainAssumption, DrainInv, NEW x \in Pods,
         PodEnds(x) \/ \E n \in Nodes : PodStarts(x, n)
  PROVE  DrainInv'
<1> USE DEF history
<1>1. Shapes /\ Numbers /\ Marks
  BY DEF DrainInv
<1>2. UNCHANGED <<proc, session, phase, task, node, history, marks, count>>
  BY DEF PodEnds, PodStarts
<1>n. None \notin Nodes
  BY DEF DrainAssumption, None
<1>3. /\ pod' \in [Pods -> [uid : 1..MaxUid, on : Nodes \cup {None}, ending : BOOLEAN]]
      /\ \A y \in Pods : y /= x => pod'[y] = pod[y]
      /\ pod'[x].on = None \/ (pod'[x].on \in Nodes /\ ~node[pod'[x].on].cordoned)
      /\ ~Roaming /\ x \in Critical => pod[x].on = None \/ pod[x].ending
  <2>1. CASE PodEnds(x)
    BY <1>1, <2>1, PodFacts DEF PodEnds
  <2>2. ASSUME NEW n \in Nodes, PodStarts(x, n)
        PROVE  /\ pod' \in [Pods -> [uid : 1..MaxUid, on : Nodes \cup {None}, ending : BOOLEAN]]
               /\ \A y \in Pods : y /= x => pod'[y] = pod[y]
               /\ pod'[x].on = n /\ ~node[n].cordoned /\ pod[x].on = None
    <3> DEFINE new == [uid |-> pod[x].uid + 1, on |-> n, ending |-> FALSE]
               PodShapes == [uid : 1..MaxUid, on : Nodes \cup {None}, ending : BOOLEAN]
    <3>1. pod \in [Pods -> PodShapes] /\ pod[x].uid \in 1..MaxUid
      BY <1>1 DEF Shapes
    <3>2. pod[x].uid + 1 \in 1..MaxUid
      BY <2>2, <3>1 DEF PodStarts, DrainAssumption
    <3>3. new \in PodShapes /\ new.on = n
      BY <3>2
    <3>4. pod' = [pod EXCEPT ![x] = new]
      BY <2>2 DEF PodStarts
    <3> HIDE DEF new, PodShapes
    <3>5. pod' \in [Pods -> PodShapes] /\ pod'[x].on = n /\ \A y \in Pods : y /= x => pod'[y] = pod[y]
      BY <3>1, <3>3, <3>4
    <3> QED
      BY <2>2, <3>5 DEF PodStarts, PodShapes
  <2> QED
    BY <2>1, <2>2
<1>4. Shapes' /\ Marks'
  BY <1>1, <1>2, <1>3 DEF Shapes, Marks
<1>5. Overlap \/ Held'
  <2> SUFFICES ASSUME ~Overlap PROVE Held'
    OBVIOUS
  <2>1. Held
    BY DEF DrainInv
  <2>2. \A u \in Phases : Owns(u)' <=> Owns(u)
    BY <1>2 DEF Owns, ProcOf
  <2>3. ASSUME NEW e \in Phases, NEW n \in Nodes, task[e][n].pc \in {"delete", "deleting"},
               Owns(e), n \notin freed, NEW y \in Pods
        PROVE  pod'[y].on /= n
    <3>1. node[n].cordoned /\ pod[y].on /= n
      BY <2>1, <2>3 DEF Held, Draining
    <3> QED
      BY <1>3, <1>n, <3>1
  <2> QED
    BY <1>2, <2>1, <2>2, <2>3 DEF Held
<1>6. Roaming \/ Spared'
  <2> SUFFICES ASSUME ~Roaming PROVE Spared'
    OBVIOUS
  <2>1. Spared
    BY DEF DrainInv
  <2>2. x \notin Critical
    BY <1>3, <1>n, <2>1 DEF Spared, DrainAssumption
  <2>3. \A y \in Critical : pod'[y] = pod[y]
    BY <1>3, <2>2 DEF DrainAssumption
  <2> QED
    BY <1>2, <2>1, <2>3 DEF Spared
<1>7. \A b \in DOMAIN Bounds : count'[b] <= Bounds[b]
  BY <1>1, <1>2 DEF Numbers
<1>8. /\ count["joins"] <= count'["joins"]
      /\ \A m \in Nodes : node'[m].mark \in {node[m].mark, 0} /\ node'[m].gen <= count'["joins"]
  <2>1. count["joins"] \in Nat
    BY <1>1, BoundsFacts DEF Shapes
  <2> QED
    BY <1>1, <1>2, <2>1 DEF Numbers
<1> QED
  BY <1>2, <1>4, <1>5, <1>6, <1>7, <1>8, OutsideStep

(* The initial states.                                                        *)
LEMMA DrainInit ==
  ASSUME DrainAssumption, Init
  PROVE  DrainInv
<1>1. /\ DOMAIN Bounds = {"phases", "faults", "crashes", "losses", "meddling", "joins"}
      /\ \A b \in DOMAIN Bounds : Bounds[b] \in Nat /\ count[b] = 0
  BY BoundsFacts DEF Init
<1>2. NoTask \in TaskShapes
  <2>1. NoRead \in NodeShapes
    BY DEF NoRead, NodeShapes
  <2> QED
    BY <2>1 DEF NoTask, TaskShapes, Places, Ended
<1>3. /\ NoTask.pc = "idle" /\ NoTask.late = 0 /\ NoTask.todo = {} /\ NoTask.owner = 0
      /\ NoTask.read.mark = 0 /\ NoTask.read.gen = 0
  BY DEF NoTask, NoRead
<1>4. \A t \in Tasks, n \in Nodes : task[t][n] = NoTask
  BY DEF Init
<1>5. \A n \in Nodes : /\ node[n] \in NodeShapes /\ node[n].mark = 0 /\ node[n].gen = 0 /\ node[n].up
                       /\ node[n].cordoned <=> n \in kept
  <2> SUFFICES ASSUME NEW n \in Nodes
               PROVE  /\ node[n] \in NodeShapes /\ node[n].mark = 0 /\ node[n].gen = 0 /\ node[n].up
                      /\ node[n].cordoned <=> n \in kept
    OBVIOUS
  <2> DEFINE c == n \in kept
  <2>1. c \in BOOLEAN
    OBVIOUS
  <2>2. node[n] = [up |-> TRUE, gen |-> 0, cordoned |-> c, mark |-> 0]
    BY DEF Init
  <2> HIDE DEF c
  <2>3. /\ node[n] \in NodeShapes /\ node[n].mark = 0 /\ node[n].gen = 0 /\ node[n].up
        /\ node[n].cordoned = c
    BY <2>1, <2>2 DEF NodeShapes
  <2> QED
    BY <2>3 DEF c
<1>6. \A x \in Pods : /\ pod[x] \in [uid : 1..MaxUid, on : Nodes \cup {None}, ending : BOOLEAN]
                      /\ pod[x].on = Home[x] /\ ~pod[x].ending
  BY DEF Init, DrainAssumption
<1>7. Shapes
  <2>1. task \in [Tasks -> [Nodes -> TaskShapes]]
    BY <1>2 DEF Init
  <2>2. node \in [Nodes -> NodeShapes]
    BY <1>5 DEF Init
  <2>3. pod \in [Pods -> [uid : 1..MaxUid, on : Nodes \cup {None}, ending : BOOLEAN]]
    BY <1>6 DEF Init
  <2>4. phase \in [Phases -> [by : Procs \cup {None}, cancelled : BOOLEAN]]
    BY DEF Init
  <2> QED
    BY <2>1, <2>2, <2>3, <2>4 DEF Init, Shapes
<1>8. Numbers
  BY <1>1, <1>3, <1>4, <1>5 DEF Init, Numbers
<1>9. Lives
  BY <1>3, <1>4 DEF Init, Lives, Tasks, Ended
<1>10. Requests
  BY <1>3, <1>4 DEF Requests, Sending
<1>11. Pending /\ Fresh /\ Cleaners
  BY <1>3, <1>4 DEF Init, Pending, Fresh, Cleaners
<1>12. Marks
  BY <1>5 DEF Init, Marks
<1>13. Held
  BY <1>3, <1>4 DEF Init, Held, Tasks, Draining
<1>14. Spared
  BY <1>3, <1>4, <1>6 DEF Init, Spared, Tasks, DrainAssumption
<1> QED
  BY <1>7, <1>8, <1>9, <1>10, <1>11, <1>12, <1>13, <1>14 DEF DrainInv

(* Every step keeps the invariant.                                            *)
LEMMA DrainNext ==
  ASSUME DrainAssumption, DrainInv, [Next]_vars
  PROVE  DrainInv'
<1>1. ASSUME NEW p \in Procs, Boot(p) \/ Crash(p) \/ LoseSession(p)
      PROVE  DrainInv'
  BY <1>1, SessionStep, BootStep, ExitStep DEF Boot
<1>2. ASSUME NEW e \in Phases, (\E p \in Procs : StartPhase(e, p)) \/ Cancel(e) \/ FinishPhase(e)
      PROVE  DrainInv'
  BY <1>2, PhaseStep
<1>3. ASSUME NEW e \in Phases, NEW n \in Nodes, Step(e, n)
      PROVE  DrainInv'
  BY <1>3, QuietActions, ReadNodeStep, SendMarkStep, RemovePodStep, SendDeleteStep DEF Step
<1>4. ASSUME NEW t \in Tasks, NEW n \in Nodes, Recovery(t, n)
      PROVE  DrainInv'
  BY <1>4, RecoveryStep
<1>5. ASSUME NEW n \in Nodes, OperatorCordons(n) \/ OperatorUncordons(n) \/ NodeJoins(n)
      PROVE  DrainInv'
  BY <1>5, OperatorStep, JoinStep
<1>6. ASSUME NEW x \in Pods, PodEnds(x) \/ \E n \in Nodes : PodStarts(x, n)
      PROVE  DrainInv'
  BY <1>6, PodStep
<1>7. CASE UNCHANGED vars
  <2>1. UNCHANGED <<proc, session, phase, task, node, pod, kept, freed, listed, killed, crushed, marks, count>>
    BY <1>7 DEF vars
  <2>2. \A t \in Tasks : ProcOf(t)' = ProcOf(t) /\ (Owns(t)' <=> Owns(t))
    BY <2>1 DEF ProcOf, Owns
  <2>3. \A e \in Phases : Owns(e)' <=> Owns(e)
    BY <2>2 DEF Tasks
  <2>4. (Shapes /\ Numbers /\ Lives /\ Pending /\ Fresh /\ Marks)'
    BY <2>1 DEF DrainInv, Shapes, Numbers, Lives, Pending, Fresh, Marks
  <2>5. Requests' /\ Cleaners'
    BY <2>1, <2>2 DEF DrainInv, Requests, Cleaners
  <2>6. (Overlap \/ Held') /\ (Roaming \/ Spared')
    BY <2>1, <2>3 DEF DrainInv, Held, Spared
  <2> QED
    BY <2>4, <2>5, <2>6 DEF DrainInv
<1> QED
  BY <1>1, <1>2, <1>3, <1>4, <1>5, <1>6, <1>7 DEF Next

(* The invariant says what was promised.                                      *)
LEMMA DrainImplies ==
  ASSUME DrainAssumption, DrainInv
  PROVE  DrainSafe
<1>1. Shapes /\ Numbers /\ Lives /\ Requests /\ Pending /\ Fresh /\ Marks /\ Cleaners
  BY DEF DrainInv
<1>2. /\ \A b \in DOMAIN Bounds : Bounds[b] \in Nat /\ count[b] \in Nat
      /\ Bounds["joins"] = MaxJoins /\ "joins" \in DOMAIN Bounds /\ MaxJoins \in Nat
  BY <1>1, BoundsFacts DEF Shapes, DrainAssumption
<1>3. count["joins"] <= MaxJoins
  BY <1>1, <1>2 DEF Numbers
<1>4. TypeOK
  <2>1. ASSUME NEW d \in NodeShapes, d.mark <= marks, d.gen <= count["joins"]
        PROVE  d \in NodeStates
    <3>1. d.mark \in 0..marks /\ d.gen \in 0..MaxJoins
      BY <1>1, <1>2, <1>3, <2>1 DEF NodeShapes, Shapes
    <3> QED
      BY <2>1, <3>1 DEF NodeShapes, NodeStates
  <2>2. \A n \in Nodes : node[n] \in NodeStates
    BY <1>1, <2>1, NodeTyped DEF Numbers
  <2>3. node \in [Nodes -> NodeStates]
    BY <1>1, <2>2 DEF Shapes
  <2>4. ASSUME NEW t \in Tasks, NEW n \in Nodes
        PROVE  /\ task[t][n].owner \in 0..marks /\ task[t][n].read \in NodeStates
               /\ task[t][n].todo \subseteq listed
    <3>1. task[t][n].owner \in 0..marks
      BY <1>1, TaskTyped DEF Numbers, Shapes
    <3>2. task[t][n].read \in NodeStates
      BY <1>1, <2>1, TaskTyped DEF Numbers
    <3> QED
      BY <1>1, <3>1, <3>2 DEF Pending
  <2>5. \A b \in DOMAIN Bounds : count[b] \in 0..Bounds[b]
    BY <1>1, <1>2 DEF Numbers
  <2> QED
    BY <1>1, <2>3, <2>4, <2>5 DEF TypeOK, Shapes
<1>5. OperatorCordonKept /\ LateAtMostOne /\ OnlyListedPods
  BY <1>1 DEF OperatorCordonKept, LateAtMostOne, OnlyListedPods, Marks, Requests, Pending
<1>6. Overlap \/ (CordonHeld /\ DeletedEmpty)
  BY DEF DrainInv, Held, CordonHeld, DeletedEmpty
<1>7. Roaming \/ CriticalSpared
  BY DEF DrainInv, Spared, CriticalSpared
<1> QED
  BY <1>4, <1>5, <1>6, <1>7 DEF DrainSafe

(* Whatever processes lose their lock, crash and start over, whatever requests *)
(* fail or are applied late and whatever operators do: DrainNode, DeleteNode  *)
(* and RecoverOwnedCordons never undo an operator's cordon, remove only pods  *)
(* they listed and send at most one request per node without the lock; one    *)
(* phase at a time keeps its cordon and deletes only empty nodes; and critical *)
(* pods that stay where they are survive.                                     *)
THEOREM DrainsSafe ==
  ASSUME DrainAssumption
  PROVE  Spec => []DrainSafe
<1>1. Init => DrainInv
  BY DrainInit
<1>2. DrainInv /\ [Next]_vars => DrainInv'
  BY DrainNext
<1>3. DrainInv => DrainSafe
  BY DrainImplies
<1> QED
  BY <1>1, <1>2, <1>3, PTL DEF Spec

----------------------------------------------------------------------------
(* The audit trail: listings, newest first.                                   *)

(* A listing holds every entry at its place.                                  *)
LEMMA Listing ==
  ASSUME NEW S \in SUBSET Nat, IsFiniteSet(S)
  PROVE  /\ NewestFirst(S) \in Seq(Nat) /\ Len(NewestFirst(S)) = Cardinality(S) /\ Cardinality(S) \in Nat
         /\ \A n \in S : /\ Cardinality({m \in S : m > n}) \in 0..(Cardinality(S) - 1)
                         /\ NewestFirst(S)[Cardinality({m \in S : m > n}) + 1] = n
<1>1. Cardinality(S) \in Nat
  BY FS_CardinalityType
<1>2. \A k \in 1..Cardinality(S) : NewestFirst(S)[k] = CHOOSE n \in S : Cardinality({m \in S : m >= n}) = k
  BY DEF NewestFirst
<1>3. \A k \in 1..Cardinality(S) : NewestFirst(S)[k] \in S /\ Cardinality({m \in S : m >= NewestFirst(S)[k]}) = k
  <2>1. \A k \in 1..Cardinality(S) : \E n \in S : Cardinality({m \in S : m >= n}) = k
    BY RanksDown
  <2> QED
    BY <1>2, <2>1
<1>4. NewestFirst(S) \in [1..Cardinality(S) -> Nat]
  BY <1>3 DEF NewestFirst
<1>5. NewestFirst(S) \in Seq(Nat) /\ Len(NewestFirst(S)) = Cardinality(S)
  BY <1>1, <1>4, SequenceOf
<1>6. ASSUME NEW n \in S
      PROVE  /\ Cardinality({m \in S : m > n}) \in 0..(Cardinality(S) - 1)
             /\ NewestFirst(S)[Cardinality({m \in S : m > n}) + 1] = n
  <2> DEFINE A == {m \in S : m > n}
  <2> DEFINE B == {m \in S : m >= n}
  <2>1. IsFiniteSet(A) /\ n \notin A /\ B = A \cup {n}
    <3>1. \A m \in S : m >= n <=> m > n \/ m = n
      OBVIOUS
    <3>2. A \in SUBSET S /\ n \notin A
      OBVIOUS
    <3>3. \A m : m \in B <=> m \in A \/ m = n
      BY <3>1
    <3>4. B = A \cup {n}
      BY <3>3
    <3> QED
      BY <3>2, <3>4, FS_Subset
  <2>2. Cardinality(B) \in 1..Cardinality(S)
    BY RanksDown
  <2> HIDE DEF A, B
  <2>3. Cardinality(B) = Cardinality(A) + 1 /\ Cardinality(A) \in Nat
    BY <2>1, FS_AddElement, FS_CardinalityType
  <2>4. PICK k \in 1..Cardinality(S) : k = Cardinality(B)
    BY <2>2
  <2>5. PICK a \in S : a = NewestFirst(S)[k] /\ Cardinality({m \in S : m >= a}) = k
    BY <1>3
  <2>6. /\ a < n => Cardinality({m \in S : m >= n}) < Cardinality({m \in S : m >= a})
        /\ n < a => Cardinality({m \in S : m >= a}) < Cardinality({m \in S : m >= n})
    BY RanksDown
  <2>7. a = n
    BY <2>4, <2>5, <2>6 DEF B
  <2> QED
    BY <1>1, <2>2, <2>3, <2>4, <2>5, <2>7 DEF A
<1> QED
  BY <1>1, <1>5, <1>6

----------------------------------------------------------------------------
(* The trail: types, and what a step may do to the listings.                  *)

TrailTyped ==
  /\ server \in {"up", "closing", "draining", "exited"} /\ handlers \in Nat /\ Len(queue) <= BufSize
  /\ ToSet(queue) \cup waiting \cup db \cup logged \subseteq 1..Len(made)
  /\ writer \in {"run", "drain", "done"} /\ faults \in Nat /\ cleans \in Nat
  /\ made \in Seq(Entries) /\ queue \in Seq(Nat)
TableTyped ==
  /\ table \in [typed : Filters, user : Filters, page : Nat, open : SUBSET Nat,
                data : [ok : BOOLEAN, items : Seq(Nat), total : Nat]]
  /\ table.open \subseteq 1..Len(made)
ExportTyped ==
  /\ export \in [pc : {"idle", "reading", "counted", "done"}, user : Filters, cursor : Nat,
                 rows : Seq(Nat), count : Nat, total : Nat, error : BOOLEAN, start : SUBSET Nat]
  /\ Len(export.rows) <= ExportMax + ExportPage

Trail == TrailTyped /\ CriticalStored /\ Accounted /\ waiting \cap logged = {} /\ ShutDown
TableInv == TableTyped /\ (Hasty \/ (PageExists /\ EmptyMeansNone))
ExportInv == ExportTyped /\ NoneSkipped /\ (Racing \/ ExportComplete)

(* The invariant has one part for the trail, the table and the export each.   *)
LEMMA InvParts ==
  /\ AuditInv <=> Trail /\ TableInv /\ ExportInv
  /\ AuditInv' <=> Trail' /\ TableInv' /\ ExportInv'
<1>1. AuditTypeOK /\ AuditShapes <=> TrailTyped /\ TableTyped /\ ExportTyped
  BY DEF AuditTypeOK, AuditShapes, TrailTyped, TableTyped, ExportTyped
<1>2. AuditTypeOK' /\ AuditShapes' <=> TrailTyped' /\ TableTyped' /\ ExportTyped'
  BY DEF AuditTypeOK, AuditShapes, TrailTyped, TableTyped, ExportTyped
<1> QED
  BY <1>1, <1>2, Zenon DEF AuditInv, Trail, TableInv, ExportInv

(* Numbers, listings and places.                                              *)
LEMMA TrailNumbers ==
  ASSUME AuditAssumption, TrailTyped
  PROVE  /\ Len(made) \in Nat /\ DOMAIN made = 1..Len(made)
         /\ db \in SUBSET Nat /\ IsFiniteSet(db) /\ db \subseteq 1..Len(made)
         /\ ToSet(queue) \subseteq 1..Len(made) /\ waiting \subseteq 1..Len(made)
         /\ logged \subseteq 1..Len(made)
         /\ \A u : /\ Matching(db, u) \in SUBSET Nat /\ IsFiniteSet(Matching(db, u))
                   /\ CountOf(u) \in Nat /\ \A n \in Matching(db, u) : Place(n, u) \in 0..(CountOf(u) - 1)
<1>1. Len(made) \in Nat /\ DOMAIN made = 1..Len(made)
  BY LenProperties DEF TrailTyped
<1>2. /\ db \subseteq 1..Len(made) /\ ToSet(queue) \subseteq 1..Len(made)
      /\ waiting \subseteq 1..Len(made) /\ logged \subseteq 1..Len(made)
  BY DEF TrailTyped
<1>4. IsFiniteSet(db) /\ db \in SUBSET Nat
  BY <1>1, <1>2, NumbersUpTo
<1>5. ASSUME NEW u
      PROVE  /\ Matching(db, u) \in SUBSET Nat /\ IsFiniteSet(Matching(db, u))
             /\ CountOf(u) \in Nat /\ \A n \in Matching(db, u) : Place(n, u) \in 0..(CountOf(u) - 1)
  <2>1. Matching(db, u) \in SUBSET db
    BY DEF Matching
  <2>2. Matching(db, u) \in SUBSET Nat /\ IsFiniteSet(Matching(db, u))
    BY <1>4, <2>1, FS_Subset
  <2> QED
    BY <2>2, Listing DEF CountOf, Place
<1> QED
  BY <1>1, <1>2, <1>4, <1>5

(* What a page of the listing holds.                                          *)
LEMMA ListedPage ==
  ASSUME AuditAssumption, TrailTyped, NEW u, NEW p \in Nat, NEW size \in Nat, size > 0
  PROVE  /\ PageOf(u, p, size) \in Seq(Nat) /\ Len(PageOf(u, p, size)) \in 0..size
         /\ (p + 1) * size = p * size + size /\ p * size \in Nat
         /\ PageOf(u, p, size) = <<>> => CountOf(u) <= p * size
         /\ \A n \in Matching(db, u) : p * size <= Place(n, u) /\ Place(n, u) < (p + 1) * size
                                         => n \in ToSet(PageOf(u, p, size))
<1> DEFINE all == NewestFirst(Matching(db, u))
<1> DEFINE q == PageOf(u, p, size)
<1>1. Matching(db, u) \in SUBSET Nat /\ IsFiniteSet(Matching(db, u))
  BY TrailNumbers
<1>2. /\ all \in Seq(Nat) /\ Len(all) = CountOf(u) /\ CountOf(u) \in Nat
      /\ \A n \in Matching(db, u) : Place(n, u) \in 0..(CountOf(u) - 1) /\ all[Place(n, u) + 1] = n
  BY <1>1, Listing DEF CountOf, Place
<1>3. q = SubSeq(all, p * size + 1, Min({Len(all), (p + 1) * size}))
  BY DEF PageOf
<1> HIDE DEF all, q
<1>a. PICK a \in Nat : a = p * size
  OBVIOUS
<1>b. (p + 1) * size = a + size
  BY <1>a
<1>c. q = SubSeq(all, a + 1, Min({Len(all), a + size}))
  BY <1>3, <1>a, <1>b
<1>d. /\ q \in Seq(Nat) /\ Len(q) \in 0..size
      /\ q = <<>> => Len(all) <= a
      /\ \A k \in Nat : a <= k /\ k < a + size /\ k < Len(all) => all[k + 1] \in ToSet(q)
  BY <1>2, <1>c, PageFrom
<1>4. /\ q \in Seq(Nat) /\ Len(q) \in 0..size
      /\ (p + 1) * size = p * size + size /\ p * size \in Nat
      /\ q = <<>> => Len(all) <= p * size
      /\ \A k \in Nat : p * size <= k /\ k < (p + 1) * size /\ k < Len(all) => all[k + 1] \in ToSet(q)
  BY <1>a, <1>b, <1>d
<1>5. ASSUME NEW n \in Matching(db, u), p * size <= Place(n, u), Place(n, u) < (p + 1) * size
      PROVE  n \in ToSet(q)
  <2>1. Place(n, u) \in Nat /\ Place(n, u) < Len(all) /\ all[Place(n, u) + 1] = n
    BY <1>2
  <2> QED
    BY <1>4, <1>5, <2>1
<1> QED
  BY <1>2, <1>4, <1>5 DEF q

(* What a step of the backend may do to the stored entries: entries keep      *)
(* their number, only queued and new ones are stored, and only retention      *)
(* removes one, the oldest.                                                   *)
EntriesKept ==
  /\ Len(made) <= Len(made') /\ \A m \in 1..Len(made) : made'[m] = made[m]
  /\ \A n \in ToSet(queue') \cup waiting' : n \in ToSet(queue) \cup waiting \/ n = Len(made) + 1
  /\ \A n \in db' : n \in db \cup ToSet(queue) \/ n = Len(made) + 1
  /\ \/ db \subseteq db' /\ cleans' = cleans
     \/ UNCHANGED made /\ db # {} /\ db' = db \ {Min(db)} /\ cleans' # 0
  /\ Racing \/ export.pc # "counted" \/ db' = db

(* A place never moves forward.                                               *)
LEMMA PlacesMove ==
  ASSUME AuditAssumption, TrailTyped, TrailTyped', EntriesKept, NEW u
  PROVE  /\ cleans' = 0 => CountOf(u) <= CountOf(u)'
         /\ db' = db => CountOf(u)' = CountOf(u)
         /\ \A n \in db \cap db' : /\ Place(n, u) <= Place(n, u)'
                                  /\ Place(n, u) \in Nat /\ Place(n, u)' \in Nat
<1> DEFINE M == Matching(db, u)
<1> DEFINE N == Matching(db, u)'
<1>1. /\ IsFiniteSet(db) /\ db \in SUBSET Nat /\ db \subseteq 1..Len(made)
      /\ IsFiniteSet(db') /\ db' \in SUBSET Nat
  <2>1. IsFiniteSet(db) /\ db \in SUBSET Nat /\ db \subseteq 1..Len(made)
    BY TrailNumbers
  <2>2. IsFiniteSet(db') /\ db' \in SUBSET Nat
    <3>1. Len(made') \in Nat /\ db' \subseteq 1..Len(made')
      BY LenProperties DEF TrailTyped
    <3> QED
      BY <3>1, NumbersUpTo
  <2> QED
    BY <2>1, <2>2
<1>2. \A n \in db \cap db' : n \in M <=> n \in N
  <2>1. \A n \in db : made'[n] = made[n]
    BY <1>1 DEF EntriesKept
  <2> QED
    BY <2>1 DEF Matching, Entry
<1>3. M \in SUBSET db /\ N \in SUBSET db'
  BY DEF Matching
<1>4. IsFiniteSet(M) /\ IsFiniteSet(N)
  BY <1>1, <1>3, FS_Subset
<1>5. CountOf(u) = Cardinality(M) /\ CountOf(u)' = Cardinality(N)
  BY DEF CountOf
<1>6. \A n : /\ Place(n, u) = Cardinality({m \in M : m > n})
            /\ Place(n, u)' = Cardinality({m \in N : m > n})
  BY DEF Place
<1> HIDE DEF M, N
<1>7. cleans' = 0 => CountOf(u) <= CountOf(u)'
  <2>1. SUFFICES ASSUME cleans' = 0 PROVE CountOf(u) <= CountOf(u)'
    OBVIOUS
  <2>2. db \subseteq db'
    BY <2>1 DEF EntriesKept
  <2>3. M \in SUBSET N
    BY <1>2, <1>3, <2>2
  <2> QED
    BY <1>4, <1>5, <2>3, FS_Subset
<1>8. db' = db => CountOf(u)' = CountOf(u)
  <2>1. db' = db => M = N
    BY <1>2, <1>3
  <2> QED
    BY <1>5, <2>1
<1>9. ASSUME NEW n \in db \cap db'
      PROVE  /\ Place(n, u) <= Place(n, u)'
             /\ Place(n, u) \in Nat /\ Place(n, u)' \in Nat
  <2>1. {m \in M : m > n} \subseteq {m \in N : m > n}
    <3>1. CASE db \subseteq db'
      BY <1>2, <1>3, <3>1
    <3>2. CASE db # {} /\ db' = db \ {Min(db)}
      <4>1. \A y \in db : Min(db) <= y
        BY <1>1, <3>2, LeastNumber
      <4>2. \A m \in M : m > n => m \in db \cap db'
        <5>1. Min(db) \in db
          BY <1>1, <3>2, LeastNumber
        <5>2. Min(db) <= n /\ Min(db) \in Nat /\ n \in Nat
          BY <1>1, <4>1, <5>1
        <5>3. \A m \in db : m > n => m # Min(db)
          BY <1>1, <5>2
        <5> QED
          BY <1>3, <3>2, <5>3
      <4> QED
        BY <1>2, <4>2
    <3> QED
      BY <3>1, <3>2 DEF EntriesKept
  <2>2. IsFiniteSet({m \in N : m > n}) /\ IsFiniteSet({m \in M : m > n})
    BY <1>4, FS_Subset
  <2>3. Cardinality({m \in M : m > n}) <= Cardinality({m \in N : m > n})
    <3> DEFINE A == {m \in M : m > n}
    <3> DEFINE B == {m \in N : m > n}
    <3>1. A \in SUBSET B /\ IsFiniteSet(B)
      BY <2>1, <2>2
    <3> HIDE DEF A, B
    <3>2. Cardinality(A) <= Cardinality(B)
      BY <3>1, FS_Subset
    <3> QED
      BY <3>2 DEF A, B
  <2>4. Cardinality({m \in M : m > n}) \in Nat /\ Cardinality({m \in N : m > n}) \in Nat
    BY <2>2, FS_CardinalityType
  <2> QED
    BY <1>6, <2>3, <2>4
<1> QED
  BY <1>7, <1>8, <1>9

----------------------------------------------------------------------------
(* The steps of the backend.                                                  *)

(* Nobody moves an entry.                                                     *)
LEMMA TrailQuiet ==
  ASSUME Trail, UNCHANGED <<waiting, queue, db, made, logged, cleans>>,
         server' \in {"up", "closing", "draining", "exited"}, handlers' \in Nat,
         writer' \in {"run", "drain", "done"}, faults' \in Nat, ShutDown'
  PROVE  Trail' /\ EntriesKept
<1>1. TrailTyped'
  BY DEF Trail, TrailTyped
<1>2. CriticalStored' /\ Accounted' /\ (waiting \cap logged = {})'
  BY DEF Trail, CriticalStored, Accounted, Entry
<1>3. EntriesKept
  <2>1. Len(made) \in Nat
    BY LenProperties DEF Trail, TrailTyped
  <2> QED
    BY <2>1 DEF EntriesKept
<1> QED
  BY <1>1, <1>2, <1>3 DEF Trail

(* Requests come in, the process is told to end and does.                     *)
LEMMA TrailServer ==
  ASSUME AuditAssumption, Trail, Request \/ Terminate \/ StopServer \/ ProcessEnds
  PROVE  Trail' /\ EntriesKept /\ UNCHANGED <<table, export>>
<1>1. CASE Request
  BY <1>1, TrailQuiet DEF Request, Trail, TrailTyped, ShutDown
<1>2. CASE Terminate
  BY <1>2, TrailQuiet DEF Terminate, Trail, TrailTyped, ShutDown
<1>3. CASE StopServer
  BY <1>3, TrailQuiet DEF StopServer, Trail, TrailTyped, ShutDown
<1>4. CASE ProcessEnds
  BY <1>4, TrailQuiet DEF ProcessEnds, Trail, TrailTyped, ShutDown
<1> QED
  BY <1>1, <1>2, <1>3, <1>4

(* An entry is recorded: written, sent to the channel or waiting for it.      *)
LEMMA TrailAudit ==
  ASSUME AuditAssumption, Trail, NEW u \in Users, NEW c \in BOOLEAN, NEW b \in Snapshots, NEW a \in Snapshots,
         Audit(u, c, b, a)
  PROVE  Trail' /\ EntriesKept /\ UNCHANGED <<table, export>>
<1> DEFINE n == Len(made) + 1
<1> DEFINE e == [user |-> u, critical |-> c, before |-> b, after |-> a]
<1>1. TrailTyped
  BY DEF Trail
<1>2. /\ handlers > 0 /\ server # "exited" /\ handlers' = handlers - 1 /\ made' = Append(made, e)
      /\ \/ c /\ Writable /\ db' = db \cup {n} /\ UNCHANGED <<waiting, queue, logged, faults>>
         \/ c /\ Fault /\ logged' = logged \cup {n} /\ UNCHANGED <<waiting, queue, db>>
         \/ ~c /\ Len(queue) < BufSize /\ queue' = Append(queue, n) /\ UNCHANGED <<waiting, db, logged, faults>>
         \/ ~c /\ waiting' = waiting \cup {n} /\ UNCHANGED <<queue, db, logged, faults>>
      /\ UNCHANGED <<server, writer, table, export, cleans>>
  BY DEF Audit
<1>3. /\ Len(made) \in Nat /\ n \in Nat /\ db \subseteq 1..Len(made) /\ waiting \subseteq 1..Len(made)
      /\ logged \subseteq 1..Len(made) /\ ToSet(queue) \subseteq 1..Len(made)
  BY <1>1, TrailNumbers
<1>4. /\ made' \in Seq(Entries) /\ Len(made') = n
      /\ \A i \in 1..Len(made) : made'[i] = made[i]
      /\ made'[n] = e
  <2>1. e \in Entries /\ made \in Seq(Entries)
    BY <1>1 DEF Entries, TrailTyped
  <2> QED
    BY <1>2, <2>1, AppendProperties
<1>5. n \notin db \cup waiting \cup logged \cup ToSet(queue) /\ 1..n = 1..Len(made) \cup {n}
  BY <1>3
<1>6. /\ queue \in Seq(Nat) /\ IsInjective(queue) /\ Len(queue) \in Nat /\ BufSize \in Nat
  BY <1>1, LenProperties DEF Trail, Accounted, TrailTyped, AuditAssumption
<1>7. queue' = Append(queue, n) => /\ queue' \in Seq(Nat) /\ Len(queue') = Len(queue) + 1
                                  /\ ToSet(queue') = ToSet(queue) \cup {n} /\ IsInjective(queue')
  BY <1>3, <1>5, <1>6, QueueAppended
<1>8. faults' \in Nat
  BY <1>1, <1>2 DEF Fault, TrailTyped
<1> HIDE DEF n, e
<1>9. TrailTyped'
  <2>1. Len(queue') <= BufSize /\ queue' \in Seq(Nat)
    BY <1>1, <1>2, <1>6, <1>7 DEF TrailTyped
  <2>2. ToSet(queue') \cup waiting' \cup db' \cup logged' \subseteq 1..n
    <3>1. /\ ToSet(queue') \subseteq ToSet(queue) \cup {n} /\ waiting' \subseteq waiting \cup {n}
          /\ db' \subseteq db \cup {n} /\ logged' \subseteq logged \cup {n}
      BY <1>2, <1>7
    <3> QED
      BY <1>3, <1>5, <3>1
  <2>3. handlers' \in Nat
    BY <1>1, <1>2 DEF TrailTyped
  <2> QED
    BY <1>1, <1>2, <1>4, <1>8, <2>1, <2>2, <2>3 DEF TrailTyped
<1>10. CriticalStored'
  <2>1. SUFFICES ASSUME cleans = 0, NEW i \in 1..n, made'[i].critical PROVE i \in db' \cup logged'
    BY <1>2, <1>4 DEF CriticalStored, Entry
  <2>2. CASE i = n
    <3>1. made'[i].critical = c
      BY <1>4, <2>2 DEF e
    <3> QED
      BY <1>2, <2>1, <2>2, <3>1
  <2>3. CASE i # n
    <3>1. i \in 1..Len(made) /\ made[i].critical
      BY <1>4, <1>5, <2>1, <2>3
    <3>2. i \in db \cup logged
      BY <2>1, <3>1 DEF Trail, CriticalStored, Entry
    <3> QED
      BY <1>2, <3>2
  <2> QED
    BY <2>2, <2>3
<1>11. Accounted' /\ (waiting \cap logged = {})'
  <2>1. /\ cleans = 0 => 1..Len(made) = db \cup ToSet(queue) \cup waiting \cup logged
        /\ db \cap (ToSet(queue) \cup waiting \cup logged) = {}
        /\ ToSet(queue) \cap (waiting \cup logged) = {} /\ waiting \cap logged = {}
    BY DEF Trail, Accounted
  <2>2. \/ db' = db \cup {n} /\ UNCHANGED <<waiting, queue, logged>>
        \/ logged' = logged \cup {n} /\ UNCHANGED <<waiting, queue, db>>
        \/ queue' = Append(queue, n) /\ UNCHANGED <<waiting, db, logged>>
        \/ waiting' = waiting \cup {n} /\ UNCHANGED <<queue, db, logged>>
    BY <1>2
  <2>3. \/ db' = db \cup {n} /\ UNCHANGED <<waiting, logged>> /\ ToSet(queue') = ToSet(queue) /\ IsInjective(queue')
        \/ logged' = logged \cup {n} /\ UNCHANGED <<waiting, db>> /\ ToSet(queue') = ToSet(queue) /\ IsInjective(queue')
        \/ ToSet(queue') = ToSet(queue) \cup {n} /\ UNCHANGED <<waiting, db, logged>> /\ IsInjective(queue')
        \/ waiting' = waiting \cup {n} /\ UNCHANGED <<db, logged>> /\ ToSet(queue') = ToSet(queue) /\ IsInjective(queue')
    BY <1>6, <1>7, <2>2
  <2>4. cleans' = cleans /\ Len(made') = n
    BY <1>2, <1>4
  <2> QED
    BY <1>5, <2>1, <2>3, <2>4 DEF Accounted
<1>12. ShutDown'
  <2>1. ~SlowHandlers => writer = "run"
    BY <1>1, <1>2 DEF Trail, ShutDown, TrailTyped
  <2> QED
    BY <1>2, <2>1 DEF Trail, ShutDown
<1>13. EntriesKept
  BY <1>2, <1>3, <1>4, <1>7 DEF EntriesKept, Writable, n
<1> QED
  BY <1>2, <1>9, <1>10, <1>11, <1>12, <1>13 DEF Trail

(* Entries change places: what a step has to leave true of them.              *)
LEMMA TrailMoved ==
  ASSUME AuditAssumption, Trail, UNCHANGED <<server, handlers, made>>,
         queue' \in Seq(Nat), Len(queue') <= BufSize, IsInjective(queue'), faults' \in Nat, cleans' \in Nat,
         writer' \in {"run", "drain", "done"}, ShutDown',
         cleans' = 0 => cleans = 0,
         db' \cup ToSet(queue') \cup waiting' \cup logged' \subseteq db \cup ToSet(queue) \cup waiting \cup logged,
         cleans' = 0 => db \cup ToSet(queue) \cup waiting \cup logged
                         \subseteq db' \cup ToSet(queue') \cup waiting' \cup logged',
         db' \cap (ToSet(queue') \cup waiting' \cup logged') = {},
         ToSet(queue') \cap (waiting' \cup logged') = {}, waiting' \cap logged' = {},
         cleans' = 0 => db \cup logged \subseteq db' \cup logged'
  PROVE  Trail'
<1>1. TrailTyped /\ Len(made') = Len(made)
  BY DEF Trail
<1>2. db \cup ToSet(queue) \cup waiting \cup logged \subseteq 1..Len(made)
  BY <1>1 DEF TrailTyped
<1>3. TrailTyped'
  BY <1>1, <1>2 DEF TrailTyped
<1>4. CriticalStored'
  BY DEF Trail, CriticalStored, Entry
<1>5. Accounted' /\ (waiting \cap logged = {})'
  <2>1. cleans = 0 => 1..Len(made) = db \cup ToSet(queue) \cup waiting \cup logged
    BY DEF Trail, Accounted
  <2>2. cleans' = 0 => 1..Len(made) = db' \cup ToSet(queue') \cup waiting' \cup logged'
    BY <1>2, <2>1
  <2> QED
    BY <1>1, <2>2 DEF Accounted
<1> QED
  BY <1>3, <1>4, <1>5 DEF Trail

(* A handler finds room in the channel, or gives up.                          *)
LEMMA TrailWaiting ==
  ASSUME AuditAssumption, Trail, NEW n \in waiting, Enqueue(n) \/ Drop(n)
  PROVE  Trail' /\ EntriesKept /\ UNCHANGED <<table, export>>
<1>1. /\ TrailTyped /\ queue \in Seq(Nat) /\ IsInjective(queue) /\ Len(queue) \in Nat /\ BufSize \in Nat
      /\ faults \in Nat /\ cleans \in Nat /\ writer \in {"run", "drain", "done"} /\ Len(queue) <= BufSize
  BY LenProperties DEF Trail, Accounted, TrailTyped, AuditAssumption
<1>2. /\ Len(made) \in Nat /\ n \in Nat
  BY <1>1, TrailNumbers
<1>3. /\ db \cap (ToSet(queue) \cup waiting \cup logged) = {}
      /\ ToSet(queue) \cap (waiting \cup logged) = {} /\ waiting \cap logged = {}
  BY DEF Trail, Accounted
<1>4. CASE Enqueue(n)
  <2>1. /\ Len(queue) < BufSize /\ queue' = Append(queue, n) /\ waiting' = waiting \ {n} /\ server # "exited"
        /\ UNCHANGED <<server, handlers, writer, db, made, logged, table, export, faults, cleans>>
    BY <1>4 DEF Enqueue
  <2>2. /\ queue' \in Seq(Nat) /\ Len(queue') = Len(queue) + 1
        /\ ToSet(queue') = ToSet(queue) \cup {n} /\ IsInjective(queue')
    BY <1>1, <1>2, <1>3, <2>1, QueueAppended
  <2>3. Len(queue') <= BufSize
    BY <1>1, <2>1, <2>2
  <2>4. ShutDown'
    <3>1. ~SlowHandlers => writer = "run"
      BY <1>1 DEF Trail, ShutDown
    <3> QED
      BY <2>1, <3>1 DEF Trail, ShutDown
  <2>5. Trail'
    <3>1. /\ db' \cup ToSet(queue') \cup waiting' \cup logged' = db \cup ToSet(queue) \cup waiting \cup logged
          /\ db' \cap (ToSet(queue') \cup waiting' \cup logged') = {}
          /\ ToSet(queue') \cap (waiting' \cup logged') = {} /\ waiting' \cap logged' = {}
          /\ db \cup logged = db' \cup logged'
      BY <1>3, <2>1, <2>2
    <3>2. UNCHANGED <<server, handlers, made>> /\ faults' \in Nat /\ cleans' \in Nat /\ cleans' = cleans
          /\ writer' \in {"run", "drain", "done"}
      BY <1>1, <2>1
    <3> QED
      BY <2>2, <2>3, <2>4, <3>1, <3>2, TrailMoved
  <2>6. EntriesKept
    BY <1>2, <2>1, <2>2 DEF EntriesKept
  <2> QED
    BY <2>1, <2>5, <2>6
<1>5. CASE Drop(n)
  <2>1. /\ waiting' = waiting \ {n} /\ logged' = logged \cup {n}
        /\ UNCHANGED <<server, handlers, queue, writer, db, made, table, export, faults, cleans>>
    BY <1>5 DEF Drop
  <2>2. ShutDown'
    BY <2>1 DEF Trail, ShutDown
  <2>3. Trail'
    <3>1. /\ db' \cup ToSet(queue') \cup waiting' \cup logged' = db \cup ToSet(queue) \cup waiting \cup logged
          /\ db' \cap (ToSet(queue') \cup waiting' \cup logged') = {}
          /\ ToSet(queue') \cap (waiting' \cup logged') = {} /\ waiting' \cap logged' = {}
          /\ db \cup logged \subseteq db' \cup logged'
      BY <1>3, <2>1
    <3>2. UNCHANGED <<server, handlers, made>> /\ faults' \in Nat /\ cleans' \in Nat /\ cleans' = cleans
          /\ writer' \in {"run", "drain", "done"} /\ queue' \in Seq(Nat) /\ Len(queue') <= BufSize
          /\ IsInjective(queue')
      BY <1>1, <2>1
    <3> QED
      BY <2>2, <3>1, <3>2, TrailMoved
  <2>4. EntriesKept
    BY <1>2, <2>1 DEF EntriesKept
  <2> QED
    BY <2>1, <2>3, <2>4
<1> QED
  BY <1>4, <1>5

(* The writer stores an entry, or logs its loss; or ends.                     *)
LEMMA TrailWriter ==
  ASSUME AuditAssumption, Trail, Write \/ Drained
  PROVE  Trail' /\ EntriesKept /\ UNCHANGED <<table, export>>
<1>1. /\ TrailTyped /\ queue \in Seq(Nat) /\ IsInjective(queue) /\ Len(queue) \in Nat /\ BufSize \in Nat
      /\ faults \in Nat /\ cleans \in Nat /\ writer \in {"run", "drain", "done"} /\ Len(queue) <= BufSize
  BY LenProperties DEF Trail, Accounted, TrailTyped, AuditAssumption
<1>2. Len(made) \in Nat
  BY <1>1, TrailNumbers
<1>3. /\ db \cap (ToSet(queue) \cup waiting \cup logged) = {}
      /\ ToSet(queue) \cap (waiting \cup logged) = {} /\ waiting \cap logged = {}
  BY DEF Trail, Accounted
<1>4. CASE Write
  <2>1. /\ writer \in {"run", "drain"} /\ queue # <<>> /\ queue' = Tail(queue)
        /\ \/ Writable /\ db' = db \cup {Head(queue)} /\ UNCHANGED <<logged, faults>>
           \/ Fault /\ logged' = logged \cup {Head(queue)} /\ UNCHANGED db
        /\ UNCHANGED <<server, handlers, waiting, writer, made, table, export, cleans>>
    BY <1>4 DEF Write
  <2>2. /\ queue' \in Seq(Nat) /\ Len(queue') = Len(queue) - 1 /\ Head(queue) \notin ToSet(queue')
        /\ ToSet(queue) = {Head(queue)} \cup ToSet(queue') /\ IsInjective(queue')
    BY <1>1, <2>1, QueueTaken
  <2>3. ShutDown'
    BY <2>1 DEF Trail, ShutDown
  <2>4. faults' \in Nat
    BY <1>1, <2>1 DEF Fault
  <2>5. Trail'
    <3>1. /\ db' \cup ToSet(queue') \cup waiting' \cup logged' = db \cup ToSet(queue) \cup waiting \cup logged
          /\ db' \cap (ToSet(queue') \cup waiting' \cup logged') = {}
          /\ ToSet(queue') \cap (waiting' \cup logged') = {} /\ waiting' \cap logged' = {}
          /\ db \cup logged \subseteq db' \cup logged'
      BY <1>3, <2>1, <2>2
    <3>2. UNCHANGED <<server, handlers, made>> /\ cleans' \in Nat /\ cleans' = cleans
          /\ writer' \in {"run", "drain", "done"} /\ Len(queue') <= BufSize
      BY <1>1, <2>1, <2>2
    <3> QED
      BY <2>2, <2>3, <2>4, <3>1, <3>2, TrailMoved
  <2>6. EntriesKept
    BY <1>2, <2>1, <2>2 DEF EntriesKept, Writable
  <2> QED
    BY <2>1, <2>5, <2>6
<1>5. CASE Drained
  <2>1. /\ writer = "drain" /\ writer' = "done"
        /\ \/ queue = <<>> /\ UNCHANGED <<queue, logged, faults>>
           \/ queue # <<>> /\ Fault /\ logged' = logged \cup ToSet(queue) /\ queue' = <<>>
        /\ UNCHANGED <<server, handlers, waiting, db, made, table, export, cleans>>
    BY <1>5 DEF Drained
  <2>2. queue' = <<>> /\ <<>> \in Seq(Nat) /\ Len(<<>>) = 0 /\ DOMAIN <<>> = {}
    BY <2>1, EmptySeq, LenProperties
  <2>3. ToSet(queue') = {} /\ IsInjective(queue') /\ logged' = logged \cup ToSet(queue)
    BY <2>1, <2>2 DEF ToSet, IsInjective
  <2>4. ShutDown'
    BY <2>1, <2>2 DEF Trail, ShutDown
  <2>5. faults' \in Nat
    BY <1>1, <2>1 DEF Fault
  <2>6. Trail'
    <3>1. /\ db' \cup ToSet(queue') \cup waiting' \cup logged' = db \cup ToSet(queue) \cup waiting \cup logged
          /\ db' \cap (ToSet(queue') \cup waiting' \cup logged') = {}
          /\ ToSet(queue') \cap (waiting' \cup logged') = {} /\ waiting' \cap logged' = {}
          /\ db \cup logged \subseteq db' \cup logged'
      BY <1>3, <2>1, <2>3
    <3>2. UNCHANGED <<server, handlers, made>> /\ cleans' \in Nat /\ cleans' = cleans
          /\ writer' \in {"run", "drain", "done"} /\ Len(queue') <= BufSize /\ queue' \in Seq(Nat)
      BY <1>1, <2>1, <2>2
    <3> QED
      BY <2>3, <2>4, <2>5, <3>1, <3>2, TrailMoved
  <2>7. EntriesKept
    BY <1>2, <2>1, <2>3 DEF EntriesKept
  <2> QED
    BY <2>1, <2>6, <2>7
<1> QED
  BY <1>4, <1>5

(* Retention removes the oldest entry.                                        *)
LEMMA TrailClean ==
  ASSUME AuditAssumption, Trail, Clean
  PROVE  Trail' /\ EntriesKept /\ UNCHANGED <<table, export>>
<1>1. /\ TrailTyped /\ queue \in Seq(Nat) /\ IsInjective(queue) /\ Len(queue) <= BufSize
      /\ faults \in Nat /\ cleans \in Nat /\ writer \in {"run", "drain", "done"}
  BY DEF Trail, Accounted, TrailTyped
<1>2. Len(made) \in Nat /\ db \in SUBSET Nat
  BY <1>1, TrailNumbers
<1>3. /\ cleans' = cleans + 1 /\ Writable /\ db # {} /\ db' = db \ {Min(db)}
      /\ UNCHANGED <<server, handlers, waiting, queue, writer, made, logged, table, export, faults>>
  BY DEF Clean
<1>4. cleans' \in Nat /\ cleans' # 0
  BY <1>1, <1>3
<1>5. ShutDown'
  BY <1>3 DEF Trail, ShutDown
<1>6. Trail'
  <2>1. /\ db' \cup ToSet(queue') \cup waiting' \cup logged' \subseteq db \cup ToSet(queue) \cup waiting \cup logged
        /\ db' \cap (ToSet(queue') \cup waiting' \cup logged') = {}
        /\ ToSet(queue') \cap (waiting' \cup logged') = {} /\ waiting' \cap logged' = {}
    BY <1>3 DEF Trail, Accounted
  <2> QED
    BY <1>1, <1>3, <1>4, <1>5, <2>1, TrailMoved
<1>7. EntriesKept
  BY <1>2, <1>3, <1>4 DEF EntriesKept, Writable
<1> QED
  BY <1>3, <1>6, <1>7

----------------------------------------------------------------------------
(* The table.                                                                 *)

(* Entries come and go while the table stays as it is.                        *)
LEMMA AuditTableKept ==
  ASSUME AuditAssumption, Trail, Trail', EntriesKept, TableInv, UNCHANGED table
  PROVE  TableInv'
<1>1. TrailTyped /\ TrailTyped'
  BY DEF Trail
<1>2. TableTyped'
  <2>1. Len(made) <= Len(made') /\ Len(made) \in Nat /\ Len(made') \in Nat
    BY <1>1, LenProperties DEF EntriesKept, TrailTyped
  <2> QED
    BY <2>1 DEF TableInv, TableTyped
<1>3. ASSUME ~Hasty
      PROVE  PageExists' /\ EmptyMeansNone'
  <2>1. PICK u : u = table.user
    OBVIOUS
  <2>2. cleans' = 0 => cleans = 0 /\ CountOf(u) <= CountOf(u)' /\ CountOf(u) \in Nat /\ CountOf(u)' \in Nat
    <3>1. cleans' = 0 => cleans = 0
      BY DEF EntriesKept
    <3>2. CountOf(u) \in Nat /\ IsFiniteSet(Matching(db, u)')
      <4>1. Len(made') \in Nat /\ db' \subseteq 1..Len(made')
        BY <1>1, LenProperties DEF TrailTyped
      <4>2. Matching(db, u)' \subseteq 1..Len(made')
        BY <4>1 DEF Matching
      <4> QED
        BY <1>1, <4>1, <4>2, TrailNumbers, NumbersUpTo
    <3>3. CountOf(u)' \in Nat
      BY <3>2, FS_CardinalityType DEF CountOf
    <3> QED
      BY <1>1, <3>1, <3>2, <3>3, PlacesMove
  <2>3. CountOf(table.user) = CountOf(u) /\ CountOf(table.user)' = CountOf(u)'
    BY <2>1 DEF CountOf, Matching, Entry
  <2>4. PageExists /\ EmptyMeansNone /\ TableTyped
    BY <1>3 DEF TableInv
  <2>5. table.page \in Nat /\ table.data.total \in Nat /\ TablePage \in Nat
    BY <2>4 DEF TableTyped, AuditAssumption
  <2>6. PICK a \in Nat : a = table.page * TablePage
    BY <2>5
  <2>7. cleans' = 0 => /\ table.page = 0 \/ a < CountOf(u)'
                       /\ table.data.ok => table.data.total <= CountOf(u)'
    BY <2>2, <2>3, <2>4, <2>5, <2>6 DEF PageExists
  <2>8. PageExists'
    BY <2>3, <2>4, <2>6, <2>7 DEF PageExists
  <2>9. EmptyMeansNone'
    BY <2>2, <2>4 DEF EmptyMeansNone
  <2> QED
    BY <2>8, <2>9
<1> QED
  BY <1>2, <1>3 DEF TableInv

(* The table changes and the entries do not.                                  *)
LEMMA AuditTableSet ==
  ASSUME UNCHANGED <<made, db, cleans>>, NEW t, table' = t,
         t \in [typed : Filters, user : Filters, page : Nat, open : SUBSET Nat,
               data : [ok : BOOLEAN, items : Seq(Nat), total : Nat]],
         t.open \subseteq 1..Len(made),
         ~Hasty => /\ t.user # t.typed => t.page = 0
                   /\ cleans = 0 => /\ t.page = 0 \/ t.page * TablePage < CountOf(t.user)
                                    /\ t.data.ok => t.data.total <= CountOf(t.user)
                                    /\ t.data.ok /\ t.data.items = <<>> => t.data.total = 0
  PROVE  TableInv'
<1>1. TableTyped'
  BY DEF TableTyped
<1>2. CountOf(table.user)' = CountOf(t.user)
  BY DEF CountOf, Matching, Entry
<1> QED
  BY <1>1, <1>2 DEF TableInv, PageExists, EmptyMeansNone

(* What the user and the answers do to the table.                             *)
LEMMA AuditTableStep ==
  ASSUME AuditAssumption, Trail, TableInv,
         \/ \E u \in Filters : TypeUser(u)
         \/ \E p \in 0..MaxEntries : TurnPage(p)
         \/ \E n \in 1..Len(made) : ToggleRow(n)
         \/ Debounce \/ TableAnswer
  PROVE  TableInv' /\ UNCHANGED backend /\ UNCHANGED export
<1>1. /\ table \in [typed : Filters, user : Filters, page : Nat, open : SUBSET Nat,
                   data : [ok : BOOLEAN, items : Seq(Nat), total : Nat]]
      /\ table.open \subseteq 1..Len(made)
  BY DEF TableInv, TableTyped
<1>2. ~Hasty => /\ table.user # table.typed => table.page = 0
                /\ cleans = 0 => /\ table.page = 0 \/ table.page * TablePage < CountOf(table.user)
                                 /\ table.data.ok => table.data.total <= CountOf(table.user)
                                 /\ table.data.ok /\ table.data.items = <<>> => table.data.total = 0
  BY DEF TableInv, PageExists, EmptyMeansNone
<1>3. Loading \in [ok : BOOLEAN, items : Seq(Nat), total : Nat] /\ ~Loading.ok
  <2>1. <<>> \in Seq(Nat)
    BY EmptySeq
  <2> QED
    BY <2>1 DEF Loading
<1>4. TrailTyped /\ CountOf(table.user) \in Nat
  BY TrailNumbers DEF Trail
<1>5. CASE \E u \in Filters : TypeUser(u)
  <2>1. PICK u \in Filters : TypeUser(u)
    BY <1>5
  <2>2. PICK t : t = [table EXCEPT !.typed = u, !.page = 0]
    OBVIOUS
  <2>3. /\ t \in [typed : Filters, user : Filters, page : Nat, open : SUBSET Nat,
                  data : [ok : BOOLEAN, items : Seq(Nat), total : Nat]]
        /\ t.open = table.open /\ t.page = 0 /\ t.user = table.user /\ t.data = table.data
    BY <1>1, <2>2
  <2>4. CASE table.page = 0
    <3>1. table' = t /\ UNCHANGED <<backend, export>>
      BY <2>1, <2>2, <2>4 DEF TypeUser
    <3>2. UNCHANGED <<made, db, cleans>>
      BY <3>1 DEF backend
    <3> QED
      BY <1>1, <1>2, <2>3, <3>1, <3>2, AuditTableSet
  <2>5. CASE table.page # 0
    <3>1. PICK s : s = [t EXCEPT !.data = Loading, !.open = {}]
      OBVIOUS
    <3>2. table' = s /\ UNCHANGED <<backend, export>>
      BY <2>1, <2>2, <2>5, <3>1 DEF TypeUser, Requery
    <3>3. /\ s \in [typed : Filters, user : Filters, page : Nat, open : SUBSET Nat,
                    data : [ok : BOOLEAN, items : Seq(Nat), total : Nat]]
          /\ s.open = {} /\ s.page = 0 /\ ~s.data.ok
      BY <1>3, <2>3, <3>1
    <3>4. UNCHANGED <<made, db, cleans>>
      BY <3>2 DEF backend
    <3> QED
      BY <3>2, <3>3, <3>4, AuditTableSet
  <2> QED
    BY <2>4, <2>5
<1>6. CASE Debounce
  <2>1. PICK s : s = [table EXCEPT !.user = table.typed, !.data = Loading, !.open = {}]
    OBVIOUS
  <2>2. table' = s /\ UNCHANGED <<backend, export>> /\ table.user # table.typed
    BY <1>1, <1>6, <2>1 DEF Debounce, Requery
  <2>3. /\ s \in [typed : Filters, user : Filters, page : Nat, open : SUBSET Nat,
                  data : [ok : BOOLEAN, items : Seq(Nat), total : Nat]]
        /\ s.open = {} /\ s.user = s.typed /\ s.page = table.page /\ ~s.data.ok
    BY <1>1, <1>3, <2>1
  <2>4. UNCHANGED <<made, db, cleans>>
    BY <2>2 DEF backend
  <2> QED
    BY <1>2, <2>2, <2>3, <2>4, AuditTableSet
<1>7. CASE \E p \in 0..MaxEntries : TurnPage(p)
  <2>1. PICK p \in 0..MaxEntries : TurnPage(p)
    BY <1>7
  <2>a. MaxEntries \in Nat /\ TablePage \in Nat
    BY DEF AuditAssumption
  <2>b. p \in Nat
    BY <2>a
  <2>c. PICK a \in Nat : a = p * TablePage
    BY <2>a, <2>b
  <2>2. PICK s : s = [table EXCEPT !.page = p, !.data = Loading, !.open = {}]
    OBVIOUS
  <2>3. /\ table' = s /\ UNCHANGED <<backend, export>>
        /\ table.data.ok /\ a < table.data.total /\ (Hasty \/ table.user = table.typed)
    BY <1>1, <2>1, <2>2, <2>c DEF TurnPage, Requery
  <2>4. /\ s \in [typed : Filters, user : Filters, page : Nat, open : SUBSET Nat,
                  data : [ok : BOOLEAN, items : Seq(Nat), total : Nat]]
        /\ s.open = {} /\ s.user = table.user /\ s.typed = table.typed /\ s.page = p /\ ~s.data.ok
    BY <1>1, <1>3, <2>2, <2>b
  <2>5. UNCHANGED <<made, db, cleans>>
    BY <2>3 DEF backend
  <2>6. ~Hasty /\ cleans = 0 => p * TablePage < CountOf(table.user)
    <3>1. PICK c : c = CountOf(table.user)
      OBVIOUS
    <3>2. PICK d : d = table.data.total
      OBVIOUS
    <3>3. c \in Nat /\ d \in Nat /\ a < d
      BY <1>1, <1>4, <2>3, <3>1, <3>2
    <3>4. ~Hasty /\ cleans = 0 => d <= c
      BY <1>2, <2>3, <3>1, <3>2
    <3>5. ~Hasty /\ cleans = 0 => a < c
      BY <3>3, <3>4
    <3> QED
      BY <2>c, <3>1, <3>5
  <2> QED
    BY <2>3, <2>4, <2>5, <2>6, AuditTableSet
<1>8. CASE \E n \in 1..Len(made) : ToggleRow(n)
  <2>1. PICK n \in 1..Len(made) : ToggleRow(n)
    BY <1>8
  <2>a. PICK o : o = IF n \in table.open THEN table.open \ {n} ELSE table.open \cup {n}
    OBVIOUS
  <2>b. Len(made) \in Nat
    BY <1>4, TrailNumbers
  <2>c. o \subseteq 1..Len(made)
    BY <1>1, <2>a
  <2>d. o \in SUBSET Nat
    BY <2>b, <2>c
  <2>2. PICK s : s = [table EXCEPT !.open = o]
    OBVIOUS
  <2>3. table' = s /\ UNCHANGED <<backend, export>>
    BY <2>1, <2>2, <2>a DEF ToggleRow
  <2>4. /\ s \in [typed : Filters, user : Filters, page : Nat, open : SUBSET Nat,
                  data : [ok : BOOLEAN, items : Seq(Nat), total : Nat]]
        /\ s.open \subseteq 1..Len(made) /\ s.user = table.user /\ s.typed = table.typed
        /\ s.page = table.page /\ s.data = table.data
    BY <1>1, <2>2, <2>c, <2>d
  <2>5. UNCHANGED <<made, db, cleans>>
    BY <2>3 DEF backend
  <2> QED
    BY <1>2, <2>3, <2>4, <2>5, AuditTableSet
<1>9. CASE TableAnswer
  <2>1. PICK items, total : /\ items = PageOf(table.user, table.page, TablePage)
                            /\ total = CountOf(table.user)
    OBVIOUS
  <2>2. PICK s : s = [table EXCEPT !.data = [ok |-> TRUE, total |-> total, items |-> items]]
    OBVIOUS
  <2>3. table' = s /\ UNCHANGED <<backend, export>>
    BY <1>9, <2>1, <2>2 DEF TableAnswer
  <2>4. table.page \in Nat /\ TablePage \in Nat /\ TablePage > 0
    BY <1>1 DEF AuditAssumption
  <2>5. PICK u, p : u = table.user /\ p = table.page
    OBVIOUS
  <2>6. /\ items \in Seq(Nat) /\ p * TablePage \in Nat
        /\ items = <<>> => total <= p * TablePage
    BY <1>4, <2>1, <2>4, <2>5, ListedPage
  <2>7. /\ s \in [typed : Filters, user : Filters, page : Nat, open : SUBSET Nat,
                  data : [ok : BOOLEAN, items : Seq(Nat), total : Nat]]
        /\ s.open = table.open /\ s.user = table.user /\ s.typed = table.typed
        /\ s.page = table.page /\ s.data.items = items /\ s.data.total = total
    BY <1>1, <1>4, <2>1, <2>2, <2>6
  <2>8. UNCHANGED <<made, db, cleans>>
    BY <2>3 DEF backend
  <2>9. ~Hasty /\ cleans = 0 /\ items = <<>> => total = 0
    <3>1. p = 0 => p * TablePage = 0
      BY <2>4
    <3> QED
      BY <1>2, <1>4, <2>1, <2>5, <2>6, <3>1
  <2>10. total <= CountOf(s.user)
    BY <1>4, <2>1, <2>7
  <2> QED
    BY <1>1, <1>2, <2>3, <2>7, <2>8, <2>9, <2>10, AuditTableSet
<1> QED
  BY <1>5, <1>6, <1>7, <1>8, <1>9

----------------------------------------------------------------------------
(* The export.                                                                *)

(* Entries come and go while the export waits for its next page.              *)
LEMMA ExportUnderTrail ==
  ASSUME AuditAssumption, Trail, Trail', EntriesKept, ExportInv, UNCHANGED export
  PROVE  ExportInv'
<1>1. TrailTyped /\ TrailTyped'
  BY DEF Trail
<1>2. ExportTyped'
  BY DEF ExportInv, ExportTyped
<1>3. PICK u : u = export.user
  OBVIOUS
<1>4. /\ Len(made) \in Nat /\ Len(made') \in Nat /\ Len(made) <= Len(made')
      /\ \A m \in 1..Len(made) : made'[m] = made[m]
  BY <1>1, LenProperties DEF EntriesKept, TrailTyped
<1>5. export.start \subseteq 1..Len(made)
  BY DEF ExportInv, NoneSkipped, Matching
<1>6. export.start \cap (ToSet(queue) \cup waiting) = {}
  BY DEF ExportInv, NoneSkipped
<1>7. export.start \cap db' \subseteq db
  BY <1>4, <1>5, <1>6 DEF EntriesKept
<1>8. (export.start \subseteq Matching(1..Len(made), export.user))'
  <2>1. export.start \subseteq Matching(1..Len(made), export.user)
    BY DEF ExportInv, NoneSkipped
  <2>2. 1..Len(made) \subseteq 1..Len(made')
    BY <1>4
  <2> QED
    BY <1>4, <2>1, <2>2 DEF Matching, Entry
<1>9. (export.start \cap (ToSet(queue) \cup waiting) = {})'
  <2>1. \A n \in export.start : n # Len(made) + 1
    BY <1>4, <1>5
  <2> QED
    BY <1>6, <2>1 DEF EntriesKept
<1>10. (~Racing /\ export.pc = "counted" => export.count = CountOf(export.user))'
  <2>1. ~Racing /\ export.pc = "counted" => CountOf(u)' = CountOf(u)
    BY <1>1, PlacesMove DEF EntriesKept
  <2>2. CountOf(export.user) = CountOf(u) /\ CountOf(export.user)' = CountOf(u)'
    BY <1>3 DEF CountOf, Matching, Entry
  <2> QED
    BY <2>1, <2>2 DEF ExportInv, NoneSkipped
<1>11. (Exporting => \A n \in export.start \cap db :
          n \in ToSet(export.rows) \/ Place(n, export.user) >= export.cursor * ExportPage)'
  <2>1. export.cursor \in Nat /\ ExportPage \in Nat
    BY DEF ExportInv, ExportTyped, AuditAssumption
  <2>2. PICK k \in Nat : k = export.cursor * ExportPage
    BY <2>1
  <2>3. SUFFICES ASSUME Exporting, NEW n \in export.start \cap db', n \notin ToSet(export.rows)
                 PROVE  Place(n, export.user)' >= k
    BY <2>2 DEF Exporting
  <2>4. n \in db \cap db'
    BY <1>7, <2>3
  <2>5. Place(n, u) <= Place(n, u)' /\ Place(n, u) \in Nat /\ Place(n, u)' \in Nat
    BY <1>1, <2>4, PlacesMove
  <2>6. Place(n, export.user) = Place(n, u) /\ Place(n, export.user)' = Place(n, u)'
    BY <1>3 DEF Place, Matching, Entry
  <2>7. Place(n, export.user) >= k
    BY <2>2, <2>3, <2>4 DEF ExportInv, NoneSkipped
  <2> QED
    BY <2>2, <2>5, <2>6, <2>7
<1>12. NoneSkipped'
  <2>1. (Exporting => /\ Len(export.rows) <= export.cursor * ExportPage
                      /\ export.rows = <<>> \/ Len(export.rows) < ExportMax)'
    BY DEF ExportInv, NoneSkipped, Exporting
  <2> QED
    BY <1>8, <1>9, <1>10, <1>11, <2>1 DEF NoneSkipped
<1>13. Racing \/ ExportComplete'
  BY <1>7 DEF ExportInv, ExportComplete
<1> QED
  BY <1>2, <1>12, <1>13 DEF ExportInv

(* The export changes and the entries do not.                                 *)
LEMMA ExportSet ==
  ASSUME UNCHANGED <<made, db, queue, waiting>>, NEW x, export' = x,
         x \in [pc : {"idle", "reading", "counted", "done"}, user : Filters, cursor : Nat,
                rows : Seq(Nat), count : Nat, total : Nat, error : BOOLEAN, start : SUBSET Nat],
         Len(x.rows) <= ExportMax + ExportPage,
         x.start \subseteq Matching(1..Len(made), x.user),
         x.start \cap (ToSet(queue) \cup waiting) = {},
         x.pc \in {"reading", "counted"} =>
           /\ Len(x.rows) <= x.cursor * ExportPage
           /\ x.rows = <<>> \/ Len(x.rows) < ExportMax
           /\ \A n \in x.start \cap db : n \in ToSet(x.rows) \/ Place(n, x.user) >= x.cursor * ExportPage,
         ~Racing /\ x.pc = "counted" => x.count = CountOf(x.user),
         ~Racing /\ x.pc = "done" /\ ~x.error => x.start \cap db \subseteq ToSet(x.rows)
  PROVE  ExportInv'
<1>1. ExportTyped'
  BY DEF ExportTyped
<1>2. CountOf(export.user)' = CountOf(x.user) /\ \A n : Place(n, export.user)' = Place(n, x.user)
  BY DEF CountOf, Place, Matching, Entry
<1>3. Matching(1..Len(made), export.user)' = Matching(1..Len(made), x.user)
  BY DEF Matching, Entry
<1>4. NoneSkipped'
  BY <1>2, <1>3 DEF NoneSkipped, Exporting
<1>5. Racing \/ ExportComplete'
  BY DEF ExportComplete
<1> QED
  BY <1>1, <1>4, <1>5 DEF ExportInv

(* The next page of the export.                                               *)
LEMMA ReadPageKeeps ==
  ASSUME AuditAssumption, Trail, ExportInv, ReadPage
  PROVE  ExportInv' /\ UNCHANGED backend /\ UNCHANGED table
<1>1. /\ export \in [pc : {"idle", "reading", "counted", "done"}, user : Filters, cursor : Nat,
                     rows : Seq(Nat), count : Nat, total : Nat, error : BOOLEAN, start : SUBSET Nat]
      /\ Exporting /\ export.pc = "counted"
  BY DEF ExportInv, ExportTyped, ReadPage, Exporting
<1>2. ExportPage \in Nat /\ ExportPage > 0 /\ ExportMax \in Nat
  BY DEF AuditAssumption
<1>3. PICK u, c, old, start : u = export.user /\ c = export.cursor /\ old = export.rows /\ start = export.start
  OBVIOUS
<1>4. PICK items : items = PageOf(u, c, ExportPage)
  OBVIOUS
<1>5. TrailTyped
  BY DEF Trail
<1>6. /\ items \in Seq(Nat) /\ Len(items) \in 0..ExportPage
      /\ (c + 1) * ExportPage = c * ExportPage + ExportPage /\ c * ExportPage \in Nat
      /\ items = <<>> => CountOf(u) <= c * ExportPage
      /\ \A n \in Matching(db, u) : c * ExportPage <= Place(n, u) /\ Place(n, u) < (c + 1) * ExportPage
                                     => n \in ToSet(items)
  BY <1>1, <1>2, <1>3, <1>4, <1>5, ListedPage
<1>7. PICK a \in Nat : a = c * ExportPage
  BY <1>6
<1>8. PICK rows : rows = old \o items
  OBVIOUS
<1>9. /\ rows \in Seq(Nat) /\ Len(rows) = Len(old) + Len(items) /\ Len(old) \in Nat /\ Len(items) \in Nat
      /\ ToSet(rows) = ToSet(old) \cup ToSet(items)
  BY <1>1, <1>3, <1>6, <1>8, ToSetConcat, ConcatProperties, LenProperties
<1>10. PICK total : total = IF items = <<>> THEN export.total ELSE export.count
  OBVIOUS
<1>11. PICK more \in BOOLEAN : more = (items # <<>> /\ Len(rows) < total /\ Len(rows) < ExportMax)
  OBVIOUS
<1>a. PICK pc \in {"reading", "done"}, capped \in BOOLEAN : /\ pc = (IF more THEN "reading" ELSE "done")
                                                      /\ capped = (~more /\ total > ExportMax)
  OBVIOUS
<1>12. PICK x : x = [export EXCEPT !.rows = rows, !.total = total, !.cursor = c + 1,
                                   !.pc = pc, !.error = capped]
  OBVIOUS
<1>13. export' = x /\ UNCHANGED backend /\ UNCHANGED table
  BY <1>1, <1>3, <1>4, <1>8, <1>10, <1>11, <1>12, <1>a DEF ReadPage
<1>14. total \in Nat
  BY <1>1, <1>10
<1>15. /\ x \in [pc : {"idle", "reading", "counted", "done"}, user : Filters, cursor : Nat,
                 rows : Seq(Nat), count : Nat, total : Nat, error : BOOLEAN, start : SUBSET Nat]
       /\ x.pc = (IF more THEN "reading" ELSE "done") /\ x.user = u /\ x.cursor = c + 1 /\ x.rows = rows
       /\ x.start = start /\ (x.error <=> (~more /\ total > ExportMax))
  <2>1. /\ c \in Nat /\ c + 1 \in Nat /\ capped \in BOOLEAN
        /\ pc \in {"idle", "reading", "counted", "done"} /\ rows \in Seq(Nat) /\ total \in Nat
    BY <1>1, <1>3, <1>9, <1>14
  <2>2. /\ x \in [pc : {"idle", "reading", "counted", "done"}, user : Filters, cursor : Nat,
                  rows : Seq(Nat), count : Nat, total : Nat, error : BOOLEAN, start : SUBSET Nat]
        /\ x.pc = pc /\ x.user = u /\ x.cursor = c + 1 /\ x.rows = rows
        /\ x.start = start /\ x.error = capped
    BY <1>1, <1>3, <1>12, <2>1
  <2> QED
    BY <1>a, <2>2
<1>16. /\ Len(old) <= a /\ (old = <<>> \/ Len(old) < ExportMax)
       /\ start \subseteq Matching(1..Len(made), u) /\ start \cap (ToSet(queue) \cup waiting) = {}
       /\ \A n \in start \cap db : n \in ToSet(old) \/ Place(n, u) >= a
       /\ ~Racing => export.count = CountOf(u)
  BY <1>1, <1>3, <1>7 DEF ExportInv, NoneSkipped
<1>17. Len(old) <= ExportMax /\ Len(rows) <= ExportMax + ExportPage /\ Len(rows) <= a + ExportPage
  <2>1. old = <<>> => Len(old) = 0
    BY EmptySeq
  <2> QED
    BY <1>2, <1>6, <1>9, <1>16, <2>1
<1>18. /\ CountOf(u) \in Nat /\ \A n \in start \cap db : n \in Matching(db, u) /\ Place(n, u) \in 0..(CountOf(u) - 1)
  <2>1. start \cap db \subseteq Matching(db, u)
    BY <1>16 DEF Matching
  <2> QED
    BY <1>5, <2>1, TrailNumbers
<1>19. \A n \in start \cap db : n \in ToSet(rows) \/ Place(n, u) >= a + ExportPage
  <2>1. SUFFICES ASSUME NEW n \in start \cap db, ~(Place(n, u) >= a + ExportPage) PROVE n \in ToSet(rows)
    OBVIOUS
  <2>2. Place(n, u) \in Nat /\ n \in Matching(db, u)
    BY <1>18, <2>1
  <2>3. n \in ToSet(old) \/ n \in ToSet(items)
    BY <1>2, <1>6, <1>7, <1>16, <2>1, <2>2
  <2> QED
    BY <1>9, <2>3
<1>20. ~Racing /\ x.pc = "done" /\ ~x.error => start \cap db \subseteq ToSet(rows)
  <2>1. SUFFICES ASSUME ~Racing, ~more, ~(total > ExportMax), NEW n \in start \cap db PROVE n \in ToSet(rows)
    BY <1>15
  <2>2. Place(n, u) \in Nat /\ Place(n, u) < CountOf(u) /\ CountOf(u) \in Nat
    BY <1>18, <2>1
  <2>3. CASE items = <<>>
    <3>1. CountOf(u) <= a
      BY <1>6, <1>7, <2>3
    <3>2. n \in ToSet(old)
      BY <1>16, <2>1, <2>2, <3>1
    <3> QED
      BY <1>9, <3>2
  <2>4. CASE items # <<>>
    <3>1. total = CountOf(u)
      BY <1>10, <1>16, <2>1, <2>4
    <3>2. ~(Len(rows) < total) \/ ~(Len(rows) < ExportMax)
      BY <1>11, <2>1, <2>4
    <3>3. Len(rows) \in Nat
      BY <1>9
    <3>4. CountOf(u) <= Len(rows)
      BY <1>2, <1>14, <2>1, <3>1, <3>2, <3>3
    <3>5. ~(Place(n, u) >= a + ExportPage)
      BY <1>2, <1>17, <2>2, <3>3, <3>4
    <3> QED
      BY <1>19, <2>1, <3>5
  <2> QED
    BY <2>3, <2>4
<1>21. x.pc \in {"reading", "counted"} => rows = <<>> \/ Len(rows) < ExportMax
  BY <1>11, <1>15
<1>22. x.cursor * ExportPage = a + ExportPage
  BY <1>6, <1>7, <1>15
<1>23. UNCHANGED <<made, db, queue, waiting>>
  BY <1>13 DEF backend
<1>24. x.pc # "counted"
  BY <1>15
<1>25. ExportInv'
  BY <1>13, <1>15, <1>16, <1>17, <1>19, <1>20, <1>21, <1>22, <1>23, <1>24, ExportSet
<1> QED
  BY <1>13, <1>25

(* The button, the count before a page, the page and a failed request.        *)
LEMMA ExportStep ==
  ASSUME AuditAssumption, Trail, TableInv, ExportInv, StartExport \/ CountRows \/ ReadPage \/ ReadFails
  PROVE  /\ ExportInv' /\ UNCHANGED table
         /\ UNCHANGED <<server, handlers, waiting, queue, writer, db, made, logged, cleans>> /\ faults' \in Nat
<1>1. /\ export \in [pc : {"idle", "reading", "counted", "done"}, user : Filters, cursor : Nat,
                     rows : Seq(Nat), count : Nat, total : Nat, error : BOOLEAN, start : SUBSET Nat]
      /\ Len(export.rows) <= ExportMax + ExportPage
  BY DEF ExportInv, ExportTyped
<1>2. ExportPage \in Nat /\ ExportMax \in Nat
  BY DEF AuditAssumption
<1>a. "" \in Filters
  BY DEF AuditAssumption
<1>3. TrailTyped /\ faults \in Nat
  BY DEF Trail, TrailTyped
<1>4. <<>> \in Seq(Nat) /\ Len(<<>>) = 0
  BY EmptySeq
<1>5. CASE StartExport
  <2>1. PICK v, S : v = table.user /\ S = Matching(db, v)
    OBVIOUS
  <2>2. PICK x : x = [NoExport EXCEPT !.pc = "reading", !.user = v, !.start = S]
    OBVIOUS
  <2>3. export' = x /\ UNCHANGED backend /\ UNCHANGED table
    BY <1>5, <2>1, <2>2 DEF StartExport
  <2>4. v \in Filters
    BY <2>1 DEF TableInv, TableTyped
  <2>5. /\ S \in SUBSET Nat /\ S \subseteq db /\ S \subseteq Matching(1..Len(made), v)
        /\ \A n \in S : Place(n, v) \in Nat
    <3>1. Matching(db, v) \in SUBSET Nat /\ \A n \in Matching(db, v) : Place(n, v) \in Nat
      BY <1>3, TrailNumbers
    <3>2. db \subseteq 1..Len(made)
      BY <1>3, TrailNumbers
    <3> QED
      BY <2>1, <3>1, <3>2 DEF Matching
  <2>6. /\ x \in [pc : {"idle", "reading", "counted", "done"}, user : Filters, cursor : Nat,
                  rows : Seq(Nat), count : Nat, total : Nat, error : BOOLEAN, start : SUBSET Nat]
        /\ x.rows = <<>> /\ x.cursor = 0 /\ x.pc = "reading" /\ x.user = v /\ x.start = S
    BY <1>4, <2>2, <2>4, <2>5 DEF NoExport
  <2>7. S \cap (ToSet(queue) \cup waiting) = {}
    BY <2>5 DEF Trail, Accounted
  <2>8. x.cursor * ExportPage = 0
    <3>1. 0 * ExportPage = 0
      BY <1>2
    <3> QED
      BY <2>6, <3>1
  <2>9. UNCHANGED <<made, db, queue, waiting>>
    BY <2>3 DEF backend
  <2>11. Len(x.rows) <= ExportMax + ExportPage /\ Len(x.rows) <= x.cursor * ExportPage
    <3>1. Len(x.rows) = 0
      BY <2>6, EmptySeq
    <3> QED
      BY <1>2, <2>8, <3>1
  <2>12. \A n \in x.start \cap db : Place(n, x.user) >= x.cursor * ExportPage
    BY <2>5, <2>6, <2>8
  <2>13. ExportInv'
    BY <2>3, <2>5, <2>6, <2>7, <2>9, <2>11, <2>12, ExportSet
  <2> QED
    BY <1>3, <2>3, <2>13 DEF backend
<1>6. CASE CountRows
  <2>1. PICK k : k = CountOf(export.user)
    OBVIOUS
  <2>2. PICK x : x = [export EXCEPT !.pc = "counted", !.count = k]
    OBVIOUS
  <2>3. export' = x /\ UNCHANGED backend /\ UNCHANGED table /\ export.pc = "reading"
    BY <1>6, <2>1, <2>2 DEF CountRows
  <2>4. k \in Nat
    BY <1>3, <2>1, TrailNumbers
  <2>5. /\ x \in [pc : {"idle", "reading", "counted", "done"}, user : Filters, cursor : Nat,
                  rows : Seq(Nat), count : Nat, total : Nat, error : BOOLEAN, start : SUBSET Nat]
        /\ x.rows = export.rows /\ x.cursor = export.cursor /\ x.pc = "counted" /\ x.user = export.user
        /\ x.start = export.start /\ x.count = k
    BY <1>1, <2>2, <2>4
  <2>6. /\ export.start \subseteq Matching(1..Len(made), export.user)
        /\ export.start \cap (ToSet(queue) \cup waiting) = {}
        /\ Len(export.rows) <= export.cursor * ExportPage
        /\ export.rows = <<>> \/ Len(export.rows) < ExportMax
        /\ \A n \in export.start \cap db :
             n \in ToSet(export.rows) \/ Place(n, export.user) >= export.cursor * ExportPage
    BY <2>3 DEF ExportInv, NoneSkipped, Exporting
  <2>7. UNCHANGED <<made, db, queue, waiting>>
    BY <2>3 DEF backend
  <2>8. ExportInv'
    BY <1>1, <2>1, <2>3, <2>5, <2>6, <2>7, ExportSet
  <2> QED
    BY <1>3, <2>3, <2>8 DEF backend
<1>7. CASE ReadPage
  BY <1>3, <1>7, ReadPageKeeps DEF backend
<1>8. CASE ReadFails
  <2>1. PICK x : x = [NoExport EXCEPT !.error = TRUE]
    OBVIOUS
  <2>2. /\ export' = x /\ faults' = faults + 1
        /\ UNCHANGED <<server, handlers, waiting, queue, writer, db, made, logged, table, cleans>>
    BY <1>8, <2>1 DEF ReadFails, Fault
  <2>3. /\ x \in [pc : {"idle", "reading", "counted", "done"}, user : Filters, cursor : Nat,
                  rows : Seq(Nat), count : Nat, total : Nat, error : BOOLEAN, start : SUBSET Nat]
        /\ x.rows = <<>> /\ x.pc = "idle" /\ x.start = {}
    BY <1>a, <1>4, <2>1 DEF NoExport
  <2>4. ExportInv'
    <3>1. Len(x.rows) <= ExportMax + ExportPage
      <4>1. Len(x.rows) = 0
        BY <2>3, EmptySeq
      <4> QED
        BY <1>2, <4>1
    <3>2. /\ x.start \subseteq Matching(1..Len(made), x.user) /\ x.start \cap (ToSet(queue) \cup waiting) = {}
          /\ x.pc \notin {"reading", "counted", "done"}
      BY <2>3
    <3>3. UNCHANGED <<made, db, queue, waiting>> /\ export' = x
      BY <2>2
    <3> QED
      BY <2>3, <3>1, <3>2, <3>3, ExportSet
  <2> QED
    BY <1>3, <2>2, <2>4
<1> QED
  BY <1>5, <1>6, <1>7, <1>8

----------------------------------------------------------------------------
(* The differences of a row.                                                  *)

(* Every field of either image is listed, and none is marked exactly when the *)
(* images are equal.                                                          *)
LEMMA DiffSound ==
  ASSUME AuditAssumption, NEW b \in Snapshots, NEW a \in Snapshots, NEW d, d = Diff(b, a)
  PROVE  /\ DOMAIN a = {f \in DOMAIN d : d[f] # "removed"}
         /\ DOMAIN b = {f \in DOMAIN d : d[f] # "added"}
         /\ (ChangedCount(d) = 0) <=> (a = b)
<1>1. /\ DOMAIN d = DOMAIN b \cup DOMAIN a
      /\ \A f \in DOMAIN d : d[f] = IF f \notin DOMAIN b THEN "added"
                                    ELSE IF f \notin DOMAIN a THEN "removed"
                                    ELSE IF b[f] /= a[f] THEN "changed" ELSE "unchanged"
  BY DEF Diff
<1>2. /\ DOMAIN a \subseteq Fields /\ DOMAIN b \subseteq Fields /\ IsFiniteSet(Fields)
      /\ a = [f \in DOMAIN a |-> a[f]] /\ b = [f \in DOMAIN b |-> b[f]]
  BY DEF AuditAssumption
<1>3. DOMAIN a = {f \in DOMAIN d : d[f] # "removed"} /\ DOMAIN b = {f \in DOMAIN d : d[f] # "added"}
  BY <1>1
<1> DEFINE C == {f \in DOMAIN d : d[f] # "unchanged"}
<1>4. ChangedCount(d) = 0 <=> C = {}
  <2>1. C \in SUBSET Fields
    BY <1>1, <1>2
  <2>2. ChangedCount(d) = Cardinality(C)
    BY DEF ChangedCount
  <2> HIDE DEF C
  <2>3. IsFiniteSet(C)
    BY <1>2, <2>1, FS_Subset
  <2> QED
    BY <2>2, <2>3, FS_EmptySet
<1>5. C = {} => a = b
  <2>1. SUFFICES ASSUME C = {} PROVE a = b
    OBVIOUS
  <2>2. \A f \in DOMAIN d : d[f] = "unchanged"
    BY <2>1
  <2>3. DOMAIN a = DOMAIN b /\ \A f \in DOMAIN a : a[f] = b[f]
    BY <1>1, <2>2
  <2>4. [f \in DOMAIN a |-> a[f]] = [f \in DOMAIN b |-> b[f]]
    BY <2>3
  <2> QED
    BY <1>2, <2>4
<1>6. a = b => C = {}
  BY <1>1
<1> QED
  BY <1>3, <1>4, <1>5, <1>6

(* What an opened row lists explains its images.                              *)
LEMMA RowsExplain ==
  ASSUME AuditAssumption, Trail, TableInv
  PROVE  DiffExplains
<1>1. SUFFICES ASSUME NEW n \in table.open
               PROVE  LET b == Entry(n).before a == Entry(n).after d == Diff(b, a)
                      IN /\ DOMAIN a = {f \in DOMAIN d : d[f] # "removed"}
                         /\ DOMAIN b = {f \in DOMAIN d : d[f] # "added"}
                         /\ (ChangedCount(d) = 0) <=> (a = b)
  BY DEF DiffExplains
<1>2. made[n] \in Entries
  <2>1. n \in 1..Len(made) /\ made \in Seq(Entries)
    BY <1>1 DEF TableInv, TableTyped, Trail, TrailTyped
  <2> QED
    BY <2>1, ElementOfSeq
<1>3. made[n].before \in Snapshots /\ made[n].after \in Snapshots
  BY <1>2 DEF Entries
<1> QED
  BY <1>3, DiffSound DEF Entry

----------------------------------------------------------------------------
(* The theorem.                                                               *)

(* Nothing is recorded, shown or exported when the process starts.            *)
LEMMA AuditInitInv ==
  ASSUME AuditAssumption, AuditInit
  PROVE  AuditInv
<1>1. <<>> \in Seq(Nat) /\ <<>> \in Seq(Entries) /\ Len(<<>>) = 0 /\ DOMAIN <<>> = {}
  BY EmptySeq
<1>2. /\ server = "up" /\ handlers = 0 /\ waiting = {} /\ queue = <<>> /\ writer = "run"
      /\ db = {} /\ made = <<>> /\ logged = {} /\ faults = 0 /\ cleans = 0
      /\ table = [typed |-> "", user |-> "", page |-> 0, data |-> Loading, open |-> {}]
      /\ export = NoExport
  BY DEF AuditInit
<1>3. ToSet(queue) = {} /\ IsInjective(queue)
  BY <1>1, <1>2 DEF ToSet, IsInjective
<1>4. BufSize \in Nat /\ ExportMax \in Nat /\ ExportPage \in Nat
  BY DEF AuditAssumption
<1>a. "" \in Filters
  BY DEF AuditAssumption
<1>b. Len(queue) = 0 /\ Len(made) = 0 /\ made \in Seq(Entries) /\ queue \in Seq(Nat)
  BY <1>1, <1>2
<1>c. /\ server = "up" /\ handlers = 0 /\ waiting = {} /\ writer = "run"
      /\ db = {} /\ logged = {} /\ faults = 0 /\ cleans = 0
  BY <1>2
<1>5. Trail
  <2>1. TrailTyped
    BY <1>3, <1>4, <1>b, <1>c DEF TrailTyped
  <2>2. CriticalStored /\ Accounted /\ waiting \cap logged = {}
    <3>1. 1..Len(made) = {}
      BY <1>b
    <3> QED
      BY <1>3, <1>c, <3>1 DEF CriticalStored, Accounted
  <2>3. ShutDown
    BY <1>2 DEF ShutDown
  <2> QED
    BY <2>1, <2>2, <2>3 DEF Trail
<1>6. TableInv
  <2>1. Loading \in [ok : BOOLEAN, items : Seq(Nat), total : Nat] /\ ~Loading.ok
    BY <1>1 DEF Loading
  <2>2. /\ table \in [typed : Filters, user : Filters, page : Nat, open : SUBSET Nat,
                     data : [ok : BOOLEAN, items : Seq(Nat), total : Nat]]
        /\ table.open = {} /\ table.page = 0 /\ ~table.data.ok
    BY <1>2, <1>a, <2>1
  <2> QED
    BY <2>2 DEF TableInv, TableTyped, PageExists, EmptyMeansNone
<1>7. ExportInv
  <2>1. /\ export \in [pc : {"idle", "reading", "counted", "done"}, user : Filters, cursor : Nat,
                       rows : Seq(Nat), count : Nat, total : Nat, error : BOOLEAN, start : SUBSET Nat]
        /\ export.rows = <<>> /\ export.start = {} /\ export.pc = "idle"
    BY <1>1, <1>2, <1>a DEF NoExport
  <2>2. Len(export.rows) <= ExportMax + ExportPage
    <3>1. Len(export.rows) = 0
      BY <2>1, EmptySeq
    <3> QED
      BY <1>4, <3>1
  <2> QED
    BY <2>1, <2>2 DEF ExportInv, ExportTyped, NoneSkipped, ExportComplete, Exporting
<1> QED
  BY <1>5, <1>6, <1>7, InvParts

(* Every step keeps the invariant.                                            *)
LEMMA AuditStep ==
  ASSUME AuditAssumption, AuditInv, [AuditNext]_auditVars
  PROVE  AuditInv'
<1>1. Trail /\ TableInv /\ ExportInv
  BY InvParts
<1>2. CASE Trail' /\ EntriesKept /\ UNCHANGED <<table, export>>
  BY <1>1, <1>2, AuditTableKept, ExportUnderTrail, InvParts
<1>3. /\ handlers \in Nat /\ faults \in Nat /\ server \in {"up", "closing", "draining", "exited"}
      /\ writer \in {"run", "drain", "done"} /\ ShutDown
  BY <1>1 DEF Trail, TrailTyped
<1>4. UNCHANGED backend => Trail' /\ EntriesKept
  BY <1>1, <1>3, TrailQuiet DEF backend, ShutDown
<1>5. CASE \/ Request \/ Write \/ Terminate \/ StopServer \/ Drained \/ ProcessEnds \/ Clean
           \/ \E u \in Users, c \in BOOLEAN, b, a \in Snapshots : Audit(u, c, b, a)
           \/ \E n \in waiting : Enqueue(n) \/ Drop(n)
  BY <1>1, <1>2, <1>5, TrailServer, TrailWriter, TrailClean, TrailAudit, TrailWaiting
<1>6. CASE \/ \E u \in Filters : TypeUser(u)
           \/ \E p \in 0..MaxEntries : TurnPage(p)
           \/ \E n \in 1..Len(made) : ToggleRow(n)
           \/ Debounce \/ TableAnswer
  <2>1. TableInv' /\ UNCHANGED backend /\ UNCHANGED export
    BY <1>1, <1>6, AuditTableStep
  <2> QED
    BY <1>1, <1>4, <2>1, ExportUnderTrail, InvParts
<1>7. CASE StartExport \/ CountRows \/ ReadPage \/ ReadFails
  <2>1. /\ ExportInv' /\ UNCHANGED table
        /\ UNCHANGED <<server, handlers, waiting, queue, writer, db, made, logged, cleans>> /\ faults' \in Nat
    BY <1>1, <1>7, ExportStep
  <2>2. Trail' /\ EntriesKept
    BY <1>1, <1>3, <2>1, TrailQuiet DEF ShutDown
  <2> QED
    BY <1>1, <2>1, <2>2, AuditTableKept, InvParts
<1>8. CASE UNCHANGED auditVars
  BY <1>2, <1>4, <1>8 DEF auditVars, backend
<1> QED
  BY <1>5, <1>6, <1>7, <1>8 DEF AuditNext

(* No entry vanishes unrecorded on its way to the database, and none from the *)
(* page or from an export (TrailComplete): for any channel, any sizes of      *)
(* pages, any number of entries, failures and cleanings.  Without slow        *)
(* handlers, rows stored between count and selection, and hasty turns.        *)
THEOREM TrailIsComplete ==
  ASSUME AuditAssumption
  PROVE  AuditSpec => []TrailComplete
<1>1. AuditInit => AuditInv
  BY AuditInitInv
<1>2. AuditInv /\ [AuditNext]_auditVars => AuditInv'
  BY AuditStep
<1>3. AuditInv => TrailComplete
  <2>1. SUFFICES ASSUME AuditInv PROVE TrailComplete
    OBVIOUS
  <2>2. Trail /\ TableInv
    BY <2>1, InvParts
  <2>3. DiffExplains
    BY <2>2, RowsExplain
  <2>4. SlowHandlers \/ DrainSeesAll
    BY <2>1 DEF AuditInv, ShutDown, DrainSeesAll
  <2> QED
    BY <2>1, <2>3, <2>4 DEF AuditInv, TrailComplete
<1> QED
  BY <1>1, <1>2, <1>3, PTL DEF AuditSpec

=============================================================================
