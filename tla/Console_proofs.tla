----------------------------- MODULE Console_proofs -----------------------------
(***************************************************************************)
(* Proofs about the pages of the console that write: the tab and the       *)
(* account it shows (Session), the guardrails page (GuardrailsForm), the   *)
(* editors of policies and exceptions (RecordEditor), import and export    *)
(* (ImportExport), the danger zone (DangerZone).  The components share no  *)
(* variable; each has a section that ends in its theorem.                  *)
(***************************************************************************)
EXTENDS Session, GuardrailsForm, RecordEditor, ImportExport, DangerZone,
        TLAPS, FiniteSetTheorems, SequenceTheorems

----------------------------------------------------------------------------
(* The tab and its account.                                                   *)

(* What the parts of the tab and of the backend are.                          *)
LEMMA SessionFacts ==
  ASSUME SessionAssumption, SessionInv
  PROVE  /\ owner \in Seq(Accounts) /\ Len(owner) \in Nat /\ cookie \in 0..Len(owner)
         /\ live \subseteq 1..Len(owner) /\ ver \in Nat /\ acked \in Nat /\ acked <= ver
         /\ \A s \in 1..Len(owner) : owner[s] \in Accounts /\ owner[s] # "nobody" /\ owner[s] # "dev"
         /\ user = Nobody <=> user.id = "nobody"
         /\ user = Nobody \/ user.id \in Accounts \cup {"dev"}
         /\ gate \in Gates
         /\ users \in Lists
         /\ page \in Views
<1>1. "nobody" \notin Accounts /\ "dev" \notin Accounts
  BY DEF SessionAssumption
<1>2. /\ owner \in Seq(Accounts) /\ cookie \in 0..Len(owner) /\ live \subseteq 1..Len(owner)
      /\ acked \in Nat /\ ver \in Nat /\ acked <= ver
  BY DEF SessionInv, SessionTypeOK
<1>3. user = Nobody \/ user.id \in Accounts \cup {"dev"}
  BY DEF SessionInv, SessionShapes
<1>4. Nobody.id = "nobody"
  BY DEF Nobody
<1>5. Len(owner) \in Nat /\ \A s \in 1..Len(owner) : owner[s] \in Accounts
  BY <1>2
<1>6. /\ gate \in Gates
      /\ users \in Lists
      /\ page \in Views
  BY DEF SessionInv, SessionShapes
<1>7. user = Nobody <=> user.id = "nobody"
  BY <1>1, <1>3, <1>4
<1> QED
  BY <1>1, <1>2, <1>3, <1>5, <1>6, <1>7

(* What a request under way is.                                               *)
LEMMA SessionRequestFacts ==
  ASSUME SessionInv, NEW q \in net
  PROVE  /\ IsRequest(q)
         /\ q.sess \in 0..Len(owner)
         /\ q.for \in {"init", "login", "poll", "refresh", "logout", "page", "gone"}
         /\ SentFor(q) /\ AnsweredFor(q)
  BY DEF SessionInv, SessionShapes, SessionTypeOK

(* The pages show what the caches hold.                                       *)
LEMMA SessionShows ==
  ASSUME SessionAssumption, SessionInv
  PROVE  CacheOwned
<1>1. SessionTypeOK /\ CacheOwn
  BY DEF SessionInv
<1>2. ReadsOwnWrites
  <2> SUFFICES ASSUME UsersPage, users # NoUsers, ~Fetching
               PROVE  users.err \/ users.outrun \/ users.ver >= acked
    BY DEF ReadsOwnWrites
  <2>1. page.at = "users" /\ users.ver \in Nat /\ acked \in Nat
    BY SessionFacts DEF UsersPage, Lists
  <2>2. /\ users.ver < acked => users.stale \/ users.outrun
        /\ users.stale /\ page.at = "users" => users.err \/ Fetching
    BY DEF SessionInv, StaleIsRead
  <2> QED
    BY <2>1, <2>2
<1>3. SidebarStored
  BY DEF SidebarStored, Screen, SessionInv, SessionOfUser
<1> QED
  BY <1>1, <1>2, <1>3 DEF CacheOwned

(* An answer is put into a request, which stays the same otherwise.           *)
LEMMA SessionReplyFacts ==
  ASSUME NEW q, NEW a,
         IsRequest(q)
  PROVE  LET t == [q EXCEPT !.ans = a] IN
         /\ t.kind = q.kind /\ t.for = q.for /\ t.arg = q.arg /\ t.sess = q.sess
         /\ t.asked = q.asked /\ t.ans = a
         /\ IsRequest(t)
  BY DEF IsRequest

(* What is under way once a request is answered.                              *)
LEMMA SessionRepliedFacts ==
  ASSUME SessionInv, NEW q \in net, NEW a, Reply(q, a)
  PROVE  \E t : /\ net' = (net \ {q}) \cup {t}
                /\ t.kind = q.kind /\ t.for = q.for /\ t.arg = q.arg /\ t.sess = q.sess
                /\ t.asked = q.asked
                /\ t.ans = a
                /\ IsRequest(t)
<1> DEFINE t0 == [q EXCEPT !.ans = a]
<1>1. net' = (net \ {q}) \cup {t0}
  BY DEF Reply
<1>2. /\ t0.kind = q.kind /\ t0.for = q.for /\ t0.arg = q.arg /\ t0.sess = q.sess
      /\ t0.asked = q.asked
      /\ t0.ans = a
      /\ IsRequest(t0)
  BY SessionRequestFacts, SessionReplyFacts, ZenonT(60)
<1> HIDE DEF t0
<1> QED
  BY <1>1, <1>2

(* An orphan is the same request, for nobody when a page asked for it.        *)
LEMMA SessionOrphanFacts ==
  ASSUME NEW q,
         IsRequest(q)
  PROVE  LET t == Orphan(q) IN
         /\ t.kind = q.kind /\ t.arg = q.arg /\ t.sess = q.sess /\ t.asked = q.asked
         /\ t.ans = q.ans
         /\ t.for = IF q.kind = "users" \/ q.for = "page" THEN "gone" ELSE q.for
         /\ IsRequest(t)
<1>1. CASE q.kind = "users" \/ q.for = "page"
  BY <1>1 DEF Orphan, IsRequest
<1>2. CASE ~(q.kind = "users" \/ q.for = "page")
  BY <1>2 DEF Orphan
<1> QED
  BY <1>1, <1>2

(* A request of a page that is left: the read of the list stays with its cache. *)
LEMMA SessionLeaveFacts ==
  ASSUME NEW q,
         IsRequest(q)
  PROVE  LET t == LeavePage(q) IN
         /\ t.kind = q.kind /\ t.arg = q.arg /\ t.sess = q.sess /\ t.asked = q.asked
         /\ t.ans = q.ans
         /\ t.for = IF q.kind # "users" /\ q.for = "page" THEN "gone" ELSE q.for
         /\ IsRequest(t)
<1>1. CASE q.kind # "users" /\ q.for = "page"
  BY <1>1 DEF LeavePage, IsRequest
<1>2. CASE ~(q.kind # "users" /\ q.for = "page")
  BY <1>2 DEF LeavePage
<1> QED
  BY <1>1, <1>2

(* The backend serves a request or its tables change: sessions are added and  *)
(* ended, versions grow, an answer is true of them.                           *)
LEMMA SessionServedStep ==
  ASSUME SessionAssumption, SessionInv, UNCHANGED <<user, gate, cookie, users, page, acked>>,
         owner' \in Seq(Accounts), Len(owner) <= Len(owner'),
         \A s \in 1..Len(owner) : owner'[s] = owner[s],
         live' \subseteq 1..Len(owner'), \A s \in live' : s \in live \/ s > Len(owner),
         AuthOff => owner' = owner, ver' \in Nat, ver <= ver',
         \/ net' = net
         \/ \E q \in net : \E t :
              /\ net' = (net \ {q}) \cup {t} /\ AnsweredFor(t)'
              /\ t.kind = q.kind /\ t.for = q.for /\ t.arg = q.arg /\ t.sess = q.sess
              /\ t.asked = q.asked
              /\ IsRequest(t)
  PROVE  SessionInv'
<1>1. \A q \in net : SentFor(q)' /\ AnsweredFor(q)'
  <2> TAKE q \in net
  <2>1. Len(owner') \in Nat
    OBVIOUS
  <2>2. SentFor(q)'
    BY SessionRequestFacts, SessionFacts, <2>1 DEF SentFor
  <2>3. AnsweredFor(q)'
    <3>1. AnsweredFor(q) /\ SentFor(q) /\ q.sess \in 0..Len(owner)
      BY SessionRequestFacts
    <3>2. /\ live \subseteq 1..Len(owner) /\ Len(owner) \in Nat
          /\ ver \in Nat
      BY SessionFacts
    <3>3. q.sess # 0 => q.sess \in 1..Len(owner) /\ owner'[q.sess] = owner[q.sess]
      BY <3>1, <3>2
    <3>4. q.sess \notin live => q.sess \notin live'
      BY <3>1, <3>2, <2>1
    <3>5. \A s \in 1..Len(owner) : s \in 1..Len(owner')
      BY <3>2, <2>1
    <3>6. q.ans.ver \in Nat /\ q.ans.ver <= ver => q.ans.ver <= ver'
      BY <3>2
    <3>7. /\ q.kind = "me" /\ q.ans.code = "user" => q.sess # 0 /\ q.ans.user.id = owner'[q.sess]
          /\ q.kind = "me" /\ q.for = "init" /\ q.ans.code = "401" => q.sess \notin live'
      BY <3>1, <3>3, <3>4 DEF AnsweredFor
    <3>8. q.kind = "login" /\ q.ans.code = "user" =>
            q.ans.sess \in 1..Len(owner') /\ q.ans.user.id = owner'[q.ans.sess]
      BY <3>1, <3>5 DEF AnsweredFor
    <3>9. /\ q.kind = "probe" /\ ~AuthOff => q.ans.code # "ok"
          /\ q.kind = "users" /\ q.for = "page" /\ q.ans.code = "list" =>
               q.ans.who = user.id /\ q.ans.ver \in Nat /\ (q.arg = "outrun" \/ acked <= q.ans.ver)
      BY <3>1 DEF AnsweredFor
    <3>10. q.kind \in Writes /\ q.ans.code = "ok" => q.ans.ver \in Nat /\ q.ans.ver <= ver'
      BY <3>1, <3>6 DEF AnsweredFor
    <3> QED
      BY <3>7, <3>8, <3>9, <3>10 DEF AnsweredFor
  <2> QED
    BY <2>2, <2>3
<1>2. \A t \in net' : \E q \in net :
        /\ t.kind = q.kind /\ t.for = q.for /\ t.arg = q.arg /\ t.sess = q.sess /\ t.asked = q.asked
        /\ IsRequest(t)
        /\ AnsweredFor(t)'
  <2>1. CASE net' = net
    BY <2>1, <1>1, SessionRequestFacts
  <2>2. CASE ~(net' = net)
    BY <2>2, <1>1, SessionRequestFacts
  <2> QED
    BY <2>1, <2>2
<1>3. \A t \in net' : SentFor(t)' /\ AnsweredFor(t)'
  <2> TAKE t \in net'
  <2>1. PICK q \in net : /\ t.kind = q.kind /\ t.for = q.for /\ t.arg = q.arg /\ t.sess = q.sess
                         /\ t.asked = q.asked /\ AnsweredFor(t)'
    BY <1>2
  <2>2. SentFor(q)'
    BY <1>1
  <2> QED
    BY <2>1, <2>2 DEF SentFor
<1>4. SessionTypeOK'
  <2>1. \A t \in net' : t.sess \in 0..Len(owner')
                        /\ t.for \in {"init", "login", "poll", "refresh", "logout", "page", "gone"}
    BY <1>2, SessionRequestFacts, SessionFacts
  <2> QED
    BY <2>1, SessionFacts DEF SessionInv, SessionTypeOK
<1>5. SessionShapes' /\ CacheOwn'
  BY <1>2 DEF SessionInv, SessionShapes, CacheOwn
<1>6. SessionOfUser'
  BY SessionFacts DEF SessionInv, SessionOfUser
<1>7. OneAtATime'
  <2>1. CASE net' = net
    BY <2>1 DEF SessionInv, OneAtATime
  <2>2. CASE ~(net' = net)
    <3>1. PICK q \in net : \E t : net' = (net \ {q}) \cup {t} /\ t.kind = q.kind /\ t.for = q.for
      BY <2>2
    <3>2. PICK t : net' = (net \ {q}) \cup {t} /\ t.kind = q.kind /\ t.for = q.for
      BY <3>1
    <3>3. \A r \in net : r.kind = "me" /\ r.for = "init" => net = {r} /\ gate.checking
      BY DEF SessionInv, OneAtATime
    <3>4. \A r, s \in net : r.for = "login" /\ s.for = "login" => r = s
      BY DEF SessionInv, OneAtATime
    <3>5. \A r \in net' : r.kind = "me" /\ r.for = "init" => net' = {r} /\ gate'.checking
      BY <3>2, <3>3
    <3>6. \A r, s \in net' : r.for = "login" /\ s.for = "login" => r = s
      BY <3>2, <3>4
    <3> QED
      BY <3>5, <3>6 DEF OneAtATime
  <2> QED
    BY <2>1, <2>2
<1>8. StaleIsRead'
  <2>1. Fetching => Fetching'
    <3>1. CASE net' = net
      BY <3>1 DEF Fetching
    <3>2. CASE ~(net' = net)
      <4>1. PICK q \in net : \E t : net' = (net \ {q}) \cup {t} /\ t.kind = q.kind /\ t.for = q.for
        BY <3>2
      <4>2. PICK t : net' = (net \ {q}) \cup {t} /\ t.kind = q.kind /\ t.for = q.for
        BY <4>1
      <4> QED
        BY <4>2 DEF Fetching
    <3> QED
      BY <3>1, <3>2
  <2> QED
    BY <2>1 DEF SessionInv, StaleIsRead
<1> QED
  BY <1>3, <1>4, <1>5, <1>6, <1>7, <1>8 DEF SessionInv

(* The request that is served, answered as the tables now say.                *)
LEMMA SessionReplyStep ==
  ASSUME SessionAssumption, SessionInv, NEW q \in net, NEW a, Reply(q, a),
         UNCHANGED <<user, gate, cookie, users, page, acked>>,
         owner' \in Seq(Accounts), Len(owner) <= Len(owner'),
         \A s \in 1..Len(owner) : owner'[s] = owner[s],
         live' \subseteq 1..Len(owner'), \A s \in live' : s \in live \/ s > Len(owner),
         AuthOff => owner' = owner, ver' \in Nat, ver <= ver',
         \A t : /\ t.kind = q.kind /\ t.for = q.for /\ t.sess = q.sess /\ t.ans = a
                => AnsweredFor(t)'
  PROVE  SessionInv'
<1>1. PICK t : /\ net' = (net \ {q}) \cup {t}
               /\ t.kind = q.kind /\ t.for = q.for /\ t.arg = q.arg /\ t.sess = q.sess
               /\ t.asked = q.asked
               /\ t.ans = a
               /\ IsRequest(t)
  BY SessionRepliedFacts
<1>2. AnsweredFor(t)'
  BY <1>1
<1> QED
  BY <1>1, <1>2, SessionServedStep

(* What the backend answers to reads.                                         *)
LEMMA SessionReadStep ==
  ASSUME SessionAssumption, SessionInv, NEW q \in net, ServeRequest(q),
         q.kind \in {"me", "probe", "settings", "users"}
  PROVE  SessionInv'
<1>0. SentFor(q) /\ q.sess \in 0..Len(owner)
  BY SessionRequestFacts
<1>1. PICK a : /\ Reply(q, a) /\ a = ReadAnswer(q)
               /\ UNCHANGED <<user, gate, cookie, users, page, acked>>
               /\ UNCHANGED <<accounts, owner, live, ver>>
  BY DEF ServeRequest, ServeRead, ServeLogin, ServeLogout, ServeWrite, Writes, backend
<1>2. ASSUME NEW t, t.kind = q.kind, t.for = q.for, t.sess = q.sess, t.ans = a
      PROVE  AnsweredFor(t)'
  <2>1. CASE q.kind = "me"
    <3>1. CASE q.sess \in live
      <4>1. a.code = "user" /\ a.user.id = owner[q.sess] /\ q.sess # 0
        BY <1>1, <2>1, <3>1, SessionFacts DEF ReadAnswer
      <4> QED
        BY <1>1, <1>2, <2>1, <4>1 DEF AnsweredFor, Writes
    <3>2. CASE q.sess \notin live
      <4>1. a.code = "401"
        BY <1>1, <2>1, <3>2 DEF ReadAnswer, Code
      <4> QED
        BY <1>1, <1>2, <2>1, <3>2, <4>1 DEF AnsweredFor, Writes
    <3> QED
      BY <3>1, <3>2
  <2>2. CASE q.kind \in {"probe", "settings"}
    <3>1. ~AuthOff /\ q.kind = "probe" => a.code = "401"
      BY <1>0, <1>1, <2>2 DEF ReadAnswer, Known, Code, SentFor
    <3> QED
      BY <1>1, <1>2, <2>2, <3>1 DEF AnsweredFor, Writes
  <2>3. CASE q.kind = "users" /\ Admin(q) /\ q.for = "page"
    <3>1. a = [code |-> "list", who |-> Who(q), ver |-> ver]
      BY <1>1, <2>3 DEF ReadAnswer
    <3>2. q.asked = user.id /\ user # Nobody /\ (q.asked # "nobody" /\ q.sess # 0 => owner[q.sess] = q.asked)
      BY <1>0, <2>3 DEF SentFor
    <3>3. Who(q) = user.id
      <4>1. CASE q.sess \in live
        BY <3>2, <4>1, SessionFacts DEF Who
      <4>2. CASE q.sess \notin live
        <5>1. AuthOff /\ user.id = "dev"
          BY <2>3, <3>2, <4>2 DEF Admin, Known, SessionInv, SessionOfUser
        <5> QED
          BY <4>2, <5>1 DEF Who
      <4> QED
        BY <4>1, <4>2
    <3> QED
      BY <1>1, <1>2, <2>3, <3>1, <3>3, SessionFacts DEF AnsweredFor, Writes
  <2>4. CASE q.kind = "users" /\ ~(Admin(q) /\ q.for = "page")
    <3>1. q.for = "page" => a.code # "list"
      BY <1>1, <2>4 DEF ReadAnswer, Refuse, Code
    <3> QED
      BY <1>1, <1>2, <2>4, <3>1 DEF AnsweredFor, Writes
  <2> QED
    BY <2>1, <2>2, <2>3, <2>4
<1> QED
  BY <1>1, <1>2, SessionFacts, SessionReplyStep

(* What the backend answers to logins.                                        *)
LEMMA SessionLoginServed ==
  ASSUME SessionAssumption, SessionInv, NEW q \in net, ServeRequest(q), q.kind = "login"
  PROVE  SessionInv'
<1>1. ServeLogin(q) /\ UNCHANGED <<user, gate, cookie, users, page, acked, ver>>
  BY DEF ServeRequest, ServeRead, ServeLogin, ServeLogout, ServeWrite, Writes
<1>2. q.arg \in Accounts /\ ~AuthOff
  BY SessionRequestFacts DEF SentFor
<1>3. CASE accounts[q.arg].enabled
  <2>1. PICK n : n = Len(owner) + 1
    OBVIOUS
  <2>2. PICK a : /\ Reply(q, a) /\ a.code = "user" /\ a.sess = n /\ a.user.id = q.arg
                 /\ owner' = Append(owner, q.arg) /\ live' = live \cup {n}
    BY <1>1, <1>3, <2>1 DEF ServeLogin
  <2>3. /\ owner' \in Seq(Accounts) /\ Len(owner') = n /\ owner'[n] = q.arg /\ n \in 1..n
        /\ \A s \in 1..Len(owner) : owner'[s] = owner[s]
    BY <1>2, <2>1, <2>2, SessionFacts
  <2>4. live' \subseteq 1..Len(owner')
        /\ (\A s \in live' : s \in live \/ s > Len(owner)) /\ Len(owner) <= Len(owner')
    BY <2>1, <2>2, <2>3, SessionFacts
  <2>5. ASSUME NEW t, t.kind = q.kind, t.ans = a PROVE AnsweredFor(t)'
    BY <2>2, <2>3, <2>5 DEF AnsweredFor, Writes
  <2> QED
    BY <1>1, <1>2, <2>2, <2>3, <2>4, <2>5, SessionFacts, SessionReplyStep
<1>4. CASE ~accounts[q.arg].enabled
  <2>1. PICK a : Reply(q, a) /\ a.code = "401" /\ UNCHANGED <<owner, live>>
    BY <1>1, <1>4 DEF ServeLogin, Code
  <2>2. ASSUME NEW t, t.kind = q.kind, t.ans = a PROVE AnsweredFor(t)'
    BY <2>1, <2>2 DEF AnsweredFor, Writes
  <2> QED
    BY <1>1, <2>1, <2>2, SessionFacts, SessionReplyStep
<1> QED
  BY <1>3, <1>4

(* What the backend answers to sign-outs and writes, and lost messages.       *)
LEMMA SessionServeStep ==
  ASSUME SessionAssumption, SessionInv, NEW q \in net, ServeRequest(q) \/ LoseMessage(q)
  PROVE  SessionInv'
<1>1. CASE LoseMessage(q)
  <2>1. PICK a : Reply(q, a) /\ a.code = "error"
                 /\ UNCHANGED <<user, gate, cookie, users, page, acked, owner, live, ver>>
    BY <1>1 DEF LoseMessage, backend, Code
  <2>2. ASSUME NEW t, t.ans = a PROVE AnsweredFor(t)'
    BY <2>1, <2>2 DEF AnsweredFor, Writes
  <2> QED
    BY <2>1, <2>2, SessionFacts, SessionReplyStep
<1>2. CASE q.kind \in {"me", "probe", "settings", "users"} /\ ServeRequest(q)
  BY <1>2, SessionReadStep
<1>3. CASE ServeLogin(q) /\ ServeRequest(q)
  BY <1>3, SessionLoginServed DEF ServeLogin
<1>4. CASE ServeLogout(q) /\ ServeRequest(q)
  <2>1. PICK a : /\ Reply(q, a) /\ UNCHANGED <<user, gate, cookie, users, page, acked, owner, ver>>
                 /\ live' = live \ {q.sess} /\ q.kind = "logout"
    BY <1>4 DEF ServeLogout, ServeRequest
  <2>2. ASSUME NEW t, t.kind = q.kind, t.ans = a PROVE AnsweredFor(t)'
    BY <2>1, <2>2 DEF AnsweredFor, Writes
  <2> QED
    BY <2>1, <2>2, SessionFacts, SessionReplyStep
<1>5. CASE ServeWrite(q) /\ ServeRequest(q)
  <2>1. PICK a : /\ Reply(q, a) /\ q.kind \in Writes
                 /\ a.code = "ok" => a.ver = ver + 1 /\ ver' = ver + 1
    <3>1. CASE ver' = ver + 1 /\ Reply(q, [code |-> "ok", ver |-> ver + 1])
      <4>1. [code |-> "ok", ver |-> ver + 1].ver = ver + 1
        OBVIOUS
      <4> QED
        BY <1>5, <3>1, <4>1 DEF ServeWrite
    <3>2. CASE Reply(q, IF Admin(q) THEN Code("400") ELSE Refuse(q))
      <4>1. (IF Admin(q) THEN Code("400") ELSE Refuse(q)).code # "ok"
        BY DEF Refuse, Code
      <4> QED
        BY <1>5, <3>2, <4>1 DEF ServeWrite
    <3> QED
      BY <1>5, <3>1, <3>2 DEF ServeWrite, Apply
  <2>2. /\ owner' = owner /\ live' \subseteq live /\ ver' \in {ver, ver + 1}
        /\ UNCHANGED <<user, gate, cookie, users, page, acked>>
    BY <1>5 DEF ServeWrite, Apply, backend, ServeRequest
  <2>3. ver' \in Nat /\ ver <= ver' /\ (a.code = "ok" => a.ver = ver')
    BY <2>1, <2>2, SessionFacts
  <2>4. ASSUME NEW t, t.kind = q.kind, t.ans = a PROVE AnsweredFor(t)'
    BY <2>1, <2>3, <2>4 DEF AnsweredFor, Writes
  <2> QED
    BY <2>2, <2>1, <2>3, <2>4, SessionFacts, SessionReplyStep
<1> QED
  BY <1>1, <1>2, <1>3, <1>4, <1>5 DEF ServeRequest, ServeRead

(* Sessions end and rows change while nothing is served.                      *)
LEMMA SessionElsewhereStep ==
  ASSUME SessionAssumption, SessionInv,
         (\E s \in live : Expire(s)) \/ (\E a \in Accounts : OtherAdmin(a))
  PROVE  SessionInv'
<1>1. /\ UNCHANGED <<user, gate, cookie, users, page, acked, net, owner>> /\ live' \subseteq live
      /\ ver' \in {ver, ver + 1}
  BY DEF Expire, OtherAdmin, Apply
<1>2. ver' \in Nat /\ ver <= ver'
  BY <1>1, SessionFacts
<1> QED
  BY <1>1, <1>2, SessionFacts, SessionServedStep

(* A list that is not replaced is still being read when it was.               *)
LEMMA SessionReadKept ==
  ASSUME SessionInv, users' = users, acked' = acked, page'.at = page.at \/ page'.at # "users",
         \A t \in net : t.kind = "users" /\ t.for = "page" => t \in net'
  PROVE  StaleIsRead'
<1>1. Fetching => Fetching'
  BY DEF Fetching
<1> QED
  BY <1>1 DEF SessionInv, StaleIsRead

(* The same account, the same session: requests are sent or go, the page      *)
(* changes in place.                                                          *)
LEMMA SessionSameUserStep ==
  ASSUME SessionAssumption, SessionInv, UNCHANGED <<user, cookie, acked, owner, live, ver>>,
         gate' \in Gates,
         gate' = gate \/ \A t \in net' : ~(t.kind = "me" /\ t.for = "init"),
         users' \in Lists,
         page' \in Views,
         page'.at = page.at, user # Nobody => page'.collapsed = page'.stored,
         CacheOwn', StaleIsRead',
         \A t \in net' : t \in net \/
           /\ IsRequest(t)
           /\ t.sess = cookie /\ t.ans = Waiting
           /\ t.for \in {"login", "poll", "refresh", "logout", "page"}
           /\ SentFor(t) /\ (user # Nobody \/ ~gate.checking)
           /\ (t.for = "login" => \A r \in net' : r.for = "login" => r = t)
  PROVE  SessionInv'
<1>1. \A t \in net' : SentFor(t)' /\ AnsweredFor(t)'
  <2> TAKE t \in net'
  <2>1. SentFor(t)
    BY SessionRequestFacts
  <2>2. AnsweredFor(t)
    <3>1. CASE t \in net
      BY <3>1, SessionRequestFacts
    <3>2. CASE t \notin net
      <4>1. t.ans.code = "waiting"
        BY <3>2 DEF Waiting
      <4> QED
        BY <4>1 DEF AnsweredFor
    <3> QED
      BY <3>1, <3>2
  <2> QED
    BY <2>1, <2>2 DEF SentFor, AnsweredFor
<1>2. \A t \in net' :
        /\ IsRequest(t)
        /\ t.sess \in 0..Len(owner)
        /\ t.for \in {"init", "login", "poll", "refresh", "logout", "page", "gone"}
  BY SessionRequestFacts, SessionFacts
<1>3. SessionTypeOK'
  <2>1. page'.at \in {"overview", "users", "settings"} /\ page'.target \in Accounts \cup {Nothing}
    BY DEF Views
  <2> QED
    BY <1>2, <2>1, SessionFacts DEF SessionInv, SessionTypeOK
<1>4. SessionShapes'
  BY <1>2 DEF SessionInv, SessionShapes
<1>5. SessionOfUser'
  BY DEF SessionInv, SessionOfUser
<1>6. OneAtATime'
  <2>1. \A r \in net : r.kind = "me" /\ r.for = "init" => net = {r} /\ gate.checking /\ user = Nobody
    BY SessionRequestFacts DEF SessionInv, OneAtATime, SentFor
  <2>2. \A r, t \in net : r.for = "login" /\ t.for = "login" => r = t
    BY DEF SessionInv, OneAtATime
  <2>3. \A r \in net' : r.kind = "me" /\ r.for = "init" => net' = {r} /\ gate'.checking
    <3> SUFFICES ASSUME NEW r \in net', r.kind = "me", r.for = "init" PROVE net' = {r} /\ gate'.checking
      OBVIOUS
    <3>1. r \in net /\ gate' = gate
      OBVIOUS
    <3>2. net' \subseteq net
      BY <2>1, <3>1
    <3> QED
      BY <2>1, <3>1, <3>2
  <2>4. \A r, t \in net' : r.for = "login" /\ t.for = "login" => r = t
    BY <2>2
  <2> QED
    BY <2>3, <2>4 DEF OneAtATime
<1> QED
  BY <1>1, <1>3, <1>4, <1>5, <1>6 DEF SessionInv

(* The request of a click or of a timer, before it is answered.               *)
LEMMA SessionSentStep ==
  ASSUME SessionAssumption, SessionInv, UNCHANGED <<user, gate, cookie, users, page, acked, owner,
                                                    live, ver>>,
         NEW kind, NEW for, NEW arg, NEW r, r = Req(kind, for, arg), net' = net \cup {r},
         for \in {"login", "poll", "logout", "page"}, kind # "probe",
         for = "login" => /\ user = Nobody /\ ~AuthOff /\ kind = "login" /\ arg \in Accounts
                          /\ (\A t \in net : t.for # "login") /\ ~gate.checking,
         kind = "login" => for = "login",
         kind = "users" => for = "page" /\ page.at = "users",
         for # "login" => user # Nobody
  PROVE  SessionInv'
<1>1. /\ IsRequest(r)
      /\ r.sess = cookie /\ r.ans = Waiting /\ r.asked = user.id /\ r.kind = kind /\ r.for = for
      /\ r.arg = arg
  BY DEF Req, IsRequest
<1>2. SentFor(r)
  <2>1. user # Nobody /\ cookie # 0 => owner[cookie] = user.id
    BY DEF SessionInv, SessionOfUser
  <2>2. user = Nobody <=> user.id = "nobody"
    BY SessionFacts
  <2> QED
    BY <1>1, <2>1, <2>2 DEF SentFor
<1>3. StaleIsRead' /\ CacheOwn'
  BY SessionReadKept DEF SessionInv, CacheOwn
<1>4. r.for = "login" => \A t \in net' : t.for = "login" => t = r
  BY <1>1
<1>5. user # Nobody => page'.collapsed = page'.stored
  BY DEF SessionInv, SessionOfUser
<1>6. user # Nobody \/ ~gate.checking
  OBVIOUS
<1> QED
  BY <1>1, <1>2, <1>3, <1>4, <1>5, <1>6, SessionFacts, SessionSameUserStep

(* What the user does, and the interval.                                      *)
LEMMA SessionClickStep ==
  ASSUME SessionAssumption, SessionInv,
         \/ \E a \in Accounts : Login(a)
         \/ \E a \in Accounts, kind \in Writes : Write(kind, a)
         \/ PollMe \/ Logout \/ SaveSettings \/ Refetch
  PROVE  SessionInv'
<1>1. CASE \E a \in Accounts : Login(a)
  <2>1. PICK a \in Accounts : Login(a)
    BY <1>1
  <2>2. PICK r : r = Req("login", "login", a)
    OBVIOUS
  <2>3. /\ UNCHANGED <<user, gate, cookie, users, page, acked, owner, live, ver>>
        /\ net' = net \cup {r}
        /\ user = Nobody /\ ~gate.checking /\ (\A t \in net : t.for # "login")
    BY <2>1, <2>2 DEF Login, backend, Screen
  <2>4. ~AuthOff
    <3>1. Len(owner) < MaxLogins
      BY <2>1 DEF Login
    <3> QED
      BY <3>1, SessionFacts DEF SessionAssumption
  <2> QED
    BY <2>2, <2>3, <2>4, SessionSentStep
<1>2. CASE ~(\E a \in Accounts : Login(a))
  <2>1. PICK kind, for, arg : /\ net' = net \cup {Req(kind, for, arg)}
                              /\ for \in {"poll", "logout", "page"}
                              /\ kind \in {"me", "logout", "settings", "users"} \cup Writes
                              /\ kind = "users" => for = "page" /\ page.at = "users"
    BY <1>2 DEF Write, PollMe, Logout, SaveSettings, Refetch, FetchUsers, UsersPage
  <2>2. UNCHANGED <<user, gate, cookie, users, page, acked, owner, live, ver>> /\ user # Nobody
    BY <1>2, SessionFacts DEF Write, PollMe, Logout, SaveSettings, Refetch, UsersPage,
       CanManageUsers, Screen, backend
  <2>3. PICK r : r = Req(kind, for, arg)
    OBVIOUS
  <2> QED
    BY <2>1, <2>2, <2>3, SessionSentStep DEF Writes
<1> QED
  BY <1>1, <1>2

(* What changes on the page alone.                                            *)
LEMMA SessionPageStep ==
  ASSUME SessionAssumption, SessionInv,
         \/ ToggleCollapse \/ OpenCreate \/ CancelDialog \/ FillForm \/ UNCHANGED sessionVars
         \/ \E a \in Accounts : AskDeleteUser(a)
  PROVE  SessionInv'
<1>1. UNCHANGED <<user, gate, cookie, net, users, acked, owner, live, ver>>
  BY DEF ToggleCollapse, OpenCreate, CancelDialog, FillForm, AskDeleteUser, sessionVars, backend
<1>2. PICK b \in BOOLEAN, c \in BOOLEAN, d \in BOOLEAN, a \in Accounts \cup {Nothing} :
        page' \in {page, [page EXCEPT !.collapsed = ~@, !.stored = ~page.collapsed],
                   [page EXCEPT !.create = b], [page EXCEPT !.create = b, !.target = a],
                   [page EXCEPT !.form = b], [page EXCEPT !.target = a]}
  BY DEF ToggleCollapse, OpenCreate, CancelDialog, FillForm, AskDeleteUser, sessionVars
<1>3. user # Nobody => page.collapsed = page.stored
  BY DEF SessionInv, SessionOfUser
<1>4. /\ page' \in Views
      /\ page'.at = page.at /\ (user # Nobody => page'.collapsed = page'.stored)
  BY <1>2, <1>3, SessionFacts DEF Views
<1>5. StaleIsRead' /\ CacheOwn'
  BY <1>1, <1>4, SessionReadKept DEF SessionInv, CacheOwn
<1> QED
  BY <1>1, <1>4, <1>5, SessionFacts, SessionSameUserStep

(* While anything but the start-up check is answered, that check is not under *)
(* way.                                                                       *)
LEMMA SessionNoStartUp ==
  ASSUME SessionInv, NEW q \in net
  PROVE  \A t \in net : t.kind = "me" /\ t.for = "init" => t = q /\ gate.checking /\ user = Nobody
  BY SessionRequestFacts DEF SessionInv, OneAtATime, SentFor

(* updateUser: the requests of the pages stay with the account they are of.   *)
LEMMA SessionUserStep ==
  ASSUME SessionAssumption, SessionInv, NEW q \in net, NEW u, UpdateUser(u, net \ {q}),
         cookie' \in {cookie, 0}, UNCHANGED <<acked, owner, live, ver>>,
         u = Nobody \/ u.id \in Accounts \cup {"dev"},
         u # Nobody => /\ u.id = "dev" <=> AuthOff
                       /\ cookie' = cookie
                       /\ cookie' # 0 => owner[cookie'] = u.id
                       /\ \A t \in net \ {q} : t.for # "login",
         u.id = user.id => ~(q.kind = "users" /\ q.for = "page")
  PROVE  SessionInv'
<1>1. /\ user' = u /\ gate' \in Gates
      /\ cookie' \in 0..Len(owner)
      /\ u.id = "nobody" <=> u = Nobody
  <2>1. gate' \in Gates
    BY SessionFacts DEF UpdateUser, Throws, Gates
  <2> QED
    BY <2>1, SessionFacts DEF UpdateUser, SessionAssumption, Nobody
<1>2. /\ \A t \in net \ {q} : ~(t.kind = "me" /\ t.for = "init")
      /\ \A r, t \in net : r.for = "login" /\ t.for = "login" => r = t
  BY SessionNoStartUp DEF SessionInv, OneAtATime
<1>3. /\ \A t \in net' : /\ ~(t.kind = "me" /\ t.for = "init")
                         /\ IsRequest(t)
                         /\ t.sess \in 0..Len(owner)
                         /\ t.for \in {"init", "login", "poll", "refresh", "logout", "page", "gone"}
                         /\ SentFor(t)' /\ AnsweredFor(t)'
      /\ \A r, t \in net' : r.for = "login" /\ t.for = "login" => r = t
      /\ users' \in Lists
      /\ page' \in Views
      /\ u # Nobody => page'.collapsed = page'.stored
      /\ CacheOwn' /\ StaleIsRead'
  <2>1. CASE u.id = user.id
    <3>1. net' = net \ {q} /\ users' = users /\ page' = page /\ (user = Nobody <=> u = Nobody)
      BY <1>1, <2>1, SessionFacts DEF UpdateUser
    <3>2. \A t \in net' : SentFor(t)' /\ AnsweredFor(t)'
      <4> TAKE t \in net'
      <4>1. SentFor(t) /\ AnsweredFor(t) /\ ~(t.kind = "me" /\ t.for = "init")
        BY <1>2, <3>1, SessionRequestFacts
      <4>2. AnsweredFor(t)'
        BY <1>1, <2>1, <3>1, <4>1 DEF AnsweredFor
      <4>3. SentFor(t)'
        BY <1>1, <2>1, <3>1, <4>1 DEF SentFor
      <4> QED
        BY <4>2, <4>3
    <3>3. CacheOwn' /\ StaleIsRead'
      BY <1>1, <2>1, <3>1, SessionReadKept DEF SessionInv, CacheOwn
    <3>4. u # Nobody => page'.collapsed = page'.stored
      BY <3>1 DEF SessionInv, SessionOfUser
    <3> QED
      BY <1>2, <3>1, <3>2, <3>3, <3>4, SessionRequestFacts, SessionFacts
  <2>2. CASE u.id # user.id
    <3> DEFINE m == [FetchUsers EXCEPT !.asked = u.id]
    <3>0. PICK r : r = m
      OBVIOUS
    <3>1. /\ net' = {Orphan(t) : t \in net \ {q}} \cup MountFor(u) /\ users' = NoUsers
          /\ page' = [Blank(page.stored) EXCEPT !.collapsed = page.stored, !.at = page.at]
      BY <2>2 DEF UpdateUser
    <3>a. MountFor(u) \subseteq {r} /\ (u = Nobody => MountFor(u) = {})
      BY <3>0 DEF MountFor
    <3>b. /\ r.kind = "users" /\ r.for = "page" /\ r.sess = cookie /\ r.asked = u.id
          /\ r.ans.code = "waiting"
          /\ IsRequest(r)
      BY <3>0 DEF FetchUsers, Req, Waiting, IsRequest
    <3> HIDE DEF m
    <3>2. \A s \in net' :
            \/ s = r /\ u # Nobody
            \/ \E t \in net \ {q} :
                 /\ s = Orphan(t) /\ s.kind = t.kind /\ s.arg = t.arg /\ s.sess = t.sess
                 /\ s.asked = t.asked /\ s.ans = t.ans
                 /\ s.for = IF t.kind = "users" \/ t.for = "page" THEN "gone" ELSE t.for
                 /\ IsRequest(s)
      BY <3>1, <3>a, SessionRequestFacts, SessionOrphanFacts
    <3>c. /\ r.sess \in 0..Len(owner)
          /\ u # Nobody => SentFor(r)' /\ AnsweredFor(r)'
      <4>1. r.sess \in 0..Len(owner)
        BY <3>b, SessionFacts
      <4>2. AnsweredFor(r)'
        BY <3>b DEF AnsweredFor, Writes
      <4>3. u # Nobody => SentFor(r)'
        BY <1>1, <3>b DEF SentFor
      <4> QED
        BY <4>1, <4>2, <4>3
    <3>3. \A s \in net' : /\ ~(s.kind = "me" /\ s.for = "init")
                          /\ s.sess \in 0..Len(owner)
                          /\ s.for \in {"init", "login", "poll", "refresh", "logout", "page", "gone"}
                          /\ SentFor(s)' /\ AnsweredFor(s)'
      <4> TAKE s \in net'
      <4>0. CASE s = r /\ u # Nobody
        BY <3>b, <3>c, <4>0
      <4>1. CASE ~(s = r /\ u # Nobody)
        <5>1. PICK t \in net \ {q} :
                /\ s.kind = t.kind /\ s.arg = t.arg /\ s.sess = t.sess /\ s.asked = t.asked
                /\ s.ans = t.ans
                /\ s.for = IF t.kind = "users" \/ t.for = "page" THEN "gone" ELSE t.for
          BY <3>2, <4>1
        <5>2. /\ SentFor(t) /\ AnsweredFor(t) /\ ~(t.kind = "me" /\ t.for = "init")
              /\ t.sess \in 0..Len(owner)
              /\ t.for \in {"init", "login", "poll", "refresh", "logout", "page", "gone"}
          BY <1>2, SessionRequestFacts
        <5>3. s.for # "page" /\ (s.for \in {t.for, "gone"})
          BY <5>1
        <5>4. AnsweredFor(s)'
          BY <5>1, <5>2, <5>3 DEF AnsweredFor
        <5>5. SentFor(s)'
          BY <1>1, <5>1, <5>2, <5>3 DEF SentFor
        <5> QED
          BY <5>1, <5>2, <5>3, <5>4, <5>5
      <4> QED
        BY <4>0, <4>1
    <3>4. \A x, s \in net' : x.for = "login" /\ s.for = "login" => x = s
      <4> SUFFICES ASSUME NEW x \in net', NEW s \in net', x.for = "login", s.for = "login" PROVE x = s
        OBVIOUS
      <4>1. PICK y \in net, z \in net : x = Orphan(y) /\ s = Orphan(z) /\ y.for = "login" /\ z.for = "login"
        BY <3>2, <3>b
      <4> QED
        BY <1>2, <4>1
    <3>5. page' = [at |-> page.at, create |-> FALSE, form |-> FALSE, target |-> Nothing,
                   collapsed |-> page.stored, stored |-> page.stored]
      BY <3>1 DEF Blank
    <3>6. /\ page' \in Views
          /\ page'.collapsed = page'.stored
      BY <3>5, SessionFacts DEF Views
    <3>7. CacheOwn' /\ StaleIsRead'
      BY <3>1 DEF CacheOwn, StaleIsRead
    <3>8. \A s \in net' : IsRequest(s)
      BY <3>2, <3>b
    <3> QED
      BY <3>1, <3>3, <3>4, <3>6, <3>7, <3>8 DEF Lists
  <2> QED
    BY <2>1, <2>2
<1>4. SessionTypeOK'
  <2>1. page'.at \in {"overview", "users", "settings"} /\ page'.target \in Accounts \cup {Nothing}
    BY <1>3 DEF Views
  <2>2. user'.id \in Accounts \cup {"nobody", "dev"}
    BY <1>1
  <2> QED
    BY <1>1, <1>3, <2>1, <2>2, SessionFacts DEF SessionInv, SessionTypeOK
<1>5. SessionShapes'
  BY <1>1, <1>3 DEF SessionShapes
<1>6. SessionOfUser'
  BY <1>1, <1>3 DEF SessionInv, SessionOfUser
<1>7. OneAtATime'
  BY <1>3 DEF OneAtATime
<1> QED
  BY <1>3, <1>4, <1>5, <1>6, <1>7 DEF SessionInv

(* Signing out, or being found signed out.                                    *)
LEMMA SessionNobodyStep ==
  ASSUME SessionAssumption, SessionInv, NEW q \in net, UpdateUser(Nobody, net \ {q}),
         cookie' \in {cookie, 0}, UNCHANGED <<acked, owner, live, ver>>
  PROVE  SessionInv'
<1>1. PICK u : u = Nobody
  OBVIOUS
<1>2. u.id = user.id => ~(q.kind = "users" /\ q.for = "page")
  BY <1>1, SessionFacts, SessionRequestFacts DEF SentFor, Nobody
<1> QED
  BY <1>1, <1>2, SessionUserStep

(* An answer that changes nothing in the provider.                            *)
LEMMA SessionDropStep ==
  ASSUME SessionAssumption, SessionInv, NEW q \in net, net' = net \ {q},
         UNCHANGED <<user, cookie, users, acked, owner, live, ver>>,
         gate' \in Gates,
         gate' = gate \/ \A t \in net' : ~(t.kind = "me" /\ t.for = "init"),
         page' \in Views,
         page'.at = page.at, user # Nobody => page'.collapsed = page'.stored,
         q.kind # "users"
  PROVE  SessionInv'
<1>1. StaleIsRead' /\ CacheOwn'
  BY SessionReadKept DEF SessionInv, CacheOwn
<1> QED
  BY <1>1, SessionFacts, SessionSameUserStep

(* The provider without a change in what is shown, and without the backend.   *)
LEMMA SessionQuietStep ==
  ASSUME SessionAssumption, SessionInv, NEW q \in net, q.kind # "users",
         Ignore(net \ {q}) \/ Unavailable(net \ {q}), UNCHANGED <<cookie, acked, owner, live, ver>>
  PROVE  SessionInv'
<1>1. /\ net' = net \ {q} /\ UNCHANGED <<user, users, page>>
      /\ gate' = gate \/ gate' = [gate EXCEPT !.backendError = TRUE, !.checking = FALSE]
  BY DEF Ignore, Unavailable
<1>2. gate' \in Gates
  BY <1>1, SessionFacts DEF Gates
<1>3. \A t \in net' : ~(t.kind = "me" /\ t.for = "init")
  BY <1>1, SessionNoStartUp
<1>4. user # Nobody => page'.collapsed = page'.stored
  BY <1>1 DEF SessionInv, SessionOfUser
<1> QED
  BY <1>1, <1>2, <1>3, <1>4, SessionFacts, SessionDropStep

(* The start-up check and the probe that may follow it.                       *)
LEMMA SessionStartUpStep ==
  ASSUME SessionAssumption, SessionInv, NEW q \in net, InitAnswer(q) \/ ProbeAnswer(q)
  PROVE  SessionInv'
<1>0. SentFor(q) /\ AnsweredFor(q) /\ UNCHANGED <<cookie, acked, owner, live, ver>>
  BY SessionRequestFacts DEF InitAnswer, ProbeAnswer, backend
<1>1. CASE InitAnswer(q) /\ q.ans.code = "user"
  <2>1. PICK u : u = q.ans.user /\ UpdateUser(u, net \ {q})
    BY <1>1 DEF InitAnswer
  <2>2. u.id = owner[cookie] /\ cookie \in 1..Len(owner) /\ q.kind = "me" /\ q.for = "init"
    BY <1>0, <1>1, <2>1, SessionFacts DEF InitAnswer, SentFor, AnsweredFor
  <2>3. owner # <<>>
    BY <2>2, SessionFacts
  <2>4. ~AuthOff
    BY <2>3 DEF SessionInv, SessionOfUser
  <2>5. net \ {q} = {}
    BY <2>2 DEF SessionInv, OneAtATime
  <2>6. u.id \in Accounts /\ u.id # "dev"
    BY <2>2, SessionFacts
  <2> QED
    BY <1>0, <2>1, <2>2, <2>4, <2>5, <2>6, SessionUserStep
<1>2. CASE InitAnswer(q) /\ q.ans.code = "401"
  <2>1. /\ q.kind = "me" /\ q.for = "init" /\ user = Nobody /\ net = {q} /\ q.sess = cookie
        /\ cookie \notin live
    BY <1>0, <1>2 DEF InitAnswer, SessionInv, OneAtATime, SentFor, AnsweredFor
  <2>2. PICK r : r = Req("probe", "init", Nothing) /\ net' = (net \ {q}) \cup {r}
    BY <1>2 DEF InitAnswer
  <2>3. /\ gate' = [gate EXCEPT !.checking = FALSE] /\ UNCHANGED <<user, users, page>>
    BY <1>2 DEF InitAnswer
  <2>4. /\ r.kind = "probe" /\ r.for = "init" /\ r.sess = cookie /\ r.asked = user.id
        /\ r.ans.code = "waiting"
        /\ IsRequest(r)
    BY <2>2 DEF Req, Waiting, IsRequest
  <2>5. net' = {r} /\ user.id = "nobody"
    BY <2>1, <2>2, SessionFacts
  <2>6. SentFor(r)' /\ AnsweredFor(r)'
    BY <1>0, <2>1, <2>3, <2>4, <2>5 DEF SentFor, AnsweredFor, Writes
  <2>7. SessionTypeOK' /\ SessionShapes' /\ OneAtATime'
    <3>1. gate' \in Gates
      BY <2>3, SessionFacts DEF Gates
    <3>2. SessionShapes'
      BY <2>3, <2>4, <2>5, <3>1 DEF SessionInv, SessionShapes
    <3>3. SessionTypeOK'
      BY <1>0, <2>3, <2>4, <2>5, SessionFacts DEF SessionInv, SessionTypeOK
    <3>4. OneAtATime'
      BY <2>4, <2>5 DEF OneAtATime
    <3> QED
      BY <3>2, <3>3, <3>4
  <2>8. SessionOfUser' /\ CacheOwn'
    BY <1>0, <2>1, <2>3 DEF SessionInv, SessionOfUser, CacheOwn
  <2>9. StaleIsRead'
    <3>1. users = NoUsers
      <4>1. users # NoUsers => users.who \in Accounts \cup {"dev"} /\ users.who = user.id
        BY SessionFacts DEF SessionInv, CacheOwn, Lists
      <4> QED
        BY <2>5, <4>1 DEF SessionAssumption
    <3> QED
      BY <2>3, <3>1 DEF StaleIsRead
  <2> QED
    BY <2>5, <2>6, <2>7, <2>8, <2>9 DEF SessionInv
<1>3. CASE InitAnswer(q) /\ q.ans.code \notin {"user", "401"}
  <2>1. Unavailable(net \ {q}) /\ q.kind = "me"
    BY <1>3 DEF InitAnswer
  <2> QED
    BY <1>0, <2>1, SessionQuietStep
<1>4. CASE ProbeAnswer(q) /\ q.ans.code = "ok"
  <2>1. PICK u : u = Dev /\ UpdateUser(u, net \ {q}) /\ q.kind = "probe"
    BY <1>4 DEF ProbeAnswer
  <2>2. AuthOff /\ owner = <<>>
    BY <1>0, <1>4, <2>1 DEF AnsweredFor, SessionInv, SessionOfUser
  <2>3. cookie = 0 /\ u.id = "dev"
    BY <2>1, <2>2, SessionFacts DEF Dev
  <2>4. \A t \in net \ {q} : t.for # "login"
    BY <2>2, SessionRequestFacts DEF SentFor
  <2> QED
    BY <1>0, <2>1, <2>2, <2>3, <2>4, SessionUserStep
<1>5. CASE ProbeAnswer(q) /\ q.ans.code # "ok"
  <2>1. (Ignore(net \ {q}) \/ Unavailable(net \ {q})) /\ q.kind = "probe"
    BY <1>5 DEF ProbeAnswer
  <2> QED
    BY <1>0, <2>1, SessionQuietStep
<1> QED
  BY <1>1, <1>2, <1>3, <1>4, <1>5

(* The login, and /me after it.                                               *)
LEMMA SessionSignInStep ==
  ASSUME SessionAssumption, SessionInv, NEW q \in net, LoginAnswer(q) \/ LoginMe(q)
  PROVE  SessionInv'
<1>0. SentFor(q) /\ AnsweredFor(q) /\ UNCHANGED <<acked, owner, live, ver>>
  BY SessionRequestFacts DEF LoginAnswer, LoginMe, backend
<1>1. CASE LoginAnswer(q) /\ q.ans.code = "user"
  <2>1. /\ q.kind = "login" /\ q.for = "login" /\ user = Nobody /\ ~AuthOff
        /\ q.ans.sess \in 1..Len(owner) /\ q.ans.user.id = owner[q.ans.sess]
    BY <1>0, <1>1 DEF LoginAnswer, SentFor, AnsweredFor
  <2>2. PICK r : r = [Req("me", "login", q.ans.user) EXCEPT !.sess = q.ans.sess] /\ net' = (net \ {q}) \cup {r}
    BY <1>1 DEF LoginAnswer
  <2>3. cookie' = q.ans.sess /\ UNCHANGED <<user, gate, users, page>>
    BY <1>1 DEF LoginAnswer
  <2>4. /\ r.kind = "me" /\ r.for = "login" /\ r.arg = q.ans.user /\ r.sess = cookie'
        /\ r.asked = user.id
        /\ r.ans.code = "waiting"
        /\ IsRequest(r)
    BY <2>2, <2>3 DEF Req, Waiting, IsRequest
  <2>5. \A t \in net \ {q} : t.for # "login" /\ ~(t.kind = "me" /\ t.for = "init")
    BY <2>1, SessionNoStartUp DEF SessionInv, OneAtATime
  <2>6. \A t \in net \ {q} : SentFor(t)' /\ AnsweredFor(t)'
    <3> TAKE t \in net \ {q}
    <3>1. SentFor(t) /\ AnsweredFor(t) /\ t.for # "login" /\ ~(t.kind = "me" /\ t.for = "init")
      BY <2>5, SessionRequestFacts
    <3> QED
      BY <1>0, <2>3, <3>1 DEF SentFor, AnsweredFor
  <2>7. SentFor(r)' /\ AnsweredFor(r)'
    <3>1. user.id = "nobody" /\ cookie' \in 1..Len(owner)
      BY <2>1, <2>3, SessionFacts
    <3> QED
      BY <1>0, <2>1, <2>3, <2>4, <3>1, SessionFacts DEF SentFor, AnsweredFor, Writes
  <2>8. SessionTypeOK' /\ SessionShapes' /\ OneAtATime'
    <3>1. SessionShapes'
      BY <2>2, <2>3, <2>4, SessionRequestFacts DEF SessionInv, SessionShapes
    <3>2. SessionTypeOK'
      <4>1. cookie' \in 0..Len(owner)
        BY <2>1, <2>3, SessionFacts
      <4> QED
        BY <1>0, <2>2, <2>3, <2>4, <4>1, SessionRequestFacts DEF SessionInv, SessionTypeOK
    <3>3. OneAtATime'
      BY <2>2, <2>4, <2>5 DEF OneAtATime
    <3> QED
      BY <3>1, <3>2, <3>3
  <2>9. SessionOfUser' /\ CacheOwn'
    BY <1>0, <2>1, <2>3 DEF SessionInv, SessionOfUser, CacheOwn
  <2>10. StaleIsRead'
    BY <1>0, <2>1, <2>2, <2>3, SessionReadKept
  <2> QED
    BY <2>2, <2>6, <2>7, <2>8, <2>9, <2>10 DEF SessionInv
<1>2. CASE LoginAnswer(q) /\ q.ans.code # "user"
  <2>1. Ignore(net \ {q}) /\ q.kind = "login" /\ cookie' = cookie
    BY <1>2 DEF LoginAnswer, Ignore
  <2> QED
    BY <1>0, <2>1, SessionQuietStep
<1>3. CASE LoginMe(q)
  <2>1. PICK u : u = (IF q.ans.code = "user" THEN q.ans.user ELSE q.arg) /\ UpdateUser(u, net \ {q})
    BY <1>3 DEF LoginMe
  <2>2. /\ q.kind = "me" /\ q.for = "login" /\ q.sess # 0 /\ cookie \in {0, q.sess} /\ ~AuthOff
        /\ u.id = owner[q.sess] /\ cookie' = cookie
    BY <1>0, <1>3, <2>1 DEF LoginMe, SentFor, AnsweredFor
  <2>3. u.id \in Accounts /\ u.id # "dev"
    BY <2>2, SessionFacts, SessionRequestFacts
  <2>4. \A t \in net \ {q} : t.for # "login"
    BY <2>2 DEF SessionInv, OneAtATime
  <2> QED
    BY <1>0, <2>1, <2>2, <2>3, <2>4, SessionUserStep
<1> QED
  BY <1>1, <1>2, <1>3

(* The periodic refresh, sign-out, and the answer to a saved setting.         *)
LEMMA SessionRefreshStep ==
  ASSUME SessionAssumption, SessionInv, NEW q \in net,
         RefreshAnswer(q) \/ LogoutAnswer(q) \/ SettingsAnswer(q)
  PROVE  SessionInv'
<1>0. SentFor(q) /\ AnsweredFor(q) /\ UNCHANGED <<acked, owner, live, ver>>
  BY SessionRequestFacts DEF RefreshAnswer, LogoutAnswer, SettingsAnswer, backend
<1>1. CASE RefreshAnswer(q) /\ user.id = q.asked /\ q.ans.code = "user"
  <2>1. PICK u : u = q.ans.user /\ UpdateUser(u, net \ {q})
    BY <1>1 DEF RefreshAnswer
  <2>2. /\ q.kind = "me" /\ user # Nobody /\ cookie' = cookie /\ q.sess # 0
        /\ u.id = owner[q.sess] /\ owner[q.sess] = q.asked
    <3>1. q.asked # "nobody"
      BY <1>0, <1>1 DEF RefreshAnswer, SentFor
    <3> QED
      BY <1>0, <1>1, <2>1, <3>1, SessionFacts DEF RefreshAnswer, SentFor, AnsweredFor
  <2>3. u.id \in Accounts /\ u.id # "dev" /\ u.id = user.id
    BY <1>1, <2>2, SessionFacts, SessionRequestFacts
  <2>4. ~AuthOff /\ (cookie # 0 => owner[cookie] = u.id)
    BY <2>2, <2>3 DEF SessionInv, SessionOfUser
  <2>5. \A t \in net \ {q} : t.for # "login"
    BY <2>2, SessionRequestFacts DEF SentFor
  <2> QED
    BY <1>0, <2>1, <2>2, <2>3, <2>4, <2>5, SessionUserStep
<1>2. CASE RefreshAnswer(q) /\ user.id = q.asked /\ q.ans.code = "401"
  BY <1>0, <1>2, SessionNobodyStep DEF RefreshAnswer
<1>3. CASE RefreshAnswer(q) /\ ~(user.id = q.asked /\ q.ans.code \in {"user", "401"})
  <2>1. Ignore(net \ {q}) /\ q.kind = "me" /\ cookie' = cookie
    BY <1>3 DEF RefreshAnswer
  <2> QED
    BY <1>0, <2>1, SessionQuietStep
<1>4. CASE LogoutAnswer(q)
  BY <1>0, <1>4, SessionNobodyStep DEF LogoutAnswer
<1>5. CASE SettingsAnswer(q) /\ q.ans.code = "401"
  BY <1>0, <1>5, SessionNobodyStep DEF SettingsAnswer, Expired
<1>6. CASE SettingsAnswer(q) /\ q.ans.code = "ok" /\ q.for = "page"
  <2>1. PICK r : /\ r = Req("me", "refresh", Nothing) /\ net' = (net \ {q}) \cup {r}
                 /\ UNCHANGED <<user, gate, users, page, cookie>> /\ q.kind = "settings"
    BY <1>6 DEF SettingsAnswer, Ignore
  <2>2. /\ IsRequest(r)
        /\ r.sess = cookie /\ r.ans = Waiting /\ r.asked = user.id /\ r.kind = "me"
        /\ r.for = "refresh"
    BY <2>1 DEF Req, IsRequest
  <2>3. user # Nobody /\ user.id # "nobody" /\ (cookie # 0 => owner[cookie] = user.id)
        /\ page.collapsed = page.stored
    BY <1>0, <1>6, SessionFacts DEF SentFor, SessionInv, SessionOfUser
  <2>4. SentFor(r)
    BY <2>2, <2>3 DEF SentFor
  <2>5. StaleIsRead' /\ CacheOwn'
    BY <1>0, <2>1, SessionReadKept DEF SessionInv, CacheOwn
  <2> QED
    BY <1>0, <2>1, <2>2, <2>3, <2>4, <2>5, SessionFacts, SessionSameUserStep
<1>7. CASE SettingsAnswer(q) /\ q.ans.code # "401" /\ ~(q.ans.code = "ok" /\ q.for = "page")
  <2>1. Ignore(net \ {q}) /\ q.kind = "settings" /\ cookie' = cookie
    BY <1>7 DEF SettingsAnswer
  <2> QED
    BY <1>0, <2>1, SessionQuietStep
<1> QED
  BY <1>1, <1>2, <1>3, <1>4, <1>5, <1>6, <1>7

(* The list of users arrives, or does not.                                    *)
LEMMA SessionListStep ==
  ASSUME SessionAssumption, SessionInv, NEW q \in net, UsersAnswer(q)
  PROVE  SessionInv'
<1>0. SentFor(q) /\ AnsweredFor(q) /\ q.kind = "users" /\ UNCHANGED <<cookie, acked, owner, live, ver>>
  BY SessionRequestFacts DEF UsersAnswer, backend
<1>1. CASE q.ans.code = "401"
  BY <1>0, <1>1, SessionNobodyStep DEF UsersAnswer, Expired
<1>2. CASE q.ans.code # "401"
  <2>1. net' = net \ {q} /\ UNCHANGED <<user, gate, page>> /\ q.for \in {"page", "gone"}
    BY <1>0, <1>2 DEF UsersAnswer, Ignore, SentFor
  <2>2. CASE q.for = "gone"
    <3>1. users' = users
      BY <1>2, <2>2 DEF UsersAnswer, Ignore
    <3>2. StaleIsRead' /\ CacheOwn'
      BY <1>0, <2>1, <2>2, <3>1, SessionReadKept DEF SessionInv, CacheOwn
    <3>3. user # Nobody => page.collapsed = page.stored
      BY DEF SessionInv, SessionOfUser
    <3> QED
      BY <1>0, <2>1, <3>1, <3>2, <3>3, SessionFacts, SessionSameUserStep
  <2>3. CASE q.for = "page"
    <3>1. user # Nobody /\ user.id \in Accounts \cup {"dev"} /\ page.collapsed = page.stored
      BY <1>0, <2>3, SessionFacts DEF SentFor, SessionInv, SessionOfUser
    <3>2. CASE q.ans.code = "list"
      <4>1. users' = [who |-> q.ans.who, ver |-> q.ans.ver, err |-> FALSE, stale |-> FALSE,
                       outrun |-> q.arg = "outrun"]
        BY <1>2, <2>3, <3>2 DEF UsersAnswer
      <4>2. q.ans.who = user.id /\ q.ans.ver \in Nat /\ (q.arg = "outrun" \/ acked <= q.ans.ver)
        BY <1>0, <2>3, <3>2 DEF AnsweredFor
      <4>3. users' \in [who : Accounts \cup {"dev"}, ver : Nat, err : BOOLEAN, stale : BOOLEAN, outrun : BOOLEAN]
        BY <3>1, <4>1, <4>2
      <4>4. CacheOwn'
        BY <2>1, <4>1, <4>2 DEF CacheOwn
      <4>5. StaleIsRead'
        <5>1. users'.ver = q.ans.ver /\ users'.outrun = (q.arg = "outrun") /\ ~users'.stale
          BY <4>1
        <5>2. users'.ver < acked' => users'.outrun
          <6>1. q.arg = "outrun" => users'.outrun
            BY <5>1
          <6>2. users'.ver < acked' => q.arg = "outrun"
            BY <1>0, <4>2, <5>1, SessionFacts
          <6> QED
            BY <6>1, <6>2
        <5> QED
          BY <5>1, <5>2 DEF StaleIsRead
      <4> QED
        BY <1>0, <2>1, <3>1, <4>3, <4>4, <4>5, SessionFacts, SessionSameUserStep DEF Lists
    <3>3. CASE q.ans.code # "list"
      <4>1. users' = IF users = NoUsers THEN NoUsers ELSE [users EXCEPT !.err = TRUE, !.stale = TRUE]
        BY <1>2, <2>3, <3>3 DEF UsersAnswer
      <4>2. /\ users' \in Lists
            /\ users' # NoUsers => users # NoUsers /\ users'.who = users.who /\ users'.err /\ users'.stale
        BY <4>1, SessionFacts DEF Lists
      <4>3. CacheOwn' /\ StaleIsRead'
        BY <2>1, <4>2 DEF SessionInv, CacheOwn, StaleIsRead
      <4> QED
        BY <1>0, <2>1, <3>1, <4>2, <4>3, SessionFacts, SessionSameUserStep
    <3> QED
      BY <3>2, <3>3
  <2> QED
    BY <2>1, <2>2, <2>3
<1> QED
  BY <1>1, <1>2

(* A list that is asked for again, by the page and for the account on screen. *)
LEMMA SessionFetchFacts ==
  ASSUME SessionAssumption, SessionInv, NEW r, r = FetchUsers
  PROVE  /\ IsRequest(r)
         /\ r.kind = "users" /\ r.for = "page" /\ r.sess = cookie /\ r.asked = user.id
         /\ r.ans = Waiting
         /\ r.ans.code = "waiting" /\ r.sess \in 0..Len(owner)
         /\ r.asked # "nobody" /\ r.sess # 0 => owner[r.sess] = r.asked
  BY SessionFacts DEF FetchUsers, Req, Waiting, SessionInv, SessionOfUser, IsRequest

(* A write succeeded: reads that may be older are orphaned and the list on    *)
(* screen is read again.                                                      *)
LEMMA SessionWrittenStep ==
  ASSUME SessionAssumption, SessionInv, NEW q \in net, WriteAnswer(q), q.ans.code = "ok"
  PROVE  SessionInv'
<1>0. SentFor(q) /\ AnsweredFor(q) /\ q.kind \in Writes /\ UNCHANGED <<cookie, owner, live, ver, user, gate>>
  BY SessionRequestFacts DEF WriteAnswer, backend
<1>1. /\ net' = Invalidate(net \ {q})
      /\ users' = IF users = NoUsers THEN NoUsers ELSE [users EXCEPT !.stale = TRUE]
      /\ acked' = IF q.ans.ver < acked THEN acked ELSE q.ans.ver
      /\ page' \in {page, [page EXCEPT !.create = FALSE, !.form = FALSE], [page EXCEPT !.target = Nothing]}
  BY DEF WriteAnswer
<1>2. /\ acked' \in Nat /\ acked <= acked' /\ acked' <= ver
      /\ users' \in Lists
      /\ users = NoUsers => users' = NoUsers
      /\ users # NoUsers => users' # NoUsers /\ users'.who = users.who /\ users'.stale
      /\ page' \in Views
      /\ page'.at = page.at /\ page'.collapsed = page.collapsed /\ page'.stored = page.stored
  <2>1. q.ans.ver \in Nat /\ q.ans.ver <= ver
    BY <1>0 DEF AnsweredFor, WriteAnswer
  <2>2. acked' \in Nat /\ acked <= acked' /\ acked' <= ver
    BY <1>1, <2>1, SessionFacts
  <2>3. /\ users' \in Lists
        /\ users = NoUsers => users' = NoUsers
        /\ users # NoUsers => users'.who = users.who /\ users'.stale
    BY <1>1, SessionFacts DEF Lists
  <2>4. users # NoUsers => users' # NoUsers
    BY <2>3, SessionFacts DEF NoUsers, SessionAssumption, Lists
  <2>5. /\ page' \in Views
        /\ page'.at = page.at /\ page'.collapsed = page.collapsed /\ page'.stored = page.stored
    BY <1>1, SessionFacts DEF Views
  <2> QED
    BY <2>2, <2>3, <2>4, <2>5
<1>3. user = Nobody => users = NoUsers
  BY SessionFacts DEF SessionInv, CacheOwn, SessionAssumption, Lists
<1>4. PICK r : r = FetchUsers
  OBVIOUS
<1>5. \A t \in net' :
        \/ t = r /\ page.at = "users" /\ user # Nobody
        \/ \E x \in net \ {q} :
             /\ t.kind = x.kind /\ t.sess = x.sess /\ t.asked = x.asked
             /\ t.ans = x.ans
             /\ IsRequest(t)
             /\ \/ t = x /\ ~(x.kind = "users" /\ x.for = "page")
                \/ x.kind = "users" /\ x.for = "page" /\ t.for = "gone"
                \/ x.kind = "users" /\ x.for = "page" /\ t.for = "page" /\ t.arg = "outrun"
  <2> DEFINE mine == {t \in net \ {q} : t.kind = "users" /\ t.for = "page"}
             gone == {[t EXCEPT !.for = "gone"] : t \in mine}
             late == {[t EXCEPT !.arg = "outrun"] : t \in mine}
             From(t, x) == /\ t.kind = x.kind /\ t.sess = x.sess /\ t.asked = x.asked
                           /\ t.ans = x.ans
                           /\ IsRequest(t)
  <2>1. \A t \in gone : \E x \in net \ {q} :
          From(t, x) /\ x.kind = "users" /\ x.for = "page" /\ t.for = "gone"
    BY SessionRequestFacts DEF IsRequest
  <2>2. \A t \in late : \E x \in net \ {q} :
          From(t, x) /\ x.kind = "users" /\ x.for = "page" /\ t.for = "page" /\ t.arg = "outrun"
    BY SessionRequestFacts DEF IsRequest
  <2>3. \A t \in (net \ {q}) \ mine : t \in net \ {q} /\ ~(t.kind = "users" /\ t.for = "page") /\ From(t, t)
    BY SessionRequestFacts
  <2>4. \/ net' = ((net \ {q}) \ mine) \cup late
        \/ mine = {} /\ page.at = "users" /\ user # Nobody /\ net' = (net \ {q}) \cup {r}
        \/ page.at = "users" /\ user # Nobody /\ net' = ((net \ {q}) \ mine) \cup gone \cup {r}
    BY <1>1, <1>4 DEF Invalidate
  <2> HIDE DEF gone, late, mine
  <2>5. \A t \in net' : \/ t = r /\ page.at = "users" /\ user # Nobody
                        \/ t \in (net \ {q}) \ mine \/ t \in late \/ t \in gone
    BY <2>4
  <2> QED
    BY <2>1, <2>2, <2>3, <2>5
<1>7. page.at = "users" /\ user # Nobody /\ users # NoUsers => r \in net'
  BY <1>1, <1>4 DEF Invalidate
<1>9. \A t \in net' : SentFor(t)' /\ AnsweredFor(t)'
  <2> TAKE t \in net'
  <2>1. CASE t = r /\ page.at = "users" /\ user # Nobody
    BY <1>0, <1>2, <1>4, <2>1, SessionFetchFacts DEF SentFor, AnsweredFor, Writes
  <2>2. CASE ~(t = r /\ page.at = "users" /\ user # Nobody)
    <3>1. PICK x \in net :
            /\ t.kind = x.kind /\ t.sess = x.sess /\ t.asked = x.asked
            /\ t.ans = x.ans
            /\ \/ t = x /\ ~(x.kind = "users" /\ x.for = "page")
               \/ x.kind = "users" /\ x.for = "page" /\ t.for = "gone"
               \/ x.kind = "users" /\ x.for = "page" /\ t.for = "page" /\ t.arg = "outrun"
      BY <1>5, <2>2
    <3>2. SentFor(x) /\ AnsweredFor(x)
      BY SessionRequestFacts
    <3>3. SentFor(t)' /\ AnsweredFor(t)'
      <4>1. CASE t = x /\ ~(x.kind = "users" /\ x.for = "page")
        <5>1. SentFor(t)'
          BY <1>0, <3>2, <4>1 DEF SentFor
        <5>2. AnsweredFor(t)'
          BY <1>0, <3>2, <4>1 DEF AnsweredFor
        <5> QED
          BY <5>1, <5>2
      <4>2. CASE x.kind = "users" /\ x.for = "page" /\ t.for = "gone"
        <5>1. SentFor(t)'
          BY <1>0, <3>1, <3>2, <4>2 DEF SentFor
        <5>2. AnsweredFor(t)'
          BY <1>0, <3>1, <3>2, <4>2 DEF AnsweredFor, Writes
        <5> QED
          BY <5>1, <5>2
      <4>3. CASE x.kind = "users" /\ x.for = "page" /\ t.for = "page" /\ t.arg = "outrun"
        <5>1. SentFor(t)'
          BY <1>0, <3>1, <3>2, <4>3 DEF SentFor
        <5>2. AnsweredFor(t)'
          BY <1>0, <3>1, <3>2, <4>3 DEF AnsweredFor, Writes
        <5> QED
          BY <5>1, <5>2
      <4> QED
        BY <3>1, <4>1, <4>2, <4>3
    <3> QED
      BY <3>3
  <2> QED
    BY <2>1, <2>2
<1>10. SessionTypeOK' /\ SessionShapes'
  <2>1. \A t \in net' :
          /\ IsRequest(t)
          /\ t.sess \in 0..Len(owner)
          /\ t.for \in {"init", "login", "poll", "refresh", "logout", "page", "gone"}
    BY <1>4, <1>5, SessionFetchFacts, SessionRequestFacts
  <2>2. page'.at \in {"overview", "users", "settings"} /\ page'.target \in Accounts \cup {Nothing}
    BY <1>2 DEF Views
  <2>3. SessionTypeOK'
    BY <1>0, <1>2, <2>1, <2>2, SessionFacts DEF SessionInv, SessionTypeOK
  <2>4. SessionShapes'
    BY <1>0, <1>2, <2>1, SessionFacts DEF SessionShapes
  <2> QED
    BY <2>3, <2>4
<1>11. OneAtATime'
  <2>1. \A t \in net' : t.for = "login" \/ t.for = "init" => t \in net \ {q}
    BY <1>4, <1>5, SessionFetchFacts
  <2>2. \A t \in net \ {q} : ~(t.kind = "me" /\ t.for = "init")
    BY SessionNoStartUp
  <2> QED
    BY <2>1, <2>2 DEF SessionInv, OneAtATime
<1>12. SessionOfUser' /\ CacheOwn'
  BY <1>0, <1>2 DEF SessionInv, SessionOfUser, CacheOwn
<1>13. StaleIsRead'
  <2> SUFFICES ASSUME users' # NoUsers
               PROVE  /\ users'.ver < acked' => users'.stale
                      /\ users'.stale /\ page'.at = "users" => users'.err \/ Fetching'
    BY DEF StaleIsRead
  <2>1. users'.stale /\ users # NoUsers /\ user # Nobody
    BY <1>2, <1>3
  <2>2. page.at = "users" => Fetching'
    BY <1>4, <1>7, <2>1, SessionFetchFacts DEF Fetching
  <2> QED
    BY <1>2, <2>1, <2>2
<1> QED
  BY <1>9, <1>10, <1>11, <1>12, <1>13 DEF SessionInv

(* The answer to a write, whatever it is.                                     *)
LEMMA SessionWriteStep ==
  ASSUME SessionAssumption, SessionInv, NEW q \in net, WriteAnswer(q)
  PROVE  SessionInv'
<1>0. q.kind \in Writes /\ UNCHANGED <<cookie, owner, live, ver>>
  BY DEF WriteAnswer, backend
<1>1. CASE q.ans.code = "ok"
  BY <1>1, SessionWrittenStep
<1>2. CASE q.ans.code = "401"
  BY <1>0, <1>2, SessionNobodyStep DEF WriteAnswer, Expired
<1>3. CASE q.ans.code \notin {"ok", "401"}
  <2>1. /\ net' = net \ {q} /\ acked' = acked /\ UNCHANGED <<user, gate, users>>
        /\ page' \in {page, [page EXCEPT !.target = Nothing]}
    BY <1>3 DEF WriteAnswer
  <2>2. /\ page' \in Views
        /\ page'.at = page.at /\ page'.collapsed = page.collapsed /\ page'.stored = page.stored
    BY <2>1, SessionFacts DEF Views
  <2>3. user # Nobody => page'.collapsed = page'.stored
    BY <2>2 DEF SessionInv, SessionOfUser
  <2>4. q.kind # "users"
    BY <1>0 DEF Writes
  <2> QED
    BY <1>0, <2>1, <2>2, <2>3, <2>4, SessionFacts, SessionDropStep
<1> QED
  BY <1>1, <1>2, <1>3

(* Another page: what the old one asked for is orphaned, but for the list.    *)
LEMMA SessionMoveStep ==
  ASSUME SessionAssumption, SessionInv, (\E p \in Pages : Navigate(p)) \/ Redirect
  PROVE  SessionInv'
<1>0. /\ UNCHANGED <<user, gate, cookie, users, acked, owner, live, ver>> /\ user # Nobody
      /\ ~gate.checking
      /\ page.collapsed = page.stored
  BY DEF Navigate, Redirect, backend, Screen, SessionInv, SessionOfUser
<1>1. PICK p \in {"overview", "users", "settings"} :
        /\ page' = [at |-> p, create |-> FALSE, form |-> FALSE, target |-> Nothing,
                    collapsed |-> page.collapsed, stored |-> page.stored]
        /\ net' = {LeavePage(q) : q \in net}
                  \cup (IF p = "users" /\ ~Fetching /\ (users = NoUsers \/ users.stale) THEN {FetchUsers} ELSE {})
  <2>1. ASSUME NEW p \in Pages, Navigate(p)
        PROVE  /\ p \in {"overview", "users", "settings"}
               /\ page' = [at |-> p, create |-> FALSE, form |-> FALSE, target |-> Nothing,
                           collapsed |-> page.collapsed, stored |-> page.stored]
               /\ net' = {LeavePage(q) : q \in net}
                         \cup (IF p = "users" /\ ~Fetching /\ (users = NoUsers \/ users.stale) THEN {FetchUsers} ELSE {})
    BY <2>1 DEF Navigate, SessionAssumption, Blank
  <2>2. CASE Redirect
    <3>1. page' = [at |-> "overview", create |-> FALSE, form |-> FALSE, target |-> Nothing,
                   collapsed |-> page.collapsed, stored |-> page.stored]
      BY <2>2 DEF Redirect, Blank
    <3>2. net' = {LeavePage(q) : q \in net}
      BY <2>2 DEF Redirect
    <3>3. "overview" # "users"
      OBVIOUS
    <3> QED
      BY <3>1, <3>2, <3>3
  <2> QED
    BY <2>1, <2>2
<1>3. /\ page' \in Views
      /\ page'.at = p /\ page'.target = Nothing /\ page'.collapsed = page.collapsed
      /\ page'.stored = page.stored
  BY <1>1, SessionFacts DEF Views
<1>4. PICK r : r = FetchUsers
  OBVIOUS
<1>5. \A t \in net' :
        \/ t = r /\ p = "users"
        \/ \E s \in net :
             /\ t.kind = s.kind /\ t.arg = s.arg /\ t.sess = s.sess /\ t.asked = s.asked
             /\ t.ans = s.ans
             /\ IsRequest(t)
             /\ t.for = IF s.kind # "users" /\ s.for = "page" THEN "gone" ELSE s.for
  BY <1>1, <1>4, SessionRequestFacts, SessionLeaveFacts
<1>6. \A t \in net' : ~(t.kind = "me" /\ t.for = "init") /\ t.for # "login"
  BY <1>0, <1>4, <1>5, SessionFetchFacts, SessionRequestFacts DEF SentFor
<1>7. \A t \in net' : SentFor(t)' /\ AnsweredFor(t)'
  <2> TAKE t \in net'
  <2>1. CASE t = r /\ p = "users"
    BY <1>0, <1>3, <1>4, <2>1, SessionFetchFacts DEF SentFor, AnsweredFor, Writes
  <2>2. CASE ~(t = r /\ p = "users")
    <3>1. PICK s \in net :
            /\ t.kind = s.kind /\ t.arg = s.arg /\ t.sess = s.sess /\ t.asked = s.asked
            /\ t.ans = s.ans
            /\ t.for = IF s.kind # "users" /\ s.for = "page" THEN "gone" ELSE s.for
      BY <1>5, <2>2
    <3>2. SentFor(s) /\ AnsweredFor(s)
      BY SessionRequestFacts
    <3>3. t.for \in {s.for, "gone"} /\ (t.for = "page" => t.kind = "users")
      BY <3>1
    <3>4. SentFor(t)'
      BY <1>0, <1>3, <3>1, <3>2, <3>3 DEF SentFor
    <3>5. AnsweredFor(t)'
      BY <1>0, <1>3, <3>1, <3>2, <3>3 DEF AnsweredFor
    <3> QED
      BY <3>4, <3>5
  <2> QED
    BY <2>1, <2>2
<1>8. SessionTypeOK' /\ SessionShapes'
  <2>1. \A t \in net' :
          /\ IsRequest(t)
          /\ t.sess \in 0..Len(owner)
          /\ t.for \in {"init", "login", "poll", "refresh", "logout", "page", "gone"}
    BY <1>4, <1>5, SessionFetchFacts, SessionRequestFacts
  <2>2. SessionTypeOK'
    BY <1>0, <1>3, <2>1, SessionFacts DEF SessionInv, SessionTypeOK
  <2>3. SessionShapes'
    BY <1>0, <1>3, <2>1, SessionFacts DEF SessionShapes
  <2> QED
    BY <2>2, <2>3
<1>9. OneAtATime'
  BY <1>6 DEF OneAtATime
<1>10. SessionOfUser' /\ CacheOwn'
  BY <1>0, <1>3 DEF SessionInv, SessionOfUser, CacheOwn
<1>11. StaleIsRead'
  <2>1. Fetching => Fetching'
    <3> SUFFICES ASSUME NEW x \in net, x.kind = "users", x.for = "page" PROVE Fetching'
      BY DEF Fetching
    <3>1. LeavePage(x) = x /\ LeavePage(x) \in net'
      BY <1>1 DEF LeavePage
    <3> QED
      BY <3>1 DEF Fetching
  <2>2. users # NoUsers /\ users.stale /\ p = "users" /\ ~Fetching => Fetching'
    BY <1>1, <1>4, SessionFetchFacts DEF Fetching
  <2> QED
    BY <1>0, <1>3, <2>1, <2>2 DEF SessionInv, StaleIsRead
<1> QED
  BY <1>7, <1>8, <1>9, <1>10, <1>11 DEF SessionInv

(* What a tab that is loaded starts from.                                     *)
LEMMA SessionBootFacts ==
  ASSUME NEW c, NEW q, q = Boot(c)
  PROVE  /\ IsRequest(q)
         /\ q.kind = "me" /\ q.for = "init" /\ q.sess = c /\ q.asked = "nobody"
         /\ q.ans.code = "waiting"
  BY DEF Boot, Waiting, IsRequest

(* The page is loaded again.                                                  *)
LEMMA SessionReloadStep ==
  ASSUME SessionAssumption, SessionInv, Reload
  PROVE  SessionInv'
<1>1. PICK r : r = Boot(cookie)
  OBVIOUS
<1>2. /\ user' = Nobody /\ gate' = [checking |-> TRUE, backendError |-> FALSE, crashed |-> FALSE]
      /\ net' = {r} /\ users' = NoUsers /\ page' = Blank(page.stored) /\ acked' = 0
      /\ UNCHANGED <<cookie, owner, live, ver>>
  BY <1>1 DEF Reload, backend
<1>3. /\ page' \in Views
      /\ page'.at = "overview" /\ page'.target = Nothing
  <2>1. page.stored \in BOOLEAN
    BY SessionFacts DEF Views
  <2> QED
    BY <1>2, <2>1 DEF Blank, Views
<1>4. SentFor(r)' /\ AnsweredFor(r)'
  BY <1>1, <1>2, SessionBootFacts DEF SentFor, AnsweredFor, Writes
<1>5. SessionTypeOK'
  BY <1>1, <1>2, <1>3, SessionBootFacts, SessionFacts DEF SessionInv, SessionTypeOK, Nobody
<1>6. SessionShapes' /\ OneAtATime'
  BY <1>1, <1>2, <1>3, SessionBootFacts DEF SessionShapes, OneAtATime, Lists, Gates
<1>7. SessionOfUser' /\ CacheOwn' /\ StaleIsRead'
  BY <1>2 DEF SessionInv, SessionOfUser, CacheOwn, StaleIsRead
<1> QED
  BY <1>2, <1>4, <1>5, <1>6, <1>7 DEF SessionInv

(* The tab is opened with the cookie of an earlier visit or with none.        *)
LEMMA SessionInitInv ==
  ASSUME SessionAssumption, SessionInit
  PROVE  SessionInv
<1>1. /\ user = Nobody /\ gate = [checking |-> TRUE, backendError |-> FALSE, crashed |-> FALSE]
      /\ net = {Boot(cookie)} /\ users = NoUsers /\ page = Blank(FALSE) /\ acked = 0 /\ ver = 0
      /\ cookie = Len(owner) /\ live = 1..Len(owner)
  BY DEF SessionInit
<1>2. PICK a \in Accounts \cup {Nothing} :
        owner = (IF a = Nothing THEN <<>> ELSE <<a>>) /\ (a # Nothing => MaxLogins > 0)
  BY DEF SessionInit
<1>3. owner \in Seq(Accounts) /\ Len(owner) \in Nat /\ (AuthOff => owner = <<>>)
  <2>1. CASE a = Nothing
    BY <1>2, <2>1
  <2>2. CASE a # Nothing
    BY <1>2, <2>2 DEF SessionAssumption
  <2> QED
    BY <2>1, <2>2
<1>4. PICK r : r = Boot(cookie) /\ net = {r}
  BY <1>1
<1>5. /\ IsRequest(r)
       /\ r.kind = "me" /\ r.for = "init" /\ r.sess = cookie /\ r.asked = "nobody"
       /\ r.ans.code = "waiting"
  BY <1>4, SessionBootFacts
<1>6. SentFor(r) /\ AnsweredFor(r)
  BY <1>1, <1>5 DEF SentFor, AnsweredFor, Writes
<1>7. /\ page \in Views
      /\ page.at = "overview" /\ page.target = Nothing
  BY <1>1 DEF Blank, Views
<1>8. SessionTypeOK
  <2>1. cookie \in 0..Len(owner) /\ live \subseteq 1..Len(owner)
    BY <1>1, <1>3
  <2>2. user.id = "nobody" /\ {acked, ver} \subseteq Nat /\ acked <= ver
    BY <1>1 DEF Nobody
  <2>3. page.at \in {"overview", "users", "settings"} /\ page.target \in Accounts \cup {Nothing}
    BY <1>7
  <2>4. \A q \in net : q.sess \in 0..Len(owner) /\ q.for = "init"
    BY <1>1, <1>3, <1>4, <1>5
  <2> QED
    BY <1>3, <2>1, <2>2, <2>3, <2>4 DEF SessionTypeOK
<1>9. SessionShapes /\ OneAtATime
  BY <1>1, <1>4, <1>5, <1>7 DEF SessionShapes, OneAtATime, Lists, Gates
<1>10. SessionOfUser /\ CacheOwn /\ StaleIsRead
  BY <1>1, <1>3 DEF SessionOfUser, CacheOwn, StaleIsRead
<1> QED
  BY <1>1, <1>4, <1>6, <1>8, <1>9, <1>10 DEF SessionInv

(* For all accounts, whatever requests of an earlier account are still under  *)
(* way: what the tab shows was answered for the account it shows, is no older *)
(* than the last write it was told of unless it says so or is being read, and *)
(* the stored sidebar is the one on screen.                                   *)
THEOREM SessionCacheOwned ==
  ASSUME SessionAssumption
  PROVE  SessionSpec => []CacheOwned
<1>1. SessionInit => SessionInv
  BY SessionInitInv
<1>2. SessionInv /\ [SessionNext]_sessionVars => SessionInv'
  <2> SUFFICES ASSUME SessionInv, [SessionNext]_sessionVars PROVE SessionInv'
    OBVIOUS
  <2>1. CASE \/ \E a \in Accounts : Login(a)
             \/ \E a \in Accounts, kind \in Writes : Write(kind, a)
             \/ PollMe \/ Logout \/ SaveSettings \/ Refetch
    BY <2>1, SessionClickStep
  <2>2. CASE \/ ToggleCollapse \/ OpenCreate \/ CancelDialog \/ FillForm \/ UNCHANGED sessionVars
             \/ \E a \in Accounts : AskDeleteUser(a)
    BY <2>2, SessionPageStep
  <2>3. CASE (\E s \in live : Expire(s)) \/ (\E a \in Accounts : OtherAdmin(a))
    BY <2>3, SessionElsewhereStep
  <2>4. CASE (\E p \in Pages : Navigate(p)) \/ Redirect
    BY <2>4, SessionMoveStep
  <2>5. CASE Reload
    BY <2>5, SessionReloadStep
  <2>6. CASE \E q \in net : ServeRequest(q) \/ LoseMessage(q)
    BY <2>6, SessionServeStep
  <2>7. CASE \E q \in net : Deliver(q)
    BY <2>7, SessionStartUpStep, SessionSignInStep, SessionRefreshStep, SessionListStep, SessionWriteStep DEF Deliver
  <2> QED
    BY <2>1, <2>2, <2>3, <2>4, <2>5, <2>6, <2>7 DEF SessionNext
<1>3. SessionInv => CacheOwned
  BY SessionShows
<1> QED
  BY <1>1, <1>2, <1>3, PTL DEF SessionSpec

----------------------------------------------------------------------------
(* The guardrails page.                                                       *)

(* What the form is made of.                                                  *)
LEMMA FormFacts ==
  ASSUME GuardrailsFormAssumption, FormTypeOK, FormShapes
  PROVE  /\ form.ns \in SUBSET Namespaces /\ form.prio \in SUBSET Namespaces /\ form.conc \in Int
         /\ form.interval \in Intervals /\ form.chip \in Namespaces \cup {NoNs}
         /\ Snapshot(form) \in Snapshots
         /\ Snapshot(InitialForm) \in Snapshots /\ Snapshot(InitialForm).ns = {}
  BY DEF FormTypeOK, FormShapes, Snapshot, Snapshots, Number, InitialForm, Intervals, Empty

(* The form that is loaded is one of those a form can be in, and it is not    *)
(* the empty form it starts from.                                             *)
LEMMA FormLoadFacts ==
  ASSUME GuardrailsFormAssumption, NEW g \in Guardrails
  PROVE  /\ Load(g) \in [ns : SUBSET Namespaces, prio : SUBSET Namespaces, conc : Int,
                         interval : Intervals, chip : Namespaces \cup {NoNs}]
         /\ Load(g).ns = g.ns /\ Snapshot(Load(g)) \in Snapshots /\ g \in Sendable
         /\ g.ns \in SUBSET Namespaces /\ Snapshot(Load(g)) # Snapshot(InitialForm)
<1>1. /\ g.ns \in SUBSET Namespaces /\ g.ns # {} /\ g.prio \in SUBSET Namespaces
      /\ g.conc \in 1..50 /\ g.interval = "30s"
  BY DEF Guardrails
<1>2. Snapshot(Load(g)).ns = g.ns /\ Snapshot(InitialForm).ns = {}
  BY DEF Snapshot, Load, InitialForm
<1>3. g \in Sendable
  BY DEF Guardrails, Sendable, Intervals
<1> QED
  BY <1>1, <1>2, <1>3 DEF Snapshot, Load, Snapshots, Number, Intervals, Empty

(* The page is opened before its settings are loaded.                         *)
LEMMA FormInitInv ==
  ASSUME GuardrailsFormAssumption, FormInit
  PROVE  FormInv
<1>1. stored \in Guardrails
  BY DEF FormInit, Guardrails, GuardrailsFormAssumption
<1>2. FormTypeOK
  <2>1. InitialForm \in [ns : SUBSET Namespaces, prio : SUBSET Namespaces, conc : Int,
                         interval : Intervals, chip : Namespaces \cup {NoNs}]
    BY DEF InitialForm, Intervals
  <2> QED
    BY <1>1, <2>1 DEF FormInit, FormTypeOK
<1>3. FormShapes
  BY DEF FormInit, FormShapes, InitialForm, Intervals, Snapshot, Snapshots, Number, Empty
<1>4. NothingUnasked
  BY DEF FormInit, NothingUnasked
<1>5. FlagExact
  BY DEF FormInit, FlagExact
<1> QED
  BY <1>2, <1>3, <1>4, <1>5 DEF FormInv

(* Every edit of the draft: what it shows as protected was shown before or is *)
(* shown now, and the flag is compared with the saved snapshot at once.       *)
LEMMA FormDraftStep ==
  ASSUME GuardrailsFormAssumption, FormInv, 
         NEW f \in [ns : SUBSET Namespaces, prio : SUBSET Namespaces, conc : Int,
                    interval : Intervals, chip : Namespaces \cup {NoNs}],
         Draft(f), nsToRemove' \in Namespaces \cup {NoNs}, confirmed' \in SUBSET Namespaces,
         held \subseteq f.ns \cup confirmed'
  PROVE  FormInv'
<1> USE DEF Draft, FormInv
<1>1. FormTypeOK'
  BY DEF FormTypeOK, Hastily
<1>2. FormShapes'
  <2>1. f.ns \in SUBSET Namespaces
    OBVIOUS
  <2> QED
    BY <2>1 DEF FormShapes
<1>3. NothingUnasked'
  BY DEF NothingUnasked
<1>4. CASE hasty'
  BY <1>1, <1>2, <1>3, <1>4
<1>5. CASE ~hasty'
  <2>1. ~hasty /\ Quiet
    BY <1>5 DEF Hastily
  <2>2. \A r \in requests : ~Own(r)
    BY <2>1 DEF FlagExact, Quiet
  <2>3. FlagExact'
    BY <2>1, <2>2 DEF FlagExact, Own
  <2> QED
    BY <1>1, <1>2, <1>3, <2>3
<1> QED
  BY <1>4, <1>5

(* Edits of the draft, each of which compares it with the saved snapshot.     *)
LEMMA FormEditsStep ==
  ASSUME GuardrailsFormAssumption, FormInv,
         \/ \E x \in Typed : TypeNumber(x)
         \/ \E i \in Intervals : TypeInterval(i)
         \/ \E n \in Namespaces : TypeChip(n) \/ Backspace(n)
         \/ \E list \in {"ns", "prio"} : Blur(list)
         \/ Remove
  PROVE  FormInv'
<1> DEFINE Forms == [ns : SUBSET Namespaces, prio : SUBSET Namespaces, conc : Int,
                     interval : Intervals, chip : Namespaces \cup {NoNs}]
<1>0. /\ form \in Forms /\ nsToRemove \in Namespaces \cup {NoNs}
      /\ confirmed \in SUBSET Namespaces /\ held \in SUBSET Namespaces
      /\ held \subseteq form.ns \cup confirmed
  BY DEF FormInv, FormTypeOK, FormShapes, NothingUnasked
<1>1. CASE \E x \in Typed : TypeNumber(x)
  <2> PICK x \in Typed : TypeNumber(x)
    BY <1>1
  <2> DEFINE f == [form EXCEPT !.conc = x]
  <2>1. f \in Forms /\ f.ns = form.ns
    BY <1>0 DEF GuardrailsFormAssumption
  <2>2. Draft(f) /\ nsToRemove' = nsToRemove /\ confirmed' = confirmed
    BY DEF TypeNumber
  <2> QED
    BY <1>0, <2>1, <2>2, FormDraftStep
<1>2. CASE \E i \in Intervals : TypeInterval(i)
  <2> PICK i \in Intervals : TypeInterval(i)
    BY <1>2
  <2> DEFINE f == [form EXCEPT !.interval = i]
  <2>1. f \in Forms /\ f.ns = form.ns
    BY <1>0
  <2>2. Draft(f) /\ nsToRemove' = nsToRemove /\ confirmed' = confirmed
    BY DEF TypeInterval
  <2> QED
    BY <1>0, <2>1, <2>2, FormDraftStep
<1>3. CASE \E n \in Namespaces : TypeChip(n) \/ Backspace(n)
  <2> PICK n \in Namespaces : TypeChip(n) \/ Backspace(n)
    BY <1>3
  <2> DEFINE f == [form EXCEPT !.chip = n]
             h == [form EXCEPT !.prio = @ \ {n}]
  <2>1. f \in Forms /\ f.ns = form.ns /\ h \in Forms /\ h.ns = form.ns
    BY <1>0
  <2>2. (Draft(f) \/ Draft(h)) /\ nsToRemove' = nsToRemove /\ confirmed' = confirmed
    BY DEF TypeChip, Backspace
  <2> QED
    BY <1>0, <2>1, <2>2, FormDraftStep
<1>4. CASE \E list \in {"ns", "prio"} : Blur(list)
  <2> PICK list \in {"ns", "prio"} : Blur(list)
    BY <1>4
  <2> DEFINE f == [form EXCEPT ![list] = @ \cup ({form.chip} \ {NoNs}), !.chip = NoNs, !.conc = Clamp(@)]
  <2>1. Clamp(form.conc) \in Int
    BY <1>0 DEF Clamp
  <2>2. f \in Forms /\ form.ns \subseteq f.ns
    BY <1>0, <2>1
  <2>3. Draft(f) /\ nsToRemove' = nsToRemove /\ confirmed' = confirmed \ f.ns
    BY DEF Blur
  <2>4. confirmed' \in SUBSET Namespaces /\ held \subseteq f.ns \cup confirmed'
    BY <1>0, <2>2, <2>3
  <2> HIDE DEF f
  <2> QED
    BY <1>0, <2>2, <2>3, <2>4, FormDraftStep
<1>5. CASE Remove
  <2> DEFINE f == [form EXCEPT !.ns = @ \ {nsToRemove}]
  <2>1. f \in Forms /\ f.ns = form.ns \ {nsToRemove}
    BY <1>0
  <2>2. Draft(f) /\ nsToRemove' = NoNs /\ confirmed' = confirmed \cup {nsToRemove} /\ nsToRemove # NoNs
    BY <1>5 DEF Remove
  <2> QED
    BY <1>0, <2>1, <2>2, FormDraftStep
<1> QED
  BY <1>1, <1>2, <1>3, <1>4, <1>5

(* The dialogs of a removal and of leaving change nothing of the draft.       *)
LEMMA FormDialogsStep ==
  ASSUME GuardrailsFormAssumption, FormInv,
         \/ \E n \in Namespaces : AskRemove(n)
         \/ CancelRemove \/ KeepEditing \/ UNCHANGED formVars
         \/ \E g \in Imports : OtherSave(g)
  PROVE  FormInv'
<1>1. /\ nsToRemove' \in Namespaces \cup {NoNs} /\ pendingHref' \in BOOLEAN
      /\ stored' \in Guardrails
      /\ UNCHANGED <<guardrails, on, visit, form, saved, dirty, basis, held, confirmed, requests,
                     hasty, stripped, lost, saves>>
  <2>1. Imports \subseteq Guardrails
    BY DEF Imports, Guardrails
  <2>2. CASE \E g \in Imports : OtherSave(g)
    BY <2>1, <2>2 DEF OtherSave, FormInv, FormTypeOK, draft
  <2>3. CASE ~(\E g \in Imports : OtherSave(g))
    BY <2>3 DEF AskRemove, CancelRemove, KeepEditing, formVars, FormInv, FormTypeOK, draft, counts
  <2> QED
    BY <2>2, <2>3
<1>2. FormTypeOK' /\ FormShapes'
  BY <1>1 DEF FormInv, FormTypeOK, FormShapes
<1>3. NothingUnasked'
  BY <1>1 DEF FormInv, NothingUnasked
<1>4. hasty' \/ FlagExact'
  BY <1>1 DEF FormInv, FlagExact, Own, Loaded
<1> QED
  BY <1>2, <1>3, <1>4 DEF FormInv

(* The page is mounted, with or without the query's data, or that data        *)
(* arrives: nothing of an earlier instance is still expected.                 *)
LEMMA FormLoadStep ==
  ASSUME GuardrailsFormAssumption, FormInv, Mount \/ FetchGuardrails
  PROVE  FormInv'
<1>1. /\ stored \in Guardrails /\ guardrails \in Guardrails \cup {NoGuardrails} /\ visit \in Nat
      /\ requests \in SUBSET Requests /\ held \subseteq form.ns \cup confirmed
      /\ Snapshot(form) \in Snapshots /\ on \in BOOLEAN
  BY FormFacts DEF FormInv, FormTypeOK, FormShapes, NothingUnasked
<1>2. CASE Loaded /\ FetchGuardrails
  <2>1. /\ guardrails' \in Guardrails
        /\ UNCHANGED <<stored, on, visit, form, saved, dirty, basis, held, confirmed, nsToRemove,
                       pendingHref, requests, hasty, stripped, lost, saves>>
    BY <1>1, <1>2 DEF FetchGuardrails, draft, counts
  <2> QED
    BY <2>1 DEF FormInv, FormTypeOK, FormShapes, NothingUnasked, FlagExact, Own, Loaded
<1>3. CASE ~(Loaded /\ FetchGuardrails)
  <2>1. /\ guardrails' \in Guardrails \cup {NoGuardrails} /\ on' = TRUE /\ visit' \in Nat
        /\ visit' > 0
        /\ UNCHANGED <<stored, nsToRemove, pendingHref, requests, hasty, stripped, lost, saves>>
        /\ Unloaded \/ \E g \in Guardrails : LoadGuardrails(g)
    BY <1>1, <1>3 DEF Mount, FetchGuardrails, counts, FormInv, FormShapes
  <2>2. /\ form' \in [ns : SUBSET Namespaces, prio : SUBSET Namespaces, conc : Int,
                      interval : Intervals, chip : Namespaces \cup {NoNs}]
        /\ saved' = Snapshot(form') /\ saved' \in Snapshots /\ basis' = saved' /\ dirty' = FALSE
        /\ held' = form'.ns /\ held' \in SUBSET Namespaces /\ confirmed' = {}
    <3>1. CASE Unloaded
      <4>1. InitialForm \in [ns : SUBSET Namespaces, prio : SUBSET Namespaces, conc : Int,
                             interval : Intervals, chip : Namespaces \cup {NoNs}]
            /\ InitialForm.ns = {}
        BY DEF InitialForm, Intervals
      <4> QED
        BY <3>1, <4>1, FormFacts DEF Unloaded, FormInv
    <3>2. CASE \E g \in Guardrails : LoadGuardrails(g)
      BY <3>2, FormLoadFacts DEF LoadGuardrails
    <3> QED
      BY <2>1, <3>1, <3>2
  <2>3. FormTypeOK'
    BY <2>1, <2>2 DEF FormInv, FormTypeOK
  <2>4. FormShapes'
    BY <2>1, <2>2 DEF FormInv, FormShapes
  <2>5. NothingUnasked'
    BY <2>1, <2>2 DEF FormInv, NothingUnasked
  <2>6. ASSUME ~hasty' PROVE FlagExact'
    <3>1. FlagExact
      BY <2>1, <2>6 DEF FormInv
    <3>2. ASSUME NEW r \in requests PROVE ~Own(r)
      BY <1>3, <3>1, <3>2 DEF FlagExact, Loaded, Mount, FetchGuardrails
    <3> QED
      BY <2>1, <2>2, <3>1, <3>2 DEF FlagExact, Own
  <2> QED
    BY <2>3, <2>4, <2>5, <2>6 DEF FormInv
<1> QED
  BY <1>2, <1>3

(* A save sends the draft on screen and gives up nothing unasked.             *)
LEMMA FormSendStep ==
  ASSUME GuardrailsFormAssumption, FormInv, Save \/ \E g \in Imports : ImportGuardrails(g)
  PROVE  FormInv'
<1>1. PICK op \in {"save", "import"}, body \in Sendable :
        CanSend(op) /\ Send(op, body, {}) /\ (op = "save" => body = Snapshot(form))
  <2>1. CASE Save
    <3>1. held \ (form.ns \cup confirmed) = {}
      BY DEF FormInv, NothingUnasked
    <3>2. CanSend("save") /\ Send("save", Snapshot(form), {})
      BY <2>1, <3>1 DEF Save
    <3>3. Snapshot(form) \in Sendable
      <4>1. form.conc \in 1..50 /\ Number(form.conc) = form.conc
        BY <3>2 DEF CanSend, Rested, Number, Empty
      <4>2. /\ form.ns \in SUBSET Namespaces /\ form.prio \in SUBSET Namespaces
            /\ form.interval \in Intervals
        BY FormFacts DEF FormInv
      <4> QED
        BY <4>1, <4>2 DEF Snapshot, Sendable
    <3> QED
      BY <3>2, <3>3
  <2>2. CASE \E g \in Imports : ImportGuardrails(g)
    <3>1. Imports \subseteq Sendable
      BY DEF Imports, Sendable, Intervals
    <3> QED
      BY <2>2, <3>1 DEF ImportGuardrails
  <2> QED
    BY <2>1, <2>2
<1> DEFINE r0 == [n |-> saves', visit |-> visit, op |-> op, body |-> body, unasked |-> {}, ans |-> "none"]
<1>2. /\ saves' = saves + 1 /\ requests' = requests \cup {r0} /\ hasty' = (hasty \/ ~Quiet)
      /\ UNCHANGED <<stored, guardrails, on, visit, form, saved, dirty, basis, held, confirmed,
                     nsToRemove, pendingHref, stripped, lost>>
  BY <1>1 DEF Send, Hastily, draft
<1>3. r0 \in Requests /\ saves' \in Nat /\ r0.visit = visit /\ r0.body = body /\ r0.op = op
      /\ r0.unasked = {} /\ r0.ans # "ok" /\ body.conc \in 1..50 /\ visit \in Nat
  BY <1>2 DEF FormInv, FormTypeOK, FormShapes, Requests, Sendable
<1> HIDE DEF r0
<1>4. FormTypeOK'
  <2>1. hasty' \in BOOLEAN
    BY <1>2 DEF FormInv, FormTypeOK
  <2> QED
    BY <1>2, <1>3, <2>1 DEF FormInv, FormTypeOK
<1>5. FormShapes'
  BY <1>2, <1>3 DEF FormInv, FormShapes
<1>6. NothingUnasked'
  BY <1>2, <1>3 DEF FormInv, NothingUnasked
<1>7. ASSUME ~hasty' PROVE FlagExact'
  <2>1. FlagExact /\ Quiet
    BY <1>2, <1>7 DEF FormInv
  <2>2. \A r \in requests : ~Own(r)
    BY <2>1 DEF FlagExact, Quiet
  <2>3. Loaded /\ Loaded'
    BY <1>1, <1>2 DEF CanSend, Loaded
  <2>4. \A r \in requests' : Own(r) => r = r0
    BY <1>2, <2>2 DEF Own
  <2>5. ASSUME NEW r \in requests', Own(r)
        PROVE  Loaded' /\ r.visit = visit' /\ (r.op = "save" => r.body = Snapshot(form)')
    BY <1>1, <1>2, <1>3, <2>3, <2>4, <2>5
  <2>6. ~lost' /\ saved' = basis' /\ (dirty <=> Snapshot(form) # saved)'
    BY <1>2, <2>1 DEF FlagExact
  <2> QED
    BY <2>4, <2>5, <2>6 DEF FlagExact, Own
<1> QED
  BY <1>4, <1>5, <1>6, <1>7 DEF FormInv

(* The server's part: protection is only lost as the request asked for it.    *)
LEMMA FormServeStep ==
  ASSUME GuardrailsFormAssumption, FormInv, NEW r \in requests, UpdateGuardrails(r)
  PROVE  FormInv'
<1>1. PICK a \in {"ok", "error"} :
        /\ requests' = (requests \ {r}) \cup {[r EXCEPT !.ans = a]}
        /\ stored' \in Guardrails /\ (a = "ok" => r.body \in Guardrails)
        /\ UNCHANGED <<guardrails, on, visit, form, saved, dirty, basis, held, confirmed,
                       nsToRemove, pendingHref, hasty, lost, saves>>
        /\ stripped' = stripped \/ stripped' = (stripped \/ stored.ns \cap r.unasked # {})
  BY DEF UpdateGuardrails, FormInv, FormTypeOK, draft, counts
<1> DEFINE t == [r EXCEPT !.ans = a]
<1>2. /\ t \in Requests /\ t.visit = r.visit /\ t.op = r.op /\ t.body = r.body
      /\ t.unasked = r.unasked
      /\ t.ans = a /\ r.unasked = {}
  BY DEF FormInv, FormShapes, Requests, NothingUnasked
<1>3. ~stripped' /\ ~stripped
  <2>1. ~stripped /\ stripped \in BOOLEAN
    BY DEF FormInv, NothingUnasked, FormTypeOK
  <2>2. ~(stripped \/ stored.ns \cap r.unasked # {})
    BY <1>2, <2>1
  <2>3. CASE stripped' = stripped
    BY <2>1, <2>3
  <2>4. CASE stripped' = (stripped \/ stored.ns \cap r.unasked # {})
    BY <2>1, <2>2, <2>4, Zenon
  <2> QED
    BY <1>1, <2>3, <2>4
<1>4. requests' = (requests \ {r}) \cup {t}
  BY <1>1
<1> HIDE DEF t
<1>5. FormTypeOK'
  BY <1>1, <1>2, <1>3, <1>4 DEF FormInv, FormTypeOK
<1>6. FormShapes'
  BY <1>1, <1>2, <1>4 DEF FormInv, FormShapes
<1>7. NothingUnasked'
  BY <1>1, <1>2, <1>3, <1>4 DEF FormInv, NothingUnasked
<1>8. ASSUME ~hasty' PROVE FlagExact'
  <2>1. FlagExact
    BY <1>1, <1>8 DEF FormInv
  <2>2. ~lost' /\ saved' = basis' /\ (dirty <=> Snapshot(form) # saved)' /\ (Loaded => Loaded')
    BY <1>1, <2>1 DEF FlagExact, Loaded
  <2>3. ASSUME NEW q \in requests', Own(q)
        PROVE  Loaded' /\ q.visit = visit' /\ (q.op = "save" => q.body = Snapshot(form)')
    BY <1>1, <1>2, <1>4, <2>1, <2>2, <2>3 DEF FlagExact, Own
  <2>4. ASSUME NEW p \in requests', NEW q \in requests', Own(p), Own(q) PROVE p = q
    BY <1>2, <1>4, <2>1, <2>4 DEF FlagExact, Own
  <2> QED
    BY <2>2, <2>3, <2>4 DEF FlagExact, Own
<1> QED
  BY <1>5, <1>6, <1>7, <1>8 DEF FormInv

(* The answer of a save, an import or an error.                               *)
LEMMA FormAnswerStep ==
  ASSUME GuardrailsFormAssumption, FormInv, NEW r \in requests, AnswerSave(r)
  PROVE  FormInv'
<1>1. /\ requests' = requests \ {r} /\ r \in Requests /\ r.ans \in {"ok", "error"}
      /\ r.body \in Sendable
      /\ UNCHANGED <<stored, on, visit, nsToRemove, pendingHref, hasty, stripped, lost, saves>>
      /\ r.ans = "ok" => r.body \in Guardrails
  BY DEF AnswerSave, FormInv, FormShapes, Requests, NothingUnasked, counts
<1> DEFINE Forms == [ns : SUBSET Namespaces, prio : SUBSET Namespaces, conc : Int,
                     interval : Intervals, chip : Namespaces \cup {NoNs}]
           Ignored == UNCHANGED <<form, saved, dirty, basis, held, confirmed, guardrails>>
           Late == /\ r.visit # Gone /\ ~(r.visit = visit /\ on)
                   /\ dirty' = FALSE /\ guardrails' \in Guardrails \cup {NoGuardrails}
                   /\ UNCHANGED <<form, saved, basis, held, confirmed>>
           Applied == guardrails' \in Guardrails /\ r.body \in Guardrails /\ LoadGuardrails(r.body) /\ on
           Saved == /\ dirty' = FALSE /\ saved' = Snapshot(form) /\ basis' = r.body /\ r.body \in Guardrails
                    /\ r.op = "save" /\ r.visit # Gone /\ on
                    /\ UNCHANGED <<form, held, confirmed, guardrails>>
<1>2. Ignored \/ Late \/ Applied \/ Saved
  BY <1>1 DEF AnswerSave, FormInv, FormTypeOK, draft, Requests
<1>3. /\ form \in Forms /\ Snapshot(form) \in Snapshots /\ {saved, basis} \subseteq Snapshots
      /\ dirty \in BOOLEAN /\ guardrails \in Guardrails \cup {NoGuardrails}
      /\ held \subseteq form.ns \cup confirmed /\ held \in SUBSET Namespaces
      /\ confirmed \in SUBSET Namespaces /\ r.body \in Snapshots
  <2>1. r.body \in Snapshots
    BY <1>1 DEF Sendable, Snapshots
  <2> QED
    BY <2>1, FormFacts DEF FormInv, FormTypeOK, FormShapes, NothingUnasked
<1>4. /\ form' \in Forms /\ {saved', basis'} \subseteq Snapshots /\ dirty' \in BOOLEAN
      /\ guardrails' \in Guardrails \cup {NoGuardrails}
      /\ held' \subseteq form'.ns \cup confirmed' /\ held' \in SUBSET Namespaces
      /\ confirmed' \in SUBSET Namespaces
  <2>1. CASE Applied
    BY <2>1, FormLoadFacts DEF LoadGuardrails
  <2> QED
    BY <1>2, <1>3, <2>1
<1>5. FormTypeOK'
  BY <1>1, <1>4 DEF FormInv, FormTypeOK
<1>6. FormShapes'
  BY <1>1, <1>4 DEF FormInv, FormShapes
<1>7. NothingUnasked'
  BY <1>1, <1>4 DEF FormInv, NothingUnasked
<1>8. ASSUME ~hasty' PROVE FlagExact'
  <2>1. FlagExact
    BY <1>1, <1>8 DEF FormInv
  <2>2. \A q \in requests' : q \in requests /\ q # r
    BY <1>1
  <2>3. CASE Ignored
    BY <1>1, <2>1, <2>2, <2>3 DEF FlagExact, Own, Loaded
  <2>4. CASE Late
    BY <2>1, <2>4 DEF FlagExact, Own, Loaded
  <2>5. CASE Own(r) /\ (Applied \/ Saved)
    <3>1. \A q \in requests' : ~Own(q)
      BY <2>1, <2>2, <2>5 DEF FlagExact
    <3>2. saved' = basis' /\ dirty' = FALSE /\ saved' = Snapshot(form')
      BY <2>1, <2>5, FormLoadFacts DEF FlagExact, LoadGuardrails, Own
    <3> QED
      BY <1>1, <2>1, <3>1, <3>2 DEF FlagExact, Own
  <2>6. CASE ~Own(r)
    <3>1. Ignored
      BY <2>6 DEF AnswerSave, Own, draft
    <3> QED
      BY <2>3, <3>1
  <2> QED
    BY <1>2, <2>3, <2>4, <2>5, <2>6
<1> QED
  BY <1>5, <1>6, <1>7, <1>8 DEF FormInv

(* Leaving: without a question only when there is nothing to lose.            *)
LEMMA FormLeaveStep ==
  ASSUME GuardrailsFormAssumption, FormInv, ClickLink \/ LeaveWithoutSaving \/ Unload
  PROVE  FormInv'
<1>1. CASE ClickLink /\ dirty
  <2>1. /\ pendingHref' = TRUE
        /\ UNCHANGED <<stored, guardrails, on, visit, form, saved, dirty, basis, held, confirmed,
                       nsToRemove, requests, hasty, stripped, lost, saves>>
    BY <1>1 DEF ClickLink, draft, counts
  <2> QED
    BY <2>1 DEF FormInv, FormTypeOK, FormShapes, NothingUnasked, FlagExact, Own, Loaded
<1>2. CASE ~(ClickLink /\ dirty)
  <2>1. PICK asked \in BOOLEAN :
          /\ Leave(asked) /\ nsToRemove' \in Namespaces \cup {NoNs}
          /\ guardrails' \in Guardrails \cup {NoGuardrails}
          /\ asked \/ ~dirty
          /\ UNCHANGED <<stored, visit, stripped, saves>>
          /\ \/ Hastily /\ requests' = requests
             \/ hasty' = hasty /\ requests' = {[r EXCEPT !.visit = Gone] : r \in requests}
    BY <1>2 DEF ClickLink, LeaveWithoutSaving, Unload, counts, FormInv, FormTypeOK
  <2>2. /\ on' = FALSE /\ pendingHref' = FALSE /\ dirty' = FALSE /\ lost' \in BOOLEAN
        /\ hasty' \in BOOLEAN
        /\ form' = InitialForm /\ saved' = Snapshot(InitialForm) /\ basis' = Snapshot(InitialForm)
        /\ held' = {} /\ confirmed' = {}
    BY <2>1 DEF Leave, Unloaded, Hastily, FormInv, FormTypeOK
  <2>3. /\ InitialForm \in [ns : SUBSET Namespaces, prio : SUBSET Namespaces, conc : Int,
                            interval : Intervals, chip : Namespaces \cup {NoNs}]
        /\ Snapshot(InitialForm) \in Snapshots
    BY FormFacts DEF InitialForm, Intervals, FormInv
  <2>4. ASSUME NEW q \in requests'
        PROVE  \E r \in requests : /\ q \in Requests /\ q.visit \in {r.visit, Gone} /\ q.body = r.body
                                   /\ q.unasked = r.unasked /\ q.ans = r.ans
    BY <2>1 DEF FormInv, FormShapes, Requests, Gone
  <2>5. FormTypeOK'
    <3>1. \A r \in requests' : r.visit \in Nat /\ r.body.conc \in 1..50
      BY <2>4 DEF FormInv, FormTypeOK, Gone
    <3> QED
      BY <2>1, <2>2, <2>3, <3>1 DEF FormInv, FormTypeOK
  <2>6. FormShapes'
    BY <2>1, <2>2, <2>3, <2>4 DEF FormInv, FormShapes
  <2>7. NothingUnasked'
    BY <2>1, <2>2, <2>4 DEF FormInv, NothingUnasked
  <2>8. ASSUME ~hasty' PROVE FlagExact'
    <3>0. ~hasty
      BY <2>1, <2>8 DEF Hastily
    <3>1. FlagExact
      BY <3>0 DEF FormInv
    <3>2. ASSUME NEW q \in requests' PROVE ~Own(q)
      <4>1. CASE Hastily /\ requests' = requests
        BY <2>8, <3>1, <3>2, <4>1 DEF FlagExact, Hastily, Quiet
      <4>2. CASE requests' = {[r EXCEPT !.visit = Gone] : r \in requests}
        BY <3>2, <4>2 DEF Own, FormInv, FormShapes, Requests
      <4> QED
        BY <2>1, <4>1, <4>2
    <3>3. ~lost'
      BY <2>1, <3>1 DEF Leave, FlagExact, Unsaved
    <3> QED
      BY <2>2, <3>2, <3>3 DEF FlagExact, Own
  <2> QED
    BY <2>5, <2>6, <2>7, <2>8 DEF FormInv
<1> QED
  BY <1>1, <1>2

(* For all guardrails and however many edits, saves, imports, answers and     *)
(* visits: as long as the user waits for the answers, a draft that is not     *)
(* marked dirty is what was last loaded or acknowledged and nothing unsaved   *)
(* is left without a question; and always, a save takes protection the page   *)
(* has shown only from namespaces whose removal was confirmed.                *)
THEOREM GuardrailsFormHonest ==
  ASSUME GuardrailsFormAssumption
  PROVE  FormSpec => []FormHonest
<1>1. FormInit => FormInv
  BY FormInitInv
<1>2. FormInv /\ [FormNext]_formVars => FormInv'
  <2> SUFFICES ASSUME FormInv, [FormNext]_formVars PROVE FormInv'
    OBVIOUS
  <2>1. CASE \/ \E x \in Typed : TypeNumber(x)
             \/ \E i \in Intervals : TypeInterval(i)
             \/ \E n \in Namespaces : TypeChip(n) \/ Backspace(n)
             \/ \E list \in {"ns", "prio"} : Blur(list)
             \/ Remove
    BY <2>1, FormEditsStep
  <2>2. CASE \/ \E n \in Namespaces : AskRemove(n)
             \/ CancelRemove \/ KeepEditing \/ UNCHANGED formVars
             \/ \E g \in Imports : OtherSave(g)
    BY <2>2, FormDialogsStep
  <2>3. CASE Mount \/ FetchGuardrails
    BY <2>3, FormLoadStep
  <2>4. CASE Save \/ \E g \in Imports : ImportGuardrails(g)
    BY <2>4, FormSendStep
  <2>5. CASE \E r \in requests : UpdateGuardrails(r) \/ AnswerSave(r)
    BY <2>5, FormServeStep, FormAnswerStep
  <2>6. CASE ClickLink \/ LeaveWithoutSaving \/ Unload
    BY <2>6, FormLeaveStep
  <2> QED
    BY <2>1, <2>2, <2>3, <2>4, <2>5, <2>6 DEF FormNext
<1>3. FormInv => FormHonest
  BY DEF FormInv, NothingUnasked, FlagExact, FormHonest, CleanIsSaved, NoSilentLoss,
     ProtectionLossConfirmed,
         Unsaved
<1> QED
  BY <1>1, <1>2, <1>3, PTL DEF FormSpec

----------------------------------------------------------------------------
(* The editors of policies and exceptions.                                    *)

(* What the records, the dialog and its request are.                          *)
LEMMA EditorFacts ==
  ASSUME RecordEditorAssumption, EditorInv
  PROVE  /\ which \in Editors /\ Ids \subseteq Nat \ {0} /\ history \subseteq Ids
         /\ records \in [Ids -> {NoRecord} \cup Records]
         /\ listed \in [Ids -> {NoRecord} \cup Records]
         /\ editor \in [open : BOOLEAN, fading : BOOLEAN, existing : Ids \cup {0},
                        rec : {NoRecord} \cup Records, draft : Drafts, error : BOOLEAN,
                        session : Nat, own : Ids \cup {0}]
         /\ mutation \in {NoReq} \cup [id : Ids \cup {0}, payload : Drafts, own : Ids \cup {0},
                                       open : BOOLEAN, ans : {"none", "ok", "err"}]
         /\ confirm \in Ids \cup {0}
  BY DEF EditorInv, EditorSound, EditorTypeOK, EditorShapes, RecordEditorAssumption

(* The drafts of both editors, and what is read back from a record.           *)
LEMMA EditorDraftFacts ==
  ASSUME which \in Editors
  PROVE  /\ Defaults \in Drafts
         /\ \A r \in Records : /\ FromRecord(r) \in Drafts
                               /\ Kind = "exception" => FromRecord(r) = r.data
         /\ \A d \in Drafts : /\ Payload(d) \in Drafts /\ Stored(d) \in Records /\ Stored(d).data = d
                              /\ Stored(d) # NoRecord
         /\ \A d \in Drafts, b \in BOOLEAN :
              Validate(d, b) /\ (Kind = "exception" /\ b => d.policy # 0) => Runnable(Payload(d))
<1>1. CASE Kind = "policy"
  <2>1. Drafts = PolicyDrafts
    BY <1>1 DEF Drafts
  <2>2. Defaults \in PolicyDrafts
    BY <1>1 DEF Defaults, PolicyDrafts
  <2>3. ASSUME NEW r \in Records PROVE FromRecord(r) \in PolicyDrafts
    <3> DEFINE w == IF r.data.windows = {} THEN {"days"} ELSE r.data.windows
    <3>1. r.data \in PolicyDrafts /\ FromRecord(r) = [r.data EXCEPT !.windows = w]
      BY <1>1, <2>1 DEF FromRecord, Records
    <3>2. w \in SUBSET {"days", "nodays"}
      BY <3>1 DEF PolicyDrafts
    <3> HIDE DEF w
    <3> QED
      BY <3>1, <3>2 DEF PolicyDrafts
  <2>4. ASSUME NEW d \in PolicyDrafts
        PROVE  Payload(d) \in PolicyDrafts /\ Stored(d) \in Records /\ Stored(d).data = d
    <3> DEFINE w == d.windows \ {"nodays"}
    <3>1. Payload(d) = [d EXCEPT !.windows = w]
      BY <1>1 DEF Payload
    <3>2. w \in SUBSET {"days", "nodays"}
      BY DEF PolicyDrafts
    <3> HIDE DEF w
    <3>3. Payload(d) \in PolicyDrafts
      BY <3>1, <3>2 DEF PolicyDrafts
    <3> QED
      BY <2>1, <3>3 DEF Records, Stored
  <2>5. ASSUME NEW d \in PolicyDrafts, NEW b \in BOOLEAN, Validate(d, b) PROVE Runnable(Payload(d))
    <3>0. d.windows \in SUBSET {"days", "nodays"}
      BY DEF PolicyDrafts
    <3>1. "days" \in d.windows /\ d.name # NoTitle
      BY <1>1, <2>5 DEF Validate
    <3>2. Payload(d).windows = d.windows \ {"nodays"} /\ Payload(d).name = d.name
      <4> DEFINE w == d.windows \ {"nodays"}
      <4>1. Payload(d) = [d EXCEPT !.windows = w]
        BY <1>1 DEF Payload
      <4> HIDE DEF w
      <4>2. Payload(d).windows = w /\ Payload(d).name = d.name
        BY <4>1 DEF PolicyDrafts
      <4> QED
        BY <4>2 DEF w
    <3>3. d.windows \ {"nodays"} = {"days"}
      BY <3>0, <3>1
    <3> QED
      BY <1>1, <3>1, <3>2, <3>3 DEF Runnable
  <2> QED
    BY <1>1, <2>1, <2>2, <2>3, <2>4, <2>5 DEF Records, Stored, NoRecord
<1>2. CASE Kind = "exception"
  <2>1. Drafts = ExceptionDrafts
    BY <1>2 DEF Drafts
  <2>2. Defaults \in ExceptionDrafts
    BY <1>2 DEF Defaults, ExceptionDrafts
  <2>3. ASSUME NEW r \in Records PROVE FromRecord(r) \in ExceptionDrafts /\ FromRecord(r) = r.data
    BY <1>2, <2>1 DEF FromRecord, Records
  <2>4. ASSUME NEW d \in ExceptionDrafts
        PROVE  Payload(d) = d /\ Stored(d) \in Records /\ Stored(d).data = d
    BY <1>2, <2>1 DEF Payload, Records, Stored
  <2>5. ASSUME NEW d \in ExceptionDrafts, NEW b \in BOOLEAN, Validate(d, b), b => d.policy # 0
        PROVE  Runnable(Payload(d))
    BY <1>2, <2>4, <2>5 DEF Validate, Runnable
  <2> QED
    BY <1>2, <2>1, <2>2, <2>3, <2>4, <2>5 DEF Records, Stored, NoRecord
<1> QED
  BY <1>1, <1>2 DEF Editors, Kind

(* The records as they are before any dialog has been opened.                 *)
LEMMA EditorInitInv ==
  ASSUME RecordEditorAssumption, EditorInit
  PROVE  EditorInv
<1>1. which \in Editors
  BY DEF EditorInit
<1>2. Sample \in Drafts /\ Runnable(Sample)
  <2>1. CASE Kind = "policy"
    BY <2>1 DEF Sample, Drafts, PolicyDrafts, Runnable, NoTitle
  <2>2. CASE Kind = "exception"
    BY <2>2 DEF Sample, Drafts, ExceptionDrafts, Runnable
  <2> QED
    BY <1>1, <2>1, <2>2 DEF Editors, Kind
<1>3. Stored(Sample) \in Records /\ Stored(Sample).data = Sample
  BY <1>1, <1>2, EditorDraftFacts
<1>4. PICK s \in SUBSET Ids :
        records = [i \in Ids |-> IF i \in s THEN Stored(Sample) ELSE NoRecord] /\ history = s
  BY DEF EditorInit
<1>5. /\ records \in [Ids -> {NoRecord} \cup Records] /\ history \subseteq Ids
      /\ \A i \in Ids : records[i] # NoRecord => Runnable(records[i].data)
  BY <1>2, <1>3, <1>4
<1>6. listed = records /\ editor = ClosedEditor /\ mutation = NoReq /\ confirm = 0
  BY DEF EditorInit
<1>7. /\ editor \in [open : BOOLEAN, fading : BOOLEAN, existing : Ids \cup {0},
                     rec : {NoRecord} \cup Records, draft : Drafts, error : BOOLEAN, session : Nat,
                     own : Ids \cup {0}]
      /\ editor.existing = 0 /\ editor.own = 0
  BY <1>1, <1>6, EditorDraftFacts DEF ClosedEditor
<1>8. EditorTypeOK /\ EditorShapes
  BY <1>1, <1>5, <1>6, <1>7 DEF EditorTypeOK, EditorShapes
<1>9. StoredRunnable /\ SavesOwnRecord /\ DraftsRunnable /\ EditsOwnRecord
  BY <1>5, <1>6, <1>7 DEF StoredRunnable, SavesOwnRecord, DraftsRunnable, EditsOwnRecord
<1> QED
  BY <1>8, <1>9 DEF EditorInv, EditorSound

(* A step of the dialog alone.                                                *)
LEMMA EditorDialogStep ==
  ASSUME RecordEditorAssumption, EditorInv,
         UNCHANGED <<which, records, history, listed, mutation, confirm>>,
         editor' \in [open : BOOLEAN, fading : BOOLEAN, existing : Ids \cup {0},
                      rec : {NoRecord} \cup Records, draft : Drafts, error : BOOLEAN,
                      session : Nat, own : Ids \cup {0}],
         editor'.existing # 0 => /\ editor'.rec # NoRecord
                                 /\ Kind = "exception" => editor'.draft.policy # 0,
         editor'.open \/ (Kind = "policy" /\ Place = "detail") => editor'.existing = editor'.own
  PROVE  EditorInv'
<1>1. EditorTypeOK' /\ EditorShapes'
  BY DEF EditorInv, EditorSound, EditorTypeOK, EditorShapes, Drafts, Records, Kind
<1>2. StoredRunnable' /\ SavesOwnRecord'
  BY DEF EditorInv, EditorSound, StoredRunnable, SavesOwnRecord, Runnable, Kind, Place
<1>3. DraftsRunnable' /\ EditsOwnRecord'
  BY DEF EditorInv, DraftsRunnable, EditsOwnRecord, Runnable, Kind, Place
<1> QED
  BY <1>1, <1>2, <1>3 DEF EditorInv, EditorSound

(* A dialog is opened on a fresh draft or on a record of the list or page.    *)
LEMMA EditorOpenStep ==
  ASSUME RecordEditorAssumption, EditorInv, UNCHANGED which,
         HandleCreate \/ \E i \in Ids : HandleEdit(i)
  PROVE  EditorInv'
<1>1. PICK i \in Ids \cup {0}, r \in {NoRecord} \cup Records :
        /\ OpenOn(i, r) /\ (i # 0 => r # NoRecord /\ Runnable(r.data))
  BY EditorFacts DEF HandleCreate, HandleEdit, CanBeEdited, EditorInv, DraftsRunnable
<1> DEFINE d == IF i = 0 THEN Defaults ELSE FromRecord(r)
<1>2. d \in Drafts
  BY <1>1, EditorFacts, EditorDraftFacts
<1>3. editor' = [editor EXCEPT !.open = TRUE, !.existing = i, !.rec = r, !.error = FALSE,
                               !.session = @ + 1, !.own = i, !.draft = d]
      /\ UNCHANGED <<records, history, listed, mutation, confirm>>
  BY <1>1 DEF OpenOn
<1>4. i # 0 /\ Kind = "exception" => d.policy # 0
  BY <1>1, EditorFacts, EditorDraftFacts DEF Runnable
<1> HIDE DEF d
<1>5. editor' \in [open : BOOLEAN, fading : BOOLEAN, existing : Ids \cup {0},
                   rec : {NoRecord} \cup Records, draft : Drafts, error : BOOLEAN,
                   session : Nat, own : Ids \cup {0}]
      /\ editor'.existing = i /\ editor'.own = i /\ editor'.rec = r /\ editor'.draft = d
  <2>1. editor.session + 1 \in Nat
    BY EditorFacts
  <2> QED
    BY <1>2, <1>3, <2>1, EditorFacts
<1> QED
  BY <1>1, <1>3, <1>4, <1>5, EditorDialogStep

(* What is typed or picked in the dialog goes into the draft.                 *)
LEMMA EditorFieldStep ==
  ASSUME RecordEditorAssumption, EditorInv, UNCHANGED which,
         NEW f \in DOMAIN editor.draft, NEW v \in {d[f] : d \in Drafts}, SetField(f, v)
  PROVE  EditorInv'
<1> DEFINE d == [editor.draft EXCEPT ![f] = v]
<1>1. editor.draft \in Drafts
  BY EditorFacts
<1>2. PICK e \in Drafts : v = e[f]
  OBVIOUS
<1>3. d \in Drafts /\ (Kind = "exception" => d.policy = editor.draft.policy \/ f = "policy")
  <2>1. CASE Kind = "policy"
    <3>1. Drafts = PolicyDrafts
      BY <2>1 DEF Drafts
    <3>2. f \in {"name", "windows", "timeout"}
      <4>1. DOMAIN editor.draft = {"name", "windows", "timeout"}
        BY <1>1, <3>1 DEF PolicyDrafts
      <4> QED
        BY <4>1
    <3>3. CASE f = "name"
      BY <1>1, <1>2, <3>1, <3>3 DEF PolicyDrafts
    <3>4. CASE f = "windows"
      BY <1>1, <1>2, <3>1, <3>4 DEF PolicyDrafts
    <3>5. CASE f = "timeout"
      BY <1>1, <1>2, <3>1, <3>5 DEF PolicyDrafts
    <3> QED
      BY <2>1, <3>2, <3>3, <3>4, <3>5
  <2>2. CASE Kind = "exception"
    <3>1. Drafts = ExceptionDrafts
      BY <2>2 DEF Drafts
    <3>2. f \in {"policy", "start", "end"}
      BY <1>1, <3>1 DEF ExceptionDrafts
    <3>3. CASE f = "policy"
      BY <1>1, <1>2, <3>1, <3>3 DEF ExceptionDrafts
    <3>4. CASE f = "start"
      BY <1>1, <1>2, <3>1, <3>4 DEF ExceptionDrafts
    <3>5. CASE f = "end"
      BY <1>1, <1>2, <3>1, <3>5 DEF ExceptionDrafts
    <3> QED
      BY <2>2, <3>2, <3>3, <3>4, <3>5
  <2> QED
    BY <2>1, <2>2, EditorFacts DEF Editors, Kind
<1>4. editor' = [editor EXCEPT !.draft = d] /\ (f = "policy" => editor.existing = 0)
      /\ UNCHANGED <<records, history, listed, mutation, confirm>>
  BY EditorFacts DEF SetField, Offered
<1> HIDE DEF d
<1>5. editor' \in [open : BOOLEAN, fading : BOOLEAN, existing : Ids \cup {0},
                   rec : {NoRecord} \cup Records, draft : Drafts, error : BOOLEAN,
                   session : Nat, own : Ids \cup {0}]
      /\ editor'.existing = editor.existing /\ editor'.own = editor.own /\ editor'.rec = editor.rec
      /\ editor'.open = editor.open /\ editor'.draft = d
  BY <1>3, <1>4, EditorFacts
<1> QED
  BY <1>3, <1>4, <1>5, EditorDialogStep DEF EditorInv, DraftsRunnable, EditsOwnRecord

(* Closing, with or without an answer of the save.                            *)
LEMMA EditorShutFacts ==
  ASSUME RecordEditorAssumption, EditorInv,
         NEW e, e \in {editor, Shut(editor), [editor EXCEPT !.fading = FALSE],
                       [editor EXCEPT !.error = TRUE], [editor EXCEPT !.error = FALSE]}
  PROVE  /\ e \in [open : BOOLEAN, fading : BOOLEAN, existing : Ids \cup {0},
                   rec : {NoRecord} \cup Records, draft : Drafts, error : BOOLEAN,
                   session : Nat, own : Ids \cup {0}]
         /\ e.existing # 0 => /\ e.rec # NoRecord
                              /\ Kind = "exception" => e.draft.policy # 0
         /\ e.open \/ (Kind = "policy" /\ Place = "detail") => e.existing = e.own
<1>1. /\ editor.existing # 0 => /\ editor.rec # NoRecord
                                /\ Kind = "exception" => editor.draft.policy # 0
      /\ editor.open \/ (Kind = "policy" /\ Place = "detail") => editor.existing = editor.own
  BY DEF EditorInv, DraftsRunnable, EditsOwnRecord
<1>2. CASE e = Shut(editor)
  <2> DEFINE x == IF Place = "detail" /\ Kind = "policy" THEN editor.existing ELSE 0
             b == editor.open \/ editor.fading
  <2>1. e = [editor EXCEPT !.open = FALSE, !.fading = b, !.existing = x]
    BY <1>2, EditorFacts DEF Shut
  <2>2. x \in Ids \cup {0} /\ b \in BOOLEAN
    BY EditorFacts
  <2> HIDE DEF x, b
  <2>3. e \in [open : BOOLEAN, fading : BOOLEAN, existing : Ids \cup {0},
               rec : {NoRecord} \cup Records, draft : Drafts, error : BOOLEAN,
               session : Nat, own : Ids \cup {0}]
        /\ e.existing = x /\ e.own = editor.own /\ e.rec = editor.rec /\ e.draft = editor.draft
        /\ e.open = FALSE
    BY <2>1, <2>2, EditorFacts
  <2> QED
    BY <1>1, <2>3 DEF x
<1>3. CASE e # Shut(editor)
  BY <1>1, <1>3, EditorFacts
<1> QED
  BY <1>2, <1>3

(* The dialog is closed, by its buttons or while it fades.                    *)
LEMMA EditorCloseStep ==
  ASSUME RecordEditorAssumption, EditorInv, UNCHANGED which, CloseEditor \/ EditorFaded \/ TzRefresh
  PROVE  EditorInv'
<1>1. CASE CloseEditor \/ EditorFaded
  <2>1. /\ editor' \in {editor, Shut(editor), [editor EXCEPT !.fading = FALSE],
                       [editor EXCEPT !.error = TRUE], [editor EXCEPT !.error = FALSE]}
        /\ UNCHANGED <<records, history, listed, mutation, confirm>>
    BY <1>1 DEF CloseEditor, EditorFaded
  <2> QED
    BY <2>1, EditorShutFacts, EditorDialogStep
<1>2. CASE TzRefresh
  <2> DEFINE d == IF editor.existing = 0 THEN Defaults ELSE FromRecord(editor.rec)
  <2>1. d \in Drafts
    BY EditorFacts, EditorDraftFacts DEF EditorInv, DraftsRunnable
  <2>2. /\ editor' = [editor EXCEPT !.error = FALSE, !.draft = d] /\ Kind = "policy"
        /\ UNCHANGED <<records, history, listed, mutation, confirm>>
    BY <1>2 DEF TzRefresh
  <2> HIDE DEF d
  <2>3. editor' \in [open : BOOLEAN, fading : BOOLEAN, existing : Ids \cup {0},
                     rec : {NoRecord} \cup Records, draft : Drafts, error : BOOLEAN,
                     session : Nat, own : Ids \cup {0}]
        /\ editor'.existing = editor.existing /\ editor'.own = editor.own
        /\ editor'.rec = editor.rec
        /\ editor'.open = editor.open
    BY <2>1, <2>2, EditorFacts
  <2> QED
    BY <2>2, <2>3, EditorDialogStep DEF EditorInv, DraftsRunnable, EditsOwnRecord
<1> QED
  BY <1>1, <1>2

(* The request is sent for a validated draft and for the record of the        *)
(* dialog, and closes it when it has succeeded.                               *)
LEMMA EditorSaveStep ==
  ASSUME RecordEditorAssumption, EditorInv, UNCHANGED which, HandleSave
  PROVE  EditorInv'
<1>1. /\ editor' \in {[editor EXCEPT !.error = FALSE], [editor EXCEPT !.error = TRUE]}
      /\ UNCHANGED <<records, history, listed, confirm>>
  BY DEF HandleSave
<1>2. CASE UNCHANGED mutation
  BY <1>1, <1>2, EditorShutFacts, EditorDialogStep DEF HandleSave
<1>3. CASE ~(UNCHANGED mutation)
  <2> DEFINE m == [id |-> editor.existing, payload |-> Payload(editor.draft), own |-> editor.own,
                   open |-> editor.open, ans |-> "none"]
  <2>1. mutation' = m /\ Validate(editor.draft, editor.existing # 0)
    BY <1>3 DEF HandleSave
  <2>2. editor.draft \in Drafts /\ Payload(editor.draft) \in Drafts
    BY EditorFacts, EditorDraftFacts
  <2>3. Runnable(Payload(editor.draft))
    <3>1. Kind = "exception" /\ editor.existing # 0 => editor.draft.policy # 0
      BY DEF EditorInv, DraftsRunnable
    <3>2. (editor.existing # 0) \in BOOLEAN
      OBVIOUS
    <3> QED
      BY <2>1, <2>2, <3>1, <3>2, EditorFacts, EditorDraftFacts
  <2>4. mutation' \in [id : Ids \cup {0}, payload : Drafts, own : Ids \cup {0}, open : BOOLEAN,
                       ans : {"none", "ok", "err"}]
        /\ mutation'.payload = Payload(editor.draft) /\ mutation'.id = editor.existing
        /\ mutation'.own = editor.own /\ mutation'.open = editor.open
    BY <2>1, <2>2, EditorFacts
  <2>5. mutation'.open \/ (Kind = "policy" /\ Place = "detail") => mutation'.id = mutation'.own
    BY <2>4 DEF EditorInv, EditsOwnRecord
  <2> HIDE DEF m
  <2>6. /\ editor' \in [open : BOOLEAN, fading : BOOLEAN, existing : Ids \cup {0},
                        rec : {NoRecord} \cup Records, draft : Drafts, error : BOOLEAN,
                        session : Nat, own : Ids \cup {0}]
        /\ editor'.existing # 0 => /\ editor'.rec # NoRecord
                                   /\ Kind = "exception" => editor'.draft.policy # 0
        /\ editor'.open \/ (Kind = "policy" /\ Place = "detail") => editor'.existing = editor'.own
    BY <1>1, EditorShutFacts
  <2>7. UNCHANGED <<records, history, listed, confirm>>
    BY DEF HandleSave
  <2>8. EditorTypeOK' /\ EditorShapes'
    BY <2>4, <2>6, <2>7 DEF EditorInv, EditorSound, EditorTypeOK, EditorShapes, Drafts, Records,
       Kind
  <2>9. StoredRunnable' /\ SavesOwnRecord' /\ DraftsRunnable' /\ EditsOwnRecord'
    BY <2>3, <2>4, <2>5, <2>6, <2>7
       DEF EditorInv, EditorSound, StoredRunnable, SavesOwnRecord, DraftsRunnable, EditsOwnRecord,
           Runnable, Kind, Place
  <2> QED
    BY <2>8, <2>9 DEF EditorInv, EditorSound
<1> QED
  BY <1>2, <1>3

(* A step of the backend, or one that reads from it or answers the request:   *)
(* what is stored and listed stays runnable.                                  *)
LEMMA EditorRecordsStep ==
  ASSUME RecordEditorAssumption, EditorInv, UNCHANGED <<which, editor>>,
         history' \subseteq Ids, confirm' \in Ids \cup {0},
         records' \in [Ids -> {NoRecord} \cup Records], listed' \in [Ids -> {NoRecord} \cup Records],
         \A i \in Ids : records'[i] # NoRecord => Runnable(records'[i].data),
         \A i \in Ids : listed'[i] # NoRecord => Runnable(listed'[i].data),
         \/ mutation' \in {mutation, NoReq}
         \/ mutation # NoReq /\ \E a \in {"ok", "err"} : mutation' = [mutation EXCEPT !.ans = a]
  PROVE  EditorInv'
<1>1. /\ mutation' \in {NoReq} \cup [id : Ids \cup {0}, payload : Drafts, own : Ids \cup {0},
                                     open : BOOLEAN, ans : {"none", "ok", "err"}]
      /\ mutation' # NoReq => /\ mutation # NoReq /\ mutation'.id = mutation.id /\ mutation'.own = mutation.own
                              /\ mutation'.open = mutation.open
                              /\ mutation'.payload = mutation.payload
  <2>1. CASE mutation' \in {mutation, NoReq}
    BY <2>1, EditorFacts
  <2>2. CASE mutation # NoReq /\ \E a \in {"ok", "err"} : mutation' = [mutation EXCEPT !.ans = a]
    BY <2>2, EditorFacts
  <2> QED
    BY <2>1, <2>2
<1>2. mutation' # NoReq => mutation'.id \in Ids \cup {0} /\ mutation'.payload \in Drafts
  BY <1>1
<1>3. EditorTypeOK' /\ EditorShapes'
  BY <1>1, <1>2 DEF EditorInv, EditorSound, EditorTypeOK, EditorShapes, Drafts, Records, Kind
<1>4. StoredRunnable' /\ SavesOwnRecord' /\ DraftsRunnable' /\ EditsOwnRecord'
  BY <1>1 DEF EditorInv, EditorSound, StoredRunnable, SavesOwnRecord, DraftsRunnable,
     EditsOwnRecord,
              Runnable, Kind, Place
<1> QED
  BY <1>3, <1>4 DEF EditorInv, EditorSound

(* The answer of a save closes the dialog of its opening, or shows the error. *)
LEMMA EditorAnsweredStep ==
  ASSUME RecordEditorAssumption, EditorInv, UNCHANGED which, SaveAnswered
  PROVE  EditorInv'
<1> DEFINE e == IF mutation.ans = "err" THEN [editor EXCEPT !.error = TRUE]
                ELSE IF editor.open THEN Shut(editor) ELSE editor
<1>1. editor' = e /\ mutation' = NoReq /\ UNCHANGED <<records, history, listed, confirm>>
  BY DEF SaveAnswered
<1>2. e \in {editor, Shut(editor), [editor EXCEPT !.fading = FALSE],
             [editor EXCEPT !.error = TRUE], [editor EXCEPT !.error = FALSE]}
  OBVIOUS
<1> HIDE DEF e
<1>3. /\ editor' \in [open : BOOLEAN, fading : BOOLEAN, existing : Ids \cup {0},
                      rec : {NoRecord} \cup Records, draft : Drafts, error : BOOLEAN,
                      session : Nat, own : Ids \cup {0}]
      /\ editor'.existing # 0 => /\ editor'.rec # NoRecord
                                 /\ Kind = "exception" => editor'.draft.policy # 0
      /\ editor'.open \/ (Kind = "policy" /\ Place = "detail") => editor'.existing = editor'.own
  BY <1>1, <1>2, EditorShutFacts
<1>4. EditorTypeOK' /\ EditorShapes'
  BY <1>1, <1>3 DEF EditorInv, EditorSound, EditorTypeOK, EditorShapes, Drafts, Records, Kind
<1>5. StoredRunnable' /\ SavesOwnRecord' /\ DraftsRunnable' /\ EditsOwnRecord'
  BY <1>1, <1>3 DEF EditorInv, EditorSound, StoredRunnable, SavesOwnRecord, DraftsRunnable,
     EditsOwnRecord,
                    Runnable, Kind, Place
<1> QED
  BY <1>4, <1>5 DEF EditorInv, EditorSound

(* Everything else that touches the records.                                  *)
LEMMA EditorBackendStep ==
  ASSUME RecordEditorAssumption, EditorInv, UNCHANGED which,
         \/ ServeSave \/ PollRecords \/ CancelDelete \/ Delete
         \/ \E i \in Ids : OtherOperator(i) \/ AskDeletePolicy(i)
  PROVE  EditorInv'
<1>1. /\ \A i \in Ids : records[i] # NoRecord => records[i] \in Records /\ Runnable(records[i].data)
      /\ \A i \in Ids : listed[i] # NoRecord => Runnable(listed[i].data)
      /\ mutation # NoReq => mutation.payload \in Drafts /\ Runnable(mutation.payload)
  BY EditorFacts DEF EditorInv, EditorSound, StoredRunnable, DraftsRunnable
<1>2. CASE ServeSave
  <2>1. mutation # NoReq /\ UNCHANGED <<history, listed, editor, confirm>>
    BY <1>2 DEF ServeSave, NoReq
  <2>2. \E a \in {"ok", "err"} : mutation' = [mutation EXCEPT !.ans = a]
    BY <1>2 DEF ServeSave
  <2>3. \/ records' = records
        \/ \E i \in Ids : records' = [records EXCEPT ![i] = Stored(mutation.payload)]
    BY <1>2 DEF ServeSave
  <2>4. Stored(mutation.payload) \in Records /\ Stored(mutation.payload).data = mutation.payload
    BY <1>1, <2>1, EditorFacts, EditorDraftFacts
  <2>5. /\ records' \in [Ids -> {NoRecord} \cup Records]
        /\ \A i \in Ids : records'[i] # NoRecord => Runnable(records'[i].data)
    BY <1>1, <2>1, <2>3, <2>4, EditorFacts
  <2> QED
    BY <1>1, <2>1, <2>2, <2>5, EditorFacts, EditorRecordsStep
<1>3. CASE PollRecords \/ CancelDelete \/ \E i \in Ids : AskDeletePolicy(i)
  <2>1. /\ records' = records /\ listed' \in {records, listed} /\ confirm' \in Ids \cup {0}
        /\ UNCHANGED <<history, editor, mutation>>
    BY <1>3, EditorFacts DEF PollRecords, CancelDelete, AskDeletePolicy
  <2> QED
    BY <1>1, <2>1, EditorFacts, EditorRecordsStep
<1>4. CASE Delete
  <2>1. /\ records' = records \/ records' = [records EXCEPT ![confirm] = NoRecord]
        /\ history' \subseteq Ids /\ confirm' = 0 /\ UNCHANGED <<listed, editor, mutation>>
    BY <1>4, EditorFacts DEF Delete
  <2> QED
    BY <1>1, <2>1, EditorFacts, EditorRecordsStep
<1>5. CASE \E i \in Ids : OtherOperator(i)
  <2> PICK i \in Ids : OtherOperator(i)
    BY <1>5
  <2>1. records[i] \in Records /\ Runnable(records[i].data) /\ UNCHANGED <<listed, editor, mutation, confirm>>
        /\ history' \subseteq Ids
    BY <1>1, EditorFacts DEF OtherOperator
  <2>2. PICK r : records' = [records EXCEPT ![i] = r] /\ r \in {NoRecord} \cup Records
                 /\ (r # NoRecord => Runnable(r.data))
    <3>1. CASE records' = [records EXCEPT ![i] = NoRecord]
      BY <3>1
    <3>2. CASE Kind = "policy" /\ records' = [records EXCEPT ![i].data.name = "b"]
      <4> DEFINE d == [records[i].data EXCEPT !.name = "b"]
                 r == [records[i] EXCEPT !.data = d]
      <4>1. records[i].data \in PolicyDrafts /\ Drafts = PolicyDrafts
        BY <2>1, <3>2 DEF Records, Drafts
      <4>2. d \in PolicyDrafts /\ d.windows = records[i].data.windows /\ d.name # NoTitle
        BY <4>1 DEF PolicyDrafts, NoTitle
      <4>3. Runnable(d)
        BY <2>1, <3>2, <4>2 DEF Runnable
      <4>4. records' = [records EXCEPT ![i] = r]
        BY <3>2
      <4>5. r \in Records /\ r.data = d
        BY <2>1, <4>1, <4>2 DEF Records
      <4> QED
        BY <4>3, <4>4, <4>5
    <3>3. CASE records' = [records EXCEPT ![i].pending = FALSE]
      <4> DEFINE r == [records[i] EXCEPT !.pending = FALSE]
      <4>1. records' = [records EXCEPT ![i] = r] /\ r \in Records /\ r.data = records[i].data
        BY <2>1, <3>3 DEF Records
      <4> QED
        BY <2>1, <4>1
    <3> QED
      BY <3>1, <3>2, <3>3 DEF OtherOperator
  <2>3. records' \in [Ids -> {NoRecord} \cup Records]
    BY <2>2, EditorFacts
  <2>4. \A k \in Ids : records'[k] # NoRecord => Runnable(records'[k].data)
    BY <1>1, <2>2, EditorFacts
  <2> QED
    BY <1>1, <2>1, <2>3, <2>4, EditorFacts, EditorRecordsStep
<1> QED
  BY <1>2, <1>3, <1>4, <1>5

(* For all records, openings, edits and other operators: what is stored can   *)
(* be scheduled, whoever wrote it, and a save goes to the record its dialog   *)
(* was opened on, whatever is polled, answered or closed in between.          *)
THEOREM EditorsSound ==
  ASSUME RecordEditorAssumption
  PROVE  EditorSpec => []EditorSound
<1>1. EditorInit => EditorInv
  BY EditorInitInv
<1>2. EditorInv /\ [EditorNext]_editorVars => EditorInv'
  <2> SUFFICES ASSUME EditorInv, [EditorNext]_editorVars PROVE EditorInv'
    OBVIOUS
  <2>1. UNCHANGED which
    BY DEF EditorNext, editorVars
  <2>2. CASE HandleCreate \/ \E i \in Ids : HandleEdit(i)
    BY <2>1, <2>2, EditorOpenStep
  <2>3. CASE \E f \in DOMAIN editor.draft : \E v \in {d[f] : d \in Drafts} : SetField(f, v)
    BY <2>1, <2>3, EditorFieldStep
  <2>4. CASE HandleSave
    BY <2>1, <2>4, EditorSaveStep
  <2>5. CASE SaveAnswered
    BY <2>1, <2>5, EditorAnsweredStep
  <2>6. CASE CloseEditor \/ EditorFaded \/ TzRefresh
    BY <2>1, <2>6, EditorCloseStep
  <2>7. CASE \/ ServeSave \/ PollRecords \/ CancelDelete \/ Delete
             \/ \E i \in Ids : OtherOperator(i) \/ AskDeletePolicy(i)
    BY <2>1, <2>7, EditorBackendStep
  <2>8. CASE UNCHANGED editorVars
    <3>1. UNCHANGED <<which, records, history, listed, editor, mutation, confirm>>
      BY <2>8 DEF editorVars
    <3> QED
      BY <3>1 DEF EditorInv, EditorSound, EditorTypeOK, EditorShapes, StoredRunnable,
         SavesOwnRecord,
                  DraftsRunnable, EditsOwnRecord, Runnable, Drafts, Records, Kind, Place
  <2> QED
    BY <2>2, <2>3, <2>4, <2>5, <2>6, <2>7, <2>8 DEF EditorNext
<1>3. EditorInv => EditorSound
  BY DEF EditorInv
<1> QED
  BY <1>1, <1>2, <1>3, PTL DEF EditorSpec

----------------------------------------------------------------------------
(* Import and export.                                                         *)

(* What the parts of the dialog and its requests are.                         *)
LEMMA ImportFacts ==
  ASSUME ImportInv
  PROVE  /\ db \in [Names -> {Absent} \cup [body : Bodies, enabled : BOOLEAN, by : {"user", "import"}]]
         /\ dlg \in [open : BOOLEAN, session : Nat, text : Payloads \cup {NoText, Garbage},
                     preview : Previews, payload : Payloads \cup {NoText},
                     resolution : {"overwrite", "rename"}, newName : Names \cup {NoName},
                     busy : BOOLEAN, error : BOOLEAN]
         /\ reading \subseteq Payloads \cup {Garbage} /\ calls \subseteq Calls /\ sent \in Nat
         /\ \A q \in calls : q.op = "export" \/ q.payload \in Payloads
         /\ menu \in Names \cup {NoName}
  BY DEF ImportInv, ImportSound, ImportTypeOK, ImportShapes

(* A step of the dialog: it keeps the preview and its payload together, and   *)
(* the requests it leaves or sends are well formed.                           *)
LEMMA ImportDialogStep ==
  ASSUME ImportInv, UNCHANGED <<db, log, menu, files>>,
         dlg' \in [open : BOOLEAN, session : Nat, text : Payloads \cup {NoText, Garbage},
                   preview : Previews, payload : Payloads \cup {NoText},
                   resolution : {"overwrite", "rename"}, newName : Names \cup {NoName},
                   busy : BOOLEAN, error : BOOLEAN],
         dlg'.preview # NoPreview => dlg'.preview.of = dlg'.payload,
         reading' \subseteq Payloads \cup {Garbage}, sent' \in Nat,
         \A q \in calls' : q \in calls
           \/ /\ q \in Calls /\ q.ans = "none"
              /\ q.op \in {"preview", "apply"} /\ q.payload \in Payloads
              /\ (q.op = "apply" => q.shown # NoPreview /\ q.shown.of = q.payload)
              /\ (q.op = "apply" /\ q.resolution = "rename" => q.newName # NoName)
  PROVE  ImportInv'
<1>1. ImportTypeOK'
  <2>1. dlg'.text \in Payloads \cup {NoText, Garbage} /\ dlg'.payload \in Payloads \cup {NoText}
    OBVIOUS
  <2> QED
    BY <2>1 DEF ImportInv, ImportSound, ImportTypeOK
<1>2. ImportShapes'
  BY DEF ImportInv, ImportShapes
<1>3. AppliedWasShown' /\ ImportedDisabled' /\ FileNamesRecord'
  BY DEF ImportInv, ImportSound, AppliedWasShown, ImportedDisabled, FileNamesRecord
<1>4. PreviewedCalls'
  <2>1. ASSUME NEW q \in calls'
        PROVE  /\ q.op = "preview" => q.ans # "done"
               /\ q.op = "apply" => q.shown # NoPreview /\ q.shown.of = q.payload
               /\ q.op = "apply" /\ q.resolution = "rename" => q.newName # NoName
    BY DEF ImportInv, PreviewedCalls
  <2> QED
    BY <2>1 DEF PreviewedCalls
<1> QED
  BY <1>1, <1>2, <1>3, <1>4 DEF ImportInv, ImportSound

(* A dialog that was reset shows no preview.                                  *)
LEMMA ImportFreshFacts ==
  ASSUME NEW n \in Nat
  PROVE  /\ Fresh(n) \in [open : BOOLEAN, session : Nat, text : Payloads \cup {NoText, Garbage},
                          preview : Previews, payload : Payloads \cup {NoText},
                          resolution : {"overwrite", "rename"}, newName : Names \cup {NoName},
                          busy : BOOLEAN, error : BOOLEAN]
         /\ Fresh(n).preview = NoPreview
  BY DEF Fresh, Previews

(* Before the dialog is opened nothing was imported.                          *)
LEMMA ImportInitInv ==
  ASSUME ImportExportAssumption, ImportInit
  PROVE  ImportInv
<1>1. dlg = Fresh(0) /\ reading = {} /\ calls = {} /\ log = {} /\ menu = NoName /\ files = {} /\ sent = 0
  BY DEF ImportInit
<1>2. /\ dlg \in [open : BOOLEAN, session : Nat, text : Payloads \cup {NoText, Garbage},
                  preview : Previews, payload : Payloads \cup {NoText},
                  resolution : {"overwrite", "rename"}, newName : Names \cup {NoName},
                  busy : BOOLEAN, error : BOOLEAN]
      /\ dlg.preview = NoPreview
  BY <1>1, ImportFreshFacts
<1>3. /\ db \in [Names -> {Absent} \cup [body : Bodies, enabled : BOOLEAN, by : {"user", "import"}]]
      /\ \A n \in Names : db[n] # Absent => db[n].by = "user"
  BY DEF ImportInit
<1>4. ImportTypeOK
  BY <1>1, <1>2, <1>3 DEF ImportTypeOK
<1>5. ImportShapes /\ PreviewedCalls
  BY <1>1, <1>2 DEF ImportShapes, PreviewedCalls
<1>6. AppliedWasShown /\ ImportedDisabled /\ FileNamesRecord
  BY <1>1, <1>3 DEF AppliedWasShown, ImportedDisabled, FileNamesRecord
<1> QED
  BY <1>4, <1>5, <1>6 DEF ImportInv, ImportSound

(* What the user does in the dialog without sending anything.                 *)
LEMMA ImportTypingStep ==
  ASSUME ImportInv,
         \/ Open \/ Dismiss \/ Back
         \/ \E t \in Payloads \cup {Garbage} : Paste(t) \/ DropFile(t)
         \/ \E t \in reading : FileRead(t)
         \/ \E r \in {"overwrite", "rename"}, n \in Names \cup {NoName} : SetResolution(r, n)
  PROVE  ImportInv'
<1>0. dlg.preview # NoPreview => dlg.preview.of = dlg.payload
  BY DEF ImportInv, PreviewedCalls
<1>1. CASE Dismiss
  <2>1. dlg' = Fresh(dlg.session) /\ dlg.session \in Nat
        /\ UNCHANGED <<db, reading, calls, log, menu, files, sent>>
    BY <1>1, ImportFacts DEF Dismiss
  <2> QED
    BY <2>1, ImportFacts, ImportFreshFacts, ImportDialogStep
<1>2. CASE Open \/ Back
  <2>1. /\ dlg' \in {[dlg EXCEPT !.open = TRUE, !.session = @ + 1],
                     [dlg EXCEPT !.preview = NoPreview, !.payload = NoText]}
        /\ UNCHANGED <<db, reading, calls, log, menu, files, sent>>
    BY <1>2 DEF Open, Back
  <2>2. dlg.session + 1 \in Nat /\ NoPreview \in Previews
    BY ImportFacts DEF Previews
  <2>3. /\ dlg' \in [open : BOOLEAN, session : Nat, text : Payloads \cup {NoText, Garbage},
                     preview : Previews, payload : Payloads \cup {NoText},
                     resolution : {"overwrite", "rename"}, newName : Names \cup {NoName},
                     busy : BOOLEAN, error : BOOLEAN]
        /\ dlg'.preview # NoPreview => dlg'.preview.of = dlg'.payload
    BY <1>0, <2>1, <2>2, ImportFacts
  <2> QED
    BY <2>1, <2>3, ImportFacts, ImportDialogStep
<1>3. CASE \/ \E t \in Payloads \cup {Garbage} : Paste(t) \/ DropFile(t)
           \/ \E t \in reading : FileRead(t)
  <2>1. PICK t \in Payloads \cup {Garbage} :
          /\ dlg' \in {dlg, [dlg EXCEPT !.text = t]} /\ reading' \subseteq reading \cup {t}
          /\ UNCHANGED <<db, calls, log, menu, files, sent>>
    BY <1>3, ImportFacts DEF Paste, DropFile, FileRead
  <2>2. /\ dlg' \in [open : BOOLEAN, session : Nat, text : Payloads \cup {NoText, Garbage},
                     preview : Previews, payload : Payloads \cup {NoText},
                     resolution : {"overwrite", "rename"}, newName : Names \cup {NoName},
                     busy : BOOLEAN, error : BOOLEAN]
        /\ dlg'.preview # NoPreview => dlg'.preview.of = dlg'.payload
    BY <1>0, <2>1, ImportFacts
  <2>3. reading' \subseteq Payloads \cup {Garbage}
    BY <2>1, ImportFacts
  <2> QED
    BY <2>1, <2>2, <2>3, ImportFacts, ImportDialogStep
<1>4. CASE \E r \in {"overwrite", "rename"}, n \in Names \cup {NoName} : SetResolution(r, n)
  <2>1. PICK r \in {"overwrite", "rename"}, n \in Names \cup {NoName} :
          /\ dlg' = [dlg EXCEPT !.resolution = r, !.newName = n]
          /\ UNCHANGED <<db, reading, calls, log, menu, files, sent>>
    BY <1>4 DEF SetResolution
  <2>2. /\ dlg' \in [open : BOOLEAN, session : Nat, text : Payloads \cup {NoText, Garbage},
                     preview : Previews, payload : Payloads \cup {NoText},
                     resolution : {"overwrite", "rename"}, newName : Names \cup {NoName},
                     busy : BOOLEAN, error : BOOLEAN]
        /\ dlg'.preview # NoPreview => dlg'.preview.of = dlg'.payload
    BY <1>0, <2>1, ImportFacts
  <2> QED
    BY <2>1, <2>2, ImportFacts, ImportDialogStep
<1> QED
  BY <1>1, <1>2, <1>3, <1>4

(* A preview is asked for what was pasted, an apply for what was previewed.   *)
LEMMA ImportAskStep ==
  ASSUME ImportInv, RunPreview \/ RunApply
  PROVE  ImportInv'
<1>0. dlg.preview # NoPreview => dlg.preview.of = dlg.payload
  BY DEF ImportInv, PreviewedCalls
<1>1. CASE calls' = calls /\ sent' = sent
  <2>1. /\ dlg' \in {[dlg EXCEPT !.error = TRUE], [dlg EXCEPT !.busy = TRUE, !.error = FALSE]}
        /\ UNCHANGED <<db, reading, log, menu, files>>
    BY DEF RunPreview, RunApply
  <2>2. /\ dlg' \in [open : BOOLEAN, session : Nat, text : Payloads \cup {NoText, Garbage},
                     preview : Previews, payload : Payloads \cup {NoText},
                     resolution : {"overwrite", "rename"}, newName : Names \cup {NoName},
                     busy : BOOLEAN, error : BOOLEAN]
        /\ dlg'.preview # NoPreview => dlg'.preview.of = dlg'.payload
    BY <1>0, <2>1, ImportFacts
  <2> QED
    BY <1>1, <2>1, <2>2, ImportFacts, ImportDialogStep
<1>2. CASE ~(calls' = calls /\ sent' = sent)
  <2>1. PICK op \in {"preview", "apply"}, p \in Payloads :
          /\ Request(op, p) /\ dlg' = [dlg EXCEPT !.busy = TRUE, !.error = FALSE]
          /\ op = "apply" => /\ dlg.preview # NoPreview /\ dlg.preview.of = p
                             /\ dlg.resolution = "rename" => dlg.newName # NoName
          /\ UNCHANGED <<db, reading, log, menu, files>>
    <3>1. CASE RunPreview
      <4>1. dlg.text \in Payloads /\ Request("preview", dlg.text)
            /\ dlg' = [dlg EXCEPT !.busy = TRUE, !.error = FALSE]
            /\ UNCHANGED <<db, reading, log, menu, files>>
        BY <1>2, <3>1, ImportFacts DEF RunPreview
      <4> QED
        BY <4>1
    <3>2. CASE RunApply
      <4>1. /\ Request("apply", dlg.payload) /\ dlg' = [dlg EXCEPT !.busy = TRUE, !.error = FALSE]
            /\ UNCHANGED <<db, reading, log, menu, files>>
            /\ dlg.preview # NoPreview /\ (dlg.resolution = "rename" => dlg.newName # NoName)
        BY <3>2 DEF RunApply, CanApply
      <4>2. dlg.payload \in Payloads
        <5>1. dlg.preview \in [status : {"create", "conflict"}, of : Payloads]
          BY <4>1, ImportFacts DEF Previews
        <5> QED
          BY <1>0, <4>1, <5>1
      <4> QED
        BY <1>0, <4>1, <4>2
    <3> QED
      BY <3>1, <3>2
  <2> DEFINE r0 == [n |-> sent', op |-> op, payload |-> p, resolution |-> dlg.resolution,
                    newName |-> dlg.newName, shown |-> dlg.preview, ans |-> "none"]
  <2>2. calls' = calls \cup {r0} /\ sent' = sent + 1 /\ sent' \in Nat
    BY <2>1, ImportFacts DEF Request
  <2>3. /\ r0 \in Calls /\ r0.ans = "none" /\ r0.op = op /\ r0.payload = p /\ r0.shown = dlg.preview
        /\ r0.resolution = dlg.resolution /\ r0.newName = dlg.newName
    BY <2>2, ImportFacts DEF Calls
  <2> HIDE DEF r0
  <2>4. /\ dlg' \in [open : BOOLEAN, session : Nat, text : Payloads \cup {NoText, Garbage},
                     preview : Previews, payload : Payloads \cup {NoText},
                     resolution : {"overwrite", "rename"}, newName : Names \cup {NoName},
                     busy : BOOLEAN, error : BOOLEAN]
        /\ dlg'.preview # NoPreview => dlg'.preview.of = dlg'.payload
    BY <1>0, <2>1, ImportFacts
  <2>5. \A q \in calls' : q \in calls
           \/ /\ q \in Calls /\ q.ans = "none"
              /\ q.op \in {"preview", "apply"} /\ q.payload \in Payloads
              /\ (q.op = "apply" => q.shown # NoPreview /\ q.shown.of = q.payload)
              /\ (q.op = "apply" /\ q.resolution = "rename" => q.newName # NoName)
    BY <2>1, <2>2, <2>3
  <2> QED
    BY <2>1, <2>2, <2>4, <2>5, ImportFacts, ImportDialogStep
<1> QED
  BY <1>1, <1>2

(* An answer fills, resets or leaves the dialog.                              *)
LEMMA ImportAnswersStep ==
  ASSUME ImportInv, NEW q \in calls, AnswerPreview(q) \/ AnswerApply(q)
  PROVE  ImportInv'
<1>0. /\ dlg.preview # NoPreview => dlg.preview.of = dlg.payload
      /\ q.op = "preview" => q.ans # "done"
      /\ q \in Calls /\ (q.op # "export" => q.payload \in Payloads) /\ dlg.session \in Nat
  BY ImportFacts DEF ImportInv, PreviewedCalls
<1>1. calls' = calls \ {q} /\ UNCHANGED <<db, reading, log, menu, files, sent>>
  BY DEF AnswerPreview, AnswerApply
<1>2. /\ dlg' \in [open : BOOLEAN, session : Nat, text : Payloads \cup {NoText, Garbage},
                   preview : Previews, payload : Payloads \cup {NoText},
                   resolution : {"overwrite", "rename"}, newName : Names \cup {NoName},
                   busy : BOOLEAN, error : BOOLEAN]
      /\ dlg'.preview # NoPreview => dlg'.preview.of = dlg'.payload
  <2>1. CASE dlg' = [dlg EXCEPT !.busy = FALSE, !.error = TRUE] \/ dlg' = Fresh(dlg.session)
    BY <1>0, <2>1, ImportFacts, ImportFreshFacts
  <2>3. CASE AnswerApply(q)
    <3>1. CASE q.ans = "done" /\ dlg.open
      BY <2>1, <2>3, <3>1 DEF AnswerApply
    <3>2. CASE ~(q.ans = "done" /\ dlg.open)
      <4>1. PICK e \in BOOLEAN : dlg' = [dlg EXCEPT !.busy = FALSE, !.error = e]
        <5>1. dlg.error \in BOOLEAN /\ ((q.ans # "done") \/ dlg.error) \in BOOLEAN
          BY ImportFacts
        <5>2. dlg' = [dlg EXCEPT !.busy = FALSE, !.error = (q.ans # "done") \/ dlg.error]
          BY <2>3, <3>2 DEF AnswerApply
        <5> QED
          BY <5>1, <5>2
      <4> QED
        BY <1>0, <4>1, ImportFacts
    <3> QED
      BY <3>1, <3>2
  <2>2. CASE AnswerPreview(q) /\ q.ans # "err"
    <3> DEFINE p == [status |-> q.ans, of |-> q.payload]
    <3>1. dlg' = [dlg EXCEPT !.busy = FALSE, !.preview = p, !.payload = q.payload,
                             !.resolution = "overwrite", !.newName = NoName]
      BY <2>2 DEF AnswerPreview
    <3>2. p \in Previews /\ p.of = q.payload /\ q.payload \in Payloads
      <4>1. q.ans \in {"create", "conflict"} /\ q.payload \in Payloads
        BY <1>0, <2>2 DEF AnswerPreview, Calls
      <4> QED
        BY <4>1 DEF Previews
    <3> HIDE DEF p
    <3> QED
      BY <3>1, <3>2, ImportFacts
  <2> QED
    BY <2>1, <2>2, <2>3 DEF AnswerPreview
<1> QED
  BY <1>1, <1>2, ImportFacts, ImportDialogStep

(* The server's answer to a preview or an export: nothing is written.         *)
LEMMA ImportPreviewServed ==
  ASSUME ImportInv, NEW q \in calls, ServePreview(q)
  PROVE  ImportInv'
<1>1. PICK a \in {"create", "conflict", "err"} : calls' = (calls \ {q}) \cup {[q EXCEPT !.ans = a]}
  BY DEF ServePreview
<1> DEFINE t == [q EXCEPT !.ans = a]
<1>2. /\ t \in Calls /\ t.op = "preview" /\ t.ans # "done" /\ t.payload \in Payloads
  <2>1. q \in Calls /\ q.op = "preview" /\ q.payload \in Payloads
    BY ImportFacts DEF ServePreview
  <2> QED
    BY <2>1 DEF Calls
<1>3. UNCHANGED <<db, dlg, reading, log, menu, files, sent>> /\ calls' = (calls \ {q}) \cup {t}
  BY <1>1 DEF ServePreview
<1> HIDE DEF t
<1>4. ImportTypeOK' /\ ImportShapes'
  BY <1>2, <1>3 DEF ImportInv, ImportSound, ImportTypeOK, ImportShapes
<1>5. AppliedWasShown' /\ ImportedDisabled' /\ FileNamesRecord'
  BY <1>3 DEF ImportInv, ImportSound, AppliedWasShown, ImportedDisabled, FileNamesRecord
<1>6. PreviewedCalls'
  BY <1>2, <1>3 DEF ImportInv, PreviewedCalls
<1> QED
  BY <1>4, <1>5, <1>6 DEF ImportInv, ImportSound

(* The server writes what the apply carries, disabled, under the name it has  *)
(* or the new one.                                                            *)
LEMMA ImportApplyServed ==
  ASSUME ImportInv, NEW q \in calls, ServeApply(q)
  PROVE  ImportInv'
<1> DEFINE o == Outcome(q)
           a0 == [payload |-> q.payload, resolution |-> q.resolution, newName |-> q.newName,
                  shown |-> q.shown, did |-> o.did]
<1>1. /\ q \in Calls /\ q.op = "apply" /\ q.payload \in Payloads
      /\ q.shown # NoPreview /\ q.shown.of = q.payload /\ (q.resolution = "rename" => q.newName # NoName)
  BY ImportFacts DEF ServeApply, ImportInv, PreviewedCalls
<1>2. PICK a \in {"done", "err"} : calls' = (calls \ {q}) \cup {[q EXCEPT !.ans = a]}
  BY DEF ServeApply
<1> DEFINE t == [q EXCEPT !.ans = a]
<1>3. /\ t \in Calls /\ t.op = "apply" /\ t.payload \in Payloads /\ t.payload = q.payload
      /\ t.shown = q.shown /\ t.resolution = q.resolution /\ t.newName = q.newName
  BY <1>1 DEF Calls
<1>4. calls' = (calls \ {q}) \cup {t} /\ UNCHANGED <<dlg, reading, menu, files, sent>>
  BY <1>2 DEF ServeApply
<1>5. /\ db' = db /\ log' = log
      \/ \E n \in Names : db' = [db EXCEPT ![n] = Imported(q)] /\ log' = log \cup {a0}
  <2>1. CASE o.did = "refuse"
    BY <2>1 DEF ServeApply
  <2>2. CASE o.did # "refuse"
    <3>1. o.name \in Names
      BY <1>1, <2>2 DEF Outcome, Payloads, Calls
    <3> QED
      BY <2>2, <3>1 DEF ServeApply
  <2> QED
    BY <2>1, <2>2
<1>6. a0.shown # NoPreview /\ a0.shown.of = a0.payload
  BY <1>1
<1> HIDE DEF t, a0
<1>7. /\ db' \in [Names -> {Absent} \cup [body : Bodies, enabled : BOOLEAN, by : {"user", "import"}]]
      /\ \A n \in Names : db'[n] # Absent /\ db'[n].by = "import" => ~db'[n].enabled
  <2>1. Imported(q) \in [body : Bodies, enabled : BOOLEAN, by : {"user", "import"}] /\ ~Imported(q).enabled
    BY <1>1 DEF Imported, Payloads
  <2>2. \A n \in Names : db[n] # Absent /\ db[n].by = "import" => ~db[n].enabled
    BY DEF ImportInv, ImportSound, ImportedDisabled
  <2> HIDE DEF o
  <2>3. CASE db' = db
    BY <2>2, <2>3, ImportFacts
  <2>4. CASE \E n \in Names : db' = [db EXCEPT ![n] = Imported(q)]
    BY <2>1, <2>2, <2>4, ImportFacts
  <2> QED
    BY <1>5, <2>3, <2>4
<1>8. ImportTypeOK' /\ ImportShapes'
  BY <1>3, <1>4, <1>7 DEF ImportInv, ImportSound, ImportTypeOK, ImportShapes
<1>9. AppliedWasShown'
  BY <1>5, <1>6 DEF ImportInv, ImportSound, AppliedWasShown
<1>10. ImportedDisabled' /\ FileNamesRecord'
  BY <1>4, <1>7 DEF ImportInv, ImportSound, ImportedDisabled, FileNamesRecord
<1>11. PreviewedCalls'
  BY <1>1, <1>3, <1>4 DEF ImportInv, PreviewedCalls
<1> QED
  BY <1>8, <1>9, <1>10, <1>11 DEF ImportInv, ImportSound

(* The export menu, and other operators: a download holds the record whose    *)
(* name it got when it was asked for.                                         *)
LEMMA ImportExportStep ==
  ASSUME ImportInv,
         \/ CloseMenu \/ RunDownload \/ UNCHANGED importVars
         \/ \E n \in Names : OpenExportMenu(n) \/ Remote(n)
         \/ \E q \in calls : Downloaded(q)
  PROVE  ImportInv'
<1>1. dlg' = dlg /\ reading' = reading /\ log' = log
  BY DEF CloseMenu, RunDownload, importVars, OpenExportMenu, Remote, Downloaded
<1>2. CASE \E n \in Names : Remote(n)
  <2>1. PICK n \in Names, r \in {Absent} \cup [body : Bodies, enabled : {TRUE}, by : {"user"}] :
          db' = [db EXCEPT ![n] = r] /\ UNCHANGED <<calls, menu, files, sent>>
    BY <1>2 DEF Remote
  <2>2. r \in {Absent} \cup [body : Bodies, enabled : BOOLEAN, by : {"user", "import"}]
        /\ (r # Absent => r.by = "user")
    OBVIOUS
  <2>3. db' \in [Names -> {Absent} \cup [body : Bodies, enabled : BOOLEAN, by : {"user", "import"}]]
    BY <2>1, <2>2, ImportFacts
  <2>4. ImportedDisabled'
    BY <2>1, <2>2, ImportFacts DEF ImportInv, ImportSound, ImportedDisabled
  <2> QED
    BY <1>1, <2>1, <2>3, <2>4
       DEF ImportInv, ImportSound, ImportTypeOK, ImportShapes, PreviewedCalls, AppliedWasShown,
           FileNamesRecord
<1>3. CASE ~(\E n \in Names : Remote(n))
  <2>1. /\ db' = db /\ menu' \in Names \cup {NoName} /\ sent' \in Nat
        /\ \A f \in files' : f \in files \/ f.named = f.of
    BY <1>3, ImportFacts
       DEF CloseMenu, RunDownload, importVars, OpenExportMenu, Downloaded, Request
  <2>2. \A q \in calls' : q \in calls \/ (q \in Calls /\ q.op = "export")
    <3>1. CASE RunDownload
      <4> DEFINE r0 == [n |-> sent', op |-> "export", payload |-> [name |-> menu],
                        resolution |-> dlg.resolution, newName |-> dlg.newName,
                        shown |-> dlg.preview, ans |-> "none"]
      <4>1. calls' = calls \cup {r0} /\ menu \in Names /\ sent' \in Nat
        BY <2>1, <3>1, ImportFacts DEF RunDownload, Request
      <4>2. r0 \in Calls /\ r0.op = "export"
        BY <4>1, ImportFacts DEF Calls
      <4> HIDE DEF r0
      <4> QED
        BY <4>1, <4>2
    <3>2. CASE ~RunDownload
      BY <1>3, <3>2 DEF CloseMenu, importVars, OpenExportMenu, Downloaded
    <3> QED
      BY <3>1, <3>2
  <2>3. ImportTypeOK' /\ ImportShapes'
    BY <1>1, <2>1, <2>2 DEF ImportInv, ImportSound, ImportTypeOK, ImportShapes
  <2>4. AppliedWasShown' /\ ImportedDisabled' /\ FileNamesRecord'
    BY <1>1, <2>1 DEF ImportInv, ImportSound, AppliedWasShown, ImportedDisabled, FileNamesRecord
  <2>5. PreviewedCalls'
    BY <1>1, <2>2 DEF ImportInv, PreviewedCalls
  <2> QED
    BY <2>3, <2>4, <2>5 DEF ImportInv, ImportSound
<1> QED
  BY <1>2, <1>3

(* For all policies, texts and requests that overlap: what an import writes   *)
(* is what the dialog was showing when Apply was clicked, it does not run     *)
(* before somebody enables it, and a file is named for the record it holds.   *)
THEOREM ImportsSound ==
  ASSUME ImportExportAssumption
  PROVE  ImportSpec => []ImportSound
<1>1. ImportInit => ImportInv
  BY ImportInitInv
<1>2. ImportInv /\ [ImportNext]_importVars => ImportInv'
  <2> SUFFICES ASSUME ImportInv, [ImportNext]_importVars PROVE ImportInv'
    OBVIOUS
  <2>1. CASE \/ Open \/ Dismiss \/ Back
             \/ \E t \in Payloads \cup {Garbage} : Paste(t) \/ DropFile(t)
             \/ \E t \in reading : FileRead(t)
             \/ \E r \in {"overwrite", "rename"}, n \in Names \cup {NoName} : SetResolution(r, n)
    BY <2>1, ImportTypingStep
  <2>2. CASE RunPreview \/ RunApply
    BY <2>2, ImportAskStep
  <2>3. CASE \E q \in calls : ServePreview(q) \/ ServeApply(q)
    BY <2>3, ImportPreviewServed, ImportApplyServed
  <2>4. CASE \E q \in calls : AnswerPreview(q) \/ AnswerApply(q)
    BY <2>4, ImportAnswersStep
  <2>5. CASE \/ CloseMenu \/ RunDownload \/ UNCHANGED importVars
             \/ \E n \in Names : OpenExportMenu(n) \/ Remote(n)
             \/ \E q \in calls : Downloaded(q)
    BY <2>5, ImportExportStep
  <2> QED
    BY <2>1, <2>2, <2>3, <2>4, <2>5 DEF ImportNext, Import, Export
<1>3. ImportInv => ImportSound
  BY DEF ImportInv
<1> QED
  BY <1>1, <1>2, <1>3, PTL DEF ImportSpec

----------------------------------------------------------------------------
(* The danger zone: what the progress dialog reports is what the handler did, *)
(* one operation at a time is not disturbed, and without faults the policy    *)
(* scheduler runs again after the last operation.                             *)

(* The steps of the two operations: they begin with the stop, end with the    *)
(* restart, and a reset migrates right after it has dropped the tables.       *)
LEMMA StepFacts ==
  ASSUME NEW op \in Ops
  PROVE  /\ Len(Steps(op)) \in 5..6 /\ 1 <= Len(Steps(op)) /\ DOMAIN Steps(op) = 1..Len(Steps(op))
         /\ \A pc \in 1..Len(Steps(op)) :
              /\ Steps(op)[pc] = "stop" <=> pc = 1
              /\ Steps(op)[pc] = "restart" <=> pc = Len(Steps(op))
              /\ Steps(op)[pc] = "drop" => pc + 1 <= Len(Steps(op)) /\ Steps(op)[pc + 1] = "migrate"
<1>1. CASE op = "reset"
  BY <1>1 DEF Steps
<1>2. CASE op = "emergency"
  BY <1>2 DEF Steps
<1> QED
  BY <1>1, <1>2 DEF Ops

(* The mark of a broken connection is no list of events.                      *)
LEMMA CutFacts == Cut \notin Seq(Events)
<1>1. Cut[1] = "cut" /\ Len(Cut) = 1
  BY DEF Cut
<1> QED
  BY <1>1 DEF Events

(* What the handlers and their streams are.                                   *)
LEMMA JobFacts ==
  ASSUME Shapes, NEW j \in DOMAIN job
  PROVE  /\ job[j] \in Handlers /\ job[j].pc \in 1..Len(Steps(job[j].op)) /\ j \in Nat
         /\ j \in DOMAIN wire /\ (wire[j] # Cut => wire[j] \in Seq(Events))
<1>1. job[j] \in Handlers /\ j \in 1..Len(job) /\ job[j].pc <= Len(Steps(job[j].op))
  BY DEF Shapes
<1>2. j \in DOMAIN wire /\ wire[j] \in Seq(Events) \cup {Cut}
  BY <1>1 DEF Shapes
<1>3. job[j].pc \in 1..Len(Steps(job[j].op))
  BY <1>1, StepFacts DEF Handlers
<1> QED
  BY <1>1, <1>2, <1>3

(* An event is appended to the stream, unless nobody reads it any more.       *)
LEMMA EmitFacts ==
  ASSUME Shapes, NEW j \in DOMAIN job, NEW e \in Events, Emit(j, e)
  PROVE  /\ wire' \in Seq(Seq(Events) \cup {Cut}) /\ Len(wire') = Len(job)
         /\ \A k \in DOMAIN job : k # j => wire'[k] = wire[k]
         /\ wire[j] # Cut => wire'[j] # Cut
         /\ \A i \in DOMAIN wire'[j] : (i \in DOMAIN wire[j] /\ wire'[j][i] = wire[j][i]) \/ wire'[j][i] = e
<1>1. j \in DOMAIN wire /\ wire \in Seq(Seq(Events) \cup {Cut}) /\ Len(wire) = Len(job) /\ DOMAIN job = 1..Len(job)
  BY JobFacts DEF Shapes
<1>2. CASE wire[j] = Cut
  BY <1>1, <1>2 DEF Emit
<1>3. CASE wire[j] # Cut
  <2> DEFINE w == Append(wire[j], e)
  <2>1. wire[j] \in Seq(Events)
    BY <1>3, JobFacts
  <2>2. w \in Seq(Events) /\ w # Cut
    BY <2>1, CutFacts
  <2>3. \A i \in DOMAIN w : (i \in DOMAIN wire[j] /\ w[i] = wire[j][i]) \/ w[i] = e
    BY <2>1
  <2>4. wire' = [wire EXCEPT ![j] = w]
    BY <1>3 DEF Emit
  <2> HIDE DEF w
  <2>5. wire'[j] = w /\ \A k \in DOMAIN job : k # j => wire'[k] = wire[k]
    BY <1>1, <2>4
  <2>6. wire' \in Seq(Seq(Events) \cup {Cut}) /\ Len(wire') = Len(job)
    BY <1>1, <2>2, <2>4
  <2> QED
    BY <2>2, <2>3, <2>5, <2>6
<1> QED
  BY <1>2, <1>3

(* One dialog changes: it is at an earlier stage, or its operation is over.   *)
LEMMA DialogStep ==
  ASSUME OutcomeInv, NEW t \in Tabs, NEW r \in Dialogs, ui' = [ui EXCEPT ![t] = r],
         UNCHANGED <<wire, losses, server>>, Shown(t, "progress") => ui[t].done,
         r.stage # "progress", r.stage \in {"step1", "step2"} => r.op # None
  PROVE  OutcomeInv'
<1>1. UNCHANGED <<wire, losses, job, running, schema, enabled, asleep, disturbed, faults>>
  BY DEF server
<1>2. Shapes /\ DoneIsReal
  BY DEF OutcomeInv
<1>3. ui'[t] = r /\ ui' \in [Tabs -> Dialogs] /\ \A x \in Tabs : x # t => ui'[x] = ui[x]
  BY <1>2 DEF Shapes
<1>4. Shapes'
  BY <1>1, <1>2, <1>3 DEF Shapes
<1>5. DoneIsReal'
  BY <1>1, <1>2, <1>3 DEF DoneIsReal, Shown
<1>6. Alone => OneOperation' /\ ~disturbed'
  <2> SUFFICES ASSUME Alone PROVE OneOperation' /\ ~disturbed'
    OBVIOUS
  <2>1. OneOperation /\ ~disturbed
    BY DEF OutcomeInv
  <2>2. \A j \in DOMAIN job : ~Active(j)
    BY <2>1 DEF OneOperation
  <2> QED
    BY <1>1, <2>1, <2>2 DEF OneOperation, Active
<1>7. faults' = 0 => HandlersGoOn'
  BY <1>1 DEF OutcomeInv, HandlersGoOn, Between, Active, Step
<1> QED
  BY <1>4, <1>5, <1>6, <1>7 DEF OutcomeInv, Alone

(* One page at most.                                                          *)
LEMMA OnePage ==
  ASSUME DangerZoneAssumption, Alone
  PROVE  \A x, y \in Tabs : x = y
<1> SUFFICES ASSUME NEW x \in Tabs, NEW y \in Tabs, x # y PROVE FALSE
  OBVIOUS
<1>1. {x, y} \subseteq Tabs /\ IsFiniteSet(Tabs)
  BY DEF DangerZoneAssumption
<1>2. Cardinality({x, y}) <= Cardinality(Tabs) /\ Cardinality(Tabs) \in Nat
  BY <1>1, FS_Subset, FS_CardinalityType
<1>3. IsFiniteSet({x}) /\ Cardinality({x}) = 1
  BY FS_Singleton
<1>4. Cardinality({x} \cup {y}) = Cardinality({x}) + 1
  BY <1>3, FS_AddElement
<1>5. {x} \cup {y} = {x, y}
  OBVIOUS
<1> QED
  BY <1>2, <1>3, <1>4, <1>5 DEF Alone

(* Opening, confirming, typing, cancelling and closing.                       *)
LEMMA DialogsStep ==
  ASSUME OutcomeInv, NEW t \in Tabs,
         \/ \E op \in Ops : OpenStep1(t, op) \/ TypePhrase(t, op)
         \/ ConfirmStep1(t) \/ Cancel(t) \/ CloseProgress(t)
  PROVE  OutcomeInv'
<1>1. /\ ui[t] \in Dialogs /\ (ui[t].stage \in {"step1", "step2"} => ui[t].op # None)
      /\ ui \in [Tabs -> Dialogs]
  BY DEF OutcomeInv, Shapes
<1>2. ASSUME NEW op \in Ops, OpenStep1(t, op) PROVE OutcomeInv'
  <2> DEFINE r == [ui[t] EXCEPT !.op = op, !.stage = "step1"]
  <2>1. r \in Dialogs /\ r.stage = "step1" /\ r.op = op /\ op # None
    BY <1>1 DEF Dialogs, Ops, None
  <2>2. ui' = [ui EXCEPT ![t] = r] /\ UNCHANGED <<wire, losses, server>> /\ ~Shown(t, "progress")
    BY <1>1, <1>2 DEF OpenStep1, Shown
  <2> HIDE DEF r
  <2> QED
    BY <2>1, <2>2, DialogStep
<1>3. ASSUME NEW op \in Ops, TypePhrase(t, op) PROVE OutcomeInv'
  <2> DEFINE r == [ui[t] EXCEPT !.phrase = op]
  <2>1. r \in Dialogs /\ r.stage = "step2" /\ r.op = ui[t].op
    BY <1>1, <1>3 DEF Dialogs, TypePhrase, Shown
  <2>2. ui' = [ui EXCEPT ![t] = r] /\ UNCHANGED <<wire, losses, server>> /\ ~Shown(t, "progress")
        /\ r.op # None
    BY <1>1, <1>3, <2>1 DEF TypePhrase, Shown
  <2> HIDE DEF r
  <2> QED
    BY <2>1, <2>2, DialogStep
<1>4. CASE ConfirmStep1(t)
  <2> DEFINE r == [ui[t] EXCEPT !.stage = "step2", !.phrase = None]
  <2>1. r \in Dialogs /\ r.stage = "step2" /\ r.op = ui[t].op
    BY <1>1 DEF Dialogs
  <2>2. ui' = [ui EXCEPT ![t] = r] /\ UNCHANGED <<wire, losses, server>> /\ ~Shown(t, "progress")
        /\ r.op # None
    BY <1>1, <1>4, <2>1 DEF ConfirmStep1, Shown
  <2> HIDE DEF r
  <2> QED
    BY <2>1, <2>2, DialogStep
<1>5. CASE Cancel(t) \/ CloseProgress(t)
  <2>1. Closed \in Dialogs /\ Closed.stage = "closed"
    BY DEF Closed, Dialogs
  <2>2. ui' = [ui EXCEPT ![t] = Closed] /\ UNCHANGED <<wire, losses, server>>
    BY <1>5 DEF Cancel, CloseProgress
  <2>3. Shown(t, "progress") => ui[t].done
    BY <1>5 DEF Cancel, CloseProgress, Shown
  <2> QED
    BY <2>1, <2>2, <2>3, DialogStep
<1> QED
  BY <1>2, <1>3, <1>4, <1>5

(* The second confirmation sends the request.                                 *)
LEMMA ConfirmStep ==
  ASSUME DangerZoneAssumption, OutcomeInv, NEW t \in Tabs, ConfirmStep2(t)
  PROVE  OutcomeInv'
<1> DEFINE r == [ui[t] EXCEPT !.stage = "progress", !.phrase = None, !.events = <<>>, !.done = FALSE,
                              !.id = Len(job) + 1]
           h == [tab |-> t, op |-> ui[t].op, pc |-> 1, said |-> FALSE, failed |-> FALSE, result |-> None]
           n == Len(job) + 1
<1>1. Shapes /\ DoneIsReal
  BY DEF OutcomeInv
<1>2. /\ ui \in [Tabs -> Dialogs] /\ ui[t] \in Dialogs /\ ui[t].stage = "step2" /\ ui[t].op \in Ops
      /\ job \in Seq(Handlers) /\ wire \in Seq(Seq(Events) \cup {Cut}) /\ Len(wire) = Len(job)
      /\ \A j \in DOMAIN job : job[j].pc <= Len(Steps(job[j].op))
  BY <1>1 DEF Shapes, ConfirmStep2, Shown, Dialogs
<1>3. /\ r \in Dialogs /\ r.stage = "progress" /\ r.events = <<>> /\ ~r.done /\ r.id = n
  <2>1. <<>> \in Seq(Events) /\ n \in Nat
    BY <1>2
  <2>2. PICK e : e = <<>> /\ e \in Seq(Events)
    BY <2>1
  <2>3. PICK m : m = n /\ m \in Nat
    BY <2>1
  <2> DEFINE q == [ui[t] EXCEPT !.stage = "progress", !.phrase = None, !.events = e, !.done = FALSE, !.id = m]
  <2>4. q \in Dialogs /\ q.stage = "progress" /\ q.events = e /\ ~q.done /\ q.id = m
    BY <1>2, <2>2, <2>3 DEF Dialogs
  <2>5. q = r
    BY <2>2, <2>3
  <2> QED
    BY <2>2, <2>3, <2>4, <2>5
<1>4. h \in Handlers /\ h.pc = 1 /\ h.op \in Ops /\ h.result = None /\ h.pc <= Len(Steps(h.op))
  <2>1. 1 <= Len(Steps(ui[t].op))
    <3>1. ui[t].op \in Ops
      BY <1>2
    <3> QED
      BY <3>1, StepFacts
  <2> QED
    BY <1>2, <2>1 DEF Handlers, Results
<1>5. /\ ui' = [ui EXCEPT ![t] = r] /\ job' = Append(job, h) /\ wire' = Append(wire, <<>>)
      /\ UNCHANGED <<running, schema, enabled, asleep, disturbed, faults, losses>>
  BY DEF ConfirmStep2
<1> HIDE DEF r, h
<1>6. /\ ui'[t] = r /\ ui' \in [Tabs -> Dialogs] /\ \A x \in Tabs : x # t => ui'[x] = ui[x]
  BY <1>2, <1>3, <1>5
<1>7. /\ job' \in Seq(Handlers) /\ Len(job') = n /\ job'[n] = h /\ \A j \in DOMAIN job : job'[j] = job[j]
      /\ n \notin DOMAIN job /\ DOMAIN job' = DOMAIN job \cup {n} /\ DOMAIN job = 1..Len(job)
  BY <1>2, <1>4, <1>5
<1>8. /\ wire' \in Seq(Seq(Events) \cup {Cut}) /\ Len(wire') = n /\ wire'[n] = <<>>
      /\ \A j \in DOMAIN job : wire'[j] = wire[j]
  <2>1. <<>> \in Seq(Events) \cup {Cut} /\ DOMAIN wire = 1..Len(job)
    BY <1>2
  <2> QED
    BY <1>2, <1>5, <2>1
<1>9. Shapes'
  BY <1>1, <1>3, <1>4, <1>5, <1>6, <1>7, <1>8 DEF Shapes, Shown
<1>10. DoneIsReal'
  <2>1. \A j \in DOMAIN job' : \A i \in DOMAIN wire'[j] : wire'[j][i] = "done" => job'[j].result = "done"
    BY <1>1, <1>7, <1>8 DEF DoneIsReal
  <2>2. ASSUME NEW x \in Tabs, ui'[x].stage = "progress"
        PROVE  /\ ui'[x].id \in DOMAIN job'
               /\ \A i \in DOMAIN ui'[x].events : ui'[x].events[i] = "done" => job'[ui'[x].id].result = "done"
    <3>1. CASE x = t
      BY <1>3, <1>6, <1>7, <3>1
    <3>2. CASE x # t
      BY <1>1, <1>6, <1>7, <2>2, <3>2 DEF DoneIsReal, Shown
    <3> QED
      BY <3>1, <3>2
  <2> QED
    BY <2>1, <2>2 DEF DoneIsReal, Shown
<1>11. Alone => OneOperation' /\ ~disturbed'
  <2> SUFFICES ASSUME Alone PROVE OneOperation' /\ ~disturbed'
    OBVIOUS
  <2>1. OneOperation /\ ~disturbed
    BY DEF OutcomeInv
  <2>2. \A j \in DOMAIN job : job[j].result # None
    BY <1>2, <2>1 DEF OneOperation, Active, Shown
  <2>3. \A x \in Tabs : x = t
    BY OnePage
  <2>4. \A j \in DOMAIN job' : wire'[j] # Cut
    <3>1. <<>> # Cut
      BY DEF Cut
    <3> QED
      BY <1>7, <1>8, <2>1, <3>1 DEF OneOperation
  <2>5. \A j \in DOMAIN job' : job'[j].result = None => j = n
    BY <1>7, <2>2
  <2> QED
    BY <1>3, <1>4, <1>5, <1>6, <1>7, <1>8, <2>1, <2>3, <2>4, <2>5 DEF OneOperation, Active, Shown, Between
<1>12. faults' = 0 => HandlersGoOn'
  BY <1>5, <1>7 DEF OutcomeInv, HandlersGoOn, Between, Active, Step
<1>13. UNCHANGED losses
  BY DEF ConfirmStep2
<1> QED
  BY <1>9, <1>10, <1>11, <1>12, <1>13 DEF OutcomeInv, Alone

(* The first event of a stream and the rest.                                  *)
LEMMA StreamFacts ==
  ASSUME NEW w \in Seq(Events), w # <<>>
  PROVE  /\ Head(w) \in Events /\ 1 \in DOMAIN w /\ Head(w) = w[1] /\ Tail(w) \in Seq(Events)
         /\ \A i \in DOMAIN Tail(w) : i + 1 \in DOMAIN w /\ Tail(w)[i] = w[i + 1]
OBVIOUS

(* The page reads one event of its own operation.                             *)
LEMMA ReceiveStep ==
  ASSUME OutcomeInv, NEW t \in Tabs, Receive(t)
  PROVE  OutcomeInv'
<1> DEFINE j == ui[t].id
           w == wire[j]
           es == Append(ui[t].events, Head(w))
           end == Head(w) \in {"done", "error"}
           r == [ui[t] EXCEPT !.events = es, !.done = end]
<1>1. Shapes /\ DoneIsReal
  BY DEF OutcomeInv
<1>2. /\ ui \in [Tabs -> Dialogs] /\ ui[t] \in Dialogs /\ ui[t].stage = "progress" /\ ~ui[t].done
      /\ j \in DOMAIN job /\ w # Cut /\ w # <<>>
  BY <1>1 DEF Shapes, Receive, Shown, DoneIsReal
<1>3. w \in Seq(Events) /\ j \in DOMAIN wire
  BY <1>1, <1>2, JobFacts
<1>4. /\ Head(w) \in Events /\ 1 \in DOMAIN w /\ Head(w) = w[1] /\ Tail(w) \in Seq(Events) /\ Tail(w) # Cut
      /\ \A i \in DOMAIN Tail(w) : i + 1 \in DOMAIN w /\ Tail(w)[i] = w[i + 1]
  <2> HIDE DEF w
  <2> QED
    BY <1>2, <1>3, StreamFacts, CutFacts
<1>5. /\ ui' = [ui EXCEPT ![t] = r] /\ wire' = [wire EXCEPT ![j] = Tail(w)]
      /\ UNCHANGED <<losses, job, running, schema, enabled, asleep, disturbed, faults>>
  BY DEF Receive, server
<1>6. /\ es \in Seq(Events) /\ end \in BOOLEAN /\ (end <=> Head(w) \in {"done", "error"})
      /\ \A i \in DOMAIN es : (i \in DOMAIN ui[t].events /\ es[i] = ui[t].events[i]) \/ es[i] = Head(w)
  <2>1. ui[t].events \in Seq(Events)
    BY <1>2 DEF Dialogs
  <2> QED
    BY <1>4, <2>1
<1> HIDE DEF es, end, w
<1>7. r \in Dialogs /\ r.stage = "progress" /\ r.id = j /\ r.events = es /\ r.done = end
  BY <1>2, <1>6 DEF Dialogs
<1> HIDE DEF r, j
<1>8. /\ ui'[t] = r /\ ui' \in [Tabs -> Dialogs] /\ \A x \in Tabs : x # t => ui'[x] = ui[x]
  BY <1>2, <1>5, <1>7
<1>9. /\ wire' \in Seq(Seq(Events) \cup {Cut}) /\ Len(wire') = Len(job') /\ wire'[j] = Tail(w)
      /\ \A k \in DOMAIN job : k # j => wire'[k] = wire[k]
  <2>1. wire \in Seq(Seq(Events) \cup {Cut}) /\ Len(wire) = Len(job) /\ DOMAIN job = 1..Len(job)
    BY <1>1 DEF Shapes
  <2> QED
    BY <1>3, <1>4, <1>5, <2>1
<1>10. Shapes'
  BY <1>1, <1>5, <1>7, <1>8, <1>9 DEF Shapes, Shown
<1>11. DoneIsReal'
  <2>1. \A k \in DOMAIN job : \A i \in DOMAIN wire[k] : wire[k][i] = "done" => job[k].result = "done"
    BY <1>1 DEF DoneIsReal
  <2>2. \A k \in DOMAIN job : \A i \in DOMAIN wire'[k] : wire'[k][i] = "done" => job[k].result = "done"
    <3>1. \A i \in DOMAIN w : w[i] = "done" => job[j].result = "done"
      BY <1>2, <2>1 DEF w
    <3>2. \A i \in DOMAIN Tail(w) : Tail(w)[i] = "done" => job[j].result = "done"
      BY <1>4, <3>1
    <3> SUFFICES ASSUME NEW k \in DOMAIN job
                 PROVE  \A i \in DOMAIN wire'[k] : wire'[k][i] = "done" => job[k].result = "done"
      OBVIOUS
    <3>3. CASE k = j
      BY <1>9, <3>2, <3>3
    <3>4. CASE k # j
      BY <1>9, <2>1, <3>4
    <3> QED
      BY <3>3, <3>4
  <2>3. Head(w) = "done" => job[j].result = "done"
    BY <1>2, <1>4, <2>1 DEF w
  <2>4. ASSUME NEW x \in Tabs, ui'[x].stage = "progress"
        PROVE  /\ ui'[x].id \in DOMAIN job
               /\ \A i \in DOMAIN ui'[x].events : ui'[x].events[i] = "done" => job[ui'[x].id].result = "done"
    <3>1. CASE x = t
      <4>1. /\ ui'[x].id = j /\ ui'[x].events = es
            /\ \A i \in DOMAIN ui[t].events : ui[t].events[i] = "done" => job[j].result = "done"
        BY <1>1, <1>2, <1>7, <1>8, <3>1 DEF DoneIsReal, Shown, j
      <4> QED
        BY <1>2, <1>6, <2>3, <4>1
    <3>2. CASE x # t
      BY <1>1, <1>8, <2>4, <3>2 DEF DoneIsReal, Shown
    <3> QED
      BY <3>1, <3>2
  <2> QED
    BY <1>5, <2>2, <2>4 DEF DoneIsReal, Shown
<1>12. Alone => OneOperation' /\ ~disturbed'
  <2> SUFFICES ASSUME Alone PROVE OneOperation' /\ ~disturbed'
    OBVIOUS
  <2>1. OneOperation /\ ~disturbed
    BY DEF OutcomeInv
  <2>2. \A k \in DOMAIN job : wire'[k] # Cut
    BY <1>4, <1>9, <2>1 DEF OneOperation
  <2>3. ASSUME NEW k \in DOMAIN job, job[k].result = None
        PROVE  /\ k = j /\ ~end /\ \A i \in DOMAIN wire'[k] : wire'[k][i] = "step"
               /\ \A x \in Tabs : Shown(x, "progress") /\ ui[x].id = k /\ ~ui[x].done
               /\ Between(k) => ~running
    <3>1. /\ k = j /\ \A i \in DOMAIN w : w[i] = "step"
          /\ \A x \in Tabs : Shown(x, "progress") /\ ui[x].id = k /\ ~ui[x].done
          /\ Between(k) => ~running
      BY <2>1, <2>3 DEF OneOperation, Active, j, w
    <3> QED
      BY <1>4, <1>6, <1>9, <3>1
  <2> QED
    BY <1>5, <1>7, <1>8, <2>1, <2>2, <2>3 DEF OneOperation, Active, Shown, Between
<1>13. faults' = 0 => HandlersGoOn'
  BY <1>5 DEF OutcomeInv, HandlersGoOn, Between, Active, Step
<1>14. UNCHANGED losses
  BY DEF Receive
<1> QED
  BY <1>10, <1>11, <1>12, <1>13, <1>14 DEF OutcomeInv, Alone

(* The stream is found broken.                                                *)
LEMMA InterruptedStep ==
  ASSUME OutcomeInv, NEW t \in Tabs, Interrupted(t)
  PROVE  OutcomeInv'
<1>1. Shapes /\ DoneIsReal
  BY DEF OutcomeInv
<1>2. /\ ui \in [Tabs -> Dialogs] /\ ui[t] \in Dialogs /\ ui[t].stage = "progress" /\ ~ui[t].done
      /\ ui[t].id \in DOMAIN job /\ wire[ui[t].id] = Cut
  BY <1>1 DEF Shapes, Interrupted, Shown, DoneIsReal
<1>3. PICK e \in {<<"error">>, <<>>} : ui' = [ui EXCEPT ![t].events = @ \o e, ![t].done = TRUE]
  BY DEF Interrupted
<1> DEFINE es == ui[t].events \o e
           r == [ui[t] EXCEPT !.events = es, !.done = TRUE]
<1>4. /\ es \in Seq(Events)
      /\ \A i \in DOMAIN es : (i \in DOMAIN ui[t].events /\ es[i] = ui[t].events[i]) \/ es[i] = "error"
  <2>1. ui[t].events \in Seq(Events)
    BY <1>2 DEF Dialogs
  <2>2. e \in Seq(Events) /\ \A i \in DOMAIN e : e[i] = "error"
    <3>1. CASE e = <<>>
      BY <3>1
    <3>2. CASE e = <<"error">>
      BY <3>2 DEF Events
    <3> QED
      BY <3>1, <3>2
  <2> QED
    BY <2>1, <2>2
<1>5. ui' = [ui EXCEPT ![t] = r]
  BY <1>3
<1> HIDE DEF es
<1>6. r \in Dialogs /\ r.stage = "progress" /\ r.id = ui[t].id /\ r.events = es
  BY <1>2, <1>4 DEF Dialogs
<1> HIDE DEF r
<1>7. /\ ui'[t] = r /\ ui' \in [Tabs -> Dialogs] /\ \A x \in Tabs : x # t => ui'[x] = ui[x]
      /\ UNCHANGED <<wire, losses, job, running, schema, enabled, asleep, disturbed, faults>>
  BY <1>2, <1>5, <1>6 DEF Interrupted, server
<1>8. Shapes'
  BY <1>1, <1>6, <1>7 DEF Shapes, Shown
<1>9. DoneIsReal'
  <2>1. \A i \in DOMAIN ui[t].events : ui[t].events[i] = "done" => job[ui[t].id].result = "done"
    BY <1>1, <1>2 DEF DoneIsReal, Shown
  <2>2. \A i \in DOMAIN es : es[i] = "done" => job[ui[t].id].result = "done"
    BY <1>4, <2>1
  <2> QED
    BY <1>1, <1>2, <1>6, <1>7, <2>2 DEF DoneIsReal, Shown
<1>10. ~Alone
  BY <1>2 DEF OutcomeInv, OneOperation
<1>11. faults' = 0 => HandlersGoOn'
  BY <1>7 DEF OutcomeInv, HandlersGoOn, Between, Active, Step
<1> QED
  BY <1>7, <1>8, <1>9, <1>10, <1>11 DEF OutcomeInv, Alone

(* The connection breaks or the page is reloaded.                             *)
LEMMA LoseStep ==
  ASSUME DangerZoneAssumption, OutcomeInv, NEW t \in Tabs, Lose(t)
  PROVE  OutcomeInv'
<1>1. Shapes /\ DoneIsReal
  BY DEF OutcomeInv
<1>2. /\ ui \in [Tabs -> Dialogs] /\ ui[t].stage = "progress" /\ ui[t].id \in DOMAIN job
      /\ losses < MaxLosses /\ losses' = losses + 1 /\ losses \in 0..MaxLosses /\ MaxLosses \in Nat
  BY <1>1 DEF Shapes, Lose, Shown, DoneIsReal, DangerZoneAssumption
<1>3. /\ wire' = [wire EXCEPT ![ui[t].id] = Cut] /\ (ui' = [ui EXCEPT ![t] = Closed] \/ ui' = ui)
      /\ UNCHANGED <<job, running, schema, enabled, asleep, disturbed, faults>>
  BY DEF Lose, server
<1>4. ui' \in [Tabs -> Dialogs] /\ \A x \in Tabs : ui'[x] \in {ui[x], Closed}
  <2>1. Closed \in Dialogs
    BY DEF Closed, Dialogs
  <2> QED
    BY <1>2, <1>3, <2>1
<1>5. /\ wire' \in Seq(Seq(Events) \cup {Cut}) /\ Len(wire') = Len(job')
      /\ \A k \in DOMAIN job : wire'[k] \in {wire[k], Cut}
  <2>1. wire \in Seq(Seq(Events) \cup {Cut}) /\ Len(wire) = Len(job) /\ DOMAIN job = 1..Len(job)
    BY <1>1 DEF Shapes
  <2> QED
    BY <1>2, <1>3, <2>1
<1>6. Closed.stage = "closed" /\ \A i \in DOMAIN Cut : Cut[i] # "done"
  BY DEF Closed, Cut
<1>7. Shapes'
  <2>1. losses' \in 0..MaxLosses
    BY <1>2
  <2> QED
    BY <1>1, <1>3, <1>4, <1>5, <1>6, <2>1 DEF Shapes, Shown
<1>8. DoneIsReal'
  BY <1>1, <1>3, <1>4, <1>5, <1>6 DEF DoneIsReal, Shown
<1>9. ~Alone'
  BY <1>2 DEF Alone
<1>10. faults' = 0 => HandlersGoOn'
  BY <1>3 DEF OutcomeInv, HandlersGoOn, Between, Active, Step
<1> QED
  BY <1>7, <1>8, <1>9, <1>10 DEF OutcomeInv

(* One step of one handler, with at most one event for the page.              *)
LEMMA HandlerStep ==
  ASSUME OutcomeInv, NEW j \in DOMAIN job, Active(j), NEW h \in Handlers, NEW e \in Events,
         h.op = job[j].op, h.pc <= Len(Steps(h.op)), job' = [job EXCEPT ![j] = h],
         UNCHANGED <<ui, disturbed, losses>>,
         \/ UNCHANGED wire
         \/ Emit(j, e) /\ (e = "done" => h.result = "done") /\ (h.result = None => e = "step"),
         schema' \in {"ok", "dropped", "bare"}, running' \in BOOLEAN, enabled' \in BOOLEAN,
         asleep' \in BOOLEAN, faults' \in 0..MaxFaults,
         Alone /\ h.result = None /\ h.pc > 1 => ~running',
         faults' = 0 => HandlersGoOn'
  PROVE  OutcomeInv'
<1>1. Shapes /\ DoneIsReal
  BY DEF OutcomeInv
<1>2. /\ job \in Seq(Handlers) /\ DOMAIN job = 1..Len(job) /\ job[j].result = None
  BY <1>1 DEF Shapes, Active
<1>3. /\ job' \in Seq(Handlers) /\ Len(job') = Len(job) /\ DOMAIN job' = DOMAIN job
      /\ job'[j] = h /\ \A k \in DOMAIN job : k # j => job'[k] = job[k]
  BY <1>2
<1>4. /\ wire' \in Seq(Seq(Events) \cup {Cut}) /\ Len(wire') = Len(job)
      /\ \A k \in DOMAIN job : k # j => wire'[k] = wire[k]
      /\ wire[j] # Cut => wire'[j] # Cut
      /\ \A i \in DOMAIN wire'[j] :
           \/ i \in DOMAIN wire[j] /\ wire'[j][i] = wire[j][i]
           \/ (wire'[j][i] = "done" => h.result = "done") /\ (h.result = None => wire'[j][i] = "step")
  <2>1. CASE UNCHANGED wire
    BY <1>1, <2>1 DEF Shapes
  <2>2. CASE Emit(j, e) /\ (e = "done" => h.result = "done") /\ (h.result = None => e = "step")
    BY <1>1, <2>2, EmitFacts
  <2> QED
    BY <2>1, <2>2
<1>5. Shapes'
  BY <1>1, <1>3, <1>4 DEF Shapes, Shown
<1>6. \A k \in DOMAIN job : job[k].result = "done" => job'[k].result = "done"
  BY <1>2, <1>3 DEF None
<1>7. DoneIsReal'
  <2>1. \A i \in DOMAIN wire[j] : wire[j][i] # "done"
    BY <1>1, <1>2 DEF DoneIsReal, None
  <2>2. \A k \in DOMAIN job' : \A i \in DOMAIN wire'[k] : wire'[k][i] = "done" => job'[k].result = "done"
    <3> SUFFICES ASSUME NEW k \in DOMAIN job
                 PROVE  \A i \in DOMAIN wire'[k] : wire'[k][i] = "done" => job'[k].result = "done"
      BY <1>3
    <3>1. CASE k = j
      BY <1>3, <1>4, <2>1, <3>1
    <3>2. CASE k # j
      BY <1>1, <1>3, <1>4, <3>2 DEF DoneIsReal
    <3> QED
      BY <3>1, <3>2
  <2> QED
    BY <1>1, <1>3, <1>6, <2>2 DEF DoneIsReal, Shown
<1>8. Alone => OneOperation' /\ ~disturbed'
  <2> SUFFICES ASSUME Alone PROVE OneOperation' /\ ~disturbed'
    OBVIOUS
  <2>1. OneOperation /\ ~disturbed
    BY DEF OutcomeInv
  <2>2. \A k \in DOMAIN job' : wire'[k] # Cut
    BY <1>3, <1>4, <2>1 DEF OneOperation
  <2>3. job[j].tab \in Tabs
    <3>1. job[j] \in Handlers
      BY <1>2
    <3> QED
      BY <3>1 DEF Handlers
  <2>4. \A k \in DOMAIN job : job[k].result = None => k = j
    BY <1>2, <2>1, <2>3 DEF OneOperation, Active
  <2>5. /\ \A x \in Tabs : Shown(x, "progress") /\ ui[x].id = j /\ ~ui[x].done
        /\ \A i \in DOMAIN wire[j] : wire[j][i] = "step"
    BY <2>1 DEF OneOperation
  <2>6. h.result = None => \A i \in DOMAIN wire'[j] : wire'[j][i] = "step"
    BY <1>4, <2>5
  <2>7. \A k \in DOMAIN job' : job'[k].result = None => k = j /\ h.result = None
    BY <1>3, <2>4
  <2> QED
    BY <1>3, <2>1, <2>2, <2>5, <2>6, <2>7 DEF OneOperation, Active, Shown, Between
<1> QED
  BY <1>5, <1>7, <1>8 DEF OutcomeInv, Alone

(* What nobody shows: the scheduler's tick and an administrator.              *)
LEMMA OutsideStep ==
  ASSUME OutcomeInv, Tick \/ Enable \/ UNCHANGED vars
  PROVE  OutcomeInv'
<1>1. Shapes /\ DoneIsReal
  BY DEF OutcomeInv
<1>2. /\ UNCHANGED <<ui, job, wire, running, schema, faults, losses>>
      /\ enabled' \in BOOLEAN /\ asleep' \in BOOLEAN /\ disturbed' \in BOOLEAN
  BY <1>1 DEF Tick, Enable, vars, Shapes
<1>3. Shapes' /\ DoneIsReal'
  BY <1>1, <1>2 DEF Shapes, DoneIsReal, Shown
<1>4. Alone => OneOperation' /\ ~disturbed'
  <2> SUFFICES ASSUME Alone PROVE OneOperation' /\ ~disturbed'
    OBVIOUS
  <2>1. OneOperation /\ ~disturbed
    BY DEF OutcomeInv
  <2>2. running => \A j \in DOMAIN job : ~Between(j)
    BY <2>1 DEF OneOperation, Between
  <2>3. ~disturbed'
    BY <2>1, <2>2 DEF Tick, Enable, vars
  <2> QED
    BY <1>2, <2>1, <2>3 DEF OneOperation, Active, Shown, Between
<1>5. faults' = 0 => HandlersGoOn'
  BY <1>2 DEF OutcomeInv, HandlersGoOn, Between, Active, Step
<1>6. UNCHANGED losses
  BY DEF Tick, Enable, vars
<1> QED
  BY <1>3, <1>4, <1>5, <1>6 DEF OutcomeInv, Alone

(* A handler says what it does next.                                          *)
LEMMA AnnounceStep ==
  ASSUME OutcomeInv, NEW j \in DOMAIN job, Announce(j)
  PROVE  OutcomeInv'
<1> DEFINE h == [job[j] EXCEPT !.said = TRUE]
<1>1. Shapes /\ job[j] \in Handlers /\ job[j].pc <= Len(Steps(job[j].op)) /\ job \in Seq(Handlers)
  BY JobFacts DEF OutcomeInv, Shapes
<1>2. /\ h \in Handlers /\ h.op = job[j].op /\ h.pc = job[j].pc /\ h.result = None
  BY <1>1 DEF Handlers, Announce, Active
<1>3. /\ job' = [job EXCEPT ![j] = h] /\ Emit(j, "step") /\ Active(j)
      /\ UNCHANGED <<ui, running, schema, enabled, asleep, disturbed, faults, losses>>
  BY DEF Announce
<1> HIDE DEF h
<1>4. /\ schema' \in {"ok", "dropped", "bare"} /\ running' \in BOOLEAN /\ enabled' \in BOOLEAN
      /\ asleep' \in BOOLEAN /\ faults' \in 0..MaxFaults
  BY <1>1, <1>3 DEF Shapes
<1>5. Alone /\ h.pc > 1 => ~running'
  <2>1. Alone => (Between(j) => ~running)
    BY <1>3 DEF OutcomeInv, OneOperation
  <2> QED
    BY <1>2, <1>3, <2>1 DEF Between
<1>6. faults' = 0 => HandlersGoOn'
  <2>1. /\ DOMAIN job' = DOMAIN job
        /\ \A k \in DOMAIN job : /\ job'[k].op = job[k].op /\ job'[k].pc = job[k].pc
                                 /\ job'[k].result = job[k].result
    BY <1>1, <1>2, <1>3 DEF Active
  <2> QED
    BY <1>3, <2>1 DEF OutcomeInv, HandlersGoOn, Between, Active, Step
<1>7. "step" \in Events /\ "step" # "done"
  BY DEF Events
<1> QED
  BY <1>1, <1>2, <1>3, <1>4, <1>5, <1>6, <1>7, HandlerStep

(* A step of a handler succeeds.                                              *)
LEMMA TakeStep ==
  ASSUME DangerZoneAssumption, OutcomeInv, NEW j \in DOMAIN job, Take(j)
  PROVE  OutcomeInv'
<1> DEFINE s == Step(j)
           last == job[j].pc = Len(Steps(job[j].op))
           verdict == IF job[j].failed THEN "error" ELSE "done"
           h == IF last THEN [job[j] EXCEPT !.result = verdict]
                ELSE [job[j] EXCEPT !.pc = @ + 1, !.said = FALSE]
<1>1. Shapes /\ job[j] \in Handlers /\ job[j].pc \in 1..Len(Steps(job[j].op)) /\ job \in Seq(Handlers)
      /\ job[j].op \in Ops /\ job[j].pc \in 1..6 /\ job[j].result = None
  BY JobFacts DEF OutcomeInv, Shapes, Take, Active, Handlers
<1>2. /\ s = "stop" <=> job[j].pc = 1
      /\ s = "restart" <=> last
      /\ s = "drop" => ~last /\ Steps(job[j].op)[job[j].pc + 1] = "migrate"
      /\ Len(Steps(job[j].op)) \in 5..6
  <2>1. s = Steps(job[j].op)[job[j].pc]
    BY DEF Step
  <2>2. /\ Len(Steps(job[j].op)) \in 5..6
        /\ \A pc \in 1..Len(Steps(job[j].op)) :
              /\ Steps(job[j].op)[pc] = "stop" <=> pc = 1
              /\ Steps(job[j].op)[pc] = "restart" <=> pc = Len(Steps(job[j].op))
              /\ Steps(job[j].op)[pc] = "drop" => pc + 1 <= Len(Steps(job[j].op)) /\ Steps(job[j].op)[pc + 1] = "migrate"
    BY <1>1, StepFacts
  <2> HIDE DEF s
  <2> QED
    BY <1>1, <2>1, <2>2
<1>3. /\ h \in Handlers /\ h.op = job[j].op /\ h.pc <= Len(Steps(h.op))
      /\ last => h.result = verdict /\ h.pc = job[j].pc
      /\ ~last => h.result = None /\ h.pc = job[j].pc + 1
  <2>1. verdict \in {"done", "error"}
    OBVIOUS
  <2>2. CASE last
    <3> DEFINE q == [job[j] EXCEPT !.result = verdict]
    <3>1. q \in Handlers /\ q.op = job[j].op /\ q.result = verdict /\ q.pc = job[j].pc
      <4> HIDE DEF verdict
      <4> QED
        BY <1>1, <2>1 DEF Handlers, Results
    <3>2. h = q
      BY <2>2
    <3> HIDE DEF q, h, verdict
    <3> QED
      BY <1>1, <2>2, <3>1, <3>2
  <2>3. CASE ~last
    <3> DEFINE q == [job[j] EXCEPT !.pc = @ + 1, !.said = FALSE]
    <3>1. job[j].pc + 1 \in 1..6 /\ job[j].pc + 1 <= Len(Steps(job[j].op))
      <4>1. \A n \in 5..6 : \A p \in 1..n : p # n => p + 1 \in 1..6 /\ p + 1 <= n
        OBVIOUS
      <4>2. job[j].pc \in 1..Len(Steps(job[j].op)) /\ Len(Steps(job[j].op)) \in 5..6
        BY <1>1, <1>2
      <4> QED
        BY <2>3, <4>1, <4>2
    <3>2. q \in Handlers /\ q.op = job[j].op /\ q.result = None /\ q.pc = job[j].pc + 1
      BY <1>1, <3>1 DEF Handlers
    <3>3. h = q
      BY <2>3
    <3> HIDE DEF q, h, verdict
    <3> QED
      BY <1>1, <2>3, <3>1, <3>2, <3>3
  <2> QED
    BY <2>2, <2>3
<1>4. /\ job' = [job EXCEPT ![j] = h] /\ Active(j) /\ Possible(s) /\ Effect(s)
      /\ UNCHANGED <<ui, disturbed, faults, losses>>
      /\ \/ UNCHANGED wire /\ ~last
         \/ Emit(j, verdict) /\ last
  <2>1. CASE last
    BY <2>1 DEF Take
  <2>2. CASE ~last
    BY <2>2 DEF Take
  <2> QED
    BY <2>1, <2>2
<1>5. verdict \in Events /\ verdict \in {"done", "error"}
  BY DEF Events
<1> HIDE DEF h, s, verdict
<1>6. /\ schema' \in {"ok", "dropped", "bare"} /\ running' \in BOOLEAN /\ enabled' \in BOOLEAN
      /\ asleep' \in BOOLEAN /\ faults' \in 0..MaxFaults
  BY <1>1, <1>4 DEF Shapes, Effect
<1>7. Alone /\ h.result = None /\ h.pc > 1 => ~running'
  <2>1. Alone => (Between(j) => ~running)
    BY <1>4 DEF OutcomeInv, OneOperation
  <2>2. h.result = None => ~last
    BY <1>3, <1>5 DEF None
  <2>3. CASE job[j].pc = 1
    BY <1>2, <1>4, <2>2, <2>3 DEF Effect
  <2>4. CASE job[j].pc # 1
    <3>1. Between(j)
      <4>1. job[j].pc \in 1..6
        BY <1>1
      <4> QED
        BY <1>4, <2>4, <4>1 DEF Between
    <3> QED
      BY <1>2, <1>4, <2>1, <2>2, <3>1 DEF Effect
  <2> QED
    BY <2>3, <2>4
<1>8. faults' = 0 => HandlersGoOn'
  <2> SUFFICES ASSUME faults' = 0 PROVE HandlersGoOn'
    OBVIOUS
  <2>1. HandlersGoOn
    BY <1>4 DEF OutcomeInv
  <2>2. /\ DOMAIN job' = DOMAIN job /\ job'[j] = h
        /\ \A k \in DOMAIN job : k # j => job'[k] = job[k]
    BY <1>1, <1>4
  <2>3. ~running' => \E k \in DOMAIN job' : Between(k)'
    <3> SUFFICES ASSUME ~running' PROVE \E k \in DOMAIN job' : Between(k)'
      OBVIOUS
    <3>1. ~last /\ (running => s = "stop")
      BY <1>2, <1>4 DEF Effect
    <3>2. h.result = None /\ h.pc > 1
      BY <1>1, <1>3, <3>1
    <3> QED
      BY <2>2, <3>2 DEF Between, Active
  <2>4. schema' = "dropped" => \E k \in DOMAIN job' : Active(k)' /\ Step(k)' = "migrate"
    <3> SUFFICES ASSUME schema' = "dropped" PROVE \E k \in DOMAIN job' : Active(k)' /\ Step(k)' = "migrate"
      OBVIOUS
    <3>1. CASE s = "drop"
      <4>1. h.result = None /\ h.pc = job[j].pc + 1 /\ Steps(h.op)[h.pc] = "migrate"
        BY <1>2, <1>3, <3>1
      <4> QED
        BY <2>2, <4>1 DEF Active, Step
    <3>2. CASE s # "drop"
      <4>1. schema = "dropped" /\ s # "migrate"
        BY <1>4, <3>2 DEF Effect
      <4>2. PICK k \in DOMAIN job : Active(k) /\ Step(k) = "migrate"
        BY <2>1, <4>1 DEF HandlersGoOn
      <4>3. k # j
        BY <4>1, <4>2 DEF s
      <4> QED
        BY <2>2, <4>2, <4>3 DEF Active, Step
    <3> QED
      BY <3>1, <3>2
  <2> QED
    BY <2>3, <2>4 DEF HandlersGoOn
<1>9. verdict = "done" /\ last => h.result = "done"
  BY <1>3
<1>10. last => (h.result = None => verdict = "step")
  BY <1>3, <1>5 DEF None
<1> QED
  BY <1>3, <1>4, <1>5, <1>6, <1>7, <1>8, <1>9, <1>10, HandlerStep

(* A step of a handler fails.                                                 *)
LEMMA FailStep ==
  ASSUME DangerZoneAssumption, OutcomeInv, NEW j \in DOMAIN job, Fail(j)
  PROVE  OutcomeInv'
<1> DEFINE s == Step(j)
           bad == job[j].failed \/ s = "scale"
           h == IF s \in Tolerated THEN [job[j] EXCEPT !.pc = @ + 1, !.said = FALSE, !.failed = bad]
                ELSE [job[j] EXCEPT !.result = "error"]
<1>1. Shapes /\ job[j] \in Handlers /\ job[j].pc \in 1..Len(Steps(job[j].op)) /\ job \in Seq(Handlers)
      /\ job[j].op \in Ops /\ job[j].pc \in 1..6 /\ job[j].result = None
  BY JobFacts DEF OutcomeInv, Shapes, Fail, Active, Handlers
<1>2. /\ \A k \in DOMAIN job : Step(k) = "stop" <=> job[k].pc = 1
      /\ s = "restart" <=> job[j].pc = Len(Steps(job[j].op))
      /\ Len(Steps(job[j].op)) \in 5..6
  <2> SUFFICES ASSUME NEW k \in DOMAIN job
               PROVE  /\ Step(k) = "stop" <=> job[k].pc = 1
                      /\ Step(k) = "restart" <=> job[k].pc = Len(Steps(job[k].op))
                      /\ Len(Steps(job[k].op)) \in 5..6
    OBVIOUS
  <2>1. job[k] \in Handlers /\ job[k].pc \in 1..Len(Steps(job[k].op))
    BY <1>1, JobFacts
  <2>2. job[k].op \in Ops
    BY <2>1 DEF Handlers
  <2>3. /\ Len(Steps(job[k].op)) \in 5..6
        /\ \A pc \in 1..Len(Steps(job[k].op)) :
              /\ Steps(job[k].op)[pc] = "stop" <=> pc = 1
              /\ Steps(job[k].op)[pc] = "restart" <=> pc = Len(Steps(job[k].op))
    BY <2>2, StepFacts
  <2> QED
    BY <2>1, <2>3 DEF Step
<1>3. /\ Active(j) /\ s # "stop" /\ UNCHANGED <<ui, running, schema, enabled, asleep, disturbed, losses>>
      /\ \/ faults < MaxFaults /\ faults' = faults + 1
         \/ s \in {"disable", "find", "seed"} /\ schema = "dropped" /\ UNCHANGED faults
  BY DEF Fail, Possible
<1>4. /\ job' = [job EXCEPT ![j] = h]
      /\ \/ UNCHANGED wire /\ s \in Tolerated
         \/ Emit(j, "error") /\ s \notin Tolerated
  <2>1. CASE s \in Tolerated
    BY <2>1 DEF Fail
  <2>2. CASE s \notin Tolerated
    BY <2>2 DEF Fail
  <2> QED
    BY <2>1, <2>2
<1>5. /\ h \in Handlers /\ h.op = job[j].op /\ h.pc <= Len(Steps(h.op))
      /\ s \in Tolerated => h.result = None
      /\ s \notin Tolerated => h.result = "error"
  <2>1. CASE s \in Tolerated
    <3> DEFINE q == [job[j] EXCEPT !.pc = @ + 1, !.said = FALSE, !.failed = bad]
    <3>1. job[j].pc + 1 \in 1..6 /\ job[j].pc + 1 <= Len(Steps(job[j].op))
      <4>1. \A n \in 5..6 : \A p \in 1..n : p # n => p + 1 \in 1..6 /\ p + 1 <= n
        OBVIOUS
      <4>2. job[j].pc \in 1..Len(Steps(job[j].op)) /\ Len(Steps(job[j].op)) \in 5..6
        BY <1>1, <1>2
      <4>3. s # "restart"
        BY <2>1 DEF Tolerated
      <4> QED
        BY <1>2, <4>1, <4>2, <4>3
    <3>2. bad \in BOOLEAN
      OBVIOUS
    <3>3. q \in Handlers /\ q.op = job[j].op /\ q.result = None /\ q.pc = job[j].pc + 1
      <4> HIDE DEF bad
      <4> QED
        BY <1>1, <3>1, <3>2 DEF Handlers
    <3>4. h = q
      BY <2>1
    <3> HIDE DEF q, h, bad, s
    <3> QED
      BY <1>1, <2>1, <3>1, <3>3, <3>4
  <2>2. CASE s \notin Tolerated
    <3> DEFINE q == [job[j] EXCEPT !.result = "error"]
    <3>1. q \in Handlers /\ q.op = job[j].op /\ q.result = "error" /\ q.pc = job[j].pc
      BY <1>1 DEF Handlers, Results
    <3>2. h = q
      BY <2>2
    <3>3. job[j].pc <= Len(Steps(job[j].op))
      BY <1>1 DEF Shapes
    <3> HIDE DEF q, h, bad, s
    <3> QED
      BY <2>2, <3>1, <3>2, <3>3
  <2> QED
    BY <2>1, <2>2
<1> HIDE DEF h, s, bad
<1>6. /\ schema' \in {"ok", "dropped", "bare"} /\ running' \in BOOLEAN /\ enabled' \in BOOLEAN
      /\ asleep' \in BOOLEAN /\ faults' \in 0..MaxFaults
  BY <1>1, <1>3 DEF Shapes, DangerZoneAssumption
<1>7. Alone => ~running'
  <2>1. job[j].pc > 1
    BY <1>1, <1>2, <1>3 DEF s
  <2> QED
    BY <1>3, <2>1 DEF OutcomeInv, OneOperation, Between
<1>8. faults' = 0 => HandlersGoOn'
  <2> SUFFICES ASSUME faults' = 0 PROVE HandlersGoOn'
    OBVIOUS
  <2>1. HandlersGoOn /\ ~(faults < MaxFaults /\ faults' = faults + 1)
    <3>1. faults = 0 /\ ~(faults < MaxFaults /\ faults' = faults + 1)
      BY <1>1, <1>3 DEF Shapes
    <3> QED
      BY <3>1 DEF OutcomeInv
  <2>2. s \in {"disable", "find", "seed"} /\ schema = "dropped"
    BY <1>3, <2>1
  <2>3. PICK k \in DOMAIN job : Active(k) /\ Step(k) = "migrate"
    BY <2>1, <2>2 DEF HandlersGoOn
  <2>4. k # j /\ job[k].pc # 1 /\ job[k].pc \in 1..6
    <3>1. job[k] \in Handlers
      BY <1>1
    <3> QED
      BY <1>2, <2>2, <2>3, <3>1 DEF s, Handlers
  <2>5. k \in DOMAIN job' /\ job'[k] = job[k]
    BY <1>1, <1>4, <2>4
  <2> QED
    BY <2>3, <2>4, <2>5 DEF HandlersGoOn, Active, Between, Step
<1>9. "error" \in Events /\ "error" # "done" /\ (s \notin Tolerated => h.result # None)
  BY <1>5 DEF Events, None
<1> QED
  BY <1>3, <1>4, <1>5, <1>6, <1>7, <1>8, <1>9, HandlerStep

(* Nothing has been started.                                                  *)
LEMMA OutcomeInit ==
  ASSUME DangerZoneAssumption, Init
  PROVE  OutcomeInv
<1>1. /\ Closed \in Dialogs /\ Closed.stage = "closed"
  BY DEF Closed, Dialogs
<1>2. /\ ui = [t \in Tabs |-> Closed] /\ job = <<>> /\ wire = <<>> /\ running = TRUE /\ schema = "ok"
      /\ enabled = TRUE /\ asleep = FALSE /\ disturbed = FALSE /\ faults = 0 /\ losses = 0
  BY DEF Init
<1>3. Shapes
  <2>1. ui \in [Tabs -> Dialogs] /\ \A t \in Tabs : ui[t].stage = "closed"
    BY <1>1, <1>2
  <2>2. faults \in 0..MaxFaults /\ losses \in 0..MaxLosses
    BY <1>2 DEF DangerZoneAssumption
  <2>3. job \in Seq(Handlers) /\ wire \in Seq(Seq(Events) \cup {Cut}) /\ DOMAIN job = {} /\ Len(wire) = Len(job)
    BY <1>2
  <2> QED
    BY <1>2, <2>1, <2>2, <2>3 DEF Shapes
<1>4. DoneIsReal /\ OneOperation /\ HandlersGoOn
  BY <1>1, <1>2 DEF DoneIsReal, OneOperation, HandlersGoOn, Shown
<1> QED
  BY <1>2, <1>3, <1>4 DEF OutcomeInv

(* The invariant gives the property.                                          *)
LEMMA OutcomeFromInv ==
  ASSUME DangerZoneAssumption, OutcomeInv
  PROVE  OutcomeTruthful
<1>1. Shapes /\ DoneIsReal
  BY DEF OutcomeInv
<1>2. TypeOK
  <2>1. \A j \in DOMAIN job : job[j].op \in Ops /\ job[j].pc \in DOMAIN Steps(job[j].op)
                               /\ job[j].result \in {None, "done", "error"}
    <3> SUFFICES ASSUME NEW j \in DOMAIN job
                 PROVE  job[j].op \in Ops /\ job[j].pc \in DOMAIN Steps(job[j].op)
                        /\ job[j].result \in {None, "done", "error"}
      OBVIOUS
    <3>1. job[j] \in Handlers /\ job[j].pc \in 1..Len(Steps(job[j].op))
      BY <1>1, JobFacts
    <3>2. job[j].op \in Ops /\ job[j].result \in {None, "done", "error"}
      BY <3>1 DEF Handlers, Results
    <3>3. DOMAIN Steps(job[j].op) = 1..Len(Steps(job[j].op))
      BY <3>2, StepFacts
    <3> QED
      BY <3>1, <3>2, <3>3
  <2>2. DOMAIN wire = DOMAIN job
    BY <1>1 DEF Shapes
  <2> QED
    BY <1>1, <2>1, <2>2 DEF TypeOK, Shapes, Dialogs
<1>3. CompleteIsTrue
  BY <1>1 DEF CompleteIsTrue, DoneIsReal, Title
<1>4. Cardinality(Tabs) > 1 \/ losses > 0 \/ UndisturbedOperation
  <2>1. Cardinality(Tabs) \in Nat /\ losses \in Nat
    BY <1>1, FS_CardinalityType DEF Shapes, DangerZoneAssumption
  <2> QED
    BY <2>1 DEF OutcomeInv, Alone, UndisturbedOperation
<1>5. faults > 0 \/ SchedulerResumes
  <2>1. faults \in Nat
    BY <1>1 DEF Shapes
  <2> QED
    BY <2>1 DEF OutcomeInv, HandlersGoOn, SchedulerResumes, Between
<1> QED
  BY <1>2, <1>3, <1>4, <1>5 DEF OutcomeTruthful

(* For every number of pages and operations: the dialog reports completion    *)
(* only of what the server completed; with one page, until it loses a         *)
(* connection, the policy scheduler puts nothing to sleep under an operation; *)
(* and until a step fails it runs whenever no operation is under way,         *)
(* although operations of several pages stop and restart it under each other. *)
THEOREM OutcomesTruthful ==
  ASSUME DangerZoneAssumption
  PROVE  Spec => []OutcomeTruthful
<1>1. Init => OutcomeInv
  BY OutcomeInit
<1>2. OutcomeInv /\ [Next]_vars => OutcomeInv'
  <2> SUFFICES ASSUME OutcomeInv, [Next]_vars PROVE OutcomeInv'
    OBVIOUS
  <2>1. ASSUME NEW t \in Tabs, NEW op \in Ops, OpenStep1(t, op) \/ TypePhrase(t, op) PROVE OutcomeInv'
    BY <2>1, DialogsStep
  <2>2. ASSUME NEW t \in Tabs, ConfirmStep1(t) \/ Cancel(t) \/ CloseProgress(t) PROVE OutcomeInv'
    BY <2>2, DialogsStep
  <2>3. ASSUME NEW t \in Tabs, ConfirmStep2(t) \/ Lose(t) PROVE OutcomeInv'
    BY <2>3, ConfirmStep, LoseStep
  <2>4. ASSUME NEW t \in Tabs, Receive(t) \/ Interrupted(t) PROVE OutcomeInv'
    BY <2>4, ReceiveStep, InterruptedStep
  <2>5. ASSUME NEW j \in DOMAIN job, Announce(j) \/ Take(j) \/ Fail(j) PROVE OutcomeInv'
    BY <2>5, AnnounceStep, TakeStep, FailStep
  <2>6. CASE Tick \/ Enable \/ UNCHANGED vars
    BY <2>6, OutsideStep
  <2> QED
    BY <2>1, <2>2, <2>3, <2>4, <2>5, <2>6 DEF Next
<1>3. OutcomeInv => OutcomeTruthful
  BY OutcomeFromInv
<1> QED
  BY <1>1, <1>2, <1>3, PTL DEF Spec

===============================================================================
