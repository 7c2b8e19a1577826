---------------------------- MODULE ExecutionLogs ----------------------------
(***************************************************************************)
(* The log of one execution on its way from the runner to the browser:     *)
(* drainLogChannel numbers, publishes and batches the lines, the broker    *)
(* keeps a replay ring and one channel per subscriber, the WebSocket       *)
(* handler sends history, replay tail and live lines, and the hook         *)
(* useExecutionLogs deduplicates, batches per animation frame, reconnects  *)
(* and, once the execution is known to have ended, shows the stored log.   *)
(*                                                                         *)
(* A line is its sequence number.  One viewer and its current connection   *)
(* are modelled; the viewers of others appear as the subscriber limit.     *)
(***************************************************************************)
EXTENDS Integers, Sequences, FiniteSets, SequencesExt

CONSTANTS
  MaxLines,     \* bound: lines the runner emits
  RingSize,     \* replayBufferSize
  ChannelSize,  \* subscriberChannelBuffer
  FlushSize,    \* flushSize of drainLogChannel
  MaxHistory,   \* maxLogLines: rows GetPolicyLogLines returns
  MaxSeen,      \* MAX_SEEN_IDS of the hook
  SeenTrim,     \* SEEN_IDS_TRIM of the hook
  MaxRetries,   \* MAX_RETRIES of the hook
  MaxFaults,    \* bound: lost connections, failed statements, crashes
  MaxOpens,     \* bound: how often the viewer is opened
  Crowded       \* TRUE iff maxSubscribersPerExecution may be reached

\* What the sizes must satisfy.
SizesAssumption ==
  /\ {MaxLines, RingSize, ChannelSize, FlushSize, MaxHistory, MaxSeen, SeenTrim,
      MaxRetries, MaxFaults, MaxOpens} \subseteq Nat
  /\ FlushSize > 0 /\ SeenTrim < MaxSeen
  /\ FlushSize <= RingSize                          \* 50 and 256
  /\ Crowded \in BOOLEAN

VARIABLES
  stage,     \* the execution: "running", "ending" (log channel drained),
             \* "closed" (Broker.Close), "finished"
  n,         \* lines published so far
  saved,     \* lines handed to AppendPolicyLogLines so far
  db,        \* lines in policy_log_lines
  sub,       \* the subscriber channel of the connection: [on, closed, q]
  handler,   \* wsPolicyExecutionLogs: [pc, running, replay]
  wire,      \* frames on their way to the browser: sequence numbers and close codes
  sock,      \* the browser's WebSocket: "none", "connecting", "open"
  hook,      \* state and refs of useExecutionLogs
  opened,    \* the drawer is open
  known,     \* the execution status the browser has: "running" or "finished"
  stored,    \* result of the log query: [got, err, lines]
  toast,     \* LogViewer's "disconnected" toast, and wasConnectedRef
  faults, opens,
  lossy      \* history: a line was dropped, or a statement failed

server  == <<stage, n, saved, db>>
conn    == <<sub, handler, wire, sock>>
browser == <<hook, opened, known, stored, toast>>
bounds  == <<faults, opens>>
logsVars == <<server, conn, browser, bounds, lossy>>

\* The close codes 1000 and 1006, as numbers no line has.
Normal   == -1000
Abnormal == -1006
Codes    == {Normal, Abnormal}

----------------------------------------------------------------------------
(* Helpers. *)

\* ORDER BY seq, and the sort of a frame's batch.
Sorted(S) == [k \in 1..Cardinality(S) |-> CHOOSE i \in S : Cardinality({j \in S : j <= i}) = k]

\* replayRing: the last RingSize published lines, gone once the broker has closed.
Ring == IF stage \in {"running", "ending"} THEN {i \in 1..n : i + RingSize > n} ELSE {}

\* GetPolicyLogLines: ascending, at most MaxHistory rows.
History == {i \in db : Cardinality({j \in db : j <= i}) <= MaxHistory}

Above(S, limit) == {i \in S : \A j \in limit : i > j}

NoSub     == [on |-> FALSE, closed |-> FALSE, q |-> <<>>]
NoHandler == [pc |-> "none", running |-> FALSE, replay |-> {}]

FreshHook == [seen |-> {}, buffer |-> {}, live |-> <<>>, connected |-> FALSE, clean |-> FALSE,
              maxed |-> FALSE, retries |-> 0, timer |-> FALSE]

NotStored == [got |-> FALSE, err |-> FALSE, lines |-> <<>>]

Streaming == opened /\ known = "running"

\* What the viewer shows: const lines = isRunning ? liveLines : (historicLines ?? liveLines)
Shown == IF known = "finished" /\ stored.got THEN stored.lines ELSE hook.live

\* What the hook reports: isConnected: isRunning ? isConnected : true
Reported(h, status) == status = "finished" \/ h.connected

\* The toast effect of LogViewer, run when isConnected, isRunning or cleanClose change.
Toasted(h, status) ==
  IF Reported(h, status) THEN [open |-> FALSE, was |-> TRUE]
  ELSE IF toast.was /\ status = "running" /\ ~h.clean THEN [toast EXCEPT !.open = TRUE]
  ELSE toast

\* The hook's new state; the effect runs only when one of its dependencies changed.
Becomes(h) ==
  /\ hook' = h
  /\ toast' = IF h.connected = hook.connected /\ h.clean = hook.clean THEN toast
              ELSE Toasted(h, known)

\* What the drawer renders beside the lines: a spinner, the alerts, the empty text, the notice.
Screen ==
  [spinner |-> Streaming /\ ~hook.clean,
   failed  |-> Streaming /\ hook.maxed,
   error   |-> opened /\ known = "finished" /\ stored.err,
   empty   |-> opened /\ known = "finished" /\ Shown = <<>> /\ ~stored.err,
   copy    |-> opened /\ Shown # <<>>,
   toast   |-> toast.open]

\* The cleanup of the hook's effect: timers, frame and socket are gone, handlers detached.
\* The server side ends too: the read pump sees the close, Unsubscribe runs.
Hangup == sub' = NoSub /\ handler' = NoHandler /\ wire' = <<>>

LogsInit ==
  /\ stage = "running" /\ n = 0 /\ saved = 0 /\ db = {}
  /\ sub = NoSub /\ handler = NoHandler /\ wire = <<>> /\ sock = "none"
  /\ hook = FreshHook /\ opened = FALSE /\ known = "running" /\ stored = NotStored
  /\ toast = [open |-> FALSE, was |-> FALSE]
  /\ faults = 0 /\ opens = 0 /\ lossy = FALSE

Fault == faults < MaxFaults /\ faults' = faults + 1 /\ UNCHANGED opens

----------------------------------------------------------------------------
(* The execution: drainLogChannel and executeAndFinalize. *)

\* Broker.Publish: into the ring, and into the channel unless it is full.
Publish ==
  /\ stage = "running" /\ n < MaxLines /\ n - saved < FlushSize
  /\ n' = n + 1
  /\ LET full == Len(sub.q) >= ChannelSize IN
     /\ sub' = IF sub.on /\ ~full THEN [sub EXCEPT !.q = Append(@, n + 1)] ELSE sub
     /\ lossy' = (lossy \/ (sub.on /\ full))
  /\ UNCHANGED <<stage, saved, db, handler, wire, sock, browser, bounds>>

\* A full batch, or the last one, is written; a failed batch is dropped.
Flush ==
  /\ saved < n /\ (stage = "running" => n - saved >= FlushSize)
  /\ stage \in {"running", "ending"}
  /\ saved' = n
  /\ \/ db' = db \cup (saved + 1)..n /\ UNCHANGED <<bounds, lossy>>
     \/ Fault /\ lossy' = TRUE /\ UNCHANGED db
  /\ UNCHANGED <<stage, n, conn, browser>>

\* The scaler has returned (or panicked), the log channel is closed and read to its end.
LogChannelDrained ==
  /\ stage = "running" /\ n - saved < FlushSize
  /\ stage' = "ending"
  /\ UNCHANGED <<n, saved, db, conn, browser, bounds, lossy>>

\* logDrain.Wait has returned; Broker.Close closes the channels and forgets the ring.
BrokerClose ==
  /\ stage = "ending" /\ saved = n
  /\ stage' = "closed"
  /\ sub' = IF sub.on THEN [sub EXCEPT !.closed = TRUE] ELSE sub
  /\ UNCHANGED <<n, saved, db, handler, wire, sock, browser, bounds, lossy>>

FinishExecution ==
  /\ stage = "closed"
  /\ stage' = "finished"
  /\ UNCHANGED <<n, saved, db, conn, browser, bounds, lossy>>

\* The process dies; the next one marks the execution interrupted. The unwritten batch is lost.
Crash ==
  /\ stage # "finished" /\ Fault
  /\ stage' = "finished" /\ saved' = n /\ lossy' = (lossy \/ saved < n)
  /\ sub' = NoSub /\ handler' = NoHandler
  /\ wire' = IF sock = "none" THEN <<>> ELSE Append(wire, Abnormal)
  /\ UNCHANGED <<n, db, sock, browser>>

----------------------------------------------------------------------------
(* The WebSocket handler: wsPolicyExecutionLogs. *)

\* The status is read before the upgrade; the browser sees the connection open.
Accept ==
  /\ sock = "connecting" /\ handler.pc = "none" /\ wire = <<>>
  /\ handler' = [NoHandler EXCEPT !.pc = "upgraded", !.running = (stage # "finished")]
  /\ sock' = "open"
  /\ Becomes([hook EXCEPT !.connected = TRUE, !.retries = 0])
  /\ UNCHANGED <<server, sub, wire, opened, known, stored, bounds, lossy>>

\* The request is refused (too many connections, no session, no backend): onerror, onclose.
Refuse ==
  /\ sock = "connecting" /\ handler.pc = "none" /\ wire = <<>> /\ Fault
  /\ wire' = <<Abnormal>>
  /\ UNCHANGED <<server, sub, handler, sock, browser, lossy>>

\* Already finished: the stored lines and a normal close.
SendFinished ==
  /\ handler.pc = "upgraded" /\ ~handler.running
  /\ \/ wire' = wire \o Sorted(History) \o <<Normal>> /\ UNCHANGED <<bounds, lossy>>
     \/ Fault /\ wire' = Append(wire, Normal) /\ lossy' = TRUE
  /\ handler' = NoHandler
  /\ UNCHANGED <<server, sub, sock, browser>>

\* Broker.Subscribe, which also takes the snapshot of the ring.
Subscribe ==
  /\ handler.pc = "upgraded" /\ handler.running
  /\ handler' = [handler EXCEPT !.pc = "subscribed", !.replay = Ring]
  /\ sub' = [NoSub EXCEPT !.on = TRUE]
  /\ UNCHANGED <<server, wire, sock, browser, bounds, lossy>>

\* The subscriber limit closes the connection with the same code as a finished execution.
SubscriberLimit ==
  /\ Crowded /\ handler.pc = "upgraded" /\ handler.running
  /\ handler' = NoHandler /\ wire' = Append(wire, Normal)
  /\ UNCHANGED <<server, sub, sock, browser, bounds, lossy>>

\* wsSendLines, wsSendReplayAfterDB: history, then the replay lines above its maximum.
SendHistory ==
  /\ handler.pc = "subscribed"
  /\ \/ wire' = wire \o Sorted(History) \o Sorted(Above(handler.replay, History))
        /\ UNCHANGED <<bounds, lossy>>
     \/ Fault /\ lossy' = TRUE /\ wire' = wire \o Sorted(handler.replay)
  /\ handler' = [handler EXCEPT !.pc = "sent", !.replay = {}]
  /\ UNCHANGED <<server, sub, sock, browser>>

\* The second look at the status: finished meanwhile, so drain and close; else stream.
Recheck ==
  /\ handler.pc = "sent"
  /\ IF stage = "finished"
     THEN wire' = wire \o sub.q \o <<Normal>> /\ sub' = NoSub /\ handler' = NoHandler
     ELSE handler' = [handler EXCEPT !.pc = "stream"] /\ UNCHANGED <<wire, sub>>
  /\ UNCHANGED <<server, sock, browser, bounds, lossy>>

\* wsStreamLoop.
Stream ==
  /\ handler.pc = "stream"
  /\ \/ /\ sub.q # <<>>
        /\ wire' = Append(wire, Head(sub.q)) /\ sub' = [sub EXCEPT !.q = Tail(@)]
        /\ UNCHANGED handler
     \/ /\ sub.q = <<>> /\ sub.closed
        /\ wire' = Append(wire, Normal) /\ sub' = NoSub /\ handler' = NoHandler
  /\ UNCHANGED <<server, sock, browser, bounds, lossy>>

\* The connection breaks; frames still on their way may be lost with it.
ConnectionLost ==
  /\ handler.pc # "none" /\ Fault
  /\ \E k \in 0..Len(wire) : wire' = Append(SubSeq(wire, 1, k), Abnormal)
  /\ sub' = NoSub /\ handler' = NoHandler
  /\ UNCHANGED <<server, sock, browser, lossy>>

----------------------------------------------------------------------------
(* The browser: useExecutionLogs and LogViewer. *)

\* The drawer opens with the row of the table, which may be older than the execution.
OpenViewer ==
  /\ ~opened /\ opens < MaxOpens
  /\ opened' = TRUE /\ opens' = opens + 1
  /\ known' \in (IF known = "finished" THEN {"finished"}
                 ELSE {"running"} \cup (IF stage = "finished" THEN {"finished"} ELSE {}))
  /\ hook' = FreshHook /\ toast' = [open |-> FALSE, was |-> FALSE]
  /\ sock' = IF known' = "running" THEN "connecting" ELSE "none"
  /\ UNCHANGED <<server, sub, handler, wire, stored, faults, lossy>>

CloseViewer ==
  /\ opened
  /\ opened' = FALSE /\ hook' = FreshHook /\ toast' = [open |-> FALSE, was |-> FALSE]
  /\ sock' = "none" /\ Hangup
  /\ UNCHANGED <<server, known, stored, bounds, lossy>>

\* Mutant of PollStatus: no polling while disconnected.
PollStatusConnected ==
  /\ Streaming /\ stage = "finished" /\ hook.connected
  /\ known' = "finished" /\ hook' = [hook EXCEPT !.buffer = {}, !.timer = FALSE]
  /\ toast' = Toasted(hook, "finished") /\ sock' = "none" /\ Hangup
  /\ UNCHANGED <<server, opened, stored, bounds, lossy>>

\* The status query, every two seconds while it says "running". Its new value reruns the effect.
PollStatus ==
  /\ Streaming /\ stage = "finished"
  /\ known' = "finished"
  /\ hook' = [hook EXCEPT !.buffer = {}, !.timer = FALSE]
  /\ toast' = Toasted(hook, "finished")
  /\ sock' = "none" /\ Hangup
  /\ UNCHANGED <<server, opened, stored, bounds, lossy>>

\* The log query: enabled once the execution is not running, never stale; Retry after an error.
FetchLogs ==
  /\ opened /\ known = "finished" /\ ~stored.got
  /\ \/ stored' = [got |-> TRUE, err |-> FALSE, lines |-> Sorted(History)] /\ UNCHANGED bounds
     \/ Fault /\ stored' = [stored EXCEPT !.err = TRUE]
  /\ UNCHANGED <<server, conn, hook, opened, known, toast, lossy>>

\* Mutant of Receive: no deduplication.
ReceiveUnchecked ==
  /\ sock = "open" /\ wire # <<>> /\ Head(wire) \notin Codes
  /\ hook' = [hook EXCEPT !.seen = @ \cup {Head(wire)}, !.buffer = @ \cup {Head(wire)}]
  /\ wire' = Tail(wire)
  /\ UNCHANGED <<server, sub, handler, sock, opened, known, stored, toast, bounds, lossy>>

\* onmessage: a new line is remembered and buffered for the next frame.
Receive ==
  /\ sock = "open" /\ wire # <<>> /\ Head(wire) \notin Codes
  /\ LET line == Head(wire)
         kept == IF Cardinality(hook.seen) >= MaxSeen
                 THEN {i \in hook.seen : Cardinality({j \in hook.seen : j >= i}) <= SeenTrim}
                 ELSE hook.seen
     IN hook' = IF line \in hook.seen THEN hook
                ELSE [hook EXCEPT !.seen = kept \cup {line}, !.buffer = @ \cup {line}]
  /\ wire' = Tail(wire)
  /\ UNCHANGED <<server, sub, handler, sock, opened, known, stored, toast, bounds, lossy>>

\* The animation frame: the batch, sorted, goes to the end of the shown lines.
Frame ==
  /\ hook.buffer # {}
  /\ hook' = [hook EXCEPT !.live = @ \o Sorted(hook.buffer), !.buffer = {}]
  /\ UNCHANGED <<server, conn, opened, known, stored, toast, bounds, lossy>>

\* onclose: a normal close is the end, any other is retried while the execution runs.
OnClose ==
  /\ wire # <<>> /\ Head(wire) \in Codes
  /\ LET off == [hook EXCEPT !.connected = FALSE] IN
     Becomes(IF Head(wire) = Normal THEN [off EXCEPT !.clean = TRUE]
             ELSE IF hook.retries >= MaxRetries THEN [off EXCEPT !.maxed = TRUE]
             ELSE [off EXCEPT !.retries = @ + 1, !.timer = TRUE])
  /\ sock' = "none" /\ Hangup
  /\ UNCHANGED <<server, opened, known, stored, bounds, lossy>>

Reconnect ==
  /\ hook.timer /\ Streaming
  /\ hook' = [hook EXCEPT !.timer = FALSE] /\ sock' = "connecting"
  /\ UNCHANGED <<server, sub, handler, wire, opened, known, stored, toast, bounds, lossy>>

\* The user closes the notice.
DismissToast ==
  /\ Screen.toast /\ toast' = [toast EXCEPT !.open = FALSE]
  /\ UNCHANGED <<server, conn, hook, opened, known, stored, bounds, lossy>>

Execution == Publish \/ Flush \/ LogChannelDrained \/ BrokerClose \/ FinishExecution
Server    == Accept \/ SendFinished \/ Subscribe \/ SendHistory \/ Recheck \/ Stream
Browser   == PollStatus \/ FetchLogs \/ Receive \/ Frame \/ OnClose \/ Reconnect
Outside   == OpenViewer \/ CloseViewer \/ DismissToast \/ Crash \/ Refuse \/ SubscriberLimit \/ ConnectionLost

LogsNext == Execution \/ Server \/ Browser \/ Outside

LogsSpec == LogsInit /\ [][LogsNext]_logsVars

----------------------------------------------------------------------------
(* Properties. *)

Frames == 1..MaxLines \cup Codes

LogsTypeOK ==
  /\ stage \in {"running", "ending", "closed", "finished"}
  /\ n \in 0..MaxLines /\ saved \in 0..n /\ db \subseteq 1..n
  /\ sub \in [on : BOOLEAN, closed : BOOLEAN, q : Seq(1..MaxLines)]
  /\ handler \in [pc : {"none", "upgraded", "subscribed", "sent", "stream"},
                  running : BOOLEAN, replay : SUBSET (1..MaxLines)]
  /\ wire \in Seq(Frames) /\ sock \in {"none", "connecting", "open"}
  /\ hook \in [seen : SUBSET (1..MaxLines), buffer : SUBSET (1..MaxLines),
               live : Seq(1..MaxLines), connected : BOOLEAN, clean : BOOLEAN,
               maxed : BOOLEAN, retries : 0..MaxRetries, timer : BOOLEAN]
  /\ opened \in BOOLEAN /\ known \in {"running", "finished"}
  /\ stored \in [got : BOOLEAN, err : BOOLEAN, lines : Seq(1..MaxLines)]
  /\ toast \in [open : BOOLEAN, was : BOOLEAN]
  /\ faults \in 0..MaxFaults /\ opens \in 0..MaxOpens /\ lossy \in BOOLEAN

\* No line is shown twice, however often history, replay and live stream overlap across
\* reconnects: onmessage drops what it has seen ("deduplicated by per-execution seq").
LiveUnique ==
  /\ IsInjective(hook.live)
  /\ hook.buffer \cap ToSet(hook.live) = {}

\* As long as no channel overflowed and no statement failed, the live view is the log so far:
\* a gapless prefix in order, whatever the interleaving of publishing, flushing, subscribing,
\* reading the history and losing connections (broker.go: "ensuring no lines are lost between
\* a database fetch and the subscription start").
LiveContiguous ==
  ~lossy => LET got == hook.live \o Sorted(hook.buffer)
            IN got = [i \in 1..Len(got) |-> i]

\* The stored log is fetched once and never again, so it must be complete when it is fetched:
\* the last batch is written before the execution is marked finished.
FinalComplete ==
  stored.got => stored.lines = Sorted(History) /\ saved = n /\ stage = "finished"

\* The notice of a lost stream is up only while the stream is lost: a reconnect, a normal close,
\* the end of the execution and the next opening of the drawer take it down.
NoticeTrue ==
  Screen.toast => Streaming /\ ~hook.connected /\ ~hook.clean

\* What the viewer shows of an execution is its log: no line twice, none missing, the stored log
\* complete, the notice true.
LogExact == LogsTypeOK /\ LiveUnique /\ LiveContiguous /\ FinalComplete /\ NoticeTrue

\* An open viewer of a finished execution ends up showing exactly the stored log.
EventuallyShown ==
  (opened /\ stage = "finished") ~> (~opened \/ Shown = Sorted(History))

----------------------------------------------------------------------------
(* Why LogExact holds.                                                     *)

\* The lines the hook has, and whether every line of a sequence of frames comes after those
\* before it: they are known, or earlier in the sequence.
Got == ToSet(hook.live) \cup hook.buffer
Follows(frames, S) ==
  \A k \in 1..Len(frames) :
    \/ frames[k] \in Codes
    \/ \A i \in 1..(frames[k] - 1) : i \in S \/ \E j \in 1..(k - 1) : frames[j] = i

\* Whose turn it is: without a socket there is no handler, a handler that has subscribed is a
\* subscriber, the notice is settled by the time a socket is open.
Connected ==
  /\ known = "finished" => stage = "finished" /\ sock = "none" /\ hook.buffer = {} /\ ~hook.timer
  /\ ~opened => sock = "none"
  /\ sock # "open" => handler = NoHandler /\ \A k \in 1..Len(wire) : wire[k] = Abnormal
  /\ sock = "none" => wire = <<>>
  /\ sock = "open" => hook.connected
  /\ hook.timer => sock = "none"
  /\ sub.on <=> handler.pc \in {"subscribed", "sent", "stream"}
  /\ ~sub.on => sub = NoSub

\* A batch is never larger than the ring, and none is left once the broker has closed.
Batched == n - saved <= FlushSize /\ (stage \in {"closed", "finished"} => saved = n)

\* Lines before the queue of the subscriber.
Before == 1..(n - Len(sub.q))

\* Without a loss the stored lines, the shown ones, those on the wire and those in the channel
\* join up: what comes next is never more than one line ahead of all before it.
Gapless ==
  /\ db = 1..saved
  /\ \A i \in 1..Len(hook.live) : hook.live[i] = i
  /\ \E l \in Nat : hook.buffer = (Len(hook.live) + 1)..l
  /\ Follows(wire, Got)
  /\ Len(sub.q) <= n /\ \A k \in 1..Len(sub.q) : sub.q[k] = n - Len(sub.q) + k
  /\ handler.pc = "subscribed" => /\ handler.replay \subseteq Before
                                  /\ \A i \in Before : i <= saved \/ i \in handler.replay
  /\ handler.pc \in {"sent", "stream"} => \A i \in Before : i \in Got \cup ToSet(wire)

LogsInv ==
  /\ LogsTypeOK /\ Connected /\ Batched /\ LiveUnique /\ FinalComplete /\ NoticeTrue
  /\ known = "running" => hook.seen = Got
  /\ ~lossy => Gapless

=============================================================================
