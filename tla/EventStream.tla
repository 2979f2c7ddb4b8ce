----------------------------- MODULE EventStream -----------------------------
(***************************************************************************)
(* How the canvas follows the engine: the event bus                        *)
(* (backend/src/astro_canvas/engine/events.py), one client's WebSocket     *)
(* session (server/ws.py), its socket (frontend/src/api/ws.ts) and the     *)
(* execution and session stores (frontend/src/stores/execution.ts,         *)
(* session.ts), for one open workflow.                                     *)
(*                                                                         *)
(* The engine publishes every status change into the subscription's        *)
(* bounded queue: on the event loop at once, and from the thread of a      *)
(* trust or pack request (recompile_all, Scheduler.update) by a callback   *)
(* of the loop.  A forwarder task sends the queue's events while the       *)
(* command loop answers `subscribe` with a snapshot; both take the send    *)
(* lock for every message, first come first served.  Independently, the    *)
(* client asks for the status and starts runs over HTTP, whose answers     *)
(* arrive at any time relative to the socket's messages.                   *)
(*                                                                         *)
(* A node's status is the number of the change that made it; a run is the  *)
(* number of its start.  Summaries, logs and progress are left out.        *)
(***************************************************************************)
EXTENDS Integers, Sequences, FiniteSets

CONSTANTS
  NumNodes,    \* nodes of the workflow
  Threads,     \* threads of the server's pool that recompile the workflow
  QueueMax,    \* Subscription.queue's maxsize
  MaxNews,     \* bound on the status changes and the runs together
  MaxNetwork   \* bound on the runs started over HTTP, the answered GETs of the status (the
               \* others fail) and the lost connections together

Nodes == 1..NumNodes
ASSUME EventStreamAssumption ==
  /\ NumNodes \in Nat \ {0} /\ QueueMax \in Nat \ {0}
  /\ {MaxNews, MaxNetwork} \subseteq Nat

VARIABLES
  records,  \* Scheduler.records: the status of each node
  due,      \* for each thread in Scheduler.update, the nodes whose status it has still to emit
  held,     \* the event it is about to publish
  calls,    \* call_soon_threadsafe: the events that wait for the loop
  current,  \* Scheduler.current_run (0: none)
  pending,  \* runs accepted by start_run that have not begun
  conn,     \* the client's socket is open
  session,  \* what the server's command loop for this socket is doing
  todo,     \* the statuses of the snapshot it still has to send
  queue,    \* Subscription.queue
  sends,    \* the send lock: its holder first, then who waits for it
  wire,     \* messages sent and not received
  wanted,   \* WsClient.workflowId is set
  asked,    \* GETs of the status not answered, by the function that waits
  answers,  \* their answers on the way back
  accepted, \* answers of POSTs of runs on the way back
  view,     \* the status of each node in the execution store
  shown,    \* currentRunId
  changes, runs, posts, statuses, losses,
  behind,   \* the parts of the canvas whose news this subscription was not given last
  disputed  \* the parts that an answer over HTTP changed after the socket's last word

loop == <<records, current, pending, changes, runs>>
threads == <<due, held, calls>>
engine == <<loop, threads>>
server == <<session, todo, queue, sends, behind>>
socket == <<conn, wire, wanted, losses>>
store == <<view, shown, disputed>>
http == <<asked, answers, accepted, posts, statuses>>
streamVars == <<engine, server, socket, store, http>>

Status(n, v, kind) == [type |-> kind, node |-> n, v |-> v]
Run(r, kind) == [type |-> kind, run |-> r]
Issues == [type |-> "validation"]
Nothing == [type |-> "none"]

\* What the canvas shows: the status of each node and the run in progress (0).
Parts == 0..NumNodes
Functions == {"openWorkflow", "refresh"}

StreamInit ==
  /\ records = [n \in Nodes |-> 0] /\ current = 0 /\ pending = {}
  /\ due = [t \in Threads |-> {}] /\ held = [t \in Threads |-> Nothing] /\ calls = <<>>
  /\ conn = FALSE /\ session = "none" /\ todo = <<>>
  /\ queue = <<>> /\ sends = <<>> /\ wire = <<>> /\ wanted = FALSE
  /\ asked = [f \in Functions |-> IF f = "openWorkflow" THEN 1 ELSE 0]
  /\ answers = {} /\ accepted = {}
  /\ view = [n \in Nodes |-> 0] /\ shown = 0
  /\ changes = 0 /\ runs = 0 /\ posts = 0 /\ statuses = 0 /\ losses = 0
  /\ behind = {} /\ disputed = {}

(***************************************************************************)
(* The engine and the bus.                                                 *)
(***************************************************************************)
IsSubscribed == session \in {"subscribed", "validation", "snapshot", "serving"}

\* EventBus._deliver: the subscription takes the event unless its queue is full.  What it was not
\* given, or is not the latest, leaves that part of the canvas behind; a later event of the
\* node makes up for it, the runs' for the next subscription only.
Offer(event, part, isLatest) ==
  IF ~IsSubscribed THEN UNCHANGED <<queue, behind>>
  ELSE IF Len(queue) < QueueMax
  THEN /\ queue' = Append(queue, event)
       /\ behind' = IF ~isLatest THEN behind \cup {part}
                    ELSE IF part = 0 THEN behind ELSE behind \ {part}
  ELSE behind' = behind \cup {part} /\ UNCHANGED queue

\* EventBus.publish on the loop.
ChangeStatus(n) ==
  /\ changes + runs < MaxNews
  /\ changes' = changes + 1
  /\ records' = [records EXCEPT ![n] = changes + 1]
  /\ Offer(Status(n, changes + 1, "event"), n, TRUE)
  /\ UNCHANGED <<current, pending, runs, threads, session, todo, sends, socket, store, http>>

\* Scheduler.update on a thread: the records change, then one node after the other
\* has its status read and published.
ThreadUpdates(t) ==
  /\ due[t] = {} /\ held[t] = Nothing /\ changes + runs < MaxNews
  /\ changes' = changes + 1
  /\ \E ns \in SUBSET Nodes \ {{}} :
       /\ records' = [n \in Nodes |-> IF n \in ns THEN changes + 1 ELSE records[n]]
       /\ due' = [due EXCEPT ![t] = ns]
  /\ UNCHANGED <<current, pending, runs, held, calls, server, socket, store, http>>

ThreadReads(t, n) ==
  /\ n \in due[t] /\ held[t] = Nothing
  /\ due' = [due EXCEPT ![t] = @ \ {n}]
  /\ held' = [held EXCEPT ![t] = Status(n, records[n], "deferred")]
  /\ UNCHANGED <<loop, calls, server, socket, store, http>>

\* EventBus.publish off the loop.
ThreadPublishes(t) ==
  /\ held[t] # Nothing
  /\ calls' = Append(calls, held[t])
  /\ held' = [held EXCEPT ![t] = Nothing]
  /\ UNCHANGED <<loop, due, server, socket, store, http>>

\* The callback runs on the loop.
Deliver ==
  /\ calls # <<>>
  /\ calls' = Tail(calls)
  /\ LET event == Head(calls) IN Offer(event, event.node, event.v = records[event.node])
  /\ UNCHANGED <<loop, due, held, session, todo, sends, socket, store, http>>

\* Runs take turns (the run lock); an auto-run has not been accepted before.
BeginRun(r) ==
  /\ current = 0
  /\ \/ r \in pending /\ (\A p \in pending : r <= p) /\ UNCHANGED runs
     \/ r = runs + 1 /\ changes + runs < MaxNews /\ runs' = r
  /\ current' = r /\ pending' = pending \ {r}
  /\ Offer(Run(r, "started"), 0, TRUE)
  /\ UNCHANGED <<records, changes, threads, session, todo, sends, socket, store, http>>

\* Scheduler.run's end: run.finished is published as _current is cleared.
FinishRun ==
  /\ current # 0
  /\ Offer(Run(current, "finished"), 0, TRUE)
  /\ current' = 0
  /\ UNCHANGED <<records, pending, changes, runs, threads, session, todo, sends, socket, store, http>>

(***************************************************************************)
(* The WebSocket session.                                                  *)
(***************************************************************************)
InLine(who) == \E i \in DOMAIN sends : sends[i].who = who
HasSent(who) == sends # <<>> /\ Head(sends).who = who
Request(who, message) == [who |-> who, message |-> message]
Statuses == [n \in Nodes |-> Status(n, records[n], "snapshot")]

\* A subscribe message: the subscription is live at once, the reply, the issues
\* and the snapshot follow, each when the send before it is over.
HandleSubscribe ==
  /\ session = "asked"
  /\ session' = "subscribed"
  /\ sends' = Append(sends, Request("commands", Run(current, "subscribed")))
  /\ UNCHANGED <<engine, todo, queue, behind, socket, store, http>>

\* The holder of the lock has sent its message, and the next in line holds it.
Release == wire' = Append(wire, Head(sends).message)
NextReply(message) == sends' = Append(Tail(sends), Request("commands", message))

ReplySent ==
  /\ HasSent("commands") /\ session = "subscribed" /\ Release
  /\ session' = "validation" /\ NextReply(Issues)
  /\ UNCHANGED <<engine, todo, queue, behind, conn, wanted, losses, store, http>>

\* A plausible bug: the reply to subscribe has no snapshot.
IssuesSentLast ==
  /\ HasSent("commands") /\ session = "validation" /\ Release
  /\ session' = "serving" /\ sends' = Tail(sends)
  /\ UNCHANGED <<engine, todo, queue, behind, conn, wanted, losses, store, http>>

\* scheduler.snapshot() is taken here, once for all its messages.
IssuesSent ==
  /\ HasSent("commands") /\ session = "validation" /\ Release
  /\ session' = "snapshot" /\ NextReply(Head(Statuses)) /\ todo' = Tail(Statuses)
  /\ UNCHANGED <<engine, queue, behind, conn, wanted, losses, store, http>>

StatusSent ==
  /\ HasSent("commands") /\ session = "snapshot" /\ Release
  /\ IF todo = <<>>
     THEN session' = "serving" /\ sends' = Tail(sends) /\ UNCHANGED todo
     ELSE NextReply(Head(todo)) /\ todo' = Tail(todo) /\ UNCHANGED session
  /\ UNCHANGED <<engine, queue, behind, conn, wanted, losses, store, http>>

\* A plausible bug: a forwarded event goes ahead of who waits for the lock.
ForwardAhead ==
  /\ IsSubscribed /\ queue # <<>>
  /\ queue' = Tail(queue)
  /\ sends' = <<Request("forwarder", Head(queue))>> \o sends
  /\ UNCHANGED <<engine, session, todo, behind, socket, store, http>>

\* The forwarder takes the next event and sends it when the lock is its own.
Forward ==
  /\ IsSubscribed /\ queue # <<>> /\ ~InLine("forwarder")
  /\ queue' = Tail(queue)
  /\ sends' = Append(sends, Request("forwarder", Head(queue)))
  /\ UNCHANGED <<engine, session, todo, behind, socket, store, http>>

EventSent ==
  /\ HasSent("forwarder") /\ Release
  /\ sends' = Tail(sends)
  /\ UNCHANGED <<engine, session, todo, queue, behind, conn, wanted, losses, store, http>>

(***************************************************************************)
(* The client's socket.                                                    *)
(***************************************************************************)
\* onopen: subscribe if a workflow is wanted, and ask for its status.
SocketOpens ==
  /\ ~conn
  /\ conn' = TRUE
  /\ session' = IF wanted THEN "asked" ELSE "idle"
  /\ asked' = IF wanted THEN [asked EXCEPT !["refresh"] = @ + 1] ELSE asked
  /\ UNCHANGED <<engine, todo, queue, sends, behind, wire, wanted, losses, store,
                 answers, accepted, posts, statuses>>

\* The connection breaks; what was queued or on the wire is gone.
SocketBreaks ==
  /\ conn /\ posts + statuses + losses < MaxNetwork
  /\ losses' = losses + 1
  /\ conn' = FALSE /\ session' = "none" /\ behind' = {}
  /\ todo' = <<>> /\ queue' = <<>> /\ sends' = <<>> /\ wire' = <<>>
  /\ UNCHANGED <<engine, wanted, store, http>>

\* A plausible bug: a finished run is shown as running until the next one starts.
ShownKept(m) ==
  CASE m.type \in {"subscribed", "started"} -> m.run
    [] OTHER -> shown

\* What the socket's next message does to currentRunId.
Shown(m) ==
  CASE m.type \in {"subscribed", "started"} -> m.run
    [] m.type = "finished" /\ shown = m.run -> 0
    [] OTHER -> shown

IsStatus(m) == m.type \in {"event", "deferred", "snapshot"}
Names(m) == m.type \in {"subscribed", "started"} \/ (m.type = "finished" /\ shown = m.run)

Receive ==
  /\ wire # <<>>
  /\ LET m == Head(wire) IN
     /\ view' = IF IsStatus(m) THEN [view EXCEPT ![m.node] = m.v] ELSE view
     /\ shown' = Shown(m)
     /\ disputed' = IF IsStatus(m) THEN disputed \ {m.node}
                    ELSE IF Names(m) THEN disputed \ {0} ELSE disputed
  /\ wire' = Tail(wire)
  /\ UNCHANGED <<engine, server, conn, wanted, losses, http>>

(***************************************************************************)
(* HTTP.                                                                   *)
(***************************************************************************)
\* The server answers a GET of the status.
StatusServed(f) ==
  /\ asked[f] > 0 /\ posts + statuses + losses < MaxNetwork
  /\ statuses' = statuses + 1
  /\ asked' = [asked EXCEPT ![f] = @ - 1]
  /\ answers' = answers \cup {[for |-> f, nodes |-> records, run |-> current]}
  /\ UNCHANGED <<engine, server, socket, store, accepted, posts>>

\* openWorkflow goes on after its refreshStatus, whatever came of it.
Subscribe(f) ==
  IF f = "openWorkflow"
  THEN wanted' = TRUE /\ session' = IF conn THEN "asked" ELSE session
  ELSE UNCHANGED <<wanted, session>>

\* applySnapshot.
StatusApplied(a) ==
  /\ a \in answers
  /\ answers' = answers \ {a}
  /\ view' = a.nodes /\ shown' = a.run
  /\ disputed' = disputed \cup {n \in Nodes : a.nodes[n] # view[n]}
                         \cup (IF a.run # shown THEN {0} ELSE {})
  /\ Subscribe(a.for)
  /\ UNCHANGED <<engine, todo, queue, sends, behind, conn, wire, losses, asked, accepted,
                 posts, statuses>>

\* refreshStatus swallows a failed GET.
StatusFails(f) ==
  /\ asked[f] > 0
  /\ asked' = [asked EXCEPT ![f] = @ - 1]
  /\ Subscribe(f)
  /\ UNCHANGED <<engine, todo, queue, sends, behind, conn, wire, losses, store, answers,
                 accepted, posts, statuses>>

\* The server accepts a run (Scheduler.start_run).
PostRun ==
  /\ wanted /\ posts + statuses + losses < MaxNetwork /\ changes + runs < MaxNews
  /\ posts' = posts + 1
  /\ runs' = runs + 1 /\ pending' = pending \cup {runs + 1}
  /\ accepted' = accepted \cup {runs + 1}
  /\ UNCHANGED <<records, current, changes, threads, server, socket, store, asked, answers, statuses>>

\* session.run: the answer names the current run.
RunAccepted(r) ==
  /\ r \in accepted
  /\ accepted' = accepted \ {r}
  /\ shown' = r
  /\ disputed' = IF r # shown THEN disputed \cup {0} ELSE disputed
  /\ UNCHANGED <<engine, server, socket, view, asked, answers, posts, statuses>>

StreamNext ==
  \/ \E n \in Nodes : ChangeStatus(n)
  \/ \E t \in Threads : ThreadUpdates(t) \/ ThreadPublishes(t) \/ \E n \in Nodes : ThreadReads(t, n)
  \/ Deliver
  \/ \E r \in 1..MaxNews : BeginRun(r) \/ RunAccepted(r)
  \/ FinishRun
  \/ HandleSubscribe \/ ReplySent \/ IssuesSent \/ StatusSent \/ Forward \/ EventSent
  \/ SocketOpens \/ SocketBreaks \/ Receive
  \/ \E f \in Functions : StatusServed(f) \/ StatusFails(f)
  \/ \E a \in answers : StatusApplied(a)
  \/ PostRun

StreamSpec == StreamInit /\ [][StreamNext]_streamVars

\* Tasks, threads and messages make progress, requests are answered or fail, runs end, and
\* the client reconnects until it succeeds.
FairStreamSpec ==
  /\ StreamSpec
  /\ \A t \in Threads : WF_streamVars(ThreadPublishes(t) \/ \E n \in Nodes : ThreadReads(t, n))
  /\ WF_streamVars(Deliver)
  /\ WF_streamVars(HandleSubscribe) /\ WF_streamVars(ReplySent) /\ WF_streamVars(IssuesSent)
  /\ WF_streamVars(StatusSent) /\ WF_streamVars(Forward) /\ WF_streamVars(EventSent)
  /\ WF_streamVars(SocketOpens) /\ WF_streamVars(Receive) /\ WF_streamVars(FinishRun)
  /\ WF_streamVars(\E r \in pending : BeginRun(r))
  /\ \A f \in Functions : WF_streamVars(StatusServed(f) \/ StatusFails(f))
  /\ WF_streamVars(\E a \in answers : StatusApplied(a))
  /\ \A r \in 1..MaxNews : WF_streamVars(RunAccepted(r))

(***************************************************************************)
(* Properties.                                                             *)
(***************************************************************************)
\* Nothing is on its way to the client any more, and it is subscribed.
Quiet ==
  /\ session = "serving" /\ queue = <<>> /\ sends = <<>> /\ wire = <<>>
  /\ calls = <<>> /\ \A t \in Threads : due[t] = {} /\ held[t] = Nothing

IsCurrent(part) == IF part = 0 THEN shown = current ELSE view[part] = records[part]

\* "WS events keep the state current" (session.ts:83): once every message has been
\* received, each part of the canvas is as the engine has it, after any number of
\* reconnects and answered GETs and POSTs, with two exceptions, for which the code has
\* no remedy: the subscription was not given the latest news (its queue was full, or an
\* event published on a thread was overtaken by the loop's), or an answer over HTTP came
\* after the socket's last word and says something else (nothing tells the older of the
\* two, session.ts:80).  (Of several nodes one may also be overtaken: ws.py:169 goes on
\* with a snapshot that an event of another node, sent in between, has made too old.)
ViewIsCurrent == Quiet => \A part \in Parts \ (behind \cup disputed) : IsCurrent(part)

\* Across reconnects, and with the same exceptions, the canvas catches up for good.
CatchesUp == <>[](\A part \in Parts \ (behind \cup disputed) : IsCurrent(part))

\* The messages on their way to the client, the next to arrive first.
OnTheWay == wire \o [i \in DOMAIN sends |-> sends[i].message] \o queue

\* Whoever waits for the send lock, however the snapshot's messages are mixed in and
\* whatever the threads publish: what is ahead of an event of the loop is older.  (An
\* event of a thread may be older than what is ahead of it.)
EventsInOrder ==
  \A i, j \in DOMAIN OnTheWay :
    i < j /\ OnTheWay[i].type \in {"event", "deferred"} /\ OnTheWay[j].type = "event"
      => OnTheWay[i].v < OnTheWay[j].v
=============================================================================
