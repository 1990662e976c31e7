# c9watch engine: specification and proofs

These modules specify the core of the c9watch agent engine
(`src/src-tauri/core/src/engine/`): the part of the program that drives coding
agents on pseudo-terminals, keeps their records in SQLite, and carries mail
between them and the people who run them, and of the desktop window that
follows it. Every definition is translated from the Rust source;
`PROJECT.json` maps it to the lines it stands for.

## 1. The system

One engine process per home directory holds a lock, owns the only writable
SQLite connection (a thread that runs closures in order, one transaction
each), and serves a socket. Everything else reads through other connections.

| Component | State | Operations | Talks to |
|---|---|---|---|
| Mail ledger (`mail.rs`) | `messages`, `message_status`, `mail_pause` | send, take, requeue, mark, evidence, late evidence, cancel, pause, agent end, boot | called by API handlers, supervisors, hooks, receipts, boot, each in a transaction |
| Mail delivery (`create.rs` `deliver`, `cc_inbox.rs`, `cc_listener.rs`, `peer_log.rs`) | the supervisor's `Delivery`, `socket_jobs` | one step per tick of the agent's supervisor; a thread per socket write; receipts on the engine's own socket; queue operations and evidence from the transcript | ledger, PTY, peer socket, merge |
| Agent lifecycle (`create.rs`, `ops.rs`, `generation.rs`, `agents.rs`, `lineage.rs`, `run.rs`) | `agents`, `agent_state`, `ops`, the live table, processes | create, resume, retire, fail, orphan, reconcile at boot | ledger (an agent's end), live table, event log |
| Drain (`drain.rs`) | the switch, the report | block new work, wait for turns, settle, kill | supervisors, ledger |
| Event log (`db/outbox.rs`, `db/mod.rs`) | `events`, the head watch | append in the transaction of the change, prune, compact, subscribe | every writer; clients over the socket |
| Hook intake and merge (`hooks.rs`, `merge.rs`, `standing.rs`) | `dedupe`, claims per source, turn, attention | hooks of the agent's process, screen claims, expiry of holds | lifecycle (generation), ledger (prompt evidence), delivery (`turn_open`) |
| Idempotency cache (`idem.rs`) | slots per key | run once, replay, evict | create, retire, stop |
| Writer (`db/writer.rs`) | job queue, thread | call, close | everyone |
| Lock, spawn, client (`engine_proto/`) | the lock file, the engine's pid | auto-start, restart, stop | command line, desktop |
| API, authorization (`api.rs`, `authz.rs`, `principal.rs`, `guard.rs`) | connections | dispatch, stamp the principal | all of the above |
| Detection (`detect.rs`, `views/sessions.rs`) | the last views by key, the committed views | observe, diff, write, commit; `session.views` | event log, clients |
| Desktop window (`bridge.rs`, `polling.rs`, `live.ts`, `session-feed.ts`) | the link's health, streams, subscriptions, the feed's stage and cursor | connect, subscribe, fall back, scan, show | event log over the socket, its own scans without it |
| Scanner, gateway, command line, other views, website | caches and views | parsing, polling, rendering | read the engine's state |

What makes it hard:

* A supervisor reads the store in one transaction and writes it in a later
  one. In between, receipts, hooks, transcript evidence, a person's cancel, a
  retire or a drain may settle or requeue the same message.
* A message travels to another program that may swallow it, delay it, hold it,
  lose its acknowledgement, or act on it after the engine gave up. The ledger
  promises at most one delivery and a truthful result all the same.
* The engine may stop between any two steps. Sessions and socket writes can
  outlive it, and what they report belongs to another generation.
* The engine starts and ends under clients that probe, spawn and signal it,
  and a client can die in the middle of any of that.
* A window follows the engine over a link that comes and goes, beside a
  fallback that looks at the same sessions with its own eyes.
* Many results meet in one notice to the sender, which is itself a message.

For each component, what makes it correct:

* Ledger: one message in flight per target; results are final; no mail is left
  in a dead mailbox; every sender is told, in time and of what still stands; a
  key names one message; limits hold in every window.
* Delivery: a message called undelivered has not arrived and cannot arrive; at
  most one delivery; `delivered` over the socket means received; no wait
  without a deadline; nothing but ledger operations touches the table.
* Lifecycle: the row, the op and the process agree after every crash; one
  process per generation; a process that cannot be killed stays on record.
* Event log: a subscriber sees every event in order, or is told that it
  cannot.
* Hooks and merge: an event counts once and only for the live generation; the
  merge never runs ahead of the store; each turn ends once.
* Cache and writer: one write per key while its record is kept, true answers,
  no deadlock at a full queue or at close.
* Lock, spawn, client: one engine per home owns the database, the lock and the
  socket; a signal hits nothing but that engine; no call hangs.
* Desktop window: it comes to show the sessions there are, whether the engine
  is up or not, but for one that ended between two runs of the engine; and a
  stream that runs has no gap.

## 2. Modules

| Module | Models | Role |
|---|---|---|
| `MailLedger` | `mail.rs` | the ledger under arbitrary callers |
| `MailDelivery` | `create.rs` delivery, `cc_inbox.rs`, `cc_listener.rs`, `peer_log.rs`, the parts of retire, drain and boot that touch mail | composes supervisors, sessions and users over the ledger |
| `MailPromise` | | abstract: what a message's sender may rely on |
| `EventLog` | `db/outbox.rs`, the write path of `db/mod.rs`, `events.subscribe` and `EventStream` in `api.rs`, the cursor handling of `bridge.rs` | the log under arbitrary writers, and clients that resume |
| `SessionViews` | `views/sessions.rs`, `Detector::tick` in `detect.rs`, the bridge's copy of the sessions | composes detection and the client over an instance of `EventLog`, which it implements |
| `AgentLifecycle` | `create.rs`, `ops.rs`, `lineage.rs`, `drain.rs`, `run.rs` | agents, their processes and threads, over boots, drains, stops and crashes |
| `AgentPromise` | | abstract: what an agent's user may rely on |
| `HookIntake` | `hooks.rs`, `merge.rs`, the supervisor's `run` loop in `create.rs`, `generation.rs` | composes the hooks of a process with its screen, the merge and the writer |
| `DbWriter` | `db/writer.rs`, `tx_job` in `db/mod.rs` | the one writer: queue, thread, callers, close |
| `IdemCache` | `idem.rs` | composes keyed requests over the writer |
| `EngineLock` | `engine_proto/lock.rs`, `spawn.rs`, `engine/run.rs`, `sock.rs` | engines, clients and the operating system between them |
| `DesktopFeed` | `bridge.rs`, `polling.rs`, `session-feed.ts`, `live.ts` | the desktop window over an engine that comes and goes |
| `Mail_proofs` | | theorems about `MailLedger` and `MailDelivery` |
| `EventLog_proofs`, `SessionViews_proofs`, `AgentLifecycle_proofs`, `HookIntake_proofs`, `IdemCache_proofs`, `EngineLock_proofs`, `DesktopFeed_proofs` | | theorems about the module each is named for |
| `MC*` | | small instances for TLC |

### MailLedger

A row of `messages` is a record; rows are numbered in insertion order, which
is the order of `created_at, rowid`. One action is one transaction, because
the writer runs one at a time. `Record` is the private `record` of `mail.rs`
with `notify_sender` and `refresh_notice` inside it, for the one row or for
all rows an agent's end or a boot settles. Abstracted: bodies (a value the
dedupe compares), the text of a notice (the set of rows it lists), ids,
previews, threads, principals other than their kind. Time is `now_ms()` at the
writer, in units of the shortest delay that a run distinguishes.

Three columns are kept only where something reads them, to keep the state
space small: `notBefore` for queued rows, `stateAt` for uncertain ones,
`createdAt` for mail from agents.

### MailDelivery

`sup[a].at` is the supervisor's `Delivery` with one value per point where
other threads can run: `chosen` lies between the read of the queue and the
take, `taken` between the take and the write, `givingup` between the deadline
and the transaction that marks the row. `job` is the thread of a socket write.
`tty`, `cc` and `got` are the session's side: bytes on their way, its input
box, its turn, its socket inbox and what its context received. `hints` and
`receipts` are reports under way; they may be lost by never being processed.

Timeouts are nondeterministic: a deadline may pass whenever its phase allows
it. What a deadline depends on (a note already read, a turn that has ended
before or after the enqueue) is in the state.

A write of the supervisor may fail (`StoreFails`): the code logs it and goes
on with its own phase.

The session is external. Its actions are those that the engine's code reacts
to: it may swallow a paste or a return, take a socket message at once, after a
hold or after queueing it, refuse it, lose it, start and end turns of its own,
clear its box and die.

### MailPromise and the refinement

`MailPromise` knows of each message a fate, whether its last attempt went
through an input box, and how often a context received it. `MailDelivery`
implements it (`KeepsPromise`) under the mapping state -> fate, and implements
the ledger specification (`LedgerSpec`), so what holds of the ledger under
arbitrary callers holds of the engine.

### EventLog

`events` is the table; `log` is a history variable, every row committed in
this epoch, which the properties compare with what clients were delivered. A
commit (`Write`) and its broadcast (`Publish`) are two steps, because the
writer may be stopped between them and streams read in between; `unsent` keeps
the writer from its next job until the broadcast is out. A stream reads, finds
rows or nothing (`empty`), calls `head.changed()` (`Park`) and is woken: the
read runs on another thread and a commit may land before the stream waits.
`woken` is the watch channel's changed mark. `wire` holds the frames sent and
not processed; a stream's frames arrive in order, so a set with the order of
`seq` suffices.

A client has a cursor or none. It keeps it when the connection breaks or the
engine restarts, drops it on `cursor_expired`, and then reads a snapshot and
its cursor. What a snapshot contains is left to `SessionViews`.

Abstracted: payloads (`Events` is any set), topics and subjects (`Wanted`),
timestamps. `prune_with` deletes up to the newest row older than the cutoff;
the clock may go back, so that row may be any row, and `Prune` takes any
limit. `Restart` is one step: the store is pruned and its head read before the
socket is bound, so no client acts in between.

### SessionViews

A view is a key and a version of its content. The tick is three steps (observe
and diff; write; commit of the views with the head cursor), since other
writes, streams and `session.views` run between them; the writer answers the
tick only after the broadcast of its last seq (`tick.last`). A tick may fail
before its write and then changes nothing. The versions and seqs that `by_key`
holds are `views.ver` and `views.seq`. The tick of a run that has no committed
views writes the diagnostics, which it does not know either; this is what
keeps the newest row, so that `compact_views_before` never empties the end of
the log (mutant `DiagEventsLater`).

`session.views` may be answered before the first commit, when the first pass
fails or takes longer than 15 seconds; the head is then read after the views
(`ReadNoViews`, `ReadHead`). `taken` is a history variable: in which run a
client last read committed views. The promises that hold are about such
clients; the general ones are not kept (section 5). Other events of the
bridge's subscription (`agent.*`, diagnostics) change no session and are left
out of `Wanted`, which keeps a client's cursor behind more often.

### AgentLifecycle and AgentPromise

`db[a]` is what the store says of an agent: the state of its row, the op that
each generation opened and how far it came (`row`, `pty`, closed), and the
child that `agent_state` records (`kept`). `proc[a][g]` is the truth: the
process of a generation, its descendants included, which may be up, dead, or
survive a kill that cannot be confirmed. `sup[a]` is the supervisor's thread
with one place per point between a transaction and an act on the process;
`call[a]` is the request that holds the agent's step lock (a create, a resume,
a retire, the sweep that retires the children of an ended parent). `eng` goes
through boot, reconcile, resume, serving, draining and stopping. `Boot`,
`Reconcile` and `ResumeOne` are the boot's three passes, one agent at a time.

A crash drops threads and calls and keeps processes. `lost` is a history
variable: the processes that nothing keeps track of any more, with the reason.
There are four: a retire in a drain buried it, a forced retire left it, the
engine crashed between the spawn and its record, or a write failed behind a
kill that failed. `ProcessesKept` says that there is no fifth.

`Ancestors` is the least set that holds an agent's parent and its members'
parents. The loop of `lineage.rs` stops after `MAX_DEPTH + 1` ids; `TreeIsTrue`
says that no agent has that many, nor is its own ancestor, so the two agree.

`AgentPromise` knows of an agent its fate (coming, up, resting, ended,
orphaned) and the number of its generation. `PromiseKept` is the refinement.

Abstracted: settings files, names, overlays, the guard and the audit decide
only whether a request begins; `working` stands for every busy state of a row.
The drain's clock is a choice. The effects on mail are in `MailDelivery`,
those on the merge table in `HookIntake`.

### HookIntake

One agent. Its process asks, works, blocks and stops, and sends a hook for
each; the shim delivers it, loses it, or delivers it twice. A request reads
the live generation (`reqs`), then waits for the writer; the transaction
applies the change to a copy of the merge entry (`job`) and the commit
publishes it on the live entry, unless the entry has another generation by
then. The supervisor is the other writer: it follows the screen, claims what
it shows, claims `ready` again once for an idle screen, lets holds run out,
and forgets the entry when the agent ends, between any two of those steps.
`history` counts what committed.

A claim has an activity and a time; `Merged` is the winner of screen and hook
under the rules of `merge.rs`: rank, holds of a blocked turn, `SETTLE_MS`
after a turn's end. Times are ticks; `Horizon` stops the agent early enough
that the screen is read once more and each hold can run out, which is what the
liveness needs.

Left out: session binding, attention flags and their revisions, the `Process`
and `Transcript` sources (production code never calls them), the pruning of
`dedupe` after an hour, and the confirmation of mail (`MailDelivery` has it).
A publication that comes after `MergeTable::remove` brings back the entry of
an ended generation; the next generation replaces it, and `TableIsTrue` speaks
of the live one. A failed screen write is only logged.

### DbWriter and IdemCache

`at[p]` is where a caller is in its call: it takes a clone of the sender, may
wait on a full queue (an async caller sleeps and gives its clone back, a
blocking one keeps it), waits for the reply, and gets its answer. The thread
ends when nobody holds a sender and the queue is empty; `Close` drops the
writer's sender and joins the thread. `oneThread`, chosen at the start, is a
runtime with a single thread, on which `close` stops every async caller until
it returns.

`IdemCache` adds the requests: each finds or makes the slot of its key, locks
it, replays the record if it is fresh and of the same parameters, refuses
other parameters, or writes and records. At `Cap`, unused slots with nothing
to replay go, then the unused slot with the oldest record. `held` is the
reference a request has to its slot, which is what makes a slot used. `spent`
remembers the writes whose record was dropped or ran out: only after those may
a key write again.

One principal and one method: a key stands for all three. A request runs to
its end even if its connection drops. A second close, and the refusal of a job
that calls its own writer, are left out.

### EngineLock

Engines are numbered as they are spawned; `stage` goes from the new process
over the lock, the socket and `serving` to `draining`, `closing` and `dead`. A
client probes the lock with a shared lock, for a moment, which an engine that
starts at that moment must ride out; it holds the spawn lock from its second
probe until the engine answers or its wait is over; a stop or restart signals
only a pid that both the socket's hello and the lock file name. Kernel locks
go with their process. `strangers` are pids of dead engines that other
processes have now; `hit` says that a signal went to one. `orphan` and
`spoiled` excuse calls that met a fault or, for a start, another client's
stop.

Assumed: an engine boots within `READY_TIMEOUT` and `IO_TIMEOUT`; the probes
of others do not line up with all of the tries for the lock in its one second;
the 95 s of a stop's wait are more than the 90 s after which a drain ends; a
pid is not used again between its verification and the signal; nobody starts
an engine by hand. Left out: the refusal of another version, a refused hello,
a spawn that fails, the refusal of agents as callers, the framing of a
connection (`client.rs`, `wire.rs`, `shadow.rs`).

### DesktopFeed

One session stands for them all, as a tick, a scan and the window treat each by
itself: `world` is its content, or 0 when it is not there. The engine is its log
of the session's events (those of others would only move positions) and what
detection committed in this run (`engine.seen`); a cursor is a position of the
log. A tick writes what differs from `seen`, and the first of a run, whose
`seen` is empty, is compared with nothing (`Diff`): a session that is there is
reported again, one that ended while the engine was down is not.

`health` is the bridge's `active`, whether the last health answer is recent, and
its link; `sub` is a subscription from `c9p_subscribe` to the
engine's stream, `asked` and `wire` the one connection all streams share,
`chan` the frames on their way to the webview. `feed` is `sessionFeed`
(snapshot, stream, retry, generations), `period` the `fallbackPeriod` that
shows scans while the bridge is inactive, `poll` the polling loop. `shown` is
what the window shows and where it comes from.

`c9p_subscribe` checks `active`, and inserts its subscription later
(`SubCheck`, `SubInsert`); `FallBack` sets `active`, tells every subscription
that it is unavailable and clears them. Both orders are in the model. A poll's scan and
its publication are one step; the delay of the event is in `period.way`. A
crash drops what the worker did not take: a frame taken later would make no
difference to the crash. A subscription's number is used again once nothing
names it, as a uuid never is. An engine that is up answers a request for a
snapshot and a subscription at once, the answers travel.

`feed.rows` is what the feed holds at position `feed.from`, and `feed.run`, a
history variable, the run its snapshot is of. `ComesTrue`, a part of
`FeedIsTrue`, says that the rows of a running feed, with the events still to
come, are what the engine committed last; `Unreported` is the one exception, a
session that ended between two runs while the feed's stream was resumed from
the earlier one. `ShowsTheWorld` has the same exception and no other. The
exception is real: without it TLC finds a window that shows an ended session for
good (section 5).

`ReadViews` takes what was committed and the head of the log in one step. In
the code the views trail a tick's write for an instant (`SessionViews` has
that, and what follows from it); the feed asks for a snapshot 1 s or 5 s after a
failure, behind any such instant.

Left out: the compaction of the log (`EventLog`, `SessionViews`), hidden
windows, the limit of eight streams, versions and compatibility, the lease of the gateway, notifications, the diagnostics feed,
the legacy web server, the recovery timer (in effect a part of the health's
age), `session.views` before the first commit (`SessionViews` has it), demo
mode.

## 3. Runs

| Run | Module, cfg | Shows |
|---|---|---|
| `ledger` | `MCMailLedger.cfg` | the ledger's invariants and action properties for a lead, its managed worker and three rows at two instants: one in flight, results stay, keys name one row, the pair limit in every window, senders are told |
| `delivery` | `MCDelivery.cfg` | two messages of an agent over both routes, with store failures, drains, crashes and restarts; what counts as undelivered was not read and cannot be; the refinements of the ledger and of the promise |
| `live` | `MCDeliveryLive.cfg` | no message stays in flight for good nor leaves its supervisor's hands, and over the socket `delivered` means received, with every order of receipts |
| `event_log` | `MCEventLog.cfg` | nothing is skipped silently, no seq is reused, no commit expires a cursor, no wake-up is lost, over four rows an epoch, pruning, restarts and a lost db |
| `sessions` | `MCSessionViews.cfg` | a caught-up client shows what is listed and, of what its run ever read committed, nothing else; one stored view per session; listed sessions reach clients; detection implements `EventLog` |
| `lifecycle` | `MCAgentLifecycle.cfg` | one agent over three generations and four boots: row, op and process agree after every crash, no process is lost but in the four known ways, a drain pauses only idle agents, the refinement of `AgentPromise` |
| `agent_tree` | `MCAgentTree.cfg` | a parent and a child, or two roots in nested directories: no ghost rows, directories apart, trees of limited depth, children follow their parent, retires are answered |
| `calls` | `MCIdemCache.cfg` | keyed requests over a cache and a queue at their limits, with close at any moment: one write per key, true answers, never a circle of waiting, all calls end |
| `hooks` | `MCHookIntake.cfg` | late, lost and doubled hooks beside the screen, over two generations: table and row agree, no hook counts twice, the row of an idle agent comes to say ready |
| `engine_lock` | `MCEngineLock.cfg` | two clients that start, stop and restart engines, with one fault: one owner, no stray signal, starts and stops that are true, calls that end |
| `desktop` | `MCDesktopFeed.cfg` | the window over a crash, a prune and the fallback: streams without a gap that lead to what the engine committed last, no step back to an older value of the engine, and in the end the sessions there are, from the engine or without it; but for a session that ended between two runs of the engine |
| `stale_turn` | `MCDocStaleTurn.cfg` | a statement of a comment that the code does not keep (section 5) |

Every bound is a constant that the module or its cfg names and only disables
an action; so deadlock is not checked, except through liveness: a system at
its bounds, or with nobody asking for anything, may stop.

Bounds of the mail. Two rows are enough for one message to overtake, follow or
share the box with another; three rows add a notice and a second subject of it
(`ledger`, one take each and two instants: one inside and one at the end of
the pair window and of a notice's wait, and one past the late window; a third
instant with a longer late window, two takes and a larger limit were checked,
one at a time, with the same result). `delivery` has
two rows, two takes, both routes and failing writes; two takes let a message
be requeued and taken again, and reach the last attempt. `live` follows one
message with all notes a peer can send (`MaxNotes` 2: held or accepted, then
enqueued); store failures are excluded from its liveness (below).

Bounds of the log. `MaxSeq` rows per epoch: four let a client hold a cursor
before, in and after a pruned prefix and a compacted hole, with `Keep` = 3
less than that and `Batch` = 2 less than what a read may find. `sessions` has
six, so that every change of its two runs of the engine finds room and
liveness is not claimed of a log that is full; it has one session and one
version, and an instance with two of both, four rows and a queue of one was
checked as well. `WriteQueue` 0 or 1 lets a stream stand still with frames
unsent. `MaxEpoch` 2 loses the db once; `MaxBoots` 1 restarts once, which
separates a run from its predecessor: of earlier runs a later one sees only
the rows.

Bounds of the lifecycle. Three generations let a resume fail and another one
follow; four boots allow three ends of the engine, by crash, stop or drain, at
any step: one in a create, one in the reconcile that cleans up, one in the
resume behind it. The last boot does not crash. Two agents with depth and
children 1 are a tree at all of its limits.

Bounds of the calls. A cache of one slot with two keys is full at once, a
queue of one job with three requests and a supervisor too; `MaxInFlight` 2
lets one request wait for a place. `TTL` 1 with one tick lets a record run
out.

Bounds of the hooks. Three hooks are a turn (prompt and stop) and the start or
a tool call of another; any of them may be lost, and any one may come in
twice; two generations let each hook arrive late. One prompt may go unseen by
the screen (`MaxUnseen`). `Settle` is 2 ticks and the clock runs to 4, so that
a claim falls before, in and after the settling. A clock of 5 without unseen
prompts was checked too.

Bounds of the lock. Three engines: one that ends, the one that replaces it,
and one that comes too late. Three calls let one client call twice around the
call of the other; any one fault (a crash, a boot that fails, a SIGINT, a
client killed) at any step.

Bounds of the desktop. One session, there at first, and one change of it, its
end, at any moment, before or after each snapshot, scan, crash and prune; the
log then has up to three rows, as a second run reports a session again. Two
subscriptions, the one given up and the one that replaces it; one event waiting
for the stream worker. One crash, after which nobody has to start the engine
again: both the fallback for good and the way back are checked. A session that
is not there at first was checked too, and `FeedIsTrue` and `NeverBack` with two
changes.

Fairness of the mail (`DeliveryFair`). A supervisor ticks every 100 ms and a
deadline passes, so its steps are weakly fair; a socket write has a timeout of
its own; exits, drains and boots run to their end. Of the session it is
assumed only that while it lives its turns end and new ones start: a message
that CC has enqueued waits, by design, until a turn ends, so without that
assumption it waits for ever. Nothing is assumed of receipts, hooks, queue
operations and people. `Settles` is checked without store failures: a pasted
row whose mark failed stays `delivering` until the next boot, as the comment
on `mail_write` says.

Fairness of the log. The writer thread and each stream's task are scheduled
(weak fairness of `Publish` and of a stream's steps), and the client reads its
frames. Detection ticks every 3.5 seconds for as long as the engine runs; its
write may fail, but not for ever (strong fairness of `TickWrite`): a store
that never takes a write shows no session. Liveness is claimed only of a
stream that stays up.

Fairness of the lifecycle (`agent_tree`). Threads and timers run (weak
fairness of `Due` and `Thread`), a request runs to its end (`CallStep`), and
the sweep that retires children comes back while there is one whose step lock
is free (`Sweep`). No liveness is claimed over crashes.

Fairness of the calls. The runtime polls what can run, the operating system
schedules each thread, a job ends. Nothing makes a client ask, the engine
close or time pass. On a runtime of one thread an async caller is not
scheduled while `close` joins.

Fairness of the hooks. A hook is answered or gives up, the supervisor's loop
goes round (`Look`, `Reclaim`, `ExpireHold`), the writer runs what waits and
time passes. The agent's process owes nothing. `RowSettles` excludes claims of
one and the same instant, which the merge orders by its own rule, and prompts
that the screen never showed: that case is `stale_turn`.

Fairness of the lock. Engines run and drains end at their hard deadline; each
wait of a client has a deadline.

Fairness of the desktop. The engine's threads run, the bridge's run, the webview's
tasks, calls and timers run, and the fallback's loop and period do: weak
fairness of each of these four groups, not of each action. An engine that is up
answers. Nobody has to start it. Three facts of timing are assumed, and named at the actions: the
health probe is on time while the link runs; a subscription times out (10 s)
only without an engine; a period's own snapshot is read within its 3 s. A
fourth is the guard `poll.core` of `Stale`: the bridge stays active long
enough for the polling loop to look once. Without it TLC finds a window that
shows an old scan until the next change of a file: the period is answered by
the core while the loop never learned that it was active, so it does not start
over.

## 4. Proofs

Eight modules hold 42 theorems, for all values of the constants that satisfy
the named assumptions of the modules; TLC evaluates each assumption in a run.
A bound such as `MaxSeq` only disables actions and is any natural number.
Every safety property that a passing run checks is a theorem: invariants, action
properties and refinements.

In each module an inductive invariant is proved first: `Init`, one lemma per
action (or per kind of step that many actions take), a lemma that collects
them, `Spec => []Inv`. The theorems then follow from it without another look
at the actions, or from one step of it. TLC finds each of
the inductive invariants true on the instance of the component's run.

### Mail_proofs: the ledger

| Theorem | States |
|---|---|
| `TypeCorrect`, `OneMessageInFlight`, `QueueIsAlwaysTrue` | `TypeOK`, `OneInFlight`, and both as `QueueIsTrue` |
| `EndedQueueEmpty`, `KeysAreUnique` | `NoMailAfterEnd`, `KeyOnce` |
| `ResultsStay` | `FinalStays` |
| `PairsAreBounded` | `PairBound` |
| `SendersAreTold` | `NoticesTell` |

`RecordRows` says once what recording results does to the table (the rows of
`D` take their results; notices are inserted or refreshed, for agents that
have not ended; no other state changes). From it and a lemma for the one-row
updates every action is shown to satisfy `StepOK`, a conjunction of what a step
may do: rows keep their ends and keys, ended agents stay ended, a row comes
into flight only from `Eligible` and alone, an open row was open or is new and
its target lives, a result stays but for late evidence, a keyed row is inserted
alone and its key is unused. The first theorems need only `TypeOK` and
`StepOK`.

`PairBound` counts. A stretch of time gains a row only by a send, which counted
the rows of the window before it; the rows of any stretch of the window's
length that ends now are among those. `NoticesTell` has an invariant of its
own, `TellInv`: a row with an unhappy result names a notice to its sender, and
a notice that nobody has taken lists what stands, and none is in flight before
each of its uncertain rows had its delay. `Record` merges into a notice that waits, or
inserts one, and refreshes those whose subject changed, so each case of it is
a lemma.

### Mail_proofs: the delivery

| Theorem | States |
|---|---|
| `DeliveryRunsTheLedger` | `LedgerSpec` |
| `DeliveryKeepsTheLedger` | `OneInFlight`, `NoMailAfterEnd`, `KeyOnce`, `PairBound`, `FinalStays`, `NoticesTell`, of `DeliverySpec` |
| `WithheldForGood` | `Withheld` |
| `SocketAlwaysTrue` | `SocketIsTrue` |
| `PromiseIsKept` | `KeepsPromise` |
| `AlwaysInHand` | `InHand`, without store failures |

`DeliveryRunsTheLedger` takes the actions one by one: the ledger's part of each
is an operation of `MailLedger` or leaves it alone. So everything above holds
of the delivery (`DeliveryKeepsTheLedger`), and the proofs below use what a
ledger step can do to a row.

`Withheld` is not inductive: it says that a message called undelivered was not
read, not that it cannot be. `CopyInv` follows the copies of a row: a copy is
only at the agent it is addressed to (`PlaceInv`); of a row there is one copy,
in the box, on its way to it, in the socket inbox or in the hands of a job, or
a refusal under way, or one reception (`Unique`); a withdrawn row is `Unsent`,
that is no context has it and at most a paste remains for which nobody will
press return (`Held`); and each phase of the supervisor says how far its row
can have come (`SupInv`). That no copy is left before a take (`Clean`) is what
makes a second attempt safe. Each move of a session and each kind of step of a
supervisor has a lemma on copies (`Vanish`, `Fades`), which the actions cite.

`InHand` is what `Settles` rests on, as an invariant: a message in flight is
with its target's supervisor, in a phase that ends in a result. Only a take puts
a row into flight (`Calm`); a supervisor that leaves its row has settled it, or
hands it to the kill of the drain (`HandStep` and the lemmas after it). The kill
marks one row, which is all only because an agent has one in flight
(`OneInFlight`); an agent's end is enough because of `NoMailAfterEnd`. Assumed:
writes succeed. A write that fails leaves a pasted message in flight with
nobody, until the next boot; a socket message is adopted by the next tick.

`LedgerServes` is assumed: the ledger takes both routes and all results.

### EventLog_proofs and SessionViews_proofs

| Theorem | States |
|---|---|
| `NothingIsSkipped`, `StreamsAreWoken` | `NoSilentGap`, `NoWakeIsLost` |
| `LogIsAlwaysTrue` | with `TypeOK`, `LogIsTrue` |
| `SeqIsFresh`, `CompactionExpiresNobody` | `SeqNeverReused`, `CommitExpiresNobody` |
| `ViewsRunTheLog` | `LogSpec` |
| `ViewsKeepTheLog` | the log's `NoSilentGap`, `NoWakeIsLost`, `SeqNeverReused`, `CommitExpiresNobody`, of the detection's log |
| `OneViewIsStored`, `CaughtUpIsAlwaysTrue` | `OneStoredView`, `CaughtUpIsTrue` |

`NoSilentGap` speaks of the cursor and says nothing of the frames under way nor
of the rows that are gone. `Inv` adds that the table holds a part of the
history whose newest row is the history's newest (`LogInv`, `NewestStays`), so
a new seq is fresh; that every missing row at or after the oldest kept one is a
session view (`HolesAreViews`), so what lies past an unexpired cursor is either
stored or not owed; and, for each stream, that between the client's cursor and
the stream's position everything owed is on the wire (`StreamInv`). A read
extends the wire by what it passes, a delivery takes the lowest frame, and a
dropped connection falls back to the client's cursor.

`NoWakeIsLost` is what `StreamCatchesUp` rests on, as an invariant: a stream
that read to the end has read every row, or its receiver is marked, or a commit
has yet to mark it. It holds because the marks are cleared before the read and
not after it (`WakeStep`).

`ViewsRunTheLog` shows that each step of the detection is a step of that log.
Its one real case is the tick's write: the events are listed by `SetToSeq`,
whose choice is known only to list each once, and rows that the tick means to
compact may already be pruned. With it the theorems of `EventLog_proofs` hold
here too (`ViewsKeepTheLog`), and so does its invariant (`Proved!Inv`). `ViewsInv` says, besides, what the log tells of a
session: its last word on a listed one is its view, stored unless all up to it
was pruned (`ViewInv`, with the views of a tick that is written and not yet
committed); between a client's cursor and its copy, that a listed session past
whose view the cursor is is shown, and is in flight if only the stream is
(`LiveInv`), and that a client of this run's views will hear of every end
(`GoneInv`). `OneViewIsStored` is the special case of `OneView` between ticks.
Assumed: finitely many sessions, and a write that holds a tick
(`SessionViewsAssumption`).

### AgentLifecycle_proofs

| Theorem | States |
|---|---|
| `RowsAlwaysAgree`, `ProcessesAlwaysKept` | `RowsAgree`, `ProcessesKept` |
| `PausedAlwaysWasIdle`, `PromiseAlwaysKept` | `PausedWasIdle`, `PromiseKept` |
| `TreesAlwaysApart` | `CwdApart`, `TreeIsShallow` |
| `TreeIsAlwaysTrue` | `TreeIsTrue`, without store failures |

`Inv` gives each of the four views of an agent what it may rely on. `RowInv`:
which state goes with which op, and that a child is recorded exactly in the
states that need one. `ProcInv`: a process of an older generation was lost in
one of the four ways, one of the newest is recorded, lost, or in the hands of a
thread that has yet to record it. `SupInv` and `CallInv`: what a thread or call
at each place knows of row and process, with the escape that a retire ended the
row in between. `EngInv`: what boot and reconcile have done so far. The lemmas
on rows (`ClosedRow`, `ChildRow`, ...) say what the helpers of `ops.rs` return,
once; the step lemmas cite them.

`NextMoves` lists what a step may do to a row's state, generation and parent
(`Moves`, and `Appears` for a create); the refinement of `AgentPromise` and
what follows about trees use only that. `TreeInv` adds that an agent not
yet created has no parent and that a parent was created, so a new row is below nobody and the sets
of ancestors of the others stay. `GhostInv`, for a row to have its thread: while
the engine resumes or serves, a row is quiet or has a thread or a call that
brings it up, and threads leave for a drain or stop only in one. It needs that
writes succeed: a failed write behind a confirmed kill leaves a row that says
`ready` with nobody behind it, until the next boot. That is what the code
does; the run `agent_tree` has no store failures either.

Assumed (`LifecycleAssumption`): finitely many agents, and that `Clash`
relates two agents, not one to itself.

### HookIntake_proofs

| Theorem | States |
|---|---|
| `TableAlwaysTrue` | `TableIsTrue` |
| `HooksCountOnce` | `HooksCount` |

`MoreTypes` types what `TypeOK` leaves open. `LifeInv`: the live generation
follows the supervisor, and while an agent comes up nothing of its generation
is known, neither a hook nor an entry. `JobInv`: a transaction is of the row's
generation, its copy is of the live entry, and the hook it applies waits for it
and is not counted yet. `FutureInv`: a generation that has not begun has no
turns. With these the commit is the one hard step: what it notes as written is
what the row says, and it opens and ends the turns it counts.
`FirstGeneration` is assumed.

### IdemCache_proofs

| Theorem | States |
|---|---|
| `KeysWriteOnce` | `KeyWritesOnce` |
| `AnswersAlwaysTrue`, `NobodyIsEverStuck` | `AnswersAreTrue`, `NobodyIsStuck` |
| `CallsAlwaysTrue` | both, as `CallsAreTrue` |
| `WriterIsKept` | `WriterSpec`, the writer's own specification |
| `WriterIsAlwaysTrue` | `AnswerIsTrue`, `ClosedIsQuiet`, of `WriterSpec` alone |

`WriterInv` is about the writer: a caller's job is nowhere before it is sent,
waits once, and is nowhere once the caller has its answer (`CallInv`,
`QueueInv`); the thread ends once nobody can send (`CloseInv`). `CacheInv` is
about the slots: a request in flight holds the slot its key is listed with and
no slot has two keys (`HeldInv`, `ListInv`); the writer of a slot found nothing
in it to replay and is alone (`WritingInv`); a record is what a request with
that key and those parameters wrote (`RecordInv`); what a request wrote is
spent or can be replayed (`OutcomeInv`). The last is what an eviction could
break: there are more slots than listed keys, and only slots that nobody holds
are dropped or taken.

`NobodyIsStuck` is what `AllEnd` rests on, as an invariant: until all is settled
the writer's thread, a caller or a request has a step that its guards allow.
The guards are written out (`ThreadMay`, `CallerMay`, `RequestMay`), since
`ENABLED` is out of the prover's reach; TLC found them equal to `ENABLED` of the
steps in every state of the instance. A request at a slot's lock waits for one
that writes, which waits for the writer, whose thread waits for nobody
(`WorkGoesOn`, `CallerGoesOn`); a close that has the only runtime thread stops
every async caller, but none of them holds a sender then (`PaceInv`), so the
thread can end (`CloseGoesOn`). Assumed: numbered requests, finitely many, bounds that
are numbers (`TTL` positive), and that `Nothing` is no record.

### EngineLock_proofs

| Theorem | States |
|---|---|
| `OneEngineOwnsAll` | `OneEngine` |
| `StopIsTrue` | `StopsTheEngine` |
| `StartIsTrueAlways` | `StartIsTrue` |

`EngineInv` says what an engine owns in each stage: the lock from `locked` to
the end, the database from `boot`, the file and the socket while it is named or
listens. `PidInv`: a pid that a client verified is that of an engine that had
opened its socket, and it is no stranger's while the client may signal it; what
a client waits for ends only with that engine. `SpawnInv`: an engine that has
no lock yet has its spawner waiting, and nobody spawns beside it, unless a
spawner was killed (`orphan`). `CauseInv`: a client whose call met no fault
(`spoiled`) sees no engine fall but the one it signalled, and has one to wait
for, or the free lock.

### DesktopFeed_proofs

| Theorem | States |
|---|---|
| `FeedIsAlwaysTrue` | `FeedIsTrue` |
| `WindowNeverGoesBack` | `NeverBack` |

`NoGap` is not inductive: it is about the feed's own stream while the bridge
has it, and says nothing of how the stream came to be there. A frame of an
earlier use of its number, an answer that overtakes or trails its events, or a
cursor beyond the log would each break it in one more step. `Within` bounds
every position in every queue by the log. `SubInv` follows a subscription's number: it is
asked for again only when nothing on the wire or in a channel names it, and a
stream runs only if the worker asked for it. `FeedInv` holds the feed's stream
from the snapshot on: until the bridge inserts it, it starts at what the
snapshot showed and nothing is queued; while the bridge has it, it has no gap,
and its answer is on the wire before its events and is the cursor it was asked
from (`Answered`), so that the cursor the answer sets is the one the next
connection needs; and if the bridge dropped it after it answered, the channel
holds the word of that. `StageInv` says what each stage of the feed shows.

`NeverBack` needs what comes after a drop too: events that were in the channel
when the bridge fell back still arrive and are shown. `QueueInv` says that what
is queued in channel and batch follows what is shown, whoever has the stream,
and that nothing later than the batch's start is on the screen.

`ComesTrue` rests on what the log says. `LogInv`: what this run committed last is
the log's last row, unless the session is not there. `TruthInv` follows the
feed's rows: they are the log's row at their position, unless they say that the
session is not there; and what they come to (`Leads`) is what the engine
committed last, if that is a session, or if the rows are of this run. If it is
none, and the rows are of an earlier run, the log's last row is a `session.gone`
or there is no row, unless the session is `Unreported`; and then the rows come
to none as well.

The steps fall into kinds, each with a lemma on streams: frames that go onto the
wire (`Emit`, the answers of `Sync`, in any order over the new streams), the
one that the worker takes, those lost with a connection, the one the webview
receives, and the batch it shows. `Sync` lists the new streams by `SetToSeq`, of
which is known that it lists each once, so `Subs` is assumed finite, as the
bridge's map of streams is (`DesktopAssumption`).

### Only model-checked

* Liveness, which TLAPS does not reach: `Settles`, `StreamCatchesUp`,
  `LiveSessionsReachClient`, `ChildrenFollow`, `RetireAnswered`, `AllEnd`,
  `RowSettles`, `CallsEnd`, `ShowsTheWorld`; and `DocStaleTurnEnds`, which the
  run refutes.
* That the models' helpers compute what recursive or iterative code computes:
  `Ancestors` is stated as a least set, not as the loop.

## 5. Where the code departs from its documentation

One disagreement is the subject of a run:

* `stale_turn`: a comment says that a stale turn ends once the screen is idle.
  A turn that the screen never showed leaves no change of the screen; the
  supervisor claims nothing, the turn stays open and the row says `working`
  for good.

Others were met while modelling, and are part of the models:

* `create.rs` starts a socket attempt with `receipt_seq` 0 and so replays the
  notes of an earlier attempt. A hold or an enqueue of the first attempt then
  suspends the deadline of the second, although `docs/engine-mail.md:24-25`
  says "No evidence after 30 seconds means `uncertain`".
* A message that a receipt has just requeued is marked uncertain by a
  supervisor that read it before; it is not resent, although
  `docs/engine-mail.md:31-32` says "Rate-limit/queue-full receipts wait
  10/30/60 seconds".
* A session that ends while the engine is down is not reported by the next
  run, whose first diff has nothing before it (`views/sessions.rs:118-119`). A
  client that resumes with its cursor, as the desktop's streams do after a
  restart, shows it for good; `docs/api/topics.md:28` says "It is enough to
  rebuild current state with `session.gone`". `FeedIsTrue` and `ShowsTheWorld`
  exclude this case and no other; `CaughtUpIsTrue` speaks of ended sessions only
  for a client whose snapshot is of the current run.
* Before detection's first commit `session.views` reads "no views" and then
  the head; a tick that commits in between is missed, although
  `views/sessions.rs:10-11` says that "a client that reads `session.views` and
  subscribes with its cursor misses nothing".
* A retire of an idle agent in a drain ends the row of an agent whose process
  could not be killed, although `create.rs:42-46` wants every such kill
  confirmed (`lost`, reason `buried`).
* `spawn.rs` says that by the time `spawn_lock` is released the engine holds
  `engine.lock`. If the spawning client is killed before, the lock is released
  with it and its engine comes up beside another client's; one of the two then
  ends (`orphan`).
* The diagram in `docs/engine-mail.md` lets a queued message leave only by a
  delivery or a cancel, but the end of its target fails it.
* `delivered` is documented as "the model context received the message"; for
  the input box an open turn and an empty box suffice, which a cleared box and
  a turn of the session's own also produce.
* A turn that ends between the write and CC's enqueue starts the grace period,
  although the comment at `create.rs:1562` excludes an old turn end.

Accepted by the code: a notice that was taken, then requeued after its subject
was resolved, goes out stale (`NoticesTell` speaks of notices before their
first take); a message requeued by a receipt becomes uncertain if its agent is
retired before the next take; a client that asks for an engine while one is
closing waits in vain and is told so (`RESTART_GRACE` makes it rare).

## 6. Plan

Done: the mail, the event log with the session views, the lifecycle of agents,
hooks and merge, the cache and the writer, the engine lock with its clients,
the desktop window.

Done, proofs: every safety property and refinement of the runs.

Done, proofs of what three of the liveness properties rest on: a message in
flight is in hand, no wake-up is lost, nobody is stuck. Next, proofs: the same for the others, and which step brings
the end of a call nearer, as action properties. No module with
a theorem declares or reaches a RECURSIVE operator.

Next, models: the kill of a process group (`engine/pty.rs`: sweep, signal,
confirm) under `AgentLifecycle`, which takes its outcome as a choice; the
filter of mail events per subscriber (`filter_mail`), which may fail, as an
extension of `EventLog`; the gateway's limits (`gateway/limits.rs`); two
windows and hidden ones over `DesktopFeed`.

## 7. Not modelled

Parsers of transcripts and screens, formatting, argument handling, the legacy
web server, other views of the front end, the website and the scripts:
sequential code whose correctness is a matter of data. They are most of the
repository's lines: providers' transcripts (`session/`), schema, views and
settings are read and written by pure functions, and what the models need of
them is a choice among their results. The operating system's process identity
(`ChildId`, peer credentials) is trusted. Liveness under fairness and facts
about ENABLED stay with TLC, as does what a recursive definition computes for
every input: the installed provers cannot use the induction rules over data.
See `PROJECT.json` "components" for each part and its reason.
