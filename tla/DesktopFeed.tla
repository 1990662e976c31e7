----------------------------- MODULE DesktopFeed -----------------------------
(***************************************************************************)
(* How the desktop app keeps its session list true: the bridge in Rust     *)
(* (bridge.rs), which judges the engine's health and carries the streams   *)
(* of the webview over one connection; the feed in the webview             *)
(* (session-feed.ts) with its snapshot, stream, retries and generations;   *)
(* and the in-process fallback (polling.rs, live.ts), whose scans are      *)
(* shown while the engine is away.                                         *)
(*                                                                         *)
(* One session stands for them all: a tick, a scan and the window treat    *)
(* each by itself.  `world` is its content, 0 when it is not there.  The   *)
(* engine is its log of the session's events, without compaction (EventLog *)
(* and SessionViews have it), so a cursor is a position, and what          *)
(* detection committed in this run.  The events of other sessions would    *)
(* only move positions.  Subscriptions are numbered; a number is used      *)
(* again once nothing anywhere names it, as a uuid never is.  The channel  *)
(* of a subscription and the engine's connection keep the order of their   *)
(* frames.                                                                 *)
(***************************************************************************)
EXTENDS Integers, Sequences, FiniteSets, SequencesExt

CONSTANTS
    Subs,        \* numbers of subscriptions
    NoSub,
    MaxWorld,    \* contents of the session, from 1
    Start,       \* what it may be at first
    MaxChanges,  \* bound: changes of the session
    MaxCrashes,  \* bound: crashes of the engine
    MaxPrunes,   \* bound: prunes of the log
    MaxWire      \* bound: events that wait for the stream worker

ASSUME DesktopAssumption ==
    /\ IsFiniteSet(Subs) /\ NoSub \notin Subs
    /\ Start \subseteq 0 .. MaxWorld
    /\ {MaxWorld, MaxChanges, MaxCrashes, MaxPrunes, MaxWire} \subseteq Nat

VARIABLES
    world,   \* the session: its content, or 0
    engine,  \* is it up, what detection committed in this run, where its log begins
    log,     \* the session's events: a content for session.view, 0 for session.gone
    health,  \* the bridge's `active`, whether last_health is recent, and its link
    sub,     \* each subscription, from c9p_subscribe to the engine's stream
    asked,   \* what the stream worker asked for on its connection, if it has one
    wire,    \* frames sent by the engine and not yet taken by the worker
    feed,    \* sessionFeed: its stage, stream, batch and last failure
    period,  \* fallbackPeriod: its stage, snapshot, and events not shown
    poll,    \* the polling loop
    shown,   \* what the window shows, and where it comes from
    count    \* for the bounds

vars == <<world, engine, log, health, sub, asked, wire, feed, period, poll, shown, count>>
-----------------------------------------------------------------------------
(* `call` is where c9p_subscribe is: asked for by the webview, past the    *)
(* check of `active`, waiting for `ready`, or answered.  `in` says that    *)
(* the bridge has the stream, `since` its cursor (NoCursor: none given),   *)
(* `on` that the engine's stream runs, at `pos`.                           *)

NoCursor == -1

Sessions == 0 .. MaxWorld

InQueue == [kind : {"event"}, pos : Nat] \cup [kind : {"expired", "unavailable"}, pos : {0}]
Sub == [call : {"none", "invoked", "begun", "waiting", "ok",
                "unavailable", "transport", "expired"},
        in : BOOLEAN, since : Nat \cup {NoCursor},
        on : BOOLEAN, pos : Nat \cup {NoCursor},
        chan : Seq(InQueue)]
OnWire == [sub : Subs, kind : {"ok", "event", "expired"}, pos : Nat]

NoStream == [call |-> "none", in |-> FALSE, since |-> 0,
             on |-> FALSE, pos |-> 0, chan |-> <<>>]

Frame(s, kind, pos) == [sub |-> s, kind |-> kind, pos |-> pos]
InChan(kind, pos) == [kind |-> kind, pos |-> pos]

FeedState   == [at : {"rest", "probe", "sub", "live"}, sub : Subs \cup {NoSub},
                from : Nat, rows : Sessions, run : Nat, batch : Seq(Nat), away : BOOLEAN]
PeriodState == [at : {"none", "reading", "open"}, way : Seq(Sessions), read : SUBSET Sessions]
EngineState == [up : BOOLEAN, seen : SUBSET Sessions, floor : Nat]
HealthState == [on : BOOLEAN, fresh : BOOLEAN, link : {"try", "on"}]
PollState   == [last : SUBSET Sessions, core : BOOLEAN]
ShownState  == [src : {"nothing", "core", "native"}, pos : Nat, rows : Sessions]
CountState  == [changes : Nat, crashes : Nat, prunes : Nat]

\* `from` is the position that `rows` show; `run` the engine's run, by its
\* crashes, that the snapshot is of (history).
Idle   == [at |-> "rest", sub |-> NoSub, from |-> 0, rows |-> 0, run |-> 0,
           batch |-> <<>>, away |-> FALSE]
Closed == [at |-> "none", way |-> <<>>, read |-> {}]

Core(pos, rows) == [src |-> "core", pos |-> pos, rows |-> rows]
Native(rows)    == [src |-> "native", pos |-> 0, rows |-> rows]

Fits(s) == /\ sub[s] = NoStream /\ s \notin asked
           /\ \A i \in DOMAIN wire : wire[i].sub # s

Desired == {s \in Subs : sub[s].in}

\* Bridge::active.
Active == health.on /\ health.fresh

Init ==
    /\ world \in Start /\ log = <<>>
    /\ engine \in [up : BOOLEAN, seen : {{}}, floor : {0}]
    /\ health = [on |-> FALSE, fresh |-> FALSE, link |-> "try"]
    /\ sub = [s \in Subs |-> NoStream]
    /\ asked = {} /\ wire = <<>>
    /\ feed = Idle /\ period = Closed
    /\ poll = [last |-> {}, core |-> FALSE]
    /\ shown = [src |-> "nothing", pos |-> 0, rows |-> 0]
    /\ count = [changes |-> 0, crashes |-> 0, prunes |-> 0]
-----------------------------------------------------------------------------
(* The world and the engine. *)

Change ==
    /\ count.changes < MaxChanges
    /\ \E w \in Sessions \ {world} : world' = w
    /\ count' = [count EXCEPT !.changes = @ + 1]
    /\ UNCHANGED <<engine, log, health, sub, asked, wire, feed, period, poll, shown>>

\* What detection committed before, in this run of the engine: nothing, if
\* this is its first tick.
Before == IF engine.seen = {} THEN {0} ELSE engine.seen

\* SessionViews::diff: so a session that ended between the last tick of one run
\* and the first of the next is not reported as gone.
Diff == IF world \in Before THEN <<>> ELSE <<world>>

\* A tick of detection writes what it found and commits it.
Commit ==
    /\ engine.up /\ engine.seen # {world}
    /\ log' = log \o Diff
    /\ engine' = [engine EXCEPT !.seen = {world}]
    /\ UNCHANGED <<world, health, sub, asked, wire, feed, period, poll, shown, count>>

\* Retention never takes the newest row.
Prune ==
    /\ engine.up /\ count.prunes < MaxPrunes
    /\ \E f \in engine.floor + 1 .. Len(log) - 1 : engine' = [engine EXCEPT !.floor = f]
    /\ count' = [count EXCEPT !.prunes = @ + 1]
    /\ UNCHANGED <<world, log, health, sub, asked, wire, feed, period, poll, shown>>

Boot ==
    /\ ~engine.up
    /\ engine' = [engine EXCEPT !.up = TRUE]
    /\ UNCHANGED <<world, log, health, sub, asked, wire, feed, period, poll, shown, count>>

\* The committed views are memory.  Its connections break: what the worker did
\* not take is lost, as if it had not been sent.
Crash ==
    /\ engine.up /\ count.crashes < MaxCrashes
    /\ engine' = [engine EXCEPT !.up = FALSE, !.seen = {}]
    /\ count' = [count EXCEPT !.crashes = @ + 1]
    /\ health' = [health EXCEPT !.link = "try"]
    /\ asked' = {} /\ wire' = <<>>
    /\ sub' = [s \in Subs |-> [sub[s] EXCEPT !.on = FALSE, !.pos = 0]]
    /\ UNCHANGED <<world, log, feed, period, poll, shown>>

\* The next event of a stream, or the end of one that was overtaken.
Emit(s) ==
    /\ sub[s].on /\ Len(wire) < MaxWire
    /\ \/ /\ sub[s].pos < engine.floor
          /\ sub' = [sub EXCEPT ![s].on = FALSE, ![s].pos = 0]
          /\ wire' = Append(wire, Frame(s, "expired", 0))
       \/ /\ engine.floor <= sub[s].pos /\ sub[s].pos < Len(log)
          /\ sub' = [sub EXCEPT ![s].pos = @ + 1]
          /\ wire' = Append(wire, Frame(s, "event", sub[s].pos + 1))
    /\ UNCHANGED <<world, engine, log, health, asked, feed, period, poll, shown, count>>
-----------------------------------------------------------------------------
(* The bridge: its link to the engine. *)

\* Channel::send to the webview.  The handler of a probe, or of a generation
\* that ended, does nothing; such frames are dropped here.
Sent(s, frame) ==
    IF feed.sub = s /\ feed.at # "probe" THEN Append(sub[s].chan, frame) ELSE sub[s].chan

\* The bridge forgets a stream.
Gone(b) == [b EXCEPT !.in = FALSE, !.since = 0]

\* Mutant of FallBack: streams that run are dropped without a word.
FallBackSilent ==
    sub' = [s \in Subs |->
        IF ~sub[s].in THEN sub[s]
        ELSE IF sub[s].call = "waiting" THEN [Gone(sub[s]) EXCEPT !.call = "unavailable"]
        ELSE Gone(sub[s])]

\* Bridge::fall_back, the streams: each is told, by its call or its channel.
FallBack ==
    sub' = [s \in Subs |->
        IF ~sub[s].in THEN sub[s]
        ELSE IF sub[s].call = "waiting" THEN [Gone(sub[s]) EXCEPT !.call = "unavailable"]
        ELSE [Gone(sub[s]) EXCEPT !.chan = Sent(s, InChan("unavailable", 0))]]

\* An attempt of the loop in `start` gets through.
LinkUp ==
    /\ health.link = "try" /\ engine.up
    /\ health' = [on |-> TRUE, fresh |-> TRUE, link |-> "on"]
    /\ UNCHANGED <<world, engine, log, sub, asked, wire, feed, period, poll, shown, count>>

\* An attempt fails, or the connection broke.  The last data stay for the 15 s
\* in which the last health counts; then the fallback takes over.
LinkDown ==
    /\ health.link = "try" /\ ~Active
    /\ health' = [health EXCEPT !.on = FALSE]
    /\ FallBack
    /\ UNCHANGED <<world, engine, log, asked, wire, feed, period, poll, shown, count>>

\* 15 s since the last health: diag.detection is not answered.  The polling
\* loop, which wakes every 3.5 s, has looked meanwhile.
Stale ==
    /\ health.fresh /\ health.link = "try" /\ poll.core
    /\ health' = [health EXCEPT !.fresh = FALSE]
    /\ UNCHANGED <<world, engine, log, sub, asked, wire, feed, period, poll, shown, count>>
-----------------------------------------------------------------------------
(* c9p_subscribe. *)

SubCheck(s) ==
    /\ sub[s].call = "invoked"
    /\ sub' = [sub EXCEPT ![s] = IF Active THEN [@ EXCEPT !.call = "begun"]
                                 ELSE [Gone(@) EXCEPT !.call = "unavailable"]]
    /\ UNCHANGED <<world, engine, log, health, asked, wire, feed, period, poll, shown, count>>

SubInsert(s) ==
    /\ sub[s].call = "begun"
    /\ sub' = [sub EXCEPT ![s].call = "waiting", ![s].in = TRUE]
    /\ UNCHANGED <<world, engine, log, health, asked, wire, feed, period, poll, shown, count>>

\* 10 s without `ready`: the engine does not answer.
SubTimeout(s) ==
    /\ sub[s].call = "waiting" /\ ~engine.up
    /\ sub' = [sub EXCEPT ![s] = [Gone(@) EXCEPT !.call = "transport"]]
    /\ UNCHANGED <<world, engine, log, health, asked, wire, feed, period, poll, shown, count>>
-----------------------------------------------------------------------------
(* The stream worker. *)

\* Mutant of Begin: the worker asks without the cursor it came to.
BeginAnew(s) == IF sub[s].since = NoCursor THEN Len(log) ELSE 0

\* events.subscribe: where the stream begins, and the answer, which goes out
\* before the stream starts.
Begin(s) == IF sub[s].since = NoCursor THEN Len(log) ELSE sub[s].since
Answer(s) == IF Begin(s) < engine.floor THEN Frame(s, "expired", 0) ELSE Frame(s, "ok", Begin(s))

\* The worker's pass over the set of streams, on a new connection or on the
\* one it has: new ones are asked for from their cursor, those that are gone
\* are taken back.  The engine answers at once; its answers may take long.
Sync ==
    /\ engine.up /\ Desired \notin {{}, asked}
    /\ asked' = Desired
    /\ LET new == Desired \ asked
       IN  /\ wire' = wire \o [i \in 1 .. Cardinality(new) |-> Answer(SetToSeq(new)[i])]
           /\ sub' = [s \in Subs |->
                 IF s \in new
                 THEN IF Begin(s) < engine.floor THEN sub[s]
                      ELSE [sub[s] EXCEPT !.on = TRUE, !.pos = Begin(s)]
                 ELSE IF s \notin Desired
                 THEN [sub[s] EXCEPT !.on = FALSE, !.pos = 0]
                 ELSE sub[s]]
    /\ UNCHANGED <<world, engine, log, health, feed, period, poll, shown, count>>

\* Nothing is wanted: the connection is dropped, with what was not taken from
\* it.
Disconnect ==
    /\ asked # {} /\ Desired = {}
    /\ asked' = {}
    /\ wire' = <<>>
    /\ sub' = [s \in Subs |-> [sub[s] EXCEPT !.on = FALSE, !.pos = 0]]
    /\ UNCHANGED <<world, engine, log, health, feed, period, poll, shown, count>>

\* A frame of a stream: the cursor is kept, a first answer goes to the call,
\* events and later errors to the channel; an error ends the stream.
Handed(s, f) ==
    LET waits == sub[s].call = "waiting"
    IN  CASE f.kind = "ok"    -> [sub[s] EXCEPT !.since = f.pos,
                                    !.call = IF waits THEN "ok" ELSE @]
          [] f.kind = "event" -> [sub[s] EXCEPT !.since = f.pos,
                                    !.chan = Sent(s, InChan("event", f.pos))]
          [] OTHER            -> [Gone(sub[s]) EXCEPT !.call = IF waits THEN "expired" ELSE @,
                                    !.chan = IF waits THEN @ ELSE Sent(s, InChan("expired", 0))]

\* The next frame; one of a stream that is gone is dropped.
Take ==
    /\ wire # <<>>
    /\ LET f == Head(wire)
       IN  sub' = IF sub[f.sub].in THEN [sub EXCEPT ![f.sub] = Handed(f.sub, f)] ELSE sub
    /\ wire' = Tail(wire)
    /\ UNCHANGED <<world, engine, log, health, asked, feed, period, poll, shown, count>>
-----------------------------------------------------------------------------
(* sessionFeed.  A generation is the stage it is in with its subscription: *)
(* one that ended leaves only a call behind, whose stream is given back    *)
(* when it ends (Settle).                                                  *)

\* tauri-bridge: the unsubscribe function and c9p_unsubscribe; what is queued
\* is dropped.  Also the end of a call that failed.
GiveBack(b) == [Gone(b) EXCEPT !.call = "none", !.chan = <<>>]

\* c9p_subscribe starts, on a number of its own, with the cursor `from`.
Invoke(b, from) == [b EXCEPT !.call = "invoked", !.since = from]

Fresh == CHOOSE s \in Subs : Fits(s)

\* withNativeFallback is told: core_unavailable opens a period, a stream that
\* runs ends it.
PeriodFor(away) ==
    IF away /\ period.at = "none" THEN [Closed EXCEPT !.at = "reading"] ELSE period

\* retryLater, but for its unsubscribe: the rows stay, queued deltas go.
RetryLater(away) ==
    /\ feed' = [Idle EXCEPT !.away = away]
    /\ period' = PeriodFor(away)

\* refresh after core_unavailable, from a retry's timer: it asks for a stream
\* first, only to see if it gets one.
StartProbe ==
    /\ feed.at = "rest" /\ feed.away
    /\ \E s \in Subs : Fits(s)
    /\ sub' = [sub EXCEPT ![Fresh] = Invoke(@, NoCursor)]
    /\ feed' = [feed EXCEPT !.at = "probe", !.sub = Fresh]
    /\ UNCHANGED <<world, engine, log, health, asked, wire, period, poll, shown, count>>

\* refresh, at the start, from a retry's timer, or when the probe got its
\* stream, which is given back.  session.views: without core the scan of the
\* fallback, which has no cursor; from core the sessions that it committed,
\* once it did, with the cursor to subscribe from.
ReadViews ==
    /\ \/ feed.at = "rest" /\ ~feed.away
       \/ feed.at = "probe" /\ sub[feed.sub].call = "ok"
    /\ LET back == [s \in Subs |-> IF s = feed.sub THEN GiveBack(sub[s]) ELSE sub[s]]
       IN  \/ ~Active /\ RetryLater(TRUE) /\ sub' = back
           \/ Active /\ ~engine.up /\ RetryLater(FALSE) /\ sub' = back
           \/ /\ Active /\ engine.up
              /\ \E s \in Subs : Fits(s)
              /\ sub' = [back EXCEPT ![Fresh] = Invoke(@, Len(log))]
              /\ \E views \in engine.seen :
                   feed' = [feed EXCEPT !.at = "sub", !.sub = Fresh, !.from = Len(log),
                                        !.rows = views, !.run = count.crashes]
              /\ UNCHANGED period
    /\ UNCHANGED <<world, engine, log, health, asked, wire, poll, shown, count>>

\* The call of this generation failed.
Failed ==
    /\ feed.at \in {"probe", "sub"}
    /\ sub[feed.sub].call \in {"unavailable", "transport", "expired"}
    /\ RetryLater(sub[feed.sub].call = "unavailable")
    /\ sub' = [sub EXCEPT ![feed.sub] = GiveBack(@)]
    /\ UNCHANGED <<world, engine, log, health, asked, wire, poll, shown, count>>

\* The call of an earlier generation ends.
Settle(s) ==
    /\ s # feed.sub
    /\ sub[s].call \in {"ok", "unavailable", "transport", "expired"}
    /\ sub' = [sub EXCEPT ![s] = GiveBack(@)]
    /\ UNCHANGED <<world, engine, log, health, asked, wire, feed, period, poll, shown, count>>

\* The end of a fallback period: its listener and buffer go.
EndPeriod == Closed

\* flush: the queued events over the rows; the last one replaces or removes the
\* session.
Upto(batch) == IF batch = <<>> THEN feed.from ELSE Last(batch)
Flushed == Core(Upto(feed.batch), IF feed.batch = <<>> THEN feed.rows ELSE log[Last(feed.batch)])

\* The stream is there: the snapshot with the events that came before it
\* are shown, and the fallback ends.
GoLive ==
    /\ feed.at = "sub" /\ sub[feed.sub].call = "ok"
    /\ shown' = Flushed
    /\ feed' = [feed EXCEPT !.at = "live", !.batch = <<>>, !.away = FALSE,
                            !.from = shown'.pos, !.rows = shown'.rows]
    /\ period' = EndPeriod
    /\ UNCHANGED <<world, engine, log, health, sub, asked, wire, poll, count>>

\* A frame of this generation's stream.  An expired cursor starts the next
\* refresh at once, another error later.
Receive ==
    LET s == feed.sub
        f == sub[s].chan[1]
    IN  /\ feed.at \in {"sub", "live"} /\ sub[s].chan # <<>>
        /\ IF f.kind = "event"
           THEN /\ feed' = [feed EXCEPT !.batch = Append(@, f.pos)]
                /\ sub' = [sub EXCEPT ![s].chan = Tail(@)]
                /\ UNCHANGED period
           ELSE /\ sub' = [sub EXCEPT ![s] = IF feed.at = "live" THEN GiveBack(@)
                                             ELSE [@ EXCEPT !.chan = <<>>]]
                /\ RetryLater(IF f.kind = "expired" THEN feed.away ELSE TRUE)
        /\ UNCHANGED <<world, engine, log, health, asked, wire, poll, shown, count>>

\* The timer of flush, 16 ms after the first event.
Flush ==
    /\ feed.at = "live" /\ feed.batch # <<>>
    /\ shown' = Flushed
    /\ feed' = [feed EXCEPT !.batch = <<>>, !.from = shown'.pos, !.rows = shown'.rows]
    /\ UNCHANGED <<world, engine, log, health, sub, asked, wire, period, poll, count>>
-----------------------------------------------------------------------------
(* The in-process fallback: the polling loop, and a period in the webview, *)
(* which listens, then reads one snapshot, and shows the events that came  *)
(* meanwhile after it.                                                     *)

\* A round of the loop: unless the bridge is active it scans, and tells a
\* listener of a change.
Scan ==
    /\ IF Active
       THEN /\ ~poll.core
            /\ poll' = [poll EXCEPT !.core = TRUE]
            /\ UNCHANGED period
       ELSE LET last == IF poll.core THEN {} ELSE poll.last
            IN  /\ last # {world}
                /\ poll' = [last |-> {world}, core |-> FALSE]
                /\ period' = IF period.at \in {"reading", "open"}
                             THEN [period EXCEPT !.way = Append(@, world)] ELSE period
    /\ UNCHANGED <<world, engine, log, health, sub, asked, wire, feed, shown, count>>

\* session.views for the period: only a scan counts, core's answer and an
\* error do not.
ReadNative ==
    /\ period.at = "reading" /\ period.read = {}
    /\ period' = IF Active THEN [period EXCEPT !.at = "open"]
                 ELSE [period EXCEPT !.read = {world}]
    /\ UNCHANGED <<world, engine, log, health, sub, asked, wire, feed, poll, shown, count>>

\* The snapshot is shown; the events that came meanwhile follow it.
Release ==
    /\ period.at = "reading"
    /\ \E v \in period.read : shown' = Native(v)
    /\ period' = [period EXCEPT !.at = "open", !.read = {}]
    /\ UNCHANGED <<world, engine, log, health, sub, asked, wire, feed, poll, count>>

\* Mutant of Hear: nothing is buffered while the snapshot is read.
HearAtOnce ==
    /\ period.at \in {"reading", "open"} /\ period.way # <<>>
    /\ period' = [period EXCEPT !.way = Tail(@)]
    /\ shown' = Native(period.way[1])
    /\ UNCHANGED <<world, engine, log, health, sub, asked, wire, feed, poll, count>>

\* A native event is shown, unless the snapshot is still read.
Hear ==
    /\ period.at = "open" /\ period.way # <<>>
    /\ period' = [period EXCEPT !.way = Tail(@)]
    /\ shown' = Native(period.way[1])
    /\ UNCHANGED <<world, engine, log, health, sub, asked, wire, feed, poll, count>>
-----------------------------------------------------------------------------
Engine == Commit \/ (\E s \in Subs : Emit(s))
Link   == LinkUp \/ LinkDown
Worker == Sync \/ Disconnect \/ Take
Calls  == \E s \in Subs : SubCheck(s) \/ SubInsert(s)
Feed   == \/ StartProbe \/ ReadViews \/ Failed \/ GoLive \/ Receive \/ Flush
          \/ (\E s \in Subs : Settle(s))
Period == ReadNative \/ Release \/ Hear

Next == \/ Change \/ Prune \/ Boot \/ Crash \/ Engine
        \/ Link \/ Stale \/ Worker \/ Calls \/ (\E s \in Subs : SubTimeout(s))
        \/ Feed \/ Period \/ Scan

Spec == Init /\ [][Next]_vars

\* The engine, the bridge's threads, the webview's feed with its calls, and the
\* fallback run, and time passes.  Nobody has to start the engine.
Fairness ==
    /\ WF_vars(Engine)
    /\ WF_vars(Link \/ Stale \/ Worker \/ (\E s \in Subs : SubTimeout(s)))
    /\ WF_vars(Feed \/ Calls)
    /\ WF_vars(Period \/ Scan)
FairSpec == Spec /\ Fairness
-----------------------------------------------------------------------------
(* Properties. *)

\* Every variable keeps its type.
TypeOK ==
    /\ world \in Sessions /\ log \in Seq(Sessions)
    /\ engine \in EngineState /\ health \in HealthState
    /\ sub \in [Subs -> Sub]
    /\ asked \in SUBSET Subs
    /\ wire \in Seq(OnWire)
    /\ feed \in FeedState /\ period \in PeriodState
    /\ poll \in PollState /\ shown \in ShownState
    /\ count \in CountState

\* While the feed runs the window shows what its stream brought, and nothing
\* of a scan.
StreamShows == feed.at = "live" => shown = Core(feed.from, feed.rows)

\* The events of subscription s on the wire are those behind `from` up to
\* `upto`, each once and in order.
Coming(s) == {i \in DOMAIN wire : wire[i].sub = s /\ wire[i].kind = "event"}
Follows(s, from, upto) ==
    /\ {wire[i].pos : i \in Coming(s)} = from + 1 .. upto
    /\ \A i, j \in Coming(s) : i < j => wire[i].pos < wire[j].pos

\* Stream s has no gap and nothing twice behind `from`: what is queued in the
\* webview, in the channel and on the wire follows the rows one by one, and
\* the cursor the worker would resume from is the last that went into the
\* channel.
Gapless(s) ==
    LET b    == sub[s]
        held == feed.from + Len(feed.batch)
    IN  /\ \A i \in DOMAIN feed.batch : feed.batch[i] = feed.from + i
        /\ \A i \in DOMAIN b.chan : b.chan[i] = InChan("event", held + i)
        /\ b.since = held + Len(b.chan)
        /\ \E upto \in b.since .. Len(log) :
              Follows(s, b.since, upto) /\ (b.on => b.pos = upto)

\* So is the stream of the feed, over reconnects of the worker, crashes and
\* prunes.
NoGap == feed.at \in {"sub", "live"} /\ sub[feed.sub].in => Gapless(feed.sub)

\* A stream that the bridge dropped has told the feed, or is about to.
NotOrphaned ==
    feed.at = "live" =>
        \/ sub[feed.sub].in
        \/ \E i \in DOMAIN sub[feed.sub].chan : sub[feed.sub].chan[i].kind # "event"

\* What the window shows of the engine is a value that it committed.
CoreWasCommitted == shown.src = "core" => shown.pos <= Len(log)

\* The session ended between two runs of the engine: the log's last row of it,
\* pruned or not, says that it is there, this run committed that it is not, and
\* the window's snapshot is of an earlier run.
Unreported ==
    engine.seen = {0} /\ feed.run < count.crashes /\ log # <<>> /\ Last(log) # 0

\* What the feed shows, with the events still to come, is what the engine
\* committed last, but for a session that ended between two of its runs.
Leads == IF feed.from = Len(log) THEN feed.rows ELSE Last(log)
ComesTrue == feed.at = "live" /\ ~Unreported => \A v \in engine.seen : Leads = v

\* A running feed is a true one.
FeedIsTrue == TypeOK /\ StreamShows /\ NoGap /\ NotOrphaned /\ CoreWasCommitted /\ ComesTrue

\* While the window shows the engine's values it never goes from a later one to
\* an earlier: a retry's snapshot, the events queued before it, those that a new
\* connection brings again, and those that were on their way when the bridge
\* dropped the stream do not take it back.
NeverBack == [][shown.src = "core" /\ shown'.src = "core" => shown.pos <= shown'.pos]_vars

\* Once the sessions and the engine stay as they are, the window comes to
\* show the sessions there are, from the engine or without it, and of those
\* that are gone only one that ended between two runs of the engine, and only
\* over a stream that was resumed from the earlier run (SessionViews::diff).
ShowsTheWorld ==
    <>[](shown.src # "nothing" /\ (shown.rows = world \/ (feed.at = "live" /\ Unreported)))
=============================================================================
