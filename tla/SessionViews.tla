---------------------------- MODULE SessionViews ----------------------------
(***************************************************************************)
(* Session views (views/sessions.rs, detect.rs) over the event log: every  *)
(* detection tick diffs the sessions it finds against the last committed   *)
(* views and writes session.view and session.gone events, compacting the   *)
(* views they supersede; a client reads `session.views` and follows the    *)
(* log from its cursor, as the desktop bridge does (bridge.rs).            *)
(*                                                                         *)
(* The log and its subscriptions are EventLog's, instantiated with what    *)
(* session events say.  A view is a key and a version of its content.      *)
(***************************************************************************)
EXTENDS Integers, Sequences, FiniteSets, SequencesExt

CONSTANTS
    Clients, Keep, Batch, WriteQueue, MaxSeq, MaxWrite, MaxEpoch,  \* as in EventLog
    Keys,        \* session keys
    Vers,        \* contents of a view, as numbers from 1
    MaxBoots,    \* bound: engine restarts
    MaxChanges,  \* bound: changes of the detected sessions
    MaxOther     \* bound: events of other components in an epoch

ASSUME SessionViewsAssumption ==
    /\ IsFiniteSet(Keys) /\ Vers \subseteq Nat \ {0}
    /\ Keep \in Nat /\ Batch \in Nat \ {0} /\ WriteQueue \in Nat
    /\ MaxSeq \in Nat /\ MaxEpoch \in Nat
    /\ MaxWrite \in Nat /\ Cardinality(Keys) < MaxWrite  \* a tick and its diagnostics
    /\ MaxBoots \in Nat /\ MaxChanges \in Nat /\ MaxOther \in Nat

VARIABLES
    events, log, epoch, head, unsent, sub, client,  \* as in EventLog
    world,    \* the version of each session that detection would list; 0: none
    views,    \* SessionViews::state: what the last tick committed
    tick,     \* the tick in flight
    asked,    \* clients told "no views yet" and about to get the head cursor
    shown,    \* each client's copy of the sessions
    taken,    \* history: the run whose committed views c last read, from 1; 0 if
              \* it was answered before the first commit
    boots, changes

logVars == <<events, log, epoch, head, unsent, sub, client>>
vars == <<events, log, epoch, head, unsent, sub, client,
          world, views, tick, asked, shown, taken, boots, changes>>

-----------------------------------------------------------------------------
View(k, v) == [topic |-> "session.view", key |-> k, ver |-> v]
Gone(k) == [topic |-> "session.gone", key |-> k, ver |-> 0]
Other == [topic |-> "other"]  \* diag.detection, agent.*, msg.state, ...

ViewEvents == {View(k, v) : k \in Keys, v \in Vers}
SessionEvents == ViewEvents \cup {Gone(k) : k \in Keys}

Events == SessionEvents \cup {Other}
Wanted == [c \in Clients |-> SessionEvents]

Log == INSTANCE EventLog

Sessions == [Keys -> Vers \cup {0}]
None == [k \in Keys |-> 0]

\* Committed: `ver` and `seq` are by_key, the view and the seq of the stored
\* event with it.  `ready` is FALSE before the first commit.
Committed == [ready : BOOLEAN, ver : Sessions, seq : [Keys -> Nat],
              cursor : Nat]
NoViews == [ready |-> FALSE, ver |-> None, seq |-> None, cursor |-> 0]

\* ViewChange, once computed and once written; `last` is the last seq that
\* its transaction emitted, 0 if none.
Tick == [at : {"idle", "seen", "written"}, ver : Sessions,
         seq : [Keys -> Nat], last : Nat]
NoTick == [at |-> "idle", ver |-> None, seq |-> None, last |-> 0]

-----------------------------------------------------------------------------
(* SessionViews::diff of the sessions `now` against the committed views. *)

\* New, or with other content than before.
Changed(now) == {k \in Keys : now[k] # 0 /\ now[k] # views.ver[k]}

\* Committed and no longer found.
Ended(now) == {k \in Keys : now[k] = 0 /\ views.ver[k] # 0}

\* Mutant of Superseded: only changed sessions, not ended ones, free their
\* stored view.
SupersededByViews(now) == {views.seq[k] : k \in Changed(now)} \ {0}

\* The stored views that a newer view or the end of the session replaces.
Superseded(now) ==
    {views.seq[k] : k \in Changed(now) \cup Ended(now)} \ {0}

\* The stored views of an earlier run, all before this tick's first.
Earlier == {r.seq : r \in {e \in events : e.event \in ViewEvents}}

\* ViewChange::events.
TickEvents(now) ==
    LET changed == SetToSeq(Changed(now))
        ended   == SetToSeq(Ended(now))
    IN  [i \in DOMAIN changed |-> View(changed[i], now[changed[i]])]
        \o [i \in DOMAIN ended |-> Gone(ended[i])]

\* Mutant of DiagEvents: diagnostics are written outside the tick.
DiagEventsLater == <<>>

\* The first tick of a run also finds the diagnostics changed, since it
\* knows none.
DiagEvents == IF views.ready THEN <<>> ELSE <<Other>>

\* ViewChange::written
Written(now, new) ==
    [k \in Keys |->
        IF now[k] = 0 THEN 0
        ELSE IF k \notin Changed(now) THEN views.seq[k]
        ELSE Log!Newest(events) +
             (CHOOSE i \in DOMAIN new : new[i] = View(k, now[k]))]

-----------------------------------------------------------------------------
Init ==
    /\ Log!Init
    /\ world = None /\ views = NoViews /\ tick = NoTick
    /\ asked = {} /\ shown = [c \in Clients |-> None]
    /\ taken = [c \in Clients |-> 0]
    /\ boots = 0 /\ changes = 0

\* A session starts, changes or ends.
Change(k, v) ==
    /\ changes < MaxChanges
    /\ world[k] # v
    /\ world' = [world EXCEPT ![k] = v]
    /\ changes' = changes + 1
    /\ UNCHANGED <<views, tick, asked, shown, taken, boots>> /\ UNCHANGED logVars

\* Detector::tick observes the sessions and diffs them.
Observe ==
    /\ tick.at = "idle"
    /\ tick' = [NoTick EXCEPT !.at = "seen", !.ver = world]
    /\ UNCHANGED <<world, views, asked, shown, taken, boots, changes>>
    /\ UNCHANGED logVars

\* Its write commits: the events, then the compaction.
TickWrite ==
    /\ tick.at = "seen"
    /\ LET new  == TickEvents(tick.ver) \o DiagEvents
           dead == Superseded(tick.ver) \cup
                   (IF views.ready THEN {} ELSE Earlier)
       IN  /\ Log!Write(new, dead)
           /\ tick' = [tick EXCEPT !.at = "written",
                                   !.seq = Written(tick.ver, new),
                                   !.last = unsent']
    /\ UNCHANGED <<world, views, asked, shown, taken, boots, changes>>

\* Mutant of TickFail: a tick whose write fails uses up its transitions.
TickFailCommits ==
    /\ tick.at = "seen"
    /\ views' = [ready |-> TRUE, ver |-> tick.ver, seq |-> None, cursor |-> head]
    /\ tick' = NoTick
    /\ UNCHANGED <<world, asked, shown, taken, boots, changes>>
    /\ UNCHANGED logVars

\* The observation or the write failed: the tick commits nothing.
TickFail ==
    /\ tick.at = "seen"
    /\ tick' = NoTick
    /\ UNCHANGED <<world, views, asked, shown, taken, boots, changes>>
    /\ UNCHANGED logVars

\* The writer answers the tick after its broadcast: SessionViews::commit with
\* the head cursor, which later writes may have moved.
TickCommit ==
    /\ tick.at = "written" /\ tick.last <= head
    /\ views' = [ready |-> TRUE, ver |-> tick.ver, seq |-> tick.seq,
                 cursor |-> head]
    /\ tick' = NoTick
    /\ UNCHANGED <<world, asked, shown, taken, boots, changes>>
    /\ UNCHANGED logVars

\* Another component's transaction emits an event.
OtherWrite ==
    /\ Cardinality({r \in log : r.event = Other}) < MaxOther
    /\ Log!Write(<<Other>>, {})
    /\ UNCHANGED <<world, views, tick, asked, shown, taken, boots, changes>>

Publish ==
    /\ Log!Publish
    /\ UNCHANGED <<world, views, tick, asked, shown, taken, boots, changes>>

Prune(old) ==
    /\ Log!Prune(old)
    /\ UNCHANGED <<world, views, tick, asked, shown, taken, boots, changes>>

\* The engine stops and starts: the committed views and the tick are memory.
Boot(step) ==
    /\ boots < MaxBoots
    /\ step
    /\ boots' = boots + 1
    /\ views' = NoViews /\ tick' = NoTick /\ asked' = {}
    /\ UNCHANGED <<world, shown, taken, changes>>

Restart(old) == Boot(Log!Restart(old))
Recreate == Boot(Log!Recreate)

-----------------------------------------------------------------------------
(* The client: session.views, then events.subscribe from its cursor. *)

\* Mutant of ReadViews: the head is read after the views, instead of the
\* cursor the views were committed with.
ReadViewsAtHead(c) ==
    /\ views.ready /\ c \notin asked
    /\ Log!Snapshot(c, head)
    /\ shown' = [shown EXCEPT ![c] = views.ver]
    /\ taken' = [taken EXCEPT ![c] = boots + 1]
    /\ UNCHANGED <<world, views, tick, asked, boots, changes>>

\* session.views reads the views and their cursor together.
ReadViews(c) ==
    /\ views.ready /\ c \notin asked
    /\ Log!Snapshot(c, views.cursor)
    /\ shown' = [shown EXCEPT ![c] = views.ver]
    /\ taken' = [taken EXCEPT ![c] = boots + 1]
    /\ UNCHANGED <<world, views, tick, asked, boots, changes>>

\* Detection has committed nothing yet (its first pass failed or takes long):
\* session.views answers no sessions, at the head cursor, which it reads
\* only then.
ReadNoViews(c) ==
    /\ ~views.ready /\ c \notin asked
    /\ sub[c].state = "off" /\ client[c].epoch = 0
    /\ asked' = asked \cup {c}
    /\ UNCHANGED <<world, views, tick, shown, taken, boots, changes>>
    /\ UNCHANGED logVars

ReadHead(c) ==
    /\ c \in asked
    /\ Log!Snapshot(c, head)
    /\ asked' = asked \ {c}
    /\ shown' = [shown EXCEPT ![c] = None]
    /\ taken' = [taken EXCEPT ![c] = 0]
    /\ UNCHANGED <<world, views, tick, boots, changes>>

\* apply_session_event
Apply(sessions, e) == [sessions EXCEPT ![e.key] = e.ver]

Deliver(c, r) ==
    /\ Log!Deliver(c, r)
    /\ shown' = [shown EXCEPT ![c] = Apply(shown[c], r.event)]
    /\ UNCHANGED <<world, views, tick, asked, taken, boots, changes>>

\* Steps of the stream and of the connection.  On cursor_expired the client
\* keeps what it shows until the next snapshot replaces it.
StreamSteps(c) ==
    /\ \/ Log!ReadRows(c)
       \/ Log!ReadNothing(c)
       \/ Log!Park(c)
       \/ Log!ReadExpired(c)
       \/ Log!Wake(c)
    /\ UNCHANGED <<world, views, tick, asked, shown, taken, boots, changes>>

ConnSteps(c) ==
    /\ \/ Log!Subscribe(c)
       \/ Log!Refused(c)
       \/ Log!Ended(c)
       \/ Log!Drop(c)
    /\ UNCHANGED <<world, views, tick, asked, shown, taken, boots, changes>>

Next ==
    \/ \E k \in Keys, v \in Vers \cup {0} : Change(k, v)
    \/ Observe
    \/ TickWrite
    \/ TickFail
    \/ TickCommit
    \/ OtherWrite
    \/ Publish
    \/ \E old \in 0 .. MaxSeq : Prune(old)
    \/ \E old \in 0 .. MaxSeq : Restart(old)
    \/ Recreate
    \/ \E c \in Clients :
         \/ ReadViews(c)
         \/ ReadNoViews(c)
         \/ ReadHead(c)
         \/ StreamSteps(c)
         \/ ConnSteps(c)
         \/ \E r \in sub[c].wire : Deliver(c, r)

Spec == Init /\ [][Next]_vars

\* Detection ticks every TICK, and its ticks do not fail forever; the writer
\* and each stream's task are scheduled, and the client reads its frames.
Fairness ==
    /\ WF_vars(Observe) /\ SF_vars(TickWrite) /\ WF_vars(TickCommit)
    /\ WF_vars(Publish)
    /\ \A c \in Clients : /\ WF_vars(StreamSteps(c))
                          /\ WF_vars(\E r \in sub[c].wire : Deliver(c, r))
FairSpec == Spec /\ Fairness

-----------------------------------------------------------------------------
(* Properties. *)

\* Every variable keeps its type.
TypeOK ==
    /\ Log!TypeOK
    /\ world \in Sessions /\ views \in Committed /\ tick \in Tick
    /\ asked \subseteq Clients /\ shown \in [Clients -> Sessions]
    /\ taken \in [Clients -> 0 .. boots + 1]
    /\ boots \in 0 .. MaxBoots /\ changes \in 0 .. MaxChanges

\* Detection keeps the promise the log's guarantees rest on: whatever it
\* compacts, the same transaction emits something newer.  It holds at the
\* first tick of a run that finds no session only because that tick always
\* emits diagnostics; without them the newest row could go and its seq be
\* used again.
LogSpec == Log!Spec

\* A client whose cursor is still good and that has processed every session
\* event in the log, while no tick's events wait for their commit.
CaughtUp(c) ==
    /\ views.ready /\ tick.at # "written"
    /\ client[c].epoch = epoch
    /\ ~Log!Expired(events, client[c].seq)
    /\ \A r \in events : r.seq > client[c].seq => r.event \notin SessionEvents

ShowsLive(c) == \A k \in Keys : views.ver[k] # 0 => shown[c][k] = views.ver[k]
ShowsExactly(c) == shown[c] = views.ver

\* A client that read committed views and followed the log from their cursor
\* shows every listed session at its current version once it has processed
\* what is stored, over reconnections, restarts, pruning and compaction of
\* any views in between.
CaughtUpShowsLive ==
    \A c \in Clients : CaughtUp(c) /\ taken[c] # 0 => ShowsLive(c)

\* If the views are those of this run of the engine, it shows nothing else:
\* every session that has ended is gone.
CaughtUpIsCurrent ==
    \A c \in Clients : CaughtUp(c) /\ taken[c] = boots + 1 => ShowsExactly(c)

\* A caught-up client shows the sessions as they are.
CaughtUpIsTrue == TypeOK /\ CaughtUpShowsLive /\ CaughtUpIsCurrent

\* "One stored view per live session" (detect.rs): between ticks the log
\* holds no other view than the current ones, except as its oldest row.
OneStoredView ==
    views.ready /\ tick.at # "written" =>
        \A r \in events :
            r.event \in ViewEvents /\ (\E o \in events : o.seq < r.seq)
            => /\ views.ver[r.event.key] = r.event.ver
               /\ views.seq[r.event.key] = r.seq

\* A session that is listed and no longer changes reaches every client that
\* read committed views and whose stream stays up.
LiveSessionsReachClient ==
    \A c \in Clients :
        <>[](Log!Up(c) /\ taken[c] # 0)
            => <>[](\A k \in Keys : world[k] # 0 => shown[c][k] = world[k])

=============================================================================
