----------------------------- MODULE HookIntake -----------------------------
(***************************************************************************)
(* What one agent is doing, as the engine learns it: the hooks of its      *)
(* process (engine/hooks.rs), the screen its supervisor follows            *)
(* (engine/create.rs run), and the state merge of both (engine/merge.rs).  *)
(*                                                                         *)
(* A hook request reads the live generation, then waits for the writer.    *)
(* Its transaction runs the merge change on a copy; the change runs again  *)
(* on the live entry once the transaction commits, and never if it rolls   *)
(* back.  The supervisor forgets the entry when its agent ends, between    *)
(* any two of these steps.  Transactions of the one writer do not overlap. *)
(***************************************************************************)
EXTENDS Naturals, FiniteSets

CONSTANTS
    MaxGen,     \* bound: generations of the agent
    MaxHooks,   \* bound: hooks the agent's processes send
    MaxFails,   \* bound: transactions that roll back
    MaxDups,    \* bound: hooks that come in twice
    MaxUnseen,  \* bound: turns that end before the screen showed them
    Settle,     \* SETTLE_MS, in ticks of the clock
    MaxClock    \* bound on the clock

ASSUME Bounds ==
    {MaxGen, MaxHooks, MaxFails, MaxDups, MaxUnseen, Settle, MaxClock} \subseteq Nat
ASSUME SettleIsPositive == Settle > 0
\* begin_agent: an agent has a first generation.
ASSUME FirstGeneration == MaxGen > 0

\* No agent acts past the horizon, so that the screen is read once more and
\* every hold can run out.
Horizon == MaxClock - Settle - 1

Gens == 1 .. MaxGen
Seqs == 1 .. MaxHooks
Activities == {"working", "ready", "blocked"}
Methods == {"prompt", "stop", "permission", "tool"}
Sources == {"screen", "hook"}  \* the two that claim, weakest first
NoClaim == [activity |-> "unknown", at |-> 0]
None == "none"

VARIABLES
    row,       \* the agents row: its generation and state
    live,      \* the generation in the live table, or 0
    sup,       \* the supervisor: down, coming, run, ended or leaving
    table,     \* the merge entry: its generation (0: no entry) and merge
    agent,     \* the process: off, idle, asking, working or blocked
    owed,      \* the hook the process waits for, or 0
    net,       \* hooks on their way
    reqs,      \* hook requests past the read of the live generation
    want,      \* the write the supervisor waits for, or NoWant
    job,       \* the transaction the writer runs, or NoJob
    dedupe,    \* seqs in the dedupe table
    screen,    \* what the screen last showed, when, and if `run` saw it change
    reclaimed, \* it claimed the unchanged idle screen again
    clock,
    used,      \* how much of each bound is used up
    history    \* what committed: turns begun, turns ended, hooks applied

vars == <<row, live, sup, table, agent, owed, net, reqs, want, job, dedupe,
          screen, reclaimed, clock, used, history>>

NoWant == [kind |-> "none"]
NoJob == [kind |-> "none"]
-----------------------------------------------------------------------------
(* The merge of one generation.                                            *)

NewMerge == [claims |-> [s \in Sources |-> NoClaim], open |-> FALSE, ended |-> 0,
             written |-> None, call |-> FALSE]

\* The newest known claim, at equal times the hook's; a hook claim holds
\* against a newer one of the screen while its window lasts.
MergedAnyAge(m, now) ==
    LET h == m.claims["hook"]
        s == m.claims["screen"]
    IN  CASE h = NoClaim -> s.activity
          [] s = NoClaim \/ h.at >= s.at -> h.activity
          [] OTHER -> IF s.at - h.at < Settle THEN h.activity ELSE s.activity
Merged(m, now) ==
    LET h == m.claims["hook"]
        s == m.claims["screen"]
    IN  CASE h = NoClaim -> s.activity
          [] s = NoClaim \/ h.at >= s.at -> h.activity
          [] OTHER -> IF s.at - h.at < Settle /\ now - h.at < Settle
                      THEN h.activity ELSE s.activity

\* The row state of the merge; None while nothing is known.
RowState(m, now) == IF Merged(m, now) = "unknown" THEN None ELSE Merged(m, now)
Noted(m, now) == IF RowState(m, now) = None THEN m ELSE [m EXCEPT !.written = RowState(m, now)]
StaleRowState(m, now) == RowState(m, now) # None /\ RowState(m, now) # m.written
StaleTurn(m, now) ==
    m.open /\ \A s \in Sources : m.claims[s] = NoClaim \/ now - m.claims[s].at >= Settle

\* A turn opens at work after the last turn end, and ends at the first
\* claim of ready.  `ended` is one past the time of the last end.
Opens(m, a, now) == a \in {"working", "blocked"} /\ ~m.open /\ now >= m.ended
Closes(m, a) == a = "ready" /\ m.open
Claimed(m, src, a, now) ==
    [m EXCEPT !.claims[src] = [activity |-> a, at |-> now],
              !.open = (m.open \/ Opens(m, a, now)) /\ ~Closes(m, a),
              !.ended = IF Closes(m, a) THEN now + 1 ELSE @]

\* What a hook claims, with the merge as it is; None for no claim.
HookActivity(m, method) ==
    CASE method = "prompt" -> "working"
      [] method = "stop" -> "ready"
      [] method = "permission" -> "blocked"
      [] method = "tool" -> IF m.open /\ m.call THEN "working" ELSE None
CallAfter(m, method) ==
    CASE method = "permission" -> TRUE
      [] method = "tool" -> m.call /\ ~m.open
      [] OTHER -> FALSE

\* The change a job makes to a merge, before the row state is noted.
Changed(m, c) ==
    CASE c.kind = "hook" ->
             LET a == HookActivity(m, c.method)
                 n == [m EXCEPT !.call = CallAfter(m, c.method)]
             IN  IF a = None THEN n ELSE Claimed(n, "hook", a, c.now)
      [] c.kind = "screen" -> Claimed(m, "screen", c.activity, c.now)
      [] c.kind = "expire" -> m
Change(m, c) == Noted(Changed(m, c), c.now)
Begins(m, c) == ~m.open /\ Change(m, c).open
Ends(m, c) == m.open /\ ~Change(m, c).open
-----------------------------------------------------------------------------
(* The table.                                                              *)

Entry(g) == table.gen = g
\* stage: a copy of the entry of generation g, a clean one for a new one.
CopyAnyGen(g) == IF table.gen = 0 THEN NewMerge ELSE table.merge
Copy(g) == IF Entry(g) THEN table.merge ELSE NewMerge

\* publish: the change runs again on the live entry.  A change that was
\* staged on an existing entry is dropped when the entry went.
PublishOn(c) ==
    IF c.kind = "expire" /\ ~Entry(c.gen)
    THEN table
    ELSE [gen |-> c.gen, merge |-> Change(Copy(c.gen), c)]
-----------------------------------------------------------------------------
Init ==
    /\ row = [gen |-> 1, state |-> "starting"]
    /\ live = 0
    /\ sup = "coming"
    /\ table = [gen |-> 0, merge |-> NewMerge]
    /\ agent = "off"
    /\ owed = 0
    /\ net = {}
    /\ reqs = {}
    /\ want = NoWant
    /\ job = NoJob
    /\ dedupe = {}
    /\ screen = [shows |-> None, at |-> 0, seen |-> FALSE]
    /\ reclaimed = FALSE
    /\ clock = 0
    /\ used = [hooks |-> 0, fails |-> 0, dups |-> 0, unseen |-> 0]
    /\ history = [begun |-> [g \in Gens |-> 0], ended |-> [g \in Gens |-> 0],
                  applied |-> [q \in Seqs |-> 0]]

Spend(bound) == used' = [used EXCEPT ![bound] = @ + 1]

(* The agent's process.  It waits for each of its hooks to be answered or  *)
(* given up before it goes on.  The screen is read before a turn changes,  *)
(* but an approval may be faster than that.                                *)

Acts == agent # "off" /\ owed = 0 /\ sup = "run" /\ clock <= Horizon

\* It sends hook `method`, if the bound allows, and goes to `next`.
Sends(method, next) ==
    /\ agent' = next
    /\ IF used.hooks < MaxHooks
       THEN /\ Spend("hooks")
            /\ owed' = used.hooks + 1
            /\ net' = net \cup {[seq |-> used.hooks + 1, gen |-> live, method |-> method]}
       ELSE UNCHANGED <<used, owed, net>>
    /\ UNCHANGED <<row, live, sup, table, reqs, want, job, dedupe, screen, reclaimed,
                   clock, history>>

Shown(a) == IF a \in {"idle", "asking"} THEN "ready" ELSE a
Seen == screen.shows = Shown(agent)

Prompt == Acts /\ agent = "idle" /\ used.hooks < MaxHooks /\ Sends("prompt", "asking")
Works == Acts /\ agent = "asking" /\ agent' = "working"
         /\ UNCHANGED <<row, live, sup, table, owed, net, reqs, want, job, dedupe, screen,
                        reclaimed, clock, used, history>>
\* The prompt starts no turn the screen would show, and no Stop hook ends it.
Unseen == Acts /\ agent = "asking" /\ used.unseen < MaxUnseen /\ Spend("unseen") /\ agent' = "idle"
          /\ UNCHANGED <<row, live, sup, table, owed, net, reqs, want, job, dedupe, screen,
                         reclaimed, clock, history>>
Asks == Acts /\ agent = "working" /\ Seen /\ Sends("permission", "blocked")
Approved == Acts /\ agent = "blocked" /\ Sends("tool", "working")
Stops == Acts /\ agent = "working" /\ Seen /\ Sends("stop", "idle")
\* An Esc interrupt: the turn ends with no hook.
Interrupted == Acts /\ agent \in {"working", "blocked"} /\ Seen /\ agent' = "idle"
               /\ UNCHANGED <<row, live, sup, table, owed, net, reqs, want, job, dedupe, screen,
                              reclaimed, clock, used, history>>
AgentStep == Prompt \/ Works \/ Unseen \/ Asks \/ Approved \/ Stops \/ Interrupted

(* Hook requests.                                                          *)

\* A hook gives up: it did not reach the engine in time.
Lose(h) ==
    /\ h \in net
    /\ net' = net \ {h}
    /\ owed' = IF owed = h.seq /\ (\A r \in reqs : r.hook # h) THEN 0 ELSE owed
    /\ UNCHANGED <<row, live, sup, table, agent, reqs, want, job, dedupe, screen, reclaimed,
                   clock, used, history>>

\* hook_intake: the live generation is read, then the write is queued.  A
\* hook that will be sent again stays on its way.
Receive(h, again) ==
    /\ h \in net
    /\ \A r \in reqs : r.hook # h
    /\ reqs' = reqs \cup {[hook |-> h, live |-> live]}
    /\ IF again
       THEN used.dups < MaxDups /\ Spend("dups") /\ UNCHANGED net
       ELSE net' = net \ {h} /\ UNCHANGED used
    /\ UNCHANGED <<row, live, sup, table, agent, owed, want, job, dedupe, screen, reclaimed,
                   clock, history>>

\* Generation and dedupe, in the transaction.
CurrentByLive(r) == r.live = r.hook.gen
Current(r) == r.live = r.hook.gen /\ row.gen = r.hook.gen
AgentRow == row.state # "gone"
Taken(r) == AgentRow /\ Current(r) /\ r.hook.seq \notin dedupe

Answered(r) ==
    /\ reqs' = reqs \ {r}
    /\ owed' = IF owed = r.hook.seq THEN 0 ELSE owed

\* A dropped event: unknown agent, stale generation or duplicate.
Drop(r) ==
    /\ job = NoJob
    /\ ~Taken(r)
    /\ Answered(r)
    /\ UNCHANGED <<row, live, sup, table, agent, net, want, job, dedupe, screen, reclaimed,
                   clock, used, history>>

\* The transaction runs, on a copy of the merge.
BeginTx(c) ==
    /\ job = NoJob
    /\ job' = [kind |-> "tx", change |-> c, copy |-> Copy(c.gen)]
    /\ UNCHANGED table

BeginHook(r) ==
    /\ Taken(r)
    /\ BeginTx([kind |-> "hook", gen |-> r.hook.gen, now |-> clock, method |-> r.hook.method,
                activity |-> None, req |-> r])
    /\ UNCHANGED <<row, live, sup, agent, owed, net, reqs, want, dedupe, screen, reclaimed,
                   clock, used, history>>

(* The supervisor of a ready agent.                                        *)

supVars == <<row, live, sup, table, agent, owed, net, reqs, job, dedupe, clock, used, history>>
Runs == sup = "run" /\ want = NoWant

\* The screen changed.  Looks are RUN_TICK apart.
Look ==
    /\ Runs
    /\ agent # "off"
    /\ Shown(agent) # screen.shows
    /\ screen.at < clock
    /\ screen' = [shows |-> Shown(agent), at |-> clock, seen |-> TRUE]
    /\ reclaimed' = FALSE
    /\ want' = [kind |-> "screen", activity |-> Shown(agent), now |-> 0]
    /\ UNCHANGED supVars

\* The screen is idle and a turn is open with nothing said: ready again,
\* once for each screen state.
Reclaim ==
    /\ Runs
    /\ screen.shows = "ready" /\ screen.seen
    /\ ~reclaimed
    /\ Entry(row.gen) /\ StaleTurn(table.merge, clock)
    /\ reclaimed' = TRUE
    /\ want' = [kind |-> "screen", activity |-> "ready", now |-> 0]
    /\ UNCHANGED <<supVars, screen>>

\* A hold ran out with no new claim.
ExpireHold ==
    /\ Runs
    /\ Entry(row.gen) /\ StaleRowState(table.merge, clock)
    /\ want' = [kind |-> "expire", activity |-> None, now |-> clock]
    /\ UNCHANGED <<supVars, screen, reclaimed>>

BeginWant ==
    /\ want # NoWant
    /\ want.kind = "expire" => Entry(row.gen)
    /\ BeginTx([kind |-> want.kind, gen |-> row.gen, activity |-> want.activity, method |-> None,
                now |-> IF want.kind = "expire" THEN want.now ELSE clock, req |-> NoWant])
    /\ UNCHANGED <<row, live, sup, agent, owed, net, reqs, want, dedupe, screen, reclaimed,
                   clock, used, history>>

(* The end of a transaction.                                               *)

\* write_change: only these row states move.
Mergeable == row.state \in {"ready", "working", "blocked"}
Replies(c) == IF c.kind = "hook" THEN Answered(c.req) /\ UNCHANGED want
                                 ELSE want' = NoWant /\ UNCHANGED <<reqs, owed>>

Commit ==
    LET c == job.change
        m == job.copy
        to == RowState(Changed(m, c), c.now)
        turn(field, happened) ==
            [history[field] EXCEPT ![c.gen] = IF happened THEN @ + 1 ELSE @]
    IN  /\ job # NoJob
        /\ job' = NoJob
        /\ row' = IF Mergeable /\ to # None THEN [row EXCEPT !.state = to] ELSE row
        /\ dedupe' = IF c.kind = "hook" THEN dedupe \cup {c.req.hook.seq} ELSE dedupe
        /\ table' = PublishOn(c)
        /\ history' = [begun |-> turn("begun", Begins(m, c)),
                       ended |-> turn("ended", Ends(m, c)),
                       applied |-> IF c.kind = "hook"
                                   THEN [history.applied EXCEPT ![c.req.hook.seq] = @ + 1]
                                   ELSE history.applied]
        /\ Replies(c)
        /\ UNCHANGED <<live, sup, agent, net, screen, reclaimed, clock, used>>

\* It fails: nothing was written, the staged change is dropped.
Rollback ==
    /\ job # NoJob
    /\ used.fails < MaxFails
    /\ Spend("fails")
    /\ job' = NoJob
    /\ Replies(job.change)
    /\ UNCHANGED <<row, live, sup, table, agent, net, dedupe, screen, reclaimed, clock, history>>

(* Generations.                                                            *)

rest == <<net, reqs, job, dedupe, clock, used, history>>

\* bring_up: the process starts and is registered.
Spawn ==
    /\ sup = "coming" /\ live = 0
    /\ live' = row.gen
    /\ agent' = "idle"
    /\ UNCHANGED <<row, sup, table, owed, want, screen, reclaimed, rest>>

\* write_bound: the agent is ready, the supervisor follows it.
Bound ==
    /\ sup = "coming" /\ live = row.gen /\ job = NoJob
    /\ row' = [row EXCEPT !.state = "ready"]
    /\ sup' = "run"
    /\ screen' = [shows |-> "ready", at |-> clock, seen |-> FALSE]
    /\ reclaimed' = FALSE
    /\ UNCHANGED <<live, table, agent, owed, want, rest>>

\* The agent ends: its process is gone, its row is at rest or a tombstone.
End(state) ==
    /\ sup \in {"coming", "run"} /\ live = row.gen
    /\ want = NoWant /\ job = NoJob
    /\ row' = [row EXCEPT !.state = state]
    /\ agent' = "off"
    /\ owed' = 0
    /\ sup' = "ended"
    /\ UNCHANGED <<live, table, want, screen, reclaimed, rest>>

Unregister ==
    /\ sup = "ended"
    /\ live' = 0
    /\ sup' = "leaving"
    /\ UNCHANGED <<row, table, agent, owed, want, screen, reclaimed, rest>>

Forget ==
    /\ sup = "leaving"
    /\ table' = [gen |-> 0, merge |-> NewMerge]
    /\ sup' = "down"
    /\ UNCHANGED <<row, live, agent, owed, want, screen, reclaimed, rest>>

\* begin_generation of a resume.
Resume ==
    /\ sup = "down" /\ row.state = "paused" /\ row.gen < MaxGen /\ job = NoJob
    /\ row' = [gen |-> row.gen + 1, state |-> "starting"]
    /\ sup' = "coming"
    /\ UNCHANGED <<live, table, agent, owed, want, screen, reclaimed, rest>>

\* From the horizon on, the hooks are over and the supervisor keeps up.
Tick ==
    /\ clock < MaxClock
    /\ clock >= Horizon =>
           /\ net = {} /\ reqs = {} /\ want = NoWant /\ job = NoJob
           /\ sup = "run" /\ screen.at < clock => screen.shows = Shown(agent)
    /\ clock' = clock + 1
    /\ UNCHANGED <<row, live, sup, table, agent, owed, net, reqs, want, job, dedupe, screen,
                   reclaimed, used, history>>

HookStep ==
    \/ \E h \in net : Lose(h) \/ \E again \in BOOLEAN : Receive(h, again)
    \/ \E r \in reqs : Drop(r) \/ BeginHook(r)
SupStep == Look \/ Reclaim \/ ExpireHold
WriterStep == BeginWant \/ Commit
LifeStep ==
    Spawn \/ Bound \/ (\E s \in {"paused", "gone"} : End(s)) \/ Unregister \/ Forget \/ Resume

Next == AgentStep \/ HookStep \/ SupStep \/ WriterStep \/ Rollback \/ LifeStep \/ Tick

\* A hook is answered or gives up, the supervisor's loop goes round, the
\* writer runs what waits, and time passes.
Fairness ==
    /\ WF_vars(HookStep)
    /\ WF_vars(Look) /\ WF_vars(Reclaim) /\ WF_vars(ExpireHold)
    /\ WF_vars(BeginWant) /\ WF_vars(Commit)
    /\ WF_vars(Tick)

Spec == Init /\ [][Next]_vars /\ Fairness
-----------------------------------------------------------------------------
Merge == [claims : [Sources -> [activity : Activities \cup {"unknown"}, at : 0 .. MaxClock]],
          open : BOOLEAN, ended : 0 .. MaxClock + 1, written : Activities \cup {None},
          call : BOOLEAN]
Hook == [seq : Seqs, gen : Gens, method : Methods]

TypeOK ==
    /\ row \in [gen : Gens, state : Activities \cup {"starting", "paused", "gone"}]
    /\ live \in 0 .. MaxGen
    /\ sup \in {"down", "coming", "run", "ended", "leaving"}
    /\ table \in [gen : 0 .. MaxGen, merge : Merge]
    /\ agent \in {"off", "idle", "asking", "working", "blocked"}
    /\ owed \in 0 .. MaxHooks
    /\ net \subseteq Hook
    /\ \A r \in reqs : r.hook \in Hook /\ r.live \in 0 .. MaxGen
    /\ dedupe \subseteq Seqs
    /\ screen \in [shows : Activities \cup {None}, at : 0 .. MaxClock, seen : BOOLEAN]
    /\ clock \in 0 .. MaxClock
    \* The two generations the program compares are of one agent.
    /\ live \in {0, row.gen} /\ table.gen <= row.gen

\* Every turn that began in the row's generation has its turn end event, but
\* the one the merge says is open: no failed write loses one, no duplicate
\* or retry writes two, and no turn is left over from another generation.
TurnsBalance ==
    sup \in {"coming", "run"} =>
        history.begun[row.gen] - history.ended[row.gen] =
            IF Entry(row.gen) /\ table.merge.open THEN 1 ELSE 0

\* What the merge notes as written is what a ready agent's row says, so that
\* a hold that runs out is seen.
WrittenIsTrue ==
    sup = "run" /\ Entry(row.gen) /\ table.merge.written # None =>
        row.state = table.merge.written

\* A hook counts once: what a failed write did with it can be done again,
\* and what a committed one did cannot.
AppliedOnce == \A q \in Seqs : history.applied[q] = IF q \in dedupe THEN 1 ELSE 0

\* Nothing of an ended generation moves the row of a later one, however long
\* its hooks waited after the live generation was read.
GenerationsApart == [][row'.state # row.state /\ job # NoJob => job.change.gen = row.gen]_vars

\* Row, turns and merge table tell one story.
TableIsTrue == TypeOK /\ TurnsBalance /\ WrittenIsTrue
\* A hook counts once, in its own generation.
HooksCount == []AppliedOnce /\ GenerationsApart

\* Hooks may be lost, doubled or rolled back, an interrupt sends none, and
\* one write of the screen's claim may fail: in the end the row of an idle
\* agent says ready, and its mail can be delivered.  But for claims of one
\* instant: of a hook and the screen the hook's stands, and work claimed
\* with a turn end opens no turn; and but for a prompt the screen never
\* showed (DocStaleTurnEnds).
Tied ==
    LET h == table.merge.claims["hook"]
    IN  \/ h.at = table.merge.claims["screen"].at
        \/ h.activity # "ready" /\ h.at + 1 = table.merge.ended
RowSettles ==
    <>[](sup = "run" /\ agent = "idle" /\ used.unseen = 0 =>
             row.state = "ready" \/ (Entry(row.gen) /\ Tied))

\* merge.rs stale_turn: a turn that is open with nothing said while the
\* screen is idle is claimed ready again.
Stuck ==
    /\ sup = "run" /\ agent = "idle" /\ screen.shows = "ready"
    /\ Entry(row.gen) /\ StaleTurn(table.merge, clock)
DocStaleTurnEnds == Stuck ~> ~Stuck
=============================================================================
