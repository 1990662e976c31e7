--------------------------- MODULE AgentLifecycle ---------------------------
(***************************************************************************)
(* The life of the engine's agents (create.rs, ops.rs, drain.rs,           *)
(* lineage.rs, run.rs): the row, the ops journal and the recorded child of *)
(* an agent, its process, its supervisor thread, the calls that create,    *)
(* resume and retire it, and the engine that boots, drains, stops and      *)
(* crashes.                                                                *)
(*                                                                         *)
(* A transaction of the store is one step; what a thread does outside of   *)
(* one (a check, a spawn, a kill) is a step of its own.  The effects of a  *)
(* transaction on mail, merge table, audit, settings files and events      *)
(* belong to other modules.                                                *)
(***************************************************************************)
EXTENDS Naturals, FiniteSets

CONSTANTS
    Agents,       \* agent ids; each is created at most once
    NoAgent,
    Asked,        \* pairs <<agent, parent or NoAgent>> a caller may create
    Clash,        \* pairs of agents whose cwds may not be live together
    MaxDepth, MaxChildren, MaxTree,   \* lineage.rs
    MaxGen,       \* bound: generations of an agent
    MaxBoots,     \* bound: boots of the engine; the last one does not crash
    StoreFails    \* BOOLEAN: a supervisor's write may fail

ASSUME LifecycleAssumption ==
    /\ IsFiniteSet(Agents) /\ NoAgent \notin Agents
    /\ \A a \in Agents : {a} \notin Clash
    /\ Asked \subseteq Agents \X (Agents \cup {NoAgent})
    /\ {MaxDepth, MaxChildren, MaxTree, MaxBoots} \subseteq Nat
    /\ MaxGen \in Nat \ {0}
    /\ StoreFails \in BOOLEAN

VARIABLES
    eng,     \* what the engine does
    boots,   \* how often it booted
    todo,    \* the agents a boot still has to look at
    db,      \* the store: the row of an agent, its ops and its recorded child
    proc,    \* the process of each generation, descendants included
    sup,     \* the supervisor thread of an agent
    call,    \* who holds the step lock of an agent, and where it is
    lost     \* history: children nothing keeps track of any more, and why

vars == <<eng, boots, todo, db, proc, sup, call, lost>>

Gens    == 1 .. MaxGen
Ended   == {"retired", "failed"}
Resting == {"paused", "interrupted"}
Active  == {"starting", "ready", "working"}
States  == {"none", "creating", "orphaned"} \cup Ended \cup Resting \cup Active
-----------------------------------------------------------------------------
(* One agent in the store.  `working` stands for working, blocked and      *)
(* refreshing.  op[g] is the op that generation g opened: a create for 1,  *)
(* a resume above; a closed op keeps the child it recorded ("done") or has *)
(* none ("dropped").  kept is the generation whose child agent_state       *)
(* records, or 0; over says that survivors of a kill went unrecorded.      *)

OpStates == {"none", "row", "pty", "dropped", "done"}

Row == [state  : States,
        reason : {"none", "drain", "resume_failed"},
        gen    : 0 .. MaxGen,
        parent : Agents \cup {NoAgent},
        op     : [Gens -> OpStates],
        kept   : 0 .. MaxGen,
        over   : BOOLEAN]

NoRow == [state |-> "none", reason |-> "none", gen |-> 0, parent |-> NoAgent,
          op |-> [g \in Gens |-> "none"], kept |-> 0, over |-> FALSE]

IsOpen(r, g)   == r.op[g] \in {"row", "pty"}
AnyOpen(r)     == \E g \in Gens : IsOpen(r, g)
Recorded(r, g) == r.op[g] \in {"pty", "done"}

\* ops::finish: close an open op.
Closed(o)    == IF o = "row" THEN "dropped" ELSE IF o = "pty" THEN "done" ELSE o
Finish(r, g) == [r EXCEPT !.op[g] = Closed(@)]
FinishAll(r) == [r EXCEPT !.op = [g \in Gens |-> Closed(r.op[g])]]

Forget(r) == [r EXCEPT !.kept = 0, !.over = FALSE]

\* begin_generation and open_create or open_resume.
Begin(r) == [r EXCEPT !.gen = @ + 1, !.op[r.gen + 1] = "row"]

\* ops::fail_agent.
FailAgent(r) ==
    IF r.state \in Ended THEN Forget(r) ELSE [Forget(r) EXCEPT !.state = "failed"]

\* Mutant of ResumeFailed: a row that ended meanwhile comes back.
ResumeFailedAnyRow(r, from) ==
    [Forget(r) EXCEPT !.state = IF from \in Resting THEN from ELSE "interrupted",
                      !.reason = "resume_failed"]

\* ops::resume_failed: back to where the resume came from.
ResumeFailed(r, from) ==
    LET back == IF r.state \in Resting THEN r.state
                ELSE IF from \in Resting THEN from ELSE "interrupted"
    IN  IF r.state \in Resting \cup {"starting", "ready"}
        THEN [Forget(r) EXCEPT !.state = back, !.reason = "resume_failed"]
        ELSE r

\* Mutant of OrphanAgent: the child is not kept.
OrphanForgets(r, g, over) ==
    [Forget(FinishAll(r)) EXCEPT !.state = "orphaned"]
\* ops::orphan_agent: whatever the row was, the child stays on record.
OrphanAgent(r, g, over) ==
    IF r.state = "orphaned" THEN r
    ELSE [FinishAll(r) EXCEPT !.state = "orphaned", !.kept = g, !.over = over]

\* retire_tx: the tombstone.
RetireTx(r) ==
    IF r.state \in Ended THEN r
    ELSE [Forget(FinishAll(r)) EXCEPT !.state = "retired"]

\* undo_resume: a drain or stop cut the resume of generation g.
UndoResume(r, g, from) ==
    LET c == Finish(r, g)
    IN  IF r.state \in {"starting", from}
        THEN [Forget(c) EXCEPT !.state = from, !.reason = "drain"]
        ELSE c

\* Mutant of Settle: only the state after the kill counts.
SettleNow(r, busy) ==
    IF r.state \notin Active THEN r
    ELSE [Forget(r) EXCEPT !.state  = IF r.state # "ready" THEN "interrupted" ELSE "paused",
                           !.reason = "drain"]

\* drain::settle: `busy` says that the agent was in a turn before the kill.
Settle(r, busy) ==
    IF r.state \notin Active THEN r
    ELSE [Forget(r) EXCEPT
             !.state  = IF busy \/ r.state # "ready" THEN "interrupted" ELSE "paused",
             !.reason = "drain"]

\* write_pty and write_bound, for an open op.
WritePty(r, g) ==
    [r EXCEPT !.op[g] = "pty", !.kept = g, !.over = FALSE,
              !.state = IF @ \in Resting \cup {"creating"} THEN "starting" ELSE @]
WriteBound(r, g) ==
    [Finish(r, g) EXCEPT
        !.state  = IF r.state = "starting" THEN "ready" ELSE @,
        !.reason = IF r.state = "starting" THEN "none" ELSE @]

\* live_fix, and what reconcile does with an open op.
LiveFix(r) ==
    IF r.state = "creating" THEN FailAgent(r)
    ELSE [Forget(r) EXCEPT !.state = "interrupted"]
OpFix(r, g) ==
    IF g > 1 THEN ResumeFailed(Finish(r, g), "none") ELSE FailAgent(Finish(r, g))
-----------------------------------------------------------------------------
(* The tree of agents (lineage.rs) and the cwds.                           *)

LiveRow(a) == db[a].state \notin Ended \cup {"none"}

\* The least set that holds a's parent and its members' parents.  The code's
\* loop ends after MAX_DEPTH + 1 ids; by check_limits no agent has as many.
Parents(S)   == {db[b].parent : b \in S} \ {NoAgent}
Ancestors(a) ==
    {b \in Agents : \A S \in SUBSET Agents : Parents(S \cup {a}) \subseteq S => b \in S}

Tree(root)    == {b \in Agents : b = root \/ root \in Ancestors(b)}
Children(p)   == {c \in Agents : db[c].parent = p /\ LiveRow(c)}
LiveTree(p)   == {b \in Agents : LiveRow(b) /\
                    \E r \in Ancestors(p) \cup {p} :
                        db[r].parent = NoAgent /\ b \in Tree(r)}

\* check_limits, in the transaction that writes the child's row.
CheckLimits(p) ==
    /\ LiveRow(p)
    /\ Cardinality(Ancestors(p)) + 1 <= MaxDepth
    /\ Cardinality(Children(p)) < MaxChildren
    /\ Cardinality(LiveTree(p)) < MaxTree

\* Mutant of CwdFree: an agent without a process does not count.
CwdFreeOfActive(a, p) ==
    LET lineage == IF p = NoAgent THEN {} ELSE Ancestors(p) \cup {p}
    IN  \A b \in Agents \ lineage : {a, b} \in Clash => db[b].state \notin Active

\* nested_cwd, other_live_cwd, unfenced_live_cwd: ancestors do not count.
CwdFree(a, p) ==
    LET lineage == IF p = NoAgent THEN {} ELSE Ancestors(p) \cup {p}
    IN  \A b \in Agents \ lineage : {a, b} \in Clash => ~LiveRow(b)

\* lineage::orphans: children whose parent cannot come back.
ParentGone(a) ==
    /\ LiveRow(a) /\ db[a].state # "orphaned"
    /\ db[a].parent # NoAgent
    /\ db[db[a].parent].state \in Ended
-----------------------------------------------------------------------------
NoSup  == [at |-> "none", gen |-> 0, from |-> "create", busy |-> FALSE]
NoCall == [pc |-> "none", gen |-> 0, from |-> "create"]

SupAt  == {"none", "begin", "checked", "spawned", "follow", "failing", "void", "cut",
           "undo", "run", "exited", "killed", "drained"}
CallPc == {"none", "create", "plan", "resume", "retire", "asked", "idle", "bury", "orphan"}

TypeOK ==
    /\ eng \in {"down", "reconcile", "resume", "serve", "drain", "stop", "halt"}
    /\ boots \in 0 .. MaxBoots
    /\ todo \subseteq Agents
    /\ db \in [Agents -> Row]
    /\ proc \in [Agents -> [Gens -> {"none", "up", "gone"}]]
    /\ sup \in [Agents -> [at : SupAt, gen : 0 .. MaxGen,
                           from : Resting \cup {"create"}, busy : BOOLEAN]]
    /\ call \in [Agents -> [pc : CallPc, gen : 0 .. MaxGen,
                            from : Resting \cup {"create"}]]
    /\ lost \subseteq Agents \X Gens \X {"buried", "forced", "crashed", "unwritten"}

Init ==
    /\ eng = "down" /\ boots = 0 /\ todo = {} /\ lost = {}
    /\ db   = [a \in Agents |-> NoRow]
    /\ proc = [a \in Agents |-> [g \in Gens |-> "none"]]
    /\ sup  = [a \in Agents |-> NoSup]
    /\ call = [a \in Agents |-> NoCall]

\* "halt" is a stop that ends a drain: the drain switch stays on.
Up        == eng \in {"serve", "drain", "stop", "halt"}
Stopping  == eng \in {"stop", "halt"}
Draining  == eng \in {"drain", "halt"}
\* The live map: `shutdown` empties it, a thread leaves it when it ends.
Listed(a) == sup[a].at # "none" /\ ~Stopping

Write(a, r)     == db' = [db EXCEPT ![a] = r]
Stores(a, r)    == Write(a, r) \/ (StoreFails /\ UNCHANGED db)
Goto(a, at)     == sup' = [sup EXCEPT ![a].at = at]
Dead(a, g)      == proc' = [proc EXCEPT ![a][g] = "gone"]
Holds(a, pc)    == call[a].pc = pc
CallGoto(a, pc) == call' = [call EXCEPT ![a].pc = pc]
Release(a)      == call' = [call EXCEPT ![a] = NoCall]

\* Mutant of EndThread: a retire that waits is not told.
EndSilently(a, answered) ==
    /\ sup' = [sup EXCEPT ![a] = NoSup]
    /\ call' = IF answered THEN [call EXCEPT ![a] = NoCall] ELSE call

\* The thread ends.  A retire that waits for it has its answer, or goes on
\* without it.
EndThread(a, answered) ==
    /\ sup' = [sup EXCEPT ![a] = NoSup]
    /\ call' = IF ~Holds(a, "asked") THEN call
               ELSE IF answered THEN [call EXCEPT ![a] = NoCall]
               ELSE [call EXCEPT ![a].pc = "idle"]
-----------------------------------------------------------------------------
(* Calls.  A call that passed the checks of draining and stopping before   *)
(* the switch may go on after it.                                          *)

\* create up to write_row.  The step lock is held until `Supervise`.
CreateRow(a, p) ==
    /\ Up /\ <<a, p>> \in Asked /\ db[a].state = "none" /\ Holds(a, "none")
    /\ p # NoAgent => CheckLimits(p)
    /\ CwdFree(a, p)
    /\ Write(a, Begin([NoRow EXCEPT !.state = "creating", !.parent = p]))
    /\ call' = [call EXCEPT ![a] = [pc |-> "create", gen |-> 1, from |-> "create"]]
    /\ UNCHANGED <<eng, boots, todo, proc, sup, lost>>

\* resume up to the plan: the step lock, no supervisor, a row at rest.
PlanResume(a) ==
    /\ Up /\ Holds(a, "none") /\ ~Listed(a)
    /\ db[a].state \in Resting /\ db[a].gen < MaxGen
    /\ call' = [call EXCEPT ![a] = [pc |-> "plan", gen |-> 0, from |-> db[a].state]]
    /\ UNCHANGED <<eng, boots, todo, db, proc, sup, lost>>

\* Mutant of CanResume: an open op is not looked for.
ResumeOverOpenOp(a, from) == db[a].state = from

\* write_resume: the row is as it was planned, and no op of it is open.
CanResume(a, from) == ~AnyOpen(db[a]) /\ db[a].state = from

WriteResume(a) ==
    /\ Holds(a, "plan")
    /\ \/ /\ CanResume(a, call[a].from)
          /\ Write(a, Begin(db[a]))
          /\ call' = [call EXCEPT ![a].pc = "resume", ![a].gen = db[a].gen + 1]
       \/ Release(a) /\ UNCHANGED db      \* changed meanwhile, or no claude
    /\ UNCHANGED <<eng, boots, todo, proc, sup, lost>>

\* supervise: start the thread of a create or resume, and free the lock.
Supervise(a) ==
    LET c == call[a] IN
    /\ c.pc \in {"create", "resume"}
    /\ IF Draining \/ Stopping \/ sup[a].at # "none"
       THEN /\ UNCHANGED sup
            /\ IF Draining /\ c.pc = "create" THEN UNCHANGED db
               ELSE Stores(a, IF Draining THEN UndoResume(db[a], c.gen, c.from)
                              ELSE IF c.pc = "create" THEN FailAgent(Finish(db[a], c.gen))
                              ELSE ResumeFailed(Finish(db[a], c.gen), c.from))
       ELSE /\ sup' = [sup EXCEPT ![a] = [NoSup EXCEPT !.at = "begin", !.gen = c.gen,
                                                       !.from = c.from]]
            /\ UNCHANGED db
    /\ Release(a)
    /\ UNCHANGED <<eng, boots, todo, proc, lost>>

\* Mutant of Sweep: a child that has a thread is left alone.
SweepIdle(a) ==
    /\ eng = "serve" /\ ParentGone(a) /\ ~Listed(a) /\ Holds(a, "none")
    /\ CallGoto(a, "retire")
    /\ UNCHANGED <<eng, boots, todo, db, proc, sup, lost>>

\* retire_one and the sweep's retire_orphans: the lock, and the row.
StartRetire(a) ==
    /\ Holds(a, "none") /\ LiveRow(a)
    /\ CallGoto(a, "retire")
    /\ UNCHANGED <<eng, boots, todo, db, proc, sup, lost>>
Retire(a) == Up /\ StartRetire(a)
Sweep(a)  == eng = "serve" /\ ParentGone(a) /\ StartRetire(a)

\* retire_live: the supervisor gets the command, if there is one.
RetireLive(a) ==
    /\ Holds(a, "retire")
    /\ CallGoto(a, IF Listed(a) THEN "asked" ELSE "idle")
    /\ UNCHANGED <<eng, boots, todo, db, proc, sup, lost>>

\* retire_idle: the state decides; it is read before the write.
RetireIdle(a) ==
    /\ Holds(a, "idle")
    /\ CallGoto(a, IF db[a].state = "orphaned" THEN "orphan" ELSE "bury")
    /\ UNCHANGED <<eng, boots, todo, db, proc, sup, lost>>

\* retire_row without a kill.
Bury(a) ==
    /\ Holds(a, "bury")
    /\ Write(a, RetireTx(db[a]))
    /\ lost' = IF db[a].kept # 0 /\ db[a].state \notin Ended
               THEN lost \cup {<<a, db[a].kept, "buried">>} ELSE lost
    /\ Release(a)
    /\ UNCHANGED <<eng, boots, todo, proc, sup>>

\* retire_orphan: kill the recorded child and its survivors again; the
\* tombstone follows only a confirmed kill of all of them, or force.
RetireOrphan(a) ==
    LET r == db[a] IN
    /\ Holds(a, "orphan")
    /\ \E killed, over, force \in BOOLEAN :
         /\ ~killed => r.kept # 0 /\ proc[a][r.kept] = "up"
         /\ killed => ~over
         /\ proc' = IF killed /\ r.kept # 0
                    THEN [proc EXCEPT ![a][r.kept] = IF @ = "up" THEN "gone" ELSE @]
                    ELSE proc
         /\ IF force \/ (killed /\ ~r.over)
            THEN /\ Write(a, RetireTx(r))
                 /\ lost' = IF ~killed THEN lost \cup {<<a, r.kept, "forced">>} ELSE lost
            ELSE /\ Write(a, [r EXCEPT !.over = @ \/ over])
                 /\ UNCHANGED lost
    /\ Release(a)
    /\ UNCHANGED <<eng, boots, todo, sup>>
-----------------------------------------------------------------------------
(* The supervisor thread (supervisor, bring_up, cut, run).                 *)

\* fail_create.
FailCreate(a) ==
    LET s == sup[a] r == Finish(db[a], s.gen)
    IN  IF s.from = "create" THEN FailAgent(r) ELSE ResumeFailed(r, s.from)

At(a, at) == sup[a].at = at

\* kill_confirmed: the kill cannot be confirmed; the row is marked orphaned
\* and the thread ends.
Unconfirmed(a, answered) ==
    LET g == sup[a].gen IN
    /\ proc[a][g] = "up"
    /\ \E over \in BOOLEAN : Stores(a, OrphanAgent(db[a], g, over))
    /\ lost' = IF db' = db /\ ~Recorded(db[a], g) THEN lost \cup {<<a, g, "unwritten">>} ELSE lost
    /\ EndThread(a, answered)
    /\ UNCHANGED proc
Confirmed(a) == Dead(a, sup[a].gen) /\ UNCHANGED <<db, lost>>
Kills(a, next, answered) ==
    \/ Confirmed(a) /\ Goto(a, next) /\ UNCHANGED call
    \/ Unconfirmed(a, answered)

\* bring_up before the spawn.
CheckSpawn(a) ==
    LET s == sup[a] IN
    /\ At(a, "begin")
    /\ \/ IsOpen(db[a], s.gen) /\ ~Draining /\ Goto(a, "checked") /\ UNCHANGED <<db, call>>
       \/ ~IsOpen(db[a], s.gen) /\ EndThread(a, FALSE) /\ UNCHANGED db
       \/ /\ IsOpen(db[a], s.gen) /\ Draining
          /\ IF s.from = "create" THEN UNCHANGED db
             ELSE Stores(a, UndoResume(db[a], s.gen, s.from))
          /\ EndThread(a, FALSE)
       \/ Stores(a, FailCreate(a)) /\ EndThread(a, FALSE)
    /\ UNCHANGED <<eng, boots, todo, proc, lost>>

Spawn(a) ==
    LET s == sup[a] IN
    /\ At(a, "checked")
    /\ \/ /\ proc' = [proc EXCEPT ![a][s.gen] = "up"] /\ Goto(a, "spawned")
          /\ UNCHANGED <<db, call>>
       \/ Stores(a, FailCreate(a)) /\ EndThread(a, FALSE) /\ UNCHANGED proc
    /\ UNCHANGED <<eng, boots, todo, lost>>

\* write_pty, and the look at the drain switch behind it.
RecordChild(a) ==
    LET s == sup[a] IN
    /\ At(a, "spawned")
    /\ IF IsOpen(db[a], s.gen)
       THEN Write(a, WritePty(db[a], s.gen)) /\ Goto(a, IF Draining THEN "cut" ELSE "follow")
       ELSE Goto(a, "void") /\ UNCHANGED db
    /\ UNCHANGED <<eng, boots, todo, proc, call, lost>>

\* write_bound at the first ready screen.
Bound(a) ==
    LET s == sup[a] IN
    /\ At(a, "follow") /\ proc[a][s.gen] = "up"
    /\ IF IsOpen(db[a], s.gen)
       THEN Write(a, WriteBound(db[a], s.gen)) /\ Goto(a, "run")
       ELSE Goto(a, "void") /\ UNCHANGED db
    /\ UNCHANGED <<eng, boots, todo, proc, call, lost>>

\* The kills of bring_up and run: a bring-up that fails (the screen, an exit,
\* a register or write error), a Retire command, a retire that closed the
\* op, an exit of a ready agent.
KillFail(a)   == (At(a, "follow") \/ At(a, "spawned")) /\ Kills(a, "failing", FALSE)
KillRetire(a) == /\ At(a, "follow") \/ At(a, "run")
                 /\ Holds(a, "asked")
                 /\ Kills(a, "killed", TRUE)
KillVoid(a)   == /\ At(a, "void")
                 /\ (Confirmed(a) /\ EndThread(a, FALSE)) \/ Unconfirmed(a, FALSE)
KillExit(a)   == At(a, "run") /\ Kills(a, "exited", FALSE)
Kill(a) ==
    /\ KillFail(a) \/ KillRetire(a) \/ KillVoid(a) \/ KillExit(a)
    /\ UNCHANGED <<eng, boots, todo>>

\* cut: a kill that fails leaves the op open.
Cut(a) ==
    LET s == sup[a] IN
    /\ At(a, "cut") \/ (At(a, "follow") /\ Stopping)
    /\ \/ /\ Dead(a, s.gen)
          /\ IF s.from = "create" THEN EndThread(a, FALSE)
             ELSE Goto(a, "undo") /\ UNCHANGED call
       \/ proc[a][s.gen] = "up" /\ EndThread(a, FALSE) /\ UNCHANGED proc
    /\ UNCHANGED <<eng, boots, todo, db, lost>>

\* Cmd::Shutdown of a ready agent: the result of the kill is ignored.
RunShutdown(a) ==
    /\ At(a, "run") /\ Stopping
    /\ Dead(a, sup[a].gen) \/ (proc[a][sup[a].gen] = "up" /\ UNCHANGED proc)
    /\ EndThread(a, FALSE)
    /\ UNCHANGED <<eng, boots, todo, db, lost>>

\* drain::run and drain_now: a turn is waited for until TURN_WAIT, and mail
\* in flight on the socket counts as one.  The state is read before the kill.
RunDrain(a) ==
    /\ At(a, "run") /\ Draining /\ ~AnyOpen(db[a])
    /\ \/ \E mail \in BOOLEAN :
            /\ Dead(a, sup[a].gen)
            /\ sup' = [sup EXCEPT ![a].at = "drained",
                                  ![a].busy = mail \/ db[a].state # "ready"]
            /\ UNCHANGED call
       \/ proc[a][sup[a].gen] = "up" /\ EndThread(a, FALSE) /\ UNCHANGED proc
    /\ UNCHANGED <<eng, boots, todo, db, lost>>

\* What the thread writes once its agent is gone.
Epilogue(a) ==
    LET s == sup[a] IN
    CASE s.at = "failing" -> FailCreate(a)
      [] s.at = "killed"  -> RetireTx(db[a])
      [] s.at = "exited"  -> FailAgent(db[a])
      [] s.at = "drained" -> Settle(db[a], s.busy)
      [] s.at = "undo"    -> UndoResume(db[a], s.gen, s.from)
WriteEnd(a) ==
    /\ sup[a].at \in {"failing", "killed", "exited", "drained", "undo"}
    /\ Stores(a, Epilogue(a))
    /\ EndThread(a, At(a, "killed"))
    /\ UNCHANGED <<eng, boots, todo, proc, lost>>

\* The hooks of the agent open and end a turn; its process may end.
Turn(a) ==
    /\ sup[a].at \in {"run", "exited", "killed", "drained"}
    /\ db[a].state \in {"ready", "working"}
    /\ Write(a, [db[a] EXCEPT !.state = IF @ = "ready" THEN "working" ELSE "ready"])
    /\ UNCHANGED <<eng, boots, todo, proc, sup, call, lost>>
Dies(a) ==
    /\ \E g \in Gens : proc[a][g] = "up" /\ Dead(a, g)
    /\ UNCHANGED <<eng, boots, todo, db, sup, call, lost>>
-----------------------------------------------------------------------------
(* The engine (run.rs): boot reconcile, boot resume, serve, drain, stop.   *)

Boot ==
    /\ eng = "down" /\ boots < MaxBoots
    /\ eng' = "reconcile" /\ boots' = boots + 1
    /\ todo' = {a \in Agents : AnyOpen(db[a]) \/ db[a].state \in Active \cup {"creating"}}
    /\ UNCHANGED <<db, proc, sup, call, lost>>

\* reconcile_with: the child of the open op, or else the one of agent_state,
\* is killed; then the row is settled.
Reconcile(a) ==
    /\ eng = "reconcile" /\ a \in todo
    /\ \E g \in 0 .. MaxGen :
         /\ IF g = 0 THEN ~AnyOpen(db[a]) ELSE IsOpen(db[a], g)
         /\ LET child == IF g = 0 THEN db[a].kept ELSE IF db[a].op[g] = "pty" THEN g ELSE 0
                fixed == IF g = 0 THEN LiveFix(db[a]) ELSE OpFix(db[a], g)
            IN  \/ /\ IF child = 0 THEN UNCHANGED proc ELSE Dead(a, child)
                   /\ Write(a, fixed)
                \/ /\ child # 0 /\ proc[a][child] = "up"
                   /\ \E over \in BOOLEAN : Write(a, OrphanAgent(db[a], child, over))
                   /\ UNCHANGED proc
    /\ todo' = todo \ {a}
    /\ UNCHANGED <<eng, boots, sup, call, lost>>

\* resume_on_boot lists what a drain or a crash left.
Resumable(a) ==
    \/ db[a].state = "paused" /\ db[a].reason = "drain"
    \/ db[a].state = "interrupted" /\ db[a].reason # "resume_failed"
BootResume ==
    /\ eng = "reconcile" /\ todo = {}
    /\ eng' = "resume" /\ todo' = {a \in Agents : Resumable(a)}
    /\ UNCHANGED <<boots, db, proc, sup, call, lost>>

\* One agent of the list: no claude here, no plan for it, or its resume op,
\* whose supervisor starts before the next one is looked at.
ResumeOne(a) ==
    /\ eng = "resume" /\ a \in todo /\ \A b \in Agents : Holds(b, "none")
    /\ \/ Stores(a, ResumeFailed(db[a], db[a].state)) /\ UNCHANGED call
       \/ Stores(a, FailAgent(db[a])) /\ UNCHANGED call
       \/ /\ CanResume(a, db[a].state) /\ db[a].gen < MaxGen
          /\ Write(a, Begin(db[a]))
          /\ call' = [call EXCEPT ![a] = [pc |-> "resume", gen |-> db[a].gen + 1,
                                          from |-> db[a].state]]
    /\ todo' = todo \ {a}
    /\ UNCHANGED <<eng, boots, proc, sup, lost>>

Serve ==
    /\ eng = "resume" /\ \A b \in Agents : Holds(b, "none")
    /\ todo = {} \/ StoreFails
    /\ eng' = "serve" /\ todo' = {}
    /\ UNCHANGED <<boots, db, proc, sup, call, lost>>

\* SIGTERM; then SIGINT or the end of the drain; SIGINT alone.
Drain ==
    /\ eng = "serve" /\ eng' = "drain"
    /\ UNCHANGED <<boots, todo, db, proc, sup, call, lost>>
Stop ==
    /\ \/ eng = "serve" /\ eng' = "stop"
       \/ eng = "drain" /\ eng' = "halt"
    /\ UNCHANGED <<boots, todo, db, proc, sup, call, lost>>

\* The engine process ends, at any point of any thread.
Crash ==
    /\ eng # "down" /\ boots < MaxBoots /\ eng' = "down" /\ todo' = {}
    /\ sup'  = [a \in Agents |-> NoSup]
    /\ call' = [a \in Agents |-> NoCall]
    /\ lost' = lost \cup {<<a, sup[a].gen, "crashed">> :
                            a \in {b \in Agents : sup[b].at \in {"spawned", "void"}}}
    /\ UNCHANGED <<boots, db, proc>>

Thread(a) ==
    \/ CheckSpawn(a) \/ Spawn(a) \/ RecordChild(a) \/ Bound(a) \/ Kill(a)
    \/ Cut(a) \/ RunShutdown(a) \/ RunDrain(a) \/ WriteEnd(a)
CallStep(a) ==
    \/ WriteResume(a) \/ Supervise(a) \/ RetireLive(a) \/ RetireIdle(a)
    \/ Bury(a) \/ RetireOrphan(a)

Next ==
    \/ \E a \in Agents, p \in Agents \cup {NoAgent} : CreateRow(a, p)
    \/ \E a \in Agents :
         \/ PlanResume(a) \/ Retire(a) \/ Sweep(a) \/ CallStep(a) \/ Thread(a)
         \/ Turn(a) \/ Dies(a) \/ Reconcile(a) \/ ResumeOne(a)
    \/ Boot \/ BootResume \/ Serve \/ Drain \/ Stop \/ Crash

Spec == Init /\ [][Next]_vars
-----------------------------------------------------------------------------
(* Properties.                                                             *)

Running(a, g) == proc[a][g] = "up"
Lost(a, g)    == \E why \in {"buried", "forced", "crashed", "unwritten"} :
                    <<a, g, why>> \in lost

\* A process that runs is somebody's: its own thread's, or the store names
\* it for the next boot reconcile, or for the retire of an orphan.  What is
\* lost was lost to a retire that did not kill (create.rs, retire_idle), to
\* a forced retire, to an end of the engine between the spawn and its
\* record, or to a write that failed behind a kill that did.
Accounted ==
    \A a \in Agents, g \in Gens :
        Running(a, g) => \/ sup[a].at # "none" /\ sup[a].gen = g
                         \/ db[a].kept = g /\ db[a].state \notin Ended
                         \/ db[a].op[g] = "pty"
                         \/ Lost(a, g)

\* One session never runs twice (create.rs, resume): two generations of an
\* agent run together only when the older one was lost.
OneProcess ==
    \A a \in Agents : \A g, h \in Gens :
        g < h /\ Running(a, g) /\ Running(a, h) => Lost(a, g)

\* No process is forgotten and none runs beside its successor, whatever is
\* killed, fails, ends or restarts in between.
ProcessesKept == Accounted /\ OneProcess

\* write_resume: an agent has one open create or resume op, of its newest
\* generation, and an agent that ended or was orphaned has none.
OneOpenOp ==
    \A a \in Agents : \A g \in Gens :
        IsOpen(db[a], g) => g = db[a].gen /\ db[a].state \notin Ended \cup {"orphaned"}

\* What boot reconcile can rely on (ops.rs, plan): the row of an agent that
\* may run names its child, or its op is open.
ActiveIsRecorded ==
    \A a \in Agents :
        db[a].state \in Active => db[a].kept = db[a].gen \/ AnyOpen(db[a])

\* The rows, the ops and the records agree at every step between them.
RowsAgree == TypeOK /\ OneOpenOp /\ ActiveIsRecorded

\* run.rs, boot order: past reconcile, an agent that is coming up or runs
\* has a thread or a call of this engine, unless its drain could not kill it.
NoGhost ==
    eng \in {"resume", "serve"} =>
        \A a \in Agents :
            AnyOpen(db[a]) \/ db[a].state \in Active \cup {"creating"} =>
                sup[a].at # "none" \/ ~Holds(a, "none")

\* drain.rs, settle: only an agent that was idle before its kill is paused.
PausedWasIdle ==
    [][\A a \in Agents : At(a, "drained") /\ sup[a].busy => db'[a].state # "paused"]_vars

\* create.rs, write_row: two agents that come up, run or rest have no nested
\* cwds, except an agent and its ancestors.  An orphaned one may have: it
\* can be a tombstone whose thread could not kill what it had spawned.
CwdApart ==
    \A a, b \in Agents :
        /\ {a, b} \in Clash
        /\ {db[a].state, db[b].state} \subseteq Active \cup Resting \cup {"creating"}
        => a \in Ancestors(b) \/ b \in Ancestors(a)

\* lineage.rs, check_limits: the limit of the depth holds at every agent, and
\* nobody is above itself.
TreeIsShallow ==
    \A a \in Agents : a \notin Ancestors(a) /\ Cardinality(Ancestors(a)) <= MaxDepth

\* What runs has its thread, its directory to itself and its place in a tree
\* of limited depth.
TreeIsTrue == NoGhost /\ CwdApart /\ TreeIsShallow

\* lineage.rs: while the engine serves, a live child whose parent ended ends
\* too, or is left orphaned.
ChildrenFollow ==
    \A a \in Agents :
        ParentGone(a) ~> (db[a].state \in Ended \cup {"orphaned"} \/ eng # "serve")

\* A retire gets its answer from a thread that comes up, runs or ends.
RetireAnswered ==
    \A a \in Agents : Holds(a, "asked") ~> Holds(a, "none")

\* Threads and calls go on: a thread that comes up ends or is ready within
\* READY_TIMEOUT, one that runs has to do something about a command or an
\* exit only.  The sweep comes back every SWEEP.
Due(a) == At(a, "run") => Holds(a, "asked") \/ Stopping \/ proc[a][sup[a].gen] # "up"
FairSpec ==
    /\ Spec
    /\ \A a \in Agents :
         WF_vars(Due(a) /\ Thread(a)) /\ WF_vars(CallStep(a)) /\ WF_vars(Sweep(a))

\* The fate of an agent, as its clients see it.
Fate(a) ==
    CASE db[a].state = "none"                       -> "absent"
      [] db[a].state \in {"creating", "starting"}   -> "coming"
      [] db[a].state \in {"ready", "working"}       -> "up"
      [] db[a].state \in Resting                    -> "resting"
      [] db[a].state \in Ended                      -> "ended"
      [] db[a].state = "orphaned"                   -> "orphaned"
fate == [a \in Agents |-> Fate(a)]
gen  == [a \in Agents |-> db[a].gen]
Promise == INSTANCE AgentPromise
PromiseKept == Promise!PromiseSpec
=============================================================================
