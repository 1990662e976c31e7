----------------------------- MODULE EngineLock -----------------------------
(***************************************************************************)
(* One engine per home: the lifetime lock (engine_proto/lock.rs), the      *)
(* socket (engine/sock.rs), the start and the end of an engine             *)
(* (engine/run.rs), and the clients that start, stop and restart it        *)
(* (engine_proto/spawn.rs).                                                *)
(*                                                                         *)
(* Clients probe the lock with a shared one, for a moment; spawning is     *)
(* serialized by a lock of its own; a stop signals the pid that both the   *)
(* socket and the lock file name.  Kernel locks go with their process.     *)
(***************************************************************************)
EXTENDS Naturals, FiniteSets

CONSTANTS
    Clients,
    Nobody,
    MaxEngines,  \* bound: engine processes, numbered as they are spawned
    MaxCalls,    \* bound: calls of the clients
    MaxFaults    \* bound: crashes, failed boots, SIGINTs, interrupted clients

ASSUME NobodyIsNoClient == Nobody \notin Clients
ASSUME BoundsAreNumbers == {MaxEngines, MaxCalls, MaxFaults} \subseteq Nat

Engines == 1 .. MaxEngines
None == 0  \* no engine, no pid

VARIABLES
    stage,     \* where each engine process is
    term,      \* engines with a SIGTERM to take
    ex,        \* the engine that holds the exclusive lock, or None
    sh,        \* clients that hold the shared lock of a probe
    pidfile,   \* the pid in the lock file, or None
    db,        \* engines that have the database open
    socket,    \* the engine that bound what is at the socket path, or None
    spawning,  \* the client that holds the spawn lock, or Nobody
    strangers, \* pids of dead engines that other processes have now
    op, at,    \* each client's call and where it is in it
    pid,       \* the pid a stop or restart verified, or None
    child,     \* the engine its call spawned, or None
    result,    \* what its last call returned
    used,      \* how much of each bound is used up
    hit,       \* history: a signal went to a stranger
    orphan,    \* history: a client was killed before its engine had the lock
    spoiled    \* history: clients whose call met a fault or another's stop

engineVars == <<stage, term, ex, pidfile, db, socket>>
clientVars == <<sh, spawning, op, at, pid, child, result>>
vars == <<engineVars, clientVars, strangers, used, hit, orphan, spoiled>>

Rising == {"new", "locked", "cleared", "boot", "bound", "serving"}
Falling == {"draining", "closing", "unlinked", "closed"}
Live(e) == stage[e] \in Rising \cup Falling
\* The kernel accepts while the process lives, hello is answered while it serves.
Listens(e) == stage[e] \in {"bound", "serving", "draining", "closing"}
Answers(e) == stage[e] \in {"serving", "draining"}
Answered == socket # None /\ Answers(socket)
Reachable == socket # None /\ Listens(socket)
Comes == \E e \in Engines : stage[e] \in Rising
Spawns == spawning # Nobody /\ at[spawning] \in {"reprobe", "spawn"}

Init ==
    /\ stage = [e \in Engines |-> "none"]
    /\ term = {}
    /\ ex = None
    /\ sh = {}
    /\ pidfile = None
    /\ db = {}
    /\ socket = None
    /\ spawning = Nobody
    /\ strangers = {}
    /\ op = [c \in Clients |-> "none"]
    /\ at = [c \in Clients |-> "idle"]
    /\ pid = [c \in Clients |-> None]
    /\ child = [c \in Clients |-> None]
    /\ result = [c \in Clients |-> "none"]
    /\ used = [calls |-> 0, faults |-> 0]
    /\ hit = FALSE
    /\ orphan = FALSE
    /\ spoiled = {}

\* The holder of the spawn lock waits for an engine that exited.
InVain == spawning # Nobody /\ ~Comes /\ ~Spawns

Busy == {c \in Clients : at[c] # "idle"}
-----------------------------------------------------------------------------
(* An engine, from its start to its end.                                   *)

rest == <<clientVars, strangers, used, hit, orphan, spoiled>>
Becomes(e, s) == stage' = [stage EXCEPT ![e] = s]

\* acquire_engine_lock: retried until it is free of probes and engines.
Lock(e) ==
    /\ stage[e] = "new"
    /\ ex = None /\ sh = {}
    /\ ex' = e
    /\ Becomes(e, "locked")
    /\ UNCHANGED <<term, pidfile, db, socket, rest>>

\* engine_already_running.
GiveUp(e) ==
    /\ stage[e] = "new"
    /\ ex # None
    /\ Becomes(e, "dead")
    /\ UNCHANGED <<term, ex, pidfile, db, socket, rest>>

\* The old pid is cut off before the new one is written.
ClearPid(e) ==
    /\ stage[e] = "locked"
    /\ pidfile' = None
    /\ Becomes(e, "cleared")
    /\ UNCHANGED <<term, ex, db, socket, rest>>
WritePid(e) ==
    /\ stage[e] = "cleared"
    /\ pidfile' = e
    /\ db' = db \cup {e}
    /\ Becomes(e, "boot")
    /\ UNCHANGED <<term, ex, socket, rest>>

\* bind_private: the rename replaces whatever is at the path.
Bind(e) ==
    /\ stage[e] = "boot"
    /\ socket' = e
    /\ Becomes(e, "bound")
    /\ UNCHANGED <<term, ex, pidfile, db, rest>>

Moves(e, from, to) ==
    stage[e] = from /\ Becomes(e, to) /\ UNCHANGED <<ex, pidfile, db, socket, rest>>

Serve(e) == Moves(e, "bound", "serving") /\ UNCHANGED term
Drain(e) == e \in term /\ Moves(e, "serving", "draining") /\ term' = term \ {e}
Drained(e) == Moves(e, "draining", "closing") /\ UNCHANGED term

\* The end of run_until, in its order: socket, database, lock.
Unlink(e) ==
    /\ stage[e] = "closing"
    /\ socket' = IF socket = e THEN None ELSE socket
    /\ Becomes(e, "unlinked")
    /\ UNCHANGED <<term, ex, pidfile, db, rest>>
CloseDb(e) ==
    /\ stage[e] = "unlinked"
    /\ db' = db \ {e}
    /\ Becomes(e, "closed")
    /\ UNCHANGED <<term, ex, pidfile, socket, rest>>
UnlockEarly(e) ==
    /\ stage[e] \in {"unlinked", "closed"}
    /\ ex' = None
    /\ Becomes(e, IF stage[e] = "closed" THEN "dead" ELSE "unlinked")
    /\ UNCHANGED <<term, pidfile, db, socket, rest>>
Unlock(e) ==
    /\ stage[e] = "closed"
    /\ ex' = None
    /\ Becomes(e, "dead")
    /\ UNCHANGED <<term, pidfile, db, socket, rest>>

EngineStep(e) ==
    \/ Lock(e) \/ GiveUp(e) \/ ClearPid(e) \/ WritePid(e) \/ Bind(e) \/ Serve(e)
    \/ Drain(e) \/ Drained(e) \/ Unlink(e) \/ CloseDb(e) \/ Unlock(e)

Faults == used.faults < MaxFaults /\ used' = [used EXCEPT !.faults = @ + 1]

\* The process dies, or a boot step fails and it exits.  The socket's path
\* and the pid stay.
Crash(e) ==
    /\ Live(e)
    /\ Faults
    /\ Becomes(e, "dead")
    /\ ex' = IF ex = e THEN None ELSE ex
    /\ db' = db \ {e}
    /\ term' = term \ {e}
    /\ spoiled' = spoiled \cup Busy
    /\ UNCHANGED <<pidfile, socket, clientVars, strangers, hit, orphan>>

\* SIGINT: no drain, or its end.
Sigint(e) ==
    /\ Answers(e)
    /\ Faults
    /\ Becomes(e, "closing")
    /\ term' = term \ {e}
    /\ spoiled' = spoiled \cup Busy
    /\ UNCHANGED <<ex, pidfile, db, socket, clientVars, strangers, hit, orphan>>

\* Another process gets the pid of a dead engine.  Not while a client that
\* asked the living engine for it is about to signal: no code covers that.
Reuse(e) ==
    /\ stage[e] = "dead" /\ e \notin strangers
    /\ \A c \in Clients : at[c] \in {"holder", "check", "hello", "kill"} => pid[c] # e
    /\ strangers' = strangers \cup {e}
    /\ UNCHANGED <<engineVars, clientVars, used, hit, orphan, spoiled>>
-----------------------------------------------------------------------------
(* The clients.                                                            *)

Goes(c, place) == at' = [at EXCEPT ![c] = place]
\* The call returns; the spawn lock goes with it.
Returns(c, r) ==
    /\ Goes(c, "idle")
    /\ result' = [result EXCEPT ![c] = r]
    /\ spawning' = IF spawning = c THEN Nobody ELSE spawning
others == <<engineVars, strangers, used, hit, orphan, spoiled>>

\* A client calls ensure_engine, stop_engine or restart_engine.
Call(c, o) ==
    /\ at[c] = "idle"
    /\ used.calls < MaxCalls
    /\ used' = [used EXCEPT !.calls = @ + 1]
    /\ op' = [op EXCEPT ![c] = o]
    /\ Goes(c, IF o = "ensure" THEN "connect" ELSE "look")
    /\ pid' = [pid EXCEPT ![c] = None]
    /\ child' = [child EXCEPT ![c] = None]
    /\ result' = [result EXCEPT ![c] = "none"]
    /\ spoiled' = IF \E e \in Engines : stage[e] \in Falling \/ e \in term
                  THEN spoiled \cup {c} ELSE spoiled \ {c}
    /\ UNCHANGED <<engineVars, sh, spawning, strangers, hit, orphan>>

\* engine_lock_held, at `place`: on to `held` or `free`.
ProbeKeeps(c, place, held, free) ==
    /\ at[c] = place
    /\ sh' = IF ex = None THEN sh \cup {c} ELSE sh
    /\ Goes(c, IF ex = None THEN free ELSE held)
    /\ UNCHANGED <<spawning, op, pid, child, result, others>>
Probe(c, place, held, free) ==
    /\ at[c] = place
    /\ \/ ex # None /\ c \notin sh /\ Goes(c, held) /\ UNCHANGED sh
       \/ ex = None /\ c \notin sh /\ sh' = sh \cup {c} /\ UNCHANGED at
       \/ c \in sh /\ sh' = sh \ {c} /\ Goes(c, free)
    /\ UNCHANGED <<spawning, op, pid, child, result, others>>

(* ensure_engine *)

\* An engine answers hello, before a spawn or in wait_until_ready.
Hello(c) ==
    /\ at[c] \in {"connect", "wait"}
    /\ Answered
    /\ Returns(c, "ok")
    /\ UNCHANGED <<sh, op, pid, child, others>>
Unreachable(c) ==
    /\ at[c] = "connect"
    /\ ~Answered
    /\ Goes(c, "probe")
    /\ UNCHANGED <<sh, spawning, op, pid, child, result, others>>

\* Only the holder of the spawn lock spawns.  The others wait for hello.
TakeSpawnAnyway(c) ==
    /\ at[c] = "queue"
    /\ spawning' = c
    /\ Goes(c, "reprobe")
    /\ UNCHANGED <<sh, op, pid, child, result, others>>
TakeSpawn(c) ==
    /\ at[c] = "queue"
    /\ IF spawning = Nobody
       THEN spawning' = c /\ Goes(c, "reprobe")
       ELSE Goes(c, "wait") /\ UNCHANGED spawning
    /\ spoiled' = IF InVain THEN spoiled \cup {c} ELSE spoiled
    /\ UNCHANGED <<sh, op, pid, child, result, engineVars, strangers, used, hit, orphan>>
Recheck(c) == Probe(c, "reprobe", "wait", "spawn")

Spawn(c) ==
    /\ at[c] = "spawn"
    /\ \E e \in Engines :
           /\ stage[e] = "none" /\ \A f \in Engines : f < e => stage[f] # "none"
           /\ Becomes(e, "new")
           /\ child' = [child EXCEPT ![c] = e]
    /\ Goes(c, "wait")
    /\ UNCHANGED <<term, ex, pidfile, db, socket, sh, spawning, op, pid, result,
                   strangers, used, hit, orphan, spoiled>>

\* wait_until_ready: the spawned engine exited, or the time is up.  The time
\* is enough for a client to spawn its engine and for an engine to come up.
ChildExited(c) ==
    /\ at[c] = "wait" /\ ~Answered
    /\ child[c] # None /\ stage[child[c]] = "dead"
    /\ Returns(c, "failed")
    /\ UNCHANGED <<sh, op, pid, child, others>>
TimeOut(c) ==
    /\ \/ at[c] = "wait" /\ ~Answered
       \/ at[c] = "verify" /\ ~Reachable
    /\ ~Comes /\ ~Spawns
    /\ Returns(c, "failed")
    /\ UNCHANGED <<sh, op, pid, child, others>>

EnsureStep(c) ==
    \/ Hello(c) \/ Unreachable(c) \/ Probe(c, "probe", "wait", "queue")
    \/ TakeSpawn(c) \/ Recheck(c) \/ Spawn(c) \/ ChildExited(c) \/ TimeOut(c)

(* stop_engine, restart_engine *)

\* What is left once no engine, or another one, has the lock.
Then(c) == IF op[c] = "restart" THEN "connect" ELSE "stopped"
Stopped(c) ==
    /\ at[c] = "stopped"
    /\ Returns(c, "ok")
    /\ UNCHANGED <<sh, op, pid, child, others>>

\* serving_engine_pid: the peer of the socket, then the pid of the lock's holder.
VerifyByFile(c) ==
    /\ at[c] = "verify"
    /\ pidfile # None
    /\ pid' = [pid EXCEPT ![c] = pidfile]
    /\ Goes(c, "holder")
    /\ UNCHANGED <<sh, spawning, op, child, result, others>>
Verify(c) ==
    /\ at[c] = "verify"
    /\ Reachable
    /\ pid' = [pid EXCEPT ![c] = socket]
    /\ Goes(c, "holder")
    /\ UNCHANGED <<sh, spawning, op, child, result, others>>
Check(c) ==
    /\ at[c] = "check"
    /\ IF pidfile = pid[c]
       THEN Goes(c, IF op[c] = "restart" THEN "hello" ELSE "kill") /\ UNCHANGED <<result, spawning>>
       ELSE Returns(c, "failed")
    /\ UNCHANGED <<sh, op, pid, child, others>>
Refused(c) == at[c] = "refused" /\ Returns(c, "failed") /\ UNCHANGED <<sh, op, pid, child, others>>

\* The restart asks for the engine's version, and waits for one that is bound.
AskVersion(c) ==
    /\ at[c] = "hello"
    /\ ~(Reachable /\ stage[socket] = "bound")
    /\ Goes(c, IF Answered THEN "kill" ELSE "refused")
    /\ UNCHANGED <<sh, spawning, op, pid, child, result, others>>

\* SIGTERM.  A pid that nobody has fails a stop, not a restart.
Kill(c) ==
    LET p == pid[c]
        gone == ~Live(p) /\ p \notin strangers
    IN  /\ at[c] = "kill"
        /\ term' = IF stage[p] \in Rising THEN term \cup {p} ELSE term
        /\ hit' = (hit \/ p \in strangers)
        /\ Goes(c, IF gone /\ op[c] = "stop" THEN "refused" ELSE "leaving")
        /\ spoiled' = spoiled \cup (Busy \ {c})
        /\ UNCHANGED <<stage, ex, pidfile, db, socket, sh, spawning, op, pid, child, result,
                       strangers, used, orphan>>

\* The wait: the lock is held, and the pid in its file is still the old one.
Leaving(c) == Probe(c, "leaving", "holds", Then(c)) \/ Probe(c, "holds", "reads", Then(c))
ReadPid(c) ==
    /\ at[c] = "reads"
    /\ Goes(c, IF pidfile = pid[c] THEN "leaving" ELSE Then(c))
    /\ UNCHANGED <<sh, spawning, op, pid, child, result, others>>

StopStep(c) ==
    \/ Probe(c, "look", "verify", Then(c)) \/ Verify(c) \/ Probe(c, "holder", "check", "refused")
    \/ Check(c) \/ Refused(c) \/ AskVersion(c) \/ Kill(c) \/ Leaving(c) \/ ReadPid(c) \/ Stopped(c)

\* The client is killed: its locks go with it.
Interrupt(c) ==
    /\ c \in Busy
    /\ Faults
    /\ Returns(c, "killed")
    /\ sh' = sh \ {c}
    /\ orphan' = (orphan \/ (child[c] # None /\ stage[child[c]] = "new"))
    /\ spoiled' = IF spawning = c THEN spoiled \cup Busy ELSE spoiled
    /\ UNCHANGED <<engineVars, op, pid, child, strangers, hit>>
-----------------------------------------------------------------------------
ClientStep(c) == EnsureStep(c) \/ StopStep(c)

Next ==
    \/ \E e \in Engines : EngineStep(e) \/ Crash(e) \/ Sigint(e) \/ Reuse(e)
    \/ \E c \in Clients :
           \/ \E o \in {"ensure", "stop", "restart"} : Call(c, o)
           \/ ClientStep(c) \/ Interrupt(c)

\* Processes run, a drain ends at its hard deadline, and every wait of a
\* client has a deadline.
Fairness ==
    /\ \A e \in Engines : WF_vars(EngineStep(e))
    /\ \A c \in Clients : WF_vars(ClientStep(c))

Spec == Init /\ [][Next]_vars /\ Fairness
-----------------------------------------------------------------------------
Places == {"idle", "connect", "probe", "queue", "reprobe", "spawn", "wait", "look", "verify",
           "holder", "check", "hello", "kill", "refused", "leaving", "holds", "reads", "stopped"}
ProbePlaces == {"probe", "reprobe", "look", "holder", "leaving", "holds"}

TypeOK ==
    /\ stage \in [Engines -> Rising \cup Falling \cup {"none", "dead"}]
    /\ {ex, socket, pidfile} \subseteq Engines \cup {None}
    /\ term \cup db \cup strangers \subseteq Engines
    /\ sh \subseteq Clients /\ spawning \in Clients \cup {Nobody}
    /\ op \in [Clients -> {"none", "ensure", "stop", "restart"}]
    /\ at \in [Clients -> Places]
    /\ pid \in [Clients -> Engines \cup {None}] /\ child \in [Clients -> Engines \cup {None}]
    /\ result \in [Clients -> {"none", "ok", "failed", "killed"}]
    /\ spoiled \subseteq Clients /\ hit \in BOOLEAN /\ orphan \in BOOLEAN
    \* A probe's lock is held only inside the probe.
    /\ \A c \in sh : at[c] \in ProbePlaces

\* At most one engine has the database open, whatever order engines start,
\* stop and crash in.
OneOwner == Cardinality(db) <= 1

\* What clients reach at the socket's path is the engine that has the lock:
\* no other one binds over it or unlinks it while it serves.
SocketStays == \A e \in Engines : Listens(e) => socket = e /\ ex = e

\* Database, lock and socket have one owner, the same for all three.
OneEngine == TypeOK /\ OneOwner /\ SocketStays

\* A stop or restart signals no process but the engine: not one that got a
\* dead engine's pid from a lock file a new engine has not written yet.
NoStranger == ~hit

\* A stop or restart that succeeds has seen the engine it signalled off: its
\* database is closed and its hello answers no one.
OldIsGone ==
    \A c \in Clients :
        result[c] = "ok" /\ op[c] \in {"stop", "restart"} /\ pid[c] # None =>
            stage[pid[c]] = "dead"

\* A stop hits the engine, and is over when that engine is.
StopsTheEngine == NoStranger /\ OldIsGone

\* Clients spawn one engine between them, however they race, unless one was
\* killed between its spawn and its engine's lock.
OneComes == orphan \/ Cardinality({e \in Engines : Live(e)}) <= 1

\* A call fails only if a crash, a failed boot or another's stop met it, an
\* engine was on its way out at its start, it queued behind a client that
\* waits in vain, or after such a kill.
NoFalseAlarm == \A c \in Clients : result[c] = "failed" => c \in spoiled \/ orphan

\* Clients that race get one engine, and no failure without its cause.
StartIsTrue == OneComes /\ NoFalseAlarm

\* No call hangs, and no probe keeps an engine from its lock for good.
CallsEnd == <>[](Busy = {} /\ \A e \in Engines : stage[e] \notin Rising \ {"serving"})
=============================================================================
